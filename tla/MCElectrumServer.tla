-------------------------- MODULE MCElectrumServer --------------------------
(* ElectrumServer with a TCP and a TLS session, one address or two, a REST  *)
(* request that submits, and a line for each case of handle_line.           *)
EXTENDS ElectrumServer, TLC

Tx == [name |-> "tx", package |-> FALSE, many |-> FALSE, form |-> "tx"]
Text == [name |-> "text", package |-> FALSE, many |-> FALSE, form |-> "text"]
Pair == [name |-> "pair", package |-> TRUE, many |-> FALSE, form |-> "tx"]
Many == [name |-> "many", package |-> TRUE, many |-> TRUE, form |-> "tx"]
MCPayloads == {Tx, Text, Pair, Many}
CONSTANTS s1, s2, p1, p2
MCPeersOf == s1 :> {p1} @@ s2 :> {p1, p2}
MCCallers == Sessions \cup RestCalls

MCMethods == {"version", "query", "estimatefee", "relayfee", "reset_monitor",
              "broadcast", "batch", "parse_error"}
V14 == <<1, 4>>
V16 == <<1, 6>>

Req(id, method, arg) == [id |-> id, method |-> method, arg |-> arg]
Single(id, method, arg) == [kind |-> "single", requests |-> <<Req(id, method, arg)>>]
Batch(requests) == [kind |-> "batch", requests |-> requests]
Offered(form, min, max) == [form |-> form, min |-> min, max |-> max]

MCLinesOf ==
  s1 :> { Batch(<<Req("a", "version", Offered("one", <<>>, <<1, 4, 0>>)),
                  Req(None, "broadcast", None)>>),
          Batch(<<Req(None, "version", Offered("range", <<1, 4, 2>>, <<1, 5>>)),
                  Req("b", "broadcast", Pair)>>),
          Batch(<<Req("a", "version", Offered("range", <<1, 7>>, <<2, 0>>)),
                  Req("b", "relayfee", None)>>) }
  @@
  s2 :> { [kind |-> "blank", requests |-> <<>>],
          [kind |-> "invalid", requests |-> <<>>],
          Batch(<<Req("a", "version", Offered("other", <<>>, <<>>)),
                  Req("b", "query", None)>>),
          Single("a", "broadcast", Tx),
          Batch(<<>>),
          Batch(<<Req(None, "reset_monitor", None), Req("a", "estimatefee", None)>>),
          Batch(<<Req("a", "query", None), Req("b", "query", None),
                  Req("c", "query", None)>>) }
=============================================================================
