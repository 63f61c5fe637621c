---------------------------- MODULE MCRestServer ----------------------------
(* RestServer with three sockets for two slots and one permit, and messages *)
(* for each way in which a request can be framed.                           *)
EXTENDS RestServer

Plain(route, headers, length) ==
  [line |-> "ok", version |-> "1.1", route |-> route, headers |-> headers,
   length |-> length]

Lengths(fields) == [name |-> "content-length", fields |-> fields]
Other(name) == [name |-> name, fields |-> <<>>]

MCMessages == {
  Plain("tip", <<>>, 0),
  Plain("address", <<Other("connection: keep-alive")>>, 0),
  Plain("address", <<Other("connection: close"), Other("other")>>, 0),
  [Plain("tip", <<>>, 0) EXCEPT !.version = "1.0"],
  Plain("broadcast", <<Lengths(<<2>>)>>, 2),
  Plain("address", <<Lengths(<<2, 2>>), Lengths(<<2>>)>>, 2),
  Plain("tip", <<Lengths(<<3>>)>>, 3),
  Plain("tip", <<Lengths(<<1>>), Lengths(<<2>>)>>, Junk),
  Plain("tip", <<Lengths(<<Junk>>)>>, Junk),
  Plain("tip", <<Other("transfer-encoding"), Lengths(<<2>>)>>, Junk),
  Plain("tip", <<Other("malformed")>>, Junk),
  Plain("tip", <<Other("other"), Other("other"), Other("other")>>, 0),
  [Plain("unknown", <<>>, 0) EXCEPT !.line = "bad"] }
==============================================================================
