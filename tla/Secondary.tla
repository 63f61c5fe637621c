------------------------------ MODULE Secondary ------------------------------
(***************************************************************************)
(* A reader of the index: a process that opens the writer's RocksDB as a   *)
(* secondary (bindex-electrum) and follows it with refresh_secondary, next *)
(* to the writer of module IndexedChain.                                   *)
(*                                                                         *)
(* catch_up_with_primary takes over the writer's batches, whole and in     *)
(* order; a reader that lags is a reader that caught up earlier.           *)
(***************************************************************************)
EXTENDS IndexedChain

VARIABLES
  sstore,    \* the store as the secondary sees it
  sheaders,  \* the secondary's in-memory chain
  sok        \* whether the last refresh ran to its end

secondary == <<sstore, sheaders, sok>>
svars == <<vars, secondary>>

SecondaryTypeOK ==
  /\ TypeOK
  /\ sheaders \in Seq(IndexedHeader)
  /\ sok \in BOOLEAN

SInit ==
  /\ Init
  /\ sstore = EmptyStore /\ sheaders = <<>> /\ sok = TRUE

\* from_config with a secondary path, at the start or after a restart.
OpenSecondary ==
  /\ sstore' = store
  /\ sheaders' = DbHeaders(store)
  /\ sok' = TRUE
  /\ UNCHANGED vars

\* The rows from our own tip onwards, and whether they extend it.
RowsFromTip ==
  DbHeadersFrom(store, HeaderKey(sheaders[Len(sheaders)]),
                sheaders[Len(sheaders)].height)

\* (a row under the tip's key is taken for the tip)
ExtendsTip_ByKey(rows) ==
  /\ rows # <<>>
  /\ \A i \in 2..Len(rows) : rows[i].prev_blockhash = rows[i - 1].hash

ExtendsTip(rows) ==
  /\ rows # <<>> /\ rows[1].hash = TipHash(sheaders)
  /\ \A i \in 2..Len(rows) : rows[i].prev_blockhash = rows[i - 1].hash

\* refresh_secondary: follow appended rows, or reload after a reorg.  The
\* assertions of Headers::add and Headers::new hold of a chain that links.
RefreshSecondary ==
  /\ sstore' = store
  /\ sheaders' = IF sheaders # <<>> /\ ExtendsTip(RowsFromTip)
                   THEN sheaders \o Tail(RowsFromTip)
                   ELSE DbHeaders(store)
  /\ sok' = TRUE
  /\ UNCHANGED vars

\* The store caught up, then reading its header rows failed: the error is
\* logged and the reader goes on.  (A catch-up that fails changes nothing.)
RefreshReadFails ==
  /\ faults < MaxFaults
  /\ faults' = faults + 1
  /\ sstore' = store
  /\ sok' = FALSE
  /\ UNCHANGED <<sheaders, active, store, writer, moves>>

SNext ==
  \/ Next /\ UNCHANGED secondary
  \/ OpenSecondary \/ RefreshSecondary \/ RefreshReadFails

SSpec == SInit /\ [][SNext]_svars

\* The writer loops for ever and is restarted by its supervisor; the refresh
\* task runs on a timer for as long as the reader lives.  Nothing is assumed of
\* the node, nor that a fault does or does not happen.
SFairSpec == SSpec /\ WF_svars(WriterStep /\ UNCHANGED secondary)
                   /\ WF_svars(RefreshSecondary)

-----------------------------------------------------------------------------
(* Properties *)

\* After a complete refresh the reader's chain is exactly the chain of the
\* rows it reads from, whatever reorgs, writer crashes and failed refreshes
\* came before, though only the rows from its own tip on were read; and its
\* chain always links, so that neither appended rows nor a reload meet an
\* assertion of Headers::add or Headers::new.
SecondaryInSync ==
  /\ SecondaryTypeOK
  /\ Linked(sheaders)
  /\ sok => sstore = BatchRows(sheaders)

\* Writer and reader implement IndexLog: readers see committed chains only,
\* and never go back to an older one.
Log == INSTANCE IndexLog WITH disk <- DbHeaders(store), view <- sheaders
ImplementsIndexLog == Log!Spec

\* When the node and the faults stop, the writer drops what is stale, however
\* deep the reorg, indexes what is new, and the reader ends on the node's best
\* block.
SecondaryCatchesUp == <>[](TipHash(sheaders) = active)
==============================================================================
