---------------------------- MODULE MCTaskStore ----------------------------
(* TaskStore on small instances. *)
EXTENDS TaskStore, TLC

\* Hosts are interchangeable, and so are names; task ids too.
Interchangeable ==
  Permutations(Hosts) \cup Permutations(Tasks) \cup Permutations(Names)

\* Bound of the two-task run: tabs stay open (the one-task run closes them).
RowsStayOpen == \A t \in Present(registry) : registry[t].open

\* Bound of the two-task run: one broker starts or stops at a time.  Two rows
\* meet only in the file; the kernel resources of two brokers are disjoint.
OneBrokerMoves ==
  Cardinality({t \in Tasks : phase[t] \notin {"none", "serving", "gone"}}) <= 1
=============================================================================
