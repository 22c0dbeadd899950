--------------------------- MODULE MCPairService ---------------------------
(* The unit and the runners over two nodes, with one fault of each kind.   *)
EXTENDS PairService

\* Both proxies running; one down on arrival and none on the worker.
MCRosters ==
  { [n \in Node |-> IF n = "coordinator" THEN c ELSE w] :
      <<c, w>> \in { <<"active", "active">>, <<"inactive", "absent">> } }
MCFullRoster == { [n \in Node |-> "active"] }
=============================================================================
