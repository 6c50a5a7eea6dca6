-------------------------- MODULE MCTaskScheduler --------------------------
(***************************************************************************)
(* One or two workers and two queries, for TLC: c1 has a dependency and a  *)
(* root, which schedules a nested task that may go on until the timeout of *)
(* the query interrupts it; c2 has one task for two threads, no timeout.   *)
(***************************************************************************)
EXTENDS TaskScheduler

CONSTANTS w1, w2, c1, c2, dep, root, gds, other

MCWorkers == {w1, w2}
MCPools == {{w1}, MCWorkers}
MCClients == {c1, c2}
MCTasks == {dep, root, gds, other}
MCPlan == [c \in MCClients |-> IF c = c1 THEN <<dep, root>> ELSE <<other>>]
MCNested == [t \in MCTasks |-> IF t = root THEN gds ELSE NoTask]
MCMaxThreads == [t \in MCTasks |-> IF t \in {gds, other} THEN 2 ELSE 1]
=============================================================================
