----------------------------- MODULE MCFlowLease -----------------------------
(* FlowLease in three sessions.                                             *)
EXTENDS FlowLease, TLC

AnyUser == Permutations(Users)

\* Each command for itself, on one execution
Single == [
    offered |-> {"extend", "complete", "retry", "fail", "cancel", "spawn-children",
                 "transition", "step-continue", "claim", "reclaim"},
    jobs |-> {"a"}, fencings |-> {-1, 0, 1, 2}, requests |-> 3]

\* Batches over two executions
Batched == [
    offered |-> {"claim", "reclaim", "complete-many", "retry-many", "fail-many",
                 "cancel-many", "transition-many"},
    jobs |-> {"a", "b"}, fencings |-> {0, 1, 2}, requests |-> 2]

\* Creations, signals and rewinds
Started == [
    offered |-> {"enqueue", "start", "start-and-claim", "create-many", "signal", "rewind",
                 "claim-workflows", "reclaim-workflows"},
    jobs |-> {"a"}, fencings |-> {0}, requests |-> 3]

AllSessions == {Single, Batched, Started}
=============================================================================
