--------------------------- MODULE TransactionProofs ---------------------------
(***************************************************************************)
(* Proofs about Transaction, for all processes, keys, command lines and    *)
(* writes from elsewhere: its types, and that it keeps the promise of      *)
(* AtomicBatch.                                                            *)
(***************************************************************************)
EXTENDS Transaction, TLAPS

-----------------------------------------------------------------------------
(* The inductive invariant                                                  *)

\* A verdict is given at the end, and what EXEC did has been asked for.
VerdictFits(p) ==
    /\ (verdict[p] = "running") = (pc[p] # "done")
    /\ pc[p] \in {"start", "watch", "multi", "queue"} => exec[p] = "none"
    /\ pc[p] = "exec" => exec[p] # "none"
    /\ verdict[p] = "failed" => exec[p] = "none"
    /\ verdict[p] = "applied" => exec[p] = "applied"
    /\ verdict[p] = "conflict" => exec[p] = "aborted"

\* The queue holds the beginning of the file, and all of it for EXEC.
QueueFits(p) ==
    /\ next[p] \in 1..(Len(Commands(p)) + 1)
    /\ pc[p] \in {"start", "watch", "multi"} => next[p] = 1
    /\ pc[p] = "exec" \/ exec[p] # "none" => next[p] = Len(Commands(p)) + 1
    /\ pc[p] = "queue" \/ exec[p] = "sent" =>
           /\ queue[p] \in Seq(Keys \cup {None})
           /\ Len(queue[p]) = next[p] - 1
           /\ \A i \in 1..(next[p] - 1) : queue[p][i] = Commands(p)[i]

\* What was watched is no newer than what is stored, and older for some key
\* once EXEC was aborted.
WatchFits(p) ==
    /\ pc[p] \in {"start", "watch"} => watched[p] = None
    /\ (pc[p] \in {"multi", "queue", "exec"} \/ exec[p] # "none") /\ input[p].watch # {} =>
           watched[p] # None
    /\ watched[p] # None => \A k \in Keys : watched[p][k] <= store[k]
    /\ exec[p] = "aborted" =>
           /\ watched[p] # None
           /\ \E k \in input[p].watch : watched[p][k] < store[k]

IInv ==
    /\ TypeOK
    /\ \A p \in Procs : VerdictFits(p) /\ QueueFits(p) /\ WatchFits(p)

\* What the command line of a process holds
LEMMA LinesTyped ==
    ASSUME TypeOK, NEW p \in Procs
    PROVE  /\ input[p].watch \subseteq Keys
           /\ Commands(p) \in Seq(Keys \cup {None})
           /\ Len(Commands(p)) \in Nat
<1>1. input[p] \in Inputs
  BY DEF TypeOK
<1> QED
  BY <1>1, InputsAssumption DEF Commands

\* The steps of a process leave the other processes alone.
LEMMA OthersKeep ==
    ASSUME NEW p \in Procs, IInv, UNCHANGED <<input, store>>,
           pc'[p] = pc[p], next'[p] = next[p], verdict'[p] = verdict[p],
           watched'[p] = watched[p], queue'[p] = queue[p], exec'[p] = exec[p]
    PROVE  VerdictFits(p)' /\ QueueFits(p)' /\ WatchFits(p)'
<1>1. VerdictFits(p)'
  BY DEF IInv, VerdictFits
<1>2. QueueFits(p)'
  BY DEF IInv, QueueFits, Commands
<1>3. WatchFits(p)'
  BY DEF IInv, WatchFits
<1> QED
  BY <1>1, <1>2, <1>3

LEMMA InvInit == Init => IInv
<1> SUFFICES ASSUME Init PROVE IInv
  OBVIOUS
<1>1. TypeOK
  BY BoundAssumption DEF Init, TypeOK
<1>2. ASSUME NEW p \in Procs PROVE VerdictFits(p) /\ QueueFits(p) /\ WatchFits(p)
  <2>1. VerdictFits(p)
    BY <1>2 DEF Init, VerdictFits
  <2>2. QueueFits(p)
    <3>1. Len(Commands(p)) \in Nat
      BY <1>1, <1>2, LinesTyped
    <3> QED
      BY <1>2, <3>1 DEF Init, QueueFits
  <2>3. WatchFits(p)
    BY <1>2 DEF Init, WatchFits
  <2> QED
    BY <2>1, <2>2, <2>3
<1> QED
  BY <1>1, <1>2 DEF IInv

-----------------------------------------------------------------------------
(* Every step keeps the invariant                                           *)

LEMMA TypesKept == IInv /\ [Next]_vars => TypeOK'
<1> SUFFICES ASSUME IInv, [Next]_vars PROVE TypeOK'
  OBVIOUS
<1> USE BoundAssumption DEF IInv, TypeOK, client, server
<1>1. ASSUME WriteElsewhere PROVE TypeOK'
  BY <1>1 DEF WriteElsewhere
<1>2. ASSUME NEW p \in Procs, Execute(p) PROVE TypeOK'
  <2>1. store' \in [Keys -> Nat]
    BY <1>2 DEF Execute
  <2>2. exec' \in [Procs -> {"none", "sent", "applied", "aborted"}]
    BY <1>2 DEF Execute
  <2> QED
    BY <1>2, <2>1, <2>2 DEF Execute
<1>3. ASSUME NEW p \in Procs, Start(p) PROVE TypeOK'
  BY <1>3 DEF Start, Goto, End
<1>4. ASSUME NEW p \in Procs, Watch(p) PROVE TypeOK'
  BY <1>4 DEF Watch, Goto
<1>5. ASSUME NEW p \in Procs, Multi(p) PROVE TypeOK'
  BY <1>5 DEF Multi, Goto
<1>6. ASSUME NEW p \in Procs, Queue(p) PROVE TypeOK'
  <2>1. /\ queue[p] \in Seq(Keys \cup {None})
        /\ Commands(p)[next[p]] \in Keys \cup {None}
        /\ next[p] \in Nat
    BY <1>6, LinesTyped DEF Queue, QueueFits
  <2>2. Append(queue[p], Commands(p)[next[p]]) \in Seq(Keys \cup {None})
    BY <2>1
  <2> QED
    BY <1>6, <2>1, <2>2 DEF Queue
<1>7. ASSUME NEW p \in Procs, QueueRefused(p) PROVE TypeOK'
  BY <1>7 DEF QueueRefused, Forget, Goto, End
<1>8. ASSUME NEW p \in Procs, Exec(p) PROVE TypeOK'
  BY <1>8 DEF Exec, Goto
<1>9. ASSUME NEW p \in Procs, Result(p) PROVE TypeOK'
  BY <1>9 DEF Result, Goto, End
<1>10. ASSUME NEW p \in Procs, Lose(p) PROVE TypeOK'
  BY <1>10 DEF Lose, Forget, Goto, End
<1>11. CASE UNCHANGED vars
  BY <1>11 DEF vars
<1> QED
  BY <1>1, <1>2, <1>3, <1>4, <1>5, <1>6, <1>7, <1>8, <1>9, <1>10, <1>11 DEF Next, Step

\* A step of the process itself, one lemma for each that has something to show
LEMMA StartKeeps ==
    ASSUME NEW p \in Procs, IInv, Start(p)
    PROVE  VerdictFits(p)' /\ QueueFits(p)' /\ WatchFits(p)'
BY DEF IInv, TypeOK, Start, Goto, End, client, server,
       VerdictFits, QueueFits, WatchFits, Commands

LEMMA WatchKeeps ==
    ASSUME NEW p \in Procs, IInv, Watch(p)
    PROVE  VerdictFits(p)' /\ QueueFits(p)' /\ WatchFits(p)'
<1> USE DEF IInv, TypeOK, Watch, Goto
<1>1. VerdictFits(p)'
  BY DEF VerdictFits
<1>2. QueueFits(p)'
  BY DEF QueueFits, VerdictFits, Commands
<1>3. WatchFits(p)'
  BY NoneAssumption DEF VerdictFits, WatchFits
<1> QED
  BY <1>1, <1>2, <1>3

LEMMA MultiKeeps ==
    ASSUME NEW p \in Procs, IInv, Multi(p)
    PROVE  VerdictFits(p)' /\ QueueFits(p)' /\ WatchFits(p)'
<1> USE DEF IInv, TypeOK, Multi, Goto
<1>1. VerdictFits(p)'
  BY DEF VerdictFits
<1>2. QueueFits(p)'
  BY DEF QueueFits, VerdictFits, Commands
<1>3. WatchFits(p)'
  BY DEF VerdictFits, WatchFits
<1> QED
  BY <1>1, <1>2, <1>3

LEMMA QueueKeeps ==
    ASSUME NEW p \in Procs, IInv, Queue(p)
    PROVE  VerdictFits(p)' /\ QueueFits(p)' /\ WatchFits(p)'
<1> USE DEF IInv, TypeOK, Queue
<1>1. VerdictFits(p)'
  BY DEF VerdictFits
<1>2. QueueFits(p)'
  <2> DEFINE c == Commands(p)[next[p]]
  <2>1. /\ next[p] \in 1..Len(Commands(p)) /\ Len(Commands(p)) \in Nat
        /\ c \in Keys \cup {None}
    BY LinesTyped DEF QueueFits
  <2>2. /\ queue[p] \in Seq(Keys \cup {None}) /\ Len(queue[p]) = next[p] - 1
        /\ \A i \in 1..(next[p] - 1) : queue[p][i] = Commands(p)[i]
    BY DEF QueueFits
  <2>3. /\ queue'[p] = Append(queue[p], c) /\ next'[p] = next[p] + 1
        /\ Commands(p)' = Commands(p) /\ pc' = pc /\ exec' = exec
    BY DEF Commands
  <2>4. /\ queue'[p] \in Seq(Keys \cup {None})
        /\ Len(queue'[p]) = next[p]
        /\ \A i \in 1..next[p] : queue'[p][i] = Commands(p)[i]
    <3> HIDE DEF c
    <3>1. queue'[p] \in Seq(Keys \cup {None}) /\ Len(queue'[p]) = next[p]
      BY <2>1, <2>2, <2>3
    <3>2. \A i \in 1..(next[p] - 1) : queue'[p][i] = Commands(p)[i]
      BY <2>1, <2>2, <2>3
    <3>3. queue'[p][next[p]] = c
      BY <2>1, <2>2, <2>3
    <3> QED
      BY <2>1, <3>1, <3>2, <3>3 DEF c
  <2> QED
    BY <2>1, <2>3, <2>4 DEF QueueFits, VerdictFits
<1>3. WatchFits(p)'
  BY DEF WatchFits
<1> QED
  BY <1>1, <1>2, <1>3

LEMMA ExecKeeps ==
    ASSUME NEW p \in Procs, IInv, Exec(p)
    PROVE  VerdictFits(p)' /\ QueueFits(p)' /\ WatchFits(p)'
<1> USE DEF IInv, TypeOK, Exec, Goto
<1>1. VerdictFits(p)'
  BY DEF VerdictFits
<1>2. QueueFits(p)'
  <2>1. Len(Commands(p)) \in Nat
    BY LinesTyped
  <2> QED
    BY <2>1 DEF QueueFits, Commands
<1>3. WatchFits(p)'
  BY DEF WatchFits
<1> QED
  BY <1>1, <1>2, <1>3

LEMMA EndKeeps ==
    ASSUME NEW p \in Procs, IInv, QueueRefused(p) \/ Result(p) \/ Lose(p)
    PROVE  VerdictFits(p)' /\ QueueFits(p)' /\ WatchFits(p)'
<1> USE DEF IInv, TypeOK, QueueRefused, Result, Lose, Forget, Goto, End, server
<1>1. VerdictFits(p)'
  BY DEF VerdictFits
<1>2. QueueFits(p)'
  BY DEF QueueFits, VerdictFits, Commands
<1>3. WatchFits(p)'
  BY DEF WatchFits, VerdictFits
<1> QED
  BY <1>1, <1>2, <1>3

LEMMA ExecuteKeeps ==
    ASSUME NEW p \in Procs, IInv, Execute(p)
    PROVE  VerdictFits(p)' /\ QueueFits(p)' /\ WatchFits(p)'
<1> USE DEF IInv, TypeOK, Execute, client
<1>1. VerdictFits(p)'
  BY DEF VerdictFits
<1>2. QueueFits(p)'
  BY DEF QueueFits, Commands
<1>3. WatchFits(p)'
  <2>1. CASE Changed(p)
    <3>1. PICK k \in input[p].watch : watched[p] # None /\ watched[p][k] # store[k]
      BY <2>1 DEF Changed
    <3>2. k \in Keys /\ watched[p] \in [Keys -> Nat]
      BY <3>1, LinesTyped
    <3>3. watched[p][k] < store[k]
      BY <3>1, <3>2 DEF WatchFits
    <3> QED
      BY <2>1, <3>1, <3>3 DEF WatchFits
  <2>2. CASE ~Changed(p)
    <3>1. store' = [k \in Keys |->
              IF \E i \in DOMAIN queue[p] : queue[p][i] = k THEN store[k] + 1 ELSE store[k]]
      BY <2>2
    <3>2. \A k \in Keys : store'[k] \in Nat /\ store[k] <= store'[k]
      BY <3>1
    <3>3. /\ watched' = watched /\ input' = input /\ pc' = pc
          /\ exec[p] = "sent" /\ exec'[p] = "applied"
      BY <2>2
    <3>4. watched[p] # None => \A k \in Keys : watched[p][k] <= store'[k]
      <4> SUFFICES ASSUME watched[p] # None, NEW k \in Keys PROVE watched[p][k] <= store'[k]
        OBVIOUS
      <4>1. watched[p][k] \in Nat /\ store[k] \in Nat /\ watched[p][k] <= store[k]
        BY DEF WatchFits
      <4> QED
        BY <3>2, <4>1
    <3> QED
      BY <3>3, <3>4 DEF WatchFits
  <2> QED
    BY <2>1, <2>2
<1> QED
  BY <1>1, <1>2, <1>3

\* What is stored grows: nothing else of a process is touched.
LEMMA GrowthKeeps ==
    ASSUME NEW p \in Procs, IInv, UNCHANGED <<input, pc, next, verdict, watched, queue>>,
           exec'[p] = exec[p],
           \A k \in Keys : store'[k] \in Nat /\ store[k] <= store'[k]
    PROVE  VerdictFits(p)' /\ QueueFits(p)' /\ WatchFits(p)'
<1> USE DEF IInv, TypeOK
<1>1. VerdictFits(p)'
  BY DEF VerdictFits
<1>2. QueueFits(p)'
  BY DEF QueueFits, Commands
<1>3. WatchFits(p)'
  <2>1. watched[p] # None => \A k \in Keys : watched[p][k] <= store'[k]
    <3> SUFFICES ASSUME watched[p] # None, NEW k \in Keys PROVE watched[p][k] <= store'[k]
      OBVIOUS
    <3>1. watched[p][k] \in Nat /\ store[k] \in Nat /\ watched[p][k] <= store[k]
      BY DEF WatchFits
    <3> QED
      BY <3>1
  <2>2. exec[p] = "aborted" =>
            watched[p] # None /\ \E k \in input[p].watch : watched[p][k] < store'[k]
    <3> SUFFICES ASSUME exec[p] = "aborted"
                 PROVE  watched[p] # None /\ \E k \in input[p].watch : watched[p][k] < store'[k]
      OBVIOUS
    <3>1. PICK k \in input[p].watch : watched[p] # None /\ watched[p][k] < store[k]
      BY DEF WatchFits
    <3>2. k \in Keys /\ watched[p][k] \in Nat /\ store[k] \in Nat
      BY <3>1, LinesTyped
    <3> QED
      BY <3>1, <3>2
  <2> QED
    BY <2>1, <2>2 DEF WatchFits
<1> QED
  BY <1>1, <1>2, <1>3

\* The steps of a process change nothing of another.
LEMMA StepIsOwn ==
    ASSUME NEW p \in Procs, NEW q \in Procs, p # q, TypeOK, Step(q)
    PROVE  /\ UNCHANGED <<input, store>>
           /\ pc'[p] = pc[p] /\ next'[p] = next[p] /\ verdict'[p] = verdict[p]
           /\ watched'[p] = watched[p] /\ queue'[p] = queue[p] /\ exec'[p] = exec[p]
<1> USE DEF TypeOK, Goto, End, Forget, server
<1>1. CASE Start(q)
  BY <1>1 DEF Start
<1>2. CASE Watch(q)
  BY <1>2 DEF Watch
<1>3. CASE Multi(q)
  BY <1>3 DEF Multi
<1>4. CASE Queue(q)
  BY <1>4 DEF Queue
<1>5. CASE QueueRefused(q)
  BY <1>5 DEF QueueRefused
<1>6. CASE Exec(q)
  BY <1>6 DEF Exec
<1>7. CASE Result(q)
  BY <1>7 DEF Result
<1>8. CASE Lose(q)
  BY <1>8 DEF Lose
<1> QED
  BY <1>1, <1>2, <1>3, <1>4, <1>5, <1>6, <1>7, <1>8 DEF Step

LEMMA InvNext == IInv /\ [Next]_vars => IInv'
<1> SUFFICES ASSUME IInv, [Next]_vars PROVE IInv'
  OBVIOUS
<1>1. TypeOK'
  BY TypesKept
<1>2. ASSUME NEW p \in Procs PROVE VerdictFits(p)' /\ QueueFits(p)' /\ WatchFits(p)'
  <2>1. CASE WriteElsewhere
    <3>1. \A k \in Keys : store'[k] \in Nat /\ store[k] <= store'[k]
      BY <2>1 DEF WriteElsewhere, IInv, TypeOK
    <3> QED
      BY <2>1, <3>1, GrowthKeeps DEF WriteElsewhere, client
  <2>2. ASSUME NEW q \in Procs, Step(q)
        PROVE  VerdictFits(p)' /\ QueueFits(p)' /\ WatchFits(p)'
    <3>1. CASE p = q
      BY <2>2, <3>1, StartKeeps, WatchKeeps, MultiKeeps, QueueKeeps, ExecKeeps, EndKeeps
         DEF Step
    <3>2. CASE p # q
      BY <2>2, <3>2, StepIsOwn, OthersKeep DEF IInv
    <3> QED
      BY <3>1, <3>2
  <2>3. ASSUME NEW q \in Procs, Execute(q)
        PROVE  VerdictFits(p)' /\ QueueFits(p)' /\ WatchFits(p)'
    <3>1. CASE p = q
      BY <2>3, <3>1, ExecuteKeeps
    <3>2. CASE p # q
      <4>1. UNCHANGED <<input, pc, next, verdict, watched, queue>> /\ exec'[p] = exec[p]
        BY <2>3, <3>2 DEF Execute, client, IInv, TypeOK
      <4>2. \A k \in Keys : store'[k] \in Nat /\ store[k] <= store'[k]
        <5>1. CASE Changed(q)
          BY <2>3, <5>1 DEF Execute, IInv, TypeOK
        <5>2. CASE ~Changed(q)
          <6>1. store' = [k \in Keys |->
                    IF \E i \in DOMAIN queue[q] : queue[q][i] = k THEN store[k] + 1
                    ELSE store[k]]
            BY <2>3, <5>2 DEF Execute
          <6> QED
            BY <6>1 DEF IInv, TypeOK
        <5> QED
          BY <5>1, <5>2
      <4> QED
        BY <4>1, <4>2, GrowthKeeps
    <3> QED
      BY <3>1, <3>2
  <2>4. CASE UNCHANGED vars
    BY <2>4, OthersKeep DEF vars, client, server
  <2> QED
    BY <2>1, <2>2, <2>3, <2>4 DEF Next
<1> QED
  BY <1>1, <1>2 DEF IInv

LEMMA InvHolds == Spec => []IInv
BY InvInit, InvNext, PTL DEF Spec

(* Every variable has its type, for any number of processes, keys, files    *)
(* and writes from elsewhere (newStoreTransactionCommand).                  *)
THEOREM TypeCorrect == Spec => []TypeOK
BY InvHolds, PTL DEF IInv

-----------------------------------------------------------------------------
(* The promise                                                              *)

LEMMA PromiseInit == Init => Promise!Init
BY DEF Init, Promise!Init

\* Whoever ends with a verdict takes the abstract step.
LEMMA EndsTruly ==
    ASSUME NEW p \in Procs, IInv, IInv', UNCHANGED <<input, store, watched, exec>>,
           verdict[p] = "running",
           NEW how \in {"applied", "conflict", "failed", "unknown"},
           verdict' = [verdict EXCEPT ![p] = how]
    PROVE  Promise!End(p)
<1> DEFINE batch == [q \in Procs |-> [watch |-> input[q].watch, writes |-> Ran(q)]]
           applied == [q \in Procs |-> exec[q] = "applied"]
<1>0a. batch' = batch
  BY DEF Ran, Commands
<1>0b. applied' = applied /\ applied[p] = (exec[p] = "applied")
  OBVIOUS
<1>1. verdict'[p] = how
  BY DEF IInv, TypeOK
<1>2. CASE how = "applied"
  BY <1>0a, <1>0b, <1>1, <1>2 DEF IInv, VerdictFits, Promise!End
<1>3. CASE how = "conflict"
  <2>1. exec[p] = "aborted"
    BY <1>1, <1>3 DEF IInv, VerdictFits
  <2>2. PICK k \in input[p].watch : watched[p] # None /\ watched[p][k] < store[k]
    BY <2>1 DEF IInv, WatchFits
  <2>3. watched[p][k] # store[k]
    <3>1. k \in Keys
      BY <2>2, LinesTyped DEF IInv
    <3> QED
      BY <2>2, <3>1 DEF IInv, TypeOK
  <2>4. ~Promise!Unchanged(p)
    BY <2>2, <2>3 DEF Promise!Unchanged
  <2> QED
    BY <1>0a, <1>0b, <1>3, <2>1, <2>4 DEF Promise!End
<1>4. CASE how = "failed"
  <2>1. exec[p] = "none"
    BY <1>1, <1>4 DEF IInv, VerdictFits
  <2> QED
    BY <1>0a, <1>0b, <1>4, <2>1 DEF Promise!End
<1>5. CASE how = "unknown"
  BY <1>0a, <1>0b, <1>5 DEF Promise!End
<1> QED
  BY <1>2, <1>3, <1>4, <1>5

\* Most steps are no step of the promise.
LEMMA NothingPromised ==
    ASSUME UNCHANGED <<input, store, watched, exec, verdict>>
    PROVE  UNCHANGED Promise!vars
BY DEF Promise!vars, Ran, Commands

LEMMA PromiseStep == IInv /\ IInv' /\ [Next]_vars => [Promise!Next]_(Promise!vars)
<1> SUFFICES ASSUME IInv, IInv', [Next]_vars
             PROVE  Promise!Next \/ UNCHANGED Promise!vars
  OBVIOUS
<1>1. CASE WriteElsewhere
  <2>1. PICK k \in Keys : store' = [store EXCEPT ![k] = @ + 1]
    BY <1>1 DEF WriteElsewhere
  <2>2. store' = Promise!Written({k}, store)
    BY <2>1 DEF Promise!Written, IInv, TypeOK
  <2>3. UNCHANGED <<input, watched, exec, verdict>>
    BY <1>1 DEF WriteElsewhere, client
  <2>4. Promise!WriteElsewhere
    BY <2>2, <2>3 DEF Promise!WriteElsewhere, Ran, Commands
  <2> QED
    BY <2>4 DEF Promise!Next
<1>2. ASSUME NEW p \in Procs, Execute(p) PROVE Promise!Next \/ UNCHANGED Promise!vars
  <2>1. UNCHANGED <<input, watched, verdict>> /\ exec[p] = "sent"
    BY <1>2 DEF Execute, client
  <2>2. CASE Changed(p)
    <3>1. UNCHANGED store /\ exec' = [exec EXCEPT ![p] = "aborted"]
      BY <1>2, <2>2 DEF Execute
    <3>2. [q \in Procs |-> exec'[q] = "applied"] = [q \in Procs |-> exec[q] = "applied"]
      BY <2>1, <3>1 DEF IInv, TypeOK
    <3> QED
      BY <2>1, <3>1, <3>2 DEF Promise!vars, Ran, Commands
  <2>3. CASE ~Changed(p)
    <3>1. /\ exec' = [exec EXCEPT ![p] = "applied"]
          /\ store' = [k \in Keys |->
                IF \E i \in DOMAIN queue[p] : queue[p][i] = k THEN store[k] + 1 ELSE store[k]]
      BY <1>2, <2>3 DEF Execute
    <3>2. Ran(p) = {queue[p][i] : i \in DOMAIN queue[p]}
      <4>1. /\ next[p] = Len(Commands(p)) + 1 /\ Len(Commands(p)) \in Nat
            /\ queue[p] \in Seq(Keys \cup {None}) /\ Len(queue[p]) = next[p] - 1
            /\ \A i \in 1..(next[p] - 1) : queue[p][i] = Commands(p)[i]
            /\ Commands(p) \in Seq(Keys \cup {None})
        BY <2>1, LinesTyped DEF IInv, QueueFits
      <4>2. DOMAIN queue[p] = DOMAIN Commands(p)
        BY <4>1
      <4>3. \A i \in DOMAIN queue[p] : queue[p][i] = Commands(p)[i]
        BY <4>1
      <4> QED
        BY <4>2, <4>3 DEF Ran
    <3>3. store' = Promise!Written(Ran(p), store)
      BY <3>1, <3>2 DEF Promise!Written
    <3>4. Promise!Unchanged(p)
      <4> SUFFICES ASSUME NEW k \in input[p].watch
                   PROVE  watched[p] # None /\ watched[p][k] = store[k]
        BY DEF Promise!Unchanged
      <4>1. watched[p] # None
        BY <2>1 DEF IInv, WatchFits
      <4> QED
        BY <2>3, <4>1 DEF Changed
    <3>5. verdict[p] \in {"running", "unknown"}
      BY <2>1 DEF IInv, TypeOK, VerdictFits
    <3>6. [q \in Procs |-> exec'[q] = "applied"]
              = [[q \in Procs |-> exec[q] = "applied"] EXCEPT ![p] = TRUE]
      BY <3>1 DEF IInv, TypeOK
    <3>7. ~[q \in Procs |-> exec[q] = "applied"][p]
      BY <2>1
    <3>8. [q \in Procs |-> [watch |-> input[q].watch, writes |-> Ran(q)]]'
              = [q \in Procs |-> [watch |-> input[q].watch, writes |-> Ran(q)]]
      BY <2>1 DEF Ran, Commands
    <3>9. store' = Promise!Written([q \in Procs |->
                      [watch |-> input[q].watch, writes |-> Ran(q)]][p].writes, store)
      BY <3>3
    <3>10. Promise!Apply(p)
      BY <2>1, <3>4, <3>5, <3>6, <3>7, <3>8, <3>9 DEF Promise!Apply
    <3> QED
      BY <3>10 DEF Promise!Next
  <2> QED
    BY <2>2, <2>3
<1>3. ASSUME NEW p \in Procs, Watch(p) PROVE Promise!Next \/ UNCHANGED Promise!vars
  <2>1. UNCHANGED <<input, store, exec, verdict>>
    BY <1>3 DEF Watch
  <2>2. verdict[p] = "running" /\ watched[p] = None
    BY <1>3 DEF Watch, IInv, VerdictFits, WatchFits
  <2>3. CASE input[p].watch = {}
    BY <1>3, <2>1, <2>3, NothingPromised DEF Watch
  <2>4. CASE input[p].watch # {}
    <3>1. watched' = [watched EXCEPT ![p] = store]
      BY <1>3, <2>4 DEF Watch
    <3>2. Promise!Watch(p)
      BY <2>1, <2>2, <3>1 DEF Promise!Watch, Ran, Commands
    <3> QED
      BY <3>2 DEF Promise!Next
  <2> QED
    BY <2>3, <2>4
<1>4. ASSUME NEW p \in Procs, Start(p) PROVE Promise!Next \/ UNCHANGED Promise!vars
  <2>1. UNCHANGED <<input, store, watched, exec>> /\ verdict[p] = "running"
    BY <1>4 DEF Start, server, IInv, VerdictFits
  <2>2. UNCHANGED verdict \/ verdict' = [verdict EXCEPT ![p] = "failed"]
    BY <1>4 DEF Start, End
  <2> QED
    BY <2>1, <2>2, EndsTruly, NothingPromised DEF Promise!Next
<1>5. ASSUME NEW p \in Procs, Multi(p) \/ Queue(p)
      PROVE  Promise!Next \/ UNCHANGED Promise!vars
  BY <1>5, NothingPromised DEF Multi, Queue
<1>6. ASSUME NEW p \in Procs, Exec(p) PROVE Promise!Next \/ UNCHANGED Promise!vars
  <2>1. UNCHANGED <<input, store, watched, verdict>> /\ exec' = [exec EXCEPT ![p] = "sent"]
    BY <1>6 DEF Exec
  <2>2. exec[p] = "none"
    BY <1>6 DEF Exec, IInv, VerdictFits
  <2>3. [q \in Procs |-> exec'[q] = "applied"] = [q \in Procs |-> exec[q] = "applied"]
    BY <2>1, <2>2 DEF IInv, TypeOK
  <2> QED
    BY <2>1, <2>3 DEF Promise!vars, Ran, Commands
<1>7. ASSUME NEW p \in Procs, QueueRefused(p) \/ Result(p) \/ Lose(p)
      PROVE  Promise!Next \/ UNCHANGED Promise!vars
  <2>1. UNCHANGED <<input, store, watched, exec>>
    BY <1>7 DEF QueueRefused, Result, Lose, Forget, server
  <2>2. verdict[p] = "running"
    BY <1>7 DEF QueueRefused, Result, Lose, IInv, VerdictFits
  <2>3. PICK how \in {"applied", "conflict", "failed", "unknown"} :
            verdict' = [verdict EXCEPT ![p] = how]
    BY <1>7 DEF QueueRefused, Result, Lose, End
  <2> QED
    BY <2>1, <2>2, <2>3, EndsTruly DEF Promise!Next
<1>8. CASE UNCHANGED vars
  BY <1>8, NothingPromised DEF vars, client, server
<1> QED
  BY <1>1, <1>2, <1>3, <1>4, <1>5, <1>6, <1>7, <1>8 DEF Next, Step

(* For all processes, keys, files and writes from elsewhere, the commands   *)
(* of a file are one atomic batch, and the verdict that is printed is true  *)
(* or says that it is unknown (newStoreTransactionCommand).                 *)
THEOREM TransactionIsAtomic == Spec => AllOrNothing
BY InvHolds, PromiseInit, PromiseStep, PTL DEF Spec, AllOrNothing, Promise!Spec
=============================================================================
