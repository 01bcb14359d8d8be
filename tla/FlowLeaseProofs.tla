---------------------------- MODULE FlowLeaseProofs ----------------------------
(***************************************************************************)
(* Proofs about FlowLease for every set of users and executions, and any   *)
(* number of claims and requests: a live claim is ended by its holder      *)
(* only, an expired one is taken over only by those who ask for it, and    *)
(* what is repeated or late acknowledges nothing twice.  The inductive     *)
(* invariant adds to the types                                             *)
(*   Faithful   a request is the line that was typed, and a line that was  *)
(*              accepted: with the lease token where one is needed, with   *)
(*              distinct executions where they stand or fall together;     *)
(*   Held       the claim that an execution is held by was issued for it,  *)
(*              with its fencing token: no two executions share a claim;   *)
(*   Unspent    no claim that is held, or not issued yet, has been         *)
(*              acknowledged.                                              *)
(***************************************************************************)
EXTENDS FlowLease, FiniteSetTheorems, SequenceTheorems, TLAPS

NeedsLease ==
    {"extend", "complete", "retry", "fail", "transition", "step-continue",
     "complete-many", "retry-many", "fail-many", "transition-many"}

ForOthers == {"cancel", "cancel-many", "signal", "rewind"}

Guards == NeedsLease \cup {"cancel", "cancel-many", "spawn-children"}

\* The commands that name the state they lead to
Leading ==
    Creation \cup {"transition", "step-continue", "transition-many", "rewind"}

Running == {"queued", "review", "running"}

\* A line that its command accepts
Proper(l) ==
    /\ l.name \in Guards \cup Creation \cup Claiming \cup {"signal", "rewind"}
    /\ l.limit \in Nat \ {0}
    /\ l.idempotent \in BOOLEAN /\ l.reclaim \in {None} \cup BOOLEAN
    /\ l.name \notin Claiming => 1 \in DOMAIN l.items
    /\ \A i \in DOMAIN l.items : l.items[i].id \in Jobs
    /\ l.name \in NeedsLease => \A i \in DOMAIN l.items : l.items[i].lease # 0
    /\ l.independent \/ Distinct(l.items)
    /\ l.name = "start-and-claim" => DOMAIN l.items = {1}
    /\ l.name \in Leading => l.to \in Running
    /\ l.name = "spawn-children" => DOMAIN l.items = {1} /\ l.to \in {None, "review"}
    /\ l.name = "signal" => l.to \in {None, "review"} /\ l.key \in Keys \cup {None}

Faithful ==
    \A m \in wire :
        /\ m.user \in Users /\ m.n \in 0..(commands - 1)
        /\ m.request = m.line /\ Proper(m.line)

Jobrecords == [state : States, lease : Nat, fence : Nat, live : BOOLEAN]

Claimings == [id : Jobs, fence : Nat]

ClientTypes ==
    /\ session \in Sessions /\ commands \in 0..session.requests
    /\ waiting \in [Users -> {None} \cup 0..(commands - 1)]
    /\ seen \in [Users -> SUBSET (1..Len(issued))]
    /\ told \in [Users -> {"nothing", "refused", "done", "stale", "exists", "unknown"}]

ServerTypes ==
    /\ job \in [Jobs -> Jobrecords]
    /\ issued \in Seq(Claimings) /\ Len(issued) <= MaxClaims
    /\ acked \in [1..MaxClaims -> Nat]
    /\ heard \in [Jobs -> [Keys -> {0, 1}]]

Held ==
    \A j \in Jobs :
        /\ job[j].lease \in 0..Len(issued)
        /\ job[j].live => job[j].lease # 0
        /\ job[j].lease # 0 =>
              issued[job[j].lease] = [id |-> j, fence |-> job[j].fence]
        /\ ~Open(job[j]) => job[j].lease = 0

Unspent ==
    \A c \in 1..MaxClaims :
        /\ acked[c] <= 1
        /\ c > Len(issued) => acked[c] = 0
        /\ \A j \in Jobs : job[j].lease = c => acked[c] = 0

IInv == ClientTypes /\ ServerTypes /\ Faithful /\ Held /\ Unspent
-----------------------------------------------------------------------------
(* The commands                                                             *)

(* A command changes nothing at the server, and what it sends is a line     *)
(* that it accepts.                                                         *)
LEMMA InvokeKeeps ==
    ASSUME IInv, NEW u \in Users, NEW name, NEW l, NEW accepted \in BOOLEAN,
           Ready(u, name), Invoke(u, l, accepted), accepted => Proper(l)
    PROVE  IInv'
<1> USE DEF IInv, ClientTypes, Ready, Invoke, InvokeAs, server, client, counts
<1>1. session.requests \in Nat
  BY SessionsAssumption
<1>2. CASE accepted
  <2>1. commands' \in 0..session'.requests /\ 0..(commands - 1) \subseteq 0..(commands' - 1)
    BY <1>1, <1>2
  <2>2. ClientTypes'
    BY <1>2, <2>1
  <2>3. Faithful'
    BY <1>2, <2>1 DEF Faithful
  <2> QED
    BY <1>2, <2>2, <2>3 DEF ServerTypes, Held, Unspent, Open
<1>3. CASE ~accepted
  BY <1>3 DEF Faithful, ServerTypes, Held, Unspent, Open
<1> QED
  BY <1>2, <1>3

LEMMA GuardedSends ==
    ASSUME IInv, NEW u \in Users, NEW name, NEW requireLease \in BOOLEAN,
           NEW requirePositiveFencing \in BOOLEAN,
           Guarded(u, name, requireLease, requirePositiveFencing),
           name \in Guards \ (Leading \cup {"spawn-children"}), ~requireLease => name \notin NeedsLease
    PROVE  IInv'
<1>1. PICK item \in Items(u), valid \in BOOLEAN :
          Invoke(u, [Line(name, valid) EXCEPT !.items = <<item>>],
                 valid /\ LeaseAccepts(item, requireLease, requirePositiveFencing))
  BY DEF Guarded
<1> DEFINE l == [Line(name, valid) EXCEPT !.items = <<item>>]
<1>2. item.id \in Jobs
  BY SessionsAssumption DEF Items, IInv, ClientTypes
<1>3. valid /\ LeaseAccepts(item, requireLease, requirePositiveFencing) => Proper(l)
  BY <1>2 DEF Proper, Line, LeaseAccepts, Guards, NeedsLease, Leading, Creation, Claiming, Distinct
<1> QED
  BY <1>1, <1>3, InvokeKeeps DEF Guarded, LeaseAccepts

LEMMA SpawnSends ==
    ASSUME IInv, NEW u \in Users, SpawnChildren(u)
    PROVE  IInv'
<1>1. PICK item \in Items(u), valid \in BOOLEAN, from \in {None, "queued"},
           to \in {None, "review"} :
          Invoke(u, [Line("spawn-children", valid) EXCEPT
                        !.items = <<item>>, !.from = from, !.to = to],
                 LeaseAccepts(item, FALSE, TRUE) /\ valid)
  BY DEF SpawnChildren
<1> DEFINE l == [Line("spawn-children", valid) EXCEPT
                    !.items = <<item>>, !.from = from, !.to = to]
<1>2. item.id \in Jobs
  BY SessionsAssumption DEF Items, IInv, ClientTypes
<1>3. Proper(l)
  BY <1>2 DEF Proper, Line, Guards, NeedsLease, Leading, Creation, Claiming, Distinct
<1> QED
  BY <1>1, <1>3, InvokeKeeps DEF SpawnChildren, LeaseAccepts

LEMMA MovingSends ==
    ASSUME IInv, NEW u \in Users, NEW name \in {"transition", "step-continue"},
           Moving(u, name)
    PROVE  IInv'
<1>1. PICK item \in Items(u), move \in Moves, valid \in BOOLEAN :
          Invoke(u, [Line(name, valid) EXCEPT
                        !.items = <<item>>, !.from = move[1], !.to = move[2]],
                 LeaseAccepts(item, TRUE, TRUE) /\ valid)
  BY DEF Moving
<1> DEFINE l == [Line(name, valid) EXCEPT
                    !.items = <<item>>, !.from = move[1], !.to = move[2]]
<1>2. item.id \in Jobs /\ move[2] \in Running
  BY SessionsAssumption DEF Items, IInv, ClientTypes, Moves, Running
<1>3. LeaseAccepts(item, TRUE, TRUE) => Proper(l)
  BY <1>2 DEF Proper, Line, LeaseAccepts, Guards, NeedsLease, Leading, Creation, Claiming, Distinct
<1> QED
  BY <1>1, <1>3, InvokeKeeps DEF Moving, LeaseAccepts

LEMMA CreatingSends ==
    ASSUME IInv, NEW u \in Users, NEW name \in {"enqueue", "start"}, Creating(u, name)
    PROVE  IInv'
<1>1. PICK j \in session.jobs, idempotent \in BOOLEAN, valid \in BOOLEAN :
          Invoke(u, [Line(name, valid) EXCEPT !.items = Unfenced(j),
                        !.idempotent = idempotent, !.to = "queued"], valid)
  BY DEF Creating
<1> DEFINE l == [Line(name, valid) EXCEPT !.items = Unfenced(j),
                    !.idempotent = idempotent, !.to = "queued"]
<1>2. j \in Jobs
  BY SessionsAssumption DEF IInv, ClientTypes
<1>3. Proper(l)
  BY <1>2 DEF Proper, Line, Unfenced, Guards, NeedsLease, Leading, Creation, Claiming, Distinct, Running
<1> QED
  BY <1>1, <1>3, InvokeKeeps DEF Creating

LEMMA StartAndClaimSends ==
    ASSUME IInv, NEW u \in Users, StartAndClaim(u)
    PROVE  IInv'
<1>1. PICK j \in session.jobs, worker \in BOOLEAN, valid \in BOOLEAN :
          Invoke(u, [Line("start-and-claim", valid) EXCEPT !.items = Unfenced(j),
                        !.worker = worker, !.to = "queued"], worker /\ valid)
  BY DEF StartAndClaim
<1> DEFINE l == [Line("start-and-claim", valid) EXCEPT !.items = Unfenced(j),
                    !.worker = worker, !.to = "queued"]
<1>2. j \in Jobs
  BY SessionsAssumption DEF IInv, ClientTypes
<1>3. Proper(l)
  BY <1>2 DEF Proper, Line, Unfenced, Guards, NeedsLease, Leading, Creation, Claiming, Distinct, Running
<1> QED
  BY <1>1, <1>3, InvokeKeeps DEF StartAndClaim

LEMMA ClaimsSend ==
    ASSUME IInv, NEW u \in Users, NEW name \in Claiming,
           NEW reclaims \in SUBSET ({None} \cup BOOLEAN), Claims(u, name, reclaims)
    PROVE  IInv'
<1>1. PICK limit \in 0..2, reclaim \in reclaims, worker \in BOOLEAN, valid \in BOOLEAN :
          Invoke(u, [Line(name, valid) EXCEPT !.limit = limit, !.reclaim = reclaim,
                        !.worker = worker], worker /\ valid /\ limit > 0)
  BY DEF Claims
<1> DEFINE l == [Line(name, valid) EXCEPT !.limit = limit, !.reclaim = reclaim,
                    !.worker = worker]
<1>2. limit > 0 => Proper(l)
  BY DEF Proper, Line, Guards, NeedsLease, Leading, Creation, Claiming, Distinct
<1> QED
  BY <1>1, <1>2, InvokeKeeps DEF Claims

LEMMA SignalSends ==
    ASSUME IInv, NEW u \in Users, Signal(u)
    PROVE  IInv'
<1> DEFINE Typed(j, valid, key, from, to) ==
              [Line("signal", valid) EXCEPT
                  !.items = Unfenced(j), !.key = key, !.from = from, !.to = to]
<1>1. Signals(u) = {Typed(j, valid, key, from, to) :
                       j \in session.jobs, valid \in BOOLEAN, key \in Keys \cup {None},
                       from \in {None, "queued"}, to \in {None, "review"}}
  BY DEF Signals
<1>2. PICK l \in Signals(u) : Invoke(u, l, l.valid)
  BY DEF Signal
<1> HIDE DEF Typed
<1>3. PICK j \in session.jobs, valid \in BOOLEAN, key \in Keys \cup {None},
           from \in {None, "queued"}, to \in {None, "review"} :
          l = Typed(j, valid, key, from, to)
  BY <1>1
<1>4. j \in Jobs
  BY SessionsAssumption DEF IInv, ClientTypes
<1>5. Proper(l) /\ l.valid \in BOOLEAN
  BY <1>3, <1>4 DEF Typed, Proper, Line, Unfenced, Guards, NeedsLease, Leading, Creation, Claiming, Distinct
<1> QED
  BY <1>2, <1>5, InvokeKeeps DEF Signal

LEMMA RewindSends ==
    ASSUME IInv, NEW u \in Users, Rewind(u)
    PROVE  IInv'
<1>1. PICK j \in session.jobs, valid \in BOOLEAN, expect \in {None, "queued"} :
          Invoke(u, [Line("rewind", valid) EXCEPT !.items = Unfenced(j), !.from = expect,
                        !.to = "queued"], valid)
  BY DEF Rewind
<1> DEFINE l == [Line("rewind", valid) EXCEPT !.items = Unfenced(j), !.from = expect,
                    !.to = "queued"]
<1>2. j \in Jobs
  BY SessionsAssumption DEF IInv, ClientTypes
<1>3. Proper(l)
  BY <1>2 DEF Proper, Line, Unfenced, Guards, NeedsLease, Leading, Creation, Claiming, Distinct, Running
<1> QED
  BY <1>1, <1>3, InvokeKeeps DEF Rewind

LEMMA UpToTwoIs ==
    ASSUME NEW S, NEW s \in UpToTwo(S)
    PROVE  /\ s = <<>> \/ 1 \in DOMAIN s
           /\ \A i \in DOMAIN s : s[i] \in S
<1>1. CASE s = <<>>
  BY <1>1
<1>2. ASSUME NEW a \in S, s = <<a>>
      PROVE  1 \in DOMAIN s /\ \A i \in DOMAIN s : s[i] \in S
  BY <1>2
<1>3. ASSUME NEW a \in S, NEW b \in S, s = <<a, b>>
      PROVE  1 \in DOMAIN s /\ \A i \in DOMAIN s : s[i] \in S
  BY <1>3
<1> QED
  BY <1>1, <1>2, <1>3 DEF UpToTwo

(* What a batch holds is what was typed for it.                             *)
LEMMA BatchIs ==
    ASSUME NEW u, NEW name, NEW l \in Batches(u, name)
    PROVE  /\ l.name = name /\ l.limit \in Nat \ {0} /\ l.items \in UpToTwo(Items(u))
           /\ l.valid \in BOOLEAN /\ l.idempotent \in BOOLEAN /\ l.reclaim \in {None} \cup BOOLEAN
           /\ name = "transition-many" => l.to \in Running
<1>1. PICK valid \in BOOLEAN, independent \in BOOLEAN, move \in MovesOf(name),
           items \in UpToTwo(Items(u)) :
          l = Batch(name, valid, independent, move, items)
  BY DEF Batches
<1>2. /\ l.name = name /\ l.limit \in Nat \ {0} /\ l.items = items /\ l.to = move[2]
      /\ l.valid \in BOOLEAN /\ l.idempotent \in BOOLEAN /\ l.reclaim \in {None} \cup BOOLEAN
  BY <1>1 DEF Batch, Line
<1>3. name = "transition-many" => move[2] \in Running
  BY DEF MovesOf, Moves, Running
<1> QED
  BY <1>2, <1>3

(* A batch that is accepted names each execution once, unless its items are *)
(* independent, with a lease token where one is needed.                     *)
LEMMA BatchSends ==
    ASSUME IInv, NEW u \in Users,
           NEW name \in {"complete-many", "retry-many", "fail-many", "cancel-many",
                         "transition-many"},
           NEW requireLease \in BOOLEAN, ~requireLease => name = "cancel-many",
           NEW l \in Batches(u, name), BatchAccepts(l, requireLease)
    PROVE  Proper(l)
<1>1. \A item \in Items(u) : item.id \in Jobs
  BY SessionsAssumption DEF Items, IInv, ClientTypes
<1>2. /\ l.name = name /\ l.limit \in Nat \ {0} /\ l.items \in UpToTwo(Items(u))
      /\ l.idempotent \in BOOLEAN /\ l.reclaim \in {None} \cup BOOLEAN
      /\ name = "transition-many" => l.to \in Running
  BY BatchIs
<1>3. 1 \in DOMAIN l.items /\ \A i \in DOMAIN l.items : l.items[i].id \in Jobs
  BY <1>1, <1>2, UpToTwoIs DEF BatchAccepts
<1> QED
  BY <1>2, <1>3
     DEF Proper, BatchAccepts, Guards, NeedsLease, Leading, Creation, Claiming

LEMMA ManySends ==
    ASSUME IInv, NEW u \in Users,
           NEW name \in {"complete-many", "retry-many", "fail-many", "cancel-many"},
           NEW requireLease \in BOOLEAN, ~requireLease => name = "cancel-many",
           Many(u, name, requireLease)
    PROVE  IInv'
<1>1. PICK l \in Batches(u, name) : Invoke(u, l, l.valid /\ BatchAccepts(l, requireLease))
  BY DEF Many
<1>2. BatchAccepts(l, requireLease) => Proper(l)
  BY BatchSends
<1>3. l.valid \in BOOLEAN
  BY BatchIs
<1> QED
  BY <1>1, <1>2, <1>3, InvokeKeeps DEF Many, BatchAccepts

LEMMA TransitionManySends ==
    ASSUME IInv, NEW u \in Users, TransitionMany(u)
    PROVE  IInv'
<1>1. PICK l \in Batches(u, "transition-many") :
          Invoke(u, l, l.valid /\ l.to # "running" /\ BatchAccepts(l, TRUE))
  BY DEF TransitionMany
<1>2. BatchAccepts(l, TRUE) => Proper(l)
  BY BatchSends
<1>3. l.valid \in BOOLEAN
  BY BatchIs
<1> QED
  BY <1>1, <1>2, <1>3, InvokeKeeps DEF TransitionMany, BatchAccepts

LEMMA CreateManySends ==
    ASSUME IInv, NEW u \in Users, CreateMany(u)
    PROVE  IInv'
<1>1. PICK s \in UpToTwo(session.jobs), idempotent \in BOOLEAN, independent \in BOOLEAN,
           valid \in BOOLEAN :
          LET l == [Line("create-many", valid) EXCEPT
                       !.items = [i \in DOMAIN s |-> Unfenced(s[i])[1]], !.to = "queued",
                       !.idempotent = idempotent, !.independent = independent]
          IN  Invoke(u, l, valid /\ l.items # <<>> /\ (independent \/ Distinct(l.items)))
  BY DEF CreateMany
<1> DEFINE l == [Line("create-many", valid) EXCEPT
                    !.items = [i \in DOMAIN s |-> Unfenced(s[i])[1]], !.to = "queued",
                    !.idempotent = idempotent, !.independent = independent]
           accepted == valid /\ l.items # <<>> /\ (independent \/ Distinct(l.items))
<1>2. session.jobs \subseteq Jobs
  BY SessionsAssumption DEF IInv, ClientTypes
<1>3. \A i \in DOMAIN s : s[i] \in Jobs
  BY <1>2, UpToTwoIs
<1>4. s = <<>> \/ 1 \in DOMAIN s
  BY UpToTwoIs
<1>5. l.items = [i \in DOMAIN s |-> Unfenced(s[i])[1]]
  BY DEF Line
<1>6. s = <<>> => l.items = <<>>
  BY <1>5
<1>7. accepted => Proper(l)
  BY <1>3, <1>4, <1>5, <1>6
     DEF Proper, Line, Unfenced, Guards, NeedsLease, Leading, Creation, Claiming, Running
<1>8. accepted \in BOOLEAN
  BY DEF Distinct
<1>9. Ready(u, "create-many") /\ Invoke(u, l, accepted)
  BY <1>1 DEF CreateMany
<1> HIDE DEF l, accepted
<1> QED
  BY <1>7, <1>8, <1>9, InvokeKeeps

LEMMA CommandKeeps ==
    ASSUME IInv, NEW u \in Users, Command(u)
    PROVE  IInv'
<1> USE DEF Guards, NeedsLease, Leading, Creation, Claiming
<1>1. CASE \/ Extend(u) \/ Complete(u) \/ Retry(u) \/ Fail(u) \/ Cancel(u)
  BY <1>1, GuardedSends DEF Extend, Complete, Retry, Fail, Cancel
<1>2. CASE Transition(u) \/ StepContinue(u)
  BY <1>2, MovingSends DEF Transition, StepContinue
<1>3. CASE Enqueue(u) \/ Start(u)
  BY <1>3, CreatingSends DEF Enqueue, Start
<1>4. CASE Claim(u) \/ ClaimWorkflows(u) \/ Reclaim(u) \/ ReclaimWorkflows(u)
  <2>1. /\ {None} \cup BOOLEAN \in SUBSET ({None} \cup BOOLEAN)
        /\ {TRUE} \in SUBSET ({None} \cup BOOLEAN)
    OBVIOUS
  <2> QED
    BY <1>4, <2>1, ClaimsSend DEF Claim, ClaimWorkflows, Reclaim, ReclaimWorkflows
<1>5. CASE CompleteMany(u) \/ RetryMany(u) \/ FailMany(u) \/ CancelMany(u)
  BY <1>5, ManySends DEF CompleteMany, RetryMany, FailMany, CancelMany
<1> QED
  BY <1>1, <1>2, <1>3, <1>4, <1>5, StartAndClaimSends, SpawnSends, SignalSends, RewindSends,
     TransitionManySends, CreateManySends
     DEF Command

-----------------------------------------------------------------------------
(* The answers                                                              *)

LEMMA AnswerKeeps ==
    ASSUME IInv, NEW m \in wire, NEW outcome \in {"done", "stale", "exists"},
           NEW claims, Answer(m, outcome, claims),
           Len(issued') \in Nat, Len(issued) <= Len(issued'), claims \subseteq 1..Len(issued')
    PROVE  ClientTypes' /\ Faithful'
<1>1. Len(issued) \in Nat
  BY DEF IInv, ServerTypes
<1>2. 1..Len(issued) \subseteq 1..Len(issued')
  BY <1>1
<1>3. ClientTypes'
  <2>1. session' \in Sessions /\ commands' \in 0..session'.requests
    BY DEF IInv, ClientTypes, Answer
  <2>2. waiting' \in [Users -> {None} \cup 0..(commands' - 1)]
    BY DEF IInv, ClientTypes, Answer
  <2>3. seen \in [Users -> SUBSET (1..Len(issued'))]
    BY <1>2 DEF IInv, ClientTypes
  <2>4. seen' \in [Users -> SUBSET (1..Len(issued'))]
    BY <2>3 DEF Answer
  <2>5. told' \in [Users -> {"nothing", "refused", "done", "stale", "exists", "unknown"}]
    BY DEF IInv, ClientTypes, Answer
  <2> QED
    BY <2>1, <2>2, <2>4, <2>5 DEF ClientTypes
<1>4. Faithful'
  BY DEF IInv, Faithful, Answer
<1> QED
  BY <1>3, <1>4

LEMMA GiveUpKeeps ==
    ASSUME IInv, NEW u \in Users, GiveUp(u)
    PROVE  IInv'
BY DEF IInv, ClientTypes, ServerTypes, Faithful, Held, Unspent, Open, GiveUp, server, counts

LEMMA ExpireKeeps ==
    ASSUME IInv, NEW j \in Jobs, Expire(j)
    PROVE  IInv'
<1> USE DEF IInv, ServerTypes, Expire, client, counts
<1>1. ClientTypes' /\ Faithful'
  BY DEF ClientTypes, Faithful
<1>2. job' \in [Jobs -> Jobrecords]
  BY DEF Jobrecords
<1>3. \A k \in Jobs : /\ job'[k].lease = job[k].lease /\ job'[k].fence = job[k].fence
                      /\ job'[k].state = job[k].state /\ job'[k].live => job[k].live
  BY DEF Jobrecords
<1>4. Held'
  BY <1>3 DEF Held, Open
<1>5. Unspent'
  BY <1>3 DEF Unspent
<1> QED
  BY <1>1, <1>2, <1>4, <1>5

-----------------------------------------------------------------------------
(* Requests of those who hold a claim, or cancel                            *)

(* What acts fits, and no execution is acted on twice.                      *)
LEMMA ActsOnIs ==
    ASSUME NEW l, Proper(l), NEW A \in ActsOn(l)
    PROVE  /\ A \subseteq DOMAIN l.items
           /\ \A i \in A : Fits(l, l.items[i])
           /\ \A i, k \in A : l.items[i].id = l.items[k].id => i = k
<1>1. CASE l.independent
  BY <1>1 DEF ActsOn
<1>2. CASE ~l.independent
  BY <1>2 DEF ActsOn, Proper, Distinct
<1> QED
  BY <1>1, <1>2

\* What becomes of an execution that nobody claims
KeepsClaim(r, after) ==
    /\ after \in Jobrecords
    /\ after.fence = r.fence
    /\ after.lease \in {0, r.lease}
    /\ after.live => after.lease # 0
    /\ ~Open(after) => after.lease = 0

(* An execution keeps its fencing token, and its claim or none: none when   *)
(* the claim is acknowledged.                                               *)
LEMMA AfterIs ==
    ASSUME NEW l, Proper(l), l.name \in Guards, NEW r \in Jobrecords,
           Open(r), r.live => r.lease # 0
    PROVE  /\ KeepsClaim(r, After(l, r))
           /\ l.name \in Acknowledging => After(l, r).lease = 0
           /\ l.name = "spawn-children" =>
                 After(l, r) = [r EXCEPT !.state = After(l, r).state]
<1> USE DEF KeepsClaim, Jobrecords, Released, Open, Terminal, States
<1>1. CASE l.name \in {"complete", "complete-many"}
  BY <1>1 DEF After
<1>2. CASE l.name \in {"retry", "retry-many"}
  BY <1>2 DEF After
<1>3. CASE l.name \in {"fail", "fail-many"}
  BY <1>3 DEF After
<1>4. CASE l.name \in {"cancel", "cancel-many"}
  BY <1>4 DEF After
<1>5. CASE l.name \in {"transition", "transition-many"}
  <2>1. l.to \in Running
    BY <1>5 DEF Proper, Leading
  <2> QED
    BY <1>5, <2>1 DEF After, Running
<1>6. CASE l.name = "step-continue"
  <2>1. l.to \in Running
    BY <1>6 DEF Proper, Leading
  <2> QED
    BY <1>6, <2>1 DEF After, Running, Acknowledging
<1>7. CASE l.name = "extend"
  BY <1>7 DEF After, Acknowledging
<1>8. CASE l.name = "spawn-children"
  <2>1. l.to \in {None, "review"}
    BY <1>8 DEF Proper
  <2>2. CASE l.to = None
    BY <1>8, <2>2 DEF After, Acknowledging
  <2>3. CASE l.to # None
    BY <1>8, <2>1, <2>3 DEF After, Acknowledging
  <2> QED
    BY <2>2, <2>3
<1> QED
  BY <1>1, <1>2, <1>3, <1>4, <1>5, <1>6, <1>7, <1>8 DEF Guards, NeedsLease

(* No two executions are held by one claim.                                 *)
LEMMA ClaimsAreExclusive ==
    ASSUME IInv, NEW j \in Jobs, NEW k \in Jobs, job[j].lease = job[k].lease, job[j].lease # 0
    PROVE  j = k
<1>1. /\ issued[job[j].lease] = [id |-> j, fence |-> job[j].fence]
      /\ issued[job[k].lease] = [id |-> k, fence |-> job[k].fence]
  BY DEF IInv, Held
<1> QED
  BY <1>1

(* How often a request that acts on A acknowledges a claim                  *)
Spent(l, A, c) == {i \in A : l.name \in Acknowledging /\ job[l.items[i].id].lease = c}

LEMMA SpentIs ==
    ASSUME IInv, NEW l, Proper(l), NEW A \in ActsOn(l), NEW c \in 1..MaxClaims
    PROVE  /\ Cardinality(Spent(l, A, c)) \in {0, 1}
           /\ Cardinality(Spent(l, A, c)) = 1 =>
                 \E i \in A : l.name \in Acknowledging /\ job[l.items[i].id].lease = c
<1> DEFINE S == Spent(l, A, c)
<1>1. \A i \in A : l.items[i].id \in Jobs
  BY ActsOnIs DEF Proper
<1>2. \A i, k \in S : i = k
  <2> TAKE i, k \in S
  <2>1. job[l.items[i].id].lease = c /\ job[l.items[k].id].lease = c /\ c # 0
    BY BoundsAssumption DEF Spent
  <2>2. l.items[i].id = l.items[k].id
    BY <1>1, <2>1, ClaimsAreExclusive DEF Spent
  <2> QED
    BY <2>2, ActsOnIs DEF Spent
<1>3. CASE S = {}
  BY <1>3, FS_EmptySet
<1>4. CASE S # {}
  <2>1. PICK i \in S : TRUE
    BY <1>4
  <2>2. S = {i}
    BY <1>2, <2>1
  <2>3. Cardinality(S) = 1
    BY <2>2, FS_Singleton
  <2> QED
    BY <2>1, <2>3 DEF Spent
<1> QED
  BY <1>3, <1>4

(* What a request of those who hold a claim, or cancel, does                *)
LEMMA ActIs ==
    ASSUME IInv, NEW m \in wire, Act(m)
    PROVE  /\ Proper(m.request) /\ m.request.name \in Guards /\ UNCHANGED <<issued, heard>>
           /\ \E A \in ActsOn(m.request) :
                 /\ job' = [j \in Jobs |-> IF \E i \in A : m.request.items[i].id = j
                                           THEN After(m.request, job[j]) ELSE job[j]]
                 /\ acked' = [c \in DOMAIN acked |->
                                 acked[c] + Cardinality(Spent(m.request, A, c))]
                 /\ Answer(m, IF A = DOMAIN m.request.items THEN "done" ELSE "stale", {})
BY DEF IInv, Faithful, Act, Proper, Spent

\* A request to spawn children moves the execution, and leaves its claim.
Spawns(l, j) ==
    /\ l.name = "spawn-children" /\ l.items[1].fencing = job[j].fence
    /\ job'[j] = [job[j] EXCEPT !.state = job'[j].state]

(* An execution keeps its claim or loses it; it is changed by a command     *)
(* that is for others, by its holder, or by one that spawns children.       *)
LEMMA ActJobs ==
    ASSUME IInv, NEW m \in wire, Act(m), NEW j \in Jobs
    PROVE  /\ KeepsClaim(job[j], job'[j])
           /\ job'[j] # job[j] =>
                 \/ m.line.name \in ForOthers \/ Spawns(m.line, j)
                 \/ \E i \in DOMAIN m.line.items :
                       m.line.items[i].id = j /\ m.line.items[i].lease = job[j].lease
<1> DEFINE l == m.request
<1>1. Proper(l) /\ l.name \in Guards /\ m.line = l
  BY ActIs DEF IInv, Faithful
<1>2. PICK A \in ActsOn(l) :
          job' = [k \in Jobs |-> IF \E i \in A : l.items[i].id = k
                                 THEN After(l, job[k]) ELSE job[k]]
  BY ActIs
<1>3. /\ job[j] \in Jobrecords
      /\ job[j].live => job[j].lease # 0
      /\ ~Open(job[j]) => job[j].lease = 0
  BY DEF IInv, ServerTypes, Held
<1>4. CASE \E i \in A : l.items[i].id = j
  <2>1. PICK i \in A : l.items[i].id = j
    BY <1>4
  <2>2. i \in DOMAIN l.items /\ Fits(l, l.items[i])
    BY <1>1, <1>2, <2>1, ActsOnIs
  <2>3. Open(job[j]) /\ job'[j] = After(l, job[j])
    BY <1>2, <2>1, <2>2 DEF Fits
  <2>4. l.items[i].lease # 0 => l.items[i].lease = job[j].lease
    BY <2>1, <2>2 DEF Fits
  <2>5. l.name \in NeedsLease => l.items[i].lease # 0
    BY <1>1, <2>2 DEF Proper
  <2>6. l.name = "spawn-children" => Spawns(l, j)
    <3>1. ASSUME l.name = "spawn-children"
          PROVE  i = 1
      BY <1>1, <2>2, <3>1 DEF Proper
    <3>2. l.items[i].fencing = job[j].fence
      BY <2>1, <2>2 DEF Fits
    <3> QED
      BY <1>1, <1>3, <2>3, <3>1, <3>2, AfterIs DEF Spawns
  <2>7. KeepsClaim(job[j], job'[j])
    BY <1>1, <1>3, <2>3, AfterIs
  <2>8. l.name \in NeedsLease \cup ForOthers \cup {"spawn-children"}
    BY <1>1 DEF Guards, ForOthers
  <2> QED
    BY <1>1, <2>1, <2>2, <2>4, <2>5, <2>6, <2>7, <2>8
<1>5. CASE ~\E i \in A : l.items[i].id = j
  BY <1>2, <1>3, <1>5 DEF KeepsClaim
<1> QED
  BY <1>4, <1>5

LEMMA ActKeeps ==
    ASSUME IInv, NEW m \in wire, Act(m)
    PROVE  IInv'
<1> DEFINE l == m.request
<1>1. Proper(l) /\ l.name \in Guards
  BY ActIs
<1>2. PICK A \in ActsOn(l) :
          /\ job' = [j \in Jobs |-> IF \E i \in A : l.items[i].id = j
                                    THEN After(l, job[j]) ELSE job[j]]
          /\ acked' = [c \in DOMAIN acked |-> acked[c] + Cardinality(Spent(l, A, c))]
          /\ Answer(m, IF A = DOMAIN l.items THEN "done" ELSE "stale", {})
  BY ActIs
<1>3. UNCHANGED <<issued, heard>>
  BY ActIs
<1>4. ClientTypes' /\ Faithful'
  <2>1. Len(issued') \in Nat /\ Len(issued) <= Len(issued')
    BY <1>3 DEF IInv, ServerTypes
  <2> QED
    BY <1>2, <2>1, AnswerKeeps
<1>5. \A i \in A : l.items[i].id \in Jobs /\ Open(job[l.items[i].id])
  BY <1>1, <1>2, ActsOnIs DEF Proper, Fits
<1>6. \A j \in Jobs : KeepsClaim(job[j], job'[j])
  BY ActJobs
<1>7. \A c \in 1..MaxClaims :
          /\ Cardinality(Spent(l, A, c)) \in {0, 1}
          /\ Cardinality(Spent(l, A, c)) = 1 =>
                \E i \in A : l.name \in Acknowledging /\ job[l.items[i].id].lease = c
          /\ acked'[c] = acked[c] + Cardinality(Spent(l, A, c))
  BY <1>1, <1>2, SpentIs DEF IInv, ServerTypes
<1>8. ServerTypes'
  <2>1. job' \in [Jobs -> Jobrecords]
    BY <1>2, <1>6 DEF KeepsClaim
  <2>2. acked' \in [1..MaxClaims -> Nat]
    BY <1>2, <1>7 DEF IInv, ServerTypes
  <2> QED
    BY <1>3, <2>1, <2>2 DEF IInv, ServerTypes
<1>9. Held'
  BY <1>3, <1>6 DEF IInv, Held, KeepsClaim, Open
<1>10. Unspent'
  <2> SUFFICES ASSUME NEW c \in 1..MaxClaims
               PROVE  /\ acked'[c] <= 1
                      /\ c > Len(issued') => acked'[c] = 0
                      /\ \A j \in Jobs : job'[j].lease = c => acked'[c] = 0
    BY DEF Unspent
  <2>1. acked[c] \in Nat /\ acked[c] <= 1 /\ (c > Len(issued) => acked[c] = 0)
        /\ \A j \in Jobs : job[j].lease = c => acked[c] = 0
    BY DEF IInv, ServerTypes, Unspent
  <2>2. c # 0 /\ c \in Nat
    BY BoundsAssumption
  <2>3. CASE Cardinality(Spent(l, A, c)) = 0
    <3>1. acked'[c] = acked[c]
      BY <1>7, <2>1, <2>3
    <3> QED
      BY <1>3, <1>6, <2>1, <2>2, <3>1 DEF KeepsClaim
  <2>4. CASE Cardinality(Spent(l, A, c)) = 1
    <3>1. PICK i \in A : l.name \in Acknowledging /\ job[l.items[i].id].lease = c
      BY <1>7, <2>4
    <3>2. acked'[c] = 1
      BY <1>5, <1>7, <2>1, <2>4, <3>1
    <3>3. c <= Len(issued)
      <4>1. l.items[i].id \in Jobs
        BY <1>5
      <4>2. job[l.items[i].id].lease \in 0..Len(issued)
        BY <4>1 DEF IInv, Held
      <4>3. Len(issued) \in Nat
        BY DEF IInv, ServerTypes
      <4> QED
        BY <3>1, <4>2, <4>3
    <3>4. ASSUME NEW j \in Jobs, job'[j].lease = c
          PROVE  FALSE
      <4>1. job[j].lease = c
        BY <1>6, <2>2, <3>4 DEF KeepsClaim
      <4>2. j = l.items[i].id
        BY <1>5, <2>2, <3>1, <4>1, ClaimsAreExclusive
      <4>3. job'[j] = After(l, job[j]) /\ Open(job[j])
        BY <1>2, <1>5, <4>2
      <4>4. After(l, job[j]).lease = 0
        BY <1>1, <3>1, <4>3, AfterIs DEF IInv, ServerTypes, Held
      <4> QED
        BY <2>2, <3>4, <4>3, <4>4
    <3>5. ~(c > Len(issued'))
      BY <1>3, <2>2, <3>3 DEF IInv, ServerTypes
    <3> QED
      BY <3>2, <3>4, <3>5
  <2> QED
    BY <1>7, <2>3, <2>4
<1> QED
  BY <1>4, <1>8, <1>9, <1>10 DEF IInv

-----------------------------------------------------------------------------
(* Creations                                                                *)

(* A new claim of an execution, numbered after those that were issued       *)
LEMMA ClaimedIs ==
    ASSUME NEW r \in Jobrecords, Open(r), NEW c \in Nat \ {0}
    PROVE  /\ Claimed(r, c) \in Jobrecords /\ Open(Claimed(r, c))
           /\ Claimed(r, c).lease = c /\ Claimed(r, c).fence = r.fence + 1
           /\ Claimed(r, c).live
<1> DEFINE n == Claimed(r, c)
<1>1. n.state = r.state /\ n.lease = c /\ n.fence = r.fence + 1 /\ n.live
  BY DEF Claimed, Jobrecords
<1>2. n \in Jobrecords
  <2>1. r.fence + 1 \in Nat
    BY DEF Jobrecords
  <2>2. ASSUME NEW fence \in Nat
        PROVE  [r EXCEPT !.lease = c, !.fence = fence, !.live = TRUE] \in Jobrecords
    BY DEF Jobrecords
  <2> QED
    BY <2>1, <2>2 DEF Claimed
<1> QED
  BY <1>1, <1>2 DEF Open

LEMMA RecordIs ==
    ASSUME NEW state \in Running
    PROVE  /\ Record(state) \in Jobrecords /\ Open(Record(state))
           /\ Record(state).lease = 0 /\ Record(state).fence = 0 /\ ~Record(state).live
BY DEF Record, Jobrecords, Running, States, Open, Terminal

\* An execution is given a claim that was issued for it after the first n.
Receives(j, after, n, claims) ==
    /\ after.lease \in (n + 1)..Len(claims)
    /\ claims[after.lease] = [id |-> j, fence |-> after.fence]
    /\ Open(after)

(* Claims are neither shared nor spent when executions keep theirs, lose    *)
(* them, or receive new ones.                                               *)
LEMMA ClaimsKept ==
    ASSUME IInv, ServerTypes', acked' = acked,
           Len(issued) <= Len(issued'),
           \A i \in 1..Len(issued) : issued'[i] = issued[i],
           \A j \in Jobs : \/ KeepsClaim(job[j], job'[j])
                           \/ job'[j].lease = 0 /\ ~job'[j].live
                           \/ Receives(j, job'[j], Len(issued), issued')
    PROVE  Held' /\ Unspent'
<1>1. Len(issued) \in Nat /\ Len(issued') \in Nat
  BY DEF IInv, ServerTypes
<1>2. ASSUME NEW j \in Jobs
      PROVE  /\ job'[j].lease \in 0..Len(issued')
             /\ job'[j].live => job'[j].lease # 0
             /\ job'[j].lease # 0 =>
                   issued'[job'[j].lease] = [id |-> j, fence |-> job'[j].fence]
             /\ ~Open(job'[j]) => job'[j].lease = 0
  <2>1. CASE KeepsClaim(job[j], job'[j])
    BY <1>1, <2>1 DEF KeepsClaim, IInv, Held
  <2>2. CASE job'[j].lease = 0 /\ ~job'[j].live
    BY <1>1, <2>2
  <2>3. CASE Receives(j, job'[j], Len(issued), issued')
    BY <1>1, <2>3 DEF Receives
  <2> QED
    BY <2>1, <2>2, <2>3
<1>3. Held'
  BY <1>2 DEF Held, Open
<1>4. ASSUME NEW c \in 1..MaxClaims, NEW j \in Jobs, job'[j].lease = c
      PROVE  acked[c] = 0
  <2>1. c \in Nat /\ c # 0
    BY BoundsAssumption
  <2>2. CASE KeepsClaim(job[j], job'[j])
    BY <1>4, <2>1, <2>2 DEF KeepsClaim, IInv, Unspent
  <2>3. CASE job'[j].lease = 0
    BY <1>4, <2>1, <2>3
  <2>4. CASE Receives(j, job'[j], Len(issued), issued')
    BY <1>1, <1>4, <2>4 DEF Receives, IInv, Unspent
  <2> QED
    BY <2>2, <2>3, <2>4
<1>5. Unspent'
  BY <1>1, <1>4, BoundsAssumption DEF Unspent, IInv
<1> QED
  BY <1>3, <1>5

(* One claim more                                                           *)
LEMMA OneMore ==
    ASSUME NEW s \in Seq(Claimings), NEW x \in Claimings,
           NEW t, t = [i \in 1..(Len(s) + 1) |-> IF i < Len(s) + 1 THEN s[i] ELSE x]
    PROVE  /\ t \in Seq(Claimings) /\ Len(t) = Len(s) + 1 /\ t[Len(s) + 1] = x
           /\ \A i \in 1..Len(s) : t[i] = s[i]
<1>1. Len(s) \in Nat /\ \A i \in 1..Len(s) : s[i] \in Claimings
  OBVIOUS
<1>2. t \in [1..(Len(s) + 1) -> Claimings]
  BY <1>1
<1>3. t \in Seq(Claimings) /\ Len(t) = Len(s) + 1
  BY <1>1, <1>2, LenProperties
<1> QED
  BY <1>1, <1>3

LEMMA CreateKeeps ==
    ASSUME IInv, NEW m \in wire, Create(m)
    PROVE  IInv'
<1> DEFINE l     == m.request
           ids   == {l.items[i].id : i \in DOMAIN l.items}
           new   == {j \in ids : job[j].state = "absent"}
           c     == Len(issued) + 1
           takes == l.name = "start-and-claim"
<1>1. Proper(l) /\ l.name \in Creation /\ UNCHANGED <<acked, heard>>
  BY DEF IInv, Faithful, Create, counts
<1>2. /\ Len(issued) \in Nat /\ job \in [Jobs -> Jobrecords]
      /\ issued \in Seq(Claimings) /\ Len(issued) <= MaxClaims
  BY DEF IInv, ServerTypes
<1>3. ids \subseteq Jobs /\ l.to \in Running
  BY <1>1 DEF Proper, Leading
<1>4. CASE new = ids \/ l.idempotent \/ l.independent
  <2>1. /\ takes => c <= MaxClaims
        /\ job' = [j \in Jobs |-> IF j \notin new THEN job[j]
                             ELSE IF takes THEN Claimed(Record(l.to), c) ELSE Record(l.to)]
        /\ issued' = IF takes THEN [i \in 1..c |-> IF i < c THEN issued[i]
                                            ELSE [id |-> l.items[1].id, fence |-> 1]] ELSE issued
        /\ Answer(m, IF new = ids \/ l.idempotent THEN "done" ELSE "exists",
                  IF takes THEN {c} ELSE {})
    BY <1>4 DEF Create
  <2>2. /\ issued' \in Seq(Claimings) /\ Len(issued') <= MaxClaims
        /\ Len(issued') = IF takes THEN c ELSE Len(issued)
        /\ \A i \in 1..Len(issued) : issued'[i] = issued[i]
        /\ takes => issued'[c] = [id |-> l.items[1].id, fence |-> 1]
    <3>1. CASE takes
      <4>1. [id |-> l.items[1].id, fence |-> 1] \in Claimings
        BY <1>1, <3>1 DEF Proper, Claimings
      <4> QED
        BY <1>2, <2>1, <3>1, <4>1, OneMore
    <3>2. CASE ~takes
      BY <1>2, <2>1, <3>2
    <3> QED
      BY <3>1, <3>2
  <2>3. ClientTypes' /\ Faithful'
    <3>1. (IF takes THEN {c} ELSE {}) \subseteq 1..Len(issued')
      BY <1>2, <2>2
    <3> QED
      BY <1>2, <2>1, <2>2, <3>1, AnswerKeeps
  <2>4. ASSUME NEW j \in Jobs
        PROVE  /\ job'[j] \in Jobrecords
               /\ \/ KeepsClaim(job[j], job'[j])
                  \/ job'[j].lease = 0 /\ ~job'[j].live
                  \/ Receives(j, job'[j], Len(issued), issued')
    <3>1. CASE j \notin new
      BY <1>2, <2>1, <3>1 DEF KeepsClaim, IInv, Held
    <3>2. CASE j \in new /\ takes
      <4>1. j = l.items[1].id
        BY <1>1, <3>2 DEF Proper
      <4>2. job'[j] = Claimed(Record(l.to), c)
        BY <2>1, <3>2
      <4>3. /\ job'[j] \in Jobrecords /\ Open(job'[j])
            /\ job'[j].lease = c /\ job'[j].fence = 1
        BY <1>2, <1>3, <4>2, ClaimedIs, RecordIs
      <4> QED
        BY <1>2, <2>2, <3>2, <4>1, <4>3 DEF Receives
    <3>3. CASE j \in new /\ ~takes
      BY <1>3, <2>1, <3>3, RecordIs
    <3> QED
      BY <3>1, <3>2, <3>3
  <2>5. ServerTypes'
    BY <1>1, <2>1, <2>2, <2>4 DEF IInv, ServerTypes
  <2>6. Held' /\ Unspent'
    <3>1. acked' = acked
      BY <1>1
    <3>2. Len(issued) <= Len(issued') /\ \A i \in 1..Len(issued) : issued'[i] = issued[i]
      BY <1>2, <2>2
    <3>3. \A j \in Jobs : \/ KeepsClaim(job[j], job'[j])
                          \/ job'[j].lease = 0 /\ ~job'[j].live
                          \/ Receives(j, job'[j], Len(issued), issued')
      BY <2>4
    <3> QED
      BY <2>5, <3>1, <3>2, <3>3, ClaimsKept
  <2> QED
    BY <2>3, <2>5, <2>6 DEF IInv
<1>5. CASE ~(new = ids \/ l.idempotent \/ l.independent)
  <2>1. Answer(m, "exists", {}) /\ UNCHANGED server
    BY <1>5 DEF Create
  <2>2. ClientTypes' /\ Faithful'
    BY <1>2, <2>1, AnswerKeeps DEF server
  <2> QED
    BY <1>1, <2>1, <2>2 DEF IInv, server, ServerTypes, Held, Unspent, Open
<1> QED
  BY <1>4, <1>5

-----------------------------------------------------------------------------
(* Claims                                                                   *)

(* The order in which executions are granted names each of them.            *)
LEMMA OrderIs ==
    ASSUME NEW S, IsFiniteSet(S)
    PROVE  /\ Cardinality(S) \in Nat
           /\ SetToSeq(S) \in [1..Cardinality(S) -> S]
           /\ \A j \in S : \E i \in DOMAIN SetToSeq(S) : SetToSeq(S)[i] = j
<1> DEFINE n == Cardinality(S)
<1>1. n \in Nat /\ ExistsBijection(1..n, S)
  BY FS_CardinalityType
<1>2. PICK f \in Bijection(1..n, S) : TRUE
  BY <1>1 DEF ExistsBijection
<1>3. f \in [1..n -> S] /\ IsInjective(f)
  BY <1>2 DEF Bijection, Injection
<1>4. SetToSeq(S) \in [1..n -> S] /\ IsInjective(SetToSeq(S))
  BY <1>3 DEF SetToSeq
<1>5. SetToSeq(S) \in Injection(1..n, S)
  BY <1>4 DEF Injection
<1>6. IsFiniteSet(1..n) /\ Cardinality(1..n) = n
  BY <1>1, FS_Interval
<1>7. SetToSeq(S) \in Surjection(1..n, S)
  BY <1>5, <1>6, FS_Injection
<1>8. \A j \in S : \E i \in DOMAIN SetToSeq(S) : SetToSeq(S)[i] = j
  BY <1>4, <1>7 DEF Surjection
<1> QED
  BY <1>1, <1>4, <1>8

(* Claims that are appended come after those that were issued.              *)
LEMMA AppendedIs ==
    ASSUME NEW s \in Seq(Claimings), NEW n \in Nat, NEW f \in [1..n -> Claimings]
    PROVE  /\ s \o f \in Seq(Claimings) /\ Len(s \o f) = Len(s) + n
           /\ \A i \in 1..Len(s) : (s \o f)[i] = s[i]
           /\ \A i \in 1..n : (s \o f)[Len(s) + i] = f[i]
<1>1. f \in Seq(Claimings)
  OBVIOUS
<1>2. Len(f) = n
  OBVIOUS
<1>3. s \o f \in Seq(Claimings) /\ Len(s \o f) = Len(s) + n
  BY <1>1, <1>2
<1>4. \A i \in 1..Len(s) : (s \o f)[i] = s[i]
  BY <1>1, <1>2
<1>5. \A i \in 1..n : (s \o f)[Len(s) + i] = f[i]
  BY <1>1, <1>2
<1> QED
  BY <1>3, <1>4, <1>5

\* The executions that a request for claims may be granted
Expired == {j \in Jobs : Open(job[j]) /\ job[j].lease # 0 /\ ~job[j].live}
Free    == {j \in Jobs : Open(job[j]) /\ job[j].lease = 0}
Due(l)  == (IF l.reclaim = TRUE THEN Expired ELSE {}) \cup
           (IF l.name \in {"claim", "claim-workflows"} THEN Free ELSE {})

\* The claim that an execution of S is granted
NewClaim(S, j) == Len(issued) + (CHOOSE i \in DOMAIN SetToSeq(S) : SetToSeq(S)[i] = j)

(* What a request for claims does                                           *)
LEMMA GrantIs ==
    ASSUME NEW m \in wire, Grant(m)
    PROVE  /\ m.request.name \in Claiming /\ UNCHANGED <<acked, heard>>
           /\ \E S \in SUBSET Due(m.request) :
                 /\ Len(issued) + Cardinality(S) <= MaxClaims
                 /\ job' = [j \in Jobs |-> IF j \in S THEN Claimed(job[j], NewClaim(S, j))
                                           ELSE job[j]]
                 /\ issued' = issued \o [i \in DOMAIN SetToSeq(S) |->
                                 [id |-> SetToSeq(S)[i],
                                  fence |-> job[SetToSeq(S)[i]].fence + 1]]
                 /\ Answer(m, "done", {NewClaim(S, j) : j \in S})
BY DEF Grant, Due, Expired, Free, NewClaim, counts

LEMMA GrantKeeps ==
    ASSUME IInv, NEW m \in wire, Grant(m)
    PROVE  IInv'
<1>1. PICK S \in SUBSET Due(m.request) :
          /\ Len(issued) + Cardinality(S) <= MaxClaims
          /\ job' = [j \in Jobs |-> IF j \in S THEN Claimed(job[j], NewClaim(S, j))
                                    ELSE job[j]]
          /\ issued' = issued \o [i \in DOMAIN SetToSeq(S) |->
                          [id |-> SetToSeq(S)[i],
                           fence |-> job[SetToSeq(S)[i]].fence + 1]]
          /\ Answer(m, "done", {NewClaim(S, j) : j \in S})
  BY GrantIs
<1>2. UNCHANGED <<acked, heard>>
  BY GrantIs
<1>3. S \subseteq Jobs /\ \A j \in S : Open(job[j])
  BY <1>1 DEF Due, Expired, Free
<1>4. IsFiniteSet(S)
  BY <1>3, BoundsAssumption, FS_Subset
<1>5. /\ Len(issued) \in Nat /\ job \in [Jobs -> Jobrecords] /\ issued \in Seq(Claimings)
      /\ \A j \in Jobs : job[j].fence \in Nat
  BY DEF IInv, ServerTypes, Jobrecords
<1> DEFINE n     == Cardinality(S)
           order == SetToSeq(S)
           more  == [i \in DOMAIN order |->
                        [id |-> order[i], fence |-> job[order[i]].fence + 1]]
<1>6. /\ n \in Nat /\ order \in [1..n -> S]
      /\ \A j \in S : \E i \in DOMAIN order : order[i] = j
  BY <1>4, OrderIs
<1>7. more \in [1..n -> Claimings]
  BY <1>3, <1>5, <1>6 DEF Claimings
<1>8. issued' = issued \o more
  BY <1>1
<1> HIDE DEF n, order
<1>9. /\ issued' \in Seq(Claimings) /\ Len(issued') = Len(issued) + n
      /\ \A i \in 1..Len(issued) : issued'[i] = issued[i]
      /\ \A i \in 1..n : issued'[Len(issued) + i] = more[i]
  <2> HIDE DEF more
  <2> QED
    BY <1>5, <1>6, <1>7, <1>8, AppendedIs
<1>10. ASSUME NEW j \in S
       PROVE  /\ NewClaim(S, j) \in (Len(issued) + 1)..Len(issued')
              /\ issued'[NewClaim(S, j)] = [id |-> j, fence |-> job[j].fence + 1]
  <2> DEFINE i == CHOOSE k \in DOMAIN order : order[k] = j
  <2>1. i \in 1..n /\ order[i] = j
    BY <1>6
  <2>2. NewClaim(S, j) = Len(issued) + i
    BY DEF NewClaim, order
  <2> HIDE DEF i
  <2> QED
    BY <1>5, <1>6, <1>9, <2>1, <2>2
<1>11. Len(issued') \in Nat /\ Len(issued) <= Len(issued')
  BY <1>5, <1>6, <1>9
<1>12. ClientTypes' /\ Faithful'
  <2>1. ASSUME NEW j \in S
        PROVE  NewClaim(S, j) \in 1..Len(issued')
    <3>1. NewClaim(S, j) \in (Len(issued) + 1)..Len(issued')
      BY <1>10
    <3> QED
      BY <1>5, <1>11, <3>1
  <2> DEFINE claims == {NewClaim(S, j) : j \in S}
  <2>2. claims \subseteq 1..Len(issued')
    BY <2>1
  <2>3. Answer(m, "done", claims)
    BY <1>1
  <2> HIDE DEF claims
  <2> QED
    BY <1>11, <2>2, <2>3, AnswerKeeps
<1>13. ASSUME NEW j \in Jobs
       PROVE  /\ job'[j] \in Jobrecords
              /\ \/ KeepsClaim(job[j], job'[j])
                 \/ Receives(j, job'[j], Len(issued), issued')
  <2>1. CASE j \in S
    <3>1. job'[j] = Claimed(job[j], NewClaim(S, j)) /\ NewClaim(S, j) \in Nat \ {0}
      <4>1. NewClaim(S, j) \in (Len(issued) + 1)..Len(issued')
        BY <1>10, <2>1
      <4>2. NewClaim(S, j) \in Nat \ {0}
        BY <1>5, <1>11, <4>1
      <4> QED
        BY <1>1, <1>5, <2>1, <4>2
    <3>2. /\ job'[j] \in Jobrecords /\ Open(job'[j])
          /\ job'[j].lease = NewClaim(S, j) /\ job'[j].fence = job[j].fence + 1
      BY <1>3, <1>5, <2>1, <3>1, ClaimedIs
    <3> QED
      BY <1>10, <2>1, <3>2 DEF Receives
  <2>2. CASE j \notin S
    BY <1>1, <1>5, <2>2 DEF KeepsClaim, IInv, Held
  <2> QED
    BY <2>1, <2>2
<1>14. ServerTypes'
  <2>1. Len(issued') <= MaxClaims
    BY <1>1, <1>9 DEF n
  <2>2. job' \in [Jobs -> Jobrecords]
    BY <1>1, <1>13
  <2> QED
    BY <1>2, <1>9, <2>1, <2>2 DEF IInv, ServerTypes
<1>15. Held' /\ Unspent'
  <2>1. Len(issued) <= Len(issued') /\ \A i \in 1..Len(issued) : issued'[i] = issued[i]
    BY <1>5, <1>6, <1>9
  <2>2. \A j \in Jobs : \/ KeepsClaim(job[j], job'[j])
                        \/ job'[j].lease = 0 /\ ~job'[j].live
                        \/ Receives(j, job'[j], Len(issued), issued')
    BY <1>13
  <2> QED
    BY <1>2, <1>14, <2>1, <2>2, ClaimsKept
<1> QED
  BY <1>12, <1>14, <1>15 DEF IInv

-----------------------------------------------------------------------------
(* Signals and rewinds                                                      *)

(* An execution that is released keeps its fencing token and no claim.      *)
LEMMA ReleasedIs ==
    ASSUME NEW r \in Jobrecords, NEW state \in Running
    PROVE  /\ Released(r, state) \in Jobrecords
           /\ Released(r, state).lease = 0 /\ ~Released(r, state).live
BY DEF Released, Jobrecords, Running, States, Terminal

LEMMA HearKeeps ==
    ASSUME IInv, NEW m \in wire, Hear(m)
    PROVE  IInv'
<1> DEFINE l == m.request
           j == l.items[1].id
<1>1. /\ Proper(l) /\ l.name = "signal" /\ m.line = l
      /\ UNCHANGED <<issued, acked>> /\ Answer(m, "done", {})
  BY DEF IInv, Faithful, Hear
<1>2. j \in Jobs /\ l.to \in {None, "review"} /\ l.key \in Keys \cup {None}
  BY <1>1 DEF Proper, Claiming
<1>3. /\ Len(issued) \in Nat /\ job \in [Jobs -> Jobrecords]
      /\ heard \in [Jobs -> [Keys -> {0, 1}]] /\ issued' = issued
  BY <1>1 DEF IInv, ServerTypes
<1>4. ClientTypes' /\ Faithful'
  BY <1>1, <1>3, AnswerKeeps
<1>5. \/ UNCHANGED job
      \/ l.to # None /\ job' = [job EXCEPT ![j] = Released(@, l.to)]
  BY DEF Hear
<1>6. heard' \in [Jobs -> [Keys -> {0, 1}]]
  <2>1. \/ UNCHANGED heard
        \/ /\ l.key # None /\ heard[j][l.key] = 0
           /\ heard' = [heard EXCEPT ![j][l.key] = @ + 1]
    BY <1>1 DEF Hear
  <2> QED
    BY <1>2, <1>3, <2>1
<1> HIDE DEF l, j
<1>7. ASSUME NEW k \in Jobs
      PROVE  /\ job'[k] \in Jobrecords
             /\ \/ KeepsClaim(job[k], job'[k])
                \/ job'[k].lease = 0 /\ ~job'[k].live
  <2>1. CASE job'[k] = job[k]
    BY <1>3, <2>1 DEF KeepsClaim, IInv, Held
  <2>2. CASE job'[k] # job[k]
    <3>1. job'[k] = Released(job[k], l.to) /\ l.to \in Running
      BY <1>2, <1>3, <1>5, <2>2 DEF Running
    <3> QED
      BY <1>3, <3>1, ReleasedIs
  <2> QED
    BY <2>1, <2>2
<1>8. ServerTypes'
  <2>1. job' \in [Jobs -> Jobrecords]
    BY <1>3, <1>5, <1>7
  <2> QED
    BY <1>1, <1>6, <2>1 DEF IInv, ServerTypes
<1>9. Held' /\ Unspent'
  <2>1. Len(issued) <= Len(issued') /\ \A i \in 1..Len(issued) : issued'[i] = issued[i]
    BY <1>3
  <2>2. \A k \in Jobs : \/ KeepsClaim(job[k], job'[k])
                        \/ job'[k].lease = 0 /\ ~job'[k].live
                        \/ Receives(k, job'[k], Len(issued), issued')
    BY <1>7
  <2> QED
    BY <1>1, <1>8, <2>1, <2>2, ClaimsKept
<1> QED
  BY <1>4, <1>8, <1>9 DEF IInv

LEMMA TurnBackKeeps ==
    ASSUME IInv, NEW m \in wire, TurnBack(m)
    PROVE  IInv'
<1> DEFINE l == m.request
           j == l.items[1].id
<1>1. /\ Proper(l) /\ l.name = "rewind" /\ UNCHANGED <<issued, acked, heard>>
      /\ \E outcome \in {"done", "stale", "exists"} : Answer(m, outcome, {})
  BY DEF IInv, Faithful, TurnBack, counts
<1>2. j \in Jobs /\ l.to \in Running
  BY <1>1 DEF Proper, Claiming, Leading
<1>3. /\ Len(issued) \in Nat /\ job \in [Jobs -> Jobrecords] /\ issued' = issued
  BY <1>1 DEF IInv, ServerTypes
<1>4. ClientTypes' /\ Faithful'
  BY <1>1, <1>3, AnswerKeeps
<1>5. UNCHANGED job \/ job' = [job EXCEPT ![j] = Released(@, l.to)]
  BY DEF TurnBack
<1> HIDE DEF l, j
<1>6. ASSUME NEW k \in Jobs
      PROVE  /\ job'[k] \in Jobrecords
             /\ \/ KeepsClaim(job[k], job'[k])
                \/ job'[k].lease = 0 /\ ~job'[k].live
  <2>1. CASE job'[k] = job[k]
    BY <1>3, <2>1 DEF KeepsClaim, IInv, Held
  <2>2. CASE job'[k] # job[k]
    <3>1. job'[k] = Released(job[k], l.to)
      BY <1>2, <1>3, <1>5, <2>2
    <3> QED
      BY <1>2, <1>3, <3>1, ReleasedIs
  <2> QED
    BY <2>1, <2>2
<1>7. ServerTypes'
  <2>1. job' \in [Jobs -> Jobrecords]
    BY <1>3, <1>5, <1>6
  <2> QED
    BY <1>1, <2>1 DEF IInv, ServerTypes
<1>8. Held' /\ Unspent'
  <2>1. Len(issued) <= Len(issued') /\ \A i \in 1..Len(issued) : issued'[i] = issued[i]
    BY <1>3
  <2>2. \A k \in Jobs : \/ KeepsClaim(job[k], job'[k])
                        \/ job'[k].lease = 0 /\ ~job'[k].live
                        \/ Receives(k, job'[k], Len(issued), issued')
    BY <1>6
  <2> QED
    BY <1>1, <1>7, <2>1, <2>2, ClaimsKept
<1> QED
  BY <1>4, <1>7, <1>8 DEF IInv

-----------------------------------------------------------------------------
(* The invariant                                                            *)

LEMMA InitEstablishes == Init => IInv
<1> SUFFICES ASSUME Init PROVE IInv
  OBVIOUS
<1> USE DEF Init
<1>1. session.requests \in Nat
  BY SessionsAssumption
<1>2. ClientTypes
  BY <1>1 DEF ClientTypes
<1>3. ASSUME NEW j \in Jobs
      PROVE  job[j] \in Jobrecords /\ job[j].lease = 0 /\ ~job[j].live
  <2>1. job[j] \in {Record("absent"), Record("queued")}
    OBVIOUS
  <2>2. ASSUME NEW state \in States
        PROVE  Record(state) \in Jobrecords /\ Record(state).lease = 0 /\ ~Record(state).live
    BY DEF Record, Jobrecords
  <2>3. "absent" \in States /\ "queued" \in States
    BY DEF States
  <2> QED
    BY <2>1, <2>2, <2>3
<1>4. ServerTypes
  <2>1. job \in [Jobs -> Jobrecords]
    BY <1>3
  <2>2. issued \in Seq(Claimings) /\ Len(issued) = 0
    OBVIOUS
  <2> QED
    BY <2>1, <2>2, BoundsAssumption DEF ServerTypes
<1>5. Held /\ Unspent
  BY <1>3, <1>4, BoundsAssumption DEF Held, Unspent
<1> QED
  BY <1>2, <1>4, <1>5 DEF IInv, Faithful

LEMMA NextKeeps == IInv /\ [Next]_vars => IInv'
<1> SUFFICES ASSUME IInv, [Next]_vars PROVE IInv'
  OBVIOUS
<1>1. CASE Next
  BY <1>1, CommandKeeps, GiveUpKeeps, ActKeeps, CreateKeeps, GrantKeeps, HearKeeps,
     TurnBackKeeps, ExpireKeeps
     DEF Next
<1>2. CASE UNCHANGED vars
  BY <1>2 DEF vars, server, client, counts, IInv, ClientTypes, ServerTypes, Faithful, Held,
              Unspent, Open
<1> QED
  BY <1>1, <1>2

LEMMA InvHolds == Spec => []IInv
BY InitEstablishes, NextKeeps, PTL DEF Spec

-----------------------------------------------------------------------------

(* Every variable always has its type; a lease and its execution have the   *)
(* same fencing token, and who was shown a claim was shown one that was     *)
(* issued (queue.go, flow_reclaim.go).                                      *)
THEOREM TypeCorrect == Spec => []TypeOK
<1>1. IInv => TypeOK
  <2> SUFFICES ASSUME IInv PROVE TypeOK
    OBVIOUS
  <2>1. session.requests \in Nat
    BY SessionsAssumption DEF IInv, ClientTypes
  <2>2. \A m \in wire : m.user \in Users /\ m.n < commands /\ m.request.limit > 0
    BY <2>1 DEF IInv, ClientTypes, Faithful, Proper
  <2> QED
    BY <2>2 DEF IInv, ClientTypes, ServerTypes, Held, Jobrecords, TypeOK
<1> QED
  BY <1>1, InvHolds, PTL

(* For every number of users, executions, claims and requests, nobody       *)
(* acknowledges a claim twice (validateClaimedItemsInput).                  *)
THEOREM NobodyAcknowledgesTwice == Spec => []AcknowledgedOnce
<1>1. IInv => AcknowledgedOnce
  BY DEF IInv, ServerTypes, Unspent, AcknowledgedOnce
<1> QED
  BY <1>1, InvHolds, PTL

(* However often and however late a signal is repeated with its key, it     *)
(* acts once (queue signal, flowSignalFlags).                               *)
THEOREM SignalsActOnce == Spec => []SignalActsOnce
<1>1. IInv => SignalActsOnce
  BY DEF IInv, ServerTypes, SignalActsOnce
<1> QED
  BY <1>1, InvHolds, PTL

-----------------------------------------------------------------------------
(* What a step may do                                                       *)

(* Every command types a line, and sends it or is refused.                  *)
LEMMA CommandInvokes ==
    ASSUME NEW u \in Users, Command(u)
    PROVE  \E l, request, accepted : InvokeAs(u, l, request, accepted)
BY DEF Command, Extend, Complete, Retry, Fail, Cancel, SpawnChildren, Guarded, Transition,
       StepContinue, Moving, Enqueue, Start, Creating, StartAndClaim, Claim, ClaimWorkflows,
       Reclaim, ReclaimWorkflows, Claims, Signal, Rewind, CreateMany, TransitionMany,
       CompleteMany, RetryMany, FailMany, CancelMany, Many, Invoke

(* The commands, and those who give up waiting, change no execution, and    *)
(* nobody is told by them that one exists.                                  *)
LEMMA ClientsChangeNoJob ==
    ASSUME IInv, NEW u \in Users, Command(u) \/ GiveUp(u)
    PROVE  /\ UNCHANGED job
           /\ \A v \in Users : told'[v] = "exists" => told[v] = "exists"
<1>1. told \in [Users -> {"nothing", "refused", "done", "stale", "exists", "unknown"}]
  BY DEF IInv, ClientTypes
<1>2. CASE GiveUp(u)
  BY <1>1, <1>2 DEF GiveUp, server
<1>3. CASE Command(u)
  BY <1>1, <1>3, CommandInvokes DEF InvokeAs, server
<1> QED
  BY <1>2, <1>3

(* A request is handled once, and it is the line that was typed.            *)
LEMMA HandledIs ==
    ASSUME IInv, NEW m \in wire,
           Act(m) \/ Create(m) \/ Grant(m) \/ Hear(m) \/ TurnBack(m)
    PROVE  m \in Handled /\ m.line = m.request
<1>1. \A outcome, claims : Answer(m, outcome, claims) => wire' = wire \ {m}
  BY DEF Answer
<1>2. wire' = wire \ {m}
  BY <1>1 DEF Act, Create, Grant, Hear, TurnBack
<1> QED
  BY <1>2 DEF Handled, IInv, Faithful

(* A creation changes only what nobody holds.                               *)
LEMMA CreateJobs ==
    ASSUME IInv, NEW m \in wire, Create(m), NEW j \in Jobs, job'[j] # job[j]
    PROVE  job[j].lease = 0 /\ ~job[j].live
<1>1. job \in [Jobs -> Jobrecords]
  BY DEF IInv, ServerTypes
<1>2. job[j].state = "absent"
  BY <1>1 DEF Create, server
<1> QED
  BY <1>1, <1>2 DEF IInv, Held, Open, Jobrecords

(* A claim changes what nobody holds, and, if it asks for it, what has an   *)
(* expired lease.                                                           *)
LEMMA GrantJobs ==
    ASSUME IInv, NEW m \in wire, Grant(m), NEW j \in Jobs, job'[j] # job[j]
    PROVE  ~job[j].live /\ (job[j].lease # 0 => m.request.reclaim = TRUE)
<1>1. PICK S \in SUBSET Due(m.request) :
          job' = [k \in Jobs |-> IF k \in S THEN Claimed(job[k], NewClaim(S, k)) ELSE job[k]]
  BY GrantIs
<1>2. j \in Due(m.request)
  BY <1>1 DEF IInv, ServerTypes
<1> QED
  BY <1>2 DEF Due, Expired, Free, IInv, Held

(* A signal or a rewind leaves an execution without a claim, or as it was.  *)
LEMMA ReleaseJobs ==
    ASSUME IInv, NEW m \in wire, Hear(m) \/ TurnBack(m), NEW j \in Jobs
    PROVE  /\ m.request.name \in ForOthers
           /\ job'[j] = job[j] \/ job'[j].lease = 0
<1>1. /\ Proper(m.request) /\ m.request.name \in {"signal", "rewind"}
      /\ job \in [Jobs -> Jobrecords]
  BY DEF IInv, Faithful, ServerTypes, Hear, TurnBack
<1>2. \/ UNCHANGED job
      \/ /\ m.request.to \in Running
         /\ job' = [job EXCEPT ![m.request.items[1].id] = Released(@, m.request.to)]
  BY <1>1 DEF Hear, TurnBack, Proper, Leading, Running
<1> QED
  BY <1>1, <1>2, ReleasedIs DEF ForOthers

(* Whatever the users type and however late their requests are handled, a   *)
(* live claim is ended, renewed or replaced only by who holds it, or by a   *)
(* command that is meant for others (flowLeaseFlags.validate); who spawns   *)
(* children needs its fencing token, and moves it to another state only.    *)
THEOREM OnlyTheHolderActs == Spec => OnlyHolderActs
<1>1. IInv /\ [Next]_vars =>
        [\A j \in Jobs : job[j].live /\ job'[j] \notin {job[j], [job[j] EXCEPT !.live = FALSE]} =>
            \E m \in Handled :
               \/ m.line.name \in {"cancel", "cancel-many", "signal", "rewind"}
               \/ /\ m.line.name = "spawn-children" /\ m.line.items[1].fencing = job[j].fence
                  /\ job'[j] = [job[j] EXCEPT !.state = job'[j].state]
               \/ \E i \in DOMAIN m.line.items :
                     m.line.items[i].id = j /\ m.line.items[i].lease = job[j].lease]_vars
  <2> SUFFICES
        ASSUME IInv, Next, NEW j \in Jobs, job[j].live, job'[j] # job[j],
               job'[j] # [job[j] EXCEPT !.live = FALSE]
        PROVE  \E m \in Handled :
                  \/ m.line.name \in ForOthers \/ Spawns(m.line, j)
                  \/ \E i \in DOMAIN m.line.items :
                        m.line.items[i].id = j /\ m.line.items[i].lease = job[j].lease
    BY DEF ForOthers, Spawns
  <2>1. ASSUME NEW m \in wire, Act(m)
        PROVE  \/ m.line.name \in ForOthers \/ Spawns(m.line, j)
               \/ \E i \in DOMAIN m.line.items :
                     m.line.items[i].id = j /\ m.line.items[i].lease = job[j].lease
    BY <2>1, ActJobs
  <2>2. ASSUME NEW m \in wire, Create(m) \/ Grant(m)
        PROVE  FALSE
    BY <2>2, CreateJobs, GrantJobs
  <2>3. ASSUME NEW m \in wire, Hear(m) \/ TurnBack(m)
        PROVE  m.line.name \in ForOthers
    BY <2>3, ReleaseJobs, HandledIs
  <2>4. ASSUME NEW k \in Jobs, Expire(k)
        PROVE  FALSE
    BY <2>4 DEF Expire, IInv, ServerTypes
  <2> QED
    BY <2>1, <2>2, <2>3, <2>4, ClientsChangeNoJob, HandledIs DEF Next
<1> QED
  BY <1>1, InvHolds, PTL DEF Spec, OnlyHolderActs

(* A slow worker's expired claim is replaced only by a command that asks    *)
(* for expired work (flowReclaimFlags.options).                             *)
THEOREM TakenOverOnlyIfAskedFor == Spec => TakenOverOnlyIfAsked
<1>1. IInv /\ [Next]_vars =>
        [\A j \in Jobs : job[j].lease # 0 /\ job'[j].lease \notin {0, job[j].lease} =>
            ~job[j].live /\ \E m \in Handled : m.line.reclaim = TRUE]_vars
  <2> SUFFICES
        ASSUME IInv, Next, NEW j \in Jobs, job[j].lease # 0, job'[j].lease # 0,
               job'[j].lease # job[j].lease
        PROVE  ~job[j].live /\ \E m \in Handled : m.line.reclaim = TRUE
    BY DEF vars
  <2>1. ASSUME NEW m \in wire, Act(m)
        PROVE  FALSE
    BY <2>1, ActJobs DEF KeepsClaim
  <2>2. ASSUME NEW m \in wire, Create(m)
        PROVE  FALSE
    BY <2>2, CreateJobs
  <2>3. ASSUME NEW m \in wire, Grant(m)
        PROVE  ~job[j].live /\ m \in Handled /\ m.line.reclaim = TRUE
    BY <2>3, GrantJobs, HandledIs
  <2>4. ASSUME NEW m \in wire, Hear(m) \/ TurnBack(m)
        PROVE  FALSE
    BY <2>4, ReleaseJobs
  <2>5. ASSUME NEW k \in Jobs, Expire(k)
        PROVE  FALSE
    BY <2>5 DEF Expire, IInv, ServerTypes, Jobrecords
  <2> QED
    BY <2>1, <2>2, <2>3, <2>4, <2>5, ClientsChangeNoJob DEF Next
<1> QED
  BY <1>1, InvHolds, PTL DEF Spec, TakenOverOnlyIfAsked

(* Who repeats an --idempotent creation whose answer was lost is never told *)
(* that the execution exists already (flowCreateFlags.options).             *)
THEOREM StartsAreRepeatable == Spec => RepeatableStart
<1>1. IInv /\ [Next]_vars =>
        [\A u \in Users : told[u] # "exists" /\ told'[u] = "exists" =>
            \E m \in Handled : m.user = u /\ ~m.line.idempotent]_vars
  <2> SUFFICES
        ASSUME IInv, Next, NEW u \in Users, told[u] # "exists", told'[u] = "exists"
        PROVE  \E m \in Handled : m.user = u /\ ~m.line.idempotent
    BY DEF vars, client
  <2>1. told \in [Users -> {"nothing", "refused", "done", "stale", "exists", "unknown"}]
    BY DEF IInv, ClientTypes
  <2>2. ASSUME NEW v \in Users, Command(v) \/ GiveUp(v)
        PROVE  FALSE
    BY <2>2, ClientsChangeNoJob
  <2>3. ASSUME NEW m \in wire, NEW outcome, NEW claims, Answer(m, outcome, claims)
        PROVE  outcome = "exists" /\ m.user = u
    BY <2>1, <2>3 DEF Answer
  <2>4. ASSUME NEW m \in wire, Act(m) \/ Grant(m) \/ Hear(m) \/ TurnBack(m)
        PROVE  FALSE
    <3>1. \E outcome \in {"done", "stale"} : \E claims : Answer(m, outcome, claims)
      BY <2>4 DEF Act, Grant, Hear, TurnBack
    <3> QED
      BY <2>3, <3>1
  <2>5. ASSUME NEW m \in wire, Create(m)
        PROVE  m \in Handled /\ m.user = u /\ ~m.line.idempotent
    <3>1. \E outcome, claims : Answer(m, outcome, claims)
                               /\ (outcome = "exists" => ~m.request.idempotent)
      BY <2>5 DEF Create
    <3> QED
      BY <2>3, <2>5, <3>1, HandledIs
  <2>6. ASSUME NEW k \in Jobs, Expire(k)
        PROVE  FALSE
    BY <2>6 DEF Expire, client
  <2> QED
    BY <2>2, <2>4, <2>5, <2>6 DEF Next
<1> QED
  BY <1>1, InvHolds, PTL DEF Spec, RepeatableStart
=============================================================================
