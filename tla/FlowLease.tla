------------------------------ MODULE FlowLease -------------------------------
(***************************************************************************)
(* The lifecycle commands of ferric queue and ferric workflow (internal/   *)
(* cli: queue.go, workflow.go, workflow_advanced.go, flow_flags.go,        *)
(* flow_reclaim.go, flow_bulk.go): users who create, claim and acknowledge *)
(* executions with one-shot commands, some of whose answers come too late. *)
(*                                                                         *)
(* The server is external.  It compares what a request gives: the fencing  *)
(* token always, the lease token when there is one; so it rests on the     *)
(* commands to insist on both.  A batch acts on all of its items or on     *)
(* none, unless they are independent.  It grants work with an expired      *)
(* lease to who asks for it, not to who says nothing of it (reclaim None). *)
(* A claim is a number, which is its lease token; 0 stands for a lease     *)
(* token that is not given.                                                *)
(***************************************************************************)
EXTENDS Integers, Sequences, FiniteSets, SequencesExt

CONSTANTS Users, Jobs,
          Sessions,       \* bounds: the commands that the users know, their
                          \* executions, the fencing tokens that are typed
                          \* and the number of requests
          MaxClaims,      \* bound: claims and reclaims
          None

ASSUME BoundsAssumption == MaxClaims \in Nat /\ IsFiniteSet(Jobs)

ASSUME SessionsAssumption ==
    \A s \in Sessions :
        s.jobs \subseteq Jobs /\ s.fencings \subseteq Int /\ s.requests \in Nat

VARIABLES session,        \* the session that these users are in
          job,            \* server: the record of each execution
          issued,         \* server: the claims, each with its execution
          wire,           \* requests that were sent and not handled yet
          waiting,        \* per user: the number of the command that runs, or None
          seen,           \* per user: the claims that were printed
          told,           \* per user: the outcome of the last command
          commands,       \* requests so far
          acked,          \* per claim: how often it was acknowledged
          heard           \* per execution: how often a signal's key acted

server == <<job, issued>>
client == <<waiting, seen, told, commands>>
counts == <<acked, heard>>
vars   == <<session, server, wire, client, counts>>

Keys     == {"key"}
Terminal == {"completed", "failed", "cancelled"}
States   == Terminal \cup {"absent", "queued", "review", "running"}

\* A record's state is its run state: that it is claimed is in its lease.
Record(state) == [state |-> state, lease |-> 0, fence |-> 0, live |-> FALSE]

Init ==
    /\ session \in Sessions
    /\ job \in [Jobs -> {Record("absent"), Record("queued")}]
    /\ \A j \in Jobs \ session.jobs : job[j] = Record("absent")
    /\ issued = <<>>
    /\ wire = {}
    /\ waiting = [u \in Users |-> None]
    /\ seen = [u \in Users |-> {}]
    /\ told = [u \in Users |-> "nothing"]
    /\ commands = 0
    /\ acked = [c \in 1..MaxClaims |-> 0]
    /\ heard = [j \in Jobs |-> [k \in Keys |-> 0]]

-----------------------------------------------------------------------------
(* Command lines.  valid: the other arguments pass (durations, payload,     *)
(* assignments, run-at); worker: --worker is not blank.                     *)

Line(name, valid) ==
    [name |-> name, valid |-> valid, items |-> <<>>, from |-> None, to |-> None,
     worker |-> TRUE, limit |-> 1, reclaim |-> None, idempotent |-> FALSE,
     key |-> None, independent |-> FALSE]

\* What a user may type for an execution: the tokens of claims that were
\* printed, in any combination, or none.
Items(u) ==
    {[id |-> j, lease |-> c, fencing |-> f] :
        j \in session.jobs, c \in {0} \cup seen[u], f \in session.fencings}

Ready(u, name) == waiting[u] = None /\ name \in session.offered /\ commands < session.requests

\* The line is refused, or its request is sent.
InvokeAs(u, l, request, accepted) ==
    /\ IF accepted
       THEN /\ waiting' = [waiting EXCEPT ![u] = commands]
            /\ wire' = wire \cup {[user |-> u, n |-> commands, line |-> l, request |-> request]}
            /\ told' = [told EXCEPT ![u] = "nothing"]
            /\ commands' = commands + 1
       ELSE /\ told' = [told EXCEPT ![u] = "refused"]
            /\ UNCHANGED <<waiting, wire, commands>>
    /\ UNCHANGED <<session, server, seen, counts>>

Invoke(u, l, accepted) == InvokeAs(u, l, l, accepted)

\* Mutation: the lease token may be left out everywhere.
LeaseOptional(item, requireLease, requirePositiveFencing) ==
    /\ requirePositiveFencing => item.fencing > 0
    /\ item.fencing >= 0

\* flowLeaseFlags.validate
LeaseAccepts(item, requireLease, requirePositiveFencing) ==
    /\ requireLease => item.lease # 0
    /\ requirePositiveFencing => item.fencing > 0
    /\ item.fencing >= 0

Guarded(u, name, requireLease, requirePositiveFencing) ==
    Ready(u, name) /\ \E item \in Items(u), valid \in BOOLEAN :
        Invoke(u, [Line(name, valid) EXCEPT !.items = <<item>>],
               valid /\ LeaseAccepts(item, requireLease, requirePositiveFencing))

Extend(u) == Guarded(u, "extend", TRUE, TRUE)
Complete(u) == Guarded(u, "complete", TRUE, TRUE)
Retry(u) == Guarded(u, "retry", TRUE, TRUE)
Fail(u) == Guarded(u, "fail", TRUE, TRUE)
Cancel(u) == Guarded(u, "cancel", FALSE, FALSE)

\* from, to: --from-state and --wait-state, where the parent waits
SpawnChildren(u) ==
    Ready(u, "spawn-children")
    /\ \E item \in Items(u), valid \in BOOLEAN, from \in {None, "queued"}, to \in {None, "review"} :
          Invoke(u, [Line("spawn-children", valid) EXCEPT !.items = <<item>>, !.from = from, !.to = to],
                 LeaseAccepts(item, FALSE, TRUE) /\ valid)

Moves == {<<"queued", "review">>, <<"review", "queued">>, <<"queued", "running">>}

Moving(u, name) ==
    Ready(u, name) /\ \E item \in Items(u), move \in Moves, valid \in BOOLEAN :
        Invoke(u, [Line(name, valid) EXCEPT !.items = <<item>>, !.from = move[1], !.to = move[2]],
               LeaseAccepts(item, TRUE, TRUE) /\ valid)

Transition(u) == Moving(u, "transition")
StepContinue(u) == Moving(u, "step-continue")

-----------------------------------------------------------------------------
(* Creation, claims and signals                                             *)

Unfenced(j) == <<[id |-> j, lease |-> 0, fencing |-> 0]>>

Creating(u, name) ==
    Ready(u, name) /\ \E j \in session.jobs, idempotent, valid \in BOOLEAN :
        Invoke(u, [Line(name, valid) EXCEPT !.items = Unfenced(j), !.idempotent = idempotent,
                                            !.to = "queued"], valid)

Enqueue(u) == Creating(u, "enqueue")

\* Mutation: --idempotent is not passed on.
StartForgets(u) ==
    Ready(u, "start") /\ \E j \in session.jobs, idempotent, valid \in BOOLEAN :
        LET l == [Line("start", valid) EXCEPT !.items = Unfenced(j), !.idempotent = idempotent,
                                              !.to = "queued"]
        IN  InvokeAs(u, l, [l EXCEPT !.idempotent = FALSE], valid)

Start(u) == Creating(u, "start")

StartAndClaim(u) ==
    Ready(u, "start-and-claim") /\ \E j \in session.jobs, worker, valid \in BOOLEAN :
        Invoke(u, [Line("start-and-claim", valid) EXCEPT !.items = Unfenced(j), !.worker = worker,
                                                         !.to = "queued"], worker /\ valid)

\* Mutation: the limit is not looked at.
ClaimsUnlimited(u, name, reclaims) ==
    Ready(u, name) /\ \E limit \in 0..2, reclaim \in reclaims, worker, valid \in BOOLEAN :
        Invoke(u, [Line(name, valid) EXCEPT !.limit = limit, !.reclaim = reclaim, !.worker = worker],
               worker /\ valid)

\* flowClaimFlags.options and flowReclaimFlags.options
Claims(u, name, reclaims) ==
    Ready(u, name) /\ \E limit \in 0..2, reclaim \in reclaims, worker, valid \in BOOLEAN :
        Invoke(u, [Line(name, valid) EXCEPT !.limit = limit, !.reclaim = reclaim, !.worker = worker],
               worker /\ valid /\ limit > 0)

\* Mutation: work with an expired lease is always included.
ClaimTakesExpired(u) ==
    Ready(u, "claim") /\ \E limit \in 0..2, worker, valid \in BOOLEAN :
        LET l == [Line("claim", valid) EXCEPT !.limit = limit, !.worker = worker]
        IN  InvokeAs(u, l, [l EXCEPT !.reclaim = TRUE], worker /\ valid /\ limit > 0)

\* --reclaim-expired is sent when it is given.
Claim(u) == Claims(u, "claim", {None} \cup BOOLEAN)
ClaimWorkflows(u) == Claims(u, "claim-workflows", {None} \cup BOOLEAN)
Reclaim(u) == Claims(u, "reclaim", {TRUE})
ReclaimWorkflows(u) == Claims(u, "reclaim-workflows", {TRUE})

Signals(u) ==
    {[Line("signal", valid) EXCEPT !.items = Unfenced(j), !.key = key, !.from = from, !.to = to] :
        j \in session.jobs, valid \in BOOLEAN, key \in Keys \cup {None},
        from \in {None, "queued"}, to \in {None, "review"}}

\* Mutation: the deduplication key is left out.
SignalForgets(u) == Ready(u, "signal") /\ \E l \in Signals(u) : InvokeAs(u, l, [l EXCEPT !.key = None], l.valid)

Signal(u) == Ready(u, "signal") /\ \E l \in Signals(u) : Invoke(u, l, l.valid)

\* valid: there is an event to return to, and a time.
Rewind(u) ==
    Ready(u, "rewind") /\ \E j \in session.jobs, valid \in BOOLEAN, expect \in {None, "queued"} :
        Invoke(u, [Line("rewind", valid) EXCEPT !.items = Unfenced(j), !.from = expect,
                                                !.to = "queued"], valid)

-----------------------------------------------------------------------------
(* Batches                                                                  *)

Distinct(items) == \A i, k \in DOMAIN items : items[i].id = items[k].id => i = k

\* Mutation: an execution may be named twice.
BatchRepeats(l, requireLease) ==
    /\ l.items # <<>>
    /\ \A i \in DOMAIN l.items : l.items[i].fencing >= 0 /\ (requireLease => l.items[i].lease # 0)

\* validateClaimedItemsInput and, without requireLease, validateFencedItemsInput
BatchAccepts(l, requireLease) ==
    /\ l.items # <<>>
    /\ \A i \in DOMAIN l.items : l.items[i].fencing >= 0 /\ (requireLease => l.items[i].lease # 0)
    /\ l.independent \/ Distinct(l.items)

UpToTwo(S) == {<<>>} \cup {<<s>> : s \in S} \cup {<<s, t>> : s \in S, t \in S}

MovesOf(name) == IF name = "transition-many" THEN Moves ELSE {<<None, None>>}

Batch(name, valid, independent, move, items) ==
    [Line(name, valid) EXCEPT !.items = items, !.independent = independent,
                              !.from = move[1], !.to = move[2]]

Batches(u, name) ==
    {Batch(name, valid, independent, move, items) :
        valid \in BOOLEAN, independent \in BOOLEAN, move \in MovesOf(name),
        items \in UpToTwo(Items(u))}

Many(u, name, requireLease) ==
    Ready(u, name) /\ \E l \in Batches(u, name) : Invoke(u, l, l.valid /\ BatchAccepts(l, requireLease))

CompleteMany(u) == Many(u, "complete-many", TRUE)
RetryMany(u) == Many(u, "retry-many", TRUE)
FailMany(u) == Many(u, "fail-many", TRUE)
CancelMany(u) == Many(u, "cancel-many", FALSE)

\* validateTransitionManyInput: running is only entered by claim.
TransitionMany(u) ==
    Ready(u, "transition-many") /\ \E l \in Batches(u, "transition-many") :
        Invoke(u, l, l.valid /\ l.to # "running" /\ BatchAccepts(l, TRUE))

\* validateCreateManyInput
CreateMany(u) ==
    Ready(u, "create-many") /\ \E s \in UpToTwo(session.jobs), idempotent, independent, valid \in BOOLEAN :
        LET l == [Line("create-many", valid) EXCEPT
                     !.items = [i \in DOMAIN s |-> Unfenced(s[i])[1]], !.to = "queued",
                     !.idempotent = idempotent, !.independent = independent]
        IN  Invoke(u, l, valid /\ l.items # <<>> /\ (independent \/ Distinct(l.items)))

Command(u) ==
    \/ Extend(u) \/ Complete(u) \/ Retry(u) \/ Fail(u) \/ Cancel(u) \/ SpawnChildren(u)
    \/ Transition(u) \/ StepContinue(u) \/ Enqueue(u) \/ Start(u) \/ StartAndClaim(u)
    \/ Claim(u) \/ ClaimWorkflows(u) \/ Reclaim(u) \/ ReclaimWorkflows(u)
    \/ Signal(u) \/ Rewind(u) \/ CreateMany(u) \/ TransitionMany(u)
    \/ CompleteMany(u) \/ RetryMany(u) \/ FailMany(u) \/ CancelMany(u)

-----------------------------------------------------------------------------
(* The server                                                               *)

Open(r) == r.state \notin Terminal \cup {"absent"}

Fits(l, item) ==
    LET r == job[item.id]
    IN  /\ Open(r) /\ item.fencing = r.fence
        /\ item.lease # 0 => item.lease = r.lease
        /\ l.name \in {"transition", "step-continue", "transition-many"} => l.from = r.state
        /\ l.name = "spawn-children" => l.from \in {None, r.state}

Released(r, state) == [r EXCEPT !.state = state, !.lease = 0, !.live = FALSE]

After(l, r) ==
    CASE l.name \in {"complete", "complete-many"}     -> Released(r, "completed")
      [] l.name \in {"retry", "retry-many"}           -> Released(r, r.state)
      [] l.name \in {"fail", "fail-many"}             -> Released(r, "failed")
      [] l.name \in {"cancel", "cancel-many"}         -> Released(r, "cancelled")
      [] l.name \in {"transition", "transition-many"} -> Released(r, l.to)
      [] l.name = "step-continue"                     -> [r EXCEPT !.state = l.to, !.live = r.lease # 0]
      [] l.name = "extend"                            -> [r EXCEPT !.live = r.lease # 0]
      [] l.name = "spawn-children"                    -> IF l.to = None THEN r ELSE [r EXCEPT !.state = l.to]

Acknowledging ==
    {"complete", "retry", "fail", "cancel", "transition",
     "complete-many", "retry-many", "fail-many", "cancel-many", "transition-many"}

Creation == {"enqueue", "start", "start-and-claim", "create-many"}
Claiming == {"claim", "claim-workflows", "reclaim", "reclaim-workflows"}

\* The outcome reaches the user, unless the user gave up before.
Answer(m, outcome, claims) ==
    /\ wire' = wire \ {m}
    /\ IF waiting[m.user] = m.n
       THEN /\ waiting' = [waiting EXCEPT ![m.user] = None]
            /\ told' = [told EXCEPT ![m.user] = outcome]
            /\ seen' = [seen EXCEPT ![m.user] = @ \cup claims]
       ELSE UNCHANGED <<waiting, told, seen>>
    /\ UNCHANGED <<session, commands>>

\* The timeout passes: what was sent may still be handled.
GiveUp(u) ==
    /\ waiting[u] # None
    /\ waiting' = [waiting EXCEPT ![u] = None]
    /\ told' = [told EXCEPT ![u] = "unknown"]
    /\ UNCHANGED <<session, server, wire, seen, commands, counts>>

\* The items that a request acts on.  Only an expired lease leaves a choice.
ActsOn(l) ==
    LET all  == DOMAIN l.items
        fit  == {i \in all : Fits(l, l.items[i])}
        sure == {i \in fit : LET r == job[l.items[i].id] IN r.lease = 0 \/ r.live}
        Same(i, k) == l.items[i].id = l.items[k].id
    IN  IF l.independent
        THEN {A \in SUBSET fit : /\ \A i \in sure : \E k \in A : Same(i, k)
                                 /\ \A i, k \in A : Same(i, k) => i = k}
        ELSE IF fit # all THEN {{}} ELSE IF sure = all THEN {all} ELSE {{}, all}

Act(m) ==
    LET l == m.request
    IN  /\ l.name \notin Creation \cup Claiming \cup {"signal", "rewind"}
        /\ \E A \in ActsOn(l) :
              /\ job' = [j \in Jobs |-> IF \E i \in A : l.items[i].id = j
                                        THEN After(l, job[j]) ELSE job[j]]
              /\ acked' = [c \in DOMAIN acked |-> acked[c] + Cardinality(
                              {i \in A : l.name \in Acknowledging /\ job[l.items[i].id].lease = c})]
              /\ Answer(m, IF A = DOMAIN l.items THEN "done" ELSE "stale", {})
        /\ UNCHANGED <<issued, heard>>

Claimed(r, c) == [r EXCEPT !.lease = c, !.fence = @ + 1, !.live = TRUE]

Create(m) ==
    LET l    == m.request
        ids  == {l.items[i].id : i \in DOMAIN l.items}
        new  == {j \in ids : job[j].state = "absent"}
        c    == Len(issued) + 1
        takes == l.name = "start-and-claim"
    IN  /\ l.name \in Creation
        /\ IF new = ids \/ l.idempotent \/ l.independent
           THEN /\ takes => c <= MaxClaims
                /\ job' = [j \in Jobs |-> IF j \notin new THEN job[j]
                             ELSE IF takes THEN Claimed(Record(l.to), c) ELSE Record(l.to)]
                /\ issued' = IF takes THEN [i \in 1..c |-> IF i < c THEN issued[i]
                                            ELSE [id |-> l.items[1].id, fence |-> 1]] ELSE issued
                /\ Answer(m, IF new = ids \/ l.idempotent THEN "done" ELSE "exists",
                          IF takes THEN {c} ELSE {})
           ELSE Answer(m, "exists", {}) /\ UNCHANGED server
        /\ UNCHANGED counts

Grant(m) ==
    LET l       == m.request
        expired == {j \in Jobs : Open(job[j]) /\ job[j].lease # 0 /\ ~job[j].live}
        free    == {j \in Jobs : Open(job[j]) /\ job[j].lease = 0}
        due     == (IF l.reclaim = TRUE THEN expired ELSE {}) \cup
                   (IF l.name \in {"claim", "claim-workflows"} THEN free ELSE {})
    IN  /\ l.name \in Claiming
        /\ \E S \in SUBSET due :
              LET order == SetToSeq(S)
                  n     == Len(issued)
                  New(j) == n + (CHOOSE i \in DOMAIN order : order[i] = j)
              IN  /\ Cardinality(S) <= l.limit /\ n + Cardinality(S) <= MaxClaims
                  /\ job' = [j \in Jobs |-> IF j \in S THEN Claimed(job[j], New(j)) ELSE job[j]]
                  /\ issued' = issued \o [i \in DOMAIN order |->
                                  [id |-> order[i], fence |-> job[order[i]].fence + 1]]
                  /\ Answer(m, "done", {New(j) : j \in S})
        /\ UNCHANGED counts

\* A signal acts once for a key, and in the state it is meant for.
Hear(m) ==
    LET l == m.request  j == l.items[1].id
        acts == /\ Open(job[j])
                /\ l.from \in {None, job[j].state}
                /\ l.key # None => heard[j][l.key] = 0
    IN  /\ l.name = "signal"
        /\ IF acts
           THEN /\ job' = IF l.to = None THEN job
                          ELSE [job EXCEPT ![j] = Released(@, l.to)]
                /\ heard' = IF m.line.key = None THEN heard
                            ELSE [heard EXCEPT ![j][m.line.key] = @ + 1]
           ELSE UNCHANGED <<job, heard>>
        /\ Answer(m, "done", {})
        /\ UNCHANGED <<issued, acked>>

TurnBack(m) ==
    LET l == m.request  j == l.items[1].id
    IN  /\ l.name = "rewind"
        /\ IF job[j].state # "absent" /\ l.from \in {None, job[j].state}
           THEN /\ job' = [job EXCEPT ![j] = Released(@, l.to)]
                /\ Answer(m, "done", {})
           ELSE Answer(m, "stale", {}) /\ UNCHANGED job
        /\ UNCHANGED <<issued, counts>>

Expire(j) ==
    /\ job[j].live
    /\ job' = [job EXCEPT ![j].live = FALSE]
    /\ UNCHANGED <<session, issued, wire, client, counts>>

Next ==
    \/ \E u \in Users : Command(u) \/ GiveUp(u)
    \/ \E m \in wire : Act(m) \/ Create(m) \/ Grant(m) \/ Hear(m) \/ TurnBack(m)
    \/ \E j \in Jobs : Expire(j)

Spec == Init /\ [][Next]_vars

-----------------------------------------------------------------------------

(* Every variable has its type; a request for claims has a limit, a lease   *)
(* and its execution have the same fencing token, a printed claim was       *)
(* issued.                                                                  *)
TypeOK ==
    /\ \A j \in Jobs :
          /\ job[j].state \in States /\ job[j].lease \in 0..Len(issued)
          /\ job[j].live => job[j].lease # 0
          /\ job[j].lease # 0 => issued[job[j].lease] = [id |-> j, fence |-> job[j].fence]
    /\ Len(issued) <= MaxClaims /\ session \in Sessions /\ commands \in 0..session.requests
    /\ \A m \in wire : m.user \in Users /\ m.n < commands /\ m.request.limit > 0
    /\ \A u \in Users :
          /\ waiting[u] = None \/ waiting[u] \in 0..(commands - 1)
          /\ seen[u] \subseteq 1..Len(issued)
          /\ told[u] \in {"nothing", "refused", "done", "stale", "exists", "unknown"}

\* The request that a step handles
Handled == wire \ wire'

(* A live claim is ended, renewed or replaced by nobody but its holder: by  *)
(* a command that carries its lease token, or by one of those that are      *)
(* meant for others (cancel, signal, rewind); but for these, only a command *)
(* that spawns children, with the fencing token, moves its execution to     *)
(* another state.  docs/commands.md: the lease and the fencing token        *)
(* "prevent stale workers from acknowledging newer work"                    *)
(* (flowLeaseFlags.validate, the options of each command).                  *)
OnlyHolderActs ==
    [][\A j \in Jobs : job[j].live /\ job'[j] \notin {job[j], [job[j] EXCEPT !.live = FALSE]} =>
          \E m \in Handled :
             \/ m.line.name \in {"cancel", "cancel-many", "signal", "rewind"}
             \/ /\ m.line.name = "spawn-children" /\ m.line.items[1].fencing = job[j].fence
                /\ job'[j] = [job[j] EXCEPT !.state = job'[j].state]
             \/ \E i \in DOMAIN m.line.items :
                   m.line.items[i].id = j /\ m.line.items[i].lease = job[j].lease]_vars

(* An execution whose lease expired changes its holder only by a command    *)
(* that asks for expired work (queue claim without --reclaim-expired does   *)
(* not): until then a slow worker may still acknowledge.                    *)
TakenOverOnlyIfAsked ==
    [][\A j \in Jobs : job[j].lease # 0 /\ job'[j].lease \notin {0, job[j].lease} =>
          ~job[j].live /\ \E m \in Handled : m.line.reclaim = TRUE]_vars

(* Nobody acknowledges a claim twice, with a batch that names an execution  *)
(* twice, with a late request or with a repeated one (docs/commands.md, and *)
(* validateClaimedItemsInput).                                              *)
AcknowledgedOnce == \A c \in DOMAIN acked : acked[c] <= 1

(* Who repeats an --idempotent creation, because an answer was lost, is     *)
(* never told that the execution exists already (flowCreateFlags.options).  *)
RepeatableStart ==
    [][\A u \in Users : told[u] # "exists" /\ told'[u] = "exists" =>
          \E m \in Handled : m.user = u /\ ~m.line.idempotent]_vars

(* A signal that is repeated with its --idempotency-key acts once, though   *)
(* the first may be handled after its sender gave up and sent it again.     *)
SignalActsOnce == \A j \in Jobs, k \in Keys : heard[j][k] <= 1
=============================================================================
