------------------------------ MODULE FlowOptions ------------------------------
(***************************************************************************)
(* What the options of the queue, schedule and governance commands become  *)
(* (internal/cli): which command lines are refused, and the request that   *)
(* is made of the others.                                                  *)
(*                                                                         *)
(* A line is a function from the options that were typed to their values.  *)
(* Durations are counted in parts of a millisecond; a time or a deadline   *)
(* is a pair of how it is written and a number; a word of a choice is a    *)
(* record of what it means and whether it is spelled exactly so; repeated  *)
(* options are sequences of pairs.                                         *)
(***************************************************************************)
EXTENDS Durations, Integers, FiniteSets

-----------------------------------------------------------------------------
(* One value                                                                *)

\* Mutation: a duration below a millisecond is let through.
PositiveDuration(duration) == duration > 0

\* positiveMilliseconds: does it accept a duration?
PositiveMilliseconds(duration) == duration > 0 /\ duration \div Millisecond > 0

\* parseAbsoluteMilliseconds; blanks are no time and no error.
AbsoluteMilliseconds(time) ==
    time[1] \in {"blank", "date"} \/ (time[1] = "number" /\ time[2] > 0)

\* parseMaxActive; a duration that is positive may come to no millisecond.
MaxActive(value) ==
    value[1] \in {"blank", "infinity"} \/ (value[1] \in {"number", "duration"} /\ value[2] > 0)

\* parseAssignments, and the names in parseStateModes
Distinct(pairs) ==
    \A i, j \in DOMAIN pairs : pairs[i][1] # "" /\ (pairs[i][1] = pairs[j][1] => i = j)

\* Is a value of an option of that kind accepted?
Accepts(kind, v) ==
    CASE kind = "duration"        -> PositiveMilliseconds(v)
      [] kind = "unless zero"     -> v = 0 \/ PositiveMilliseconds(v)
      [] kind = "wait"            -> v >= 0
      [] kind = "count"           -> v > 0
      [] kind = "natural"         -> v >= 0
      [] kind = "percent"         -> v \in 0..100
      [] kind = "rate"            -> v \in 1..100
      [] kind = "priority"        -> v \in 0..2
      [] kind \in {"time", "due"} -> AbsoluteMilliseconds(v)
      [] kind \in {"active", "active or not"} -> MaxActive(v)
      [] kind = "name"            -> v \notin {"", " "}
      [] kind = "overlap"         ->
             v.word \in {"allow", "skip", "queue_after_previous", "fail_schedule"}
      [] kind = "catchup"         -> v.word = "fire_once"
      [] kind = "assignments"     -> Distinct(v)
      [] kind = "modes"           ->
             Distinct(v) /\ \A i \in DOMAIN v : v[i][2] \in {"FIFO", "PARALLEL"}
      [] OTHER                    -> TRUE

\* Is it more than its absence?
Takes(kind, v) ==
    CASE kind \in {"unless zero", "wait"}   -> v # 0
      [] kind \in {"due", "active or not"}  -> v[1] # "blank"
      [] kind = "text"                      -> v # ""
      [] OTHER                              -> TRUE

Field(kind, v) ==
    CASE kind \in {"duration", "unless zero", "wait"} -> v \div Millisecond
      [] kind \in {"time", "due"}           -> IF v[1] = "blank" THEN 0 ELSE v[2]
      [] kind \in {"active", "active or not"} ->
             IF v[1] = "duration" THEN <<"number", v[2] \div Millisecond>> ELSE v
      [] kind \in {"overlap", "catchup"}    -> v.word
      [] kind \in {"assignments", "modes"}  ->
             [name \in {v[i][1] : i \in DOMAIN v} |->
                 (CHOOSE pair \in {v[i] : i \in DOMAIN v} : pair[1] = name)[2]]
      [] OTHER                              -> v

-----------------------------------------------------------------------------
(* The options of each command; "any" is sent however it is given.          *)

\* newScheduleCreateCommand
ScheduleCreate == [
    type |-> "name", flowID |-> "text", idPrefix |-> "text", priority |-> "priority",
    value |-> "assignments", at |-> "time", after |-> "unless zero",
    every |-> "unless zero", cron |-> "text", timezone |-> "text", catchup |-> "catchup",
    startAt |-> "time", endAt |-> "time", overlap |-> "overlap",
    overlapRetry |-> "duration", maxFires |-> "count", overwrite |-> "any"]

\* newScheduleFireDueCommand
ScheduleFireDue == [
    worker |-> "name", lease |-> "duration", wait |-> "wait", limit |-> "count"]

\* flowCreateFlags
FlowCreate == [
    runAt |-> "due", delay |-> "wait", priority |-> "any", idempotent |-> "any",
    retention |-> "duration", maxActive |-> "active or not", attribute |-> "assignments"]

\* flowClaimFlags
FlowClaim == [
    state |-> "any", worker |-> "name", lease |-> "duration", limit |-> "count",
    wait |-> "wait", reclaimExpired |-> "any"]

\* newFlowPolicySetCommand
PolicySet == [
    maxActive |-> "active", maxRetries |-> "natural", backoff |-> "any",
    baseDelay |-> "duration", maxDelay |-> "duration", jitterPercent |-> "percent",
    exhaustedTo |-> "any", replace |-> "any", expectedGeneration |-> "natural",
    indexedAttribute |-> "any", clearIndexedAttributes |-> "any",
    indexedStateMeta |-> "any", stateMode |-> "modes"]

\* newCircuitOpenCommand
CircuitOpen == [
    openFor |-> "duration", window |-> "duration", latencyThreshold |-> "duration",
    failureThreshold |-> "count", minCalls |-> "count", failureRate |-> "rate",
    maxProbes |-> "count", successThreshold |-> "count", errorClass |-> "any"]

\* newApprovalRequestCommand
ApprovalRequest == [
    flowID |-> "name", scope |-> "name", timeoutAfter |-> "duration", expiresAt |-> "time",
    policyVersion |-> "any"]

\* newBudgetReserveCommand
BudgetReserve == [amount |-> "count", limit |-> "count", window |-> "duration"]

\* newLimitLeaseCommand, newLimitSpendCommand
LimitLease == [
    shard |-> "natural", amount |-> "count", ttl |-> "duration", limit |-> "count"]
LimitSpend == [shard |-> "natural", amount |-> "count"]

\* newLimitReleaseCommand
LimitRelease == [shard |-> "natural", reservationID |-> "any"]

\* newBudgetCommitCommand
BudgetCommit == [actualAmount |-> "natural", usage |-> "any"]

\* newEffectReserveCommand
EffectReserve == [
    leaseToken |-> "name", fencingToken |-> "natural", operationDigest |-> "name"]

\* newEffectStatusCommand: confirm, fail, compensate
EffectStatus == [leaseToken |-> "name", fencingToken |-> "natural", latency |-> "duration"]

\* addGovernanceListFlags, newBudgetListCommand
GovernanceList == [scope |-> "text", partition |-> "text", limit |-> "count"]

\* flowReadFlags of the commands that query; type is an argument.
FlowList == [
    type |-> "any", partition |-> "name", limit |-> "rate", state |-> "text",
    terminalOnly |-> "any", attribute |-> "assignments"]

\* newGovernanceLedgerCommand
Ledger == [limit |-> "count", fromMS |-> "natural", toMS |-> "natural"]

\* newFlowRetentionCleanupCommand
RetentionCleanup == [limit |-> "count", nowMS |-> "natural"]

-----------------------------------------------------------------------------
(* Options together                                                         *)

\* The options of a line that are more than their absence
Given(options, line) == {o \in DOMAIN line : Takes(options[o], line[o])}

Together(given, some) == some \subseteq given

\* scheduleCreateFlags.options
ScheduleFits(line) ==
    LET given     == Given(ScheduleCreate, line)
        recurring == given \cap {"every", "cron"} # {}
    IN  /\ ~Together(given, {"flowID", "idPrefix"})
        /\ Cardinality(given \cap {"at", "after", "every", "cron"}) <= 1
        /\ recurring => "flowID" \notin given
        /\ ~recurring => given \cap {"overlap", "overlapRetry", "maxFires", "endAt"} = {}
        /\ "startAt" \in given => given \cap {"at", "after"} = {}
        /\ "timezone" \in given => "cron" \in given
        /\ "catchup" \in given => "every" \in given
        /\ "overlapRetry" \in given =>
               "overlap" \in given /\ line["overlap"].word = "queue_after_previous"

\* flowPolicySetFlags.options; an option that is given changes the policy,
\* even if it comes to nothing.
PolicyFits(line) ==
    LET given == Given(PolicySet, line)
    IN  /\ given # {}
        /\ ~Together(given, {"indexedAttribute", "clearIndexedAttributes"})

\* validateFlowListQuery, validateTerminalQueryState
ListFits(line) ==
    LET given == Given(FlowList, line)
        state == IF "state" \in given THEN line["state"] ELSE ""
        ended == "terminalOnly" \in given
    IN  /\ line["type"] = "any" => "attribute" \in given
        /\ ~ended /\ state = "any" => "attribute" \in given
        /\ ended => state \in {"", "any", "completed", "failed", "cancelled"}

\* A command: what it sends, whether it asks for --yes by itself (the others
\* leave that to the classifier), its options, and those without which it is
\* refused.
FlowCommand(words, asks, options, needs) ==
    [wire |-> words, asks |-> asks, options |-> options, needs |-> needs]

FlowCommands == [
    scheduleCreate |-> FlowCommand(<<"FLOW.SCHEDULE.CREATE">>, FALSE, ScheduleCreate, {"type"}),
    fireDue |-> FlowCommand(<<"FLOW.SCHEDULE.FIRE_DUE">>, FALSE, ScheduleFireDue, {"worker"}),
    flowCreate |-> FlowCommand(<<"FLOW.CREATE">>, FALSE, FlowCreate, {}),
    flowClaim |-> FlowCommand(<<"FLOW.CLAIM_DUE">>, FALSE, FlowClaim, {"worker"}),
    policySet |-> FlowCommand(<<"FLOW.POLICY.SET">>, FALSE, PolicySet, {}),
    circuitOpen |-> FlowCommand(<<"FLOW.CIRCUIT.OPEN">>, TRUE, CircuitOpen, {}),
    approvalRequest |->
        FlowCommand(<<"FLOW.APPROVAL.REQUEST">>, FALSE, ApprovalRequest, {"flowID", "scope"}),
    budgetReserve |-> FlowCommand(<<"FLOW.BUDGET.RESERVE">>, FALSE, BudgetReserve, {"amount"}),
    limitLease |-> FlowCommand(<<"FLOW.LIMIT.LEASE">>, FALSE, LimitLease, {"amount", "ttl"}),
    limitSpend |-> FlowCommand(<<"FLOW.LIMIT.SPEND">>, FALSE, LimitSpend, {"amount"}),
    limitRelease |->
        FlowCommand(<<"FLOW.LIMIT.RELEASE">>, FALSE, LimitRelease, {"reservationID"}),
    budgetCommit |-> FlowCommand(<<"FLOW.BUDGET.COMMIT">>, FALSE, BudgetCommit, {"actualAmount"}),
    effectReserve |-> FlowCommand(<<"FLOW.EFFECT.RESERVE">>, FALSE, EffectReserve,
                                  {"leaseToken", "operationDigest"}),
    effectStatus |-> FlowCommand(<<"FLOW.EFFECT.CONFIRM">>, FALSE, EffectStatus, {"leaseToken"}),
    governanceList |-> FlowCommand(<<"FLOW.BUDGET.LIST">>, FALSE, GovernanceList, {}),
    flowList |-> FlowCommand(<<"FLOW.LIST">>, FALSE, FlowList, {"type", "partition"}),
    ledger |-> FlowCommand(<<"FLOW.GOVERNANCE.LEDGER">>, FALSE, Ledger, {}),
    retentionCleanup |->
        FlowCommand(<<"FLOW.RETENTION_CLEANUP">>, FALSE, RetentionCleanup, {})]

\* A line holds options of its command; those that are times are numbers.
OptionLine(name, line) ==
    LET options == FlowCommands[name].options
    IN  /\ DOMAIN line \subseteq DOMAIN options
        /\ \A o \in DOMAIN line : options[o] \in {"duration", "unless zero", "wait"} => line[o] \in Int

\* Mutation: the options of a schedule are not held against each other.
FitsApart(name, line) == TRUE

Fits(name, line) ==
    CASE name = "scheduleCreate"  -> ScheduleFits(line)
      [] name = "flowList"        -> ListFits(line)
      [] name = "policySet"       -> PolicyFits(line)
      [] name = "flowCreate"      -> ~Together(Given(FlowCreate, line), {"runAt", "delay"})
      [] name = "approvalRequest" -> ~Together(DOMAIN line, {"timeoutAfter", "expiresAt"})
      [] name = "governanceList"  -> ~Together(Given(GovernanceList, line), {"scope", "partition"})
      [] name = "ledger"          ->
             Together(DOMAIN line, {"fromMS", "toMS"}) => line["fromMS"] <= line["toMS"]
      [] OTHER                    -> TRUE

Accepted(name, line) ==
    LET command == FlowCommands[name]
    IN  /\ command.needs \subseteq DOMAIN line
        /\ \A o \in DOMAIN line : Accepts(command.options[o], line[o])
        /\ Fits(name, line)

\* What is sent of the line
Request(name, line) ==
    LET options == FlowCommands[name].options
    IN  [o \in Given(options, line) |-> Field(options[o], line[o])]
=============================================================================
