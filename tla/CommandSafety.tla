---------------------------- MODULE CommandSafety ----------------------------
(***************************************************************************)
(* Which protocol commands need --yes (internal/commandsafety), and how    *)
(* named commands, the raw command of the store and the files of a         *)
(* transaction come to the wire (internal/cli).                            *)
(*                                                                         *)
(* An argument is a record of the word it is for the server, in capitals   *)
(* and trimmed, and whether it is spelled exactly like that word.          *)
(* How many arguments a command takes is left out.  The commands that make *)
(* a request of options are those of FlowOptions; those that ask a query   *)
(* take their input as FlowQuery says.                                     *)
(***************************************************************************)
EXTENDS FlowOptions, FlowQuery, SequencesExt

CONSTANTS Calls         \* command lines

VARIABLES call,
          pc,           \* "start", "refused" or "sent"
          wire,         \* the commands that are sent
          request       \* what a command with options sends of them

vars == <<call, pc, wire, request>>

Argument == [word : STRING, exact : BOOLEAN]

Exact(word) == [word |-> word, exact |-> TRUE]

\* token of commandsafety
Token(argument) == argument.word

Confirmation == Exact("--yes")

-----------------------------------------------------------------------------
(* RequiresConfirmation                                                     *)

Sensitive == {
    "FLUSHDB", "FLUSHALL", "SHUTDOWN", "SAVE", "BGSAVE", "BGREWRITEAOF", "REPLICAOF",
    "SLAVEOF", "MIGRATE", "FERRICSTORE.BLOBGC", "FLOW.POLICY.SET",
    "FLOW.SCHEDULE.DELETE", "FLOW.CIRCUIT.OPEN", "FLOW.CIRCUIT.CLOSE",
    "FLOW.RETENTION_CLEANUP", "CLUSTER.JOIN", "CLUSTER.LEAVE", "CLUSTER.FAILOVER",
    "CLUSTER.PROMOTE", "CLUSTER.DEMOTE"}

SensitiveWith(name) ==
    CASE name \in {"CONFIG", "FERRICSTORE.CONFIG"} -> {"SET", "RESETSTAT", "REWRITE"}
      [] name \in {"SLOWLOG", "LATENCY"} -> {"RESET"}
      [] name = "ACL"      -> {"SETUSER", "DELUSER", "LOAD", "SAVE"}
      [] name = "CLUSTER"  -> {"MEET", "FORGET", "REPLICATE", "FAILOVER", "RESET",
                               "ADDSLOTS", "DELSLOTS", "SETSLOT"}
      [] name = "SCRIPT"   -> {"FLUSH", "KILL"}
      [] name = "FUNCTION" -> {"DELETE", "FLUSH", "RESTORE"}
      [] name = "MODULE"   -> {"LOAD", "LOADEX", "UNLOAD"}
      [] name = "CLIENT"   -> {"KILL"}
      [] OTHER             -> {}

\* Mutation: the words are compared as they are spelled.
RequiresExactly(command) ==
    /\ command # <<>>
    /\ command[1].exact
    /\ \/ Token(command[1]) \in Sensitive
       \/ Len(command) > 1 /\ Token(command[2]) \in SensitiveWith(Token(command[1]))

RequiresConfirmation(command) ==
    /\ command # <<>>
    /\ LET name == Token(command[1])
       IN  \/ name \in Sensitive
           \/ /\ Len(command) > 1
              /\ \/ Token(command[2]) \in SensitiveWith(name)
                 \/ /\ name = "FERRICSTORE.DOCTOR" /\ Token(command[2]) = "START"
                    /\ \E i \in 3..Len(command) : Token(command[i]) = "REPAIR"

\* FirstRequiringConfirmation: is there one?
AnyRequiresConfirmation(commands) ==
    \E i \in DOMAIN commands : RequiresConfirmation(commands[i])

-----------------------------------------------------------------------------
(* The trees of named commands: what each sends before its arguments, and   *)
(* whether it is made by newConfirmedSDKCommand or has a --yes of its own.  *)

Plain(words)     == [wire |-> words, asks |-> FALSE]
Confirmed(words) == [wire |-> words, asks |-> TRUE]

\* newServerCommand
ServerRoot == [
    echo |-> Plain(<<"ECHO">>), info |-> Plain(<<"INFO">>),
    capabilities |-> Plain(<<"FERRICSTORE.CAPABILITIES">>),
    metrics |-> Plain(<<"FERRICSTORE.METRICS">>),
    health |-> Plain(<<"CLUSTER.HEALTH">>), stats |-> Plain(<<"CLUSTER.STATS">>),
    keyInfo |-> Plain(<<"FERRICSTORE.KEY_INFO">>),
    memoryUsage |-> Plain(<<"MEMORY", "USAGE">>), flush |-> Confirmed(<<"FLUSHDB">>)]

\* newServerConfigCommand
ServerConfig == [
    get |-> Plain(<<"CONFIG", "GET">>), getLocal |-> Plain(<<"CONFIG", "GET", "LOCAL">>),
    set |-> Confirmed(<<"CONFIG", "SET">>),
    setLocal |-> Confirmed(<<"CONFIG", "SET", "LOCAL">>),
    resetStats |-> Confirmed(<<"CONFIG", "RESETSTAT">>),
    rewrite |-> Confirmed(<<"CONFIG", "REWRITE">>)]

\* newServerSlowlogCommand
ServerSlowlog == [
    get |-> Plain(<<"SLOWLOG", "GET">>), length |-> Plain(<<"SLOWLOG", "LEN">>),
    reset |-> Confirmed(<<"SLOWLOG", "RESET">>)]

\* newServerClientCommand
ServerClient == [
    sub \in {"ID", "INFO", "LIST", "TRACKINGINFO", "GETREDIR"} |-> Plain(<<"CLIENT", sub>>)]

\* newServerPersistenceCommand: made by newSDKCommand, which asks the
\* classifier.
ServerPersistence == [sub \in {"SAVE", "BGSAVE", "LASTSAVE"} |-> Plain(<<sub>>)]

\* newServerDoctorCommand
ServerDoctor == [
    check |-> Plain(<<"FERRICSTORE.DOCTOR", "CHECK">>),
    startCheck |-> Plain(<<"FERRICSTORE.DOCTOR", "START", "CHECK">>),
    status |-> Plain(<<"FERRICSTORE.DOCTOR", "STATUS">>),
    list |-> Plain(<<"FERRICSTORE.DOCTOR", "LIST">>),
    cancel |-> Plain(<<"FERRICSTORE.DOCTOR", "CANCEL">>),
    repair |-> Confirmed(<<"FERRICSTORE.DOCTOR", "START", "REPAIR", "PROJECTIONS", "SCOPE">>)]

\* newACLCommand: the SDK sends ACL before the subcommand.
Acl == [
    sub \in {"WHOAMI", "LIST", "GETUSER", "SETUSER", "DELUSER", "SAVE", "LOAD"} |->
        [wire |-> <<"ACL", sub>>, asks |-> sub \in {"SETUSER", "DELUSER", "SAVE", "LOAD"}]]

\* newClusterCommand: the SDK sends one word for the operation.
Cluster == [
    word \in {"CLUSTER.HEALTH", "CLUSTER.STATS", "CLUSTER.STATUS", "CLUSTER.ROLE",
              "CLUSTER.KEYSLOT", "CLUSTER.SLOTS", "CLUSTER.JOIN", "CLUSTER.LEAVE",
              "CLUSTER.FAILOVER", "CLUSTER.PROMOTE", "CLUSTER.DEMOTE"} |->
        [wire |-> <<word>>,
         asks |-> word \in {"CLUSTER.JOIN", "CLUSTER.LEAVE", "CLUSTER.FAILOVER",
                            "CLUSTER.PROMOTE", "CLUSTER.DEMOTE"}]]

\* newPubSubCommand
PubSub == [
    publish |-> Plain(<<"PUBLISH">>), channels |-> Plain(<<"PUBSUB", "CHANNELS">>),
    subscribers |-> Plain(<<"PUBSUB", "NUMSUB">>), patterns |-> Plain(<<"PUBSUB", "NUMPAT">>)]

\* newScheduleDeleteCommand, newCircuitCloseCommand
FlowRemoval == [
    scheduleDelete |-> Confirmed(<<"FLOW.SCHEDULE.DELETE">>),
    circuitClose |-> Confirmed(<<"FLOW.CIRCUIT.CLOSE">>)]

Rows(tree) == {tree[n] : n \in DOMAIN tree}

Named == UNION {
    Rows(ServerRoot), Rows(ServerConfig), Rows(ServerSlowlog), Rows(ServerClient),
    Rows(ServerPersistence), Rows(ServerDoctor), Rows(Acl), Rows(Cluster),
    Rows(PubSub), Rows(FlowRemoval)}

\* What a command line can be: the arguments of a named command, the words
\* of a raw one, the commands of a file, options, or a query
ASSUME CallsAssumption ==
    \A c \in Calls :
        /\ c.yes \in BOOLEAN
        /\ \/ c.kind = "named" /\ c.command \in Named /\ c.args \in Seq(Argument)
           \/ c.kind = "raw" /\ c.args \in Seq(Argument)
           \/ c.kind = "transaction" /\ c.commands \in Seq(Seq(Argument))
           \/ c.kind = "options" /\ c.name \in DOMAIN FlowCommands /\ OptionLine(c.name, c.line)
           \/ c.kind = "query" /\ QueryLine(c.line)

-----------------------------------------------------------------------------

Init == call \in Calls /\ pc = "start" /\ wire = <<>> /\ request = <<>>

Refuse == pc' = "refused" /\ UNCHANGED <<wire, request>>

Put(commands) == pc' = "sent" /\ wire' = commands /\ UNCHANGED request

\* newSDKCommand, newConfirmedSDKCommand, newUncheckedSDKCommand: the class
\* of a named command is that of its own words, without the arguments.
RunNamed ==
    LET own == [i \in DOMAIN call.command.wire |-> Exact(call.command.wire[i])]
    IN  /\ pc = "start" /\ call.kind = "named"
        /\ IF (call.command.asks \/ RequiresConfirmation(own)) /\ ~call.yes
           THEN Refuse
           ELSE Put(<<own \o call.args>>)
        /\ UNCHANGED call

\* The last --yes among the arguments, or 0
LastYes(args) ==
    LET found == {i \in DOMAIN args : args[i] = Confirmation}
    IN  IF found = {} THEN 0 ELSE CHOOSE i \in found : \A j \in found : j <= i

\* The name goes to the wire in capitals; the blanks around it stay.
Upper(args) == <<Exact(Token(args[1]))>> \o Tail(args)

\* Mutation: a trailing --yes is always taken for a confirmation.
RunRawEager ==
    LET yesAt == LastYes(call.args)
        args  == IF yesAt > 0 THEN RemoveAt(call.args, yesAt) ELSE call.args
    IN  /\ pc = "start" /\ call.kind = "raw"
        /\ IF \/ args = <<>>
              \/ RequiresConfirmation(call.args) /\ ~call.yes /\ yesAt = 0
           THEN Refuse
           ELSE Put(<<Upper(args)>>)
        /\ UNCHANGED call

\* newStoreRawCommand
RunRaw ==
    LET sensitive == RequiresConfirmation(call.args)
        yesAt == IF sensitive /\ ~call.yes THEN LastYes(call.args) ELSE 0
        args  == IF yesAt > 0 THEN RemoveAt(call.args, yesAt) ELSE call.args
    IN  /\ pc = "start" /\ call.kind = "raw"
        /\ IF args = <<>> \/ (sensitive /\ ~call.yes /\ yesAt = 0)
           THEN Refuse
           ELSE Put(<<Upper(args)>>)
        /\ UNCHANGED call

\* newStoreTransactionCommand, up to the connection
RunTransaction ==
    /\ pc = "start" /\ call.kind = "transaction"
    /\ IF AnyRequiresConfirmation(call.commands) /\ ~call.yes
       THEN Refuse
       ELSE Put(call.commands)
    /\ UNCHANGED call

\* The commands with options: everything is checked before the connection
\* (requireProtocolConfirmation).
RunOptions ==
    LET command == FlowCommands[call.name]
        own == [i \in DOMAIN command.wire |-> Exact(command.wire[i])]
    IN  /\ pc = "start" /\ call.kind = "options"
        /\ IF \/ (command.asks \/ RequiresConfirmation(own)) /\ ~call.yes
              \/ ~Accepted(call.name, call.line)
           THEN Refuse
           ELSE /\ pc' = "sent"
                /\ wire' = <<own>>
                /\ request' = Request(call.name, call.line)
        /\ UNCHANGED call

\* newWorkflowQueryCommand, newWorkflowQueryExplainCommand: the SDK makes
\* the command of the operation.
RunQuery ==
    /\ pc = "start" /\ call.kind = "query"
    /\ IF QueryAccepted(call.line)
       THEN /\ pc' = "sent"
            /\ request' = [operation |-> QueryOperation(call.line),
                           params |-> Parameters(call.line).params]
            /\ UNCHANGED wire
       ELSE Refuse
    /\ UNCHANGED call

Next == RunNamed \/ RunRaw \/ RunTransaction \/ RunOptions \/ RunQuery

Spec == Init /\ [][Next]_vars

-----------------------------------------------------------------------------

\* The user typed --yes, as a flag or among the arguments.
SaidYes ==
    \/ call.yes
    \/ call.kind = "raw" /\ \E i \in DOMAIN call.args : call.args[i] = Confirmation

\* The commands whose own help says "This command requires --yes."
SaidInHelp ==
    {c.wire : c \in {d \in Named \cup Rows(FlowCommands) : d.asks}}
        \cup {<<"SAVE">>, <<"BGSAVE">>, <<"FERRICSTORE.DOCTOR", "START", "REPAIR">>,
              <<"FLOW.POLICY.SET">>, <<"FLOW.RETENTION_CLEANUP">>}

BeginsWith(command, words) ==
    /\ Len(command) >= Len(words)
    /\ \A i \in DOMAIN words : Token(command[i]) = words[i]

(* docs/commands.md: "Destructive and safety-sensitive administrative       *)
(* operations require --yes".  What needs --yes by its own name needs it on *)
(* every way to the wire: as a raw command in whatever spelling, and at any *)
(* place of a transaction (RequiresConfirmation and its callers).           *)
SensitiveOnlyIfConfirmed ==
    (\E i \in DOMAIN wire, words \in SaidInHelp : BeginsWith(wire[i], words)) => SaidYes

Yeses(args) == Cardinality({i \in DOMAIN args : args[i] = Confirmation})

(* docs/commands.md: "For safe commands, a trailing --yes remains an        *)
(* ordinary protocol argument."  A raw command arrives as it was typed but  *)
(* for the case of its name; only a sensitive one that had no flag loses    *)
(* one --yes, the last, and what is left is what was classified.            *)
ArgumentsArrive ==
    pc = "sent" /\ call.kind = "raw" =>
        LET sent == wire[1]
            sensitive == RequiresConfirmation(call.args)
        IN  /\ sensitive = RequiresConfirmation(sent)
            /\ IF sensitive /\ ~call.yes
               THEN /\ Yeses(sent) = Yeses(call.args) - 1
                    /\ \E i \in DOMAIN call.args :
                          /\ Upper(RemoveAt(call.args, i)) = sent
                          /\ \A j \in (i + 1)..Len(call.args) : call.args[j] # Confirmation
               ELSE sent = Upper(call.args)

\* What a sent schedule, policy, approval, list or range of the ledger may hold
Coherent(sent) ==
    LET recurring == sent \cap {"every", "cron"} # {}
    IN  CASE call.name = "scheduleCreate" ->
                 /\ Cardinality(sent \cap {"at", "after", "every", "cron"}) <= 1
                 /\ sent \cap {"overlap", "overlapRetry", "maxFires", "endAt"} # {} => recurring
                 /\ recurring => "flowID" \notin sent
                 /\ "overlapRetry" \in sent => request.overlap = "queue_after_previous"
          [] call.name = "policySet" ->
                 ~({"indexedAttribute", "clearIndexedAttributes"} \subseteq sent)
          [] call.name = "approvalRequest" -> ~({"timeoutAfter", "expiresAt"} \subseteq sent)
          [] call.name = "flowList" ->
                 "terminalOnly" \in sent /\ "state" \in sent =>
                     request.state \notin {"queued", "running", "waiting"}
          [] call.name = "ledger" ->
                 {"fromMS", "toMS"} \subseteq sent => request.fromMS <= request.toMS
          [] OTHER -> TRUE

(* A request with options is what was typed: a duration arrives, in whole   *)
(* milliseconds, short of less than one and, but for --wait and             *)
(* --max-active, never as zero; of repeated names none replaces another;    *)
(* and the options of one request do not contradict each other              *)
(* (positiveMilliseconds, parseAssignments, parseStateModes,                *)
(* scheduleCreateFlags.options and its like).                               *)
SentAsMeant ==
    pc = "sent" /\ call.kind = "options" =>
        LET kind == FlowCommands[call.name].options
            line == call.line
        IN  /\ Coherent(DOMAIN request)
            /\ \A o \in DOMAIN line :
                  /\ kind[o] \in {"duration", "unless zero"} /\ line[o] # 0 =>
                         /\ o \in DOMAIN request /\ request[o] >= 1
                         /\ line[o] - request[o] * Millisecond \in 0..(Millisecond - 1)
                  /\ kind[o] \in {"assignments", "modes"} =>
                         \A i \in DOMAIN line[o] :
                             request[o][line[o][i][1]] = line[o][i][2]

\* The parameters of a line, from both places
AllParameters(line) ==
    (IF line.json \/ line.paramsFile # "" THEN line.document.members ELSE <<>>) \o line.params

\* What a query may be, all in all: one query, at most one document, and few
\* enough scalars, each of them with a name of its own.
WellFormed(line) ==
    LET given == AllParameters(line)
        typed == {d \in {"json", "file"} : IF d = "json" THEN line.json ELSE line.paramsFile # ""}
    IN  /\ line.positional # (line.file # "")
        /\ Cardinality(typed) <= 1
        /\ {line.file, line.paramsFile} # {"-"}
        /\ line.query.fits /\ line.query.utf8 /\ ~line.query.blank /\ ~line.query.explain
        /\ typed # {} => LET d == line.document
                         IN  d.fits /\ d.utf8 /\ d.object /\ ~d.trailing
        /\ Len(given) <= MaxParameters
        /\ Cardinality({given[i][1] : i \in DOMAIN given}) = Len(given)
        /\ \A i \in DOMAIN given :
              /\ given[i][1] \in ParameterNames
              /\ given[i][2][1] # "nested" /\ given[i][2] # <<"string", "too long">>
              /\ given[i][2][1] = "integer" => given[i][2][2] \in -MaxFloat..MaxFloat

(* A well-formed query is asked, and no other: each parameter arrives under *)
(* its name as it was typed, from whichever place, an integer of 64 bits    *)
(* exactly and a larger one as the nearest number; no assignment replaces   *)
(* what a document says, none is lost, and standard input is not read for   *)
(* two things (flowQueryInputFlags.read, decodeFlowQueryParams;             *)
(* docs/commands.md, "Repeated --param values are strings").                *)
QueryAsMeant ==
    call.kind = "query" /\ pc # "start" =>
        LET line == call.line
            given == AllParameters(line)
        IN  /\ (pc = "sent") = WellFormed(line)
            /\ pc = "sent" =>
                  /\ DOMAIN request.params = {given[i][1] : i \in DOMAIN given}
                  /\ \A i \in DOMAIN given :
                        LET typed == given[i][2]
                            sent == request.params[given[i][1]]
                        IN  \/ sent = typed
                            \/ /\ typed[1] = "integer" /\ sent[1] = "fraction"
                               /\ typed[2] \notin (-MaxInteger - 1)..MaxInteger
                               /\ 2 * (sent[2] - typed[2]) \in -Spacing..Spacing
=============================================================================
