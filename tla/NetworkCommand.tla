---------------------------- MODULE NetworkCommand ----------------------------
(***************************************************************************)
(* One command that talks to a server (internal/cli, network.go): which    *)
(* connection it uses, its one request, the close and the report.          *)
(*                                                                         *)
(* The command runs next to other ferric processes that select, save and   *)
(* delete profiles, and against a server that may be slow: the timeout may *)
(* pass at any moment, a request may be lost, and may be carried out after *)
(* the command gave up.  What those processes do to the profile document   *)
(* is what ProfileDocument says.                                           *)
(***************************************************************************)
EXTENDS ProfileDocument

CONSTANTS Invocations,    \* command lines, with their environments
          MaxTurns,       \* bound: steps of other processes
          None

ASSUME NoneAssumption ==
    /\ None \notin Names \cup {NoName}
    /\ None \notin {"profile", "environment", "ok", "error", "success", "failure"}

\* What the properties need to know of a command line.  NoName stands for
\* what is blank; a blank FERRIC_PROFILE is as good as none.
ASSUME InvocationsAssumption ==
    \A i \in Invocations :
        /\ i.flag \in Names \cup {None, NoName}
        /\ i.variable \in Names \cup {NoName}
        /\ i.env \in {"absent", "complete", "broken"}

ASSUME BoundAssumption == MaxTurns \in Nat

VARIABLES inv,        \* how the command was called
          pc,
          source,     \* of the connection: activeConnectionSource, or None
          name,       \* the name of the profile, or None
          client,     \* "none", "open" or "closed"
          request,    \* "none", "sent", "done", "rejected" by the server, "lost"
          result,     \* of the operation: None, "ok" or "error"
          outcome,    \* None, "success", "failure"
          over,       \* has the timeout passed?
          doc,        \* the profile document
          secrets,    \* profiles whose secret is in the keyring
          turns,
          seen,       \* history: the documents since the command started
          picked      \* history: what users selected, or logged in to first

world   == <<doc, secrets, turns, seen, picked>>
chosen  == <<source, name>>
vars == <<inv, pc, chosen, client, request, result, outcome, over, world>>

-----------------------------------------------------------------------------
(* The command line                                                         *)

\* cluster.go: topology changes
Confirmed(command) == command \in {"join", "leave", "failover", "promote", "demote"}

\* newClusterFailoverCommand reads its number when the client is open;
\* every other command refuses a bad argument before.
ReadsArgumentLate(command) == command = "failover"

\* runNetworkCommand, newAuthStatusCommand: every command that is not logout
\* opens a connection.
Connects(command) == command # "logout"

\* Of every profile: no property is about it.
Metadata == "metadata"

\* The selection at the start is taken for a user's.
Init ==
    /\ inv \in Invocations
    /\ doc \in Documents({Metadata}) /\ WellSelected(doc)
    /\ secrets \in SUBSET DOMAIN doc.profiles
    /\ seen = {doc} /\ picked = {doc.current} \ {NoName}
    /\ pc = "start"
    /\ source = None /\ name = None
    /\ client = "none"
    /\ request = "none" /\ result = None /\ outcome = None
    /\ over = FALSE
    /\ turns = 0

Finish(how) == pc' = "done" /\ outcome' = how

Fail == Finish("failure")

\* Flags, confirmation and timeout are looked at before anything else, and
\* then the name of --profile.
Start ==
    /\ pc = "start"
    /\ IF \/ Confirmed(inv.command) /\ ~inv.yes
          \/ ~ReadsArgumentLate(inv.command) /\ ~inv.valid
          \/ Connects(inv.command) /\ ~inv.positive
          \/ inv.flag = NoName
       THEN Fail /\ UNCHANGED chosen
       ELSE /\ UNCHANGED outcome
            /\ IF inv.flag # None
               THEN /\ source' = "profile" /\ name' = inv.flag
                    /\ pc' = IF Connects(inv.command) THEN "profile" ELSE "remove"
               ELSE pc' = "environment" /\ UNCHANGED chosen
    /\ UNCHANGED <<inv, client, request, result, over, world>>

\* Mutation: a broken environment is passed over like one that is not there.
EnvironmentPassedOver ==
    /\ pc = "environment"
    /\ IF inv.env = "complete" /\ Connects(inv.command)
       THEN source' = "environment" /\ pc' = "dial" /\ UNCHANGED <<name, outcome>>
       ELSE pc' = "select" /\ UNCHANGED <<chosen, outcome>>
    /\ UNCHANGED <<inv, client, request, result, over, world>>

\* Resolve, and for logout Configured, which asks for no complete set.
Environment ==
    /\ pc = "environment"
    /\ \/ /\ Connects(inv.command)
          /\ inv.env = "broken" \/ over
          /\ inv.env # "absent"
          /\ Fail /\ UNCHANGED chosen
       \/ /\ Connects(inv.command)
          /\ inv.env = "complete" /\ ~over
          /\ source' = "environment" /\ pc' = "dial"
          /\ UNCHANGED <<name, outcome>>
       \/ /\ ~Connects(inv.command) /\ inv.env # "absent"
          /\ Finish("success") /\ UNCHANGED chosen
       \/ /\ inv.env = "absent"
          /\ pc' = "select" /\ UNCHANGED <<chosen, outcome>>
    /\ UNCHANGED <<inv, client, request, result, over, world>>

\* selectedProfile, without a flag.  Current knows no name only when nothing
\* is saved; it may fail.
Select ==
    /\ pc = "select"
    /\ \/ /\ source' = "profile"
          /\ name' = IF inv.variable # NoName THEN inv.variable
                     ELSE IF CurrentName(doc) # NoName THEN CurrentName(doc)
                     ELSE DefaultName
          /\ pc' = IF Connects(inv.command) THEN "profile" ELSE "remove"
          /\ UNCHANGED outcome
       \/ /\ inv.variable = NoName
          /\ Fail /\ UNCHANGED chosen
    /\ UNCHANGED <<inv, client, request, result, over, world>>

\* Service.Open: profiles.Get ...
LoadProfile ==
    /\ pc = "profile"
    /\ \/ Has(doc, name) /\ pc' = "secret" /\ UNCHANGED outcome
       \/ Fail
    /\ UNCHANGED <<inv, chosen, client, request, result, over, world>>

\* ... credentials.Get ...
LoadSecret ==
    /\ pc = "secret"
    /\ \/ name \in secrets /\ pc' = "dial" /\ UNCHANGED outcome
       \/ Fail
    /\ UNCHANGED <<inv, chosen, client, request, result, over, world>>

\* ... and provider.Open, which ends in time or fails.
Dial ==
    /\ pc = "dial"
    /\ \/ ~over /\ client' = "open" /\ pc' = "operate" /\ UNCHANGED outcome
       \/ Fail /\ UNCHANGED client
    /\ UNCHANGED <<inv, chosen, request, result, over, world>>

\* Logout of Service: the secret is removed, or the command fails.
RemoveSecret ==
    /\ pc = "remove"
    /\ \/ /\ Has(doc, name)
          /\ secrets' = secrets \ {name}
          /\ Finish("success")
       \/ Fail /\ UNCHANGED secrets
    /\ UNCHANGED <<inv, chosen, client, request, result, over, doc, turns, seen,
                   picked>>

-----------------------------------------------------------------------------
(* The operation                                                            *)

Conclude(how) == result' = how /\ pc' = "close"

\* The client does not support the operation, or the argument is read now.
Unsupported ==
    /\ pc = "operate"
    /\ Conclude("error")
    /\ UNCHANGED <<inv, chosen, client, request, outcome, over, world>>

Send ==
    /\ pc = "operate"
    /\ inv.valid
    /\ request' = "sent"
    /\ pc' = "wait"
    /\ UNCHANGED <<inv, chosen, client, result, outcome, over, world>>

\* The server, that knows nothing of the timeout
Serve ==
    /\ request = "sent"
    /\ request' \in {"done", "rejected", "lost"}
    /\ UNCHANGED <<inv, pc, chosen, client, result, outcome, over, world>>

\* Mutation: a request whose answer did not come in time is taken for done.
AnswerAssumed ==
    /\ pc = "wait"
    /\ Conclude(IF request = "rejected" THEN "error" ELSE "ok")
    /\ UNCHANGED <<inv, chosen, client, request, outcome, over, world>>

Answer ==
    /\ pc = "wait"
    /\ \/ request = "done" /\ Conclude("ok")
       \/ request = "rejected" /\ Conclude("error")
    /\ UNCHANGED <<inv, chosen, client, request, outcome, over, world>>

\* Mutation: the operation is not given the context that has the timeout.
GiveUpNever ==
    /\ pc = "wait" /\ over /\ request = "done"
    /\ Conclude("error")
    /\ UNCHANGED <<inv, chosen, client, request, outcome, over, world>>

\* The timeout has passed: the answer, if there is one, is lost.
GiveUp ==
    /\ pc = "wait" /\ over
    /\ Conclude("error")
    /\ UNCHANGED <<inv, chosen, client, request, outcome, over, world>>

\* Mutation: the client is only closed after a success.
CloseAfterSuccess ==
    /\ pc = "close"
    /\ IF result = "ok"
       THEN client' = "closed" /\ pc' = "report" /\ UNCHANGED outcome
       ELSE Fail /\ UNCHANGED client
    /\ UNCHANGED <<inv, chosen, request, result, over, world>>

\* The close may fail; newAuthStatusCommand reports that as a failure, all
\* other commands after a success as a warning.
Close ==
    /\ pc = "close"
    /\ client' = "closed"
    /\ \/ pc' = "report" /\ UNCHANGED outcome
       \/ IF inv.command = "status" THEN Fail ELSE pc' = "report" /\ UNCHANGED outcome
    /\ UNCHANGED <<inv, chosen, request, result, over, world>>

\* Writing the result may fail too.
Report ==
    /\ pc = "report"
    /\ \/ result = "ok" /\ Finish("success")
       \/ Fail
    /\ UNCHANGED <<inv, chosen, client, request, result, over, world>>

-----------------------------------------------------------------------------
(* The world around the command                                             *)

\* The connection breaks.
Break ==
    /\ pc = "wait"
    /\ Conclude("error")
    /\ UNCHANGED <<inv, chosen, client, request, outcome, over, world>>

Expire ==
    /\ ~over
    /\ over' = TRUE
    /\ UNCHANGED <<inv, pc, chosen, client, request, result, outcome, world>>

\* A step of another process
Turn ==
    /\ pc # "done"
    /\ turns < MaxTurns
    /\ turns' = turns + 1
    /\ seen' = seen \cup {doc'}
    /\ UNCHANGED <<inv, pc, chosen, client, request, result, outcome, over>>

\* profile use
UseElsewhere(n) ==
    /\ Has(doc, n)
    /\ doc' = UseProfile(doc, n)
    /\ picked' = picked \cup {n}
    /\ UNCHANGED secrets
    /\ Turn

\* auth login, which puts the secret before the profile
SaveElsewhere(n) ==
    /\ doc' = PutProfile(doc, n, Metadata)
    /\ secrets' = secrets \cup {n}
    /\ picked' = IF doc.current = NoName THEN picked \cup {n} ELSE picked
    /\ Turn

\* profile delete
DeleteElsewhere(n) ==
    /\ Has(doc, n)
    /\ doc' = DeleteProfile(doc, n)
    /\ secrets' = secrets \ {n}
    /\ UNCHANGED picked
    /\ Turn

\* auth logout
LogoutElsewhere(n) ==
    /\ secrets' = secrets \ {n}
    /\ UNCHANGED <<doc, picked>>
    /\ Turn

Elsewhere ==
    \E n \in Names :
        UseElsewhere(n) \/ SaveElsewhere(n) \/ DeleteElsewhere(n) \/ LogoutElsewhere(n)

Command ==
    \/ Start \/ Environment \/ Select
    \/ LoadProfile \/ LoadSecret \/ Dial \/ RemoveSecret
    \/ Unsupported \/ Send \/ Answer \/ GiveUp
    \/ Close \/ Report

Next == Command \/ Serve \/ Break \/ Expire \/ Elsewhere

Spec == Init /\ [][Next]_vars

\* Each call the command makes returns by itself or when its context ends,
\* and the timeout passes.  Nothing is asked of the server.
FairSpec == Spec /\ WF_vars(Command) /\ WF_vars(Expire)

-----------------------------------------------------------------------------

(* Every variable has its type; the profile of a command has a name, and    *)
(* other processes leave a saved profile selected if there is one.          *)
TypeOK ==
    /\ inv \in Invocations
    /\ pc \in {"start", "environment", "select", "profile", "secret", "dial",
               "remove", "operate", "wait", "close", "report", "done"}
    /\ source \in {None, "profile", "environment"}
    /\ name \in Names \cup {None} /\ (source = "profile" <=> name # None)
    /\ client \in {"none", "open", "closed"}
    /\ request \in {"none", "sent", "done", "rejected", "lost"}
    /\ result \in {None, "ok", "error"}
    /\ outcome \in {None, "success", "failure"}
    /\ over \in BOOLEAN /\ turns \in 0..MaxTurns
    /\ doc \in Documents({Metadata}) /\ WellSelected(doc)
    /\ secrets \subseteq DOMAIN doc.profiles
    /\ doc \in seen /\ picked \subseteq Names

\* What a command is to work on, by the document d of some moment: the
\* profile of --profile, the environment, FERRIC_PROFILE, the profile that is
\* selected, and "default" for a new installation.
Resolved(d) ==
    IF inv.flag # None            THEN <<"profile", inv.flag>>
    ELSE IF inv.env # "absent"    THEN IF inv.env = "complete" THEN <<"environment", None>>
                                       ELSE <<"nothing", None>>
    ELSE IF inv.variable # NoName THEN <<"profile", inv.variable>>
    ELSE IF DOMAIN d.profiles # {} THEN <<"profile", d.current>>
    ELSE <<"profile", DefaultName>>

(* What a command works on is the first of the order, by a document that    *)
(* was in force while it ran, whatever other processes select, save or      *)
(* delete meanwhile.  A deleted profile is not worked on by a command that  *)
(* starts afterwards, "default" only when it is selected or nothing is      *)
(* saved, and an incomplete environment is never completed from a profile,  *)
(* nor passed over (openActiveConnection, selectedProfile, Current).        *)
ResolvedInOrder ==
    source # None => \E d \in seen : <<source, name>> = Resolved(d)

(* docs/commands.md: without a flag, an environment and FERRIC_PROFILE, a   *)
(* command works on "the profile selected by ferric profile use, then       *)
(* default".  Even if the profile of a first login counts as selected, it   *)
(* does not: FileStore.Delete selects whatever profile is first.            *)
SelectedByUserOrDefault ==
    source = "profile" /\ inv.flag = None /\ inv.variable = NoName
        => name \in picked \cup {DefaultName}

(* A command that ends has closed the client it opened, on every path, and  *)
(* asks the server for nothing unless a client is open (runNetworkCommand). *)
ClientsClosed ==
    /\ pc = "done" => client # "open"
    /\ request # "none" => client # "none"

\* What a logout promises is not about the server.
Known ==
    IF outcome = None \/ ~Connects(inv.command) THEN "running"
    ELSE IF outcome = "success" THEN "success"
    ELSE IF request = "none"    THEN "refused"
    ELSE "unknown"

Promise == INSTANCE OneRequest WITH effect <- request = "done", outcome <- Known

(* A command that reports success has been carried out, exactly once; one   *)
(* that failed before it sent anything never is; after a timeout or a lost  *)
(* connection either may be the case (runNetworkCommand).                   *)
KeepsPromise == Promise!Spec

(* Every command ends, even if the server never answers: the timeout covers *)
(* all that it waits for (runNetworkCommand, newAuthStatusCommand).         *)
CommandEnds == <>(pc = "done")
=============================================================================
