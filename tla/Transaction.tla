----------------------------- MODULE Transaction ------------------------------
(***************************************************************************)
(* ferric store transaction (internal/cli, transaction.go): the commands   *)
(* of a file, executed by WATCH, MULTI, the commands, and EXEC on one      *)
(* connection, next to others that write the same keys.                    *)
(*                                                                         *)
(* The server is external: it keeps for each connection what is watched    *)
(* and what is queued, forgets both when the connection is lost, and       *)
(* executes a queue at once, unless a watched key changed.  A command of a *)
(* batch is the key it writes.                                             *)
(***************************************************************************)
EXTENDS Naturals, Sequences

CONSTANTS Procs,          \* ferric processes, each with one transaction
          Keys,
          Inputs,         \* command lines, with what is in the file
          MaxWrites,      \* bound: writes from elsewhere
          None

ASSUME InputsAssumption ==
    \A in \in Inputs :
        /\ in.watch \subseteq Keys
        /\ in.file.commands \in Seq(Keys \cup {None})

ASSUME BoundAssumption == MaxWrites \in Nat

ASSUME NoneAssumption == None \notin [Keys -> Nat]

VARIABLES input,          \* per process: its command line
          pc,
          next,           \* per process: the command that is queued next
          verdict,        \* per process: how it ended
          store,          \* server: the version of each key
          watched,        \* server, per connection: versions, or None
          queue,          \* server, per connection: what is queued, or None
          exec,           \* EXEC: "none", "sent", "applied" or "aborted"
          writes          \* from elsewhere

client == <<input, pc, next, verdict>>
server == <<store, watched, queue, exec>>
vars   == <<client, server, writes>>

-----------------------------------------------------------------------------
(* readTransactionCommands, and the checks before the connection            *)

\* A file has a list of commands; an item without a name is None.
Readable(file) ==
    /\ ~file.trailing /\ ~file.large
    /\ file.commands # <<>>
    /\ \A i \in DOMAIN file.commands : file.commands[i] # None

Accepted(in) == (in.routes = {} \/ in.watch = {}) /\ Readable(in.file)

Commands(p) == input[p].file.commands

Init ==
    /\ input \in [Procs -> Inputs]
    /\ pc = [p \in Procs |-> "start"]
    /\ next = [p \in Procs |-> 1]
    /\ verdict = [p \in Procs |-> "running"]
    /\ store = [k \in Keys |-> 0]
    /\ watched = [p \in Procs |-> None]
    /\ queue = [p \in Procs |-> None]
    /\ exec = [p \in Procs |-> "none"]
    /\ writes = 0

Goto(p, where) == pc' = [pc EXCEPT ![p] = where]

End(p, how) ==
    /\ Goto(p, "done")
    /\ verdict' = [verdict EXCEPT ![p] = how]

\* The connection is closed and its queue forgotten: what was watched for it
\* decides nothing any more.
Forget(p) ==
    /\ queue' = [queue EXCEPT ![p] = None]
    /\ UNCHANGED <<store, watched, exec>>

\* Until RequireConnectionAffine, which refuses HTTP
Start(p) ==
    /\ pc[p] = "start"
    /\ IF Accepted(input[p]) /\ ~input[p].http
       THEN Goto(p, "watch") /\ UNCHANGED verdict
       ELSE End(p, "failed")
    /\ UNCHANGED <<input, next, server, writes>>

Watch(p) ==
    /\ pc[p] = "watch"
    /\ watched' = IF input[p].watch = {} THEN watched
                  ELSE [watched EXCEPT ![p] = store]
    /\ Goto(p, "multi")
    /\ UNCHANGED <<input, next, verdict, store, queue, exec, writes>>

\* Transaction or TransactionForKeys
Multi(p) ==
    /\ pc[p] = "multi"
    /\ queue' = [queue EXCEPT ![p] = <<>>]
    /\ Goto(p, "queue")
    /\ UNCHANGED <<input, next, verdict, store, watched, exec, writes>>

Queue(p) ==
    /\ pc[p] = "queue" /\ next[p] <= Len(Commands(p))
    /\ queue' = [queue EXCEPT ![p] = Append(@, Commands(p)[next[p]])]
    /\ next' = [next EXCEPT ![p] = @ + 1]
    /\ UNCHANGED <<input, pc, verdict, store, watched, exec, writes>>

\* The server does not queue the command: DISCARD, whose own error nobody
\* looks at, and the close of the connection.
QueueRefused(p) ==
    /\ pc[p] = "queue" /\ next[p] <= Len(Commands(p))
    /\ Forget(p)
    /\ End(p, "failed")
    /\ UNCHANGED <<input, next, writes>>

Exec(p) ==
    /\ pc[p] = "queue" /\ next[p] > Len(Commands(p))
    /\ exec' = [exec EXCEPT ![p] = "sent"]
    /\ Goto(p, "exec")
    /\ UNCHANGED <<input, next, verdict, store, watched, queue, writes>>

\* Mutation: an EXEC without a result is a success.
NoResultIsSuccess(p) ==
    /\ pc[p] = "exec"
    /\ exec[p] \in {"applied", "aborted"}
    /\ End(p, "applied")
    /\ UNCHANGED <<input, next, server, writes>>

\* checkedTransactionResult
Result(p) ==
    /\ pc[p] = "exec"
    /\ \/ exec[p] = "applied" /\ End(p, "applied")
       \/ exec[p] = "aborted" /\ End(p, IF input[p].watch # {} THEN "conflict" ELSE "unknown")
    /\ UNCHANGED <<input, next, server, writes>>

\* The timeout passes, or the connection is lost.  An EXEC that was sent
\* may have been executed, or may be yet.
Lose(p) ==
    /\ \/ /\ pc[p] \in {"watch", "multi", "queue"}
          /\ Forget(p)
          /\ End(p, "failed")
       \/ /\ pc[p] = "exec"
          /\ End(p, "unknown")
          /\ UNCHANGED server
    /\ UNCHANGED <<input, next, writes>>

-----------------------------------------------------------------------------
(* The server                                                               *)

Changed(p) == watched[p] # None /\ \E k \in input[p].watch : watched[p][k] # store[k]

Execute(p) ==
    /\ exec[p] = "sent"
    /\ IF Changed(p)
       THEN exec' = [exec EXCEPT ![p] = "aborted"] /\ UNCHANGED store
       ELSE /\ exec' = [exec EXCEPT ![p] = "applied"]
            /\ store' = [k \in Keys |->
                  IF \E i \in DOMAIN queue[p] : queue[p][i] = k THEN store[k] + 1 ELSE store[k]]
    /\ UNCHANGED <<client, watched, queue, writes>>

WriteElsewhere ==
    /\ writes < MaxWrites
    /\ writes' = writes + 1
    /\ \E k \in Keys : store' = [store EXCEPT ![k] = @ + 1]
    /\ UNCHANGED <<client, watched, queue, exec>>

Step(p) ==
    \/ Start(p) \/ Watch(p) \/ Multi(p)
    \/ Queue(p) \/ QueueRefused(p)
    \/ Exec(p) \/ Result(p) \/ Lose(p)

Next == WriteElsewhere \/ \E p \in Procs : Step(p) \/ Execute(p)

Spec == Init /\ [][Next]_vars

-----------------------------------------------------------------------------

(* Every variable has its type.                                             *)
TypeOK ==
    /\ input \in [Procs -> Inputs]
    /\ pc \in [Procs -> {"start", "watch", "multi", "queue", "exec", "done"}]
    /\ next \in [Procs -> Nat]
    /\ verdict \in [Procs -> {"running", "applied", "conflict", "failed", "unknown"}]
    /\ store \in [Keys -> Nat] /\ writes \in 0..MaxWrites
    /\ watched \in [Procs -> [Keys -> Nat] \cup {None}]
    /\ queue \in [Procs -> Seq(Keys \cup {None}) \cup {None}]
    /\ exec \in [Procs -> {"none", "sent", "applied", "aborted"}]

Ran(p) == {Commands(p)[i] : i \in DOMAIN Commands(p)}

Promise == INSTANCE AtomicBatch WITH
    batch   <- [p \in Procs |-> [watch |-> input[p].watch, writes |-> Ran(p)]],
    since   <- watched,
    applied <- [p \in Procs |-> exec[p] = "applied"]

(* The writes of a file appear all at one moment or not at all, and never   *)
(* once a watched key changed; success is reported only if they did,        *)
(* "aborted" and every failure before EXEC only if they did not and never   *)
(* will; what is left is a failure of EXEC itself, after which the user     *)
(* cannot know (newStoreTransactionCommand, checkedTransactionResult).      *)
AllOrNothing == Promise!Spec
=============================================================================
