----------------------------- MODULE ProfileFile -----------------------------
(***************************************************************************)
(* FileStore of internal/profile/profile.go, at the level of the system    *)
(* calls it makes.  Every ferric process that touches profiles opens the   *)
(* same JSON file.  Put, Use and Delete take an exclusive flock on         *)
(* <path>.lock, load the file, change the document, write it to a          *)
(* temporary file, sync that and rename it over the path.  Get, List and   *)
(* Current load the file without any lock.                                 *)
(*                                                                         *)
(* Every step that calls the system may fail.  A process may be killed     *)
(* between two steps: the system then drops its locks and leaves its       *)
(* temporary file.  The directory is never synced, so a power loss may     *)
(* undo renames, and what was written to a file without a sync may be lost *)
(* in part.                                                                *)
(***************************************************************************)
EXTENDS ProfileDocument

CONSTANTS Values,           \* profile metadata, opaque to the store
          Callers,          \* processes; each makes one call
          UnlockMayFail,    \* may flock(LOCK_UN) report an error?
          MaxPowerLosses    \* bound on power losses in a behaviour

ASSUME FileAssumption ==
    /\ UnlockMayFail \in BOOLEAN
    /\ MaxPowerLosses \in Nat

VARIABLES file,         \* the file the path names
          onDisk,       \* the files the path may name after a power loss
          temporary,    \* the temporary file of each process
          lock,         \* the processes that hold <path>.lock
          pc, request, answer,
          buffer,       \* the document a mutation is about to save
          powerLosses   \* power losses so far

vars == <<file, onDisk, temporary, lock, pc, request, answer, buffer,
          powerLosses>>

(* The requests, their effects and replies are those of the registry.      *)
Registry ==
    INSTANCE ProfileRegistry
    WITH document    <- file.doc,
         recoverable <- {f.doc : f \in onDisk},
         phase       <- [c \in Callers |->
                           CASE pc[c] \in {"idle", "dead"} -> pc[c]
                             [] pc[c] = "done" -> "returned"
                             [] pc[c] = "leaving" -> "returned"
                             [] pc[c] = "finish" /\ answer[c].status # "error"
                                  -> "applied"
                             [] OTHER -> "called"],
         answer      <- [c \in Callers |->
                           IF pc[c] \in {"finish", "dead"} /\ answer[c].status = "error"
                           THEN [status |-> "none", seen |-> EmptyDocument]
                           ELSE answer[c]]

-----------------------------------------------------------------------------

\* How far the contents of a file have got; "torn" does not decode, "kept"
\* is a temporary file that could not be removed.
Stages == {"none", "created", "written", "synced", "torn", "kept"}

Files == [doc : Documents(Values), stage : Stages]

NoFile == [doc |-> EmptyDocument, stage |-> "none"]

\* Whatever was written to it, nobody reads it.
KeptFile == [doc |-> EmptyDocument, stage |-> "kept"]

Saving == {"create", "write", "sync", "rename"}

Active == {"lock", "load", "read", "finish", "leaving"} \cup Saving

Init ==
    /\ \E d \in Documents(Values) :
          /\ WellSelected(d)
          /\ file = [doc |-> d, stage |-> "synced"]
    /\ onDisk = {file}
    /\ temporary = [c \in Callers |-> NoFile]
    /\ lock = {}
    /\ pc = [c \in Callers |-> "idle"]
    /\ request = [c \in Callers |-> Registry!NoRequest]
    /\ answer = [c \in Callers |-> Registry!NoAnswer]
    /\ buffer = [c \in Callers |-> EmptyDocument]
    /\ powerLosses = 0

-----------------------------------------------------------------------------

Goto(c, label) == pc' = [pc EXCEPT ![c] = label]

Answers(c, a) == answer' = [answer EXCEPT ![c] = a]

\* A process starts one FileStore method; ctx and the name are valid.
Call(c, r) ==
    /\ pc[c] = "idle"
    /\ Goto(c, IF r.op = "read" THEN "read" ELSE "lock")
    /\ request' = [request EXCEPT ![c] = r]
    /\ UNCHANGED <<file, onDisk, temporary, lock, answer, buffer, powerLosses>>

\* Mutation: the lock is taken without waiting for its holder.
LockUnguarded(c) ==
    /\ pc[c] = "lock"
    /\ lock' = lock \cup {c}
    /\ Goto(c, "load")
    /\ UNCHANGED <<file, onDisk, temporary, request, answer, buffer, powerLosses>>

\* withFileLock: TryLockContext polls until the flock is free ...
Lock(c) ==
    /\ pc[c] = "lock"
    /\ lock = {}
    /\ lock' = {c}
    /\ Goto(c, "load")
    /\ UNCHANGED <<file, onDisk, temporary, request, answer, buffer, powerLosses>>

\* ... or the context ends, or the directory or lock file cannot be opened.
LockFails(c) ==
    /\ pc[c] = "lock"
    /\ Answers(c, Registry!Refusal)
    /\ Goto(c, "finish")
    /\ UNCHANGED <<file, onDisk, temporary, lock, request, buffer, powerLosses>>

Load(c) ==
    /\ pc[c] = "load"
    /\ file.stage # "torn"
    /\ IF Registry!Permitted(request[c], file.doc)
       THEN /\ buffer' = [buffer EXCEPT
                            ![c] = Registry!Effect(request[c], file.doc)]
            /\ Goto(c, "create")
            /\ UNCHANGED answer
       ELSE /\ Answers(c, Registry!Reply(request[c], file.doc))
            /\ Goto(c, "finish")
            /\ UNCHANGED buffer
    /\ UNCHANGED <<file, onDisk, temporary, lock, request, powerLosses>>

\* Get, List and Current: one os.ReadFile, no lock.
Read(c) ==
    /\ pc[c] = "read"
    /\ file.stage # "torn"
    /\ Answers(c, Registry!Reply(request[c], file.doc))
    /\ Goto(c, "finish")
    /\ UNCHANGED <<file, onDisk, temporary, lock, request, buffer, powerLosses>>

\* Mutation: what could not be loaded is tried again from the start.  A
\* flock of a second open file waits for the first, in one process too.
LoadRetried(c) ==
    /\ pc[c] \in {"load", "read"}
    /\ Goto(c, IF pc[c] = "load" THEN "lock" ELSE "read")
    /\ UNCHANGED <<file, onDisk, temporary, lock, request, answer, buffer, powerLosses>>

LoadFails(c) ==
    /\ pc[c] \in {"load", "read"}
    /\ Answers(c, Registry!Refusal)
    /\ Goto(c, "finish")
    /\ UNCHANGED <<file, onDisk, temporary, lock, request, buffer, powerLosses>>

-----------------------------------------------------------------------------
(* save: CreateTemp, Chmod and Write, Sync and Close, Rename.               *)

Create(c) ==
    /\ pc[c] = "create"
    /\ temporary' = [temporary EXCEPT ![c] =
                        [doc |-> EmptyDocument, stage |-> "created"]]
    /\ Goto(c, "write")
    /\ UNCHANGED <<file, onDisk, lock, request, answer, buffer, powerLosses>>

Write(c) ==
    /\ pc[c] = "write"
    /\ temporary' = [temporary EXCEPT ![c] =
                        [doc |-> buffer[c], stage |-> "written"]]
    /\ Goto(c, "sync")
    /\ UNCHANGED <<file, onDisk, lock, request, answer, buffer, powerLosses>>

\* Mutation: the file is closed without a sync.
CloseUnsynced(c) ==
    /\ pc[c] = "sync"
    /\ Goto(c, "rename")
    /\ UNCHANGED <<file, onDisk, temporary, lock, request, answer, buffer,
                   powerLosses>>

Sync(c) ==
    /\ pc[c] = "sync"
    /\ temporary' = [temporary EXCEPT ![c].stage = "synced"]
    /\ Goto(c, "rename")
    /\ UNCHANGED <<file, onDisk, lock, request, answer, buffer, powerLosses>>

Rename(c) ==
    /\ pc[c] = "rename"
    /\ file' = temporary[c]
    /\ onDisk' = onDisk \cup {temporary[c]}
    /\ temporary' = [temporary EXCEPT ![c] = NoFile]
    /\ Answers(c, [status |-> "ok", seen |-> EmptyDocument])
    /\ Goto(c, "finish")
    /\ UNCHANGED <<lock, request, buffer, powerLosses>>

\* Mutation: the temporary file is not removed.
SaveFailsUntidy(c) ==
    /\ pc[c] \in Saving
    /\ Answers(c, Registry!Refusal)
    /\ Goto(c, "finish")
    /\ UNCHANGED <<file, onDisk, temporary, lock, request, buffer, powerLosses>>

\* Any step of save fails: the deferred os.Remove takes the temporary away,
\* or fails as well, which nobody is told.
SaveFails(c) ==
    /\ pc[c] \in Saving
    /\ \/ temporary' = [temporary EXCEPT ![c] = NoFile]
       \/ /\ pc[c] # "create"
          /\ temporary' = [temporary EXCEPT ![c] = KeptFile]
    /\ Answers(c, Registry!Refusal)
    /\ Goto(c, "finish")
    /\ UNCHANGED <<file, onDisk, lock, request, buffer, powerLosses>>

-----------------------------------------------------------------------------

\* The deferred Unlock, and the return.
Finish(c) ==
    /\ pc[c] = "finish"
    /\ lock' = lock \ {c}
    /\ Goto(c, "done")
    /\ UNCHANGED <<file, onDisk, temporary, request, answer, buffer, powerLosses>>

\* Unlock's error is joined to the result: the call reports a failure even
\* though what it saved stays, and the flock is held until the process exits.
UnlockFails(c) ==
    /\ UnlockMayFail
    /\ pc[c] = "finish"
    /\ c \in lock
    /\ Answers(c, Registry!Refusal)
    /\ Goto(c, "leaving")
    /\ UNCHANGED <<file, onDisk, temporary, lock, request, buffer, powerLosses>>

Exit(c) ==
    /\ pc[c] = "leaving"
    /\ lock' = lock \ {c}
    /\ Goto(c, "done")
    /\ UNCHANGED <<file, onDisk, temporary, request, answer, buffer, powerLosses>>

-----------------------------------------------------------------------------
(* The environment: a signal, the kernel's write-back, the power.           *)

Crash(c) ==
    /\ pc[c] \in Active \ {"leaving"}
    /\ lock' = lock \ {c}
    /\ Goto(c, "dead")
    /\ UNCHANGED <<file, onDisk, temporary, request, answer, buffer, powerLosses>>

WriteBack ==
    /\ onDisk' = {file}
    /\ UNCHANGED <<file, temporary, lock, pc, request, answer, buffer, powerLosses>>

\* What a file holds once the power is back.
AfterPowerLoss(f) ==
    IF f.stage = "synced" THEN {f} ELSE {f, [f EXCEPT !.stage = "torn"]}

PowerLoss ==
    /\ powerLosses < MaxPowerLosses
    /\ powerLosses' = powerLosses + 1
    /\ \E f \in onDisk : file' \in AfterPowerLoss(f)
    /\ onDisk' = {file'}
    /\ lock' = {}
    /\ pc' = [c \in Callers |->
                CASE pc[c] = "leaving" -> "done"
                  [] pc[c] \in Active \ {"leaving"} -> "dead"
                  [] OTHER -> pc[c]]
    /\ UNCHANGED <<temporary, request, answer, buffer>>

-----------------------------------------------------------------------------

Step(c) ==
    \/ Lock(c) \/ Load(c) \/ Read(c)
    \/ Create(c) \/ Write(c) \/ Sync(c) \/ Rename(c)
    \/ Finish(c) \/ Exit(c)

Failure(c) ==
    LockFails(c) \/ LoadFails(c) \/ SaveFails(c) \/ UnlockFails(c) \/ Crash(c)

Next ==
    \/ \E c \in Callers :
          \/ \E r \in Registry!Requests : Call(c, r)
          \/ Step(c)
          \/ Failure(c)
    \/ WriteBack
    \/ PowerLoss

Spec == Init /\ [][Next]_vars

\* The system runs every process that can take a step.
FairSpec == Spec /\ \A c \in Callers : WF_vars(Step(c))

-----------------------------------------------------------------------------

(* Every variable has its type.                                             *)
TypeOK ==
    /\ file \in Files
    /\ onDisk \subseteq Files
    /\ temporary \in [Callers -> Files]
    /\ lock \subseteq Callers
    /\ pc \in [Callers -> {"idle", "done", "dead"} \cup Active]
    /\ request \in [Callers -> Registry!Requests \cup {Registry!NoRequest}]
    /\ answer \in [Callers -> [status : {"none", "ok", "not_found", "error"},
                               seen   : Documents(Values)]]
    /\ buffer \in [Callers -> Documents(Values)]
    /\ powerLosses \in 0..MaxPowerLosses

(* A power loss at any moment leaves a file that load can decode: no        *)
(* document is renamed into place before its contents are synced.           *)
DocumentNeverTorn == file.stage # "torn"

(* The document on disk selects a saved profile whenever there is one,      *)
(* whatever mutations raced, failed or were undone by a power loss.         *)
SelectionIsSaved == WellSelected(file.doc)

(* A save that fails takes its temporary file away: one is left behind only *)
(* by a process that was killed, or if its removal failed as well.          *)
FailedSaveLeavesNoFile ==
    \A c \in Callers :
        temporary[c] # NoFile =>
            pc[c] \in Saving \cup {"dead"} \/ temporary[c].stage = "kept"

(* Calls are atomic: the store implements the registry, so no update is     *)
(* lost, a reader sees one saved document, and a call that reports an error *)
(* changed nothing (unless unlocking may fail).                             *)
ImplementsRegistry == Registry!Spec

(* A call that has begun ends, or its process is killed: no failure path    *)
(* keeps the lock from the processes that wait for it.                      *)
CallsEnd ==
    \A c \in Callers :
        pc[c] \in Active ~> pc[c] \in {"done", "dead"}
=============================================================================
