------------------------- MODULE CredentialLifecycle -------------------------
(***************************************************************************)
(* ferric processes that log in, log out, delete and select profiles and   *)
(* connect with them, over the two stores they share: the profile document *)
(* (internal/profile) and the system keyring (internal/credential).        *)
(*                                                                         *)
(* One process runs one command (internal/cli/auth.go, cli/profile.go) and *)
(* exits.  Login, logout and delete change both stores, one after the      *)
(* other, in WithCredentialMutation, under the flock on                    *)
(* <path>.credentials.lock.  A connecting command reads both, one after    *)
(* the other, under no lock.  Calls of the document are atomic             *)
(* (ProfileFile implements ProfileRegistry), but one that saved may report *)
(* an error when UnlockMayFail.  Any call of the keyring or the document   *)
(* may fail, and any process may be killed between two steps.              *)
(*                                                                         *)
(* A login is identified with the process that makes it, and so are the    *)
(* secret it validated and the random reference it draws.  Profiles that   *)
(* were saved before references were drawn have none: their secret is kept *)
(* under the name of the profile, and their login is identified with it.   *)
(***************************************************************************)
EXTENDS ProfileDocument

CONSTANTS Procs,          \* ferric processes
          Commands,       \* the commands they may run
          UnlockMayFail   \* may flock(LOCK_UN) report an error?

ASSUME ProcsAssumption ==
    /\ Procs \cap (Names \cup {NoName}) = {}
    /\ Commands \subseteq {"login", "logout", "delete", "use", "open"}
    /\ UnlockMayFail \in BOOLEAN

VARIABLES document,   \* the profile document
          keyring,    \* the keyring: accounts to the logins they belong to
          lock,       \* the processes that hold <path>.credentials.lock
          pc,         \* where each process is
          command, target,   \* what it runs, on which profile name
          seen,       \* the profile it read
          secret,     \* the secret it read
          outcome,    \* what it reports
          committed,  \* history: the logins whose profile was saved
          abandoned   \* history: accounts whose removal the keyring refused, or a
                      \* kill cut off

stores == <<document, keyring>>
local  == <<command, target, seen, secret>>
ghosts == <<committed, abandoned>>
vars   == <<document, keyring, lock, pc, command, target, seen, secret,
            outcome, committed, abandoned>>

-----------------------------------------------------------------------------

NoReference == NoName
NoSecret    == NoName

Accounts == Names \cup Procs     \* names of profiles and drawn references
Logins   == Names \cup Procs     \* who made a login

Profiles == [ref : Accounts \cup {NoReference}, login : Logins]

NoProfile == [ref |-> NoReference, login |-> NoName]

\* Profile.CredentialReference
CredentialReference(n, profile) ==
    IF profile.ref = NoReference THEN n ELSE profile.ref

\* Mutations of the next definition: no reference is drawn; the profile name
\* is the reference of every login.
EmptyReference(p) == NoReference
NameAsReference(p) == target[p]

\* newCredentialReference: 128 random bits, so never drawn twice.
NewReference(p) == p

\* profiles.Get, NoProfile for ErrNotFound
ProfileOf(d, n) == IF Has(d, n) THEN d.profiles[n] ELSE NoProfile

\* The account of the profile that p read, the profile name if there was none.
Reference(p) == CredentialReference(target[p], seen[p])

\* The profile that login p saves
NewProfile(p) == [ref |-> NewReference(p), login |-> p]

Locked == {"read", "store", "persist", "cleanup", "rollback",
           "fetch", "remove", "erase", "restore", "unlock"}

Active == {"validate", "lock", "use", "open", "secret"} \cup Locked

-----------------------------------------------------------------------------

(* Saved profiles without a drawn reference, each with its secret: what a   *)
(* version before references left behind, or nothing at all.                *)
Init ==
    /\ \E S \in SUBSET Names, c \in Names \cup {NoName} :
          /\ document = [current  |-> c,
                         profiles |-> [n \in S |-> [ref   |-> NoReference,
                                                   login |-> n]]]
          /\ WellSelected(document)
          /\ keyring = [n \in S |-> n]
    /\ lock = {}
    /\ pc = [p \in Procs |-> "idle"]
    /\ command = [p \in Procs |-> "none"]
    /\ target = [p \in Procs |-> NoName]
    /\ seen = [p \in Procs |-> NoProfile]
    /\ secret = [p \in Procs |-> NoSecret]
    /\ outcome = [p \in Procs |-> "none"]
    /\ committed = DOMAIN keyring
    /\ abandoned = {}

Goto(p, label) == pc' = [pc EXCEPT ![p] = label]

Reports(p, result) == outcome' = [outcome EXCEPT ![p] = result]

\* Mutation: a logout does not wait for the credential lock.
StartLogoutUnlocked(p, c, n) ==
    /\ pc[p] = "idle"
    /\ Goto(p, CASE c = "login"  -> "validate"
                 [] c = "logout" -> "read"
                 [] c = "delete" -> "lock"
                 [] OTHER -> c)
    /\ command' = [command EXCEPT ![p] = c]
    /\ target' = [target EXCEPT ![p] = n]
    /\ UNCHANGED <<stores, lock, seen, secret, outcome, ghosts>>

\* A command begins; n is the name given to it, or the current profile at
\* some moment before this one.
Start(p, c, n) ==
    /\ pc[p] = "idle"
    /\ Goto(p, CASE c = "login" -> "validate"
                 [] c \in {"logout", "delete"} -> "lock"
                 [] OTHER -> c)
    /\ command' = [command EXCEPT ![p] = c]
    /\ target' = [target EXCEPT ![p] = n]
    /\ UNCHANGED <<stores, lock, seen, secret, outcome, ghosts>>

-----------------------------------------------------------------------------
(* Service.Login before the lock, WithCredentialMutation, profiles.Get.     *)

\* The provider validates the credential on the network.
Validate(p) ==
    /\ pc[p] = "validate"
    /\ Goto(p, "lock")
    /\ UNCHANGED <<stores, lock, local, outcome, ghosts>>

\* With --no-store the command ends here.
ValidateOnly(p) ==
    /\ pc[p] = "validate"
    /\ Reports(p, "validated")
    /\ Goto(p, "done")
    /\ UNCHANGED <<stores, lock, local, ghosts>>

Lock(p) ==
    /\ pc[p] = "lock"
    /\ lock = {}
    /\ lock' = {p}
    /\ Goto(p, "read")
    /\ UNCHANGED <<stores, local, outcome, ghosts>>

\* Login and logout take a missing profile for one that has no reference;
\* for a delete it is an error.
ReadProfile(p) ==
    /\ pc[p] = "read"
    /\ seen' = [seen EXCEPT ![p] = ProfileOf(document, target[p])]
    /\ IF command[p] = "delete" /\ ~Has(document, target[p])
       THEN Goto(p, "unlock") /\ Reports(p, "failed")
       ELSE /\ Goto(p, CASE command[p] = "login"  -> "store"
                         [] command[p] = "logout" -> "remove"
                         [] command[p] = "delete" -> "fetch")
            /\ UNCHANGED outcome
    /\ UNCHANGED <<stores, lock, command, target, secret, ghosts>>

-----------------------------------------------------------------------------
(* Login: put the secret, put the profile, remove the previous secret.      *)

\* Mutation: the previous secret is removed before the profile is saved.
StoreOverPrevious(p) ==
    /\ pc[p] = "store"
    /\ keyring' = Insert(Remove(keyring, Reference(p)), NewReference(p), p)
    /\ Goto(p, "persist")
    /\ UNCHANGED <<document, lock, local, outcome, ghosts>>

Store(p) ==
    /\ pc[p] = "store"
    /\ keyring' = Insert(keyring, NewReference(p), p)
    /\ Goto(p, "persist")
    /\ UNCHANGED <<document, lock, local, outcome, ghosts>>

SaveProfile(p) ==
    /\ document' = PutProfile(document, target[p], NewProfile(p))
    /\ committed' = committed \cup {p}

Persist(p) ==
    /\ pc[p] = "persist"
    /\ SaveProfile(p)
    /\ Goto(p, "cleanup")
    /\ UNCHANGED <<keyring, lock, local, outcome, abandoned>>

PersistFails(p) ==
    /\ pc[p] = "persist"
    /\ \/ UNCHANGED <<document, committed>>
       \/ UnlockMayFail /\ SaveProfile(p)
    /\ Goto(p, "rollback")
    /\ UNCHANGED <<keyring, lock, local, outcome, abandoned>>

\* Mutation: the rollback is given the context of the login, so that nothing
\* is removed when that has ended.
RollbackCancelled(p) ==
    /\ pc[p] = "rollback"
    /\ keyring' \in {keyring, Remove(keyring, NewReference(p))}
    /\ Reports(p, "failed")
    /\ Goto(p, "unlock")
    /\ UNCHANGED <<document, lock, local, ghosts>>

\* deleteCredentialForRollback, in a context that is not cancelled
Rollback(p) ==
    /\ pc[p] = "rollback"
    /\ keyring' = Remove(keyring, NewReference(p))
    /\ Reports(p, "failed")
    /\ Goto(p, "unlock")
    /\ UNCHANGED <<document, lock, local, ghosts>>

\* The keyring refuses.
RollbackFails(p) ==
    /\ pc[p] = "rollback"
    /\ abandoned' = abandoned \cup {NewReference(p)}
    /\ Reports(p, "failed")
    /\ Goto(p, "unlock")
    /\ UNCHANGED <<stores, lock, local, committed>>

\* Mutation: the previous secret is forgotten.
CleanupForgotten(p) ==
    /\ pc[p] = "cleanup"
    /\ Reports(p, "ok")
    /\ Goto(p, "unlock")
    /\ UNCHANGED <<stores, lock, local, ghosts>>

Cleanup(p) ==
    /\ pc[p] = "cleanup"
    /\ keyring' = IF Reference(p) # NewReference(p)
                  THEN Remove(keyring, Reference(p)) ELSE keyring
    /\ Reports(p, "ok")
    /\ Goto(p, "unlock")
    /\ UNCHANGED <<document, lock, local, ghosts>>

\* The login succeeds with a warning.
CleanupFails(p) ==
    /\ pc[p] = "cleanup"
    /\ abandoned' = abandoned \cup {Reference(p)}
    /\ Reports(p, "ok")
    /\ Goto(p, "unlock")
    /\ UNCHANGED <<stores, lock, local, committed>>

-----------------------------------------------------------------------------
(* Logout: remove the secret.  Delete: get it, remove it, remove the        *)
(* profile, and put the secret back if that fails.                          *)

Fetch(p) ==
    /\ pc[p] = "fetch"
    /\ IF Reference(p) \in DOMAIN keyring
       THEN /\ secret' = [secret EXCEPT ![p] = keyring[Reference(p)]]
            /\ Goto(p, "remove")
       ELSE Goto(p, "erase") /\ UNCHANGED secret
    /\ UNCHANGED <<stores, lock, command, target, seen, outcome, ghosts>>

\* The keyring's "not found" is no error; a delete then has none to restore.
RemoveSecret(p) ==
    /\ pc[p] = "remove"
    /\ keyring' = Remove(keyring, Reference(p))
    /\ secret' = [secret EXCEPT
                    ![p] = IF Reference(p) \in DOMAIN keyring THEN @ ELSE NoSecret]
    /\ IF command[p] = "logout"
       THEN Goto(p, "unlock") /\ Reports(p, "ok")
       ELSE Goto(p, "erase") /\ UNCHANGED outcome
    /\ UNCHANGED <<document, lock, command, target, seen, ghosts>>

Erase(p) ==
    /\ pc[p] = "erase"
    /\ Has(document, target[p])
    /\ document' = DeleteProfile(document, target[p])
    /\ Reports(p, "ok")
    /\ Goto(p, "unlock")
    /\ UNCHANGED <<keyring, lock, local, ghosts>>

EraseFails(p) ==
    /\ pc[p] = "erase"
    /\ \/ UNCHANGED document
       \/ /\ UnlockMayFail
          /\ Has(document, target[p])
          /\ document' = DeleteProfile(document, target[p])
    /\ IF secret[p] # NoSecret
       THEN Goto(p, "restore") /\ UNCHANGED outcome
       ELSE Goto(p, "unlock") /\ Reports(p, "failed")
    /\ UNCHANGED <<keyring, lock, local, ghosts>>

\* In a context that is not cancelled
Restore(p) ==
    /\ pc[p] = "restore"
    /\ keyring' = Insert(keyring, Reference(p), secret[p])
    /\ Reports(p, "failed")
    /\ Goto(p, "unlock")
    /\ UNCHANGED <<document, lock, local, ghosts>>

RestoreFails(p) ==
    /\ pc[p] = "restore"
    /\ Reports(p, "failed")
    /\ Goto(p, "unlock")
    /\ UNCHANGED <<stores, lock, local, ghosts>>

-----------------------------------------------------------------------------

Unlock(p) ==
    /\ pc[p] = "unlock"
    /\ lock' = lock \ {p}
    /\ Goto(p, "done")
    /\ UNCHANGED <<stores, local, outcome, ghosts>>

\* The command reports Unlock's error and exits, which drops the flock.
UnlockFails(p) ==
    /\ UnlockMayFail
    /\ pc[p] = "unlock"
    /\ lock' = lock \ {p}
    /\ Reports(p, "failed")
    /\ Goto(p, "done")
    /\ UNCHANGED <<stores, local, ghosts>>

-----------------------------------------------------------------------------
(* profile use, and Service.Open, which a command that connects calls.      *)

Use(p) ==
    /\ pc[p] = "use"
    /\ IF Has(document, target[p])
       THEN /\ document' = UseProfile(document, target[p])
            /\ \/ Reports(p, "ok")
               \/ UnlockMayFail /\ Reports(p, "failed")
       ELSE Reports(p, "failed") /\ UNCHANGED document
    /\ Goto(p, "done")
    /\ UNCHANGED <<keyring, lock, local, ghosts>>

Open(p) ==
    /\ pc[p] = "open"
    /\ seen' = [seen EXCEPT ![p] = ProfileOf(document, target[p])]
    /\ IF Has(document, target[p])
       THEN Goto(p, "secret") /\ UNCHANGED outcome
       ELSE Goto(p, "done") /\ Reports(p, "failed")
    /\ UNCHANGED <<stores, lock, command, target, secret, ghosts>>

\* Mutation: the profile is read again to find the secret.
OpenWithCurrentSecret(p) ==
    LET account == CredentialReference(target[p], ProfileOf(document, target[p]))
    IN  /\ pc[p] = "secret"
        /\ IF account \in DOMAIN keyring
           THEN /\ secret' = [secret EXCEPT ![p] = keyring[account]]
                /\ Reports(p, "ok")
           ELSE Reports(p, "missing") /\ UNCHANGED secret
        /\ Goto(p, "done")
        /\ UNCHANGED <<stores, lock, command, target, seen, ghosts>>

OpenWithSecret(p) ==
    /\ pc[p] = "secret"
    /\ IF Reference(p) \in DOMAIN keyring
       THEN /\ secret' = [secret EXCEPT ![p] = keyring[Reference(p)]]
            /\ Reports(p, "ok")
       ELSE Reports(p, "missing") /\ UNCHANGED secret
    /\ Goto(p, "done")
    /\ UNCHANGED <<stores, lock, command, target, seen, ghosts>>

-----------------------------------------------------------------------------
(* Failures that change neither store: the network, a context that ended, a *)
(* lock that was not acquired, a profile that is missing, a document or     *)
(* keyring that cannot be read or written.                                  *)

GiveUp(p) ==
    /\ pc[p] \in {"validate", "lock", "use", "open", "secret"}
    /\ Reports(p, "failed")
    /\ Goto(p, "done")
    /\ UNCHANGED <<stores, lock, local, ghosts>>

\* Mutation: what failed is tried again from the start, and waits for the
\* flock that its own process holds.
AbortRetried(p) ==
    /\ pc[p] \in {"read", "store", "fetch", "remove"}
    /\ Goto(p, "lock")
    /\ UNCHANGED <<stores, lock, local, outcome, ghosts>>

Abort(p) ==
    /\ pc[p] \in {"read", "store", "fetch", "remove"}
    /\ Reports(p, "failed")
    /\ Goto(p, "unlock")
    /\ UNCHANGED <<stores, lock, local, ghosts>>

\* Accounts that a login has put or superseded and has yet to remove
Pending(p) ==
    CASE pc[p] \in {"persist", "rollback"} -> {NewReference(p)}
      [] pc[p] = "cleanup"                 -> {Reference(p)}
      [] OTHER                             -> {}

\* The process is killed; the system drops its flock.
Crash(p) ==
    /\ pc[p] \in Active
    /\ Goto(p, "dead")
    /\ lock' = lock \ {p}
    /\ abandoned' = abandoned \cup Pending(p)
    /\ UNCHANGED <<stores, local, outcome, committed>>

-----------------------------------------------------------------------------

LoginStep(p)  == Validate(p) \/ Store(p) \/ Persist(p) \/ Rollback(p) \/ Cleanup(p)
DeleteStep(p) == Fetch(p) \/ RemoveSecret(p) \/ Erase(p) \/ Restore(p)
LockStep(p)   == Lock(p) \/ ReadProfile(p) \/ Unlock(p)
OtherStep(p)  == Use(p) \/ Open(p) \/ OpenWithSecret(p)

Step(p) == LockStep(p) \/ LoginStep(p) \/ DeleteStep(p) \/ OtherStep(p)

Failure(p) ==
    \/ ValidateOnly(p) \/ GiveUp(p) \/ Abort(p)
    \/ PersistFails(p) \/ RollbackFails(p) \/ CleanupFails(p)
    \/ EraseFails(p) \/ RestoreFails(p) \/ UnlockFails(p)
    \/ Crash(p)

Next ==
    \E p \in Procs :
        \/ \E c \in Commands, n \in Names : Start(p, c, n)
        \/ Step(p)
        \/ Failure(p)

Spec == Init /\ [][Next]_vars

\* The system runs every process that can take a step; no step is a failure.
FairSpec == Spec /\ \A p \in Procs : WF_vars(Step(p))

-----------------------------------------------------------------------------

(* Every variable has its type.                                             *)
TypeOK ==
    /\ document \in Documents(Profiles)
    /\ keyring \in MapsFrom(Accounts, Logins)
    /\ lock \subseteq Procs
    /\ pc \in [Procs -> {"idle", "done", "dead"} \cup Active]
    /\ command \in [Procs -> Commands \cup {"none"}]
    /\ target \in [Procs -> Names \cup {NoName}]
    /\ seen \in [Procs -> Profiles \cup {NoProfile}]
    /\ secret \in [Procs -> Logins \cup {NoSecret}]
    /\ outcome \in [Procs -> {"none", "ok", "validated", "missing", "failed"}]
    /\ committed \subseteq Logins
    /\ abandoned \subseteq Accounts

Succeeded(p, commands) == command[p] \in commands /\ outcome[p] = "ok"

Failed(p, commands) == command[p] \in commands /\ outcome[p] = "failed"

\* The account of the profile saved under n
SavedReference(n) == CredentialReference(n, document.profiles[n])

Referenced == {SavedReference(n) : n \in DOMAIN document.profiles}

\* The profiles that can be connected with, each with its own secret
SignedIn ==
    {n \in DOMAIN document.profiles :
        /\ SavedReference(n) \in DOMAIN keyring
        /\ keyring[SavedReference(n)] = document.profiles[n].login}

(* The secret found through a saved profile is the one that was validated   *)
(* by the login that saved the profile, never another login's: not after    *)
(* concurrent logins under one name, nor after a login was interrupted      *)
(* between its two writes (Service.Login).                                  *)
CredentialsPaired ==
    \A n \in DOMAIN document.profiles :
        SavedReference(n) \in DOMAIN keyring =>
            keyring[SavedReference(n)] = document.profiles[n].login

(* A command that connects, which reads profile and secret without a lock,  *)
(* never sends one login's secret to another login's endpoint, whatever     *)
(* logins, logouts and deletes ran between the two reads (Service.Open).    *)
OpenedWithOwnSecret ==
    \A p \in Procs : Succeeded(p, {"open"}) => secret[p] = seen[p].login

(* A command that connects and finds no secret was overtaken: its profile   *)
(* has been replaced or deleted since it read it, or a logout or delete has *)
(* been run on it.  A login alone never takes the secret away from a        *)
(* profile that is still saved (Service.Open against Service.Login).        *)
MissingSecretExplained ==
    \A p \in Procs :
        outcome[p] = "missing" =>
            \/ ProfileOf(document, target[p]) # seen[p]
            \/ \E q \in Procs :
                  /\ command[q] \in {"logout", "delete"}
                  /\ target[q] = target[p]

(* A secret in the keyring that no profile refers to is one that a running  *)
(* login is about to refer to or to remove, or one whose removal failed or  *)
(* was cut off by a kill: no order of commands leaves any other behind.     *)
OrphansAccountedFor ==
    DOMAIN keyring \ Referenced \subseteq
        abandoned \cup UNION {Pending(p) : p \in Procs}

(* A login that reports an error saved no profile, and left no secret in    *)
(* the keyring unless the keyring refused to remove it: a timeout that has  *)
(* passed is no reason (the rollback of Service.Login).                     *)
FailedLoginLeavesNothing ==
    \A p \in Procs :
        Failed(p, {"login"}) =>
            /\ p \notin committed
            /\ NewReference(p) \in DOMAIN keyring => NewReference(p) \in abandoned

(* Once a logout or a delete has reported success, the secret it removed    *)
(* never comes back: no rollback of a concurrent login or delete puts it    *)
(* into the keyring again (Service.Logout, deleteProfileState).             *)
RemovalIsFinal ==
    \A p \in Procs :
        Succeeded(p, {"logout", "delete"}) => Reference(p) \notin DOMAIN keyring

(* A login that fails and rolls back leaves a profile that was signed in    *)
(* signed in: docs/authentication.md says that if the profile could not be  *)
(* saved the login restores the previous keyring value or removes the new   *)
(* one (the rollback of Service.Login).                                     *)
RollbackKeepsProfileSignedIn ==
    [][\A p \in Procs :
          /\ pc[p] = "rollback" /\ pc'[p] = "unlock"
          /\ seen[p] # NoProfile /\ Reference(p) \in DOMAIN keyring
          => target[p] \in SignedIn']_vars

(* When a delete ends and its profile is gone, so is the secret it found:   *)
(* docs/authentication.md says that deleting a profile removes both its     *)
(* metadata and keyring credential, and that the credential is restored if  *)
(* the metadata was not removed (deleteProfileState).                       *)
DeletedProfileLeavesNoSecret ==
    \A p \in Procs :
        command[p] = "delete" /\ pc[p] = "unlock" /\ seen[p] # NoProfile =>
            Has(document, target[p]) \/ Reference(p) \notin DOMAIN keyring

-----------------------------------------------------------------------------

\* The profiles a running delete has signed out and not yet removed
Removing ==
    {n \in Names : \E p \in Procs :
        /\ pc[p] \in {"erase", "restore"}
        /\ target[p] = n
        /\ secret[p] # NoSecret}

AskedToRemove ==
    {target[p] : p \in {q \in Procs : command[q] \in {"logout", "delete"}}}

SavedLoginsOf(d) == [n \in DOMAIN d.profiles |-> d.profiles[n].login]

Promise ==
    INSTANCE SavedLogins
    WITH saved    <- SavedLoginsOf(document),
         signedIn <- SignedIn,
         removing <- Removing,
         asked    <- AskedToRemove,
         made     <- committed

(* Login, logout and delete over two stores behave as single steps on one:  *)
(* a login switches a profile to its endpoint and its secret at once or not *)
(* at all, in the presence of failures, kills and concurrent commands.      *)
KeepsPromise == Promise!Spec

(* Every command ends or is killed: a process that holds the credential     *)
(* lock gives it back on every path, so that one that waits without a       *)
(* timeout, as logout and delete do, gets it in the end.                    *)
CommandsEnd ==
    \A p \in Procs : pc[p] \in Active ~> pc[p] \in {"done", "dead"}
=============================================================================
