----------------------- MODULE CredentialLifecycleProofs -----------------------
(***************************************************************************)
(* Proofs about CredentialLifecycle, for every set of names and processes. *)
(* First what holds whatever fails: the types and the safety properties.   *)
(* Then, while unlocking does not fail: no secret is left behind           *)
(* unaccounted for, none goes missing unasked, and the two stores behave   *)
(* as the one that SavedLogins describes.  The inductive invariant is      *)
(* built in layers, each proved with the help of those before it:          *)
(*   TypeInv    types, and what a place in a command implies;              *)
(*   Unread     a command has read and reported nothing before its reads;  *)
(*   Exclusive  one process at a time is between Lock and Unlock;          *)
(*   Drawn      a reference is nowhere before its login stores a secret,   *)
(*              and in no profile before its login is saved;               *)
(*   Owned      an account holds the secret of its owner, and profiles     *)
(*              name their own login's account;                            *)
(*   Final      nothing is left that could restore a removed secret;       *)
(*   Undone     the profile of a login that rolls back was not saved;      *)
(*   Fixed      what a process read under the lock stands until it writes; *)
(*   Unshared   no two profiles name one account, nor a superseded one;    *)
(*   Kept       a profile nobody asked to remove finds its secret.         *)
(***************************************************************************)
EXTENDS CredentialLifecycle, WellFoundedInduction, TLAPS

-----------------------------------------------------------------------------
(* What the operations of the maps and of the document return               *)

(* A map is a function from some of the keys to values.                     *)
LEMMA MapsFromIs ==
    ASSUME NEW keys, NEW values, NEW m
    PROVE  m \in MapsFrom(keys, values)
              <=> /\ m = [k \in DOMAIN m |-> m[k]]
                  /\ DOMAIN m \subseteq keys
                  /\ \A k \in DOMAIN m : m[k] \in values
BY DEF MapsFrom

(* Insert adds one key, sets its value, and leaves the others (Go's m[k]=v). *)
LEMMA InsertIs ==
    ASSUME NEW keys, NEW values, NEW m \in MapsFrom(keys, values),
           NEW k \in keys, NEW v \in values
    PROVE  /\ Insert(m, k, v) \in MapsFrom(keys, values)
           /\ DOMAIN Insert(m, k, v) = DOMAIN m \cup {k}
           /\ Insert(m, k, v)[k] = v
           /\ \A x \in DOMAIN m \ {k} : Insert(m, k, v)[x] = m[x]
BY MapsFromIs DEF Insert

(* Remove takes one key away and leaves the others (Go's delete(m, k)).      *)
LEMMA RemoveIs ==
    ASSUME NEW keys, NEW values, NEW m \in MapsFrom(keys, values), NEW k
    PROVE  /\ Remove(m, k) \in MapsFrom(keys, values)
           /\ DOMAIN Remove(m, k) = DOMAIN m \ {k}
           /\ \A x \in DOMAIN m \ {k} : Remove(m, k)[x] = m[x]
BY MapsFromIs DEF Remove

(* A set of names that is not empty has a first name.                       *)
LEMMA FirstNameIsIn ==
    ASSUME NEW S \in SUBSET Names, S # {}
    PROVE  FirstName(S) \in S
<1>1. S \subseteq Nat
  BY NamesAssumption
<1>2. PICK n \in S : \A m \in S : ~(<<m, n>> \in OpToRel(<, Nat))
  BY <1>1, NatLessThanWellFounded, WFMin, Zenon
<1>3. ASSUME NEW m \in S
      PROVE  n <= m
  <2>1. m \in Nat /\ n \in Nat /\ ~(<<m, n>> \in {ss \in Nat \X Nat : ss[1] < ss[2]})
    BY <1>1, <1>2 DEF OpToRel
  <2> QED
    BY <2>1
<1> QED
  BY <1>3 DEF FirstName

(* The replacement for a deleted selection is a saved profile, or none when *)
(* none is left.                                                            *)
LEMMA ReplacementIs ==
    ASSUME NEW values, NEW m \in MapsFrom(Names, values)
    PROVE  IF DOMAIN m = {} THEN Replacement(m) = NoName
                            ELSE Replacement(m) \in DOMAIN m
<1>1. DOMAIN m \in SUBSET Names
  BY MapsFromIs
<1> QED
  BY <1>1, FirstNameIsIn, NamesAssumption DEF Replacement

(* Put, Use and Delete save a document when they are given one.             *)
LEMMA OperationsYieldDocuments ==
    ASSUME NEW values, NEW d \in Documents(values), NEW n \in Names
    PROVE  /\ \A v \in values : PutProfile(d, n, v) \in Documents(values)
           /\ UseProfile(d, n) \in Documents(values)
           /\ DeleteProfile(d, n) \in Documents(values)
<1>1. d.profiles \in MapsFrom(Names, values) /\ d.current \in Names \cup {NoName}
  BY DEF Documents
<1>2. ASSUME NEW v \in values
      PROVE  PutProfile(d, n, v) \in Documents(values)
  BY <1>1, InsertIs DEF PutProfile, Documents
<1>3. UseProfile(d, n) \in Documents(values)
  BY DEF UseProfile, Documents
<1>4. DeleteProfile(d, n) \in Documents(values)
  <2> DEFINE rest == Remove(d.profiles, n)
  <2>1. rest \in MapsFrom(Names, values)
    BY <1>1, RemoveIs
  <2>2. Replacement(rest) \in Names \cup {NoName}
    BY <2>1, ReplacementIs, MapsFromIs
  <2> QED
    BY <1>1, <2>1, <2>2 DEF DeleteProfile, Documents
<1> QED
  BY <1>2, <1>3, <1>4

-----------------------------------------------------------------------------
(* Types                                                                    *)

(* The reference of a profile is an account, and so is what a process       *)
(* derives from the profile it read.                                        *)
LEMMA ReferenceIsAccount ==
    ASSUME TypeOK, NEW p \in Procs, target[p] \in Names
    PROVE  Reference(p) \in Accounts
BY DEF TypeOK, Reference, CredentialReference, Profiles, NoProfile, Accounts

(* profiles.Get returns a profile or ErrNotFound.                           *)
LEMMA ProfileOfType ==
    ASSUME TypeOK, NEW n
    PROVE  ProfileOf(document, n) \in Profiles \cup {NoProfile}
BY MapsFromIs DEF TypeOK, Documents, ProfileOf, Has

(* A running process has a name to work on, and is on its command's path.   *)
OnPath ==
    \A p \in Procs :
        /\ pc[p] # "idle" => target[p] \in Names
        /\ pc[p] \in {"validate", "store", "persist", "rollback", "cleanup"}
              => command[p] = "login"
        /\ pc[p] \in {"fetch", "erase", "restore"} => command[p] = "delete"
        /\ pc[p] = "remove" => command[p] \in {"logout", "delete"}
        /\ pc[p] \in {"lock", "read"} => command[p] \in {"login", "logout", "delete"}
        /\ pc[p] \in {"open", "secret"} => command[p] = "open"
        /\ pc[p] = "use" => command[p] = "use"
        /\ pc[p] = "restore" => secret[p] # NoSecret

TypeInv == TypeOK /\ OnPath

LEMMA TypeInit == Init => TypeInv
<1> SUFFICES ASSUME Init PROVE TypeInv
  OBVIOUS
<1> USE NamesAssumption, ProcsAssumption
<1>1. document \in Documents(Profiles) /\ keyring \in MapsFrom(Accounts, Logins)
  <2>1. PICK S \in SUBSET Names, c \in Names \cup {NoName} :
           /\ document = [current  |-> c,
                          profiles |-> [n \in S |-> [ref   |-> NoReference,
                                                    login |-> n]]]
           /\ keyring = [n \in S |-> n]
    BY DEF Init
  <2>2. [n \in S |-> [ref |-> NoReference, login |-> n]] \in [S -> Profiles]
    BY DEF Profiles, Logins
  <2>3. [n \in S |-> n] \in [S -> Logins] /\ S \in SUBSET Accounts
    BY DEF Logins, Accounts
  <2> QED
    BY <2>1, <2>2, <2>3 DEF Documents, MapsFrom
<1>2. committed \subseteq Logins
  BY <1>1, MapsFromIs DEF Init, Accounts, Logins
<1> QED
  BY <1>1, <1>2 DEF Init, TypeInv, TypeOK, OnPath, NoSecret

LEMMA TypeStep == TypeInv /\ [Next]_vars => TypeInv'
<1> SUFFICES ASSUME TypeInv, [Next]_vars PROVE TypeInv'
  OBVIOUS
<1> USE NamesAssumption, ProcsAssumption
      DEF TypeInv, TypeOK, OnPath, Active, Locked, Goto, Reports,
          stores, local, ghosts
<1>1. ASSUME NEW p \in Procs, NEW c \in Commands, NEW n \in Names, Start(p, c, n)
      PROVE  TypeInv'
  BY <1>1 DEF Start
<1>2. ASSUME NEW p \in Procs, Validate(p) \/ ValidateOnly(p) \/ Lock(p)
      PROVE  TypeInv'
  BY <1>2 DEF Validate, ValidateOnly, Lock
<1>3. ASSUME NEW p \in Procs, ReadProfile(p)
      PROVE  TypeInv'
  <2>1. ProfileOf(document, target[p]) \in Profiles \cup {NoProfile}
    BY ProfileOfType
  <2> QED
    BY <1>3, <2>1 DEF ReadProfile
<1>4. ASSUME NEW p \in Procs, Store(p)
      PROVE  TypeInv'
  <2>1. NewReference(p) \in Accounts /\ p \in Logins
    BY DEF NewReference, Accounts, Logins
  <2>2. keyring' \in MapsFrom(Accounts, Logins)
    BY <1>4, <2>1, InsertIs DEF Store
  <2> QED
    BY <1>4, <2>2 DEF Store
<1>5. ASSUME NEW p \in Procs, pc[p] = "persist", SaveProfile(p)
      PROVE  /\ document' \in Documents(Profiles)
             /\ committed' \subseteq Logins
  <2>1. NewProfile(p) \in Profiles /\ target[p] \in Names /\ p \in Logins
    BY <1>5 DEF NewProfile, NewReference, Profiles, Accounts, Logins
  <2> QED
    BY <1>5, <2>1, OperationsYieldDocuments DEF SaveProfile
<1>6. ASSUME NEW p \in Procs, Persist(p)
      PROVE  TypeInv'
  BY <1>5, <1>6 DEF Persist
<1>7. ASSUME NEW p \in Procs, PersistFails(p)
      PROVE  TypeInv'
  BY <1>5, <1>7 DEF PersistFails
<1>8. ASSUME NEW p \in Procs, Rollback(p) \/ RollbackFails(p)
      PROVE  TypeInv'
  <2>1. NewReference(p) \in Accounts
    BY DEF NewReference, Accounts
  <2>2. Remove(keyring, NewReference(p)) \in MapsFrom(Accounts, Logins)
    BY RemoveIs
  <2> QED
    BY <1>8, <2>1, <2>2 DEF Rollback, RollbackFails
<1>9. ASSUME NEW p \in Procs, Cleanup(p) \/ CleanupFails(p)
      PROVE  TypeInv'
  <2>1. Reference(p) \in Accounts
    BY <1>9, ReferenceIsAccount DEF Cleanup, CleanupFails
  <2>2. Remove(keyring, Reference(p)) \in MapsFrom(Accounts, Logins)
    BY RemoveIs
  <2> QED
    BY <1>9, <2>1, <2>2 DEF Cleanup, CleanupFails
<1>10. ASSUME NEW p \in Procs, Fetch(p)
       PROVE  TypeInv'
  <2>1. Reference(p) \in DOMAIN keyring => keyring[Reference(p)] \in Logins
    BY MapsFromIs
  <2> QED
    BY <1>10, <2>1 DEF Fetch
<1>11. ASSUME NEW p \in Procs, RemoveSecret(p)
       PROVE  TypeInv'
  <2>1. keyring' \in MapsFrom(Accounts, Logins)
    BY <1>11, RemoveIs DEF RemoveSecret
  <2> QED
    BY <1>11, <2>1 DEF RemoveSecret
<1>12. ASSUME NEW p \in Procs, Erase(p)
       PROVE  TypeInv'
  BY <1>12, OperationsYieldDocuments DEF Erase
<1>13. ASSUME NEW p \in Procs, EraseFails(p)
       PROVE  TypeInv'
  <2>1. DeleteProfile(document, target[p]) \in Documents(Profiles)
    BY <1>13, OperationsYieldDocuments DEF EraseFails
  <2> QED
    BY <1>13, <2>1 DEF EraseFails
<1>14. ASSUME NEW p \in Procs, Restore(p) \/ RestoreFails(p)
       PROVE  TypeInv'
  <2>1. Reference(p) \in Accounts
    BY <1>14, ReferenceIsAccount DEF Restore, RestoreFails
  <2>2. secret[p] # NoSecret => secret[p] \in Logins
    OBVIOUS
  <2>3. ASSUME secret[p] # NoSecret
        PROVE  Insert(keyring, Reference(p), secret[p]) \in MapsFrom(Accounts, Logins)
    BY <2>1, <2>2, <2>3, InsertIs
  <2> QED
    BY <1>14, <2>3 DEF Restore, RestoreFails
<1>15. ASSUME NEW p \in Procs, Unlock(p) \/ UnlockFails(p)
       PROVE  TypeInv'
  BY <1>15 DEF Unlock, UnlockFails
<1>16. ASSUME NEW p \in Procs, Use(p)
       PROVE  TypeInv'
  <2>1. UseProfile(document, target[p]) \in Documents(Profiles)
    BY <1>16, OperationsYieldDocuments DEF Use
  <2> QED
    BY <1>16, <2>1 DEF Use
<1>17. ASSUME NEW p \in Procs, Open(p)
       PROVE  TypeInv'
  BY <1>17, ProfileOfType DEF Open
<1>18. ASSUME NEW p \in Procs, OpenWithSecret(p)
       PROVE  TypeInv'
  <2>1. Reference(p) \in DOMAIN keyring => keyring[Reference(p)] \in Logins
    BY MapsFromIs
  <2> QED
    BY <1>18, <2>1 DEF OpenWithSecret
<1>19. ASSUME NEW p \in Procs, GiveUp(p) \/ Abort(p)
       PROVE  TypeInv'
  BY <1>19 DEF GiveUp, Abort
<1>20. ASSUME NEW p \in Procs, Crash(p)
       PROVE  TypeInv'
  <2>1. Reference(p) \in Accounts /\ NewReference(p) \in Accounts
    BY <1>20, ReferenceIsAccount DEF Crash, NewReference, Accounts
  <2>2. Pending(p) \subseteq Accounts
    BY <2>1 DEF Pending
  <2> QED
    BY <1>20, <2>2 DEF Crash
<1>21. CASE UNCHANGED vars
  BY <1>21 DEF vars
<1> QED
  BY <1>1, <1>2, <1>3, <1>4, <1>6, <1>7, <1>8, <1>9, <1>10, <1>11, <1>12,
     <1>13, <1>14, <1>15, <1>16, <1>17, <1>18, <1>19, <1>20, <1>21
     DEF Next, Step, LockStep, LoginStep, DeleteStep, OtherStep, Failure

(* Type correctness: every variable has its type, in every behaviour.       *)
THEOREM TypeCorrect == Spec => []TypeOK
<1>1. Init => TypeInv
  BY TypeInit
<1>2. TypeInv /\ [Next]_vars => TypeInv'
  BY TypeStep
<1>3. TypeInv => TypeOK
  BY DEF TypeInv
<1> QED
  BY <1>1, <1>2, <1>3, PTL DEF Spec

-----------------------------------------------------------------------------
(* Layers                                                                   *)

Before == {"idle", "validate", "lock", "read", "open"}

Unread ==
    \A p \in Procs :
        /\ pc[p] \in Before => seen[p] = NoProfile /\ outcome[p] = "none"
        /\ pc[p] \in Before \cup {"fetch"} => secret[p] = NoSecret
        /\ pc[p] = "secret" => seen[p] # NoProfile
        /\ outcome[p] # "none" => pc[p] \in {"unlock", "done", "dead"}

Exclusive ==
    /\ \A p \in Procs : p \in lock <=> pc[p] \in Locked
    /\ \A p, q \in lock : p = q

Drawn ==
    /\ \A n \in DOMAIN document.profiles :
          document.profiles[n].ref \in committed \cup {NoReference}
    /\ \A p \in Procs : seen[p].ref \in committed \cup {NoReference}
    /\ \A p \in Procs : pc[p] \in Before \cup {"store"} =>
                            p \notin committed /\ p \notin DOMAIN keyring

Owned ==
    /\ \A a \in DOMAIN keyring : keyring[a] = a
    /\ \A n \in DOMAIN document.profiles :
          document.profiles[n].login = SavedReference(n)
    /\ \A p \in Procs :
          /\ seen[p] # NoProfile => seen[p].login = Reference(p)
          /\ secret[p] # NoSecret => secret[p] = Reference(p)
          /\ Succeeded(p, {"open"}) => seen[p] # NoProfile /\ secret[p] # NoSecret

Final ==
    /\ RemovalIsFinal
    /\ \A p \in Procs : pc[p] = "erase" => Reference(p) \notin DOMAIN keyring
    /\ \A p, q \in Procs :
          /\ Succeeded(p, {"logout", "delete"})
          /\ pc[q] \in {"erase", "restore"}
          /\ secret[q] # NoSecret
          => Reference(p) # Reference(q)

Undone ==
    /\ FailedLoginLeavesNothing
    /\ \A p \in Procs : pc[p] \in {"persist", "rollback"} => p \notin committed

-----------------------------------------------------------------------------

LEMMA UnreadStep ==
    ASSUME TypeInv, Unread, [Next]_vars
    PROVE  Unread'
<1> USE NamesAssumption, ProcsAssumption
      DEF TypeInv, TypeOK, OnPath, Active, Locked, Goto, Reports,
          stores, local, ghosts, Unread, Before
<1>1. ASSUME NEW p \in Procs, NEW c \in Commands, NEW n \in Names, Start(p, c, n)
      PROVE  Unread'
  BY <1>1 DEF Start
<1>2. ASSUME NEW p \in Procs,
             \/ Validate(p) \/ ValidateOnly(p) \/ Lock(p) \/ ReadProfile(p)
             \/ Unlock(p) \/ UnlockFails(p) \/ GiveUp(p) \/ Abort(p) \/ Crash(p)
      PROVE  Unread'
  BY <1>2 DEF Validate, ValidateOnly, Lock, ReadProfile, Unlock, UnlockFails,
              GiveUp, Abort, Crash
<1>3. ASSUME NEW p \in Procs,
             \/ Store(p) \/ Persist(p) \/ PersistFails(p) \/ Rollback(p)
             \/ RollbackFails(p) \/ Cleanup(p) \/ CleanupFails(p)
      PROVE  Unread'
  BY <1>3 DEF Store, Persist, PersistFails, Rollback, RollbackFails,
              Cleanup, CleanupFails
<1>4. ASSUME NEW p \in Procs,
             \/ Fetch(p) \/ RemoveSecret(p) \/ Erase(p) \/ EraseFails(p)
             \/ Restore(p) \/ RestoreFails(p)
      PROVE  Unread'
  BY <1>4 DEF Fetch, RemoveSecret, Erase, EraseFails, Restore, RestoreFails
<1>5. ASSUME NEW p \in Procs, Open(p)
      PROVE  Unread'
  <2>1. Has(document, target[p]) => ProfileOf(document, target[p]) # NoProfile
    <3>1. Has(document, target[p]) => document.profiles[target[p]] \in Profiles
      BY MapsFromIs DEF Documents, Has
    <3>2. NoProfile \notin Profiles
      BY DEF Profiles, NoProfile, Logins, NoName
    <3> QED
      BY <3>1, <3>2 DEF ProfileOf
  <2> QED
    BY <1>5, <2>1 DEF Open
<1>6. ASSUME NEW p \in Procs, Use(p) \/ OpenWithSecret(p)
      PROVE  Unread'
  BY <1>6 DEF Use, OpenWithSecret
<1>7. CASE UNCHANGED vars
  BY <1>7 DEF vars
<1> QED
  BY <1>1, <1>2, <1>3, <1>4, <1>5, <1>6, <1>7
     DEF Next, Step, LockStep, LoginStep, DeleteStep, OtherStep, Failure

LEMMA ExclusiveStep ==
    ASSUME TypeInv, Exclusive, [Next]_vars
    PROVE  Exclusive'
<1> USE DEF TypeInv, TypeOK, OnPath, Active, Locked, Goto, Reports,
            stores, local, ghosts, Exclusive
<1>1. ASSUME NEW p \in Procs, NEW c \in Commands, NEW n \in Names, Start(p, c, n)
      PROVE  Exclusive'
  <2>1. pc'[p] \notin Locked
    BY <1>1, ProcsAssumption DEF Start
  <2> QED
    BY <1>1, <2>1 DEF Start
<1>2. ASSUME NEW p \in Procs,
             \/ Validate(p) \/ ValidateOnly(p) \/ ReadProfile(p)
             \/ GiveUp(p) \/ Abort(p)
             \/ Use(p) \/ Open(p) \/ OpenWithSecret(p)
      PROVE  Exclusive'
  BY <1>2 DEF Validate, ValidateOnly, ReadProfile, GiveUp, Abort,
              Use, Open, OpenWithSecret
<1>3. ASSUME NEW p \in Procs, Lock(p)
      PROVE  Exclusive'
  BY <1>3 DEF Lock
<1>4. ASSUME NEW p \in Procs, Unlock(p) \/ UnlockFails(p) \/ Crash(p)
      PROVE  Exclusive'
  BY <1>4 DEF Unlock, UnlockFails, Crash
<1>5. ASSUME NEW p \in Procs,
             \/ Store(p) \/ Persist(p) \/ PersistFails(p) \/ Rollback(p)
             \/ RollbackFails(p) \/ Cleanup(p) \/ CleanupFails(p)
      PROVE  Exclusive'
  BY <1>5 DEF Store, Persist, PersistFails, Rollback, RollbackFails,
              Cleanup, CleanupFails
<1>6. ASSUME NEW p \in Procs,
             \/ Fetch(p) \/ RemoveSecret(p) \/ Erase(p) \/ EraseFails(p)
             \/ Restore(p) \/ RestoreFails(p)
      PROVE  Exclusive'
  BY <1>6 DEF Fetch, RemoveSecret, Erase, EraseFails, Restore, RestoreFails
<1>7. CASE UNCHANGED vars
  BY <1>7 DEF vars
<1> QED
  BY <1>1, <1>2, <1>3, <1>4, <1>5, <1>6, <1>7
     DEF Next, Step, LockStep, LoginStep, DeleteStep, OtherStep, Failure

(* What Put, Use and Delete leave of the profiles that were saved.          *)
LEMMA ProfilesAfter ==
    ASSUME TypeInv, NEW p \in Procs
    PROVE  /\ PutProfile(document, target[p], NewProfile(p)).profiles
                 = Insert(document.profiles, target[p], NewProfile(p))
           /\ UseProfile(document, target[p]).profiles = document.profiles
           /\ DeleteProfile(document, target[p]).profiles
                 = Remove(document.profiles, target[p])
BY DEF PutProfile, UseProfile, DeleteProfile, TypeInv, TypeOK, Documents

(* What a process works on was drawn by a saved login, or is a name.        *)
LEMMA ReferenceWasSaved ==
    ASSUME TypeInv, Drawn, NEW p \in Procs
    PROVE  Reference(p) \in Names \cup {NoName} \cup committed
BY DEF TypeInv, TypeOK, Drawn, Reference, CredentialReference, NoReference, NoName

LEMMA DrawnStep ==
    ASSUME TypeInv, Drawn, [Next]_vars
    PROVE  Drawn'
<1> USE NamesAssumption, ProcsAssumption
      DEF TypeInv, TypeOK, OnPath, Active, Locked, Goto, Reports,
          stores, local, ghosts, Drawn, Before
<1>1. ASSUME NEW p \in Procs, NEW c \in Commands, NEW n \in Names, Start(p, c, n)
      PROVE  Drawn'
  BY <1>1 DEF Start
<1>2. ASSUME NEW p \in Procs,
             \/ Validate(p) \/ ValidateOnly(p) \/ Lock(p) \/ Unlock(p)
             \/ UnlockFails(p) \/ GiveUp(p) \/ Abort(p) \/ Crash(p)
      PROVE  Drawn'
  BY <1>2 DEF Validate, ValidateOnly, Lock, Unlock, UnlockFails, GiveUp,
              Abort, Crash
<1>3. ASSUME NEW p \in Procs, ReadProfile(p) \/ Open(p)
      PROVE  Drawn'
  <2>1. ProfileOf(document, target[p]).ref \in committed \cup {NoReference}
    BY DEF ProfileOf, Has, NoProfile
  <2>2. seen' = [seen EXCEPT ![p] = ProfileOf(document, target[p])]
    BY <1>3 DEF ReadProfile, Open
  <2>3. \A q \in Procs : seen'[q].ref \in committed \cup {NoReference}
    BY <2>1, <2>2
  <2> QED
    BY <1>3, <2>3 DEF ReadProfile, Open
<1>4. ASSUME NEW p \in Procs, Store(p)
      PROVE  Drawn'
  <2>1. DOMAIN keyring' = DOMAIN keyring \cup {p}
    BY <1>4 DEF Store, Insert, NewReference
  <2> QED
    BY <1>4, <2>1 DEF Store
<1>5. ASSUME NEW p \in Procs, pc[p] = "persist", SaveProfile(p)
      PROVE  /\ committed' = committed \cup {p}
             /\ \A n \in DOMAIN document'.profiles :
                   document'.profiles[n].ref \in committed' \cup {NoReference}
  <2>1. /\ document'.profiles = Insert(document.profiles, target[p], NewProfile(p))
        /\ committed' = committed \cup {p}
    BY <1>5, ProfilesAfter DEF SaveProfile
  <2>2. NewProfile(p).ref \in committed'
    BY <2>1 DEF NewProfile, NewReference
  <2> HIDE DEF TypeInv, TypeOK, OnPath
  <2> QED
    BY <2>1, <2>2 DEF Insert
<1>6. ASSUME NEW p \in Procs, Persist(p) \/ PersistFails(p)
      PROVE  Drawn'
  BY <1>5, <1>6 DEF Persist, PersistFails
<1>7. ASSUME NEW p \in Procs,
             Rollback(p) \/ RollbackFails(p) \/ Cleanup(p) \/ CleanupFails(p)
      PROVE  Drawn'
  <2>1. DOMAIN keyring' \subseteq DOMAIN keyring
    BY <1>7 DEF Rollback, RollbackFails, Cleanup, CleanupFails, Remove
  <2> QED
    BY <1>7, <2>1 DEF Rollback, RollbackFails, Cleanup, CleanupFails
<1>8. ASSUME NEW p \in Procs, Fetch(p) \/ RemoveSecret(p)
      PROVE  Drawn'
  <2>1. DOMAIN keyring' \subseteq DOMAIN keyring
    BY <1>8 DEF Fetch, RemoveSecret, Remove
  <2> QED
    BY <1>8, <2>1 DEF Fetch, RemoveSecret
<1>9. ASSUME NEW p \in Procs, Erase(p) \/ EraseFails(p)
      PROVE  Drawn'
  <2>1. document'.profiles \in {document.profiles,
                                Remove(document.profiles, target[p])}
    BY <1>9, ProfilesAfter DEF Erase, EraseFails
  <2>2. \A n \in DOMAIN document'.profiles :
           n \in DOMAIN document.profiles
           /\ document'.profiles[n] = document.profiles[n]
    BY <2>1 DEF Remove
  <2> QED
    BY <1>9, <2>2 DEF Erase, EraseFails
<1>10. ASSUME NEW p \in Procs, Restore(p) \/ RestoreFails(p)
       PROVE  Drawn'
  <2>1. DOMAIN keyring' \subseteq DOMAIN keyring \cup {Reference(p)}
    BY <1>10 DEF Restore, RestoreFails, Insert
  <2>2. Reference(p) \in Names \cup {NoName} \cup committed
    BY ReferenceWasSaved
  <2> QED
    BY <1>10, <2>1, <2>2 DEF Restore, RestoreFails
<1>11. ASSUME NEW p \in Procs, Use(p) \/ OpenWithSecret(p)
       PROVE  Drawn'
  <2>1. document'.profiles = document.profiles
    BY <1>11, ProfilesAfter DEF Use, OpenWithSecret
  <2> QED
    BY <1>11, <2>1 DEF Use, OpenWithSecret
<1>12. CASE UNCHANGED vars
  BY <1>12 DEF vars
<1> QED
  BY <1>1, <1>2, <1>3, <1>4, <1>6, <1>7, <1>8, <1>9, <1>10, <1>11, <1>12
     DEF Next, Step, LockStep, LoginStep, DeleteStep, OtherStep, Failure

LEMMA OwnedStep ==
    ASSUME TypeInv, Unread, Owned, [Next]_vars
    PROVE  Owned'
<1> USE NamesAssumption, ProcsAssumption
      DEF TypeInv, TypeOK, OnPath, Unread, Before, Owned, Goto, Reports,
          stores, local, ghosts, Succeeded, Reference, CredentialReference,
          SavedReference, NoReference, NoSecret, NoName
<1>1. ASSUME NEW p \in Procs, NEW c \in Commands, NEW n \in Names, Start(p, c, n)
      PROVE  Owned'
  BY <1>1 DEF Start
<1>2. ASSUME NEW p \in Procs,
             \/ Validate(p) \/ ValidateOnly(p) \/ Lock(p) \/ Unlock(p)
             \/ UnlockFails(p) \/ GiveUp(p) \/ Abort(p) \/ Crash(p)
             \/ RollbackFails(p) \/ CleanupFails(p) \/ RestoreFails(p)
      PROVE  Owned'
  BY <1>2 DEF Validate, ValidateOnly, Lock, Unlock, UnlockFails, GiveUp,
              Abort, Crash, RollbackFails, CleanupFails, RestoreFails
<1>3. ASSUME NEW p \in Procs, ReadProfile(p) \/ Open(p)
      PROVE  Owned'
  <2>1. LET profile == ProfileOf(document, target[p])
        IN  profile # NoProfile =>
               profile.login = CredentialReference(target[p], profile)
    BY DEF ProfileOf, Has
  <2>2. /\ seen' = [seen EXCEPT ![p] = ProfileOf(document, target[p])]
        /\ secret[p] = NoSecret
        /\ outcome[p] = "none" /\ outcome'[p] # "ok"
        /\ UNCHANGED <<document, keyring, target, secret, command>>
        /\ outcome' \in {outcome, [outcome EXCEPT ![p] = "failed"]}
    BY <1>3 DEF ReadProfile, Open
  <2> HIDE DEF OnPath
  <2> QED
    BY <2>1, <2>2
<1>4. ASSUME NEW p \in Procs, Store(p)
      PROVE  Owned'
  <2>1. \A a \in DOMAIN keyring' : keyring'[a] = a
    BY <1>4 DEF Store, Insert, NewReference
  <2> QED
    BY <1>4, <2>1 DEF Store
<1>5. ASSUME NEW p \in Procs, pc[p] = "persist", SaveProfile(p)
      PROVE  \A n \in DOMAIN document'.profiles :
                document'.profiles[n].login = SavedReference(n)'
  <2>1. document'.profiles = Insert(document.profiles, target[p], NewProfile(p))
    BY <1>5, ProfilesAfter DEF SaveProfile
  <2>2. NewProfile(p).login = CredentialReference(target[p], NewProfile(p))
    BY DEF NewProfile, NewReference
  <2> HIDE DEF TypeInv, TypeOK, OnPath
  <2> QED
    BY <2>1, <2>2 DEF Insert
<1>6. ASSUME NEW p \in Procs, Persist(p) \/ PersistFails(p)
      PROVE  Owned'
  BY <1>5, <1>6 DEF Persist, PersistFails
<1>7. ASSUME NEW p \in Procs, Rollback(p) \/ Cleanup(p)
      PROVE  Owned'
  <2>1. \A a \in DOMAIN keyring' : keyring'[a] = a
    BY <1>7 DEF Rollback, Cleanup, Remove
  <2> QED
    BY <1>7, <2>1 DEF Rollback, Cleanup
<1>8. ASSUME NEW p \in Procs, Fetch(p)
      PROVE  Owned'
  BY <1>8 DEF Fetch
<1>9. ASSUME NEW p \in Procs, RemoveSecret(p)
      PROVE  Owned'
  <2>1. \A a \in DOMAIN keyring' : keyring'[a] = a
    BY <1>9 DEF RemoveSecret, Remove
  <2> QED
    BY <1>9, <2>1 DEF RemoveSecret
<1>10. ASSUME NEW p \in Procs, Erase(p) \/ EraseFails(p)
       PROVE  Owned'
  <2>1. document'.profiles \in {document.profiles,
                                Remove(document.profiles, target[p])}
    BY <1>10, ProfilesAfter DEF Erase, EraseFails
  <2>2. \A n \in DOMAIN document'.profiles :
           n \in DOMAIN document.profiles
           /\ document'.profiles[n] = document.profiles[n]
    BY <2>1 DEF Remove
  <2> QED
    BY <1>10, <2>2 DEF Erase, EraseFails
<1>11. ASSUME NEW p \in Procs, Restore(p)
       PROVE  Owned'
  <2>1. \A a \in DOMAIN keyring' : keyring'[a] = a
    BY <1>11 DEF Restore, Insert
  <2> QED
    BY <1>11, <2>1 DEF Restore
<1>12. ASSUME NEW p \in Procs, Use(p)
       PROVE  Owned'
  <2>1. document'.profiles = document.profiles
    BY <1>12, ProfilesAfter DEF Use
  <2> QED
    BY <1>12, <2>1 DEF Use
<1>13. ASSUME NEW p \in Procs, OpenWithSecret(p)
       PROVE  Owned'
  <2>1. Reference(p) # NoSecret
    BY ReferenceIsAccount, <1>13 DEF OpenWithSecret, Accounts
  <2> QED
    BY <1>13, <2>1 DEF OpenWithSecret
<1>14. CASE UNCHANGED vars
  BY <1>14 DEF vars
<1> QED
  BY <1>1, <1>2, <1>3, <1>4, <1>6, <1>7, <1>8, <1>9, <1>10, <1>11, <1>12,
     <1>13, <1>14
     DEF Next, Step, LockStep, LoginStep, DeleteStep, OtherStep, Failure

LEMMA FinalStep ==
    ASSUME TypeInv, Unread, Exclusive, Drawn, Final, [Next]_vars
    PROVE  Final'
<1> USE DEF TypeInv, TypeOK, OnPath, Unread, Before, Exclusive, Locked, Active,
            Final, RemovalIsFinal, Succeeded, Reference, CredentialReference,
            Goto, Reports, stores, local, ghosts
<1>1. ASSUME NEW p \in Procs, NEW c \in Commands, NEW n \in Names, Start(p, c, n)
      PROVE  Final'
  <2>1. outcome[p] = "none" /\ pc'[p] \notin {"erase", "restore"}
    BY <1>1, ProcsAssumption DEF Start
  <2> QED
    BY <1>1, <2>1 DEF Start
<1>2. ASSUME NEW p \in Procs,
             \/ Validate(p) \/ ValidateOnly(p) \/ Lock(p) \/ Unlock(p)
             \/ UnlockFails(p) \/ GiveUp(p) \/ Abort(p) \/ Crash(p)
      PROVE  Final'
  BY <1>2 DEF Validate, ValidateOnly, Lock, Unlock, UnlockFails, GiveUp,
              Abort, Crash
<1>3. ASSUME NEW p \in Procs,
             \/ Persist(p) \/ PersistFails(p) \/ RollbackFails(p)
             \/ CleanupFails(p) \/ RestoreFails(p)
      PROVE  Final'
  BY <1>3 DEF Persist, PersistFails, RollbackFails, CleanupFails, RestoreFails
<1>4. ASSUME NEW p \in Procs, ReadProfile(p) \/ Open(p)
      PROVE  Final'
  <2>1. /\ outcome'[p] # "ok"
        /\ pc'[p] \notin {"erase", "restore"}
    BY <1>4 DEF ReadProfile, Open
  <2> QED
    BY <1>4, <2>1 DEF ReadProfile, Open
<1>5. ASSUME NEW p \in Procs, Use(p) \/ OpenWithSecret(p)
      PROVE  Final'
  BY <1>5 DEF Use, OpenWithSecret
<1>6. ASSUME NEW p \in Procs, Store(p)
      PROVE  Final'
  <2>1. DOMAIN keyring' = DOMAIN keyring \cup {p}
    BY <1>6 DEF Store, Insert, NewReference
  <2>2. p \notin Names \cup {NoName} \cup committed
    BY <1>6, ProcsAssumption DEF Store, Drawn
  <2>3. \A q \in Procs : Reference(q) # p
    BY <2>2, ReferenceWasSaved
  <2> QED
    BY <1>6, <2>1, <2>3 DEF Store
<1>7. ASSUME NEW p \in Procs, Rollback(p) \/ Cleanup(p)
      PROVE  Final'
  <2>1. DOMAIN keyring' \subseteq DOMAIN keyring
    BY <1>7 DEF Rollback, Cleanup, Remove
  <2> QED
    BY <1>7, <2>1 DEF Rollback, Cleanup
<1>8. ASSUME NEW p \in Procs, Fetch(p)
      PROVE  Final'
  BY <1>8 DEF Fetch
<1>9. ASSUME NEW p \in Procs, RemoveSecret(p)
      PROVE  Final'
  <2>1. DOMAIN keyring' = DOMAIN keyring \ {Reference(p)}
    BY <1>9 DEF RemoveSecret, Remove
  <2>2. \A q \in Procs \ {p} : pc[q] \notin {"erase", "restore"}
    BY <1>9 DEF RemoveSecret
  <2> QED
    BY <1>9, <2>1, <2>2 DEF RemoveSecret
<1>10. ASSUME NEW p \in Procs, Erase(p) \/ EraseFails(p)
       PROVE  Final'
  <2>1. \A q \in Procs \ {p} : pc[q] \notin {"erase", "restore"}
    BY <1>10 DEF Erase, EraseFails
  <2> QED
    BY <1>10, <2>1 DEF Erase, EraseFails
<1>11. ASSUME NEW p \in Procs, Restore(p)
       PROVE  Final'
  <2>1. DOMAIN keyring' = DOMAIN keyring \cup {Reference(p)}
    BY <1>11 DEF Restore, Insert
  <2>2. \A q \in Procs \ {p} : pc[q] \notin {"erase", "restore"}
    BY <1>11 DEF Restore
  <2> QED
    BY <1>11, <2>1, <2>2 DEF Restore
<1>12. CASE UNCHANGED vars
  BY <1>12 DEF vars
<1> QED
  BY <1>1, <1>2, <1>3, <1>4, <1>5, <1>6, <1>7, <1>8, <1>9, <1>10, <1>11, <1>12
     DEF Next, Step, LockStep, LoginStep, DeleteStep, OtherStep, Failure

LEMMA UndoneStep ==
    ASSUME ~UnlockMayFail, TypeInv, Unread, Drawn, Undone, [Next]_vars
    PROVE  Undone'
<1> USE DEF TypeInv, TypeOK, OnPath, Unread, Before, Drawn, Undone,
            FailedLoginLeavesNothing, Failed, NewReference,
            Goto, Reports, stores, local, ghosts
<1>1. ASSUME NEW p \in Procs, NEW c \in Commands, NEW n \in Names, Start(p, c, n)
      PROVE  Undone'
  <2>1. outcome[p] = "none" /\ pc'[p] \notin {"persist", "rollback"}
    BY <1>1, ProcsAssumption DEF Start
  <2> QED
    BY <1>1, <2>1 DEF Start
<1>2. ASSUME NEW p \in Procs,
             \/ Validate(p) \/ ValidateOnly(p) \/ Lock(p) \/ ReadProfile(p)
             \/ Unlock(p) \/ UnlockFails(p) \/ GiveUp(p) \/ Abort(p) \/ Crash(p)
      PROVE  Undone'
  BY <1>2 DEF Validate, ValidateOnly, Lock, ReadProfile, Unlock, UnlockFails,
              GiveUp, Abort, Crash
<1>3. ASSUME NEW p \in Procs, Use(p) \/ Open(p) \/ OpenWithSecret(p)
      PROVE  Undone'
  BY <1>3 DEF Use, Open, OpenWithSecret
<1>4. ASSUME NEW p \in Procs, Store(p)
      PROVE  Undone'
  <2>1. DOMAIN keyring' = DOMAIN keyring \cup {p}
    BY <1>4 DEF Store, Insert
  <2> QED
    BY <1>4, <2>1 DEF Store
<1>5. ASSUME NEW p \in Procs, Persist(p) \/ PersistFails(p)
      PROVE  Undone'
  BY <1>5 DEF Persist, PersistFails, SaveProfile
<1>6. ASSUME NEW p \in Procs, Rollback(p)
      PROVE  Undone'
  <2>1. DOMAIN keyring' = DOMAIN keyring \ {p}
    BY <1>6 DEF Rollback, Remove
  <2> QED
    BY <1>6, <2>1 DEF Rollback
<1>7. ASSUME NEW p \in Procs, RollbackFails(p) \/ CleanupFails(p)
      PROVE  Undone'
  BY <1>7 DEF RollbackFails, CleanupFails
<1>8. ASSUME NEW p \in Procs, Cleanup(p) \/ RemoveSecret(p)
      PROVE  Undone'
  <2>1. DOMAIN keyring' \subseteq DOMAIN keyring
    BY <1>8 DEF Cleanup, RemoveSecret, Remove
  <2> QED
    BY <1>8, <2>1 DEF Cleanup, RemoveSecret
<1>9. ASSUME NEW p \in Procs,
             Fetch(p) \/ Erase(p) \/ EraseFails(p) \/ RestoreFails(p)
      PROVE  Undone'
  BY <1>9 DEF Fetch, Erase, EraseFails, RestoreFails
<1>10. ASSUME NEW p \in Procs, Restore(p)
       PROVE  Undone'
  <2>1. DOMAIN keyring' = DOMAIN keyring \cup {Reference(p)}
    BY <1>10 DEF Restore, Insert
  <2>2. Reference(p) \in Names \cup {NoName} \cup committed
    BY ReferenceWasSaved
  <2> QED
    BY <1>10, <2>1, <2>2, ProcsAssumption DEF Restore
<1>11. CASE UNCHANGED vars
  BY <1>11 DEF vars
<1> QED
  BY <1>1, <1>2, <1>3, <1>4, <1>5, <1>6, <1>7, <1>8, <1>9, <1>10, <1>11
     DEF Next, Step, LockStep, LoginStep, DeleteStep, OtherStep, Failure

-----------------------------------------------------------------------------

SafetyInv ==
    /\ TypeInv
    /\ Unread
    /\ Exclusive
    /\ Drawn
    /\ Owned
    /\ Final
    /\ ~UnlockMayFail => Undone

LEMMA SafetyInit == Init => SafetyInv
<1> SUFFICES ASSUME Init PROVE SafetyInv
  OBVIOUS
<1> USE NamesAssumption, ProcsAssumption
<1>1. TypeInv
  BY TypeInit
<1>2. Unread /\ Exclusive
  BY DEF Init, Unread, Exclusive, Before, Locked
<1>3. PICK S \in SUBSET Names :
         /\ document.profiles = [n \in S |-> [ref |-> NoReference, login |-> n]]
         /\ keyring = [n \in S |-> n]
  BY DEF Init
<1>4. Drawn
  <2>1. committed = S /\ DOMAIN keyring = S
    BY <1>3 DEF Init
  <2>2. \A p \in Procs : p \notin S /\ seen[p].ref = NoReference
    BY DEF Init, NoProfile
  <2> QED
    BY <1>3, <2>1, <2>2 DEF Drawn
<1>5. Owned
  BY <1>3 DEF Init, Owned, SavedReference, CredentialReference, Succeeded
<1>6. Final /\ Undone
  BY DEF Init, Final, RemovalIsFinal, Undone, FailedLoginLeavesNothing,
         Succeeded, Failed
<1> QED
  BY <1>1, <1>2, <1>4, <1>5, <1>6 DEF SafetyInv

LEMMA SafetyStep == SafetyInv /\ [Next]_vars => SafetyInv'
<1>1. ASSUME SafetyInv, [Next]_vars
      PROVE  TypeInv' /\ Unread' /\ Exclusive' /\ Drawn' /\ Owned' /\ Final'
  BY <1>1, TypeStep, UnreadStep, ExclusiveStep, DrawnStep, OwnedStep, FinalStep
     DEF SafetyInv
<1>2. ASSUME SafetyInv, [Next]_vars, ~UnlockMayFail
      PROVE  Undone'
  BY <1>2, UndoneStep DEF SafetyInv
<1> QED
  BY <1>1, <1>2 DEF SafetyInv

LEMMA SafetyAlways == Spec => []SafetyInv
BY SafetyInit, SafetyStep, PTL DEF Spec

(* The secret found through a saved profile is that of the login that saved *)
(* it, whatever fails and however commands overlap (Service.Login).         *)
THEOREM PairedAlways == Spec => []CredentialsPaired
<1>1. SafetyInv => CredentialsPaired
  <2> SUFFICES ASSUME SafetyInv, NEW n \in DOMAIN document.profiles,
                      SavedReference(n) \in DOMAIN keyring
               PROVE  keyring[SavedReference(n)] = document.profiles[n].login
    BY DEF CredentialsPaired
  <2> QED
    BY DEF SafetyInv, Owned
<1> QED
  BY <1>1, SafetyAlways, PTL

(* A command that connects sends a login's secret to that login's endpoint  *)
(* only, although it reads profile and secret without a lock (Service.Open).*)
THEOREM OpenedAlwaysWithOwnSecret == Spec => []OpenedWithOwnSecret
<1>1. SafetyInv => OpenedWithOwnSecret
  BY DEF SafetyInv, Owned, OpenedWithOwnSecret
<1> QED
  BY <1>1, SafetyAlways, PTL

(* The secret that a successful logout or delete removed never comes back.  *)
THEOREM RemovalIsAlwaysFinal == Spec => []RemovalIsFinal
<1>1. SafetyInv => RemovalIsFinal
  BY DEF SafetyInv, Final
<1> QED
  BY <1>1, SafetyAlways, PTL

(* While unlocking does not fail, a login that reports an error has saved   *)
(* nothing, and leaves no secret but one it could not remove.               *)
THEOREM FailedLoginAlwaysLeavesNothing ==
    ASSUME ~UnlockMayFail
    PROVE  Spec => []FailedLoginLeavesNothing
<1>1. SafetyInv => FailedLoginLeavesNothing
  BY DEF SafetyInv, Undone
<1> QED
  BY <1>1, SafetyAlways, PTL

-----------------------------------------------------------------------------
(* While unlocking does not fail                                            *)

Fixed ==
    \A p \in Procs :
        /\ pc[p] \in {"store", "persist", "rollback",
                      "fetch", "remove", "erase", "restore"}
              => ProfileOf(document, target[p]) = seen[p]
        /\ pc[p] \in {"fetch", "erase", "restore"} => seen[p] # NoProfile
        /\ pc[p] = "remove" /\ command[p] = "delete" => seen[p] # NoProfile
        /\ pc[p] = "persist" => p \in DOMAIN keyring
        /\ pc[p] = "idle" => command[p] = "none"

Unshared ==
    /\ \A n \in DOMAIN document.profiles :
          document.profiles[n].ref \in Procs \cup {NoReference}
    /\ \A p \in Procs : seen[p].ref \in (Procs \ {p}) \cup {NoReference}
    /\ \A m, n \in DOMAIN document.profiles :
          SavedReference(m) = SavedReference(n) => m = n
    /\ \A p \in Procs, n \in DOMAIN document.profiles :
          pc[p] = "cleanup" => SavedReference(n) # Reference(p)

Kept ==
    \A n \in DOMAIN document.profiles :
        SavedReference(n) \in DOMAIN keyring \/ n \in AskedToRemove

-----------------------------------------------------------------------------

LEMMA OneAtATime ==
    ASSUME Exclusive, NEW p \in Procs, NEW q \in Procs,
           pc[p] \in Locked, pc[q] \in Locked
    PROVE  p = q
BY DEF Exclusive

LEMMA SavedIsSome ==
    ASSUME TypeInv, NEW n, Has(document, n)
    PROVE  ProfileOf(document, n) # NoProfile
<1>1. document.profiles[n] \in Profiles
  BY MapsFromIs DEF TypeInv, TypeOK, Documents, Has
<1>2. NoProfile \notin Profiles
  BY NamesAssumption, ProcsAssumption
     DEF Profiles, NoProfile, Logins, NoName
<1> QED
  BY <1>1, <1>2 DEF ProfileOf

LEMMA FixedStep ==
    ASSUME ~UnlockMayFail, TypeInv, Exclusive, Fixed, [Next]_vars
    PROVE  Fixed'
<1> USE DEF TypeInv, TypeOK, OnPath, Active, Locked, Fixed, Goto, Reports,
            stores, local, ghosts
<1>1. ASSUME NEW p \in Procs, NEW c \in Commands, NEW n \in Names, Start(p, c, n)
      PROVE  Fixed'
  <2>1. pc'[p] \in {"validate", "lock", "use", "open"}
    BY <1>1, ProcsAssumption DEF Start
  <2> QED
    BY <1>1, <2>1 DEF Start
<1>2. ASSUME NEW p \in Procs,
             \/ Validate(p) \/ ValidateOnly(p) \/ Lock(p) \/ Unlock(p)
             \/ UnlockFails(p) \/ GiveUp(p) \/ Abort(p) \/ Crash(p)
      PROVE  Fixed'
  BY <1>2 DEF Validate, ValidateOnly, Lock, Unlock, UnlockFails, GiveUp,
              Abort, Crash
<1>3. ASSUME NEW p \in Procs, ReadProfile(p)
      PROVE  Fixed'
  <2>1. seen'[p] = ProfileOf(document, target[p])
    BY <1>3 DEF ReadProfile
  <2>2. command[p] = "delete" /\ pc'[p] # "unlock" => seen'[p] # NoProfile
    BY <1>3, <2>1, SavedIsSome DEF ReadProfile
  <2>3. pc'[p] = "fetch" => command[p] = "delete"
    BY <1>3 DEF ReadProfile
  <2> QED
    BY <1>3, <2>1, <2>2, <2>3 DEF ReadProfile
<1>4. ASSUME NEW p \in Procs, Open(p)
      PROVE  Fixed'
  BY <1>4 DEF Open
<1>5. ASSUME NEW p \in Procs, Store(p)
      PROVE  Fixed'
  <2>1. DOMAIN keyring' = DOMAIN keyring \cup {p}
    BY <1>5 DEF Store, Insert, NewReference
  <2> QED
    BY <1>5, <2>1 DEF Store
<1>6. ASSUME NEW p \in Procs, pc[p] \in Locked,
             /\ pc' = [pc EXCEPT ![p] = "cleanup"]
             \/ pc' = [pc EXCEPT ![p] = "unlock"],
             UNCHANGED <<command, target, seen>>
      PROVE  Fixed'
  <2>1. \A q \in Procs \ {p} : pc[q] \notin Locked
    BY <1>6, OneAtATime
  <2> QED
    BY <1>6, <2>1
<1>7. ASSUME NEW p \in Procs,
             \/ Persist(p) \/ Rollback(p) \/ RollbackFails(p)
             \/ Cleanup(p) \/ CleanupFails(p)
      PROVE  Fixed'
  BY <1>6, <1>7 DEF Persist, Rollback, RollbackFails, Cleanup, CleanupFails
<1>8. ASSUME NEW p \in Procs, PersistFails(p) \/ Fetch(p)
      PROVE  Fixed'
  <2>1. CASE PersistFails(p)
    <3>1. UNCHANGED <<document, keyring, command, target, seen>>
      BY <2>1 DEF PersistFails
    <3> QED
      BY <2>1, <3>1 DEF PersistFails
  <2>2. CASE Fetch(p)
    <3>1. pc'[p] \in {"remove", "erase"} /\ pc[p] = "fetch"
      BY <2>2 DEF Fetch
    <3>2. UNCHANGED <<document, keyring, command, target, seen>>
      BY <2>2 DEF Fetch
    <3> QED
      BY <2>2, <3>1, <3>2 DEF Fetch
  <2> QED
    BY <1>8, <2>1, <2>2
<1>9. ASSUME NEW p \in Procs, RemoveSecret(p)
      PROVE  Fixed'
  <2>1. \A q \in Procs \ {p} : pc[q] \notin Locked
    BY <1>9, OneAtATime DEF RemoveSecret
  <2> QED
    BY <1>9, <2>1 DEF RemoveSecret
<1>10. ASSUME NEW p \in Procs, EraseFails(p)
       PROVE  Fixed'
  BY <1>10 DEF EraseFails
<1>11. ASSUME NEW p \in Procs, Erase(p) \/ Restore(p) \/ RestoreFails(p)
       PROVE  Fixed'
  BY <1>6, <1>11 DEF Erase, Restore, RestoreFails
<1>12. ASSUME NEW p \in Procs, Use(p) \/ OpenWithSecret(p)
       PROVE  Fixed'
  <2>1. document'.profiles = document.profiles
    BY <1>12, ProfilesAfter DEF Use, OpenWithSecret
  <2>2. \A n : ProfileOf(document', n) = ProfileOf(document, n)
    BY <2>1 DEF ProfileOf, Has
  <2> QED
    BY <1>12, <2>2 DEF Use, OpenWithSecret
<1>13. CASE UNCHANGED vars
  BY <1>13 DEF vars
<1> QED
  BY <1>1, <1>2, <1>3, <1>4, <1>5, <1>7, <1>8, <1>9, <1>10, <1>11, <1>12, <1>13
     DEF Next, Step, LockStep, LoginStep, DeleteStep, OtherStep, Failure

(* A profile that names the account a process works on is the one that the  *)
(* process read.                                                            *)
LEMMA SameAccount ==
    ASSUME TypeInv, Unshared, NEW p \in Procs, NEW n \in DOMAIN document.profiles,
           target[p] \in Names,
           ProfileOf(document, target[p]) = seen[p],
           SavedReference(n) = Reference(p)
    PROVE  n = target[p]
<1>1. n \in Names
  BY MapsFromIs DEF TypeInv, TypeOK, Documents
<1>2. CASE Has(document, target[p])
  <2>1. SavedReference(target[p]) = Reference(p)
    BY <1>2 DEF SavedReference, Reference, ProfileOf
  <2> QED
    BY <1>2, <2>1 DEF Unshared, Has
<1>3. CASE ~Has(document, target[p])
  <2>1. Reference(p) = target[p]
    BY <1>3 DEF Reference, ProfileOf, CredentialReference, NoProfile
  <2> QED
    BY <1>1, <2>1, ProcsAssumption
       DEF Unshared, SavedReference, CredentialReference
<1> QED
  BY <1>2, <1>3

(* An account that no saved login drew belongs to no profile.               *)
LEMMA UnsavedIsUnnamed ==
    ASSUME TypeInv, Drawn, NEW p \in Procs, p \notin committed
    PROVE  \A n \in DOMAIN document.profiles : SavedReference(n) # p
<1>1. DOMAIN document.profiles \subseteq Names
  BY MapsFromIs DEF TypeInv, TypeOK, Documents
<1> QED
  BY <1>1, NamesAssumption, ProcsAssumption
     DEF Drawn, SavedReference, CredentialReference

LEMMA UnsharedStep ==
    ASSUME ~UnlockMayFail, TypeInv, Exclusive, Drawn, Undone, Fixed, Unshared,
           [Next]_vars
    PROVE  Unshared'
<1> USE DEF TypeInv, TypeOK, Active, Locked, Unshared, Goto, Reports,
            stores, local, ghosts, SavedReference, Reference, CredentialReference
<1>1. ASSUME NEW p \in Procs, NEW c \in Commands, NEW n \in Names, Start(p, c, n)
      PROVE  Unshared'
  <2>1. pc'[p] # "cleanup"
    BY <1>1, ProcsAssumption DEF Start
  <2> QED
    BY <1>1, <2>1 DEF Start
<1>2. ASSUME NEW p \in Procs,
             \/ Validate(p) \/ ValidateOnly(p) \/ Lock(p) \/ Unlock(p)
             \/ UnlockFails(p) \/ GiveUp(p) \/ Abort(p) \/ Crash(p)
      PROVE  Unshared'
  BY <1>2 DEF Validate, ValidateOnly, Lock, Unlock, UnlockFails, GiveUp,
              Abort, Crash
<1>3. ASSUME NEW p \in Procs, ReadProfile(p) \/ Open(p)
      PROVE  Unshared'
  <2>1. p \notin committed
    BY <1>3 DEF ReadProfile, Open, Drawn, Before
  <2>2. ProfileOf(document, target[p]).ref \in (Procs \ {p}) \cup {NoReference}
    BY <2>1 DEF ProfileOf, Has, NoProfile, Drawn
  <2>3. seen' = [seen EXCEPT ![p] = ProfileOf(document, target[p])]
    BY <1>3 DEF ReadProfile, Open
  <2>4. \A q \in Procs : seen'[q].ref \in (Procs \ {q}) \cup {NoReference}
    BY <2>2, <2>3
  <2>5. pc'[p] # "cleanup"
    BY <1>3 DEF ReadProfile, Open, OnPath
  <2> QED
    BY <1>3, <2>3, <2>4, <2>5 DEF ReadProfile, Open
<1>4. ASSUME NEW p \in Procs, Persist(p)
      PROVE  Unshared'
  <2>1. document'.profiles = Insert(document.profiles, target[p], NewProfile(p))
    BY <1>4, ProfilesAfter DEF Persist, SaveProfile
  <2>2. /\ CredentialReference(target[p], document'.profiles[target[p]]) = p
        /\ \A n \in DOMAIN document'.profiles \ {target[p]} :
              /\ n \in DOMAIN document.profiles
              /\ document'.profiles[n] = document.profiles[n]
    BY <1>4, <2>1, NamesAssumption, ProcsAssumption
       DEF Insert, NewProfile, NewReference, NoReference
  <2>3. \A n \in DOMAIN document.profiles : SavedReference(n) # p
    BY <1>4, UnsavedIsUnnamed DEF Persist, Undone
  <2>4. \A n \in DOMAIN document'.profiles :
           document'.profiles[n].ref \in Procs \cup {NoReference}
    BY <2>1 DEF Insert, NewProfile, NewReference
  <2>5. \A m, n \in DOMAIN document'.profiles :
           SavedReference(m)' = SavedReference(n)' => m = n
    <3> HIDE DEF CredentialReference
    <3> QED
      BY <2>2, <2>3
  <2>6. target[p] \in Names /\ ProfileOf(document, target[p]) = seen[p]
    BY <1>4 DEF Persist, Fixed, OnPath
  <2>7. Reference(p) # p
    BY <2>6, ProcsAssumption
  <2>8. \A n \in DOMAIN document'.profiles : SavedReference(n)' # Reference(p)
    <3> HIDE DEF CredentialReference
    <3> QED
      BY <2>2, <2>6, <2>7, SameAccount
  <2>9. \A q \in Procs \ {p} : pc[q] # "cleanup"
    BY <1>4, OneAtATime DEF Persist
  <2> QED
    BY <1>4, <2>4, <2>5, <2>8, <2>9 DEF Persist
<1>5. ASSUME NEW p \in Procs,
             \/ Store(p) \/ PersistFails(p) \/ Rollback(p) \/ RollbackFails(p)
             \/ Cleanup(p) \/ CleanupFails(p) \/ Fetch(p) \/ RemoveSecret(p)
             \/ Restore(p) \/ RestoreFails(p) \/ EraseFails(p)
      PROVE  Unshared'
  <2>1. UNCHANGED <<document, target, seen>> /\ \E l : l # "cleanup" /\ Goto(p, l)
    BY <1>5 DEF Store, PersistFails, Rollback, RollbackFails, Cleanup,
                CleanupFails, Fetch, RemoveSecret, Restore, RestoreFails, EraseFails
  <2> QED
    BY <2>1
<1>6. ASSUME NEW p \in Procs, Erase(p)
      PROVE  Unshared'
  <2>1. document'.profiles = Remove(document.profiles, target[p])
    BY <1>6, ProfilesAfter DEF Erase
  <2>2. \A n \in DOMAIN document'.profiles :
           n \in DOMAIN document.profiles
           /\ document'.profiles[n] = document.profiles[n]
    BY <2>1 DEF Remove
  <2> QED
    BY <1>6, <2>2 DEF Erase
<1>7. ASSUME NEW p \in Procs, Use(p) \/ OpenWithSecret(p)
      PROVE  Unshared'
  <2>1. document'.profiles = document.profiles
    BY <1>7, ProfilesAfter DEF Use, OpenWithSecret
  <2> QED
    BY <1>7, <2>1 DEF Use, OpenWithSecret
<1>8. CASE UNCHANGED vars
  BY <1>8 DEF vars
<1> QED
  BY <1>1, <1>2, <1>3, <1>4, <1>5, <1>6, <1>7, <1>8
     DEF Next, Step, LockStep, LoginStep, DeleteStep, OtherStep, Failure

(* A request to remove a profile is never withdrawn.                        *)
LEMMA AskedGrows ==
    ASSUME TypeInv, Fixed, [Next]_vars
    PROVE  AskedToRemove \subseteq AskedToRemove'
<1>1. ASSUME NEW p \in Procs, NEW c \in Commands, NEW n \in Names, Start(p, c, n)
      PROVE  AskedToRemove \subseteq AskedToRemove'
  BY <1>1 DEF Start, Fixed, AskedToRemove, TypeInv, TypeOK
<1>2. ASSUME NEW p \in Procs, Step(p) \/ Failure(p) \/ UNCHANGED vars
      PROVE  UNCHANGED <<command, target>>
  BY <1>2 DEF Step, Failure, LockStep, LoginStep, DeleteStep, OtherStep, Lock,
     ReadProfile, Unlock, Validate, Store, Persist, Rollback, Cleanup, Fetch,
     RemoveSecret, Erase, Restore, Use, Open, OpenWithSecret, ValidateOnly,
     GiveUp, Abort, PersistFails, RollbackFails, CleanupFails, EraseFails,
     RestoreFails, UnlockFails, Crash, local, vars
<1> QED
  BY <1>1, <1>2 DEF Next, AskedToRemove, vars

(* A step that leaves document, requests and the accounts of the keyring,   *)
(* or adds to them, leaves every kept profile kept.                         *)
LEMMA KeptByGrowth ==
    ASSUME Kept, AskedToRemove \subseteq AskedToRemove',
           DOMAIN keyring \subseteq DOMAIN keyring',
           \A n \in DOMAIN document'.profiles :
               n \in DOMAIN document.profiles
               /\ document'.profiles[n] = document.profiles[n]
    PROVE  Kept'
BY DEF Kept, SavedReference

LEMMA KeptStep ==
    ASSUME ~UnlockMayFail, TypeInv, Exclusive, Drawn, Undone, Fixed, Unshared,
           Kept, [Next]_vars
    PROVE  Kept'
<1> USE DEF Goto, Reports, stores, local, ghosts
<1>1. AskedToRemove \subseteq AskedToRemove'
  BY AskedGrows
<1>2. ASSUME UNCHANGED stores
      PROVE  Kept'
  BY <1>1, <1>2, KeptByGrowth
<1>3. ASSUME NEW p \in Procs, Store(p)
      PROVE  Kept'
  <2>1. DOMAIN keyring \subseteq DOMAIN keyring'
    BY <1>3 DEF Store, Insert
  <2> QED
    BY <1>1, <1>3, <2>1, KeptByGrowth DEF Store
<1>4. ASSUME NEW p \in Procs, Persist(p)
      PROVE  Kept'
  <2>1. document'.profiles = Insert(document.profiles, target[p], NewProfile(p))
    BY <1>4, ProfilesAfter DEF Persist, SaveProfile
  <2>2. SavedReference(target[p])' \in DOMAIN keyring'
    BY <1>4, <2>1, NamesAssumption, ProcsAssumption
       DEF Persist, Fixed, Insert, NewProfile, NewReference, NoReference,
           SavedReference, CredentialReference
  <2>3. UNCHANGED <<keyring, target>>
    BY <1>4 DEF Persist
  <2>4. \A n \in DOMAIN document'.profiles \ {target[p]} :
           n \in DOMAIN document.profiles
           /\ document'.profiles[n] = document.profiles[n]
    BY <2>1 DEF Insert
  <2> QED
    BY <1>1, <2>2, <2>3, <2>4 DEF Kept, SavedReference
<1>5. ASSUME NEW p \in Procs, Rollback(p)
      PROVE  Kept'
  <2>1. \A n \in DOMAIN document.profiles : SavedReference(n) # p
    BY <1>5, UnsavedIsUnnamed DEF Rollback, Undone
  <2> QED
    BY <1>1, <1>5, <2>1
       DEF Rollback, Remove, NewReference, Kept, SavedReference
<1>6. ASSUME NEW p \in Procs, Cleanup(p)
      PROVE  Kept'
  <2>1. \A n \in DOMAIN document.profiles : SavedReference(n) # Reference(p)
    BY <1>6 DEF Cleanup, Unshared
  <2> QED
    BY <1>1, <1>6, <2>1 DEF Cleanup, Remove, Kept, SavedReference
<1>7. ASSUME NEW p \in Procs, RemoveSecret(p)
      PROVE  Kept'
  <2>1. /\ pc[p] = "remove"
        /\ UNCHANGED document
        /\ DOMAIN keyring' = DOMAIN keyring \ {Reference(p)}
    BY <1>7 DEF RemoveSecret, Remove
  <2>2. target[p] \in Names /\ ProfileOf(document, target[p]) = seen[p]
    BY <2>1 DEF TypeInv, OnPath, Fixed
  <2>3. target[p] \in AskedToRemove
    BY <2>1 DEF TypeInv, OnPath, AskedToRemove
  <2>4. \A n \in DOMAIN document.profiles :
           SavedReference(n) = Reference(p) => n \in AskedToRemove
    BY <2>2, <2>3, SameAccount
  <2> QED
    BY <1>1, <2>1, <2>4 DEF Kept, SavedReference
<1>8. ASSUME NEW p \in Procs, Erase(p)
      PROVE  Kept'
  <2>1. document'.profiles = Remove(document.profiles, target[p])
    BY <1>8, ProfilesAfter DEF Erase
  <2>2. \A n \in DOMAIN document'.profiles :
           n \in DOMAIN document.profiles
           /\ document'.profiles[n] = document.profiles[n]
    BY <2>1 DEF Remove
  <2> QED
    BY <1>1, <1>8, <2>2, KeptByGrowth DEF Erase
<1>9. ASSUME NEW p \in Procs, Restore(p)
      PROVE  Kept'
  <2>1. DOMAIN keyring \subseteq DOMAIN keyring'
    BY <1>9 DEF Restore, Insert
  <2> QED
    BY <1>1, <1>9, <2>1, KeptByGrowth DEF Restore
<1>10. ASSUME NEW p \in Procs, Use(p)
       PROVE  Kept'
  <2>1. document'.profiles = document.profiles
    BY <1>10, ProfilesAfter DEF Use
  <2> QED
    BY <1>1, <1>10, <2>1, KeptByGrowth DEF Use
<1>11. ASSUME NEW p \in Procs,
              \/ \E c \in Commands, n \in Names : Start(p, c, n)
              \/ LockStep(p) \/ Validate(p) \/ Fetch(p)
              \/ Open(p) \/ OpenWithSecret(p) \/ Failure(p)
       PROVE  UNCHANGED stores
  BY <1>11 DEF Start, LockStep, Lock, ReadProfile, Unlock, Validate, Fetch,
     Open, OpenWithSecret, Failure, ValidateOnly, GiveUp, Abort, PersistFails,
     RollbackFails, CleanupFails, EraseFails, RestoreFails, UnlockFails, Crash
<1>12. CASE UNCHANGED vars
  BY <1>2, <1>12 DEF vars
<1> QED
  BY <1>2, <1>3, <1>4, <1>5, <1>6, <1>7, <1>8, <1>9, <1>10, <1>11, <1>12
     DEF Next, Step, LoginStep, DeleteStep, OtherStep

-----------------------------------------------------------------------------

AccountsInv ==
    /\ SafetyInv
    /\ Fixed
    /\ Unshared
    /\ Kept

LEMMA AccountsInit == Init => AccountsInv
<1> SUFFICES ASSUME Init PROVE AccountsInv
  OBVIOUS
<1>1. PICK S \in SUBSET Names :
         /\ document.profiles = [n \in S |-> [ref |-> NoReference, login |-> n]]
         /\ keyring = [n \in S |-> n]
  BY DEF Init
<1>2. \A n \in S : SavedReference(n) = n
  BY <1>1 DEF SavedReference, CredentialReference
<1>3. Fixed
  BY DEF Init, Fixed
<1>4. Unshared
  BY <1>1, <1>2 DEF Init, Unshared, NoProfile
<1>5. Kept
  BY <1>1, <1>2 DEF Kept
<1> QED
  BY <1>3, <1>4, <1>5, SafetyInit DEF AccountsInv

LEMMA AccountsStep ==
    ASSUME ~UnlockMayFail
    PROVE  AccountsInv /\ [Next]_vars => AccountsInv'
BY SafetyStep, FixedStep, UnsharedStep, KeptStep DEF AccountsInv, SafetyInv

LEMMA AccountsAlways ==
    ASSUME ~UnlockMayFail
    PROVE  Spec => []AccountsInv
<1>1. AccountsInv /\ [Next]_vars => AccountsInv'
  BY AccountsStep
<1> QED
  BY <1>1, AccountsInit, PTL DEF Spec

-----------------------------------------------------------------------------

AccountedFor(a) ==
    \/ \E n \in DOMAIN document.profiles : SavedReference(n) = a
    \/ a \in abandoned
    \/ \E p \in Procs : a \in Pending(p)

LEMMA OrphansAre ==
    OrphansAccountedFor <=> \A a \in DOMAIN keyring : AccountedFor(a)
BY DEF OrphansAccountedFor, AccountedFor, Referenced

(* A step of one process leaves what the others have pending.               *)
LEMMA PendingElsewhere ==
    ASSUME TypeInv, NEW p \in Procs, NEW l, NEW n, NEW profile,
           pc' = [pc EXCEPT ![p] = l],
           target' \in {target, [target EXCEPT ![p] = n]},
           seen' \in {seen, [seen EXCEPT ![p] = profile]}
    PROVE  \A q \in Procs \ {p} : Pending(q)' = Pending(q)
BY DEF TypeInv, TypeOK, Pending, Reference, NewReference

(* A step that adds no account, takes no profile away and leaves nothing    *)
(* pending behind keeps every account accounted for.                        *)
LEMMA AccountedByGrowth ==
    ASSUME TypeInv, NEW a, AccountedFor(a), NEW p \in Procs,
           \A q \in Procs \ {p} : Pending(q)' = Pending(q),
           a \in Pending(p) => a \in abandoned' \cup Pending(p)',
           abandoned \subseteq abandoned',
           UNCHANGED document
    PROVE  AccountedFor(a)'
BY DEF AccountedFor, SavedReference

LEMMA OrphansStep ==
    ASSUME ~UnlockMayFail, AccountsInv, OrphansAccountedFor, [Next]_vars
    PROVE  OrphansAccountedFor'
<1> SUFFICES ASSUME NEW a \in DOMAIN keyring'
             PROVE  AccountedFor(a)'
  BY DEF OrphansAccountedFor, AccountedFor, Referenced
<1>1. a \in DOMAIN keyring => AccountedFor(a)
  BY OrphansAre
<1>2. TypeInv
  BY DEF AccountsInv, SafetyInv
<1> USE DEF Goto, Reports, stores, local, ghosts
<1>3. ASSUME NEW p \in Procs, NEW c \in Commands, NEW n \in Names, Start(p, c, n)
      PROVE  AccountedFor(a)'
  <2>1. Pending(p) = {} /\ \A q \in Procs \ {p} : Pending(q)' = Pending(q)
    BY <1>2, <1>3, PendingElsewhere DEF Start, Pending
  <2> QED
    BY <1>1, <1>2, <1>3, <2>1, AccountedByGrowth DEF Start
<1>4. ASSUME NEW p \in Procs,
             \/ Validate(p) \/ ValidateOnly(p) \/ Lock(p) \/ Unlock(p)
             \/ UnlockFails(p) \/ GiveUp(p) \/ Abort(p)
             \/ Fetch(p) \/ OpenWithSecret(p) \/ EraseFails(p) \/ RestoreFails(p)
      PROVE  AccountedFor(a)'
  <2>1. /\ Pending(p) = {}
        /\ UNCHANGED <<stores, abandoned, target, seen>>
        /\ \E l : Goto(p, l)
    BY <1>4 DEF Validate, ValidateOnly, Lock, Unlock, UnlockFails, GiveUp,
                Abort, Fetch, OpenWithSecret, EraseFails, RestoreFails, Pending
  <2>2. \A q \in Procs \ {p} : Pending(q)' = Pending(q)
    BY <1>2, <2>1, PendingElsewhere
  <2> QED
    BY <1>1, <1>2, <2>1, <2>2, AccountedByGrowth
<1>5. ASSUME NEW p \in Procs, ReadProfile(p) \/ Open(p)
      PROVE  AccountedFor(a)'
  <2>1. /\ Pending(p) = {}
        /\ UNCHANGED <<stores, abandoned, target>>
        /\ \E l : Goto(p, l)
        /\ \E profile : seen' = [seen EXCEPT ![p] = profile]
    BY <1>5 DEF ReadProfile, Open, Pending
  <2>2. \A q \in Procs \ {p} : Pending(q)' = Pending(q)
    BY <1>2, <2>1, PendingElsewhere
  <2> QED
    BY <1>1, <1>2, <2>1, <2>2, AccountedByGrowth
<1>6. ASSUME NEW p \in Procs, Store(p)
      PROVE  AccountedFor(a)'
  <2>1. /\ DOMAIN keyring' = DOMAIN keyring \cup {p}
        /\ Pending(p) = {} /\ Pending(p)' = {p}
    BY <1>2, <1>6 DEF Store, Insert, NewReference, Pending, TypeInv, TypeOK
  <2>2. \A q \in Procs \ {p} : Pending(q)' = Pending(q)
    BY <1>2, <1>6, PendingElsewhere DEF Store
  <2>3. CASE a = p
    BY <2>1, <2>3 DEF AccountedFor
  <2> QED
    BY <1>1, <1>2, <1>6, <2>1, <2>2, <2>3, AccountedByGrowth DEF Store
<1>7. ASSUME NEW p \in Procs, Persist(p)
      PROVE  AccountedFor(a)'
  <2>1. document'.profiles = Insert(document.profiles, target[p], NewProfile(p))
    BY <1>2, <1>7, ProfilesAfter DEF Persist, SaveProfile
  <2>2. /\ Pending(p) = {p} /\ Pending(p)' = {Reference(p)}
        /\ UNCHANGED <<keyring, abandoned, target>>
    BY <1>2, <1>7 DEF Persist, Pending, NewReference, Reference, TypeInv, TypeOK
  <2>3. \A q \in Procs \ {p} : Pending(q)' = Pending(q)
    BY <1>2, <1>7, PendingElsewhere DEF Persist
  <2>4. CASE a = p
    <3>1. SavedReference(target[p])' = p /\ target[p] \in DOMAIN document'.profiles
      BY <2>1, <2>2, NamesAssumption, ProcsAssumption
         DEF Insert, SavedReference, CredentialReference, NewProfile,
             NewReference, NoReference
    <3> QED
      BY <2>2, <2>4, <3>1 DEF AccountedFor
  <2>5. CASE a = Reference(p)
    BY <2>2, <2>5 DEF AccountedFor
  <2>6. ASSUME NEW n \in DOMAIN document.profiles, SavedReference(n) = a,
               a # Reference(p)
        PROVE  n \in DOMAIN document'.profiles /\ SavedReference(n)' = a
    <3>1. ProfileOf(document, target[p]) = seen[p]
      BY <1>7 DEF Persist, AccountsInv, Fixed
    <3>2. n # target[p]
      BY <2>6, <3>1 DEF ProfileOf, Has, SavedReference, Reference
    <3> QED
      BY <2>1, <2>6, <3>2 DEF Insert, SavedReference
  <2> QED
    BY <1>1, <2>2, <2>3, <2>4, <2>5, <2>6 DEF AccountedFor
<1>8. ASSUME NEW p \in Procs, PersistFails(p)
      PROVE  AccountedFor(a)'
  <2>1. Pending(p)' = Pending(p) /\ UNCHANGED <<stores, abandoned>>
    BY <1>2, <1>8 DEF PersistFails, Pending, NewReference, TypeInv, TypeOK
  <2>2. \A q \in Procs \ {p} : Pending(q)' = Pending(q)
    BY <1>2, <1>8, PendingElsewhere DEF PersistFails
  <2> QED
    BY <1>1, <1>2, <2>1, <2>2, AccountedByGrowth
<1>9. ASSUME NEW p \in Procs,
             Rollback(p) \/ RollbackFails(p) \/ Cleanup(p) \/ CleanupFails(p)
      PROVE  AccountedFor(a)'
  <2>1. pc[p] = "cleanup" => Reference(p) # NewReference(p)
    BY <1>2, ProcsAssumption
       DEF AccountsInv, Unshared, Reference, NewReference, CredentialReference,
           TypeInv, OnPath
  <2>2. \/ Pending(p) \cap DOMAIN keyring' = {}
        \/ Pending(p) \subseteq abandoned'
    BY <1>9, <2>1
       DEF Rollback, RollbackFails, Cleanup, CleanupFails, Pending, Remove
  <2>3. /\ UNCHANGED <<document, target, seen>>
        /\ DOMAIN keyring' \subseteq DOMAIN keyring
        /\ abandoned \subseteq abandoned'
        /\ \E l : Goto(p, l)
    BY <1>9 DEF Rollback, RollbackFails, Cleanup, CleanupFails, Remove
  <2>4. \A q \in Procs \ {p} : Pending(q)' = Pending(q)
    BY <1>2, <2>3, PendingElsewhere
  <2> QED
    BY <1>1, <1>2, <2>2, <2>3, <2>4, AccountedByGrowth
<1>10. ASSUME NEW p \in Procs, RemoveSecret(p)
       PROVE  AccountedFor(a)'
  <2>1. /\ Pending(p) = {}
        /\ UNCHANGED <<document, abandoned, target, seen>>
        /\ DOMAIN keyring' \subseteq DOMAIN keyring
        /\ \E l : Goto(p, l)
    BY <1>10 DEF RemoveSecret, Remove, Pending
  <2>2. \A q \in Procs \ {p} : Pending(q)' = Pending(q)
    BY <1>2, <2>1, PendingElsewhere
  <2> QED
    BY <1>1, <1>2, <2>1, <2>2, AccountedByGrowth
<1>11. ASSUME NEW p \in Procs, Erase(p)
       PROVE  AccountedFor(a)'
  <2>1. document'.profiles = Remove(document.profiles, target[p])
    BY <1>2, <1>11, ProfilesAfter DEF Erase
  <2>2. Pending(p) = {} /\ UNCHANGED <<keyring, abandoned>>
    BY <1>11 DEF Erase, Pending
  <2>3. \A q \in Procs \ {p} : Pending(q)' = Pending(q)
    BY <1>2, <1>11, PendingElsewhere DEF Erase
  <2>4. a # Reference(p)
    BY <1>11, <2>2 DEF Erase, AccountsInv, SafetyInv, Final
  <2>5. ASSUME NEW n \in DOMAIN document.profiles, SavedReference(n) = a
        PROVE  n \in DOMAIN document'.profiles /\ SavedReference(n)' = a
    <3>1. ProfileOf(document, target[p]) = seen[p]
      BY <1>11 DEF Erase, AccountsInv, Fixed
    <3>2. n # target[p]
      BY <2>4, <2>5, <3>1 DEF ProfileOf, Has, SavedReference, Reference
    <3> QED
      BY <2>1, <2>5, <3>2 DEF Remove, SavedReference
  <2> QED
    BY <1>1, <2>2, <2>3, <2>5 DEF AccountedFor
<1>12. ASSUME NEW p \in Procs, Restore(p)
       PROVE  AccountedFor(a)'
  <2>1. /\ Pending(p) = {}
        /\ UNCHANGED <<document, abandoned>>
        /\ DOMAIN keyring' = DOMAIN keyring \cup {Reference(p)}
    BY <1>12 DEF Restore, Insert, Pending
  <2>2. \A q \in Procs \ {p} : Pending(q)' = Pending(q)
    BY <1>2, <1>12, PendingElsewhere DEF Restore
  <2>3. target[p] \in DOMAIN document.profiles /\ SavedReference(target[p]) = Reference(p)
    BY <1>12 DEF Restore, AccountsInv, Fixed, ProfileOf, Has, SavedReference, Reference
  <2>4. CASE a = Reference(p)
    BY <2>1, <2>3, <2>4 DEF AccountedFor, SavedReference
  <2> QED
    BY <1>1, <1>2, <2>1, <2>2, <2>4, AccountedByGrowth
<1>13. ASSUME NEW p \in Procs, Use(p)
       PROVE  AccountedFor(a)'
  <2>1. document'.profiles = document.profiles
    BY <1>2, <1>13, ProfilesAfter DEF Use
  <2>2. Pending(p) = {} /\ UNCHANGED <<keyring, abandoned>>
    BY <1>13 DEF Use, Pending
  <2>3. \A q \in Procs \ {p} : Pending(q)' = Pending(q)
    BY <1>2, <1>13, PendingElsewhere DEF Use
  <2> QED
    BY <1>1, <2>1, <2>2, <2>3 DEF AccountedFor, SavedReference
<1>14. ASSUME NEW p \in Procs, Crash(p)
       PROVE  AccountedFor(a)'
  <2>1. \A q \in Procs \ {p} : Pending(q)' = Pending(q)
    BY <1>2, <1>14, PendingElsewhere DEF Crash
  <2> QED
    BY <1>1, <1>2, <1>14, <2>1, AccountedByGrowth DEF Crash
<1>15. CASE UNCHANGED vars
  BY <1>1, <1>15 DEF vars, AccountedFor, SavedReference, Pending, Reference,
                     NewReference
<1> QED
  BY <1>3, <1>4, <1>5, <1>6, <1>7, <1>8, <1>9, <1>10, <1>11, <1>12, <1>13,
     <1>14, <1>15
     DEF Next, Step, LockStep, LoginStep, DeleteStep, OtherStep, Failure

(* While unlocking does not fail, a secret that no profile refers to is one *)
(* a running login is about to refer to or to remove, or one whose removal  *)
(* failed or was cut off.                                                   *)
THEOREM OrphansAlwaysAccountedFor ==
    ASSUME ~UnlockMayFail
    PROVE  Spec => []OrphansAccountedFor
<1>1. Init => OrphansAccountedFor
  <2> SUFFICES ASSUME Init PROVE OrphansAccountedFor
    OBVIOUS
  <2>1. PICK S \in SUBSET Names :
           /\ document.profiles = [n \in S |-> [ref |-> NoReference, login |-> n]]
           /\ keyring = [n \in S |-> n]
    BY DEF Init
  <2>2. \A a \in DOMAIN keyring : AccountedFor(a)
    BY <2>1 DEF AccountedFor, SavedReference, CredentialReference
  <2> QED
    BY <2>2, OrphansAre
<1>2. AccountsInv /\ OrphansAccountedFor /\ [Next]_vars => OrphansAccountedFor'
  BY OrphansStep
<1> QED
  BY <1>1, <1>2, AccountsAlways, PTL DEF Spec

-----------------------------------------------------------------------------

(* A command that found no secret had found a profile.                      *)
Explained ==
    \A p \in Procs :
        outcome[p] = "missing" =>
            /\ seen[p] # NoProfile
            /\ \/ ProfileOf(document, target[p]) # seen[p]
               \/ target[p] \in AskedToRemove

LEMMA ExplainedStep ==
    ASSUME ~UnlockMayFail, AccountsInv, Explained, [Next]_vars
    PROVE  Explained'
<1> USE DEF Goto, Reports, stores, local, ghosts, AccountsInv, SafetyInv, TypeInv
<1>1. AskedToRemove \subseteq AskedToRemove'
  BY AskedGrows
<1> SUFFICES ASSUME NEW q \in Procs, outcome'[q] = "missing"
             PROVE  /\ seen'[q] # NoProfile
                    /\ \/ ProfileOf(document', target'[q]) # seen'[q]
                       \/ target'[q] \in AskedToRemove'
  BY DEF Explained
<1>2. ASSUME UNCHANGED <<target[q], seen[q]>>, outcome[q] = "missing",
             \/ ProfileOf(document', target[q]) = ProfileOf(document, target[q])
             \/ ProfileOf(document', target[q]) # seen[q]
      PROVE  /\ seen'[q] # NoProfile
             /\ \/ ProfileOf(document', target'[q]) # seen'[q]
                \/ target'[q] \in AskedToRemove'
  BY <1>1, <1>2 DEF Explained
<1>3. ASSUME NEW p \in Procs, OpenWithSecret(p), p = q
      PROVE  /\ seen'[q] # NoProfile
             /\ \/ ProfileOf(document', target'[q]) # seen'[q]
                \/ target'[q] \in AskedToRemove'
  <2>1. /\ UNCHANGED <<document, target, seen>>
        /\ seen[p] # NoProfile
        /\ Reference(p) \notin DOMAIN keyring
    BY <1>3 DEF OpenWithSecret, Unread, TypeOK
  <2>2. CASE ProfileOf(document, target[p]) = seen[p]
    <3>1. target[p] \in DOMAIN document.profiles /\ SavedReference(target[p]) = Reference(p)
      BY <2>1, <2>2 DEF ProfileOf, Has, SavedReference, Reference
    <3> QED
      BY <1>1, <1>3, <2>1, <3>1 DEF Kept
  <2> QED
    BY <1>3, <2>1, <2>2
<1>4. ASSUME NEW p \in Procs, Persist(p)
      PROVE  /\ UNCHANGED <<target[q], seen[q]>> /\ outcome[q] = "missing"
             /\ \/ ProfileOf(document', target[q]) = ProfileOf(document, target[q])
                \/ ProfileOf(document', target[q]) # seen[q]
  <2>1. document'.profiles = Insert(document.profiles, target[p], NewProfile(p))
    BY <1>4, ProfilesAfter DEF Persist, SaveProfile
  <2>2. NewProfile(p) # seen[q]
    BY <1>4, ProcsAssumption
       DEF Persist, Undone, Drawn, NewProfile, NewReference, NoReference
  <2>3. target[q] = target[p] => ProfileOf(document', target[q]) = NewProfile(p)
    BY <2>1 DEF ProfileOf, Has, Insert
  <2>4. target[q] # target[p] =>
           ProfileOf(document', target[q]) = ProfileOf(document, target[q])
    BY <2>1 DEF ProfileOf, Has, Insert
  <2> QED
    BY <1>4, <2>2, <2>3, <2>4 DEF Persist
<1>5. ASSUME NEW p \in Procs, Erase(p)
      PROVE  /\ UNCHANGED <<target[q], seen[q]>> /\ outcome[q] = "missing"
             /\ \/ ProfileOf(document', target[q]) = ProfileOf(document, target[q])
                \/ ProfileOf(document', target[q]) # seen[q]
  <2>1. document'.profiles = Remove(document.profiles, target[p])
    BY <1>5, ProfilesAfter DEF Erase
  <2>2. UNCHANGED <<target[q], seen[q]>> /\ outcome[q] = "missing"
    BY <1>5 DEF Erase, TypeOK
  <2>3. target[q] = target[p] => ProfileOf(document', target[q]) = NoProfile
    BY <2>1 DEF ProfileOf, Has, Remove
  <2>4. target[q] # target[p] =>
           ProfileOf(document', target[q]) = ProfileOf(document, target[q])
    BY <2>1 DEF ProfileOf, Has, Remove
  <2> QED
    BY <2>2, <2>3, <2>4 DEF Explained
<1>6. ASSUME NEW p \in Procs, Use(p)
      PROVE  /\ UNCHANGED <<target[q], seen[q]>> /\ outcome[q] = "missing"
             /\ ProfileOf(document', target[q]) = ProfileOf(document, target[q])
  <2>1. document'.profiles = document.profiles
    BY <1>6, ProfilesAfter DEF Use
  <2> QED
    BY <1>6, <2>1 DEF Use, TypeOK, ProfileOf, Has
<1>7. ASSUME NEW p \in Procs, NEW c \in Commands, NEW n \in Names, Start(p, c, n)
      PROVE  UNCHANGED <<document, target[q], seen[q], outcome>>
  BY <1>7 DEF Start, Unread, Before, TypeOK
<1>8. ASSUME NEW p \in Procs, ReadProfile(p) \/ Open(p)
      PROVE  UNCHANGED <<document, target[q], seen[q], outcome[q]>>
  BY <1>8 DEF ReadProfile, Open, Unread, Before, TypeOK
<1>9. ASSUME NEW p \in Procs,
             \/ Lock(p) \/ Unlock(p) \/ Validate(p) \/ Store(p) \/ Rollback(p)
             \/ Cleanup(p) \/ Fetch(p) \/ RemoveSecret(p) \/ Restore(p)
             \/ OpenWithSecret(p) /\ p # q
             \/ Failure(p)
      PROVE  UNCHANGED <<document, target[q], seen[q], outcome[q]>>
  BY <1>9 DEF Lock, Unlock, Validate, Store, Rollback, Cleanup, Fetch,
     RemoveSecret, Restore, OpenWithSecret, Failure, ValidateOnly, GiveUp,
     Abort, PersistFails, RollbackFails, CleanupFails, EraseFails,
     RestoreFails, UnlockFails, Crash, TypeOK
<1>10. CASE UNCHANGED vars
  BY <1>2, <1>10 DEF vars
<1> QED
  BY <1>2, <1>3, <1>4, <1>5, <1>6, <1>7, <1>8, <1>9, <1>10
     DEF Next, Step, LockStep, LoginStep, DeleteStep, OtherStep

(* While unlocking does not fail, a command that connects finds no secret   *)
(* only where it was overtaken, or where somebody asked to remove it.       *)
THEOREM MissingSecretAlwaysExplained ==
    ASSUME ~UnlockMayFail
    PROVE  Spec => []MissingSecretExplained
<1>1. Init => Explained
  BY DEF Init, Explained
<1>2. AccountsInv /\ Explained /\ [Next]_vars => Explained'
  BY ExplainedStep
<1>3. Explained => MissingSecretExplained
  BY DEF Explained, MissingSecretExplained, AskedToRemove
<1> QED
  BY <1>1, <1>2, <1>3, AccountsAlways, PTL DEF Spec

-----------------------------------------------------------------------------
(* The two stores as one: what a step of CredentialLifecycle is for         *)
(* SavedLogins.                                                             *)

LEMMA SignedInIs ==
    ASSUME Owned
    PROVE  SignedIn = {n \in DOMAIN document.profiles :
                          SavedReference(n) \in DOMAIN keyring}
BY DEF Owned, SignedIn, SavedReference

(* While one process removes a secret, no other does.                       *)
LEMMA RemovingIs ==
    ASSUME TypeInv, Exclusive, NEW p \in Procs, pc[p] \in Locked
    PROVE  Removing = IF pc[p] \in {"erase", "restore"} /\ secret[p] # NoSecret
                      THEN {target[p]} ELSE {}
<1>1. \A q \in Procs \ {p} : pc[q] \notin {"erase", "restore"}
  BY OneAtATime DEF Locked
<1>2. pc[p] \in {"erase", "restore"} => target[p] \in Names
  BY DEF TypeInv, OnPath
<1> QED
  BY <1>1, <1>2 DEF Removing

LEMMA RemovingIsNext ==
    ASSUME TypeInv', Exclusive', NEW p \in Procs, pc'[p] \in Locked
    PROVE  Removing' = IF pc'[p] \in {"erase", "restore"} /\ secret'[p] # NoSecret
                       THEN {target'[p]} ELSE {}
<1>1. \A q \in Procs \ {p} : pc'[q] \notin {"erase", "restore"}
  BY DEF Exclusive, Locked
<1>2. pc'[p] \in {"erase", "restore"} => target'[p] \in Names
  BY DEF TypeInv, OnPath
<1> QED
  BY <1>1, <1>2 DEF Removing

Settled == {"idle", "validate", "lock", "read", "store", "persist", "cleanup",
            "rollback", "fetch", "remove", "unlock", "use", "open", "secret",
            "done", "dead"}

(* A step of a process that removes nothing leaves Removing as it was.      *)
LEMMA RemovingElsewhere ==
    ASSUME TypeInv, NEW p \in Procs, NEW l \in Settled, NEW n, NEW g,
           pc[p] \in Settled,
           pc' = [pc EXCEPT ![p] = l],
           target' \in {target, [target EXCEPT ![p] = n]},
           secret' \in {secret, [secret EXCEPT ![p] = g]}
    PROVE  UNCHANGED Removing
<1>1. /\ pc'[p] \notin {"erase", "restore"} /\ pc[p] \notin {"erase", "restore"}
      /\ \A q \in Procs \ {p} :
            pc'[q] = pc[q] /\ target'[q] = target[q] /\ secret'[q] = secret[q]
  BY DEF TypeInv, TypeOK, Settled
<1> QED
  BY <1>1 DEF Removing

LEMMA PromiseInit == Init => Promise!Init
<1> SUFFICES ASSUME Init PROVE Promise!Init
  OBVIOUS
<1>1. PICK S \in SUBSET Names :
         /\ document.profiles = [n \in S |-> [ref |-> NoReference, login |-> n]]
         /\ keyring = [n \in S |-> n]
  BY DEF Init
<1>2. SavedLoginsOf(document) = [n \in S |-> n]
  BY <1>1 DEF SavedLoginsOf
<1>3. SignedIn = S
  BY <1>1 DEF SignedIn, SavedReference, CredentialReference
<1>4. Removing = {} /\ AskedToRemove = {} /\ committed = S
  BY <1>1 DEF Init, Removing, AskedToRemove
<1>5. [n \in S |-> n] \in MapsFrom(Names, Logins)
  BY DEF MapsFrom, Logins
<1> QED
  BY <1>2, <1>3, <1>4, <1>5 DEF Promise!Init, Promise!MapsFrom, MapsFrom

LEMMA PromiseStutter ==
    ASSUME Owned, Owned', UNCHANGED <<document, committed, Removing, AskedToRemove>>,
           \A n \in DOMAIN document.profiles :
               SavedReference(n) \in DOMAIN keyring'
                   <=> SavedReference(n) \in DOMAIN keyring
    PROVE  UNCHANGED Promise!vars
<1>1. SignedIn' = {n \in DOMAIN document'.profiles :
                      SavedReference(n)' \in DOMAIN keyring'}
  BY DEF Owned, SignedIn, SavedReference
<1>2. UNCHANGED SignedIn
  BY <1>1, SignedInIs DEF SavedReference
<1> QED
  BY <1>2 DEF Promise!vars, SavedLoginsOf

(* The accounts of other profiles are not the one a process works on.       *)
LEMMA OthersKeepTheirSecrets ==
    ASSUME AccountsInv, Owned', NEW p \in Procs,
           pc[p] \in {"remove", "restore"},
           UNCHANGED document,
           DOMAIN keyring \ {Reference(p)} = DOMAIN keyring' \ {Reference(p)}
    PROVE  /\ SignedIn \ {target[p]} = SignedIn' \ {target[p]}
           /\ \/ ~Has(document, target[p])
              \/ /\ target[p] \in SignedIn  <=> Reference(p) \in DOMAIN keyring
                 /\ target[p] \in SignedIn' <=> Reference(p) \in DOMAIN keyring'
<1>1. target[p] \in Names /\ ProfileOf(document, target[p]) = seen[p]
  BY DEF AccountsInv, SafetyInv, TypeInv, OnPath, Fixed
<1>2. \A n \in DOMAIN document.profiles :
         SavedReference(n) = Reference(p) => n = target[p]
  BY <1>1, SameAccount DEF AccountsInv, SafetyInv
<1>3. Has(document, target[p]) => SavedReference(target[p]) = Reference(p)
  BY <1>1 DEF ProfileOf, SavedReference, Reference
<1>4. SignedIn = {n \in DOMAIN document.profiles :
                     SavedReference(n) \in DOMAIN keyring}
  BY SignedInIs DEF AccountsInv, SafetyInv
<1>5. SignedIn' = {n \in DOMAIN document.profiles :
                      SavedReference(n) \in DOMAIN keyring'}
  BY DEF Owned, SignedIn, SavedReference
<1> QED
  BY <1>2, <1>3, <1>4, <1>5 DEF Has

LEMMA PromiseStep ==
    ASSUME ~UnlockMayFail, AccountsInv, [Next]_vars
    PROVE  [Promise!Next]_Promise!vars
<1>1. /\ TypeInv /\ Unread /\ Exclusive /\ Drawn /\ Owned /\ Final /\ Undone
      /\ Fixed /\ Unshared
      /\ TypeInv' /\ Owned' /\ Exclusive'
  BY AccountsStep DEF AccountsInv, SafetyInv
<1> USE DEF Goto, Reports, stores, local, ghosts
<1>2. ASSUME NEW p \in Procs, NEW c \in Commands, NEW n \in Names, Start(p, c, n)
      PROVE  [Promise!Next]_Promise!vars
  <2>1. UNCHANGED <<document, keyring, committed, Removing>>
    <3>1. PICK l \in Settled : Goto(p, l)
      BY <1>2, ProcsAssumption DEF Start, Settled
    <3> QED
      BY <1>1, <1>2, <3>1, RemovingElsewhere DEF Start, Settled
  <2>2. AskedToRemove' = IF c \in {"logout", "delete"}
                         THEN AskedToRemove \cup {n} ELSE AskedToRemove
    BY <1>1, <1>2 DEF Start, Fixed, AskedToRemove, TypeInv, TypeOK
  <2>3. UNCHANGED <<SavedLoginsOf(document), SignedIn>>
    BY <2>1 DEF SavedLoginsOf, SignedIn, SavedReference
  <2>4. CASE c \in {"logout", "delete"}
    BY <2>1, <2>2, <2>3, <2>4 DEF Promise!Next, Promise!AskRemoval
  <2> QED
    BY <2>1, <2>2, <2>3, <2>4 DEF Promise!vars
<1>3. ASSUME NEW p \in Procs, Step(p) \/ Failure(p)
      PROVE  UNCHANGED AskedToRemove
  BY <1>3 DEF Step, Failure, LockStep, LoginStep, DeleteStep, OtherStep, Lock,
     ReadProfile, Unlock, Validate, Store, Persist, Rollback, Cleanup, Fetch,
     RemoveSecret, Erase, Restore, Use, Open, OpenWithSecret, ValidateOnly,
     GiveUp, Abort, PersistFails, RollbackFails, CleanupFails, EraseFails,
     RestoreFails, UnlockFails, Crash, AskedToRemove
<1>4. ASSUME NEW p \in Procs,
             \/ LockStep(p) \/ Validate(p) \/ Open(p) \/ OpenWithSecret(p)
             \/ ValidateOnly(p) \/ GiveUp(p) \/ Abort(p) \/ UnlockFails(p)
             \/ PersistFails(p) \/ RollbackFails(p) \/ CleanupFails(p)
      PROVE  UNCHANGED <<document, keyring, committed, Removing>>
  <2>1. PICK l \in Settled : Goto(p, l)
    BY <1>1, <1>4
       DEF LockStep, Lock, ReadProfile, Unlock, Validate, Open, OpenWithSecret,
           ValidateOnly, GiveUp, Abort, UnlockFails, PersistFails,
           RollbackFails, CleanupFails, Settled, TypeInv, OnPath
  <2>2. pc[p] \in Settled
    BY <1>4
       DEF LockStep, Lock, ReadProfile, Unlock, Validate, Open, OpenWithSecret,
           ValidateOnly, GiveUp, Abort, UnlockFails, PersistFails,
           RollbackFails, CleanupFails, Settled
  <2>3. /\ UNCHANGED <<document, keyring, committed, target>>
        /\ \E g : secret' \in {secret, [secret EXCEPT ![p] = g]}
    BY <1>4
       DEF LockStep, Lock, ReadProfile, Unlock, Validate, Open, OpenWithSecret,
           ValidateOnly, GiveUp, Abort, UnlockFails, PersistFails,
           RollbackFails, CleanupFails
  <2> QED
    BY <1>1, <2>1, <2>2, <2>3, RemovingElsewhere
<1>5. ASSUME NEW p \in Procs,
             \/ Store(p) \/ Rollback(p) \/ Cleanup(p) \/ Fetch(p) \/ EraseFails(p)
      PROVE  UNCHANGED <<document, committed, Removing>>
  <2>1. /\ pc[p] \in Locked /\ pc'[p] \in Locked
        /\ pc'[p] \in {"erase", "restore"} /\ secret'[p] # NoSecret
              <=> pc[p] \in {"erase", "restore"} /\ secret[p] # NoSecret
        /\ UNCHANGED <<document, committed, target>>
    BY <1>1, <1>5 DEF Store, Rollback, Cleanup, Fetch, EraseFails, Locked,
                      TypeInv, TypeOK, Unread
  <2> QED
    BY <1>1, <2>1, RemovingIs, RemovingIsNext
<1>6. ASSUME NEW p \in Procs,
             \/ Store(p) \/ Rollback(p) \/ Cleanup(p) \/ Fetch(p) \/ EraseFails(p)
      PROVE  \A n \in DOMAIN document.profiles :
                SavedReference(n) \in DOMAIN keyring'
                    <=> SavedReference(n) \in DOMAIN keyring
  <2>1. CASE Store(p) \/ Rollback(p)
    <3>1. DOMAIN keyring' \in {DOMAIN keyring \cup {p}, DOMAIN keyring \ {p}}
      BY <2>1 DEF Store, Rollback, Insert, Remove, NewReference
    <3>2. p \notin committed
      BY <1>1, <2>1 DEF Store, Rollback, Drawn, Undone
    <3> QED
      BY <1>1, <3>1, <3>2, UnsavedIsUnnamed
  <2>2. CASE Cleanup(p)
    BY <1>1, <2>2 DEF Cleanup, Remove, Unshared
  <2> QED
    BY <1>6, <2>1, <2>2 DEF Fetch, EraseFails
<1>7. ASSUME NEW p \in Procs, Persist(p)
      PROVE  [Promise!Next]_Promise!vars
  <2>1. document'.profiles = Insert(document.profiles, target[p], NewProfile(p))
    BY <1>1, <1>7, ProfilesAfter DEF Persist, SaveProfile
  <2>2. /\ pc[p] \in Locked /\ pc'[p] \in Locked
        /\ pc[p] \notin {"erase", "restore"} /\ pc'[p] \notin {"erase", "restore"}
        /\ committed' = committed \cup {p} /\ p \notin committed
        /\ UNCHANGED <<keyring, target>>
        /\ target[p] \in Names /\ p \in DOMAIN keyring
    BY <1>1, <1>7 DEF Persist, SaveProfile, Locked, TypeInv, TypeOK, OnPath,
                      Undone, Fixed
  <2>3. Removing = {} /\ Removing' = {}
    BY <1>1, <2>2, RemovingIs, RemovingIsNext
  <2>4. SavedLoginsOf(document)' = Insert(SavedLoginsOf(document), target[p], p)
    BY <2>1 DEF SavedLoginsOf, Insert, NewProfile
  <2>5. /\ SavedReference(target[p])' = p
        /\ \A n \in DOMAIN document'.profiles \ {target[p]} :
              /\ n \in DOMAIN document.profiles
              /\ SavedReference(n)' = SavedReference(n)
    BY <2>1, <2>2, NamesAssumption, ProcsAssumption
       DEF Insert, SavedReference, CredentialReference, NewProfile,
           NewReference, NoReference
  <2>6. SignedIn' = SignedIn \cup {target[p]}
    <3>1. SignedIn' = {n \in DOMAIN document'.profiles :
                          SavedReference(n)' \in DOMAIN keyring'}
      BY <1>1 DEF Owned, SignedIn, SavedReference
    <3>2. DOMAIN document'.profiles = DOMAIN document.profiles \cup {target[p]}
      BY <2>1 DEF Insert
    <3>3. SavedReference(target[p])' \in DOMAIN keyring'
      BY <2>2, <2>5
    <3>4. SignedIn = {n \in DOMAIN document.profiles :
                         SavedReference(n) \in DOMAIN keyring}
      BY <1>1, SignedInIs
    <3> QED
      BY <2>2, <2>5, <3>1, <3>2, <3>3, <3>4
  <2>7. Promise!SignIn(target[p], p)
    BY <1>3, <1>7, <2>2, <2>3, <2>4, <2>6
       DEF Step, LoginStep, Promise!SignIn, Promise!Insert, Insert
  <2> QED
    BY <2>2, <2>7 DEF Promise!Next, Logins
<1>8. ASSUME NEW p \in Procs, RemoveSecret(p)
      PROVE  [Promise!Next]_Promise!vars
  <2>1. /\ pc[p] = "remove" /\ pc[p] \in Locked /\ pc'[p] \in Locked
        /\ UNCHANGED <<document, committed, target>>
        /\ DOMAIN keyring' = DOMAIN keyring \ {Reference(p)}
        /\ target[p] \in AskedToRemove /\ target[p] \in Names
    BY <1>1, <1>8 DEF RemoveSecret, Remove, Locked, TypeInv, TypeOK, OnPath,
                      AskedToRemove
  <2>2. Removing = {} /\ Removing' \subseteq {target[p]}
    BY <1>1, <2>1, RemovingIs, RemovingIsNext
  <2>3. /\ SignedIn \ {target[p]} = SignedIn' \ {target[p]}
        /\ target[p] \notin SignedIn'
        /\ target[p] \in SignedIn \/ UNCHANGED Removing
    <3>1. ~Has(document, target[p]) =>
              target[p] \notin SignedIn /\ target[p] \notin SignedIn'
      BY <2>1 DEF SignedIn, Has
    <3>2. Removing' # {} =>
             Has(document, target[p]) /\ Reference(p) \in DOMAIN keyring
      <4> SUFFICES ASSUME Removing' # {}
                   PROVE  Has(document, target[p]) /\ Reference(p) \in DOMAIN keyring
        OBVIOUS
      <4>1. pc'[p] = "erase" /\ secret'[p] # NoSecret
        BY <1>1, <1>8, <2>1, RemovingIsNext DEF RemoveSecret, TypeInv, TypeOK
      <4>2. command[p] = "delete" /\ Reference(p) \in DOMAIN keyring
        BY <1>1, <1>8, <4>1 DEF RemoveSecret, TypeInv, TypeOK, OnPath
      <4>3. seen[p] # NoProfile /\ ProfileOf(document, target[p]) = seen[p]
        BY <1>1, <2>1, <4>2 DEF Fixed
      <4> QED
        BY <4>2, <4>3 DEF ProfileOf
    <3> QED
      BY <1>1, <2>1, <2>2, <3>1, <3>2, OthersKeepTheirSecrets
  <2>4. UNCHANGED <<SavedLoginsOf(document), committed, AskedToRemove>>
    BY <1>3, <1>8, <2>1 DEF Step, DeleteStep, SavedLoginsOf
  <2>5. CASE target[p] \in SignedIn
    <3>1. Promise!SignOut(target[p])
      BY <2>1, <2>2, <2>3, <2>4, <2>5 DEF Promise!SignOut
    <3> QED
      BY <2>1, <3>1 DEF Promise!Next
  <2>6. CASE target[p] \notin SignedIn
    BY <2>2, <2>3, <2>4, <2>6 DEF Promise!vars
  <2> QED
    BY <2>5, <2>6
<1>9. ASSUME NEW p \in Procs, Erase(p)
      PROVE  [Promise!Next]_Promise!vars
  <2>1. document'.profiles = Remove(document.profiles, target[p])
    BY <1>1, <1>9, ProfilesAfter DEF Erase
  <2>2. /\ pc[p] = "erase" /\ pc[p] \in Locked
        /\ pc'[p] = "unlock" /\ pc'[p] \in Locked
        /\ UNCHANGED <<keyring, committed, target>>
        /\ target[p] \in AskedToRemove /\ target[p] \in Names
        /\ target[p] \in DOMAIN document.profiles
        /\ Reference(p) \notin DOMAIN keyring
    BY <1>1, <1>9 DEF Erase, Locked, TypeInv, TypeOK, OnPath, AskedToRemove,
                      Has, Final
  <2>3. Removing \subseteq {target[p]} /\ Removing' = {}
    BY <1>1, <2>2, RemovingIs, RemovingIsNext
  <2>4. SavedReference(target[p]) = Reference(p)
    BY <1>1, <2>2 DEF Fixed, ProfileOf, Has, SavedReference, Reference
  <2>5. target[p] \notin SignedIn
    BY <2>2, <2>4 DEF SignedIn
  <2>6. UNCHANGED SignedIn
    BY <2>1, <2>2, <2>5 DEF SignedIn, SavedReference, Remove
  <2>7. SavedLoginsOf(document)' = Remove(SavedLoginsOf(document), target[p])
    BY <2>1 DEF SavedLoginsOf, Remove
  <2>8. Promise!RemoveProfile(target[p])
    BY <1>3, <1>9, <2>2, <2>3, <2>5, <2>6, <2>7
       DEF Step, DeleteStep, Promise!RemoveProfile, Promise!Remove, Remove,
           SavedLoginsOf
  <2> QED
    BY <2>2, <2>8 DEF Promise!Next
<1>10. ASSUME NEW p \in Procs, Restore(p) \/ RestoreFails(p)
       PROVE  [Promise!Next]_Promise!vars
  <2>1. /\ pc[p] = "restore" /\ pc[p] \in Locked
        /\ pc'[p] = "unlock" /\ pc'[p] \in Locked
        /\ UNCHANGED <<document, committed, target>>
        /\ target[p] \in Names /\ secret[p] # NoSecret
        /\ Has(document, target[p])
    BY <1>1, <1>10 DEF Restore, RestoreFails, Locked, TypeInv, TypeOK, OnPath,
                       Fixed, ProfileOf
  <2>2. Removing = {target[p]} /\ Removing' = {}
    BY <1>1, <2>1, RemovingIs, RemovingIsNext
  <2>3. UNCHANGED <<SavedLoginsOf(document), committed, AskedToRemove>>
    BY <1>3, <1>10, <2>1 DEF Step, DeleteStep, Failure, SavedLoginsOf
  <2>4. CASE Restore(p)
    <3>1. DOMAIN keyring' = DOMAIN keyring \cup {Reference(p)}
      BY <2>4 DEF Restore, Insert
    <3>2. SignedIn' = SignedIn \cup {target[p]}
      BY <1>1, <2>1, <3>1, OthersKeepTheirSecrets
    <3>3. Promise!RestoreSecret(target[p])
      BY <2>2, <2>3, <3>2 DEF Promise!RestoreSecret
    <3> QED
      BY <2>1, <3>3 DEF Promise!Next
  <2>5. CASE RestoreFails(p)
    <3>1. UNCHANGED SignedIn
      BY <2>5 DEF RestoreFails, SignedIn, SavedReference
    <3>2. Promise!AbandonRemoval(target[p])
      BY <2>2, <2>3, <3>1 DEF Promise!AbandonRemoval
    <3> QED
      BY <2>1, <3>2 DEF Promise!Next
  <2> QED
    BY <1>10, <2>4, <2>5
<1>11. ASSUME NEW p \in Procs, Use(p)
       PROVE  UNCHANGED Promise!vars
  <2>1. document'.profiles = document.profiles
    BY <1>1, <1>11, ProfilesAfter DEF Use
  <2>2. UNCHANGED <<keyring, committed, Removing>>
    <3>1. pc[p] \in Settled /\ "done" \in Settled
      BY <1>11 DEF Use, Settled
    <3> QED
      BY <1>1, <1>11, <3>1, RemovingElsewhere DEF Use
  <2>3. UNCHANGED <<SavedLoginsOf(document), SignedIn>>
    BY <2>1, <2>2 DEF SavedLoginsOf, SignedIn, SavedReference
  <2> QED
    BY <1>3, <1>11, <2>2, <2>3 DEF Step, OtherStep, Promise!vars
<1>12. ASSUME NEW p \in Procs, Crash(p)
       PROVE  [Promise!Next]_Promise!vars
  <2>1. /\ UNCHANGED <<document, keyring, committed, target, secret>>
        /\ pc' = [pc EXCEPT ![p] = "dead"]
    BY <1>12 DEF Crash
  <2>2. UNCHANGED <<SavedLoginsOf(document), SignedIn, committed, AskedToRemove>>
    BY <1>3, <1>12, <2>1 DEF Failure, SavedLoginsOf, SignedIn, SavedReference
  <2>3. CASE pc[p] \in {"erase", "restore"} /\ secret[p] # NoSecret
    <3>1. Removing = {target[p]} /\ target[p] \in Names
      BY <1>1, <2>3, RemovingIs DEF Locked, TypeInv, OnPath
    <3>2. \A q \in Procs \ {p} : pc[q] \notin {"erase", "restore"}
      BY <1>1, <2>3, OneAtATime DEF Locked
    <3>3. Removing' = {}
      BY <1>1, <2>1, <3>2 DEF Removing, TypeInv, TypeOK
    <3>4. Promise!AbandonRemoval(target[p])
      BY <2>2, <3>1, <3>3 DEF Promise!AbandonRemoval
    <3> QED
      BY <3>1, <3>4 DEF Promise!Next
  <2>4. CASE ~(pc[p] \in {"erase", "restore"} /\ secret[p] # NoSecret)
    <3>1. UNCHANGED Removing
      BY <1>1, <2>1, <2>4 DEF Removing, TypeInv, TypeOK
    <3> QED
      BY <2>2, <3>1 DEF Promise!vars
  <2> QED
    BY <2>3, <2>4
<1>13. CASE UNCHANGED vars
  BY <1>13 DEF vars, Promise!vars, SavedLoginsOf, SignedIn, SavedReference,
               Removing, AskedToRemove
<1>14. ASSUME NEW p \in Procs, Step(p) \/ Failure(p)
       PROVE  [Promise!Next]_Promise!vars
  <2>1. ASSUME \/ LockStep(p) \/ Validate(p) \/ Open(p) \/ OpenWithSecret(p)
               \/ ValidateOnly(p) \/ GiveUp(p) \/ Abort(p) \/ UnlockFails(p)
               \/ PersistFails(p) \/ RollbackFails(p) \/ CleanupFails(p)
        PROVE  UNCHANGED Promise!vars
    BY <1>1, <1>3, <1>4, <1>14, <2>1, PromiseStutter
  <2>2. ASSUME \/ Store(p) \/ Rollback(p) \/ Cleanup(p) \/ Fetch(p) \/ EraseFails(p)
        PROVE  UNCHANGED Promise!vars
    BY <1>1, <1>3, <1>5, <1>6, <1>14, <2>2, PromiseStutter
  <2> QED
    BY <1>7, <1>8, <1>9, <1>10, <1>11, <1>12, <1>14, <2>1, <2>2
       DEF Step, LoginStep, DeleteStep, OtherStep, Failure
<1> QED
  BY <1>2, <1>13, <1>14 DEF Next

(* While unlocking does not fail, login, logout and delete over two stores  *)
(* behave as single steps on one, for any number of processes and profiles: *)
(* every step is one of SavedLogins or changes nothing a user can see.      *)
THEOREM PromiseAlwaysKept ==
    ASSUME ~UnlockMayFail
    PROVE  Spec => KeepsPromise
<1>1. AccountsInv /\ [Next]_vars => [Promise!Next]_Promise!vars
  BY PromiseStep
<1> QED
  BY <1>1, PromiseInit, AccountsAlways, PTL DEF Spec, KeepsPromise, Promise!Spec
=============================================================================
