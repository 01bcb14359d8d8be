-------------------------- MODULE ProfileFileProofs --------------------------
(***************************************************************************)
(* Proofs about ProfileFile for every set of names, values and processes:  *)
(* what the path names decodes and selects a saved profile, after every    *)
(* failure, kill and power loss, and the calls are those of the registry.  *)
(* The inductive invariant adds to the types                               *)
(*   Settled    every file a power loss may bring back is whole;           *)
(*   Alone      one process at a time is between Lock and Rename;          *)
(*   Told       nothing is answered before the call has taken effect;      *)
(*   Buffered   what a process saves is the effect of its request on the   *)
(*              document as it still is.                                   *)
(***************************************************************************)
EXTENDS ProfileFile, WellFoundedInduction, TLAPS

-----------------------------------------------------------------------------
(* What the operations of the profile document return, for every set of     *)
(* names: they yield documents again, and they keep a saved profile         *)
(* selected whenever there is one.                                          *)

(* A map is a function from some of the keys to values.                     *)
LEMMA MapsFromIs ==
    ASSUME NEW keys, NEW values, NEW m
    PROVE  m \in MapsFrom(keys, values)
              <=> /\ m = [k \in DOMAIN m |-> m[k]]
                  /\ DOMAIN m \subseteq keys
                  /\ \A k \in DOMAIN m : m[k] \in values
BY DEF MapsFrom

(* Insert adds one key, sets its value, and leaves the others (Go's m[k]=v). *)
LEMMA InsertIs ==
    ASSUME NEW keys, NEW values, NEW m \in MapsFrom(keys, values),
           NEW k \in keys, NEW v \in values
    PROVE  /\ Insert(m, k, v) \in MapsFrom(keys, values)
           /\ DOMAIN Insert(m, k, v) = DOMAIN m \cup {k}
           /\ Insert(m, k, v)[k] = v
           /\ \A x \in DOMAIN m \ {k} : Insert(m, k, v)[x] = m[x]
BY MapsFromIs DEF Insert

(* Remove takes one key away and leaves the others (Go's delete(m, k)).      *)
LEMMA RemoveIs ==
    ASSUME NEW keys, NEW values, NEW m \in MapsFrom(keys, values), NEW k
    PROVE  /\ Remove(m, k) \in MapsFrom(keys, values)
           /\ DOMAIN Remove(m, k) = DOMAIN m \ {k}
           /\ \A x \in DOMAIN m \ {k} : Remove(m, k)[x] = m[x]
BY MapsFromIs DEF Remove

(* A set of names that is not empty has a first name.                       *)
LEMMA FirstNameIsIn ==
    ASSUME NEW S \in SUBSET Names, S # {}
    PROVE  FirstName(S) \in S
<1>1. S \subseteq Nat
  BY NamesAssumption
<1>2. PICK n \in S : \A m \in S : ~(<<m, n>> \in OpToRel(<, Nat))
  BY <1>1, NatLessThanWellFounded, WFMin, Zenon
<1>3. ASSUME NEW m \in S
      PROVE  n <= m
  <2>1. m \in Nat /\ n \in Nat /\ ~(<<m, n>> \in {ss \in Nat \X Nat : ss[1] < ss[2]})
    BY <1>1, <1>2 DEF OpToRel
  <2> QED
    BY <2>1
<1> QED
  BY <1>3 DEF FirstName

(* The replacement for a deleted selection is a saved profile, or none when *)
(* none is left.                                                            *)
LEMMA ReplacementIs ==
    ASSUME NEW values, NEW m \in MapsFrom(Names, values)
    PROVE  IF DOMAIN m = {} THEN Replacement(m) = NoName
                            ELSE Replacement(m) \in DOMAIN m
<1>1. DOMAIN m \in SUBSET Names
  BY MapsFromIs
<1> QED
  BY <1>1, FirstNameIsIn, NamesAssumption DEF Replacement

LEMMA NoNameIsNoName == NoName \notin Names
BY NamesAssumption DEF NoName

(* Put, Use and Delete save a document when they are given one.             *)
THEOREM OperationsYieldDocuments ==
    ASSUME NEW values, NEW d \in Documents(values), NEW n \in Names
    PROVE  /\ \A v \in values : PutProfile(d, n, v) \in Documents(values)
           /\ UseProfile(d, n) \in Documents(values)
           /\ DeleteProfile(d, n) \in Documents(values)
<1>1. d.profiles \in MapsFrom(Names, values) /\ d.current \in Names \cup {NoName}
  BY DEF Documents
<1>2. ASSUME NEW v \in values
      PROVE  PutProfile(d, n, v) \in Documents(values)
  BY <1>1, InsertIs DEF PutProfile, Documents
<1>3. UseProfile(d, n) \in Documents(values)
  BY DEF UseProfile, Documents
<1>4. DeleteProfile(d, n) \in Documents(values)
  <2> DEFINE rest == Remove(d.profiles, n)
  <2>1. rest \in MapsFrom(Names, values)
    BY <1>1, RemoveIs
  <2>2. Replacement(rest) \in Names \cup {NoName}
    BY <2>1, ReplacementIs, MapsFromIs
  <2> QED
    BY <1>1, <2>1, <2>2 DEF DeleteProfile, Documents
<1> QED
  BY <1>2, <1>3, <1>4

(* Put, Use and Delete keep a saved profile selected whenever there is one: *)
(* the first Put selects, Delete moves the selection off what it deletes.   *)
THEOREM OperationsKeepSelection ==
    ASSUME NEW values, NEW d \in Documents(values), NEW n \in Names,
           WellSelected(d)
    PROVE  /\ \A v \in values : WellSelected(PutProfile(d, n, v))
           /\ Has(d, n) => WellSelected(UseProfile(d, n))
           /\ WellSelected(DeleteProfile(d, n))
<1>1. d.profiles \in MapsFrom(Names, values)
  BY DEF Documents
<1>2. ASSUME NEW v \in values
      PROVE  WellSelected(PutProfile(d, n, v))
  <2>1. DOMAIN PutProfile(d, n, v).profiles = DOMAIN d.profiles \cup {n}
    BY DEF PutProfile, Insert
  <2>2. d.current # NoName => d.current \in DOMAIN d.profiles
    BY DEF WellSelected, Has
  <2> QED
    BY <2>1, <2>2 DEF WellSelected, PutProfile, Has
<1>3. Has(d, n) => WellSelected(UseProfile(d, n))
  BY DEF WellSelected, UseProfile, Has, Documents
<1>4. WellSelected(DeleteProfile(d, n))
  <2> DEFINE rest == Remove(d.profiles, n)
  <2>1. rest \in MapsFrom(Names, values)
    BY <1>1, RemoveIs
  <2>2. DOMAIN rest = DOMAIN d.profiles \ {n}
    BY DEF Remove
  <2>3. IF DOMAIN rest = {} THEN Replacement(rest) = NoName
                            ELSE Replacement(rest) \in DOMAIN rest
    BY <2>1, ReplacementIs
  <2>4. DOMAIN d.profiles \subseteq Names
    BY <1>1, MapsFromIs
  <2> QED
    BY <2>2, <2>3, <2>4, NoNameIsNoName DEF WellSelected, DeleteProfile, Has
<1> QED
  BY <1>2, <1>3, <1>4

(* What Current returns is a saved profile whenever there is one.           *)
THEOREM CurrentIsSaved ==
    ASSUME NEW values, NEW d \in Documents(values), DOMAIN d.profiles # {}
    PROVE  Has(d, CurrentName(d))
<1>1. d.profiles \in MapsFrom(Names, values)
  BY DEF Documents
<1> QED
  BY <1>1, ReplacementIs DEF CurrentName, Has

-----------------------------------------------------------------------------
(* The inductive invariant                                                  *)

Settled ==
    /\ file \in onDisk
    /\ \A f \in onDisk : f.stage = "synced" /\ WellSelected(f.doc)

Mutating == {"load"} \cup Saving

Alone ==
    /\ \A c, d \in lock : c = d
    /\ \A c \in Callers : pc[c] \in Mutating => c \in lock

Told(c) ==
    /\ pc[c] = "read" => request[c] \in Registry!Requests /\ request[c].op = "read"
    /\ pc[c] \in {"lock"} \cup Mutating =>
           request[c] \in Registry!Requests /\ request[c].op # "read"
    /\ pc[c] \in {"idle", "lock", "read"} \cup Mutating => answer[c] = Registry!NoAnswer
    /\ answer[c].status = "error" => answer[c] = Registry!Refusal

Buffered(c) ==
    /\ pc[c] \in Saving =>
           /\ Registry!Permitted(request[c], file.doc)
           /\ buffer[c] = Registry!Effect(request[c], file.doc)
    /\ pc[c] = "sync" => temporary[c] = [doc |-> buffer[c], stage |-> "written"]
    /\ pc[c] = "rename" => temporary[c] = [doc |-> buffer[c], stage |-> "synced"]
    /\ temporary[c] # NoFile =>
           pc[c] \in Saving \cup {"dead"} \/ temporary[c].stage = "kept"

IInv ==
    /\ TypeOK /\ Settled /\ Alone
    /\ \A c \in Callers : Told(c) /\ Buffered(c)

-----------------------------------------------------------------------------

LEMMA EmptyIsDocument == EmptyDocument \in Documents(Values)
<1>1. [n \in {} |-> NoName] \in MapsFrom(Names, Values)
  BY MapsFromIs
<1> QED
  BY <1>1 DEF EmptyDocument, Documents

(* The registry's operations on a document are those of the file.           *)
LEMMA SameOperations ==
    ASSUME NEW d, NEW n, NEW v
    PROVE  /\ Registry!PutProfile(d, n, v) = PutProfile(d, n, v)
           /\ Registry!UseProfile(d, n) = UseProfile(d, n)
           /\ Registry!DeleteProfile(d, n) = DeleteProfile(d, n)
           /\ Registry!Has(d, n) = Has(d, n)
           /\ Registry!WellSelected(d) = WellSelected(d)
           /\ Registry!EmptyDocument = EmptyDocument
           /\ Registry!Documents(Values) = Documents(Values)
BY DEF Registry!PutProfile, PutProfile, Registry!UseProfile, UseProfile,
       Registry!DeleteProfile, DeleteProfile, Registry!Insert, Insert,
       Registry!Remove, Remove, Registry!Replacement, Replacement,
       Registry!FirstName, FirstName, Registry!Has, Has, Registry!NoName, NoName,
       Registry!WellSelected, WellSelected, Registry!EmptyDocument, EmptyDocument,
       Registry!Documents, Documents, Registry!MapsFrom, MapsFrom

(* What a permitted request makes of a document is one, with a saved        *)
(* profile selected.                                                        *)
LEMMA EffectIs ==
    ASSUME NEW r \in Registry!Requests, NEW d \in Documents(Values),
           Registry!Permitted(r, d)
    PROVE  /\ Registry!Effect(r, d) \in Documents(Values)
           /\ WellSelected(d) => WellSelected(Registry!Effect(r, d))
<1>1. CASE r.op = "put"
  <2>1. r.name \in Names /\ r.value \in Values
    BY <1>1, SameOperations DEF Registry!Requests
  <2>2. Registry!Effect(r, d) = PutProfile(d, r.name, r.value)
    BY <1>1, SameOperations DEF Registry!Effect
  <2> QED
    BY <2>1, <2>2, OperationsYieldDocuments, OperationsKeepSelection
<1>2. CASE r.op = "use"
  <2>1. r.name \in Names /\ Has(d, r.name)
    BY <1>2, SameOperations DEF Registry!Requests, Registry!Permitted
  <2>2. Registry!Effect(r, d) = UseProfile(d, r.name)
    BY <1>2, SameOperations DEF Registry!Effect
  <2> QED
    BY <2>1, <2>2, OperationsYieldDocuments, OperationsKeepSelection
<1>3. CASE r.op = "delete"
  <2>1. r.name \in Names
    BY <1>3, SameOperations DEF Registry!Requests
  <2>2. Registry!Effect(r, d) = DeleteProfile(d, r.name)
    BY <1>3, SameOperations DEF Registry!Effect
  <2> QED
    BY <2>1, <2>2, OperationsYieldDocuments, OperationsKeepSelection
<1>4. CASE r.op = "read"
  BY <1>4 DEF Registry!Effect
<1> QED
  BY <1>1, <1>2, <1>3, <1>4 DEF Registry!Requests

AnswerSet == [status : {"none", "ok", "not_found", "error"}, seen : Documents(Values)]

(* What a call may be told has the type of an answer.                       *)
LEMMA AnswersAre ==
    /\ Registry!NoAnswer \in AnswerSet /\ Registry!Refusal \in AnswerSet
    /\ Registry!NoAnswer = [status |-> "none", seen |-> EmptyDocument]
    /\ Registry!Refusal = [status |-> "error", seen |-> EmptyDocument]
    /\ \A r, d : d \in Documents(Values) =>
          /\ Registry!Reply(r, d).status \in {"ok", "not_found"}
          /\ Registry!Reply(r, d) \in AnswerSet
BY SameOperations, EmptyIsDocument
   DEF AnswerSet, Registry!NoAnswer, Registry!Refusal, Registry!Reply

LEMMA InitEstablishes == Init => IInv
<1> SUFFICES ASSUME Init PROVE IInv
  OBVIOUS
<1>1. PICK d \in Documents(Values) :
          WellSelected(d) /\ file = [doc |-> d, stage |-> "synced"]
  BY DEF Init
<1>2. TypeOK
  <2>1. file \in Files /\ NoFile \in Files
    BY <1>1, EmptyIsDocument DEF Files, NoFile, Stages
  <2>2. answer \in [Callers -> AnswerSet]
    BY AnswersAre DEF Init
  <2> QED
    BY <2>1, <2>2, EmptyIsDocument, FileAssumption DEF Init, TypeOK, AnswerSet
<1>3. Settled
  BY <1>1 DEF Init, Settled
<1>4. Alone
  BY DEF Init, Alone, Mutating, Saving
<1>5. ASSUME NEW c \in Callers PROVE Told(c) /\ Buffered(c)
  BY AnswersAre DEF Init, Told, Buffered, Mutating, Saving
<1> QED
  BY <1>2, <1>3, <1>4, <1>5 DEF IInv

-----------------------------------------------------------------------------
(* Steps                                                                    *)

Act(c) == (\E r \in Registry!Requests : Call(c, r)) \/ Step(c) \/ Failure(c)

LEMMA TypesKept == IInv /\ [Next]_vars => TypeOK'
<1> SUFFICES ASSUME IInv, [Next]_vars PROVE TypeOK'
  OBVIOUS
<1> USE DEF TypeOK, Goto, Answers
<1>0. TypeOK /\ NoFile \in Files /\ [doc |-> EmptyDocument, stage |-> "created"] \in Files
  BY EmptyIsDocument DEF IInv, Files, NoFile, Stages
<1>1. ASSUME NEW c \in Callers, NEW r \in Registry!Requests, Call(c, r) PROVE TypeOK'
  BY <1>0, <1>1 DEF Call, Active, Saving
<1>2. ASSUME NEW c \in Callers, Lock(c) \/ Finish(c) \/ Exit(c) \/ Crash(c) PROVE TypeOK'
  BY <1>0, <1>2 DEF Lock, Finish, Exit, Crash, Active, Saving
<1>3. ASSUME NEW c \in Callers, Load(c) PROVE TypeOK'
  <2>1. file.doc \in Documents(Values) /\ pc[c] \in Mutating /\ request[c] \in Registry!Requests
    BY <1>0, <1>3 DEF Load, Files, IInv, Told, Mutating
  <2>2. CASE Registry!Permitted(request[c], file.doc)
    BY <1>0, <1>3, <2>1, <2>2, EffectIs DEF Load, Active, Saving
  <2>3. CASE ~Registry!Permitted(request[c], file.doc)
    <3>1. Registry!Reply(request[c], file.doc) \in AnswerSet
      BY <2>1, AnswersAre
    <3>2. answer' \in [Callers -> AnswerSet]
      BY <1>0, <1>3, <2>3, <3>1 DEF Load, AnswerSet
    <3> QED
      BY <1>0, <1>3, <2>3, <3>2 DEF Load, Active, Saving, AnswerSet
  <2> QED
    BY <2>2, <2>3
<1>4. ASSUME NEW c \in Callers, Read(c) PROVE TypeOK'
  <2>1. file.doc \in Documents(Values)
    BY <1>0 DEF Files
  <2>2. Registry!Reply(request[c], file.doc) \in AnswerSet
    BY <2>1, AnswersAre
  <2>3. answer' \in [Callers -> AnswerSet]
    BY <1>0, <1>4, <2>2 DEF Read, AnswerSet
  <2> QED
    BY <1>0, <1>4, <2>3 DEF Read, Active, Saving, AnswerSet
<1>5. ASSUME NEW c \in Callers, Create(c) \/ Write(c) \/ Sync(c) PROVE TypeOK'
  <2>1. /\ [doc |-> buffer[c], stage |-> "written"] \in Files
        /\ [temporary[c] EXCEPT !.stage = "synced"] \in Files
    BY <1>0 DEF Files, Stages
  <2> QED
    BY <1>0, <1>5, <2>1 DEF Create, Write, Sync, Active, Saving
<1>6. ASSUME NEW c \in Callers, Rename(c) PROVE TypeOK'
  BY <1>0, <1>6, EmptyIsDocument DEF Rename, Active, Saving
<1>7. ASSUME NEW c \in Callers, LockFails(c) \/ LoadFails(c) \/ SaveFails(c) \/ UnlockFails(c)
      PROVE  TypeOK'
  <2>1. answer' \in [Callers -> AnswerSet]
    BY <1>0, <1>7, AnswersAre DEF LockFails, LoadFails, SaveFails, UnlockFails, AnswerSet
  <2>2. pc' \in [Callers -> {"idle", "done", "dead"} \cup Active]
    BY <1>0, <1>7 DEF LockFails, LoadFails, SaveFails, UnlockFails, Active, Saving
  <2>0. NoFile \in Files /\ KeptFile \in Files
    BY EmptyIsDocument DEF NoFile, KeptFile, Files, Stages
  <2>3. temporary' \in [Callers -> Files]
    BY <1>0, <1>7, <2>0 DEF LockFails, LoadFails, SaveFails, UnlockFails
  <2> QED
    BY <1>0, <1>7, <2>1, <2>2, <2>3
       DEF LockFails, LoadFails, SaveFails, UnlockFails, AnswerSet
<1>8. CASE WriteBack
  BY <1>0, <1>8 DEF WriteBack
<1>9. CASE PowerLoss
  <2>1. file' \in Files
    <3>1. PICK f \in onDisk : file' \in AfterPowerLoss(f)
      BY <1>9 DEF PowerLoss
    <3>2. f \in Files /\ [f EXCEPT !.stage = "torn"] \in Files
      BY <1>0 DEF Files, Stages
    <3> QED
      BY <3>1, <3>2 DEF AfterPowerLoss
  <2> QED
    BY <1>0, <1>9, <2>1, FileAssumption DEF PowerLoss, Active, Saving
<1>10. CASE UNCHANGED vars
  BY <1>0, <1>10 DEF vars
<1> QED
  BY <1>1, <1>2, <1>3, <1>4, <1>5, <1>6, <1>7, <1>8, <1>9, <1>10 DEF Next, Step, Failure

(* No document gets into place before it is synced.                         *)
LEMMA SettledKept == IInv /\ [Next]_vars => Settled'
<1> SUFFICES ASSUME IInv, [Next]_vars PROVE Settled'
  OBVIOUS
<1>1. ASSUME UNCHANGED <<file, onDisk>> PROVE Settled'
  BY <1>1 DEF IInv, Settled
<1>2. ASSUME NEW c \in Callers, Rename(c) PROVE Settled'
  <2>1. /\ request[c] \in Registry!Requests /\ Registry!Permitted(request[c], file.doc)
        /\ temporary[c] = [doc |-> Registry!Effect(request[c], file.doc), stage |-> "synced"]
    BY <1>2 DEF Rename, IInv, Told, Buffered, Mutating, Saving
  <2>2. file.doc \in Documents(Values) /\ WellSelected(file.doc)
    BY DEF IInv, TypeOK, Files, Settled
  <2>3. WellSelected(Registry!Effect(request[c], file.doc))
    BY <2>1, <2>2, EffectIs
  <2> QED
    BY <1>2, <2>1, <2>3 DEF Rename, IInv, Settled
<1>3. CASE WriteBack
  BY <1>3 DEF WriteBack, IInv, Settled
<1>4. CASE PowerLoss
  <2>1. PICK f \in onDisk : file' \in AfterPowerLoss(f)
    BY <1>4 DEF PowerLoss
  <2>2. file' = f
    BY <2>1 DEF AfterPowerLoss, IInv, Settled
  <2> QED
    BY <1>4, <2>2 DEF PowerLoss, IInv, Settled
<1>5. ASSUME NEW c \in Callers, Act(c), ~Rename(c) PROVE UNCHANGED <<file, onDisk>>
  BY <1>5 DEF Act, Step, Failure, Call, Lock, Load, Read, Create, Write, Sync, Finish, Exit,
              LockFails, LoadFails, SaveFails, UnlockFails, Crash
<1> QED
  BY <1>1, <1>2, <1>3, <1>4, <1>5 DEF Next, Act, vars

(* The flock belongs to one process at a time.                              *)
LEMMA AloneKept == IInv /\ [Next]_vars => Alone'
<1> SUFFICES ASSUME IInv, [Next]_vars PROVE Alone'
  OBVIOUS
<1> USE DEF IInv, TypeOK, Alone, Mutating, Active, Saving, Goto, Answers
<1>1. ASSUME NEW c \in Callers, NEW r \in Registry!Requests, Call(c, r) PROVE Alone'
  BY <1>1 DEF Call
<1>2. ASSUME NEW c \in Callers, Lock(c) PROVE Alone'
  BY <1>2 DEF Lock
<1>3. ASSUME NEW c \in Callers, Load(c) \/ Read(c) \/ LockFails(c) \/ LoadFails(c) PROVE Alone'
  BY <1>3 DEF Load, Read, LockFails, LoadFails
<1>4. ASSUME NEW c \in Callers, Create(c) \/ Write(c) \/ Sync(c) \/ Rename(c) \/ SaveFails(c)
      PROVE  Alone'
  BY <1>4 DEF Create, Write, Sync, Rename, SaveFails
<1>5. ASSUME NEW c \in Callers, Finish(c) \/ UnlockFails(c) \/ Exit(c) \/ Crash(c) PROVE Alone'
  BY <1>5 DEF Finish, UnlockFails, Exit, Crash
<1>6. CASE WriteBack \/ UNCHANGED vars
  BY <1>6 DEF WriteBack, vars
<1>7. CASE PowerLoss
  BY <1>7 DEF PowerLoss
<1> QED
  BY <1>1, <1>2, <1>3, <1>4, <1>5, <1>6, <1>7 DEF Next, Step, Failure

(* Nothing is answered before the call has taken effect or has failed.      *)
LEMMA ToldKept ==
    ASSUME IInv, [Next]_vars, NEW d \in Callers
    PROVE  Told(d)'
<1> USE DEF IInv, TypeOK, Told, Mutating, Active, Saving, Goto, Answers
<1>0. /\ Registry!Refusal.status = "error"
      /\ \A r, e : e \in Documents(Values) => Registry!Reply(r, e).status # "error"
      /\ file.doc \in Documents(Values)
  BY AnswersAre DEF Files
<1>1. ASSUME NEW c \in Callers, NEW r \in Registry!Requests, Call(c, r) PROVE Told(d)'
  BY <1>1 DEF Call
<1>2. ASSUME NEW c \in Callers, Lock(c) \/ Finish(c) \/ Exit(c) \/ Crash(c) PROVE Told(d)'
  BY <1>2 DEF Lock, Finish, Exit, Crash
<1>3. ASSUME NEW c \in Callers, Load(c) PROVE Told(d)'
  <2>1. CASE Registry!Permitted(request[c], file.doc)
    BY <1>3, <2>1 DEF Load
  <2>2. CASE ~Registry!Permitted(request[c], file.doc)
    BY <1>0, <1>3, <2>2 DEF Load
  <2> QED
    BY <2>1, <2>2
<1>4. ASSUME NEW c \in Callers, Read(c) PROVE Told(d)'
  BY <1>0, <1>4 DEF Read
<1>5. ASSUME NEW c \in Callers, Create(c) \/ Write(c) \/ Sync(c) PROVE Told(d)'
  BY <1>5 DEF Create, Write, Sync
<1>6. ASSUME NEW c \in Callers, Rename(c) PROVE Told(d)'
  BY <1>6 DEF Rename
<1>7. ASSUME NEW c \in Callers, LockFails(c) \/ LoadFails(c) \/ SaveFails(c) \/ UnlockFails(c)
      PROVE  Told(d)'
  BY <1>0, <1>7 DEF LockFails, LoadFails, SaveFails, UnlockFails
<1>8. CASE WriteBack \/ UNCHANGED vars
  BY <1>8 DEF WriteBack, vars
<1>9. CASE PowerLoss
  BY <1>9 DEF PowerLoss
<1> QED
  BY <1>1, <1>2, <1>3, <1>4, <1>5, <1>6, <1>7, <1>8, <1>9 DEF Next, Step, Failure

(* While a process saves, the document is the one that it loaded.           *)
LEMMA BufferedKept ==
    ASSUME IInv, [Next]_vars, NEW d \in Callers
    PROVE  Buffered(d)'
<1> USE DEF IInv, TypeOK, Buffered, Active, Saving, Goto, Answers
<1>1. ASSUME NEW c \in Callers, NEW r \in Registry!Requests, Call(c, r) PROVE Buffered(d)'
  BY <1>1 DEF Call
<1>2. ASSUME NEW c \in Callers, Lock(c) \/ Finish(c) \/ Exit(c) \/ Crash(c) PROVE Buffered(d)'
  BY <1>2 DEF Lock, Finish, Exit, Crash
<1>3. ASSUME NEW c \in Callers, Load(c) PROVE Buffered(d)'
  BY <1>3 DEF Load
<1>4. ASSUME NEW c \in Callers, Read(c) \/ LockFails(c) \/ LoadFails(c) \/ UnlockFails(c)
      PROVE  Buffered(d)'
  BY <1>4 DEF Read, LockFails, LoadFails, UnlockFails
<1>5. ASSUME NEW c \in Callers, Create(c) PROVE Buffered(d)'
  BY <1>5 DEF Create
<1>6. ASSUME NEW c \in Callers, Write(c) PROVE Buffered(d)'
  BY <1>6 DEF Write
<1>7. ASSUME NEW c \in Callers, Sync(c) PROVE Buffered(d)'
  BY <1>7 DEF Sync
<1>8. ASSUME NEW c \in Callers, Rename(c) PROVE Buffered(d)'
  <2>1. CASE d = c
    BY <1>8, <2>1 DEF Rename
  <2>2. CASE d # c
    <3>1. pc[d] \notin Saving
      BY <1>8, <2>2 DEF Rename, Alone, Mutating
    <3> QED
      BY <1>8, <2>2, <3>1 DEF Rename
  <2> QED
    BY <2>1, <2>2
<1>9. ASSUME NEW c \in Callers, SaveFails(c) PROVE Buffered(d)'
  <2>1. CASE d = c
    BY <1>9, <2>1 DEF SaveFails, KeptFile
  <2>2. CASE d # c
    BY <1>9, <2>2 DEF SaveFails
  <2> QED
    BY <2>1, <2>2
<1>10. CASE WriteBack \/ UNCHANGED vars
  BY <1>10 DEF WriteBack, vars
<1>11. CASE PowerLoss
  BY <1>11 DEF PowerLoss
<1> QED
  BY <1>1, <1>2, <1>3, <1>4, <1>5, <1>6, <1>7, <1>8, <1>9, <1>10, <1>11
     DEF Next, Step, Failure

LEMMA NextKeeps == IInv /\ [Next]_vars => IInv'
BY TypesKept, SettledKept, AloneKept, ToldKept, BufferedKept DEF IInv

LEMMA InvHolds == Spec => []IInv
BY InitEstablishes, NextKeeps, PTL DEF Spec

-----------------------------------------------------------------------------

(* Every variable of the profile store has its type, for all names, values  *)
(* and processes (FileStore).                                               *)
THEOREM TypeCorrect == Spec => []TypeOK
BY InvHolds, PTL DEF IInv

(* No kill, failure or power loss leaves a document that load cannot decode *)
(* (save syncs before it renames).                                          *)
THEOREM DocumentIsNeverTorn == Spec => []DocumentNeverTorn
<1>1. IInv => DocumentNeverTorn
  BY DEF IInv, Settled, DocumentNeverTorn
<1> QED
  BY <1>1, InvHolds, PTL

(* A saved profile is selected whenever there is one, whatever mutations    *)
(* race, fail or are undone (Put, Use, Delete under withFileLock).          *)
THEOREM SelectionIsAlwaysSaved == Spec => []SelectionIsSaved
<1>1. IInv => SelectionIsSaved
  BY DEF IInv, Settled, SelectionIsSaved
<1> QED
  BY <1>1, InvHolds, PTL

(* Only a process that is killed while it saves leaves a temporary file, or *)
(* one that could not remove it (the deferred os.Remove of save).           *)
THEOREM FailedSavesLeaveNoFile == Spec => []FailedSaveLeavesNoFile
<1>1. IInv => FailedSaveLeavesNoFile
  BY DEF IInv, Buffered, FailedSaveLeavesNoFile
<1> QED
  BY <1>1, InvHolds, PTL

-----------------------------------------------------------------------------
(* The registry                                                             *)

\* How far a call has got for the registry, and what it was told
Phase(c) ==
    CASE pc[c] \in {"idle", "dead"} -> pc[c]
      [] pc[c] = "done" -> "returned"
      [] pc[c] = "leaving" -> "returned"
      [] pc[c] = "finish" /\ answer[c].status # "error" -> "applied"
      [] OTHER -> "called"

Heard(c) ==
    IF pc[c] \in {"finish", "dead"} /\ answer[c].status = "error"
    THEN [status |-> "none", seen |-> EmptyDocument]
    ELSE answer[c]

Phases == [c \in Callers |-> Phase(c)]
Hearing == [c \in Callers |-> Heard(c)]

LEMMA RegistryInit == Init => Registry!Init
<1> SUFFICES ASSUME Init PROVE Registry!Init
  OBVIOUS
<1>1. PICK d \in Documents(Values) :
          WellSelected(d) /\ file = [doc |-> d, stage |-> "synced"]
  BY DEF Init
<1>2. /\ file.doc \in Registry!Documents(Values) /\ Registry!WellSelected(file.doc)
      /\ {f.doc : f \in onDisk} = {file.doc}
  BY <1>1, SameOperations DEF Init
<1>3. Phases = [c \in Callers |-> "idle"]
  BY DEF Init, Phases, Phase
<1>4. Hearing = [c \in Callers |-> Registry!NoAnswer]
  BY DEF Init, Hearing, Heard
<1> QED
  BY <1>2, <1>3, <1>4 DEF Init, Registry!Init, Phases, Phase, Hearing, Heard

\* The others stand still while c moves.
Rest(c) == \A x \in Callers \ {c} : Phase(x)' = Phase(x) /\ Heard(x)' = Heard(x)

LEMMA Moved ==
    ASSUME NEW c \in Callers, Rest(c)
    PROVE  /\ Phases' = [Phases EXCEPT ![c] = Phase(c)']
           /\ Hearing' = [Hearing EXCEPT ![c] = Heard(c)']
           /\ Phases[c] = Phase(c) /\ Hearing[c] = Heard(c)
BY DEF Rest, Phases, Hearing

LEMMA Unmoved ==
    ASSUME NEW c \in Callers, Rest(c), UNCHANGED <<file, onDisk, request>>,
           Phase(c)' = Phase(c), Heard(c)' = Heard(c)
    PROVE  UNCHANGED Registry!vars
<1>1. UNCHANGED <<Phases, Hearing>>
  BY DEF Rest, Phases, Hearing
<1> QED
  BY <1>1 DEF Registry!vars, Phases, Phase, Hearing, Heard

LEMMA Refused ==
    ASSUME NEW c \in Callers, Rest(c), UNCHANGED <<file, onDisk, request>>,
           Phase(c) = "called" \/ (UnlockMayFail /\ Phase(c) = "applied"),
           Phase(c)' = "returned", Heard(c)' = Registry!Refusal
    PROVE  Registry!Refuse(c)
BY Moved DEF Registry!Refuse, Phases, Phase, Hearing, Heard

LEMMA Returned ==
    ASSUME NEW c \in Callers, Rest(c), UNCHANGED <<file, onDisk, request>>,
           Phase(c) = "applied", Phase(c)' = "returned", Heard(c)' = Heard(c)
    PROVE  Registry!Return(c)
<1>1. Hearing' = Hearing
  BY DEF Rest, Hearing
<1> QED
  BY <1>1, Moved DEF Registry!Return, Phases, Phase, Hearing, Heard

LEMMA Died ==
    ASSUME NEW c \in Callers, Rest(c), UNCHANGED <<file, onDisk, request>>,
           Phase(c) \in {"called", "applied"}, Phase(c)' = "dead", Heard(c)' = Heard(c)
    PROVE  Registry!Die(c)
<1>1. Hearing' = Hearing
  BY DEF Rest, Hearing
<1> QED
  BY <1>1, Moved DEF Registry!Die, Registry!Running, Phases, Phase, Hearing, Heard

LEMMA Applied ==
    ASSUME NEW c \in Callers, Rest(c), UNCHANGED request,
           Phase(c) = "called", Phase(c)' = "applied",
           Heard(c)' = Registry!Reply(request[c], file.doc),
           IF Registry!Permitted(request[c], file.doc)
           THEN /\ file'.doc = Registry!Effect(request[c], file.doc)
                /\ {f.doc : f \in onDisk'} = {f.doc : f \in onDisk} \cup {file'.doc}
           ELSE UNCHANGED <<file, onDisk>>
    PROVE  Registry!Apply(c)
BY Moved DEF Registry!Apply, Phases, Phase, Hearing, Heard

LEMMA RestStands ==
    ASSUME TypeOK, NEW c \in Callers, NEW label, pc' = [pc EXCEPT ![c] = label],
           answer' = answer \/ \E a : answer' = [answer EXCEPT ![c] = a]
    PROVE  Rest(c) /\ pc'[c] = label
BY DEF TypeOK, Rest, Phase, Heard

(* A step of a process is one of the registry or none: a call takes effect  *)
(* when it reads, when it finds no profile to change, or when it renames.   *)
LEMMA ActIsPromised ==
    ASSUME IInv, IInv', NEW c \in Callers, Act(c)
    PROVE  Registry!Next \/ UNCHANGED Registry!vars
<1> USE DEF Goto, Answers
<1>0. TypeOK /\ Told(c) /\ file.doc \in Documents(Values)
  BY DEF IInv, TypeOK, Files
<1>1. ASSUME NEW r \in Registry!Requests, Call(c, r) PROVE Registry!Call(c, r)
  <2>1. Rest(c) /\ pc'[c] \in {"read", "lock"}
    BY <1>0, <1>1, RestStands DEF Call
  <2>2. Phase(c) = "idle" /\ Phase(c)' = "called" /\ Heard(c)' = Heard(c)
    BY <1>0, <1>1, <2>1, AnswersAre DEF Call, Phase, Heard, Told
  <2>3. Hearing' = Hearing
    BY <2>1, <2>2 DEF Rest, Hearing
  <2> QED
    BY <1>1, <2>1, <2>2, <2>3, Moved DEF Call, Registry!Call, Phases, Phase, Hearing, Heard
<1>2. ASSUME Lock(c) \/ Create(c) \/ Write(c) \/ Sync(c) \/ Exit(c) PROVE UNCHANGED Registry!vars
  <2>1. Rest(c)
    BY <1>0, <1>2, RestStands DEF Lock, Create, Write, Sync, Exit
  <2>2. Phase(c)' = Phase(c) /\ Heard(c)' = Heard(c)
    BY <1>0, <1>2 DEF Lock, Create, Write, Sync, Exit, Phase, Heard, TypeOK
  <2> QED
    BY <1>2, <2>1, <2>2, Unmoved DEF Lock, Create, Write, Sync, Exit
<1>3. ASSUME LockFails(c) \/ LoadFails(c) \/ SaveFails(c) PROVE UNCHANGED Registry!vars
  <2>1. Rest(c) /\ pc'[c] = "finish" /\ answer'[c] = Registry!Refusal
    BY <1>0, <1>3, RestStands DEF LockFails, LoadFails, SaveFails, TypeOK
  <2>2. /\ answer[c] = Registry!NoAnswer
        /\ pc[c] \in {"lock", "load", "read"} \cup Saving
    BY <1>0, <1>3 DEF LockFails, LoadFails, SaveFails, Told, Mutating
  <2>3. Phase(c)' = Phase(c) /\ Heard(c)' = Heard(c)
    BY <2>1, <2>2, AnswersAre DEF Phase, Heard, Saving
  <2> QED
    BY <1>3, <2>1, <2>3, Unmoved DEF LockFails, LoadFails, SaveFails
<1>4. ASSUME Load(c) PROVE Registry!Apply(c) \/ UNCHANGED Registry!vars
  <2>1. Rest(c) /\ answer[c] = Registry!NoAnswer
    BY <1>0, <1>4, RestStands DEF Load, Told, Mutating
  <2>2. CASE Registry!Permitted(request[c], file.doc)
    <3>1. Phase(c)' = Phase(c) /\ Heard(c)' = Heard(c)
      BY <1>0, <1>4, <2>2 DEF Load, Phase, Heard, TypeOK
    <3> QED
      BY <1>4, <2>1, <2>2, <3>1, Unmoved DEF Load
  <2>3. CASE ~Registry!Permitted(request[c], file.doc)
    <3>1. pc'[c] = "finish" /\ answer'[c] = Registry!Reply(request[c], file.doc)
      BY <1>0, <1>4, <2>3 DEF Load, TypeOK
    <3>2. /\ Phase(c) = "called" /\ Phase(c)' = "applied"
          /\ Heard(c)' = Registry!Reply(request[c], file.doc)
      BY <1>0, <1>4, <3>1, AnswersAre DEF Load, Phase, Heard
    <3> QED
      BY <1>4, <2>1, <2>3, <3>2, Applied DEF Load
  <2> QED
    BY <2>2, <2>3
<1>5. ASSUME Read(c) PROVE Registry!Apply(c)
  <2>1. /\ Rest(c) /\ pc[c] = "read" /\ pc'[c] = "finish"
        /\ answer'[c] = Registry!Reply(request[c], file.doc)
    BY <1>0, <1>5, RestStands DEF Read, TypeOK
  <2>2. /\ Phase(c) = "called" /\ Phase(c)' = "applied"
        /\ Heard(c)' = Registry!Reply(request[c], file.doc)
    BY <1>0, <2>1, AnswersAre DEF Phase, Heard
  <2>3. request[c].op = "read"
    BY <1>0, <2>1 DEF Told
  <2>4. /\ file'.doc = Registry!Effect(request[c], file.doc)
        /\ file.doc \in {f.doc : f \in onDisk}
    BY <1>5, <2>3 DEF Read, Registry!Effect, IInv, Settled
  <2> QED
    BY <1>5, <2>1, <2>2, <2>3, <2>4, Applied DEF Read, Registry!Permitted
<1>6. ASSUME Rename(c) PROVE Registry!Apply(c)
  <2>1. /\ request[c].op # "read" /\ Registry!Permitted(request[c], file.doc)
        /\ temporary[c].doc = Registry!Effect(request[c], file.doc)
    <3>1. pc[c] = "rename" /\ Buffered(c)
      BY <1>6 DEF Rename, IInv
    <3>2. request[c].op # "read"
      BY <1>0, <3>1 DEF Told, Mutating, Saving
    <3> QED
      BY <3>1, <3>2 DEF Buffered, Saving
  <2>2. /\ Rest(c) /\ pc[c] = "rename" /\ pc'[c] = "finish"
        /\ answer'[c] = [status |-> "ok", seen |-> EmptyDocument]
    BY <1>0, <1>6, RestStands DEF Rename, TypeOK
  <2>3. Registry!Reply(request[c], file.doc) = [status |-> "ok", seen |-> EmptyDocument]
    BY <2>1, SameOperations DEF Registry!Reply
  <2>4. /\ Phase(c) = "called" /\ Phase(c)' = "applied"
        /\ Heard(c)' = Registry!Reply(request[c], file.doc)
    BY <2>2, <2>3 DEF Phase, Heard
  <2> QED
    BY <1>6, <2>1, <2>2, <2>4, Applied DEF Rename
<1>7. ASSUME Finish(c) PROVE Registry!Return(c) \/ Registry!Refuse(c)
  <2>1. Rest(c) /\ pc[c] = "finish" /\ pc'[c] = "done" /\ answer' = answer
    BY <1>0, <1>7, RestStands DEF Finish
  <2>2. CASE answer[c].status = "error"
    <3>1. /\ Phase(c) = "called" /\ Phase(c)' = "returned"
          /\ Heard(c)' = Registry!Refusal
      BY <1>0, <2>1, <2>2 DEF Phase, Heard, Told
    <3> QED
      BY <1>7, <2>1, <3>1, Refused DEF Finish
  <2>3. CASE answer[c].status # "error"
    <3>1. Phase(c) = "applied" /\ Phase(c)' = "returned" /\ Heard(c)' = Heard(c)
      BY <2>1, <2>3 DEF Phase, Heard
    <3> QED
      BY <1>7, <2>1, <3>1, Returned DEF Finish
  <2> QED
    BY <2>2, <2>3
<1>8. ASSUME UnlockFails(c) PROVE Registry!Refuse(c)
  <2>1. /\ Rest(c) /\ pc[c] = "finish" /\ pc'[c] = "leaving"
        /\ answer'[c] = Registry!Refusal /\ UnlockMayFail
    BY <1>0, <1>8, RestStands DEF UnlockFails, TypeOK
  <2>2. /\ Phase(c) \in {"called", "applied"} /\ Phase(c)' = "returned"
        /\ Heard(c)' = Registry!Refusal
    BY <2>1 DEF Phase, Heard
  <2> QED
    BY <1>8, <2>1, <2>2, Refused DEF UnlockFails
<1>9. ASSUME Crash(c) PROVE Registry!Die(c)
  <2>1. Rest(c) /\ pc[c] \in Active \ {"leaving"} /\ pc'[c] = "dead" /\ answer' = answer
    BY <1>0, <1>9, RestStands DEF Crash
  <2>2. pc[c] # "finish" => answer[c] = Registry!NoAnswer
    BY <1>0, <2>1 DEF Told, Active, Mutating
  <2>3. Phase(c) \in {"called", "applied"} /\ Phase(c)' = "dead" /\ Heard(c)' = Heard(c)
    BY <2>1, <2>2, AnswersAre DEF Phase, Heard, Active, Saving
  <2> QED
    BY <1>9, <2>1, <2>3, Died DEF Crash
<1> QED
  BY <1>1, <1>2, <1>3, <1>4, <1>5, <1>6, <1>7, <1>8, <1>9
     DEF Act, Step, Failure, Registry!Next

LEMMA RegistryStep == IInv /\ IInv' /\ [Next]_vars => [Registry!Next]_(Registry!vars)
<1> SUFFICES ASSUME IInv, IInv', [Next]_vars
             PROVE  Registry!Next \/ UNCHANGED Registry!vars
  OBVIOUS
<1>1. ASSUME NEW c \in Callers, Act(c) PROVE Registry!Next \/ UNCHANGED Registry!vars
  BY <1>1, ActIsPromised
<1>2. CASE WriteBack
  <2>1. Registry!Flush
    BY <1>2 DEF WriteBack, Registry!Flush
  <2> QED
    BY <2>1 DEF Registry!Next
<1>3. CASE PowerLoss
  <2>1. PICK f \in onDisk : file' = f
    BY <1>3 DEF PowerLoss, AfterPowerLoss, IInv, Settled
  <2>2. file'.doc \in {g.doc : g \in onDisk} /\ {g.doc : g \in onDisk'} = {file'.doc}
    BY <1>3, <2>1 DEF PowerLoss
  <2>3. ASSUME NEW c \in Callers
        PROVE  /\ Phase(c)' = IF Phase(c) \in {"called", "applied"} THEN "dead" ELSE Phase(c)
               /\ Heard(c)' = Heard(c)
    <3>1. pc[c] \in {"idle", "done", "dead"} \cup Active
      BY DEF IInv, TypeOK
    <3>2. pc[c] \in Active \ {"finish", "leaving"} => answer[c] = Registry!NoAnswer
      BY DEF IInv, Told, Active, Mutating
    <3>3. CASE pc[c] \in Active \ {"leaving"}
      <4>1. pc'[c] = "dead" /\ answer' = answer
        BY <1>3, <3>3 DEF PowerLoss, Active, Saving
      <4> QED
        BY <3>2, <3>3, <4>1, AnswersAre DEF Phase, Heard, Active, Saving
    <3>4. CASE pc[c] \in {"idle", "done", "dead", "leaving"}
      <4>1. pc'[c] = (IF pc[c] = "leaving" THEN "done" ELSE pc[c]) /\ answer' = answer
        BY <1>3, <3>4 DEF PowerLoss, Active, Saving
      <4> QED
        BY <3>4, <4>1 DEF Phase, Heard
    <3> QED
      BY <3>1, <3>3, <3>4
  <2>4. /\ Phases' = [c \in Callers |-> IF Phases[c] \in {"called", "applied"}
                                         THEN "dead" ELSE Phases[c]]
        /\ Hearing' = Hearing
    BY <2>3 DEF Phases, Hearing
  <2>5. Registry!PowerLoss
    BY <1>3, <2>2, <2>4 DEF PowerLoss, Registry!PowerLoss, Registry!Running,
                            Phases, Phase, Hearing, Heard
  <2> QED
    BY <2>5 DEF Registry!Next
<1>4. CASE UNCHANGED vars
  BY <1>4 DEF vars, Registry!vars
<1> QED
  BY <1>1, <1>2, <1>3, <1>4 DEF Next, Act

(* The file store implements the registry for all names, values and         *)
(* processes: its calls are atomic, whatever fails, is killed or loses      *)
(* power, and whether or not unlocking may fail (FileStore).                *)
THEOREM CallsAreAtomic == Spec => ImplementsRegistry
BY InvHolds, RegistryInit, RegistryStep, PTL DEF Spec, ImplementsRegistry, Registry!Spec
=============================================================================
