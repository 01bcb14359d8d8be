------------------------- MODULE NetworkCommandProofs -------------------------
(***************************************************************************)
(* Proofs about NetworkCommand, for all command lines, profiles and steps  *)
(* of other processes: its types, the order in which connections are       *)
(* looked for, the close of every client, and the promise of OneRequest.   *)
(***************************************************************************)
EXTENDS NetworkCommand, WellFoundedInduction, TLAPS

-----------------------------------------------------------------------------
(* The profile document                                                     *)

(* A map is a function from some of the keys to values.                     *)
LEMMA MapsFromIs ==
    ASSUME NEW keys, NEW values, NEW m
    PROVE  m \in MapsFrom(keys, values)
              <=> /\ m = [k \in DOMAIN m |-> m[k]]
                  /\ DOMAIN m \subseteq keys
                  /\ \A k \in DOMAIN m : m[k] \in values
BY DEF MapsFrom

(* Insert adds one key, sets its value, and leaves the others (Go's m[k]=v). *)
LEMMA InsertIs ==
    ASSUME NEW keys, NEW values, NEW m \in MapsFrom(keys, values),
           NEW k \in keys, NEW v \in values
    PROVE  /\ Insert(m, k, v) \in MapsFrom(keys, values)
           /\ DOMAIN Insert(m, k, v) = DOMAIN m \cup {k}
           /\ Insert(m, k, v)[k] = v
           /\ \A x \in DOMAIN m \ {k} : Insert(m, k, v)[x] = m[x]
BY MapsFromIs DEF Insert

(* Remove takes one key away and leaves the others (Go's delete(m, k)).      *)
LEMMA RemoveIs ==
    ASSUME NEW keys, NEW values, NEW m \in MapsFrom(keys, values), NEW k
    PROVE  /\ Remove(m, k) \in MapsFrom(keys, values)
           /\ DOMAIN Remove(m, k) = DOMAIN m \ {k}
           /\ \A x \in DOMAIN m \ {k} : Remove(m, k)[x] = m[x]
BY MapsFromIs DEF Remove

(* A set of names that is not empty has a first name.                       *)
LEMMA FirstNameIsIn ==
    ASSUME NEW S \in SUBSET Names, S # {}
    PROVE  FirstName(S) \in S
<1>1. S \subseteq Nat
  BY NamesAssumption
<1>2. PICK n \in S : \A m \in S : ~(<<m, n>> \in OpToRel(<, Nat))
  BY <1>1, NatLessThanWellFounded, WFMin, Zenon
<1>3. ASSUME NEW m \in S
      PROVE  n <= m
  <2>1. m \in Nat /\ n \in Nat /\ ~(<<m, n>> \in {ss \in Nat \X Nat : ss[1] < ss[2]})
    BY <1>1, <1>2 DEF OpToRel
  <2> QED
    BY <2>1
<1> QED
  BY <1>3 DEF FirstName

(* The replacement for a deleted selection is a saved profile, or none when *)
(* none is left.                                                            *)
LEMMA ReplacementIs ==
    ASSUME NEW values, NEW m \in MapsFrom(Names, values)
    PROVE  IF DOMAIN m = {} THEN Replacement(m) = NoName
                            ELSE Replacement(m) \in DOMAIN m
<1>1. DOMAIN m \in SUBSET Names
  BY MapsFromIs
<1> QED
  BY <1>1, FirstNameIsIn, NamesAssumption DEF Replacement

LEMMA NoNameIsNoName == NoName \notin Names
BY NamesAssumption DEF NoName

(* Put, Use and Delete save a document when they are given one.             *)
LEMMA OperationsYieldDocuments ==
    ASSUME NEW values, NEW d \in Documents(values), NEW n \in Names
    PROVE  /\ \A v \in values : PutProfile(d, n, v) \in Documents(values)
           /\ UseProfile(d, n) \in Documents(values)
           /\ DeleteProfile(d, n) \in Documents(values)
<1>1. d.profiles \in MapsFrom(Names, values) /\ d.current \in Names \cup {NoName}
  BY DEF Documents
<1>2. ASSUME NEW v \in values
      PROVE  PutProfile(d, n, v) \in Documents(values)
  BY <1>1, InsertIs DEF PutProfile, Documents
<1>3. UseProfile(d, n) \in Documents(values)
  BY DEF UseProfile, Documents
<1>4. DeleteProfile(d, n) \in Documents(values)
  <2> DEFINE rest == Remove(d.profiles, n)
  <2>1. rest \in MapsFrom(Names, values)
    BY <1>1, RemoveIs
  <2>2. Replacement(rest) \in Names \cup {NoName}
    BY <2>1, ReplacementIs, MapsFromIs
  <2> QED
    BY <1>1, <2>1, <2>2 DEF DeleteProfile, Documents
<1> QED
  BY <1>2, <1>3, <1>4

(* Put, Use and Delete keep a saved profile selected whenever there is one: *)
(* the first Put selects, Delete moves the selection off what it deletes.   *)
LEMMA OperationsKeepSelection ==
    ASSUME NEW values, NEW d \in Documents(values), NEW n \in Names,
           WellSelected(d)
    PROVE  /\ \A v \in values : WellSelected(PutProfile(d, n, v))
           /\ Has(d, n) => WellSelected(UseProfile(d, n))
           /\ WellSelected(DeleteProfile(d, n))
<1>1. d.profiles \in MapsFrom(Names, values)
  BY DEF Documents
<1>2. ASSUME NEW v \in values
      PROVE  WellSelected(PutProfile(d, n, v))
  <2>1. DOMAIN PutProfile(d, n, v).profiles = DOMAIN d.profiles \cup {n}
    BY DEF PutProfile, Insert
  <2>2. d.current # NoName => d.current \in DOMAIN d.profiles
    BY DEF WellSelected, Has
  <2> QED
    BY <2>1, <2>2 DEF WellSelected, PutProfile, Has
<1>3. Has(d, n) => WellSelected(UseProfile(d, n))
  BY DEF WellSelected, UseProfile, Has, Documents
<1>4. WellSelected(DeleteProfile(d, n))
  <2> DEFINE rest == Remove(d.profiles, n)
  <2>1. rest \in MapsFrom(Names, values)
    BY <1>1, RemoveIs
  <2>2. DOMAIN rest = DOMAIN d.profiles \ {n}
    BY DEF Remove
  <2>3. IF DOMAIN rest = {} THEN Replacement(rest) = NoName
                            ELSE Replacement(rest) \in DOMAIN rest
    BY <2>1, ReplacementIs
  <2>4. DOMAIN d.profiles \subseteq Names
    BY <1>1, MapsFromIs
  <2> QED
    BY <2>2, <2>3, <2>4, NoNameIsNoName DEF WellSelected, DeleteProfile, Has
<1> QED
  BY <1>2, <1>3, <1>4

(* A selection that is saved is what Current returns, and without one       *)
(* nothing is saved.                                                        *)
LEMMA CurrentIsSelected ==
    ASSUME NEW values, NEW d \in Documents(values), WellSelected(d)
    PROVE  /\ CurrentName(d) = d.current
           /\ CurrentName(d) = NoName <=> DOMAIN d.profiles = {}
<1>1. d.profiles \in MapsFrom(Names, values) /\ DOMAIN d.profiles \subseteq Names
  BY MapsFromIs DEF Documents
<1>2. CASE DOMAIN d.profiles = {}
  BY <1>1, <1>2, ReplacementIs DEF WellSelected, CurrentName, Has
<1>3. CASE DOMAIN d.profiles # {}
  BY <1>1, <1>3, NoNameIsNoName DEF WellSelected, CurrentName, Has
<1> QED
  BY <1>2, <1>3

-----------------------------------------------------------------------------
(* The inductive invariant                                                  *)

\* What has been decided when a command has come to a place
PlaceFits ==
    /\ pc \in {"start", "environment", "select"} => source = None
    /\ pc \in {"environment", "select"} => inv.flag = None
    /\ pc = "select" => inv.env = "absent"
    /\ pc \in {"profile", "secret", "dial", "operate", "wait", "close", "report"} =>
           Connects(inv.command)
    /\ pc = "remove" => ~Connects(inv.command)
    /\ pc \in {"profile", "secret", "remove"} => name # None

\* A client is open for the operation, and nothing is sent without one.
ClientFits ==
    /\ (client = "open") = (pc \in {"operate", "wait", "close"})
    /\ request # "none" => client # "none"
    /\ pc \notin {"wait", "close", "report", "done"} => request = "none"
    /\ pc = "report" => client = "closed"

\* A success is the server's, and a command that is over has an outcome.
OutcomeFits ==
    /\ (outcome = None) = (pc # "done")
    /\ pc \in {"close", "report"} => result \in {"ok", "error"}
    /\ result = "ok" => request = "done"
    /\ request # "none" => Connects(inv.command)
    /\ outcome = "success" /\ Connects(inv.command) => request = "done"

IInv == TypeOK /\ PlaceFits /\ ClientFits /\ OutcomeFits /\ ResolvedInOrder

LEMMA InitEstablishes == Init => IInv
<1> SUFFICES ASSUME Init PROVE IInv
  OBVIOUS
<1> USE NamesAssumption, NoneAssumption
<1>1. TypeOK
  <2>0. over \in BOOLEAN
    BY Zenon DEF Init
  <2>1. turns \in 0..MaxTurns
    BY BoundAssumption DEF Init
  <2>2. /\ doc \in Documents({Metadata}) /\ WellSelected(doc)
        /\ secrets \subseteq DOMAIN doc.profiles
    BY DEF Init
  <2>3. doc \in seen /\ picked \subseteq Names
    BY DEF Init, Documents
  <2>4. name \in Names \cup {None} /\ (source = "profile" <=> name # None)
    BY DEF Init
  <2> QED
    BY <2>0, <2>1, <2>2, <2>3, <2>4 DEF Init, TypeOK
<1>2. PlaceFits /\ ClientFits /\ OutcomeFits
  BY DEF Init, PlaceFits, ClientFits, OutcomeFits
<1>3. ResolvedInOrder
  BY DEF Init, ResolvedInOrder
<1> QED
  BY <1>1, <1>2, <1>3 DEF IInv

\* A document once seen stays seen: what was in order stays in order.
LEMMA OrderKept ==
    ASSUME ResolvedInOrder, UNCHANGED <<inv, source, name>>, seen \subseteq seen'
    PROVE  ResolvedInOrder'
BY DEF ResolvedInOrder, Resolved

\* What is chosen by the document of this moment is in order.
LEMMA ResolvedNow ==
    ASSUME IInv, UNCHANGED <<inv, seen>>, <<source', name'>> = Resolved(doc)
    PROVE  ResolvedInOrder'
<1>1. doc \in seen /\ seen' = seen
  BY DEF IInv, TypeOK
<1>2. \A d : Resolved(d)' = Resolved(d)
  BY DEF Resolved
<1> QED
  BY <1>1, <1>2 DEF ResolvedInOrder

LEMMA StartKeeps == IInv /\ Start => IInv'
<1> SUFFICES ASSUME IInv, Start PROVE IInv'
  OBVIOUS
<1> USE NamesAssumption, NoneAssumption, InvocationsAssumption
<1>1. TypeOK'
  BY DEF IInv, TypeOK, PlaceFits, Start, Fail, Finish, chosen, world
<1>2. PlaceFits' /\ ClientFits' /\ OutcomeFits'
  BY DEF IInv, TypeOK, PlaceFits, ClientFits, OutcomeFits, Start, Fail, Finish, chosen, world
<1>3. ResolvedInOrder'
  <2>1. CASE source' = None
    BY <2>1 DEF ResolvedInOrder
  <2>2. CASE source' # None
    <3>1. source' = "profile" /\ name' = inv.flag /\ inv.flag # None /\ UNCHANGED <<inv, seen>>
      BY <2>2 DEF IInv, PlaceFits, Start, chosen, world
    <3>2. Resolved(doc) = <<"profile", inv.flag>>
      BY <3>1 DEF Resolved
    <3> QED
      BY <3>1, <3>2, ResolvedNow
  <2> QED
    BY <2>1, <2>2
<1> QED
  BY <1>1, <1>2, <1>3 DEF IInv

LEMMA EnvironmentKeeps == IInv /\ Environment => IInv'
<1> SUFFICES ASSUME IInv, Environment PROVE IInv'
  OBVIOUS
<1> USE NamesAssumption, NoneAssumption, InvocationsAssumption
<1>1. TypeOK'
  BY DEF IInv, TypeOK, PlaceFits, Environment, Fail, Finish, chosen, world
<1>2. PlaceFits' /\ ClientFits' /\ OutcomeFits'
  BY DEF IInv, TypeOK, PlaceFits, ClientFits, OutcomeFits, Environment, Fail, Finish,
         chosen, world
<1>3. ResolvedInOrder'
  <2>1. CASE source' = None
    BY <2>1 DEF ResolvedInOrder
  <2>2. CASE source' # None
    <3>1. /\ source' = "environment" /\ name' = None /\ UNCHANGED <<inv, seen>>
          /\ inv.flag = None /\ inv.env = "complete"
      BY <2>2 DEF IInv, TypeOK, PlaceFits, Environment, chosen, world
    <3>2. Resolved(doc) = <<"environment", None>>
      BY <3>1 DEF Resolved
    <3> QED
      BY <3>1, <3>2, ResolvedNow
  <2> QED
    BY <2>1, <2>2
<1> QED
  BY <1>1, <1>2, <1>3 DEF IInv

LEMMA SelectKeeps == IInv /\ Select => IInv'
<1> SUFFICES ASSUME IInv, Select PROVE IInv'
  OBVIOUS
<1> USE NamesAssumption, NoneAssumption, InvocationsAssumption
<1>0. /\ CurrentName(doc) = doc.current /\ doc.current \in Names \cup {NoName}
      /\ CurrentName(doc) = NoName <=> DOMAIN doc.profiles = {}
  BY CurrentIsSelected DEF IInv, TypeOK, Documents
<1>1. TypeOK'
  BY <1>0 DEF IInv, TypeOK, PlaceFits, Select, Fail, Finish, chosen, world
<1>2. PlaceFits' /\ ClientFits' /\ OutcomeFits'
  BY <1>0 DEF IInv, TypeOK, PlaceFits, ClientFits, OutcomeFits, Select, Fail, Finish,
              chosen, world
<1>3. ResolvedInOrder'
  <2>1. CASE source' = None
    BY <2>1 DEF ResolvedInOrder
  <2>2. CASE source' # None
    <3>1. /\ source' = "profile"
          /\ name' = IF inv.variable # NoName THEN inv.variable
                     ELSE IF CurrentName(doc) # NoName THEN CurrentName(doc)
                     ELSE DefaultName
          /\ UNCHANGED <<inv, seen>>
      BY <2>2 DEF IInv, PlaceFits, Select, chosen, world
    <3>2. inv.flag = None /\ inv.env = "absent"
      BY DEF IInv, PlaceFits, Select
    <3>3. Resolved(doc) = <<"profile", name'>>
      <4>1. CASE inv.variable # NoName
        BY <3>1, <3>2, <4>1 DEF Resolved
      <4>2. CASE inv.variable = NoName /\ DOMAIN doc.profiles # {}
        BY <1>0, <3>1, <3>2, <4>2 DEF Resolved
      <4>3. CASE inv.variable = NoName /\ DOMAIN doc.profiles = {}
        BY <1>0, <3>1, <3>2, <4>3 DEF Resolved
      <4> QED
        BY <4>1, <4>2, <4>3
    <3> QED
      BY <3>1, <3>3, ResolvedNow
  <2> QED
    BY <2>1, <2>2
<1> QED
  BY <1>1, <1>2, <1>3 DEF IInv

\* The steps that look up, dial, send, close and report
LEMMA StepsKeep ==
    IInv /\ (\/ LoadProfile \/ LoadSecret \/ Dial \/ Unsupported \/ Send \/ Answer
             \/ GiveUp \/ Close \/ Report \/ Serve \/ Break \/ Expire) => IInv'
<1> SUFFICES ASSUME IInv,
                    \/ LoadProfile \/ LoadSecret \/ Dial \/ Unsupported \/ Send \/ Answer
                    \/ GiveUp \/ Close \/ Report \/ Serve \/ Break \/ Expire
             PROVE  IInv'
  OBVIOUS
<1> USE NamesAssumption, NoneAssumption
        DEF IInv, TypeOK, PlaceFits, ClientFits, OutcomeFits, Fail, Finish, Conclude,
            chosen, world
<1>0. ResolvedInOrder'
  <2>1. UNCHANGED <<inv, source, name, seen>>
    BY DEF LoadProfile, LoadSecret, Dial, Unsupported, Send, Answer, GiveUp, Close, Report,
           Serve, Break, Expire
  <2> QED
    BY <2>1, OrderKept
<1>1. CASE LoadProfile
  BY <1>0, <1>1 DEF LoadProfile
<1>2. CASE LoadSecret
  BY <1>0, <1>2 DEF LoadSecret
<1>3. CASE Dial
  BY <1>0, <1>3 DEF Dial
<1>4. CASE Unsupported
  BY <1>0, <1>4 DEF Unsupported
<1>5. CASE Send
  BY <1>0, <1>5 DEF Send
<1>6. CASE Answer
  BY <1>0, <1>6 DEF Answer
<1>7. CASE GiveUp
  BY <1>0, <1>7 DEF GiveUp
<1>8. CASE Close
  BY <1>0, <1>8 DEF Close
<1>9. CASE Report
  BY <1>0, <1>9 DEF Report
<1>10. CASE Serve
  BY <1>0, <1>10 DEF Serve
<1>11. CASE Break
  BY <1>0, <1>11 DEF Break
<1>12. CASE Expire
  BY <1>0, <1>12 DEF Expire
<1> QED
  BY <1>1, <1>2, <1>3, <1>4, <1>5, <1>6, <1>7, <1>8, <1>9, <1>10, <1>11, <1>12

LEMMA RemoveKeeps == IInv /\ RemoveSecret => IInv'
<1> SUFFICES ASSUME IInv, RemoveSecret PROVE IInv'
  OBVIOUS
<1>1. ResolvedInOrder'
  BY OrderKept DEF IInv, RemoveSecret, chosen
<1>2. TypeOK'
  BY NoneAssumption DEF IInv, TypeOK, RemoveSecret, Fail, Finish, chosen
<1>3. PlaceFits' /\ ClientFits' /\ OutcomeFits'
  BY NoneAssumption DEF IInv, TypeOK, PlaceFits, ClientFits, OutcomeFits, RemoveSecret,
                        Fail, Finish, chosen
<1> QED
  BY <1>1, <1>2, <1>3 DEF IInv

\* Another process leaves a document that selects a saved profile, and no
\* secret without a profile.
LEMMA ElsewhereOnDocument ==
    ASSUME IInv, Elsewhere
    PROVE  /\ doc' \in Documents({Metadata}) /\ WellSelected(doc')
           /\ secrets' \subseteq DOMAIN doc'.profiles
           /\ picked' \subseteq Names
<1> USE DEF IInv, TypeOK
<1>0. PICK n \in Names :
          UseElsewhere(n) \/ SaveElsewhere(n) \/ DeleteElsewhere(n) \/ LogoutElsewhere(n)
  BY DEF Elsewhere
<1>1. /\ UseProfile(doc, n) \in Documents({Metadata})
      /\ PutProfile(doc, n, Metadata) \in Documents({Metadata})
      /\ DeleteProfile(doc, n) \in Documents({Metadata})
  BY OperationsYieldDocuments
<1>2. /\ Has(doc, n) => WellSelected(UseProfile(doc, n))
      /\ WellSelected(PutProfile(doc, n, Metadata))
      /\ WellSelected(DeleteProfile(doc, n))
  BY OperationsKeepSelection
<1>3. CASE UseElsewhere(n)
  BY <1>1, <1>2, <1>3 DEF UseElsewhere, UseProfile, Documents
<1>4. CASE SaveElsewhere(n)
  <2>1. DOMAIN PutProfile(doc, n, Metadata).profiles = DOMAIN doc.profiles \cup {n}
    BY DEF PutProfile, Insert
  <2> QED
    BY <1>1, <1>2, <1>4, <2>1 DEF SaveElsewhere
<1>5. CASE DeleteElsewhere(n)
  <2>1. DOMAIN DeleteProfile(doc, n).profiles = DOMAIN doc.profiles \ {n}
    BY DEF DeleteProfile, Remove
  <2> QED
    BY <1>1, <1>2, <1>5, <2>1 DEF DeleteElsewhere
<1>6. CASE LogoutElsewhere(n)
  BY <1>6 DEF LogoutElsewhere
<1> QED
  BY <1>0, <1>3, <1>4, <1>5, <1>6

LEMMA ElsewhereKeeps == IInv /\ Elsewhere => IInv'
<1> SUFFICES ASSUME IInv, Elsewhere PROVE IInv'
  OBVIOUS
<1>1. Turn
  BY DEF Elsewhere, UseElsewhere, SaveElsewhere, DeleteElsewhere, LogoutElsewhere
<1>2. UNCHANGED <<inv, pc, chosen, client, request, result, outcome, over>>
  BY <1>1 DEF Turn
<1>3. ResolvedInOrder'
  BY <1>1, <1>2, OrderKept DEF IInv, Turn, chosen
<1>4. PlaceFits' /\ ClientFits' /\ OutcomeFits'
  BY <1>2 DEF IInv, PlaceFits, ClientFits, OutcomeFits, chosen
<1>5. TypeOK'
  <2>1. turns' \in 0..MaxTurns
    BY <1>1, BoundAssumption DEF IInv, TypeOK, Turn
  <2>2. doc' \in seen'
    BY <1>1 DEF Turn
  <2> QED
    BY <1>2, <2>1, <2>2, ElsewhereOnDocument DEF IInv, TypeOK, chosen
<1> QED
  BY <1>3, <1>4, <1>5 DEF IInv

LEMMA NextKeeps == IInv /\ [Next]_vars => IInv'
<1> SUFFICES ASSUME IInv, [Next]_vars PROVE IInv'
  OBVIOUS
<1>1. CASE Next
  BY <1>1, StartKeeps, EnvironmentKeeps, SelectKeeps, StepsKeep, RemoveKeeps, ElsewhereKeeps
     DEF Next, Command
<1>2. CASE UNCHANGED vars
  <2>1. ResolvedInOrder'
    BY <1>2, OrderKept DEF IInv, vars, chosen, world
  <2>2. TypeOK' /\ PlaceFits' /\ ClientFits' /\ OutcomeFits'
    BY <1>2 DEF vars, chosen, world, IInv, TypeOK, PlaceFits, ClientFits, OutcomeFits
  <2> QED
    BY <2>1, <2>2 DEF IInv
<1> QED
  BY <1>1, <1>2

LEMMA InvHolds == Spec => []IInv
BY InitEstablishes, NextKeeps, PTL DEF Spec

-----------------------------------------------------------------------------

(* Every variable always has its type (network.go).                         *)
THEOREM TypeCorrect == Spec => []TypeOK
BY InvHolds, PTL DEF IInv

(* Whatever other processes select, save, delete or log out while a command *)
(* runs, it works on the first of the order by a document that was in force *)
(* meanwhile; "default" without being selected only if nothing was saved    *)
(* (openActiveConnection, selectedProfile, Current, Put, Delete).           *)
THEOREM OrderIsKept == Spec => []ResolvedInOrder
BY InvHolds, PTL DEF IInv

(* No command ends with a client that is open, or asks for anything without *)
(* one (runNetworkCommand).                                                 *)
THEOREM ClientsAreClosed == Spec => []ClientsClosed
<1>1. IInv => ClientsClosed
  BY DEF IInv, ClientFits, ClientsClosed
<1> QED
  BY <1>1, InvHolds, PTL

-----------------------------------------------------------------------------
(* The promise                                                              *)

LEMMA PromiseInit == Init => Promise!Init
<1> SUFFICES ASSUME Init PROVE Promise!Init
  OBVIOUS
<1>1. Known = "running"
  BY DEF Init, Known
<1>2. (request = "done") = FALSE
  BY DEF Init
<1> QED
  BY <1>1, <1>2 DEF Promise!Init

LEMMA PromiseStep == IInv /\ IInv' /\ [Next]_vars => [Promise!Next]_<<request = "done", Known>>
<1> SUFFICES ASSUME IInv, IInv', [Next]_vars
             PROVE  Promise!Next \/ UNCHANGED <<request = "done", Known>>
  OBVIOUS
<1> USE NoneAssumption
<1>0. UNCHANGED inv
  BY DEF Next, Command, vars, world, chosen, Start, Environment, Select, LoadProfile,
         LoadSecret, Dial, RemoveSecret, Unsupported, Send, Answer, GiveUp, Close, Report,
         Serve, Break, Expire, Elsewhere, UseElsewhere, SaveElsewhere, DeleteElsewhere,
         LogoutElsewhere, Turn
<1>1. CASE Serve
  <2>1. request = "sent" /\ UNCHANGED outcome
    BY <1>1 DEF Serve
  <2>2. Known \in {"running", "unknown"}
    BY <2>1 DEF Known, IInv, OutcomeFits, TypeOK
  <2>3. UNCHANGED Known
    BY <1>0, <1>1, <2>1 DEF Known, Serve
  <2> QED
    BY <2>1, <2>2, <2>3 DEF Promise!Next, Promise!Do
<1>2. CASE Send
  <2>1. outcome = None /\ UNCHANGED outcome /\ request = "none" /\ request' = "sent"
    BY <1>2 DEF Send, IInv, OutcomeFits, ClientFits
  <2> QED
    BY <1>0, <2>1 DEF Known
<1>3. CASE UNCHANGED <<request, outcome>>
  BY <1>0, <1>3 DEF Known
<1>4. ASSUME UNCHANGED request, outcome = None, outcome' \in {"success", "failure"}
      PROVE  Promise!Next \/ UNCHANGED <<request = "done", Known>>
  <2>1. CASE ~Connects(inv.command)
    BY <1>0, <1>4, <2>1 DEF Known
  <2>2. CASE Connects(inv.command)
    <3>1. Known = "running"
      BY <1>4 DEF Known
    <3>2. Connects(inv.command)'
      BY <1>0, <2>2
    <3>3. CASE outcome' = "success"
      BY <1>4, <3>1, <3>2, <3>3
         DEF Known, IInv, OutcomeFits, Promise!Next, Promise!End
    <3>4. CASE outcome' = "failure"
      BY <1>4, <3>1, <3>2, <3>4 DEF Known, Promise!Next, Promise!End
    <3> QED
      BY <1>4, <3>3, <3>4
  <2> QED
    BY <2>1, <2>2
<1>5. CASE ~Serve /\ ~Send
  <2>1. UNCHANGED request
    BY <1>5 DEF Next, Command, vars, world, chosen, Start, Environment, Select, LoadProfile,
           LoadSecret, Dial, RemoveSecret, Unsupported, Answer, GiveUp, Close, Report,
           Break, Expire, Elsewhere, UseElsewhere, SaveElsewhere, DeleteElsewhere,
           LogoutElsewhere, Turn
  <2>2. UNCHANGED outcome \/ (pc # "done" /\ outcome' \in {"success", "failure"})
    BY <1>5 DEF Next, Command, vars, world, chosen, Start, Environment, Select, LoadProfile,
           LoadSecret, Dial, RemoveSecret, Unsupported, Answer, GiveUp, Close, Report,
           Break, Expire, Elsewhere, UseElsewhere, SaveElsewhere, DeleteElsewhere,
           LogoutElsewhere, Turn, Fail, Finish
  <2> QED
    BY <1>3, <1>4, <2>1, <2>2 DEF IInv, OutcomeFits
<1> QED
  BY <1>1, <1>2, <1>5

(* For every server, every timeout and every loss, what a user is told of a *)
(* command is true of its one request (runNetworkCommand).                  *)
THEOREM PromiseIsKept == Spec => KeepsPromise
BY InvHolds, PromiseInit, PromiseStep, PTL DEF Spec, KeepsPromise, Promise!Spec
=============================================================================
