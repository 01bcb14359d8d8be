--------------------------- MODULE ProfileRegistry ---------------------------
(***************************************************************************)
(* What a profile.Manager promises to the processes that share one store:  *)
(* each call takes effect at one instant between its start and its return, *)
(* on the document as it is at that instant, or has no effect at all.      *)
(* A process may die in a call.  A power loss kills every process and may  *)
(* bring back a document saved since the last flush of the directory, but  *)
(* never a mixture of two documents.                                       *)
(*                                                                         *)
(* UnlockMayFail admits a call that took effect and yet reports an error.  *)
(***************************************************************************)
EXTENDS ProfileDocument

CONSTANTS Values,         \* profile metadata, opaque to the registry
          Callers,        \* processes; each makes one call
          UnlockMayFail   \* may releasing the file lock report an error?

VARIABLES document,       \* the saved document
          recoverable,    \* documents a power loss may bring back
          request,        \* the call each process makes
          phase,          \* its progress
          answer          \* what it was told

vars == <<document, recoverable, request, phase, answer>>

Requests ==
    [op : {"put"}, name : Names, value : Values]
        \cup [op : {"use", "delete"}, name : Names]
        \cup [op : {"read"}, name : {NoName}]

NoRequest == [op |-> "none", name |-> NoName]

NoAnswer == [status |-> "none", seen |-> EmptyDocument]

Refusal == [status |-> "error", seen |-> EmptyDocument]

\* Use and Delete need the profile to exist; Put and a read do not.
Permitted(r, d) == r.op \in {"use", "delete"} => Has(d, r.name)

Effect(r, d) ==
    CASE r.op = "put"    -> PutProfile(d, r.name, r.value)
      [] r.op = "use"    -> UseProfile(d, r.name)
      [] r.op = "delete" -> DeleteProfile(d, r.name)
      [] r.op = "read"   -> d

\* A read is told the document, a mutation whether the profile existed.
Reply(r, d) ==
    [status |-> IF Permitted(r, d) THEN "ok" ELSE "not_found",
     seen   |-> IF r.op = "read" THEN d ELSE EmptyDocument]

-----------------------------------------------------------------------------

Init ==
    /\ document \in Documents(Values)
    /\ WellSelected(document)
    /\ recoverable = {document}
    /\ request = [c \in Callers |-> NoRequest]
    /\ phase = [c \in Callers |-> "idle"]
    /\ answer = [c \in Callers |-> NoAnswer]

Call(c, r) ==
    /\ phase[c] = "idle"
    /\ phase' = [phase EXCEPT ![c] = "called"]
    /\ request' = [request EXCEPT ![c] = r]
    /\ UNCHANGED <<document, recoverable, answer>>

Apply(c) ==
    /\ phase[c] = "called"
    /\ phase' = [phase EXCEPT ![c] = "applied"]
    /\ answer' = [answer EXCEPT ![c] = Reply(request[c], document)]
    /\ IF Permitted(request[c], document)
       THEN /\ document' = Effect(request[c], document)
            /\ recoverable' = recoverable \cup {document'}
       ELSE UNCHANGED <<document, recoverable>>
    /\ UNCHANGED request

Return(c) ==
    /\ phase[c] = "applied"
    /\ phase' = [phase EXCEPT ![c] = "returned"]
    /\ UNCHANGED <<document, recoverable, request, answer>>

Refuse(c) ==
    /\ \/ phase[c] = "called"
       \/ UnlockMayFail /\ phase[c] = "applied"
    /\ phase' = [phase EXCEPT ![c] = "returned"]
    /\ answer' = [answer EXCEPT ![c] = Refusal]
    /\ UNCHANGED <<document, recoverable, request>>

Running(c) == phase[c] \in {"called", "applied"}

Die(c) ==
    /\ Running(c)
    /\ phase' = [phase EXCEPT ![c] = "dead"]
    /\ UNCHANGED <<document, recoverable, request, answer>>

Flush ==
    /\ recoverable' = {document}
    /\ UNCHANGED <<document, request, phase, answer>>

PowerLoss ==
    /\ document' \in recoverable
    /\ recoverable' = {document'}
    /\ phase' = [c \in Callers |-> IF Running(c) THEN "dead" ELSE phase[c]]
    /\ UNCHANGED <<request, answer>>

Next ==
    \/ \E c \in Callers :
          \/ \E r \in Requests : Call(c, r)
          \/ Apply(c) \/ Return(c) \/ Refuse(c) \/ Die(c)
    \/ Flush
    \/ PowerLoss

Spec == Init /\ [][Next]_vars
=============================================================================
