----------------------------- MODULE AtomicBatch ------------------------------
(***************************************************************************)
(* What ferric store transaction promises for its batch of writes: all of  *)
(* them at one moment or none, none if a watched key changed after the     *)
(* watch began, and a verdict that says which, or says that it is unknown. *)
(***************************************************************************)
EXTENDS Naturals

CONSTANTS Procs, Keys, None

VARIABLES store,      \* version of each key, which every write increases
          batch,      \* per command: the keys it writes and those it watches
          since,      \* per command: versions of what it watches, or None
          applied,    \* per command: was the batch applied?
          verdict     \* per command: what the user knows

vars == <<store, batch, since, applied, verdict>>

Verdicts == {"running", "applied", "conflict", "failed", "unknown"}

Init ==
    /\ store = [k \in Keys |-> 0]
    /\ since = [p \in Procs |-> None]
    /\ applied = [p \in Procs |-> FALSE]
    /\ verdict = [p \in Procs |-> "running"]

Written(writes, s) == [k \in Keys |-> IF k \in writes THEN s[k] + 1 ELSE s[k]]

WriteElsewhere ==
    /\ \E k \in Keys : store' = Written({k}, store)
    /\ UNCHANGED <<batch, since, applied, verdict>>

Watch(p) ==
    /\ verdict[p] = "running" /\ since[p] = None
    /\ since' = [since EXCEPT ![p] = store]
    /\ UNCHANGED <<store, batch, applied, verdict>>

Unchanged(p) == \A k \in batch[p].watch : since[p] # None /\ since[p][k] = store[k]

Apply(p) ==
    /\ ~applied[p] /\ Unchanged(p)
    /\ verdict[p] \in {"running", "unknown"}
    /\ store' = Written(batch[p].writes, store)
    /\ applied' = [applied EXCEPT ![p] = TRUE]
    /\ UNCHANGED <<batch, since, verdict>>

End(p) ==
    /\ verdict[p] = "running"
    /\ \/ applied[p] /\ verdict' = [verdict EXCEPT ![p] = "applied"]
       \/ ~applied[p] /\ ~Unchanged(p) /\ verdict' = [verdict EXCEPT ![p] = "conflict"]
       \/ ~applied[p] /\ verdict' = [verdict EXCEPT ![p] = "failed"]
       \/ verdict' = [verdict EXCEPT ![p] = "unknown"]
    /\ UNCHANGED <<store, batch, since, applied>>

Next == WriteElsewhere \/ \E p \in Procs : Watch(p) \/ Apply(p) \/ End(p)

Spec == Init /\ [][Next]_vars
=============================================================================
