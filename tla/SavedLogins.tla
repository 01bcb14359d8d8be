----------------------------- MODULE SavedLogins -----------------------------
(***************************************************************************)
(* What logging in, logging out and deleting a profile promise, seen by a  *)
(* user who asks, for each profile name, which login is saved and whether  *)
(* its own secret is there.                                                *)
(*                                                                         *)
(* A login replaces the saved one in a single step, metadata and secret    *)
(* together: there is no moment at which the name is saved without the new *)
(* or the old login, nor one at which metadata and secret belong to two    *)
(* logins.  A login that fails is no step at all.  Only a logout or a      *)
(* delete signs a profile out; a delete that fails signs it in again, with *)
(* the login it had.                                                       *)
(***************************************************************************)
EXTENDS ProfileDocument

CONSTANT Logins     \* the logins ever made

VARIABLES saved,    \* the login each profile was saved by
          signedIn, \* the profiles whose secret is there
          removing, \* the profiles a delete has signed out and not yet removed
          asked,    \* the names that somebody asked to log out or to delete
          made      \* the logins that have been saved at some time

vars == <<saved, signedIn, removing, asked, made>>

Init ==
    /\ saved \in MapsFrom(Names, Logins)
    /\ \A m, n \in DOMAIN saved : saved[m] = saved[n] => m = n
    /\ signedIn = DOMAIN saved
    /\ removing = {}
    /\ asked = {}
    /\ made = {saved[n] : n \in DOMAIN saved}

AskRemoval(n) ==
    /\ asked' = asked \cup {n}
    /\ UNCHANGED <<saved, signedIn, removing, made>>

SignIn(n, g) ==
    /\ g \notin made
    /\ n \notin removing
    /\ saved' = Insert(saved, n, g)
    /\ signedIn' = signedIn \cup {n}
    /\ made' = made \cup {g}
    /\ UNCHANGED <<removing, asked>>

SignOut(n) ==
    /\ n \in signedIn \cap asked
    /\ signedIn' = signedIn \ {n}
    /\ removing' \in {removing, removing \cup {n}}
    /\ UNCHANGED <<saved, asked, made>>

\* A delete ends by removing the profile, ...
RemoveProfile(n) ==
    /\ n \in asked \cap DOMAIN saved
    /\ n \notin signedIn
    /\ saved' = Remove(saved, n)
    /\ removing' = removing \ {n}
    /\ UNCHANGED <<signedIn, asked, made>>

\* ... by restoring its secret, ...
RestoreSecret(n) ==
    /\ n \in removing
    /\ signedIn' = signedIn \cup {n}
    /\ removing' = removing \ {n}
    /\ UNCHANGED <<saved, asked, made>>

\* ... or by dying or failing again, and the profile stays signed out.
AbandonRemoval(n) ==
    /\ n \in removing
    /\ removing' = removing \ {n}
    /\ UNCHANGED <<saved, signedIn, asked, made>>

Next ==
    \E n \in Names :
        \/ \E g \in Logins : SignIn(n, g)
        \/ AskRemoval(n) \/ SignOut(n) \/ RemoveProfile(n)
        \/ RestoreSecret(n) \/ AbandonRemoval(n)

Spec == Init /\ [][Next]_vars
=============================================================================
