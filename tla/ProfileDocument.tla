--------------------------- MODULE ProfileDocument ---------------------------
(***************************************************************************)
(* The profile document of internal/profile/profile.go and the pure part   *)
(* of every FileStore operation on it.  A document is the Go struct        *)
(* {version, current_profile, profiles}: "profiles" is a map, here a       *)
(* function whose domain is the set of saved names; the version is always  *)
(* documentVersion, because load refuses any other.                        *)
(*                                                                         *)
(* Profile names are positive numbers, so that sort.Strings is <= and the  *)
(* empty string, which no profile may be called, is NoName.                *)
(***************************************************************************)
EXTENDS Integers

CONSTANTS Names,        \* the names a user may give to a profile
          DefaultName   \* the name "default"

ASSUME NamesAssumption == Names \subseteq Nat \ {0} /\ DefaultName \in Names

NoName == 0

-----------------------------------------------------------------------------
(* Go maps: the partial functions from keys to values, insertion and delete. *)

MapsFrom(keys, values) == UNION {[K -> values] : K \in SUBSET keys}

Insert(m, k, v) == [x \in DOMAIN m \cup {k} |-> IF x = k THEN v ELSE m[x]]

\* Mutation: the entry is emptied, not deleted.
Emptied(m, k) == [m EXCEPT ![k] = NoName]

Remove(m, k) == [x \in DOMAIN m \ {k} |-> m[x]]

-----------------------------------------------------------------------------

Documents(profiles) ==
    [current : Names \cup {NoName}, profiles : MapsFrom(Names, profiles)]

EmptyDocument == [current |-> NoName, profiles |-> [n \in {} |-> NoName]]

Has(d, n) == n \in DOMAIN d.profiles

\* profileNames(profiles)[0]
FirstName(names) == CHOOSE n \in names : \A m \in names : n <= m

\* "default" if it is saved, else the first name in order, else no name.
Replacement(profiles) ==
    IF DefaultName \in DOMAIN profiles THEN DefaultName
    ELSE IF DOMAIN profiles # {} THEN FirstName(DOMAIN profiles)
    ELSE NoName

\* What Put saves: the profile added or replaced; the first one is selected.
PutProfile(d, n, p) ==
    [current  |-> IF d.current = NoName THEN n ELSE d.current,
     profiles |-> Insert(d.profiles, n, p)]

\* What Use saves, for a name that has a profile.
UseProfile(d, n) == [d EXCEPT !.current = n]

\* Mutation: the selection is not moved off a deleted profile.
DeleteSelected(d, n) == [d EXCEPT !.profiles = Remove(@, n)]

\* What Delete saves, for a name that has a profile.
DeleteProfile(d, n) ==
    LET rest == Remove(d.profiles, n)
    IN  [current  |-> IF d.current = n THEN Replacement(rest) ELSE d.current,
         profiles |-> rest]

\* What Current returns; NoName stands for ErrNotFound.
CurrentName(d) ==
    IF Has(d, d.current) THEN d.current ELSE Replacement(d.profiles)

(* The selection is a saved profile whenever there is one to select. *)
WellSelected(d) ==
    IF DOMAIN d.profiles = {} THEN d.current = NoName ELSE Has(d, d.current)
=============================================================================
