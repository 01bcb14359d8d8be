----------------------------- MODULE CommandProofs -----------------------------
(***************************************************************************)
(* Proofs about the commands before they are connected.                    *)
(*                                                                         *)
(* Of CommandSafety, for all command lines, however long: nothing          *)
(* sensitive is sent without a --yes, arguments and options arrive as they *)
(* were typed, and a query is asked if it is well formed.  A command line  *)
(* is decided once, so that the invariant says only that nothing is sent   *)
(* before; what the decision is, is shown of the words, of sequences that  *)
(* lose an element, and of the reading of parameters one after the other.  *)
(*                                                                         *)
(* Of BlockingWait, at the end, for all command lines, units, timeouts and *)
(* every network that takes less than the margin: its types, and that a    *)
(* request that was accepted is answered in time.                          *)
(***************************************************************************)
EXTENDS CommandSafety, BlockingWait, FiniteSetTheorems, SequenceTheorems,
        WellFoundedInduction, TLAPS

-----------------------------------------------------------------------------
(* Sequences of arguments                                                   *)

\* A set of positions that is not empty has a last one.
LEMMA LastExists ==
    ASSUME NEW n \in Nat, NEW T, T \subseteq 1..n, T # {}
    PROVE  \E i \in T : \A j \in T : j <= i
<1> DEFINE back == {n - i : i \in T}
<1>1. \A i \in T : i \in 1..n /\ n - i \in Nat
  OBVIOUS
<1>2. back \subseteq Nat /\ back # {}
  BY <1>1, Zenon
<1> HIDE DEF back
<1>3. PICK b \in back : \A c \in back : ~(<<c, b>> \in OpToRel(<, Nat))
  BY <1>2, NatLessThanWellFounded, WFMin, Zenon
<1>4. PICK i \in T : b = n - i
  BY <1>3, Zenon DEF back
<1>5. ASSUME NEW j \in T
      PROVE  j <= i
  <2>1. n - j \in back /\ n - j \in Nat /\ b \in Nat
    BY <1>1, <1>2, <1>3, Zenon DEF back
  <2>2. ~(<<n - j, b>> \in {ss \in Nat \X Nat : ss[1] < ss[2]})
    BY <1>3, <2>1, Zenon DEF OpToRel
  <2>3. ~(n - j < b)
    BY <2>1, <2>2
  <2> QED
    BY <1>1, <1>4, <2>3
<1> QED
  BY <1>5

LEMMA RemoveAtIs ==
    ASSUME NEW S, NEW s \in Seq(S), NEW k \in 1..Len(s)
    PROVE  /\ RemoveAt(s, k) \in Seq(S) /\ Len(RemoveAt(s, k)) = Len(s) - 1
           /\ \A i \in 1..(k - 1) : RemoveAt(s, k)[i] = s[i]
           /\ \A i \in k..(Len(s) - 1) : RemoveAt(s, k)[i] = s[i + 1]
<1> DEFINE front == SubSeq(s, 1, k - 1)
           back == SubSeq(s, k + 1, Len(s))
<1>1. front \in Seq(S) /\ Len(front) = k - 1 /\ \A i \in 1..(k - 1) : front[i] = s[i]
  OBVIOUS
<1>2. /\ back \in Seq(S) /\ Len(back) = Len(s) - k
      /\ \A i \in 1..(Len(s) - k) : back[i] = s[k + i]
  <2>1. Len(back) = Len(s) - k
    BY SubSeqProperties
  <2> QED
    BY <2>1, SubSeqProperties
<1> HIDE DEF front, back
<1>3. /\ front \o back \in Seq(S) /\ Len(front \o back) = Len(s) - 1
      /\ \A i \in 1..(Len(s) - 1) :
            (front \o back)[i] = IF i <= k - 1 THEN front[i] ELSE back[i - (k - 1)]
  <2>1. /\ front \o back \in Seq(S) /\ Len(front \o back) = Len(front) + Len(back)
        /\ \A i \in 1..(Len(front) + Len(back)) :
              (front \o back)[i] = IF i <= Len(front) THEN front[i] ELSE back[i - Len(front)]
    BY <1>1, <1>2, ConcatProperties
  <2>2. Len(front) + Len(back) = Len(s) - 1
    BY <1>1, <1>2
  <2> QED
    BY <1>1, <2>1, <2>2
<1>4. RemoveAt(s, k) = front \o back
  BY DEF RemoveAt, front, back
<1>5. \A i \in k..(Len(s) - 1) : (front \o back)[i] = s[i + 1]
  <2> SUFFICES ASSUME NEW i \in k..(Len(s) - 1) PROVE (front \o back)[i] = s[i + 1]
    OBVIOUS
  <2>1. (front \o back)[i] = back[i - (k - 1)] /\ i - (k - 1) \in 1..(Len(s) - k)
    BY <1>3
  <2>2. k + (i - (k - 1)) = i + 1
    OBVIOUS
  <2> QED
    BY <1>2, <2>1, <2>2
<1> QED
  BY <1>1, <1>3, <1>4, <1>5

\* The place of the last --yes, if there is one
LEMMA LastYesIs ==
    ASSUME NEW args \in Seq(Argument)
    PROVE  \/ LastYes(args) = 0 /\ \A i \in DOMAIN args : args[i] # Confirmation
           \/ /\ LastYes(args) \in 1..Len(args) /\ args[LastYes(args)] = Confirmation
              /\ \A i \in (LastYes(args) + 1)..Len(args) : args[i] # Confirmation
<1> DEFINE found == {i \in DOMAIN args : args[i] = Confirmation}
<1>1. CASE found = {}
  BY <1>1 DEF LastYes
<1>2. CASE found # {}
  <2>0. found \subseteq 1..Len(args) /\ Len(args) \in Nat
    OBVIOUS
  <2>1. \E i \in found : \A j \in found : j <= i
    <3> HIDE DEF found
    <3> QED
      BY <1>2, <2>0, LastExists
  <2>2. LastYes(args) = CHOOSE i \in found : \A j \in found : j <= i
    BY <1>2 DEF LastYes
  <2>3. LastYes(args) \in found /\ \A j \in found : j <= LastYes(args)
    BY <2>1, <2>2
  <2> QED
    BY <2>3
<1> QED
  BY <1>1, <1>2

\* The name in capitals: the same words, and the same spelling but for the name
LEMMA UpperIs ==
    ASSUME NEW args \in Seq(Argument), args # <<>>
    PROVE  /\ Upper(args) \in Seq(Argument) /\ Len(Upper(args)) = Len(args)
           /\ Upper(args)[1] = Exact(Token(args[1]))
           /\ \A i \in 2..Len(args) : Upper(args)[i] = args[i]
<1> DEFINE first == <<Exact(Token(args[1]))>>
<1>1. first \in Seq(Argument) /\ Len(first) = 1 /\ first[1] = Exact(Token(args[1]))
  <2>1. args[1] \in Argument
    OBVIOUS
  <2>2. Exact(Token(args[1])) \in Argument
    BY <2>1 DEF Exact, Token, Argument
  <2> QED
    BY <2>2
<1>2. /\ Tail(args) \in Seq(Argument) /\ Len(Tail(args)) = Len(args) - 1
      /\ \A i \in 1..(Len(args) - 1) : Tail(args)[i] = args[i + 1]
  OBVIOUS
<1> HIDE DEF first
<1>3. /\ first \o Tail(args) \in Seq(Argument)
      /\ Len(first \o Tail(args)) = Len(args)
      /\ \A i \in 1..Len(args) :
            (first \o Tail(args))[i] = IF i <= 1 THEN first[i] ELSE Tail(args)[i - 1]
  BY <1>1, <1>2, ConcatProperties
<1>4. Upper(args) = first \o Tail(args)
  BY DEF Upper, first
<1>5. \A i \in 2..Len(args) : i - 1 \in 1..(Len(args) - 1) /\ (i - 1) + 1 = i
  OBVIOUS
<1> QED
  BY <1>1, <1>2, <1>3, <1>4, <1>5

-----------------------------------------------------------------------------
(* The class of a command                                                   *)

\* A command is sensitive by its name, by its first two words, or as the
\* start of a repair.
LEMMA ClassIs ==
    ASSUME NEW S, NEW command \in Seq(S)
    PROVE  RequiresConfirmation(command) <=>
              \/ Len(command) > 0 /\ Token(command[1]) \in Sensitive
              \/ Len(command) > 1 /\ Token(command[2]) \in SensitiveWith(Token(command[1]))
              \/ /\ Len(command) > 2 /\ Token(command[1]) = "FERRICSTORE.DOCTOR"
                 /\ Token(command[2]) = "START"
                 /\ \E i \in 3..Len(command) : Token(command[i]) = "REPAIR"
<1>1. command # <<>> <=> Len(command) > 0
  BY EmptySeq
<1> QED
  BY <1>1 DEF RequiresConfirmation

\* What has no words of its own cannot be sensitive by them.
LEMMA ConfirmationIsMild ==
    /\ "--yes" \notin Sensitive /\ SensitiveWith("--yes") = {}
    /\ \A name : "--yes" \notin SensitiveWith(name)
<1>1. "--yes" \notin Sensitive
  BY DEF Sensitive
<1>2. SensitiveWith("--yes") = {}
  BY DEF SensitiveWith
<1>3. \A name : "--yes" \notin SensitiveWith(name)
  BY DEF SensitiveWith
<1> QED
  BY <1>1, <1>2, <1>3

\* The name in capitals is the same name.
LEMMA UpperKeepsClass ==
    ASSUME NEW args \in Seq(Argument), args # <<>>
    PROVE  RequiresConfirmation(Upper(args)) = RequiresConfirmation(args)
<1>1. /\ Upper(args) \in Seq(Argument) /\ Len(Upper(args)) = Len(args)
      /\ \A i \in 1..Len(args) : Token(Upper(args)[i]) = Token(args[i])
  <2>1. \A i \in 1..Len(args) : i = 1 \/ i \in 2..Len(args)
    OBVIOUS
  <2>2. Token(Upper(args)[1]) = Token(args[1])
    <3>1. Upper(args)[1] = Exact(Token(args[1]))
      BY UpperIs
    <3>2. \A w : Token(Exact(w)) = w
      BY DEF Exact, Token
    <3> QED
      BY <3>1, <3>2
  <2> QED
    BY <2>1, <2>2, UpperIs
<1>2. \A i \in 3..Len(args) : i \in 1..Len(args)
  OBVIOUS
<1>3. RequiresConfirmation(Upper(args)) <=> RequiresConfirmation(args)
  <2> HIDE DEF RequiresConfirmation
  <2> QED
    BY <1>1, <1>2, ClassIs
<1> QED
  BY <1>3 DEF RequiresConfirmation

\* A sensitive command stays sensitive without one of its --yes, which is
\* not its name.
LEMMA RemovalKeepsClass ==
    ASSUME NEW args \in Seq(Argument), RequiresConfirmation(args),
           NEW k \in 1..Len(args), args[k] = Confirmation
    PROVE  /\ k > 1 /\ Token(args[1]) # "--yes"
           /\ RequiresConfirmation(RemoveAt(args, k))
<1> DEFINE left == RemoveAt(args, k)
<1>1. /\ left \in Seq(Argument) /\ Len(left) = Len(args) - 1
      /\ \A i \in 1..(k - 1) : left[i] = args[i]
      /\ \A i \in k..(Len(args) - 1) : left[i] = args[i + 1]
  BY RemoveAtIs
<1> HIDE DEF left
<1>2. Token(args[k]) = "--yes"
  BY DEF Confirmation, Exact, Token
<1>3. Token(args[1]) # "--yes"
  BY ClassIs, ConfirmationIsMild
<1>4. k > 1 /\ Len(left) > 0 /\ left[1] = args[1]
  BY <1>1, <1>2, <1>3
<1> SUFFICES RequiresConfirmation(left)
  BY <1>3, <1>4 DEF left
<1>5. CASE Token(args[1]) \in Sensitive
  BY <1>1, <1>4, <1>5, ClassIs
<1>6. CASE Len(args) > 1 /\ Token(args[2]) \in SensitiveWith(Token(args[1]))
  <2>1. k > 2
    BY <1>2, <1>4, <1>6, ConfirmationIsMild
  <2>2. left[2] = args[2] /\ Len(left) > 1
    BY <1>1, <2>1
  <2> QED
    BY <1>1, <1>4, <1>6, <2>2, ClassIs
<1>7. CASE /\ Len(args) > 2 /\ Token(args[1]) = "FERRICSTORE.DOCTOR"
           /\ Token(args[2]) = "START"
           /\ \E i \in 3..Len(args) : Token(args[i]) = "REPAIR"
  <2>1. PICK i \in 3..Len(args) : Token(args[i]) = "REPAIR"
    BY <1>7
  <2>2. k > 2 /\ k # i
    BY <1>2, <1>4, <1>7, <2>1
  <2>3. left[2] = args[2] /\ Len(left) > 2
    BY <1>1, <2>1, <2>2
  <2>4. \E j \in 3..Len(left) : Token(left[j]) = "REPAIR"
    <3>1. CASE i < k
      BY <1>1, <2>1, <3>1
    <3>2. CASE i > k
      <4>1. i - 1 \in k..(Len(args) - 1) /\ (i - 1) + 1 = i /\ i - 1 \in 3..Len(left)
        BY <1>1, <2>1, <2>2, <3>2
      <4> QED
        BY <1>1, <2>1, <4>1
    <3> QED
      BY <2>1, <2>2, <3>1, <3>2
  <2> QED
    BY <1>1, <1>4, <1>7, <2>3, <2>4, ClassIs
<1> QED
  BY <1>5, <1>6, <1>7, ClassIs

-----------------------------------------------------------------------------
(* How often an argument is --yes                                           *)

LEMMA YesesRemoved ==
    ASSUME NEW args \in Seq(Argument), NEW k \in 1..Len(args), args[k] = Confirmation
    PROVE  Yeses(RemoveAt(args, k)) = Yeses(args) - 1
<1> DEFINE left == RemoveAt(args, k)
           before == {i \in DOMAIN args : args[i] = Confirmation}
           after == {i \in DOMAIN left : left[i] = Confirmation}
           moved == [i \in before \ {k} |-> IF i < k THEN i ELSE i - 1]
<1>1. /\ left \in Seq(Argument) /\ Len(left) = Len(args) - 1
      /\ \A i \in 1..(k - 1) : left[i] = args[i]
      /\ \A i \in k..(Len(args) - 1) : left[i] = args[i + 1]
  BY RemoveAtIs
<1> HIDE DEF left
<1>2. before \subseteq 1..Len(args) /\ Len(args) \in Nat /\ DOMAIN left = 1..(Len(args) - 1)
  BY <1>1
<1>3. IsFiniteSet(before)
  BY <1>2, FS_Interval, FS_Subset
<1>4. ASSUME NEW i \in before \ {k}
      PROVE  moved[i] \in after
  <2>1. i \in 1..Len(args) /\ i # k /\ args[i] = Confirmation
    OBVIOUS
  <2>2. CASE i < k
    BY <1>1, <1>2, <2>1, <2>2
  <2>3. CASE i > k
    <3>1. i - 1 \in k..(Len(args) - 1) /\ (i - 1) + 1 = i
      BY <2>1, <2>3
    <3>2. left[i - 1] = Confirmation /\ i - 1 \in DOMAIN left
      BY <1>1, <1>2, <2>1, <3>1
    <3> QED
      BY <2>3, <3>2
  <2> QED
    BY <2>1, <2>2, <2>3
<1>5. \A i, j \in before \ {k} : moved[i] = moved[j] => i = j
  <2>1. \A i \in before \ {k} : i \in 1..Len(args) /\ i # k
    OBVIOUS
  <2>2. \A i \in before \ {k} : moved[i] = IF i < k THEN i ELSE i - 1
    OBVIOUS
  <2> HIDE DEF before, moved
  <2> QED
    BY <2>1, <2>2
<1>6. ASSUME NEW j \in after
      PROVE  \E i \in before \ {k} : moved[i] = j
  <2>1. j \in 1..(Len(args) - 1) /\ left[j] = Confirmation
    BY <1>2
  <2>2. CASE j < k
    <3>1. j \in before \ {k} /\ moved[j] = j
      BY <1>1, <2>1, <2>2
    <3> QED
      BY <3>1
  <2>3. CASE j >= k
    <3>1. j + 1 \in before \ {k}
      BY <1>1, <2>1, <2>3
    <3>2. moved[j + 1] = j
      BY <2>1, <2>3, <3>1
    <3> QED
      BY <3>1, <3>2
  <2> QED
    BY <2>1, <2>2, <2>3
<1>7. moved \in Bijection(before \ {k}, after)
  <2>1. moved \in [before \ {k} -> after]
    BY <1>4
  <2> HIDE DEF moved
  <2> QED
    BY <1>5, <1>6, <2>1, Zenon DEF Bijection, Injection, Surjection, IsInjective
<1>8. IsFiniteSet(before \ {k}) /\ Cardinality(before \ {k}) = Cardinality(before) - 1
  <2>1. k \in before
    OBVIOUS
  <2> HIDE DEF before
  <2> QED
    BY <1>3, <2>1, FS_RemoveElement
<1>9. Cardinality(after) = Cardinality(before \ {k})
  <2> HIDE DEF moved, before, after
  <2> QED
    BY <1>7, <1>8, FS_Bijection DEF ExistsBijection
<1> QED
  BY <1>8, <1>9 DEF Yeses, left

LEMMA YesesOfUpper ==
    ASSUME NEW args \in Seq(Argument), args # <<>>, Token(args[1]) # "--yes"
    PROVE  Yeses(Upper(args)) = Yeses(args)
<1>1. /\ DOMAIN Upper(args) = DOMAIN args
      /\ \A i \in 2..Len(args) : Upper(args)[i] = args[i]
      /\ Upper(args)[1] = Exact(Token(args[1]))
  BY UpperIs
<1>2. Upper(args)[1] # Confirmation /\ args[1] # Confirmation
  BY <1>1 DEF Exact, Confirmation, Token
<1>3. {i \in DOMAIN Upper(args) : Upper(args)[i] = Confirmation}
        = {i \in DOMAIN args : args[i] = Confirmation}
  <2>1. \A i \in DOMAIN args : Upper(args)[i] = Confirmation <=> args[i] = Confirmation
    <3>1. \A i \in DOMAIN args : i = 1 \/ i \in 2..Len(args)
      OBVIOUS
    <3> QED
      BY <1>1, <1>2, <3>1
  <2> QED
    BY <1>1, <2>1
<1> QED
  BY <1>3 DEF Yeses

-----------------------------------------------------------------------------
(* Raw commands                                                             *)

\* What RunRaw makes of the words of a command that it sends
LEMMA RawIs ==
    ASSUME call \in Calls, call.kind = "raw", RunRaw, pc' = "sent"
    PROVE  ArgumentsArrive'
<1> DEFINE args == call.args
           sensitive == RequiresConfirmation(args)
           last == LastYes(args)
           yesAt == IF sensitive /\ ~call.yes THEN last ELSE 0
           left == IF yesAt > 0 THEN RemoveAt(args, yesAt) ELSE args
<1>1. args \in Seq(Argument) /\ call.yes \in BOOLEAN
  BY CallsAssumption
<1>2. /\ left # <<>> /\ ~(sensitive /\ ~call.yes /\ yesAt = 0)
      /\ wire' = <<Upper(left)>> /\ call' = call
  BY DEF RunRaw, Refuse, Put
<1>3. sensitive \in BOOLEAN
  BY DEF RequiresConfirmation
<1> HIDE DEF sensitive, last
<1>4. CASE sensitive /\ ~call.yes
  <2>1. last # 0 /\ yesAt = last
    BY <1>2, <1>4
  <2>2. /\ last \in 1..Len(args) /\ args[last] = Confirmation
        /\ \A j \in (last + 1)..Len(args) : args[j] # Confirmation
    BY <1>1, <2>1, LastYesIs DEF last
  <2>3. left = RemoveAt(args, last)
    BY <2>1, <2>2
  <2>4. left \in Seq(Argument) /\ left[1] = args[1] /\ Token(args[1]) # "--yes"
        /\ RequiresConfirmation(left)
    BY <1>1, <1>4, <2>2, <2>3, RemovalKeepsClass, RemoveAtIs DEF sensitive
  <2> HIDE DEF left, args
  <2>5. RequiresConfirmation(Upper(left)) = TRUE
    BY <1>2, <2>4, UpperKeepsClass DEF RequiresConfirmation
  <2>6. Yeses(Upper(left)) = Yeses(args) - 1
    BY <1>1, <1>2, <2>2, <2>3, <2>4, YesesOfUpper, YesesRemoved
  <2>7. wire[1]' = Upper(left)
    BY <1>2
  <2>8. last \in DOMAIN args
    BY <1>1, <2>2
  <2> QED
    BY <1>2, <1>4, <2>2, <2>3, <2>5, <2>6, <2>7, <2>8 DEF ArgumentsArrive, sensitive, args
<1>5. CASE ~(sensitive /\ ~call.yes)
  <2>1. left = args
    BY <1>5
  <2>2. RequiresConfirmation(Upper(args)) = sensitive
    BY <1>1, <1>2, <2>1, UpperKeepsClass DEF sensitive
  <2>3. wire[1]' = Upper(args)
    BY <1>2, <2>1
  <2> QED
    BY <1>2, <1>5, <2>2, <2>3 DEF ArgumentsArrive, sensitive
<1> QED
  BY <1>3, <1>4, <1>5

-----------------------------------------------------------------------------
(* Every call is decided once                                               *)

Unsent == pc = "start" => wire = <<>> /\ request = <<>>

Decided ==
    /\ call \in Calls /\ pc \in {"start", "refused", "sent"}
    /\ Unsent

LEMMA DecidedNext == Decided /\ [Next]_vars => Decided'
<1> SUFFICES ASSUME Decided, [Next]_vars PROVE Decided'
  OBVIOUS
<1> USE DEF Decided, Unsent, Refuse, Put
<1>1. CASE RunNamed
  BY <1>1 DEF RunNamed
<1>2. CASE RunRaw
  BY <1>2 DEF RunRaw
<1>3. CASE RunTransaction
  BY <1>3 DEF RunTransaction
<1>4. CASE RunOptions
  BY <1>4 DEF RunOptions
<1>5. CASE RunQuery
  BY <1>5 DEF RunQuery
<1>6. CASE UNCHANGED vars
  BY <1>6 DEF vars
<1> QED
  BY <1>1, <1>2, <1>3, <1>4, <1>5, <1>6 DEF Next

-----------------------------------------------------------------------------
(* The commands whose words are known                                       *)

\* Words that make every command sensitive that begins with them
Telling(words) ==
    \/ words[1] \in Sensitive
    \/ Len(words) > 1 /\ words[2] \in SensitiveWith(words[1])
    \/ /\ Len(words) > 2
       /\ words[1] = "FERRICSTORE.DOCTOR" /\ words[2] = "START" /\ words[3] = "REPAIR"

\* Words that contradict all of those, whatever follows them
Harmless(words) ==
    /\ words[1] \notin Sensitive
    /\ SensitiveWith(words[1]) # {} => Len(words) > 1 /\ words[2] \notin SensitiveWith(words[1])
    /\ words[1] = "FERRICSTORE.DOCTOR" =>
          /\ Len(words) > 1
          /\ words[2] = "START" => Len(words) > 2 /\ words[3] # "REPAIR"

\* The words of a command
IsWords(words) == Len(words) \in Nat \ {0} /\ DOMAIN words = 1..Len(words)

Settled(c) ==
    /\ IsWords(c.wire)
    /\ Telling(c.wire) \/ (Harmless(c.wire) /\ ~c.asks)

LEMMA ServerRootIsSettled == \A c \in Rows(ServerRoot) : Settled(c)
BY DEF Rows, ServerRoot, Plain, Confirmed, Settled, IsWords, Telling, Harmless,
       Sensitive, SensitiveWith

LEMMA ServerConfigIsSettled == \A c \in Rows(ServerConfig) : Settled(c)
BY DEF Rows, ServerConfig, Plain, Confirmed, Settled, IsWords, Telling, Harmless,
       Sensitive, SensitiveWith

LEMMA ServerSlowlogIsSettled == \A c \in Rows(ServerSlowlog) : Settled(c)
BY DEF Rows, ServerSlowlog, Plain, Confirmed, Settled, IsWords, Telling, Harmless,
       Sensitive, SensitiveWith

LEMMA ServerClientIsSettled == \A c \in Rows(ServerClient) : Settled(c)
BY DEF Rows, ServerClient, Plain, Settled, IsWords, Telling, Harmless, Sensitive, SensitiveWith

LEMMA ServerPersistenceIsSettled == \A c \in Rows(ServerPersistence) : Settled(c)
BY DEF Rows, ServerPersistence, Plain, Settled, IsWords, Telling, Harmless, Sensitive,
       SensitiveWith

LEMMA ServerDoctorIsSettled == \A c \in Rows(ServerDoctor) : Settled(c)
BY DEF Rows, ServerDoctor, Plain, Confirmed, Settled, IsWords, Telling, Harmless,
       Sensitive, SensitiveWith

LEMMA AclIsSettled == \A c \in Rows(Acl) : Settled(c)
<1> SUFFICES ASSUME NEW sub \in DOMAIN Acl PROVE Settled(Acl[sub])
  BY DEF Rows
<1>1. Acl[sub].wire = <<"ACL", sub>> /\ (Acl[sub].asks => sub \in {"SETUSER", "DELUSER", "SAVE", "LOAD"})
  BY Zenon DEF Acl
<1>2. IsWords(<<"ACL", sub>>)
  BY DEF IsWords
<1>3. SensitiveWith("ACL") = {"SETUSER", "DELUSER", "LOAD", "SAVE"}
  BY DEF SensitiveWith
<1>4. "ACL" \notin Sensitive
  BY DEF Sensitive
<1>5. Telling(<<"ACL", sub>>) \/ (Harmless(<<"ACL", sub>>) /\ ~Acl[sub].asks)
  BY <1>1, <1>3, <1>4 DEF Telling, Harmless
<1> QED
  BY <1>1, <1>2, <1>5 DEF Settled

LEMMA ClusterIsSettled == \A c \in Rows(Cluster) : Settled(c)
<1> DEFINE ours == {"CLUSTER.HEALTH", "CLUSTER.STATS", "CLUSTER.STATUS", "CLUSTER.ROLE",
                    "CLUSTER.KEYSLOT", "CLUSTER.SLOTS"}
           asking == {"CLUSTER.JOIN", "CLUSTER.LEAVE", "CLUSTER.FAILOVER",
                      "CLUSTER.PROMOTE", "CLUSTER.DEMOTE"}
<1> SUFFICES ASSUME NEW word \in DOMAIN Cluster PROVE Settled(Cluster[word])
  BY DEF Rows
<1>1. /\ Cluster[word].wire = <<word>> /\ (Cluster[word].asks => word \in asking)
      /\ word \in ours \cup asking
  BY Zenon DEF Cluster
<1>2. IsWords(<<word>>)
  BY DEF IsWords
<1>3. asking \subseteq Sensitive
  BY DEF Sensitive
<1>4. \A w \in ours : w \notin Sensitive /\ SensitiveWith(w) = {} /\ w # "FERRICSTORE.DOCTOR"
  BY DEF Sensitive, SensitiveWith
<1>5. Telling(<<word>>) \/ (Harmless(<<word>>) /\ ~Cluster[word].asks)
  <2>1. CASE word \in asking
    BY <1>3, <2>1 DEF Telling
  <2>2. CASE word \notin asking
    BY <1>1, <1>4, <2>2 DEF Harmless
  <2> QED
    BY <2>1, <2>2
<1> QED
  BY <1>1, <1>2, <1>5 DEF Settled

LEMMA PubSubIsSettled == \A c \in Rows(PubSub) : Settled(c)
BY DEF Rows, PubSub, Plain, Settled, IsWords, Telling, Harmless, Sensitive, SensitiveWith

LEMMA FlowRemovalIsSettled == \A c \in Rows(FlowRemoval) : Settled(c)
BY DEF Rows, FlowRemoval, Confirmed, Settled, IsWords, Telling, Harmless, Sensitive,
       SensitiveWith

LEMMA FlowCommandsAreSettled == \A c \in Rows(FlowCommands) : Settled(c)
BY DEF Rows, FlowCommands, FlowCommand, Settled, IsWords, Telling, Harmless, Sensitive,
       SensitiveWith

LEMMA NamedAreSettled == \A c \in Named \cup Rows(FlowCommands) : Settled(c)
BY ServerRootIsSettled, ServerConfigIsSettled, ServerSlowlogIsSettled, ServerClientIsSettled,
   ServerPersistenceIsSettled, ServerDoctorIsSettled, AclIsSettled, ClusterIsSettled,
   PubSubIsSettled, FlowRemovalIsSettled, FlowCommandsAreSettled DEF Named

\* What the help says to require --yes does so by its own words.
LEMMA SaidIsTelling ==
    ASSUME NEW words \in SaidInHelp
    PROVE  IsWords(words) /\ Telling(words)
<1>1. CASE words \in {c.wire : c \in {d \in Named \cup Rows(FlowCommands) : d.asks}}
  <2>1. PICK c \in Named \cup Rows(FlowCommands) : c.asks /\ words = c.wire
    BY <1>1
  <2> QED
    BY <2>1, NamedAreSettled DEF Settled
<1>2. CASE words \in {<<"SAVE">>, <<"BGSAVE">>, <<"FERRICSTORE.DOCTOR", "START", "REPAIR">>,
                      <<"FLOW.POLICY.SET">>, <<"FLOW.RETENTION_CLEANUP">>}
  BY <1>2 DEF IsWords, Telling, Sensitive
<1> QED
  BY <1>1, <1>2 DEF SaidInHelp

\* A command that begins with such words is sensitive ...
LEMMA TellingNeedsYes ==
    ASSUME NEW words, IsWords(words), Telling(words),
           NEW S, NEW command \in Seq(S), BeginsWith(command, words)
    PROVE  RequiresConfirmation(command)
<1>1. /\ Len(command) \in Nat /\ Len(words) \in Nat /\ Len(command) >= Len(words)
      /\ Len(words) > 0 /\ \A i \in 1..Len(words) : Token(command[i]) = words[i]
  BY DEF IsWords, BeginsWith
<1>2. CASE words[1] \in Sensitive
  BY <1>1, <1>2, ClassIs
<1>3. CASE Len(words) > 1 /\ words[2] \in SensitiveWith(words[1])
  BY <1>1, <1>3, ClassIs
<1>4. CASE /\ Len(words) > 2
           /\ words[1] = "FERRICSTORE.DOCTOR" /\ words[2] = "START" /\ words[3] = "REPAIR"
  <2>1. 3 \in 3..Len(command) /\ Token(command[3]) = "REPAIR"
    BY <1>1, <1>4
  <2> QED
    BY <1>1, <1>4, <2>1, ClassIs
<1> QED
  BY <1>2, <1>3, <1>4 DEF Telling

\* ... and one that begins with harmless words does not begin with them.
LEMMA HarmlessStaysSo ==
    ASSUME NEW words, IsWords(words), Telling(words),
           NEW own, IsWords(own), Harmless(own),
           NEW S, NEW command \in Seq(S), BeginsWith(command, own)
    PROVE  ~BeginsWith(command, words)
<1> SUFFICES ASSUME BeginsWith(command, words) PROVE FALSE
  OBVIOUS
<1>1. /\ Len(words) \in Nat /\ Len(words) > 0 /\ Len(own) \in Nat /\ Len(own) > 0
      /\ \A i \in 1..Len(words) : Token(command[i]) = words[i]
      /\ \A i \in 1..Len(own) : Token(command[i]) = own[i]
  BY DEF IsWords, BeginsWith
<1>2. words[1] = own[1] /\ (Len(words) > 1 /\ Len(own) > 1 => words[2] = own[2])
      /\ (Len(words) > 2 /\ Len(own) > 2 => words[3] = own[3])
  BY <1>1
<1> QED
  BY <1>1, <1>2 DEF Telling, Harmless

\* The words of a command as they are sent
OwnWords(words) == [i \in DOMAIN words |-> Exact(words[i])]

LEMMA OwnWordsAre ==
    ASSUME NEW words, IsWords(words)
    PROVE  /\ OwnWords(words) \in Seq({OwnWords(words)[i] : i \in DOMAIN words})
           /\ Len(OwnWords(words)) = Len(words)
           /\ \A i \in 1..Len(words) : Token(OwnWords(words)[i]) = words[i]
<1> DEFINE sent == OwnWords(words)
           all == {sent[i] : i \in DOMAIN words}
<1>1. sent = [i \in 1..Len(words) |-> Exact(words[i])] /\ Len(words) \in Nat
  BY DEF IsWords, OwnWords
<1>2. \A i \in 1..Len(words) : sent[i] \in all
  BY DEF IsWords
<1>3. \A i \in 1..Len(words) : sent[i] = Exact(words[i])
  BY <1>1
<1> HIDE DEF all
<1>4. sent \in [1..Len(words) -> all]
  <2> HIDE DEF sent
  <2>1. DOMAIN sent = 1..Len(words) /\ sent = [i \in 1..Len(words) |-> sent[i]]
    BY <1>1, <1>3
  <2> QED
    BY <1>2, <2>1
<1>5. sent \in Seq(all) /\ Len(sent) = Len(words)
  <2> HIDE DEF sent
  <2> QED
    BY <1>1, <1>4
<1>6. \A w : Token(Exact(w)) = w
  BY DEF Token, Exact
<1> QED
  BY <1>3, <1>5, <1>6 DEF all

\* Followed by arguments they are still what the command begins with.
LEMMA FollowedBy ==
    ASSUME NEW words, IsWords(words), NEW S, NEW args \in Seq(S)
    PROVE  /\ \E T : OwnWords(words) \o args \in Seq(T)
           /\ BeginsWith(OwnWords(words) \o args, words)
<1> DEFINE own == OwnWords(words)
           T == {own[i] : i \in DOMAIN words} \cup S
<1>1. /\ own \in Seq(T) /\ Len(own) = Len(words) /\ Len(words) \in Nat
      /\ \A i \in 1..Len(words) : Token(own[i]) = words[i]
  <2>1. \A U, V : Seq(U) \subseteq Seq(U \cup V)
    OBVIOUS
  <2> QED
    BY <2>1, OwnWordsAre DEF IsWords
<1>2. args \in Seq(T)
  OBVIOUS
<1> HIDE DEF own, T
<1>3. /\ own \o args \in Seq(T) /\ Len(own \o args) = Len(own) + Len(args)
      /\ \A i \in 1..(Len(own) + Len(args)) :
            (own \o args)[i] = IF i <= Len(own) THEN own[i] ELSE args[i - Len(own)]
  BY <1>1, <1>2, ConcatProperties
<1>4. Len(args) \in Nat
  OBVIOUS
<1>5. BeginsWith(own \o args, words)
  <2>1. \A i \in 1..Len(words) : (own \o args)[i] = own[i]
    BY <1>1, <1>3, <1>4
  <2>2. Len(own \o args) >= Len(words)
    BY <1>1, <1>3, <1>4
  <2> QED
    BY <1>1, <2>1, <2>2 DEF BeginsWith, IsWords
<1> QED
  BY <1>3, <1>5 DEF own

\* Words that are sensitive by themselves are so as they are sent.
LEMMA OwnIsSensitive ==
    ASSUME NEW words, IsWords(words), NEW w, IsWords(w), Telling(w),
           BeginsWith(OwnWords(words), w)
    PROVE  RequiresConfirmation(OwnWords(words))
BY OwnWordsAre, TellingNeedsYes

LEMMA OwnBeginsItself ==
    ASSUME NEW words, IsWords(words)
    PROVE  BeginsWith(OwnWords(words), words)
<1>1. /\ Len(OwnWords(words)) = Len(words) /\ Len(words) \in Nat /\ DOMAIN words = 1..Len(words)
      /\ \A i \in 1..Len(words) : Token(OwnWords(words)[i]) = words[i]
  BY OwnWordsAre DEF IsWords
<1>2. \A i \in DOMAIN words : Token(OwnWords(words)[i]) = words[i]
  BY <1>1
<1>3. Len(OwnWords(words)) >= Len(words)
  BY <1>1
<1> QED
  BY <1>2, <1>3 DEF BeginsWith

-----------------------------------------------------------------------------
(* The ways to the wire                                                     *)

SensitiveSent(commands) ==
    \E i \in DOMAIN commands, words \in SaidInHelp : BeginsWith(commands[i], words)

LEMMA NamedAsks ==
    ASSUME call \in Calls, RunNamed, pc' = "sent", SensitiveSent(wire')
    PROVE  call.yes
<1> DEFINE c == call.command
           own == OwnWords(c.wire)
<1>0. call.kind = "named"
  BY DEF RunNamed
<1>1. c \in Named /\ call.args \in Seq(Argument)
  BY <1>0, CallsAssumption
<1>2. wire' = <<own \o call.args>> /\ ((c.asks \/ RequiresConfirmation(own)) => call.yes)
  BY DEF RunNamed, Refuse, Put, OwnWords
<1>3. Settled(c)
  BY <1>1, NamedAreSettled
<1> HIDE DEF c
<1>4. PICK words \in SaidInHelp : BeginsWith(own \o call.args, words)
  <2> DEFINE sent == own \o call.args
  <2> HIDE DEF sent
  <2>1. wire' = <<sent>>
    BY <1>2 DEF sent
  <2>2. \E words \in SaidInHelp : BeginsWith(sent, words)
    BY <2>1 DEF SensitiveSent
  <2> QED
    BY <2>2 DEF sent
<1>5. IsWords(words) /\ Telling(words) /\ IsWords(c.wire)
  BY <1>3, <1>4, SaidIsTelling DEF Settled
<1>6. CASE Telling(c.wire)
  <2>1. RequiresConfirmation(own)
    BY <1>5, <1>6, OwnIsSensitive, OwnBeginsItself
  <2> QED
    BY <1>2, <2>1
<1>7. CASE Harmless(c.wire)
  <2>1. BeginsWith(own \o call.args, c.wire) /\ \E T : own \o call.args \in Seq(T)
    BY <1>1, <1>5, FollowedBy
  <2> QED
    BY <1>4, <1>5, <1>7, <2>1, HarmlessStaysSo
<1> QED
  BY <1>3, <1>6, <1>7 DEF Settled

LEMMA RawAsks ==
    ASSUME call \in Calls, RunRaw, pc' = "sent", SensitiveSent(wire')
    PROVE  SaidYes
<1>1. call.kind = "raw" /\ call' = call
  BY DEF RunRaw
<1>2. call.args \in Seq(Argument)
  BY <1>1, CallsAssumption
<1>3. ArgumentsArrive'
  BY <1>1, RawIs
<1>4. RequiresConfirmation(wire[1]') = RequiresConfirmation(call.args)
  BY <1>1, <1>3 DEF ArgumentsArrive
<1>5. PICK left \in Seq(Argument) : left # <<>> /\ wire' = <<Upper(left)>>
  <2> DEFINE yesAt == IF RequiresConfirmation(call.args) /\ ~call.yes THEN LastYes(call.args) ELSE 0
             args == IF yesAt > 0 THEN RemoveAt(call.args, yesAt) ELSE call.args
  <2>1. args # <<>> /\ wire' = <<Upper(args)>>
    BY DEF RunRaw, Refuse, Put
  <2>2. args \in Seq(Argument)
    <3>1. CASE yesAt > 0
      <4>1. yesAt \in 1..Len(call.args)
        BY <1>2, <3>1, LastYesIs
      <4> QED
        BY <1>2, <3>1, <4>1, RemoveAtIs
    <3>2. CASE ~(yesAt > 0)
      BY <1>2, <3>2
    <3> QED
      BY <3>1, <3>2
  <2> QED
    BY <2>1, <2>2
<1>6. Upper(left) \in Seq(Argument) /\ wire[1]' = Upper(left)
  BY <1>5, UpperIs
<1>7. PICK words \in SaidInHelp : BeginsWith(Upper(left), words)
  BY <1>5 DEF SensitiveSent
<1>8. RequiresConfirmation(Upper(left))
  BY <1>6, <1>7, SaidIsTelling, TellingNeedsYes
<1>9. CASE ~call.yes
  <2>1. LastYes(call.args) # 0
    BY <1>4, <1>6, <1>8, <1>9 DEF RunRaw, Refuse
  <2>2. \E i \in DOMAIN call.args : call.args[i] = Confirmation
    BY <1>2, <2>1, LastYesIs
  <2> QED
    BY <1>1, <2>2 DEF SaidYes
<1> QED
  BY <1>9 DEF SaidYes

LEMMA TransactionAsks ==
    ASSUME call \in Calls, RunTransaction, pc' = "sent", SensitiveSent(wire')
    PROVE  call.yes
<1>0. call.kind = "transaction"
  BY DEF RunTransaction
<1>1. call.commands \in Seq(Seq(Argument))
  BY <1>0, CallsAssumption
<1>2. /\ wire' = call.commands
      /\ AnyRequiresConfirmation(call.commands) => call.yes
  BY DEF RunTransaction, Refuse, Put
<1>3. PICK i \in DOMAIN call.commands, words \in SaidInHelp : BeginsWith(call.commands[i], words)
  BY <1>2 DEF SensitiveSent
<1>4. call.commands[i] \in Seq(Argument)
  BY <1>1
<1>5. RequiresConfirmation(call.commands[i])
  BY <1>3, <1>4, SaidIsTelling, TellingNeedsYes
<1> QED
  BY <1>2, <1>3, <1>5 DEF AnyRequiresConfirmation

LEMMA OptionsAsk ==
    ASSUME call \in Calls, RunOptions, pc' = "sent", SensitiveSent(wire')
    PROVE  call.yes
<1> DEFINE c == FlowCommands[call.name]
           own == OwnWords(c.wire)
<1>0. call.kind = "options"
  BY DEF RunOptions
<1>1. c \in Rows(FlowCommands)
  BY <1>0, CallsAssumption DEF Rows
<1>2. wire' = <<own>> /\ (RequiresConfirmation(own) => call.yes)
  BY DEF RunOptions, Refuse, OwnWords
<1>3. IsWords(c.wire)
  BY <1>1, NamedAreSettled DEF Settled
<1> HIDE DEF c
<1>4. PICK words \in SaidInHelp : BeginsWith(own, words)
  BY <1>2 DEF SensitiveSent
<1>5. RequiresConfirmation(own)
  BY <1>3, <1>4, SaidIsTelling, OwnIsSensitive
<1> QED
  BY <1>2, <1>5

LEMMA SensitiveKeeps ==
    ASSUME Decided, SensitiveOnlyIfConfirmed, [Next]_vars
    PROVE  SensitiveOnlyIfConfirmed'
<1>1. call' = call
  BY DEF Next, vars, RunNamed, RunRaw, RunTransaction, RunOptions, RunQuery
<1>2. SaidYes' <=> SaidYes
  BY <1>1 DEF SaidYes
<1>3. call.yes => SaidYes
  BY DEF SaidYes
<1> SUFFICES ASSUME SensitiveSent(wire') PROVE SaidYes
  BY <1>2 DEF SensitiveOnlyIfConfirmed, SensitiveSent
<1>4. SensitiveSent(wire) => SaidYes
  BY DEF SensitiveOnlyIfConfirmed, SensitiveSent
<1>5. CASE wire' = wire
  BY <1>4, <1>5
<1>6. CASE RunNamed /\ wire' # wire
  BY <1>3, <1>6, NamedAsks DEF RunNamed, Refuse, Put, Decided
<1>7. CASE RunRaw /\ wire' # wire
  BY <1>7, RawAsks DEF RunRaw, Refuse, Put, Decided
<1>8. CASE RunTransaction /\ wire' # wire
  BY <1>3, <1>8, TransactionAsks DEF RunTransaction, Refuse, Put, Decided
<1>9. CASE RunOptions /\ wire' # wire
  BY <1>3, <1>9, OptionsAsk DEF RunOptions, Refuse, Decided
<1>10. CASE RunQuery \/ UNCHANGED vars
  BY <1>5, <1>10 DEF RunQuery, Refuse, vars
<1> QED
  BY <1>5, <1>6, <1>7, <1>8, <1>9, <1>10 DEF Next

LEMMA ArgumentsKeep ==
    ASSUME Decided, ArgumentsArrive, [Next]_vars
    PROVE  ArgumentsArrive'
<1>1. CASE RunRaw
  <2>1. call.kind = "raw" /\ call' = call
    BY <1>1 DEF RunRaw
  <2>2. CASE pc' = "sent"
    BY <1>1, <2>1, <2>2, RawIs DEF Decided
  <2> QED
    BY <2>2 DEF ArgumentsArrive
<1>2. CASE RunNamed \/ RunTransaction \/ RunOptions \/ RunQuery
  <2>1. call' = call /\ call.kind # "raw"
    BY <1>2 DEF RunNamed, RunTransaction, RunOptions, RunQuery
  <2> QED
    BY <2>1 DEF ArgumentsArrive
<1>3. CASE UNCHANGED vars
  BY <1>3 DEF vars, ArgumentsArrive
<1> QED
  BY <1>1, <1>2, <1>3 DEF Next

-----------------------------------------------------------------------------
(* Options                                                                  *)

LEMMA DivisionIs ==
    ASSUME NEW n \in Int, NEW d \in Nat \ {0}
    PROVE  n \div d \in Int /\ n - (n \div d) * d \in 0..(d - 1)
<1>1. n \div d \in Int /\ n = (n \div d) * d + (n % d) /\ n % d \in 0..(d - 1)
  OBVIOUS
<1> DEFINE q == n \div d
<1>2. q * d \in Int
  <2>1. q \in Int
    BY <1>1
  <2> HIDE DEF q
  <2> QED
    BY <2>1
<1> QED
  BY <1>1, <1>2

LEMMA PositiveIs == \A n \in Int : n > 0 => n >= 1
OBVIOUS

\* A duration that is accepted is sent, short of less than a millisecond.
LEMMA DurationIsSent ==
    ASSUME NEW kind \in {"duration", "unless zero"}, NEW v \in Int, v # 0, Accepts(kind, v)
    PROVE  /\ Takes(kind, v) /\ Field(kind, v) \in Int /\ Field(kind, v) >= 1
           /\ v - Field(kind, v) * Millisecond \in 0..(Millisecond - 1)
<1>1. PositiveMilliseconds(v)
  BY DEF Accepts
<1>2. Takes(kind, v)
  BY DEF Takes
<1>3. Field(kind, v) = v \div Millisecond
  BY DEF Field
<1>4. /\ v \div Millisecond \in Int /\ v \div Millisecond >= 1
      /\ v - (v \div Millisecond) * Millisecond \in 0..(Millisecond - 1)
  <2>1. v \div Millisecond > 0
    BY <1>1 DEF PositiveMilliseconds
  <2> DEFINE q == v \div Millisecond
  <2>2. q \in Int /\ v - q * Millisecond \in 0..(Millisecond - 1)
    BY DivisionIs, MillisecondAssumption
  <2> HIDE DEF q
  <2>3. q > 0
    BY <2>1 DEF q
  <2>4. q \in Int
    BY <2>2
  <2>5. q >= 1
    BY <2>3, <2>4, PositiveIs
  <2> QED
    BY <2>2, <2>5 DEF q
<1> QED
  BY <1>2, <1>3, <1>4

\* Of names that are distinct each keeps its value.
LEMMA PairsAreSent ==
    ASSUME NEW kind \in {"assignments", "modes"}, NEW v, Accepts(kind, v)
    PROVE  /\ Takes(kind, v)
           /\ \A i \in DOMAIN v : Field(kind, v)[v[i][1]] = v[i][2]
<1>1. Distinct(v)
  BY DEF Accepts
<1>2. Takes(kind, v)
  BY DEF Takes
<1>3. Field(kind, v) =
          [name \in {v[i][1] : i \in DOMAIN v} |->
              (CHOOSE pair \in {v[i] : i \in DOMAIN v} : pair[1] = name)[2]]
  BY DEF Field
<1>4. ASSUME NEW i \in DOMAIN v
      PROVE  Field(kind, v)[v[i][1]] = v[i][2]
  <2> DEFINE pairs == {v[j] : j \in DOMAIN v}
             found == CHOOSE pair \in pairs : pair[1] = v[i][1]
  <2>1. v[i] \in pairs /\ v[i][1] \in {v[j][1] : j \in DOMAIN v}
    OBVIOUS
  <2>2. Field(kind, v)[v[i][1]] = found[2]
    BY <1>3, <2>1
  <2> HIDE DEF pairs
  <2>3. found \in pairs /\ found[1] = v[i][1]
    BY <2>1
  <2>4. PICK j \in DOMAIN v : found = v[j]
    BY <2>3 DEF pairs
  <2>5. j = i
    BY <1>1, <2>3, <2>4 DEF Distinct
  <2> QED
    BY <2>2, <2>4, <2>5
<1> QED
  BY <1>2, <1>4

\* The request holds what is given of an accepted line.
LEMMA RequestIs ==
    ASSUME NEW name, NEW line
    PROVE  LET options == FlowCommands[name].options
           IN  /\ DOMAIN Request(name, line) = Given(options, line)
               /\ \A o \in Given(options, line) :
                     Request(name, line)[o] = Field(options[o], line[o])
BY DEF Request

\* The options of one request do not contradict each other.
LEMMA ScheduleIsCoherent ==
    ASSUME NEW line, ScheduleFits(line)
    PROVE  LET sent == Request("scheduleCreate", line)
               recurring == DOMAIN sent \cap {"every", "cron"} # {}
           IN  /\ Cardinality(DOMAIN sent \cap {"at", "after", "every", "cron"}) <= 1
               /\ DOMAIN sent \cap {"overlap", "overlapRetry", "maxFires", "endAt"} # {} => recurring
               /\ recurring => "flowID" \notin DOMAIN sent
               /\ "overlapRetry" \in DOMAIN sent => sent.overlap = "queue_after_previous"
<1> DEFINE sent == Request("scheduleCreate", line)
           given == Given(ScheduleCreate, line)
<1>1. FlowCommands["scheduleCreate"].options = ScheduleCreate
  BY DEF FlowCommands, FlowCommand
<1>2. DOMAIN sent = given /\ \A o \in given : sent[o] = Field(ScheduleCreate[o], line[o])
  BY <1>1, RequestIs
<1>3. "overlap" \in given => sent["overlap"] = line["overlap"].word
  <2>1. ScheduleCreate["overlap"] = "overlap"
    BY DEF ScheduleCreate
  <2>2. Field("overlap", line["overlap"]) = line["overlap"].word
    BY DEF Field
  <2> QED
    BY <1>2, <2>1, <2>2
<1> HIDE DEF sent, given
<1>4. /\ Cardinality(given \cap {"at", "after", "every", "cron"}) <= 1
      /\ given \cap {"every", "cron"} # {} => "flowID" \notin given
      /\ given \cap {"every", "cron"} = {} =>
            given \cap {"overlap", "overlapRetry", "maxFires", "endAt"} = {}
      /\ "overlapRetry" \in given =>
            "overlap" \in given /\ line["overlap"].word = "queue_after_previous"
  BY DEF ScheduleFits, given
<1>5. "overlapRetry" \in given => sent.overlap = "queue_after_previous"
  BY <1>3, <1>4
<1> QED
  BY <1>2, <1>4, <1>5 DEF sent

LEMMA ListIsCoherent ==
    ASSUME NEW line, ListFits(line)
    PROVE  LET sent == Request("flowList", line)
           IN  "terminalOnly" \in DOMAIN sent /\ "state" \in DOMAIN sent =>
                   sent.state \notin {"queued", "running", "waiting"}
<1> DEFINE sent == Request("flowList", line)
           given == Given(FlowList, line)
<1>1. FlowCommands["flowList"].options = FlowList
  BY DEF FlowCommands, FlowCommand
<1>2. DOMAIN sent = given /\ \A o \in given : sent[o] = Field(FlowList[o], line[o])
  BY <1>1, RequestIs
<1>3. "state" \in given => sent["state"] = line["state"]
  <2>1. FlowList["state"] = "text"
    BY DEF FlowList
  <2>2. Field("text", line["state"]) = line["state"]
    BY DEF Field
  <2> QED
    BY <1>2, <2>1, <2>2
<1> HIDE DEF sent, given
<1>4. "terminalOnly" \in given /\ "state" \in given =>
          line["state"] \in {"", "any", "completed", "failed", "cancelled"}
  BY DEF ListFits, given
<1> QED
  BY <1>2, <1>3, <1>4 DEF sent

LEMMA LedgerIsCoherent ==
    ASSUME NEW line, Fits("ledger", line)
    PROVE  LET sent == Request("ledger", line)
           IN  {"fromMS", "toMS"} \subseteq DOMAIN sent => sent.fromMS <= sent.toMS
<1> DEFINE sent == Request("ledger", line)
           given == Given(Ledger, line)
<1>1. FlowCommands["ledger"].options = Ledger
  BY DEF FlowCommands, FlowCommand
<1>2. DOMAIN sent = given /\ \A o \in given : sent[o] = Field(Ledger[o], line[o])
  BY <1>1, RequestIs
<1>3. given \subseteq DOMAIN line
  BY DEF Given
<1>4. \A o \in given : o \in {"fromMS", "toMS"} => sent[o] = line[o]
  <2>1. Ledger["fromMS"] = "natural" /\ Ledger["toMS"] = "natural"
    BY DEF Ledger
  <2>2. \A v : Field("natural", v) = v
    BY DEF Field
  <2> QED
    BY <1>2, <2>1, <2>2
<1> HIDE DEF sent, given
<1>5. {"fromMS", "toMS"} \subseteq DOMAIN line => line["fromMS"] <= line["toMS"]
  BY DEF Fits, Together
<1>6. CASE {"fromMS", "toMS"} \subseteq given
  BY <1>3, <1>4, <1>5, <1>6 DEF sent
<1> QED
  BY <1>2, <1>6 DEF sent

LEMMA OptionsAreMeant ==
    ASSUME call \in Calls, RunOptions, pc' = "sent"
    PROVE  SentAsMeant'
<1> DEFINE name == call.name
           line == call.line
           kind == FlowCommands[name].options
<1>1. call.kind = "options" /\ call' = call
  BY DEF RunOptions
<1>2. name \in DOMAIN FlowCommands /\ OptionLine(name, line)
  BY <1>1, CallsAssumption
<1>3. Accepted(name, line) /\ request' = Request(name, line)
  BY DEF RunOptions, Refuse
<1>4. /\ DOMAIN Request(name, line) = Given(kind, line)
      /\ \A o \in Given(kind, line) : Request(name, line)[o] = Field(kind[o], line[o])
  BY RequestIs
<1>5. /\ \A o \in DOMAIN line : Accepts(kind[o], line[o])
      /\ Fits(name, line)
  BY <1>3 DEF Accepted
<1>6. \A o \in DOMAIN line : o \in Given(kind, line) <=> Takes(kind[o], line[o])
  BY DEF Given
<1>7. \A o \in DOMAIN line : kind[o] \in {"duration", "unless zero"} => line[o] \in Int
  BY <1>2 DEF OptionLine
<1>8. Coherent(DOMAIN request)'
  <2> DEFINE sent == Request(name, line)
  <2>1. CASE name = "scheduleCreate"
    <3>1. ScheduleFits(line)
      BY <1>5, <2>1 DEF Fits
    <3> QED
      BY <1>1, <1>3, <2>1, <3>1, ScheduleIsCoherent DEF Coherent
  <2>2. CASE name = "policySet"
    <3>1. PolicyFits(line)
      BY <1>5, <2>2 DEF Fits
    <3>2. kind = PolicySet
      BY <2>2 DEF FlowCommands, FlowCommand
    <3>3. ~({"indexedAttribute", "clearIndexedAttributes"} \subseteq DOMAIN sent)
      BY <1>4, <3>1, <3>2 DEF PolicyFits, Together
    <3> QED
      BY <1>1, <1>3, <2>2, <3>3 DEF Coherent
  <2>3. CASE name = "approvalRequest"
    <3>1. ~({"timeoutAfter", "expiresAt"} \subseteq DOMAIN line)
      BY <1>5, <2>3 DEF Fits, Together
    <3>2. DOMAIN sent \subseteq DOMAIN line
      BY <1>4 DEF Given
    <3>3. ~({"timeoutAfter", "expiresAt"} \subseteq DOMAIN sent)
      BY <3>1, <3>2
    <3> QED
      BY <1>1, <1>3, <2>3, <3>3 DEF Coherent
  <2>4. CASE name = "flowList"
    <3>1. ListFits(line)
      BY <1>5, <2>4 DEF Fits
    <3> QED
      BY <1>1, <1>3, <2>4, <3>1, ListIsCoherent DEF Coherent
  <2>5. CASE name = "ledger"
    BY <1>1, <1>3, <1>5, <2>5, LedgerIsCoherent DEF Coherent
  <2>6. CASE name \notin {"scheduleCreate", "policySet", "approvalRequest", "flowList", "ledger"}
    BY <1>1, <2>6 DEF Coherent
  <2> QED
    BY <2>1, <2>2, <2>3, <2>4, <2>5, <2>6
<1> HIDE DEF kind, line, name
<1>9. ASSUME NEW o \in DOMAIN line, kind[o] \in {"duration", "unless zero"}, line[o] # 0
      PROVE  /\ o \in DOMAIN request' /\ request'[o] >= 1
             /\ line[o] - request'[o] * Millisecond \in 0..(Millisecond - 1)
  <2>1. o \in Given(kind, line) /\ request'[o] = Field(kind[o], line[o])
    BY <1>3, <1>4, <1>5, <1>6, <1>7, <1>9, DurationIsSent
  <2> QED
    BY <1>3, <1>4, <1>5, <1>7, <1>9, <2>1, DurationIsSent
<1>10. ASSUME NEW o \in DOMAIN line, kind[o] \in {"assignments", "modes"},
              NEW i \in DOMAIN line[o]
       PROVE  request'[o][line[o][i][1]] = line[o][i][2]
  <2>1. o \in Given(kind, line) /\ request'[o] = Field(kind[o], line[o])
    BY <1>3, <1>4, <1>5, <1>6, <1>10, PairsAreSent
  <2> QED
    BY <1>5, <1>10, <2>1, PairsAreSent
<1> QED
  BY <1>1, <1>8, <1>9, <1>10 DEF SentAsMeant, kind, line, name

LEMMA SentKeeps ==
    ASSUME Decided, SentAsMeant, [Next]_vars
    PROVE  SentAsMeant'
<1>1. CASE RunOptions
  <2>1. CASE pc' = "sent"
    BY <1>1, <2>1, OptionsAreMeant DEF Decided
  <2> QED
    BY <2>1 DEF SentAsMeant
<1>2. CASE RunNamed \/ RunRaw \/ RunTransaction \/ RunQuery
  <2>1. call' = call /\ call.kind # "options"
    BY <1>2 DEF RunNamed, RunRaw, RunTransaction, RunQuery
  <2> QED
    BY <2>1 DEF SentAsMeant
<1>3. CASE UNCHANGED vars
  BY <1>3 DEF vars, SentAsMeant, Coherent
<1> QED
  BY <1>1, <1>2, <1>3 DEF Next

-----------------------------------------------------------------------------
(* Reading a sequence, one element after the other                          *)

\* Induction over the first numbers, with a set in the place of a predicate
LEMMA SetInduction ==
    ASSUME NEW m \in Nat, NEW T, 0 \in T, \A n \in 0..(m - 1) : n \in T => n + 1 \in T
    PROVE  \A n \in 0..m : n \in T
<1> DEFINE missing == {n \in 0..m : n \notin T}
<1> SUFFICES ASSUME missing # {} PROVE FALSE
  OBVIOUS
<1>1. missing \subseteq Nat
  OBVIOUS
<1>2. PICK b \in missing : \A c \in missing : ~(<<c, b>> \in OpToRel(<, Nat))
  <2> HIDE DEF missing
  <2> QED
    BY <1>1, NatLessThanWellFounded, WFMin, Zenon
<1>3. b \in 0..m /\ b \notin T /\ b # 0
  OBVIOUS
<1>4. b - 1 \in 0..(m - 1) /\ (b - 1) + 1 = b
  BY <1>3
<1>5. b - 1 \notin T
  BY <1>3, <1>4
<1>6. b - 1 \in missing /\ b - 1 \in Nat /\ b \in Nat
  BY <1>3, <1>4, <1>5
<1>7. ~(<<b - 1, b>> \in {ss \in Nat \X Nat : ss[1] < ss[2]})
  <2> HIDE DEF missing
  <2> QED
    BY <1>2, <1>6, Zenon DEF OpToRel
<1> QED
  BY <1>6, <1>7

\* The reading of the members is defined, step by step.
Reading(members) ==
    CHOOSE read : read = [n \in 0..Len(members) |->
        IF n = 0 THEN NoParameters ELSE Member(read[n - 1], members[n])]

LEMMA ReadingIs ==
    ASSUME NEW S, NEW members \in Seq(S)
    PROVE  /\ Reading(members)[0] = NoParameters
           /\ \A n \in 1..Len(members) :
                 Reading(members)[n] = Member(Reading(members)[n - 1], members[n])
           /\ ReadMembers(members) = Reading(members)[Len(members)]
<1> DEFINE m == Len(members)
           Step(r, n) == IF n = 0 THEN NoParameters ELSE Member(r[n - 1], members[n])
           T == {n \in 0..m : \E r : r = [k \in 0..n |-> Step(r, k)]}
<1> HIDE DEF Step
<1>1. m \in Nat
  OBVIOUS
<1>2. 0 \in T
  <2> DEFINE r == [k \in 0..0 |-> NoParameters]
  <2>1. r = [k \in 0..0 |-> Step(r, k)]
    BY DEF Step
  <2> QED
    BY <1>1, <2>1
<1>3. ASSUME NEW n \in 0..(m - 1), n \in T
      PROVE  n + 1 \in T
  <2>1. PICK r : r = [k \in 0..n |-> Step(r, k)]
    BY <1>3
  <2> DEFINE s == [k \in 0..(n + 1) |-> IF k <= n THEN r[k] ELSE Step(r, n + 1)]
  <2>2. \A k \in 0..n : r[k] = Step(r, k)
    BY <2>1, Zenon
  <2>3. \A k \in 0..(n + 1) : s[k] = IF k <= n THEN r[k] ELSE Step(r, n + 1)
    BY Zenon
  <2>4. s = [k \in 0..(n + 1) |-> s[k]]
    BY Zenon
  <2> HIDE DEF s
  <2>5. ASSUME NEW k \in 0..(n + 1)
        PROVE  s[k] = Step(s, k)
    <3>1. s[k] = Step(r, k)
      <4>1. CASE k <= n
        <5>1. k \in 0..n
          BY <4>1
        <5> QED
          BY <2>2, <2>3, <4>1, <5>1
      <4>2. CASE k = n + 1
        <5>1. ~(k <= n)
          BY <4>2
        <5> QED
          BY <2>3, <4>2, <5>1, Zenon
      <4> QED
        BY <4>1, <4>2
    <3>2. CASE k = 0
      BY <3>1, <3>2 DEF Step
    <3>3. CASE k > 0
      <4>1. k - 1 \in 0..n /\ k - 1 \in 0..(n + 1) /\ k - 1 <= n /\ k # 0
        BY <3>3
      <4>2. s[k - 1] = r[k - 1]
        BY <2>3, <4>1, Zenon
      <4> QED
        BY <3>1, <4>1, <4>2, Zenon DEF Step
    <3> QED
      BY <3>2, <3>3
  <2>6. s = [k \in 0..(n + 1) |-> Step(s, k)]
    BY <2>4, <2>5, Zenon
  <2>7. n + 1 \in 0..m
    OBVIOUS
  <2> QED
    BY <2>6, <2>7
<1>4. \E r : r = [k \in 0..m |-> Step(r, k)]
  <2>1. \A n \in 0..(m - 1) : n \in T => n + 1 \in T
    BY <1>3, Zenon
  <2>2. m \in T
    <3> HIDE DEF T
    <3>1. \A n \in 0..m : n \in T
      <4> HIDE DEF m
      <4> QED
        BY <1>1, <1>2, <2>1, SetInduction, Zenon
    <3> QED
      BY <1>1, <3>1
  <2> QED
    BY <2>2
<1>5. Reading(members) = [k \in 0..m |-> Step(Reading(members), k)]
  BY <1>4 DEF Reading, Step
<1>6. \A k \in 0..m : Reading(members)[k] = Step(Reading(members), k)
  BY <1>5
<1>7. ReadMembers(members) = Reading(members)[m]
  BY DEF ReadMembers, Reading
<1> QED
  BY <1>1, <1>6, <1>7 DEF Step

\* The reading of the assignments is defined, step by step.
Assigning(first, assignments) ==
    CHOOSE read : read = [n \in 0..Len(assignments) |->
        IF n = 0 THEN first ELSE Assigned(read[n - 1], assignments[n])]

LEMMA AssigningIs ==
    ASSUME NEW first, NEW S, NEW assignments \in Seq(S)
    PROVE  /\ Assigning(first, assignments)[0] = first
           /\ \A n \in 1..Len(assignments) :
                 Assigning(first, assignments)[n] =
                     Assigned(Assigning(first, assignments)[n - 1], assignments[n])
           /\ ReadAssignments(first, assignments) = Assigning(first, assignments)[Len(assignments)]
<1> DEFINE m == Len(assignments)
           Step(r, n) == IF n = 0 THEN first ELSE Assigned(r[n - 1], assignments[n])
           T == {n \in 0..m : \E r : r = [k \in 0..n |-> Step(r, k)]}
<1> HIDE DEF Step
<1>1. m \in Nat
  OBVIOUS
<1>2. 0 \in T
  <2> DEFINE r == [k \in 0..0 |-> first]
  <2>1. r = [k \in 0..0 |-> Step(r, k)]
    BY DEF Step
  <2> QED
    BY <1>1, <2>1
<1>3. ASSUME NEW n \in 0..(m - 1), n \in T
      PROVE  n + 1 \in T
  <2>1. PICK r : r = [k \in 0..n |-> Step(r, k)]
    BY <1>3
  <2> DEFINE s == [k \in 0..(n + 1) |-> IF k <= n THEN r[k] ELSE Step(r, n + 1)]
  <2>2. \A k \in 0..n : r[k] = Step(r, k)
    BY <2>1, Zenon
  <2>3. \A k \in 0..(n + 1) : s[k] = IF k <= n THEN r[k] ELSE Step(r, n + 1)
    BY Zenon
  <2>4. s = [k \in 0..(n + 1) |-> s[k]]
    BY Zenon
  <2> HIDE DEF s
  <2>5. ASSUME NEW k \in 0..(n + 1)
        PROVE  s[k] = Step(s, k)
    <3>1. s[k] = Step(r, k)
      <4>1. CASE k <= n
        <5>1. k \in 0..n
          BY <4>1
        <5> QED
          BY <2>2, <2>3, <4>1, <5>1
      <4>2. CASE k = n + 1
        <5>1. ~(k <= n)
          BY <4>2
        <5> QED
          BY <2>3, <4>2, <5>1, Zenon
      <4> QED
        BY <4>1, <4>2
    <3>2. CASE k = 0
      BY <3>1, <3>2 DEF Step
    <3>3. CASE k > 0
      <4>1. k - 1 \in 0..n /\ k - 1 \in 0..(n + 1) /\ k - 1 <= n /\ k # 0
        BY <3>3
      <4>2. s[k - 1] = r[k - 1]
        BY <2>3, <4>1, Zenon
      <4> QED
        BY <3>1, <4>1, <4>2, Zenon DEF Step
    <3> QED
      BY <3>2, <3>3
  <2>6. s = [k \in 0..(n + 1) |-> Step(s, k)]
    BY <2>4, <2>5, Zenon
  <2>7. n + 1 \in 0..m
    OBVIOUS
  <2> QED
    BY <2>6, <2>7
<1>4. \E r : r = [k \in 0..m |-> Step(r, k)]
  <2>1. \A n \in 0..(m - 1) : n \in T => n + 1 \in T
    BY <1>3, Zenon
  <2>2. m \in T
    <3> HIDE DEF T
    <3>1. \A n \in 0..m : n \in T
      <4> HIDE DEF m
      <4> QED
        BY <1>1, <1>2, <2>1, SetInduction, Zenon
    <3> QED
      BY <1>1, <3>1
  <2> QED
    BY <2>2
<1>5. Assigning(first, assignments) = [k \in 0..m |-> Step(Assigning(first, assignments), k)]
  BY <1>4 DEF Assigning, Step
<1>6. \A k \in 0..m : Assigning(first, assignments)[k] = Step(Assigning(first, assignments), k)
  BY <1>5
<1>7. ReadAssignments(first, assignments) = Assigning(first, assignments)[m]
  BY DEF ReadAssignments, Assigning
<1> QED
  BY <1>1, <1>6, <1>7 DEF Step

-----------------------------------------------------------------------------
(* What has been read of the parameters                                     *)

\* May this be a parameter?
Fitting(pair) == Scalar(pair[2]) /\ ValidParameter(pair[1], Normal(pair[2]))

\* The first n can be the parameters of one query.
Whole(given, n) ==
    /\ \A i \in 1..n : Fitting(given[i])
    /\ \A i, j \in 1..n : i # j => given[i][1] # given[j][1]

Names(given, n) == {given[i][1] : i \in 1..n}

\* What was read is what the first n say.
Says(read, given, n) ==
    /\ DOMAIN read.params = Names(given, n)
    /\ \A i \in 1..n : read.params[given[i][1]] = Normal(given[i][2])
    /\ IsFiniteSet(DOMAIN read.params) /\ Cardinality(DOMAIN read.params) = n

\* It was read unless something forbade it; may: nothing but what they are.
Follows(read, given, n, may) ==
    /\ DOMAIN read = {"ok", "params"}
    /\ read.ok <=> may /\ Whole(given, n)
    /\ read.ok => Says(read, given, n)

LEMMA OneMoreIsWhole ==
    ASSUME NEW given, NEW n \in Nat
    PROVE  /\ Whole(given, n + 1) <=> /\ Whole(given, n)
                                      /\ Fitting(given[n + 1])
                                      /\ given[n + 1][1] \notin Names(given, n)
           /\ Names(given, n + 1) = Names(given, n) \cup {given[n + 1][1]}
<1>1. 1..(n + 1) = (1..n) \cup {n + 1} /\ n + 1 \notin 1..n
  OBVIOUS
<1> HIDE DEF Fitting
<1>2. Names(given, n + 1) = Names(given, n) \cup {given[n + 1][1]}
  BY <1>1, Zenon DEF Names
<1>3. given[n + 1][1] \notin Names(given, n) <=> \A i \in 1..n : given[i][1] # given[n + 1][1]
  BY Zenon DEF Names
<1>4. Whole(given, n + 1) => Whole(given, n) /\ Fitting(given[n + 1])
                             /\ \A i \in 1..n : given[i][1] # given[n + 1][1]
  BY <1>1, Zenon DEF Whole
<1>5. ASSUME Whole(given, n), Fitting(given[n + 1]),
             \A i \in 1..n : given[i][1] # given[n + 1][1]
      PROVE  Whole(given, n + 1)
  <2>1. \A i \in 1..(n + 1) : Fitting(given[i])
    BY <1>1, <1>5, Zenon DEF Whole
  <2>2. \A i, j \in 1..(n + 1) : i # j => given[i][1] # given[j][1]
    BY <1>1, <1>5, Zenon DEF Whole
  <2> QED
    BY <2>1, <2>2 DEF Whole
<1> QED
  BY <1>2, <1>3, <1>4, <1>5

\* A parameter that is added stands beside the others.
LEMMA WithIs ==
    ASSUME NEW r, NEW x, NEW v, DOMAIN r = {"ok", "params"}, x \notin DOMAIN r.params
    PROVE  /\ DOMAIN With(r, x, v) = {"ok", "params"}
           /\ With(r, x, v).ok = r.ok
           /\ DOMAIN With(r, x, v).params = DOMAIN r.params \cup {x}
           /\ With(r, x, v).params[x] = v
           /\ \A y \in DOMAIN r.params : With(r, x, v).params[y] = r.params[y]
<1> DEFINE more == [n \in DOMAIN r.params \cup {x} |->
                       IF n \in DOMAIN r.params THEN r.params[n] ELSE v]
<1>1. With(r, x, v) = [r EXCEPT !.params = more]
  BY DEF With
<1>2. /\ DOMAIN more = DOMAIN r.params \cup {x}
      /\ more[x] = v
      /\ \A y \in DOMAIN r.params : more[y] = r.params[y]
  OBVIOUS
<1> HIDE DEF more
<1>3. /\ DOMAIN With(r, x, v) = {"ok", "params"}
      /\ With(r, x, v).ok = r.ok
      /\ With(r, x, v).params = more
  BY <1>1
<1> QED
  BY <1>2, <1>3

\* One more is read.
LEMMA OneMoreIsSaid ==
    ASSUME NEW read, NEW given, NEW n \in Nat, DOMAIN read = {"ok", "params"},
           Says(read, given, n), given[n + 1][1] \notin DOMAIN read.params,
           NEW next, next = With(read, given[n + 1][1], Normal(given[n + 1][2]))
    PROVE  DOMAIN next = {"ok", "params"} /\ next.ok = read.ok /\ Says(next, given, n + 1)
<1> PICK name : name = given[n + 1][1]
  OBVIOUS
<1> PICK value : value = Normal(given[n + 1][2])
  OBVIOUS
<1>1. /\ DOMAIN read.params = Names(given, n)
      /\ \A i \in 1..n : read.params[given[i][1]] = Normal(given[i][2])
      /\ IsFiniteSet(DOMAIN read.params) /\ Cardinality(DOMAIN read.params) = n
  BY DEF Says
<1>2. DOMAIN read = {"ok", "params"} /\ name \notin DOMAIN read.params
  OBVIOUS
<1>3. next = With(read, name, value)
  OBVIOUS
<1>4. /\ DOMAIN next = {"ok", "params"}
      /\ next.ok = read.ok
      /\ DOMAIN next.params = DOMAIN read.params \cup {name}
      /\ next.params[name] = value
      /\ \A x \in DOMAIN read.params : next.params[x] = read.params[x]
  BY ONLY <1>2, <1>3, WithIs
<1>5. DOMAIN next.params = Names(given, n + 1)
  BY <1>1, <1>4, OneMoreIsWhole
<1>6. ASSUME NEW i \in 1..(n + 1)
      PROVE  next.params[given[i][1]] = Normal(given[i][2])
  <2>1. CASE i = n + 1
    BY <1>4, <2>1
  <2>2. CASE i # n + 1
    <3>1. i \in 1..n
      BY <2>2
    <3>2. given[i][1] \in DOMAIN read.params
      BY <1>1, <3>1, Zenon DEF Names
    <3> QED
      BY <1>1, <1>4, <3>1, <3>2, Zenon
  <2> QED
    BY <2>1, <2>2
<1>7. IsFiniteSet(DOMAIN next.params) /\ Cardinality(DOMAIN next.params) = n + 1
  BY <1>1, <1>2, <1>4, FS_AddElement
<1> QED
  BY <1>4, <1>5, <1>6, <1>7 DEF Says

LEMMA RefusalIs ==
    ASSUME NEW read, DOMAIN read = {"ok", "params"}
    PROVE  LET next == [read EXCEPT !.ok = FALSE]
           IN  DOMAIN next = {"ok", "params"} /\ next.ok = FALSE
  OBVIOUS

\* It is the first n that count.
LEMMA FollowsOfAlike ==
    ASSUME NEW read, NEW given, NEW other, NEW n \in Nat, NEW may,
           \A i \in 1..n : given[i] = other[i], Follows(read, given, n, may)
    PROVE  Follows(read, other, n, may)
<1> HIDE DEF Fitting
<1>1. Whole(given, n) <=> Whole(other, n)
  BY Zenon DEF Whole
<1>2. Names(given, n) = Names(other, n)
  BY DEF Names
<1>3. \A i \in 1..n : given[i][1] = other[i][1] /\ given[i][2] = other[i][2]
  OBVIOUS
<1> QED
  BY <1>1, <1>2, <1>3 DEF Follows, Says

LEMMA NothingIsRead ==
    ASSUME NEW given, NEW may \in BOOLEAN, may
    PROVE  Follows(NoParameters, given, 0, may)
<1>1. 1..0 = {}
  OBVIOUS
<1>2. Whole(given, 0) /\ Names(given, 0) = {}
  BY <1>1, Zenon DEF Whole, Names
<1>3. DOMAIN NoParameters = {"ok", "params"} /\ NoParameters.ok = TRUE
      /\ DOMAIN NoParameters.params = {}
  BY DEF NoParameters
<1> HIDE DEF NoParameters
<1> QED
  BY <1>1, <1>2, <1>3, FS_EmptySet DEF Follows, Says

-----------------------------------------------------------------------------
(* The parameters of a line                                                 *)

LEMMA MembersAreRead ==
    ASSUME NEW members \in Seq(STRING \X Values)
    PROVE  Follows(ReadMembers(members), members, Len(members), Len(members) <= MaxParameters)
<1> DEFINE m == Len(members)
           read == Reading(members)
           T == {n \in 0..m : Follows(read[n], members, n, n <= MaxParameters)}
<1>1. m \in Nat /\ MaxParameters \in Nat
  BY NumbersAssumption
<1>2. /\ read[0] = NoParameters
      /\ \A n \in 1..m : read[n] = Member(read[n - 1], members[n])
      /\ ReadMembers(members) = read[m]
  BY ReadingIs
<1> HIDE DEF read, m
<1>3. 0 \in T
  <2> DEFINE may == 0 <= MaxParameters
  <2>1. may /\ may \in BOOLEAN /\ 0 \in 0..m
    BY <1>1
  <2> HIDE DEF may
  <2>2. Follows(read[0], members, 0, may)
    BY <1>2, <2>1, NothingIsRead
  <2> QED
    BY <2>1, <2>2 DEF may
<1>4. ASSUME NEW n \in 0..(m - 1), n \in T
      PROVE  n + 1 \in T
  <2>1. Follows(read[n], members, n, n <= MaxParameters)
    BY <1>4
  <2>2. n \in Nat /\ n + 1 \in 1..m /\ n + 1 \in 0..m /\ (n + 1) - 1 = n
    BY <1>1
  <2>3. read[n + 1] = Member(read[n], members[n + 1])
    BY <1>2, <2>2
  <2> DEFINE pair == members[n + 1]
  <2>4. /\ DOMAIN read[n] = {"ok", "params"}
        /\ read[n].ok <=> n <= MaxParameters /\ Whole(members, n)
        /\ read[n].ok => Says(read[n], members, n)
    BY <2>1 DEF Follows
  <2>5. read[n].ok => /\ DOMAIN read[n].params = Names(members, n)
                      /\ Cardinality(DOMAIN read[n].params) < MaxParameters <=>
                             n + 1 <= MaxParameters
    <3>1. read[n].ok => /\ DOMAIN read[n].params = Names(members, n)
                        /\ Cardinality(DOMAIN read[n].params) = n
      BY <2>4 DEF Says
    <3> QED
      BY <1>1, <2>2, <3>1
  <2>6. n + 1 <= MaxParameters => n <= MaxParameters
    BY <1>1, <2>2
  <2> HIDE DEF T
  <2>7. Whole(members, n + 1) <=>
            Whole(members, n) /\ Fitting(pair) /\ pair[1] \notin Names(members, n)
    BY <2>2, OneMoreIsWhole
  <2>8. Follows(read[n + 1], members, n + 1, n + 1 <= MaxParameters)
    <3>1. CASE /\ read[n].ok /\ pair[1] \notin DOMAIN read[n].params /\ Fitting(pair)
               /\ Cardinality(DOMAIN read[n].params) < MaxParameters
      <4>1. read[n + 1] = With(read[n], pair[1], Normal(pair[2]))
        BY <2>3, <3>1 DEF Member, Fitting
      <4>2. /\ DOMAIN read[n + 1] = {"ok", "params"} /\ read[n + 1].ok = read[n].ok
            /\ Says(read[n + 1], members, n + 1)
        BY <2>2, <2>4, <3>1, <4>1, OneMoreIsSaid
      <4>3. n + 1 <= MaxParameters /\ Whole(members, n + 1)
        BY <2>4, <2>5, <2>7, <3>1
      <4> QED
        BY <3>1, <4>2, <4>3 DEF Follows
    <3>2. CASE ~(/\ read[n].ok /\ pair[1] \notin DOMAIN read[n].params /\ Fitting(pair)
                 /\ Cardinality(DOMAIN read[n].params) < MaxParameters)
      <4>1. read[n + 1] = [read[n] EXCEPT !.ok = FALSE]
        BY <2>3, <3>2 DEF Member, Fitting
      <4>2. DOMAIN read[n + 1] = {"ok", "params"} /\ read[n + 1].ok = FALSE
        BY <2>4, <4>1, RefusalIs
      <4>3. ~(n + 1 <= MaxParameters /\ Whole(members, n + 1))
        BY <2>4, <2>5, <2>6, <2>7, <3>2
      <4> QED
        BY <4>2, <4>3 DEF Follows
    <3> QED
      BY <3>1, <3>2
  <2> QED
    BY <2>2, <2>8 DEF T
<1>5. m \in T
  <2>1. \A n \in 0..(m - 1) : n \in T => n + 1 \in T
    BY <1>4, Zenon
  <2> HIDE DEF T
  <2>2. \A n \in 0..m : n \in T
    BY <1>1, <1>3, <2>1, SetInduction, Zenon
  <2> QED
    BY <1>1, <2>2
<1> QED
  BY <1>2, <1>5 DEF m

LEMMA AssignmentsAreRead ==
    ASSUME NEW before, NEW d \in Nat, NEW given, NEW may \in BOOLEAN,
           Follows(before, given, d, may),
           NEW params \in Seq(STRING \X ({"string"} \X STRING)),
           \A n \in 1..Len(params) : given[d + n] = params[n]
    PROVE  Follows(ReadAssignments(before, params), given, d + Len(params), may)
<1> DEFINE m == Len(params)
           read == Assigning(before, params)
           T == {n \in 0..m : Follows(read[n], given, d + n, may)}
<1>1. m \in Nat
  OBVIOUS
<1>2. /\ read[0] = before
      /\ \A n \in 1..m : read[n] = Assigned(read[n - 1], params[n])
      /\ ReadAssignments(before, params) = read[m]
  BY AssigningIs
<1>3. \A n \in 1..m : params[n] \in STRING \X ({"string"} \X STRING)
  OBVIOUS
<1> HIDE DEF read, m
<1>4. 0 \in T
  BY <1>1, <1>2
<1>5. ASSUME NEW n \in 0..(m - 1), n \in T
      PROVE  n + 1 \in T
  <2>1. Follows(read[n], given, d + n, may)
    BY <1>5
  <2>2. /\ d + n \in Nat /\ n + 1 \in 1..m /\ n + 1 \in 0..m /\ (n + 1) - 1 = n
        /\ d + (n + 1) = (d + n) + 1
    BY <1>1
  <2>3. read[n + 1] = Assigned(read[n], params[n + 1])
    BY <1>2, <2>2
  <2>4. given[(d + n) + 1] = params[n + 1] /\ params[n + 1] \in STRING \X ({"string"} \X STRING)
    BY <1>3, <2>2 DEF m
  <2>5. /\ Normal(params[n + 1][2]) = params[n + 1][2]
        /\ Scalar(params[n + 1][2])
    BY <2>4 DEF Normal, Scalar
  <2> HIDE DEF T
  <2> DEFINE pair == given[(d + n) + 1]
  <2>6. Fitting(pair) <=> ValidParameter(pair[1], pair[2])
    BY <2>4, <2>5 DEF Fitting
  <2>7. /\ DOMAIN read[n] = {"ok", "params"}
        /\ read[n].ok <=> may /\ Whole(given, d + n)
        /\ read[n].ok => Says(read[n], given, d + n)
        /\ read[n].ok => DOMAIN read[n].params = Names(given, d + n)
    BY <2>1 DEF Follows, Says
  <2>8. Whole(given, (d + n) + 1) <=>
            Whole(given, d + n) /\ Fitting(pair) /\ pair[1] \notin Names(given, d + n)
    BY <2>2, OneMoreIsWhole
  <2>9. Follows(read[n + 1], given, (d + n) + 1, may)
    <3>1. CASE read[n].ok /\ pair[1] \notin DOMAIN read[n].params /\ Fitting(pair)
      <4>1. read[n + 1] = With(read[n], pair[1], Normal(pair[2]))
        BY <2>3, <2>4, <2>5, <2>6, <3>1 DEF Assigned
      <4>2. /\ DOMAIN read[n + 1] = {"ok", "params"} /\ read[n + 1].ok = read[n].ok
            /\ Says(read[n + 1], given, (d + n) + 1)
        BY <2>2, <2>7, <3>1, <4>1, OneMoreIsSaid
      <4>3. may /\ Whole(given, (d + n) + 1)
        BY <2>7, <2>8, <3>1
      <4> QED
        BY <3>1, <4>2, <4>3 DEF Follows
    <3>2. CASE ~(read[n].ok /\ pair[1] \notin DOMAIN read[n].params /\ Fitting(pair))
      <4>1. read[n + 1] = [read[n] EXCEPT !.ok = FALSE]
        BY <2>3, <2>4, <2>6, <3>2 DEF Assigned
      <4>2. DOMAIN read[n + 1] = {"ok", "params"} /\ read[n + 1].ok = FALSE
        BY <2>7, <4>1, RefusalIs
      <4>3. ~(may /\ Whole(given, (d + n) + 1))
        BY <2>7, <2>8, <3>2
      <4> QED
        BY <4>2, <4>3 DEF Follows
    <3> QED
      BY <3>1, <3>2
  <2> QED
    BY <2>2, <2>9 DEF T
<1>6. m \in T
  <2>1. \A n \in 0..(m - 1) : n \in T => n + 1 \in T
    BY <1>5, Zenon
  <2> HIDE DEF T
  <2>2. \A n \in 0..m : n \in T
    BY <1>1, <1>4, <2>1, SetInduction, Zenon
  <2> QED
    BY <1>1, <2>2
<1> QED
  BY <1>2, <1>6 DEF m

\* The document of a line, if it has one, can be decoded.
Readable(line) ==
    (line.json \/ line.paramsFile # "") =>
        LET d == line.document
        IN  d.fits /\ d.utf8 /\ d.object /\ ~d.trailing /\ Len(d.members) <= MaxParameters

LEMMA ParametersAreRead ==
    ASSUME NEW line, QueryLine(line)
    PROVE  /\ AllParameters(line) \in Seq(STRING \X Values)
           /\ Follows(Parameters(line), AllParameters(line), Len(AllParameters(line)),
                      Readable(line))
           /\ line.json \/ line.paramsFile # "" =>
                 /\ Len(line.document.members) \in Nat
                 /\ Len(line.document.members) <= Len(AllParameters(line))
<1> DEFINE document == line.json \/ line.paramsFile # ""
           members == IF document THEN line.document.members ELSE <<>>
           before == IF document THEN Decode(line.document) ELSE NoParameters
           given == AllParameters(line)
<1>1. /\ line.document.members \in Seq(STRING \X Values)
      /\ line.params \in Seq(STRING \X ({"string"} \X STRING))
  BY DEF QueryLine
<1>2. STRING \X ({"string"} \X STRING) \subseteq STRING \X Values
  BY DEF Values
<1>3. members \in Seq(STRING \X Values)
  <2>1. CASE document
    BY <1>1, <2>1
  <2>2. CASE ~document
    BY <2>2, EmptySeq
  <2> QED
    BY <2>1, <2>2
<1>4. line.params \in Seq(STRING \X Values)
  BY <1>1, <1>2
<1>5. given = members \o line.params
  BY DEF AllParameters
<1>6. Parameters(line) = ReadAssignments(before, line.params)
  BY DEF Parameters
<1>7. Follows(before, members, Len(members), Readable(line))
  <2>1. CASE ~document
    <3>1. members = <<>> /\ Len(members) = 0 /\ before = NoParameters /\ Readable(line)
      BY <2>1 DEF Readable
    <3>2. Readable(line) \in BOOLEAN
      BY DEF Readable
    <3> HIDE DEF members, before
    <3> QED
      BY <3>1, <3>2, NothingIsRead
  <2>2. CASE document /\ ~(/\ line.document.fits /\ line.document.utf8 /\ line.document.object
                           /\ ~line.document.trailing)
    <3>1. before = [NoParameters EXCEPT !.ok = FALSE] /\ ~Readable(line)
      BY <2>2 DEF Decode, Readable
    <3>2. DOMAIN before = {"ok", "params"} /\ before.ok = FALSE
      BY <3>1 DEF NoParameters
    <3> QED
      BY <3>1, <3>2 DEF Follows
  <2>3. CASE document /\ /\ line.document.fits /\ line.document.utf8 /\ line.document.object
                         /\ ~line.document.trailing
    <3>1. before = ReadMembers(members) /\ (Readable(line) <=> Len(members) <= MaxParameters)
      BY <2>3 DEF Decode, Readable
    <3> HIDE DEF members, before
    <3>2. Follows(ReadMembers(members), members, Len(members), Len(members) <= MaxParameters)
      BY <1>3, MembersAreRead
    <3> QED
      BY <3>1, <3>2 DEF Follows
  <2> QED
    BY <2>1, <2>2, <2>3
<1> HIDE DEF members, before, given
<1>8. /\ Len(members) \in Nat /\ Len(line.params) \in Nat
      /\ given \in Seq(STRING \X Values)
      /\ Len(given) = Len(members) + Len(line.params)
      /\ \A i \in 1..Len(members) : given[i] = members[i]
      /\ \A n \in 1..Len(line.params) : given[Len(members) + n] = line.params[n]
  <2>1. /\ given \in Seq(STRING \X Values)
        /\ Len(given) = Len(members) + Len(line.params)
        /\ \A i \in 1..(Len(members) + Len(line.params)) :
               given[i] = IF i <= Len(members) THEN members[i] ELSE line.params[i - Len(members)]
    BY <1>3, <1>4, <1>5, ConcatProperties
  <2>2. Len(members) \in Nat /\ Len(line.params) \in Nat
    BY <1>3, <1>4
  <2>3. ASSUME NEW i \in 1..Len(members)
        PROVE  given[i] = members[i]
    <3>1. i \in 1..(Len(members) + Len(line.params)) /\ i <= Len(members)
      BY <2>2
    <3> QED
      BY <2>1, <3>1, Zenon
  <2>4. ASSUME NEW n \in 1..Len(line.params)
        PROVE  given[Len(members) + n] = line.params[n]
    <3>1. /\ Len(members) + n \in 1..(Len(members) + Len(line.params))
          /\ ~(Len(members) + n <= Len(members)) /\ (Len(members) + n) - Len(members) = n
      BY <2>2
    <3> QED
      BY <2>1, <3>1
  <2> QED
    BY <2>1, <2>2, <2>3, <2>4
<1>9. Readable(line) \in BOOLEAN
  BY DEF Readable
<1>10. Follows(before, given, Len(members), Readable(line))
  BY <1>7, <1>8, FollowsOfAlike
<1>11. Follows(ReadAssignments(before, line.params), given,
               Len(members) + Len(line.params), Readable(line))
  BY <1>1, <1>8, <1>9, <1>10, AssignmentsAreRead
<1>12. line.json \/ line.paramsFile # "" => members = line.document.members
  BY DEF members
<1>13. Len(members) <= Len(given)
  BY <1>8
<1>14. Follows(Parameters(line), given, Len(given), Readable(line))
  BY <1>6, <1>8, <1>11, Zenon
<1> QED
  BY <1>8, <1>12, <1>13, <1>14, Zenon DEF given

-----------------------------------------------------------------------------
(* A well-formed query                                                      *)

\* As many names as parameters: no name twice
LEMMA NamesDiffer ==
    ASSUME NEW given, NEW n \in Nat
    PROVE  Cardinality(Names(given, n)) = n <=>
               \A i, j \in 1..n : i # j => given[i][1] # given[j][1]
<1> DEFINE D == 1..n
           f == [i \in D |-> given[i][1]]
<1>1. IsFiniteSet(D) /\ Cardinality(D) = n
  BY FS_Interval
<1>2. f \in Surjection(D, Names(given, n))
  BY DEF Names, Surjection
<1>3. Cardinality(Names(given, n)) = n <=> f \in Injection(D, Names(given, n))
  <2> HIDE DEF f, D
  <2> QED
    BY <1>1, <1>2, FS_Surjection
<1>4. f \in Injection(D, Names(given, n)) <=> \A i, j \in D : f[i] = f[j] => i = j
  <2>1. f \in [D -> Names(given, n)]
    BY DEF Names
  <2> HIDE DEF f, D
  <2> QED
    BY <2>1 DEF Injection, IsInjective
<1>5. \A i \in D : f[i] = given[i][1]
  OBVIOUS
<1> HIDE DEF f, D
<1>6. (\A i, j \in D : f[i] = f[j] => i = j) <=>
          \A i, j \in D : i # j => given[i][1] # given[j][1]
  BY <1>5
<1> QED
  BY <1>3, <1>4, <1>6, Zenon DEF D

\* What may be a parameter, of one that was given
LEMMA FittingIs ==
    ASSUME NEW pair \in STRING \X Values
    PROVE  Fitting(pair) <=> /\ pair[1] \in ParameterNames
                             /\ pair[2][1] # "nested" /\ pair[2] # <<"string", "too long">>
                             /\ pair[2][1] = "integer" => pair[2][2] \in -MaxFloat..MaxFloat
<1> PICK value : value = pair[2]
  OBVIOUS
<1>1. value[1] \in {"integer", "fraction", "string", "bool", "nested"}
  BY DEF Values
<1>2. Normal(value) # <<"string", "too long">> <=> value # <<"string", "too long">>
  <2>1. CASE Normal(value) = value
    BY <2>1
  <2>2. CASE value[1] = "integer" /\ Normal(value) = <<"fraction", Float(value[2])>>
    <3>1. value[1] # "string" /\ Normal(value)[1] # "string"
      BY <2>2
    <3>2. <<"string", "too long">>[1] = "string"
      OBVIOUS
    <3> QED
      BY <3>1, <3>2, Zenon
  <2> QED
    BY <2>1, <2>2, Zenon DEF Normal
<1>3. Scalar(value) <=> /\ value[1] # "nested"
                        /\ value[1] = "integer" => value[2] \in -MaxFloat..MaxFloat
  BY <1>1 DEF Scalar
<1> QED
  BY <1>2, <1>3 DEF Fitting, ValidParameter

\* A query is accepted if it is well formed, and only then.
LEMMA AcceptedIsWellFormed ==
    ASSUME NEW line, QueryLine(line)
    PROVE  QueryAccepted(line) <=> WellFormed(line)
<1> DEFINE given == AllParameters(line)
           typed == {d \in {"json", "file"} :
                        IF d = "json" THEN line.json ELSE line.paramsFile # ""}
           read == Parameters(line)
<1>1. given \in Seq(STRING \X Values) /\ Follows(read, given, Len(given), Readable(line))
  BY ParametersAreRead
<1>2. Len(given) \in Nat /\ DOMAIN given = 1..Len(given)
      /\ \A i \in 1..Len(given) : given[i] \in STRING \X Values
  <2> HIDE DEF given
  <2> QED
    BY <1>1
<1>3. line.positional \in BOOLEAN /\ line.json \in BOOLEAN
  BY DEF QueryLine
<1>4. OneSourceEach(line) <=> /\ line.positional # (line.file # "")
                              /\ Cardinality(typed) <= 1
                              /\ {line.file, line.paramsFile} # {"-"}
  <2>1. Cardinality(typed) <= 1 <=> ~(line.json /\ line.paramsFile # "")
    <3>1. typed = (IF line.json THEN {"json"} ELSE {})
                      \cup (IF line.paramsFile # "" THEN {"file"} ELSE {})
      OBVIOUS
    <3>2. Cardinality({}) = 0 /\ IsFiniteSet({})
      BY FS_EmptySet
    <3>3. Cardinality({"json"}) = 1 /\ Cardinality({"file"}) = 1 /\ IsFiniteSet({"json"})
      BY FS_Singleton
    <3>4. Cardinality({"json"} \cup {"file"}) = 2
      <4>1. "file" \notin {"json"}
        OBVIOUS
      <4> QED
        BY <3>3, <4>1, FS_AddElement
    <3>5. CASE line.json /\ line.paramsFile # ""
      <4>1. typed = {"json"} \cup {"file"}
        BY <3>1, <3>5
      <4>2. Cardinality(typed) = 2
        BY <3>4, <4>1, Zenon
      <4> HIDE DEF typed
      <4>3. ~(Cardinality(typed) <= 1)
        BY ONLY <4>2
      <4> QED
        BY <3>5, <4>3, Zenon
    <3>6. CASE ~(line.json /\ line.paramsFile # "")
      <4>1. typed = {} \/ typed = {"json"} \/ typed = {"file"}
        BY <3>1, <3>6
      <4> HIDE DEF typed
      <4>2. Cardinality(typed) = 0 \/ Cardinality(typed) = 1
        BY <3>2, <3>3, <4>1, Zenon
      <4>3. Cardinality(typed) <= 1
        BY ONLY <4>2
      <4> QED
        BY <3>6, <4>3, Zenon
    <3> QED
      BY <3>5, <3>6, Zenon
  <2>2. {line.file, line.paramsFile} # {"-"} <=> ~(line.file = "-" /\ line.paramsFile = "-")
    OBVIOUS
  <2>3. line.positional # (line.file # "") <=> line.positional = (line.file = "")
    BY <1>3
  <2> HIDE DEF typed
  <2> QED
    BY <2>1, <2>2, <2>3 DEF OneSourceEach
<1>5. typed # {} <=> line.json \/ line.paramsFile # ""
  <2>1. "json" \in typed <=> line.json
    BY <1>3
  <2>2. "file" \in typed <=> line.paramsFile # ""
    OBVIOUS
  <2> QED
    BY <2>1, <2>2
<1>6. Whole(given, Len(given)) <=>
          /\ Cardinality({given[i][1] : i \in DOMAIN given}) = Len(given)
          /\ \A i \in DOMAIN given :
                /\ given[i][1] \in ParameterNames
                /\ given[i][2][1] # "nested" /\ given[i][2] # <<"string", "too long">>
                /\ given[i][2][1] = "integer" => given[i][2][2] \in -MaxFloat..MaxFloat
  <2>1. Names(given, Len(given)) = {given[i][1] : i \in DOMAIN given}
    BY <1>2 DEF Names
  <2> HIDE DEF given
  <2>2. \A i \in DOMAIN given : Fitting(given[i]) <=>
            /\ given[i][1] \in ParameterNames
            /\ given[i][2][1] # "nested" /\ given[i][2] # <<"string", "too long">>
            /\ given[i][2][1] = "integer" => given[i][2][2] \in -MaxFloat..MaxFloat
    BY <1>2, FittingIs
  <2>3. Cardinality(Names(given, Len(given))) = Len(given) <=>
            \A i, j \in DOMAIN given : i # j => given[i][1] # given[j][1]
    BY <1>2, NamesDiffer
  <2>4. Whole(given, Len(given)) <=> /\ \A i \in DOMAIN given : Fitting(given[i])
                                    /\ \A i, j \in DOMAIN given : i # j => given[i][1] # given[j][1]
    BY <1>2, Zenon DEF Whole
  <2> QED
    BY <2>1, <2>2, <2>3, <2>4, Zenon
<1>7. /\ read.ok <=> Readable(line) /\ Whole(given, Len(given))
      /\ read.ok => Cardinality(DOMAIN read.params) = Len(given)
  BY <1>1 DEF Follows, Says
<1> DEFINE sound == LET d == line.document
                    IN  d.fits /\ d.utf8 /\ d.object /\ ~d.trailing
<1>8. Len(given) <= MaxParameters => (Readable(line) <=> (typed # {} => sound))
  <2>1. typed # {} => Len(line.document.members) \in Nat /\ Len(line.document.members) <= Len(given)
    BY <1>5, ParametersAreRead
  <2>2. MaxParameters \in Nat
    BY NumbersAssumption
  <2>3. Readable(line) <=> (typed # {} => sound /\ Len(line.document.members) <= MaxParameters)
    BY <1>5 DEF Readable
  <2> HIDE DEF typed, given, sound
  <2> QED
    BY <1>2, <2>1, <2>2, <2>3
<1>9. QueryAccepted(line) <=>
          /\ OneSourceEach(line)
          /\ line.query.fits /\ line.query.utf8 /\ ~line.query.blank /\ ~line.query.explain
          /\ read.ok /\ Len(given) <= MaxParameters
  <2> HIDE DEF given
  <2> QED
    BY <1>7 DEF QueryAccepted, ValidQuery
<1>10. WellFormed(line) <=>
          /\ line.positional # (line.file # "")
          /\ Cardinality(typed) <= 1
          /\ {line.file, line.paramsFile} # {"-"}
          /\ line.query.fits /\ line.query.utf8 /\ ~line.query.blank /\ ~line.query.explain
          /\ typed # {} => sound
          /\ Len(given) <= MaxParameters
          /\ Cardinality({given[i][1] : i \in DOMAIN given}) = Len(given)
          /\ \A i \in DOMAIN given :
                /\ given[i][1] \in ParameterNames
                /\ given[i][2][1] # "nested" /\ given[i][2] # <<"string", "too long">>
                /\ given[i][2][1] = "integer" => given[i][2][2] \in -MaxFloat..MaxFloat
  BY DEF WellFormed
<1> HIDE DEF typed, given, sound, read
<1> QED
  BY <1>4, <1>6, <1>7, <1>8, <1>9, <1>10, Zenon

\* json.Number.Float64: the nearest number
LEMMA FloatIsNearest ==
    ASSUME NEW n \in Int
    PROVE  2 * (Float(n) - n) \in -Spacing..Spacing
<1> DEFINE half == Spacing \div 2
           q == (n + half) \div Spacing
<1>1. Spacing \in Nat \ {0}
  BY NumbersAssumption
<1>2. half \in Int /\ Spacing - half * 2 \in 0..1
  BY <1>1, DivisionIs
<1>3. q \in Int /\ (n + half) - q * Spacing \in 0..(Spacing - 1)
  <2>1. n + half \in Int
    BY <1>2
  <2> HIDE DEF half
  <2> QED
    BY <1>1, <2>1, DivisionIs
<1>4. Float(n) = q * Spacing
  BY DEF Float
<1>5. q * Spacing \in Int
  <2> HIDE DEF q
  <2> QED
    BY <1>1, <1>3
<1> DEFINE f == q * Spacing
<1> HIDE DEF half, q, f
<1>6. f \in Int /\ (n + half) - f \in 0..(Spacing - 1)
  BY <1>3, <1>5 DEF f
<1>7. 2 * (f - n) \in -Spacing..Spacing
  BY <1>1, <1>2, <1>6
<1> QED
  BY <1>4, <1>7 DEF f

\* What a parameter becomes
LEMMA NormalIs ==
    ASSUME NEW value \in Values
    PROVE  \/ Normal(value) = value
           \/ /\ value[1] = "integer" /\ Normal(value)[1] = "fraction"
              /\ value[2] \notin (-MaxInteger - 1)..MaxInteger
              /\ 2 * (Normal(value)[2] - value[2]) \in -Spacing..Spacing
<1>1. SUFFICES ASSUME value[1] = "integer", value[2] \notin (-MaxInteger - 1)..MaxInteger
               PROVE  /\ Normal(value)[1] = "fraction"
                      /\ 2 * (Normal(value)[2] - value[2]) \in -Spacing..Spacing
  BY Zenon DEF Normal
<1>2. value[2] \in Int
  BY <1>1 DEF Values
<1>3. Normal(value) = <<"fraction", Float(value[2])>>
  BY <1>1 DEF Normal
<1>4. 2 * (Float(value[2]) - value[2]) \in -Spacing..Spacing
  BY <1>2, FloatIsNearest
<1> QED
  BY <1>3, <1>4

LEMMA QueryKeeps ==
    ASSUME Decided, QueryAsMeant, [Next]_vars
    PROVE  QueryAsMeant'
<1>1. CASE RunQuery
  <2> DEFINE line == call.line
             given == AllParameters(line)
             read == Parameters(line)
  <2>1. call' = call /\ call.kind = "query"
    BY <1>1 DEF RunQuery
  <2>2. QueryLine(line)
    BY <2>1, CallsAssumption DEF Decided
  <2>3. pc' = "sent" <=> WellFormed(line)
    <3>1. pc' = "sent" <=> QueryAccepted(line)
      BY <1>1 DEF RunQuery, Refuse
    <3> HIDE DEF line
    <3> QED
      BY <2>2, <3>1, AcceptedIsWellFormed
  <2>4. pc' = "sent" => request'.params = read.params /\ read.ok
    <3>1. pc' = "sent" => QueryAccepted(line) /\ request'.params = read.params
      BY <1>1 DEF RunQuery, Refuse
    <3> QED
      BY <3>1 DEF QueryAccepted
  <2>5. given \in Seq(STRING \X Values) /\ Follows(read, given, Len(given), Readable(line))
    <3> HIDE DEF line
    <3> QED
      BY <2>2, ParametersAreRead
  <2> HIDE DEF line, given, read
  <2>6. DOMAIN given = 1..Len(given) /\ \A i \in DOMAIN given : given[i] \in STRING \X Values
    BY <2>5
  <2>7. read.ok => /\ DOMAIN read.params = {given[i][1] : i \in DOMAIN given}
                   /\ \A i \in DOMAIN given : read.params[given[i][1]] = Normal(given[i][2])
    BY <2>5, <2>6 DEF Follows, Says, Names
  <2>8. ASSUME NEW i \in DOMAIN given
        PROVE  LET typed == given[i][2]
                   sent == Normal(typed)
               IN  \/ sent = typed
                   \/ /\ typed[1] = "integer" /\ sent[1] = "fraction"
                      /\ typed[2] \notin (-MaxInteger - 1)..MaxInteger
                      /\ 2 * (sent[2] - typed[2]) \in -Spacing..Spacing
    <3>1. given[i][2] \in Values
      BY <2>6
    <3> QED
      BY <3>1, NormalIs, Zenon
  <2>9. call'.kind = "query" /\ call'.line = line /\ AllParameters(call'.line) = given
    BY <2>1 DEF line, given
  <2>10. SUFFICES ASSUME call'.kind = "query", pc' # "start"
                  PROVE  /\ (pc' = "sent") = WellFormed(call'.line)
                         /\ pc' = "sent" =>
                               /\ DOMAIN request'.params = {given[i][1] : i \in DOMAIN given}
                               /\ \A i \in DOMAIN given :
                                     LET typed == given[i][2]
                                         sent == request'.params[given[i][1]]
                                     IN  \/ sent = typed
                                         \/ /\ typed[1] = "integer" /\ sent[1] = "fraction"
                                            /\ typed[2] \notin (-MaxInteger - 1)..MaxInteger
                                            /\ 2 * (sent[2] - typed[2]) \in -Spacing..Spacing
    BY <2>9 DEF QueryAsMeant
  <2>11. (pc' = "sent") = WellFormed(call'.line)
    <3>1. WellFormed(line) \in BOOLEAN
      BY Zenon DEF WellFormed
    <3>2. (pc' = "sent") \in BOOLEAN
      OBVIOUS
    <3>3. (pc' = "sent") = WellFormed(line)
      BY <2>3, <3>1, <3>2
    <3> QED
      BY <2>9, <3>3, Zenon
  <2> QED
    BY <2>4, <2>7, <2>8, <2>11
<1>2. CASE RunNamed \/ RunRaw \/ RunTransaction \/ RunOptions
  <2>1. call' = call /\ call.kind # "query"
    BY <1>2 DEF RunNamed, RunRaw, RunTransaction, RunOptions
  <2> QED
    BY <2>1 DEF QueryAsMeant
<1>3. CASE UNCHANGED vars
  BY <1>3 DEF vars, QueryAsMeant
<1> QED
  BY <1>1, <1>2, <1>3 DEF Next

-----------------------------------------------------------------------------
(* The theorems                                                             *)

Safe == SensitiveOnlyIfConfirmed /\ ArgumentsArrive /\ SentAsMeant /\ QueryAsMeant

LEMMA SafeHolds == Spec => [](Decided /\ Safe)
<1>1. Init => Decided /\ Safe
  <2> SUFFICES ASSUME Init PROVE Decided /\ Safe
    OBVIOUS
  <2>1. call \in Calls /\ pc = "start" /\ wire = <<>> /\ request = <<>>
    BY DEF Init
  <2>2. SensitiveOnlyIfConfirmed
    BY <2>1 DEF SensitiveOnlyIfConfirmed
  <2>3. ArgumentsArrive /\ SentAsMeant /\ QueryAsMeant
    BY <2>1 DEF ArgumentsArrive, SentAsMeant, QueryAsMeant
  <2> QED
    BY <2>1, <2>2, <2>3 DEF Decided, Unsent, Safe
<1>2. Decided /\ Safe /\ [Next]_vars => (Decided /\ Safe)'
  BY DecidedNext, SensitiveKeeps, ArgumentsKeep, SentKeeps, QueryKeeps, Zenon DEF Safe
<1> QED
  BY <1>1, <1>2, PTL DEF Spec

(* What its help says needs --yes is never sent without one, on none of the *)
(* ways to the wire: not as a raw command in another spelling, not from a   *)
(* file, and not by a named command that does not ask                       *)
(* (RequiresConfirmation and its callers).                                  *)
THEOREM SensitiveIsConfirmed == Spec => []SensitiveOnlyIfConfirmed
  BY SafeHolds, PTL DEF Safe

(* A raw command arrives as it was typed; a sensitive one without the flag  *)
(* loses its last --yes and no other argument, and taking that away does    *)
(* not change what the command is (newStoreRawCommand).                     *)
THEOREM RawArgumentsArrive == Spec => []ArgumentsArrive
  BY SafeHolds, PTL DEF Safe

(* Of however many options: a duration is short of less than one            *)
(* millisecond and, but for --wait and --max-active, never zero; no         *)
(* repeated name replaces another; the options of a request do not          *)
(* contradict each other (positiveMilliseconds, parseAssignments,           *)
(* scheduleCreateFlags.options).                                            *)
THEOREM OptionsAreSentAsMeant == Spec => []SentAsMeant
  BY SafeHolds, PTL DEF Safe

(* Of a document and assignments of any length: a query is asked if it is   *)
(* well formed and only then, with every parameter under its name and each  *)
(* as it was typed, or as the nearest number (flowQueryInputFlags.read,     *)
(* decodeFlowQueryParams).                                                  *)
THEOREM QueryIsAsMeant == Spec => []QueryAsMeant
  BY SafeHolds, PTL DEF Safe

-----------------------------------------------------------------------------
(* Commands that ask the server to wait                                     *)

LEMMA UnitsAre ==
    /\ Millisecond \in Nat \ {0} /\ Second \in Nat \ {0}
    /\ MaxDuration \in Nat
    /\ Overhead \in Nat /\ Overhead < Second
    /\ Timeouts \subseteq Int
BY MillisecondAssumption, WaitsAssumption DEF UnitsAreSound

LEMMA NumeralsAre == \A w \in DOMAIN Numerals : Numerals[w] \in Int \X (Nat \ {0})
BY WaitsAssumption DEF NumeralsAreSound

LEMMA LinesAre ==
    \A l \in Lines :
        /\ l.args \in Seq(STRING) /\ l.wait \in Int
        /\ \/ l.name \in {"blpop", "brpop", "blmpop"} /\ Len(l.args) > 0
           \/ l.name = "blmove" /\ Len(l.args) = 5
           \/ l.name = "wait" /\ Len(l.args) = 2
           \/ l.name = "xread" /\ BlockIsOption(l.args, 1)
           \/ l.name = "xreadgroup" /\ BlockIsOption(l.args, 4)
           \/ l.name = "claim"
BY WaitsAssumption DEF LinesAreSound

-----------------------------------------------------------------------------
(* What the command reads as the wait is what the server takes for it.      *)

\* Whole milliseconds never round up.
LEMMA WholeBelow == \A w \in Nat : BlockMS(w) * Millisecond \in 0..w
<1> SUFFICES ASSUME NEW w \in Nat PROVE BlockMS(w) * Millisecond \in 0..w
  OBVIOUS
<1>1. BlockMS(w) \in Nat /\ w = BlockMS(w) * Millisecond + (w % Millisecond)
  BY UnitsAre DEF BlockMS
<1>2. w % Millisecond \in Nat
  BY UnitsAre
<1>3. BlockMS(w) * Millisecond \in Nat
  BY <1>1, UnitsAre
<1> QED
  BY <1>1, <1>2, <1>3

\* What the two ways to write a wait take for one
SecondsFormed(word) ==
    /\ word \in DOMAIN Numerals /\ Numerals[word][1] >= 0
    /\ Numerals[word][1] * Second < MaxDuration * Numerals[word][2]

MillisecondsFormed(word) ==
    /\ word \in DOMAIN Numerals /\ Numerals[word][1] >= 0
    /\ Numerals[word][2] = 1 /\ Numerals[word][1] * Millisecond <= MaxDuration

\* The server waits as long as the command reads, or for ever on a 0.
Agree(wait, server) == server = wait \/ (wait = 0 /\ server = Forever)

\* The reading of a wait: the word is refused, or it is what the server reads.
Reads(wait, formed, server) ==
    /\ wait \in Nat \cup {Invalid}
    /\ wait # Invalid <=> formed
    /\ wait # Invalid => Agree(wait, server)

\* A number of seconds, at a position that exists
LEMMA SecondsAgree ==
    ASSUME NEW args, NEW index, Position(args, index) # 0
    PROVE  LET word == args[Position(args, index)]
           IN  Reads(SecondsWaitAt(args, index), SecondsFormed(word), Seconds(word))
<1> DEFINE word == args[Position(args, index)]
           v == Numerals[word]
<1>1. CASE ~SecondsFormed(word)
  <2>1. SecondsWaitAt(args, index) = Invalid
    <3>1. ASSUME word \in DOMAIN Numerals, v[1] >= 0, ~(v[1] * Second < MaxDuration * v[2])
          PROVE  v[1] * Second >= MaxDuration * v[2]
      <4>1. v[1] \in Int /\ v[2] \in Int
        BY <3>1, NumeralsAre
      <4>2. v[1] * Second \in Int /\ MaxDuration * v[2] \in Int
        BY <4>1, UnitsAre
      <4> QED
        BY <3>1, <4>2
    <3>2. word \in DOMAIN Numerals /\ ~(v[1] >= 0) => v[1] < 0
      BY NumeralsAre
    <3> QED
      BY <1>1, <3>1, <3>2 DEF SecondsWaitAt, SecondsFormed
  <2> QED
    BY <1>1, <2>1 DEF Reads
<1>2. CASE SecondsFormed(word)
  <2>1. word \in DOMAIN Numerals /\ v[1] \in Nat /\ v[2] \in Nat \ {0}
    BY <1>2, NumeralsAre DEF SecondsFormed
  <2>2. v[1] * Second \in Nat /\ MaxDuration * v[2] \in Nat
    BY <2>1, UnitsAre
  <2>3. SecondsWaitAt(args, index) = (v[1] * Second) \div v[2]
    BY <1>2, <2>1, <2>2 DEF SecondsWaitAt, SecondsFormed
  <2>4. (v[1] * Second) \div v[2] \in Nat
    BY <2>1, <2>2
  <2>5. v[1] = 0 => (v[1] * Second) \div v[2] = 0
    <3>1. v[1] = 0 => v[1] * Second = 0
      BY UnitsAre
    <3>2. 0 \div v[2] = 0
      BY <2>1
    <3> QED
      BY <3>1, <3>2
  <2>6. Seconds(word) = IF v[1] = 0 THEN Forever ELSE (v[1] * Second) \div v[2]
    BY DEF Seconds
  <2> QED
    BY <1>2, <2>3, <2>4, <2>5, <2>6 DEF Reads, Agree, Invalid
<1> QED
  BY <1>1, <1>2

\* A product stays below a bound as long as the factor stays below the quotient.
LEMMA QuotientIs ==
    ASSUME NEW n \in Nat, NEW d \in Nat \ {0}, NEW m \in Nat
    PROVE  m > n \div d <=> ~(m * d <= n)
<1> DEFINE q == n \div d
<1>1. q \in Nat /\ n = q * d + (n % d) /\ n % d \in Nat /\ n % d < d
  OBVIOUS
<1>2. m * d \in Nat /\ q * d \in Nat
  BY <1>1
<1>3. CASE m > q
  <2>1. PICK k \in Nat : m = q + 1 + k
    <3>1. m - q - 1 \in Nat /\ m = q + 1 + (m - q - 1)
      BY <1>1, <1>3
    <3> QED
      BY <3>1
  <2>2. m * d = q * d + d + k * d /\ k * d \in Nat
    BY <1>1, <2>1
  <2> QED
    BY <1>1, <1>2, <1>3, <2>2
<1>4. CASE ~(m > q)
  <2>1. PICK k \in Nat : q = m + k
    <3>1. q - m \in Nat /\ q = m + (q - m)
      BY <1>1, <1>4
    <3> QED
      BY <3>1
  <2>2. q * d = m * d + k * d /\ k * d \in Nat
    BY <2>1
  <2> QED
    BY <1>1, <1>2, <1>4, <2>2
<1> QED
  BY <1>3, <1>4

\* A number of milliseconds
LEMMA MillisecondsAgree ==
    ASSUME NEW args, NEW index, Position(args, index) # 0
    PROVE  LET word == args[Position(args, index)]
           IN  Reads(MillisecondsWaitAt(args, index), MillisecondsFormed(word),
                     Milliseconds(word))
<1> DEFINE word == args[Position(args, index)]
           v == Numerals[word]
<1>1. CASE ~(word \in DOMAIN Numerals /\ v[2] = 1 /\ v[1] >= 0)
  <2>1. word \in DOMAIN Numerals => v[1] \in Int
    BY NumeralsAre
  <2>2. MillisecondsWaitAt(args, index) = Invalid
    BY <1>1, <2>1 DEF MillisecondsWaitAt
  <2> QED
    BY <1>1, <2>2 DEF Reads, MillisecondsFormed
<1>2. CASE word \in DOMAIN Numerals /\ v[2] = 1 /\ v[1] >= 0
  <2>1. v[1] \in Nat
    BY <1>2, NumeralsAre
  <2>2. v[1] > MaxDuration \div Millisecond <=> ~MillisecondsFormed(word)
    BY <1>2, <2>1, QuotientIs, UnitsAre DEF MillisecondsFormed
  <2>3. v[1] * Millisecond \in Nat /\ (v[1] = 0 => v[1] * Millisecond = 0)
    BY <2>1, UnitsAre
  <2>4. ~(v[1] < 0)
    BY <2>1
  <2>5. MillisecondsWaitAt(args, index) =
            IF ~MillisecondsFormed(word) THEN Invalid ELSE v[1] * Millisecond
    BY <1>2, <2>2, <2>4 DEF MillisecondsWaitAt
  <2>6. Milliseconds(word) = IF v[1] = 0 THEN Forever ELSE v[1] * Millisecond
    BY DEF Milliseconds
  <2> HIDE DEF v
  <2> QED
    BY <2>3, <2>5, <2>6 DEF Reads, Agree, Invalid
<1> QED
  BY <1>1, <1>2

\* The first BLOCK is the option, and its value is what the server takes.
LEMMA BlockAgrees ==
    ASSUME NEW args \in Seq(STRING), NEW from \in {1, 4},
           BlockIsOption(args, from)
    PROVE  LET word == OptionValue(args, from)
           IN  Reads(MillisecondsWaitAfter(args, "BLOCK"), MillisecondsFormed(word),
                     Milliseconds(word))
<1>1. PICK i \in DOMAIN args :
          /\ i >= from /\ (i - from) % 2 = 0 /\ i < Len(args)
          /\ \A j \in DOMAIN args : args[j] = "BLOCK" <=> j = i
          /\ \A j \in 1..i : args[j] # "STREAMS"
  BY DEF BlockIsOption
<1>2. i \in Nat \ {0} /\ Len(args) \in Nat /\ DOMAIN args = 1..Len(args)
  OBVIOUS
<1>3. MillisecondsWaitAfter(args, "BLOCK") = MillisecondsWaitAt(args, i)
  <2>1. {j \in DOMAIN args : args[j] = "BLOCK"} = {i}
    BY <1>1
  <2>2. (CHOOSE j \in {i} : \A k \in {i} : j <= k) = i
    BY <1>2
  <2> QED
    BY <1>1, <1>2, <2>1, <2>2 DEF MillisecondsWaitAfter
<1>4. Position(args, i) = i + 1
  BY <1>1, <1>2 DEF Position
<1>5. OptionValue(args, from) = args[i + 1]
  <2> DEFINE ends == {e \in DOMAIN args : e >= from /\ (e - from) % 2 = 0 /\ args[e] = "STREAMS"}
  <2>1. \A e \in ends : i < e
    BY <1>1, <1>2
  <2>2. BlockOptions(args, from) = {i}
    BY <1>1, <2>1 DEF BlockOptions
  <2> QED
    BY <2>2 DEF OptionValue
<1>6. i + 1 # 0
  BY <1>2
<1> QED
  BY <1>3, <1>4, <1>5, <1>6, MillisecondsAgree

\* Every command reads the word that the server takes for the wait.
LEMMA StoreReads ==
    ASSUME waiting \in Lines, waiting.name # "claim"
    PROVE  Reads(StoreWait(waiting.name, waiting.args), WaitWellFormed(waiting),
                 ServerWait(waiting))
<1> DEFINE args == waiting.args
           wait == StoreWait(waiting.name, args)
<1>1. args \in Seq(STRING)
  BY LinesAre
<1>2. waiting.name \notin InMilliseconds =>
          /\ WaitWellFormed(waiting) <=> SecondsFormed(WaitWord(waiting))
          /\ ServerWait(waiting) = Seconds(WaitWord(waiting))
  BY DEF WaitWellFormed, ServerWait, SecondsFormed
<1>3. waiting.name \in InMilliseconds =>
          /\ WaitWellFormed(waiting) <=> MillisecondsFormed(WaitWord(waiting))
          /\ ServerWait(waiting) = Milliseconds(WaitWord(waiting))
  BY DEF WaitWellFormed, ServerWait, MillisecondsFormed
<1>4. CASE waiting.name \in {"blpop", "brpop"}
  <2>1. /\ wait = SecondsWaitAt(args, -1)
        /\ Position(args, -1) = Len(args) /\ Len(args) # 0
    BY <1>1, <1>4, LinesAre DEF StoreWait, Position
  <2>2. WaitWord(waiting) = args[Position(args, -1)]
    BY <1>4, <2>1 DEF WaitWord
  <2> QED
    BY <1>2, <1>4, <2>1, <2>2, SecondsAgree DEF InMilliseconds, Reads
<1>5. CASE waiting.name = "blmove"
  <2>1. wait = SecondsWaitAt(args, 4) /\ Position(args, 4) = 5
    BY <1>1, <1>5, LinesAre DEF StoreWait, Position
  <2>2. WaitWord(waiting) = args[Position(args, 4)]
    BY <1>5, <2>1 DEF WaitWord
  <2> QED
    BY <1>2, <1>5, <2>1, <2>2, SecondsAgree DEF InMilliseconds, Reads
<1>6. CASE waiting.name = "blmpop"
  <2>1. wait = SecondsWaitAt(args, 0) /\ Position(args, 0) = 1
    BY <1>1, <1>6, LinesAre DEF StoreWait, Position
  <2>2. WaitWord(waiting) = args[Position(args, 0)]
    BY <1>6, <2>1 DEF WaitWord
  <2> QED
    BY <1>2, <1>6, <2>1, <2>2, SecondsAgree DEF InMilliseconds, Reads
<1>7. CASE waiting.name = "wait"
  <2>1. wait = MillisecondsWaitAt(args, 1) /\ Position(args, 1) = 2
    BY <1>1, <1>7, LinesAre DEF StoreWait, Position
  <2>2. WaitWord(waiting) = args[Position(args, 1)]
    BY <1>7, <2>1 DEF WaitWord
  <2> QED
    BY <1>3, <1>7, <2>1, <2>2, MillisecondsAgree DEF InMilliseconds, Reads
<1>8. CASE waiting.name = "xread"
  <2>1. wait = MillisecondsWaitAfter(args, "BLOCK") /\ BlockIsOption(args, 1)
    BY <1>8, LinesAre DEF StoreWait
  <2>2. WaitWord(waiting) = OptionValue(args, 1)
    BY <1>8 DEF WaitWord
  <2> QED
    BY <1>1, <1>3, <1>8, <2>1, <2>2, BlockAgrees DEF InMilliseconds, Reads
<1>9. CASE waiting.name = "xreadgroup"
  <2>1. wait = MillisecondsWaitAfter(args, "BLOCK") /\ BlockIsOption(args, 4)
    BY <1>9, LinesAre DEF StoreWait
  <2>2. WaitWord(waiting) = OptionValue(args, 4)
    BY <1>9 DEF WaitWord
  <2> QED
    BY <1>1, <1>3, <1>9, <2>1, <2>2, BlockAgrees DEF InMilliseconds, Reads
<1> QED
  BY <1>4, <1>5, <1>6, <1>7, <1>8, <1>9, LinesAre

\* What is accepted is a claim without --wait, or leaves the margin.
LEMMA AcceptedFits ==
    ASSUME waiting \in Lines, timeout \in Int, WaitAccepted
    PROVE  /\ ServerWait(waiting) \in Nat
           /\ \/ waiting.name = "claim" /\ waiting.wait = 0
              \/ timeout - ServerWait(waiting) >= Margin
<1>1. CASE waiting.name = "claim"
  <2>1. waiting.wait \in Nat /\ WaitFits(waiting.wait, timeout)
    BY <1>1, LinesAre DEF WaitAccepted, ClaimAccepts
  <2>2. ServerWait(waiting) \in 0..waiting.wait
    BY <1>1, <2>1, WholeBelow DEF ServerWait
  <2> QED
    BY <1>1, <2>1, <2>2, UnitsAre DEF WaitFits, Margin
<1>2. CASE waiting.name # "claim"
  <2> DEFINE wait == StoreWait(waiting.name, waiting.args)
  <2>1. Reads(wait, WaitWellFormed(waiting), ServerWait(waiting))
    BY <1>2, StoreReads
  <2>2. wait \notin {Invalid, 0} /\ (wait \in Nat => WaitFits(wait, timeout))
    BY <1>2 DEF WaitAccepted, StoreAccepts, NoWait, Invalid
  <2>3. wait \in Nat /\ ServerWait(waiting) = wait
    BY <2>1, <2>2 DEF Reads, Agree
  <2> QED
    BY <2>2, <2>3, UnitsAre DEF WaitFits, Margin
<1> QED
  BY <1>1, <1>2

\* What is refused is malformed, waits for ever or not at all, or leaves too
\* little.
LEMMA RefusedDoesNotFit ==
    ASSUME waiting \in Lines, timeout \in Int, ~WaitAccepted,
           WaitWellFormed(waiting)
    PROVE  \/ waiting.name # "claim" /\ ServerWait(waiting) \in {0, Forever}
           \/ timeout <= 0
           \/ timeout - ServerWait(waiting) < Margin + Millisecond
<1>1. CASE waiting.name = "claim"
  <2>1. waiting.wait \in Nat /\ ~WaitFits(waiting.wait, timeout)
    BY <1>1, LinesAre DEF WaitAccepted, ClaimAccepts, WaitWellFormed
  <2>2. timeout - waiting.wait < Margin
    BY <2>1, UnitsAre DEF WaitFits, Margin
  <2>3. ServerWait(waiting) = waiting.wait - (waiting.wait % Millisecond)
        /\ waiting.wait % Millisecond \in 0..(Millisecond - 1)
    <3>1. waiting.wait = BlockMS(waiting.wait) * Millisecond + (waiting.wait % Millisecond)
          /\ waiting.wait % Millisecond \in 0..(Millisecond - 1)
      BY <2>1, UnitsAre DEF BlockMS
    <3>2. BlockMS(waiting.wait) * Millisecond \in Int
      BY <2>1, WholeBelow
    <3> QED
      BY <1>1, <3>1, <3>2 DEF ServerWait
  <2> QED
    BY <2>1, <2>2, <2>3, UnitsAre DEF Margin
<1>2. CASE waiting.name # "claim"
  <2> DEFINE wait == StoreWait(waiting.name, waiting.args)
  <2>1. wait \in Nat /\ Agree(wait, ServerWait(waiting))
    BY <1>2, StoreReads DEF Reads
  <2>2. wait = 0 \/ ~WaitFits(wait, timeout)
    BY <1>2, <2>1 DEF WaitAccepted, StoreAccepts, Invalid
  <2>3. CASE wait = 0
    BY <1>2, <2>1, <2>3 DEF Agree
  <2>4. CASE wait # 0
    <3>1. ServerWait(waiting) = wait /\ ~WaitFits(wait, timeout)
      BY <2>1, <2>2, <2>4 DEF Agree
    <3> QED
      BY <2>1, <3>1, UnitsAre DEF WaitFits, Margin
  <2> QED
    BY <2>3, <2>4
<1> QED
  BY <1>1, <1>2

-----------------------------------------------------------------------------
(* The inductive invariant                                                  *)

\* Once a request is on its way it has been accepted, and all but the time
\* on the way is the server's.
OnTheWay ==
    outcome \in {"answered", "late"} \/ stage \in {"connect", "held", "answer"} =>
        WaitAccepted /\ timeout > 0 /\ clock - spent <= ServerWait(waiting)

LateAtTheEnd == outcome = "late" => clock = timeout

StartsAtZero == stage = "check" \/ outcome = "refused" => clock = 0 /\ spent = 0

NotAccepted == outcome = "refused" => ~WaitAccepted \/ timeout <= 0

IInv ==
    /\ TypeOK /\ OnTheWay /\ LateAtTheEnd /\ StartsAtZero /\ NotAccepted
    /\ (stage = "done") = (outcome # "none")

LEMMA WaitInitEstablishes == WaitInit => IInv
BY UnitsAre DEF WaitInit, IInv, TypeOK, OnTheWay, LateAtTheEnd, StartsAtZero, NotAccepted

LEMMA WaitNextKeeps ==
    IInv /\ [WaitNext]_waitVars => IInv'
<1> SUFFICES ASSUME IInv, [WaitNext]_waitVars PROVE IInv'
  OBVIOUS
<1>0. /\ timeout \in Int /\ waiting \in Lines /\ Overhead \in Nat
      /\ clock \in Nat /\ spent \in Nat
  BY UnitsAre DEF IInv, TypeOK
<1>1. UNCHANGED <<waiting, timeout, WaitAccepted, ServerWait(waiting)>>
  BY DEF WaitNext, waitVars, Check, Travel, Hold, Arrive,
         Reply, Receive, Expire, WaitAccepted, ServerWait
<1>2. WaitAccepted => ServerWait(waiting) \in Nat
  BY <1>0, AcceptedFits
<1> USE <1>0, <1>1, <1>2 DEF IInv, TypeOK, OnTheWay, LateAtTheEnd, StartsAtZero, NotAccepted
<1>3. CASE Check
  BY <1>3 DEF Check
<1>4. CASE Travel
  BY <1>4 DEF Travel
<1>5. CASE Hold
  BY <1>5 DEF Hold
<1>6. CASE Arrive \/ Reply
  BY <1>6 DEF Arrive, Reply
<1>7. CASE Receive
  BY <1>7 DEF Receive
<1>8. CASE Expire
  BY <1>8 DEF Expire
<1>9. CASE UNCHANGED waitVars
  BY <1>9 DEF waitVars
<1> QED
  BY <1>3, <1>4, <1>5, <1>6, <1>7, <1>8, <1>9 DEF WaitNext

LEMMA WaitInvHolds == WaitSpec => []IInv
BY WaitInitEstablishes, WaitNextKeeps, PTL DEF WaitSpec

(* Every variable always has its type, and a command that runs is never     *)
(* past its timeout (validateBlockingWait).                                 *)
THEOREM TypeCorrect == WaitSpec => []TypeOK
BY WaitInvHolds, PTL DEF IInv

(* For every line, unit and timeout, and every network that takes less than *)
(* the margin, what was accepted is answered before the timeout; only a     *)
(* claim without --wait can be late (validateBlockingWait).                 *)
THEOREM AlwaysAnsweredInTime == WaitSpec => []AnsweredInTime
<1>1. IInv => AnsweredInTime
  <2> SUFFICES ASSUME IInv, outcome = "late"
               PROVE  waiting.name = "claim" /\ waiting.wait = 0
    BY DEF AnsweredInTime
  <2>1. /\ timeout \in Int /\ waiting \in Lines /\ spent \in 0..Overhead /\ clock = timeout
        /\ WaitAccepted /\ clock - spent <= ServerWait(waiting)
    BY UnitsAre DEF IInv, TypeOK, OnTheWay, LateAtTheEnd
  <2> QED
    BY <2>1, AcceptedFits, UnitsAre DEF Margin
<1> QED
  BY <1>1, WaitInvHolds, PTL

(* For every line, unit and timeout, a wait is refused only if the server   *)
(* would find it malformed, if it is for ever or for nothing, or if it      *)
(* leaves less than the margin and a millisecond (validateBlockingWait,     *)
(* validateSDKBlockingWait).                                                *)
THEOREM NeverRefusedWithoutReason == WaitSpec => []RefusedForAReason
<1>1. IInv => RefusedForAReason
  <2> SUFFICES ASSUME IInv, outcome = "refused", timeout > 0, WaitWellFormed(waiting)
               PROVE  \/ waiting.name # "claim" /\ ServerWait(waiting) \in {0, Forever}
                      \/ timeout - ServerWait(waiting) < Margin + Millisecond
    BY UnitsAre DEF RefusedForAReason, IInv, TypeOK
  <2>1. timeout \in Int /\ waiting \in Lines
    BY UnitsAre DEF IInv, TypeOK
  <2>2. ~WaitAccepted
    BY <2>1 DEF IInv, NotAccepted
  <2> QED
    BY <2>1, <2>2, RefusedDoesNotFit
<1> QED
  BY <1>1, WaitInvHolds, PTL
=============================================================================
