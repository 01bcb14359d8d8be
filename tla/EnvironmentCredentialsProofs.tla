--------------------- MODULE EnvironmentCredentialsProofs ---------------------
(***************************************************************************)
(* Proofs about EnvironmentCredentials, for every environment, every file, *)
(* any limit and any number of files that take each other's place: only a  *)
(* complete environment is accepted, with a whole secret.  The inductive   *)
(* invariant adds to the two properties                                    *)
(*   Unanswered  there is no result before the end, and then there is one; *)
(*   Chosen      who looks for a file was asked for one, in an environment *)
(*               with all else that is demanded up front;                  *)
(*   Recorded    what is at the path, or was opened, is in the history,    *)
(*               and only a regular file is read.                          *)
(***************************************************************************)
EXTENDS EnvironmentCredentials, SequenceTheorems, TLAPS

Looking == {"stat", "open", "fstat", "read"}

\* Nothing of the one set of variables stands beside the other.
OneSet(e) == ~(AnySet(e, PasswordKeys) /\ AnySet(e, TokenKeys))

Unanswered ==
    /\ env \in Environments
    /\ pc \in {"resolve", "done"} \cup Looking
    /\ pc # "done" => result = NoResult
    /\ pc = "done" => result.status \in {"absent", "ok", "failed"}

Chosen ==
    pc \in Looking =>
        /\ Configured(env) /\ OneSet(env) /\ Metadata(env)
        /\ InlineKey(env) \notin DOMAIN env /\ Required(env, FileKey(env))

Recorded ==
    /\ file \in versions
    /\ \A f \in versions : f.contents \in Seq(STRING)
    /\ pc \in {"fstat", "read"} => opened \in versions
    /\ pc = "read" => opened.kind = "regular"

IInv == Unanswered /\ Chosen /\ Recorded /\ AcceptedIffComplete /\ SecretIsWhole

-----------------------------------------------------------------------------

\* The secret is in one place, and it is a secret if it is in a variable.
OneSecret(e) ==
    \/ InlineKey(e) \in DOMAIN e /\ FileKey(e) \notin DOMAIN e /\ ValidSecret(e[InlineKey(e)])
    \/ InlineKey(e) \notin DOMAIN e /\ Required(e, FileKey(e))

(* What Resolve and the resolvers demand, one thing after the other, is     *)
(* what the documentation calls complete.                                   *)
LEMMA CompleteIs ==
    ASSUME NEW e \in Environments
    PROVE  Complete(e) <=> /\ Configured(e) /\ OneSet(e)
                           /\ Metadata(e) /\ OneSecret(e) /\ LateMetadata(e)
<1>1. DOMAIN e \subseteq PasswordKeys \cup TokenKeys
  BY EnvironmentsAssumption
<1> USE DEF Configured, OneSet, AnySet, Metadata, LateMetadata, OneSecret, InlineKey, FileKey,
            Required, OptionalPath, PasswordKeys, TokenKeys, Complete, ExactlyOne
<1>2. CASE AnySet(e, PasswordKeys) /\ ~AnySet(e, TokenKeys)
  BY <1>1, <1>2
<1>3. CASE AnySet(e, TokenKeys) /\ ~AnySet(e, PasswordKeys)
  BY <1>1, <1>3
<1>4. CASE AnySet(e, PasswordKeys) /\ AnySet(e, TokenKeys)
  BY <1>1, <1>4
<1>5. CASE ~AnySet(e, PasswordKeys) /\ ~AnySet(e, TokenKeys)
  BY <1>1, <1>5
<1> QED
  BY <1>2, <1>3, <1>4, <1>5

(* An environment that asks for a file uses one.                            *)
LEMMA FileIsUsed ==
    ASSUME NEW e, Required(e, FileKey(e))
    PROVE  UsesFile(e)
BY DEF Required, FileKey, UsesFile

LEMMA InlineUsesNoFile ==
    ASSUME NEW e \in Environments, OneSet(e), Configured(e),
           InlineKey(e) \in DOMAIN e, FileKey(e) \notin DOMAIN e
    PROVE  ~UsesFile(e)
BY EnvironmentsAssumption
   DEF OneSet, AnySet, Configured, InlineKey, FileKey, UsesFile, PasswordKeys, TokenKeys

(* strings.TrimSuffix takes away the suffix, or nothing.                    *)
LEMMA TrimSuffixIs ==
    ASSUME NEW Chars, NEW text \in Seq(Chars), NEW c
    PROVE  /\ TrimSuffix(text, c) \in Seq(Chars)
           /\ \E end \in {<<>>, <<c>>} : text = TrimSuffix(text, c) \o end
<1>1. CASE text # <<>> /\ text[Len(text)] = c
  <2> DEFINE n == Len(text)
             front == SubSeq(text, 1, n - 1)
  <2>1. n \in Nat /\ n # 0 /\ TrimSuffix(text, c) = front
    BY <1>1 DEF TrimSuffix
  <2>2. \A i \in 1..(n - 1) : text[i] \in Chars
    BY <2>1
  <2>3. front \in Seq(Chars) /\ Len(front) = n - 1
    <3>1. n \in Nat /\ n # 0
      BY <2>1
    <3> HIDE DEF n
    <3>2. n - 1 \in Int /\ 1 \in Int /\ (IF 1 <= n - 1 THEN n - 1 - 1 + 1 ELSE 0) = n - 1
      BY <3>1
    <3> QED
      BY <2>2, <3>2, SubSeqProperties
  <2>4. \A i \in 1..(n - 1) : front[i] = text[i]
    BY <2>1
  <2> HIDE DEF front
  <2>5. text = front \o <<c>>
    BY <1>1, <2>1, <2>3, <2>4
  <2> QED
    BY <2>1, <2>3, <2>5
<1>2. CASE ~(text # <<>> /\ text[Len(text)] = c)
  <2>1. TrimSuffix(text, c) = text
    BY <1>2 DEF TrimSuffix
  <2>2. text = text \o <<>>
    BY ConcatEmptySeq
  <2> QED
    BY <2>1, <2>2
<1> QED
  BY <1>1, <1>2

LEMMA PairIs == \A x, y : <<x>> \o <<y>> = <<x, y>>
<1> TAKE x, y
<1> DEFINE pair == <<x>> \o <<y>>
<1>1. <<x>> \in Seq({x, y}) /\ <<y>> \in Seq({x, y}) /\ Len(<<x>>) = 1 /\ Len(<<y>>) = 1
  OBVIOUS
<1>2. pair \in Seq({x, y}) /\ Len(pair) = 2 /\ pair[1] = x /\ pair[2] = y
  BY <1>1, ConcatProperties
<1>3. <<x, y>> \in Seq({x, y}) /\ Len(<<x, y>>) = 2
  OBVIOUS
<1> HIDE DEF pair
<1>4. pair = <<x, y>>
  BY <1>2, <1>3
<1> QED
  BY <1>4 DEF pair

(* What is left of a text is all of it but for its line end.                *)
LEMMA LineEndIs ==
    ASSUME NEW text \in Seq(STRING)
    PROVE  \E end \in LineEnds : text = TrimSuffix(TrimSuffix(text, LF), CR) \o end
<1> DEFINE Chars  == STRING \cup {LF, CR}
           line   == TrimSuffix(text, LF)
           secret == TrimSuffix(line, CR)
<1>1. text \in Seq(Chars)
  OBVIOUS
<1> HIDE DEF Chars
<1>2. PICK a \in {<<>>, <<LF>>} : line \in Seq(Chars) /\ text = line \o a
  BY <1>1, TrimSuffixIs
<1>3. PICK b \in {<<>>, <<CR>>} : secret \in Seq(Chars) /\ line = secret \o b
  BY <1>2, TrimSuffixIs
<1>4. a \in Seq(Chars) /\ b \in Seq(Chars)
  <2>1. LF \in Chars /\ CR \in Chars
    BY DEF Chars
  <2>2. <<>> \in Seq(Chars) /\ <<LF>> \in Seq(Chars) /\ <<CR>> \in Seq(Chars)
    BY <2>1
  <2> QED
    BY <1>2, <1>3, <2>2
<1> HIDE DEF line, secret
<1>5. text = secret \o (b \o a)
  BY <1>2, <1>3, <1>4, ConcatAssociative
<1>6. b \o a \in LineEnds
  <2>1. /\ <<>> \o <<>> = <<>> /\ <<>> \o <<LF>> = <<LF>>
        /\ <<CR>> \o <<>> = <<CR>> /\ <<CR>> \o <<LF>> = <<CR, LF>>
    BY PairIs
  <2> QED
    BY <1>2, <1>3, <2>1 DEF LineEnds
<1> QED
  BY <1>5, <1>6 DEF line, secret

(* Whatever may be at the path, it holds a text.                            *)
LEMMA FilesHoldTexts ==
    \A f \in Files \cup {NoFile} : f.contents \in Seq(STRING)
<1>1. NoFile.contents \in Seq(STRING)
  BY DEF NoFile
<1> QED
  BY <1>1, FilesAssumption

-----------------------------------------------------------------------------

LEMMA InitEstablishes == Init => IInv
<1> SUFFICES ASSUME Init PROVE IInv
  OBVIOUS
<1>1. file \in Files \cup {NoFile}
  BY FilesAssumption DEF Init
<1>2. file.contents \in Seq(STRING)
  BY <1>1, FilesHoldTexts
<1> QED
  BY <1>2 DEF Init, IInv, Unanswered, Chosen, Recorded, AcceptedIffComplete, SecretIsWhole,
              Looking, NoResult

\* The end of a command that has been refused
LEMMA RefuseKeeps ==
    ASSUME IInv, Refuse, UNCHANGED <<env, world, opened, over>>,
           DOMAIN env # {}, Complete(env) => over \/ UsesFile(env)
    PROVE  IInv'
BY DEF IInv, Refuse, Finish, world, Unanswered, Chosen, Recorded, AcceptedIffComplete,
       SecretIsWhole, Looking

\* The end of a command that found a secret, whatever it is
LEMMA AcceptKeeps ==
    ASSUME IInv, NEW secret, Accept(secret), UNCHANGED <<env, world, opened, over>>,
           Configured(env), OneSet(env), Metadata(env),
           \/ /\ InlineKey(env) \in DOMAIN env /\ FileKey(env) \notin DOMAIN env
              /\ secret = env[InlineKey(env)]
           \/ /\ InlineKey(env) \notin DOMAIN env /\ Required(env, FileKey(env))
              /\ \E f \in versions, end \in LineEnds : f.contents = secret \o end
    PROVE  IInv'
<1>1. env \in Environments
  BY DEF IInv, Unanswered
<1>2. CASE ValidSecret(secret) /\ LateMetadata(env)
  <2>1. Finish("ok", secret)
    BY <1>2 DEF Accept
  <2>2. Complete(env)
    BY <1>1, <1>2, CompleteIs DEF OneSecret
  <2>3. UsesFile(env) =>
            \E f \in versions, end \in LineEnds : f.contents = secret \o end
    BY <1>1, InlineUsesNoFile
  <2> QED
    BY <1>2, <2>1, <2>2, <2>3
       DEF IInv, Finish, world, Unanswered, Chosen, Recorded, AcceptedIffComplete,
           SecretIsWhole, Looking
<1>3. CASE ~(ValidSecret(secret) /\ LateMetadata(env))
  <2>1. Refuse
    BY <1>3 DEF Accept
  <2>2. Complete(env) => UsesFile(env)
    BY <1>1, <1>3, CompleteIs, FileIsUsed DEF OneSecret
  <2> QED
    BY <2>1, <2>2, RefuseKeeps DEF Configured
<1> QED
  BY <1>2, <1>3

LEMMA ResolveKeeps ==
    ASSUME IInv, Resolve
    PROVE  IInv'
<1>1. env \in Environments /\ UNCHANGED <<env, world, opened, over>> /\ pc = "resolve"
  BY DEF IInv, Unanswered, Resolve
<1>2. CASE ~Configured(env)
  <2>1. Finish("absent", <<>>)
    BY <1>2 DEF Resolve
  <2> QED
    BY <1>1, <1>2, <2>1
       DEF IInv, Finish, world, Unanswered, Chosen, Recorded, AcceptedIffComplete,
           SecretIsWhole, Looking, Configured
<1>3. CASE Configured(env) /\ Refuse
           /\ \/ over
              \/ AnySet(env, PasswordKeys) /\ AnySet(env, TokenKeys)
              \/ ~Metadata(env)
              \/ InlineKey(env) \in DOMAIN env <=> FileKey(env) \in DOMAIN env
              \/ InlineKey(env) \notin DOMAIN env /\ ~Required(env, FileKey(env))
  <2>1. Complete(env) => over
    BY <1>1, <1>3, CompleteIs DEF OneSet, OneSecret, Required
  <2> QED
    BY <1>1, <1>3, <2>1, RefuseKeeps DEF Configured
<1>4. CASE /\ OneSet(env) /\ Configured(env) /\ Metadata(env)
           /\ InlineKey(env) \in DOMAIN env /\ FileKey(env) \notin DOMAIN env
           /\ Accept(env[InlineKey(env)])
  BY <1>1, <1>4, AcceptKeeps
<1>5. CASE /\ OneSet(env) /\ Configured(env) /\ Metadata(env)
           /\ InlineKey(env) \notin DOMAIN env /\ Required(env, FileKey(env))
           /\ pc' = "stat" /\ UNCHANGED result
  BY <1>1, <1>5
     DEF IInv, world, Unanswered, Chosen, Recorded, AcceptedIffComplete, SecretIsWhole,
         Looking, NoResult
<1> QED
  BY <1>2, <1>3, <1>4, <1>5 DEF Resolve, OneSet

\* Who looks for a file was asked for one, and may fail.
LEMMA LookingMayFail ==
    ASSUME IInv, pc \in Looking
    PROVE  DOMAIN env # {} /\ UsesFile(env)
BY FileIsUsed DEF IInv, Chosen, Configured

LEMMA ReadKeeps ==
    ASSUME IInv, Read
    PROVE  IInv'
<1>1. pc = "read" /\ UNCHANGED <<env, world, opened, over>>
  BY DEF Read, ReadUpTo
<1> DEFINE length == Len(opened.contents)
           limit == MaxSecret + 1
           contents == SubSeq(opened.contents, 1, IF length < limit THEN length ELSE limit)
<1>2. CASE Refuse
  BY <1>1, <1>2, LookingMayFail, RefuseKeeps DEF Looking
<1>3. CASE ~Refuse
  <2>1. ~(Len(contents) > MaxSecret) /\ Accept(TrimSuffix(TrimSuffix(contents, LF), CR))
    BY <1>3 DEF Read, ReadUpTo
  <2>2. opened \in versions /\ opened.contents \in Seq(STRING)
    BY <1>1 DEF IInv, Recorded
  <2>3. contents = opened.contents
    <3>1. length \in Nat /\ limit \in Nat /\ limit > MaxSecret
      BY <2>2, FilesAssumption
    <3>2. CASE length < limit
      <4>1. SubSeq(opened.contents, 1, length) = opened.contents
        BY <2>2
      <4> QED
        BY <3>2, <4>1
    <3>3. CASE ~(length < limit)
      <4>1. Len(SubSeq(opened.contents, 1, limit)) = limit
        BY <2>2, <3>1, <3>3
      <4> QED
        BY <2>1, <3>1, <3>3, <4>1, FilesAssumption
    <3> QED
      BY <3>2, <3>3
  <2> HIDE DEF contents
  <2> DEFINE secret == TrimSuffix(TrimSuffix(contents, LF), CR)
  <2>4. \E f \in versions, end \in LineEnds : f.contents = secret \o end
    BY <2>2, <2>3, LineEndIs
  <2>5. /\ Configured(env) /\ OneSet(env) /\ Metadata(env)
        /\ InlineKey(env) \notin DOMAIN env /\ Required(env, FileKey(env))
    BY <1>1 DEF IInv, Chosen, Looking
  <2> HIDE DEF secret
  <2>6. Accept(secret)
    BY <2>1 DEF secret
  <2> QED
    BY <1>1, <2>4, <2>5, <2>6, AcceptKeeps
<1> QED
  BY <1>2, <1>3

LEMMA NextKeeps == IInv /\ [Next]_vars => IInv'
<1> SUFFICES ASSUME IInv, [Next]_vars PROVE IInv'
  OBVIOUS
<1>1. CASE Stat
  <2>1. pc = "stat" /\ UNCHANGED <<env, world, opened, over>>
    BY <1>1 DEF Stat
  <2>2. CASE Refuse
    BY <2>1, <2>2, LookingMayFail, RefuseKeeps DEF Looking
  <2>3. CASE pc' = "open" /\ UNCHANGED result
    BY <2>1, <2>3
       DEF IInv, world, Unanswered, Chosen, Recorded, AcceptedIffComplete, SecretIsWhole,
           Looking, NoResult
  <2> QED
    BY <1>1, <2>2, <2>3 DEF Stat
<1>2. CASE Open \/ OpenPipe
  <2>1. pc = "open" /\ UNCHANGED <<env, world, over>>
    BY <1>2 DEF Open, OpenPipe
  <2>2. CASE Refuse /\ UNCHANGED opened
    BY <2>1, <2>2, LookingMayFail, RefuseKeeps DEF Looking
  <2>3. CASE opened' = file /\ pc' = "fstat" /\ UNCHANGED result
    BY <2>1, <2>3
       DEF IInv, world, Unanswered, Chosen, Recorded, AcceptedIffComplete, SecretIsWhole,
           Looking, NoResult
  <2> QED
    BY <1>2, <2>2, <2>3 DEF Open, OpenPipe
<1>3. CASE Fstat
  <2>1. pc = "fstat" /\ UNCHANGED <<env, world, opened, over>>
    BY <1>3 DEF Fstat
  <2>2. CASE Refuse
    BY <2>1, <2>2, LookingMayFail, RefuseKeeps DEF Looking
  <2>3. CASE opened.kind = "regular" /\ pc' = "read" /\ UNCHANGED result
    BY <2>1, <2>3
       DEF IInv, world, Unanswered, Chosen, Recorded, AcceptedIffComplete, SecretIsWhole,
           Looking, NoResult
  <2> QED
    BY <1>3, <2>2, <2>3 DEF Fstat
<1>4. CASE CallFails
  BY <1>4, LookingMayFail, RefuseKeeps DEF CallFails, Looking
<1>5. CASE ContextEnds
  <2>1. over' /\ UNCHANGED <<env, file, versions, opened, pc, result>>
    BY <1>5 DEF ContextEnds, world
  <2>2. Unanswered' /\ Chosen' /\ Recorded'
    BY <2>1 DEF IInv, Unanswered, Chosen, Recorded
  <2>3. AcceptedIffComplete'
    BY <2>1 DEF IInv, Unanswered, AcceptedIffComplete
  <2>4. SecretIsWhole'
    BY <2>1 DEF IInv, SecretIsWhole
  <2> QED
    BY <2>2, <2>3, <2>4 DEF IInv
<1>6. ASSUME NEW f \in Files \cup {NoFile}, Replace(f)
      PROVE  IInv'
  <2>1. f.contents \in Seq(STRING)
    BY FilesHoldTexts
  <2> QED
    BY <1>6, <2>1 DEF Replace, IInv, Unanswered, Chosen, Recorded, AcceptedIffComplete,
                      SecretIsWhole
<1>7. CASE UNCHANGED vars
  BY <1>7 DEF vars, IInv, Unanswered, Chosen, Recorded, AcceptedIffComplete, SecretIsWhole
<1> QED
  BY <1>1, <1>2, <1>3, <1>4, <1>5, <1>6, <1>7, ResolveKeeps, ReadKeeps DEF Next, Step

LEMMA InvHolds == Spec => []IInv
BY InitEstablishes, NextKeeps, PTL DEF Spec

(* For every combination of variables: only a complete environment is       *)
(* accepted, only one without any is passed over, and a complete one is     *)
(* refused only if the context ended or its file was refused (Resolve).     *)
THEOREM OnlyCompleteIsAccepted == Spec => []AcceptedIffComplete
BY InvHolds, PTL DEF IInv

(* For every file, limit and order of replacements: a secret from a file is *)
(* all of one version of it but for its line end, and nothing but a regular *)
(* file is read (readBoundedSecretFile).                                    *)
THEOREM SecretsAreWhole == Spec => []SecretIsWhole
BY InvHolds, PTL DEF IInv
=============================================================================
