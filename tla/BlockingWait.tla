----------------------------- MODULE BlockingWait -----------------------------
(***************************************************************************)
(* Commands that ask the server to wait (internal/cli): how the wait is    *)
(* read from the command line, how it is held against --timeout, and what  *)
(* comes of it when the command runs.                                      *)
(*                                                                         *)
(* Times are counted in units of which a millisecond and a second have     *)
(* Millisecond and Second; a duration is at most MaxDuration.  A number on *)
(* the command line is a word with a value <<numerator, denominator>>, the *)
(* denominator 1 if it is written as an integer.  The names of the module  *)
(* are its own, so that proofs can extend it beside CommandSafety.         *)
(***************************************************************************)
EXTENDS Durations, Integers, Sequences

CONSTANTS Second,
          MaxDuration,      \* math.MaxInt64, as a duration
          Numerals,         \* the value of the words that are numbers
          Lines,            \* command lines: name, arguments, --wait
          Timeouts,         \* values of --timeout
          Overhead          \* longest time spent on connecting and sending

\* The network takes less than the margin that the code grants it.
UnitsAreSound ==
    /\ Second \in Nat \ {0}
    /\ MaxDuration \in Nat
    /\ Overhead \in Nat /\ Overhead < Second
    /\ Timeouts \subseteq Int

\* A numeral is a fraction.
NumeralsAreSound ==
    \A w \in DOMAIN Numerals : Numerals[w] \in Int \X (Nat \ {0})

\* The option BLOCK stands in the place of an option, in front of STREAMS,
\* and no key, group or consumer has its name.
BlockIsOption(args, from) ==
    \E i \in DOMAIN args :
        /\ i >= from /\ (i - from) % 2 = 0 /\ i < Len(args)
        /\ \A j \in DOMAIN args : args[j] = "BLOCK" <=> j = i
        /\ \A j \in 1..i : args[j] # "STREAMS"

\* A line has the arguments of its command, and the option of its wait.
LinesAreSound ==
    \A l \in Lines :
        /\ l.args \in Seq(STRING) /\ l.wait \in Int
        /\ \/ l.name \in {"blpop", "brpop", "blmpop"} /\ Len(l.args) > 0
           \/ l.name = "blmove" /\ Len(l.args) = 5
           \/ l.name = "wait" /\ Len(l.args) = 2
           \/ l.name = "xread" /\ BlockIsOption(l.args, 1)
           \/ l.name = "xreadgroup" /\ BlockIsOption(l.args, 4)
           \/ l.name = "claim"

ASSUME WaitsAssumption == UnitsAreSound /\ NumeralsAreSound /\ LinesAreSound

VARIABLES waiting, timeout,
          stage,            \* "check", "connect", "held", "answer", "done"
          outcome,          \* "none", "refused", "answered", "late"
          clock,            \* since the timeout began to run
          spent             \* of it, on connecting, sending and receiving

waitVars == <<waiting, timeout, stage, outcome, clock, spent>>

-----------------------------------------------------------------------------
(* Reading the wait.  A parser gives a duration, or one of these.           *)

NoWait  == -1
Invalid == -2

\* The argument with an index, from the end if it is negative, or 0
Position(args, index) ==
    LET p == IF index < 0 THEN Len(args) + index + 1 ELSE index + 1
    IN  IF p \in DOMAIN args THEN p ELSE 0

\* Mutation: parts of a second are refused.
WholeSecondsWaitAt(args, index) ==
    LET p == Position(args, index)
        v == Numerals[args[p]]
    IN  IF p = 0 THEN NoWait
        ELSE IF args[p] \notin DOMAIN Numerals \/ v[2] # 1 \/ v[1] < 0
             THEN Invalid ELSE v[1] * Second

SecondsWaitAt(args, index) ==
    LET p == Position(args, index)
        v == Numerals[args[p]]
    IN  IF p = 0 THEN NoWait
        ELSE IF \/ args[p] \notin DOMAIN Numerals
                \/ v[1] < 0
                \/ v[1] * Second >= MaxDuration * v[2]
             THEN Invalid
             ELSE (v[1] * Second) \div v[2]

MillisecondsWaitAt(args, index) ==
    LET p == Position(args, index)
        v == Numerals[args[p]]
    IN  IF p = 0 THEN NoWait
        ELSE IF \/ args[p] \notin DOMAIN Numerals
                \/ v[2] # 1 \/ v[1] < 0
                \/ v[1] > MaxDuration \div Millisecond
             THEN Invalid
             ELSE v[1] * Millisecond

\* The first argument that is the token, whatever it is there for
MillisecondsWaitAfter(args, token) ==
    LET found == {i \in DOMAIN args : args[i] = token}
        first == CHOOSE i \in found : \A j \in found : i <= j
    IN  IF found = {} THEN NoWait
        ELSE IF first = Len(args) THEN Invalid
        ELSE MillisecondsWaitAt(args, first)

\* The wait that storeSpec finds in the arguments of a store helper
StoreWait(name, args) ==
    CASE name \in {"blpop", "brpop"}     -> SecondsWaitAt(args, -1)
      [] name = "blmove"                 -> SecondsWaitAt(args, 4)
      [] name = "blmpop"                 -> SecondsWaitAt(args, 0)
      [] name \in {"xread", "xreadgroup"} -> MillisecondsWaitAfter(args, "BLOCK")
      [] name = "wait"                   -> MillisecondsWaitAt(args, 1)
      [] OTHER                           -> NoWait

-----------------------------------------------------------------------------
(* Holding it against --timeout                                             *)

\* blockingResponseMargin
Margin == Second

\* Mutation: the margin is left to chance.
WaitFitsBarely(wait, limit) == wait <= 0 \/ limit > wait

\* validateBlockingWait
WaitFits(wait, limit) == wait <= 0 \/ (limit > wait /\ limit - wait >= Margin)

\* validateSDKBlockingWait
StoreAccepts(name, args, limit) ==
    LET wait == StoreWait(name, args)
    IN  \/ wait = NoWait
        \/ wait # Invalid /\ wait # 0 /\ WaitFits(wait, limit)

\* queue claim, workflow claim and schedule fire-due, with --wait
ClaimAccepts(wait, limit) == wait >= 0 /\ WaitFits(wait, limit)

\* ... and the whole milliseconds they ask the server to wait for
BlockMS(wait) == wait \div Millisecond

-----------------------------------------------------------------------------
(* What the server does: the wait in the grammar of each command            *)

Forever == MaxDuration

Seconds(word) ==
    LET v == Numerals[word]
    IN  IF v[1] = 0 THEN Forever ELSE (v[1] * Second) \div v[2]

Milliseconds(word) ==
    LET v == Numerals[word]
    IN  IF v[1] = 0 THEN Forever ELSE v[1] * Millisecond

\* Options come in pairs from a position on, until STREAMS.
BlockOptions(args, from) ==
    LET ends == {i \in DOMAIN args : i >= from /\ (i - from) % 2 = 0 /\ args[i] = "STREAMS"}
    IN  {i \in DOMAIN args : /\ i >= from /\ (i - from) % 2 = 0 /\ args[i] = "BLOCK"
                             /\ \A e \in ends : i < e}

OptionValue(args, from) == args[(CHOOSE i \in BlockOptions(args, from) : TRUE) + 1]

\* The word that the server takes for the wait
WaitWord(l) ==
    CASE l.name \in {"blpop", "brpop"} -> l.args[Len(l.args)]
      [] l.name = "blmove"             -> l.args[5]
      [] l.name = "blmpop"             -> l.args[1]
      [] l.name = "xread"              -> OptionValue(l.args, 1)
      [] l.name = "xreadgroup"         -> OptionValue(l.args, 4)
      [] l.name = "wait"               -> l.args[2]

InMilliseconds == {"xread", "xreadgroup", "wait"}

ServerWait(l) ==
    IF l.name = "claim" THEN BlockMS(l.wait) * Millisecond
    ELSE IF l.name \in InMilliseconds THEN Milliseconds(WaitWord(l))
         ELSE Seconds(WaitWord(l))

-----------------------------------------------------------------------------

WaitInit ==
    /\ waiting \in Lines
    /\ timeout \in Timeouts
    /\ stage = "check"
    /\ outcome = "none"
    /\ clock = 0 /\ spent = 0

WaitAccepted ==
    IF waiting.name = "claim"
    THEN ClaimAccepts(waiting.wait, timeout)
    ELSE StoreAccepts(waiting.name, waiting.args, timeout)

\* The checks before runNetworkCommand, where the timeout begins to run
Check ==
    /\ stage = "check"
    /\ IF WaitAccepted /\ timeout > 0
       THEN stage' = "connect" /\ UNCHANGED outcome
       ELSE stage' = "done" /\ outcome' = "refused"
    /\ UNCHANGED <<waiting, timeout, clock, spent>>

\* Time passes while the command connects, sends, or reads the answer ...
Travel ==
    /\ stage \in {"connect", "answer"}
    /\ spent < Overhead /\ clock < timeout
    /\ clock' = clock + 1 /\ spent' = spent + 1
    /\ UNCHANGED <<waiting, timeout, stage, outcome>>

\* ... and while the server holds the request, at most for the wait.
Hold ==
    /\ stage = "held"
    /\ clock - spent < ServerWait(waiting) /\ clock < timeout
    /\ clock' = clock + 1
    /\ UNCHANGED <<waiting, timeout, stage, outcome, spent>>

Arrive ==
    /\ stage = "connect"
    /\ clock < timeout
    /\ stage' = "held"
    /\ UNCHANGED <<waiting, timeout, outcome, clock, spent>>

\* There is something to return, or the wait is over.
Reply ==
    /\ stage = "held"
    /\ stage' = "answer"
    /\ UNCHANGED <<waiting, timeout, outcome, clock, spent>>

Receive ==
    /\ stage = "answer"
    /\ clock < timeout
    /\ stage' = "done" /\ outcome' = "answered"
    /\ UNCHANGED <<waiting, timeout, clock, spent>>

\* The context ends: what the server claimed for this command is lost.
Expire ==
    /\ stage \in {"connect", "held", "answer"}
    /\ clock = timeout
    /\ stage' = "done" /\ outcome' = "late"
    /\ UNCHANGED <<waiting, timeout, clock, spent>>

WaitNext == Check \/ Travel \/ Hold \/ Arrive \/ Reply \/ Receive \/ Expire

WaitSpec == WaitInit /\ [][WaitNext]_waitVars

-----------------------------------------------------------------------------

(* Every variable has its type; the clock accounts for the time on the way  *)
(* and the time the server held the request.                                *)
TypeOK ==
    /\ waiting \in Lines /\ timeout \in Timeouts
    /\ stage \in {"check", "connect", "held", "answer", "done"}
    /\ outcome \in {"none", "refused", "answered", "late"}
    /\ clock \in Nat /\ spent \in 0..Overhead /\ spent <= clock
    /\ stage # "check" /\ outcome # "refused" => clock <= timeout

(* A request that was accepted is answered before the timeout passes, for   *)
(* as long as the network takes less than the margin: what a claim was      *)
(* given is not lost to the command's own timeout.  Only a claim that has   *)
(* no --wait leaves no margin (validateBlockingWait).                       *)
AnsweredInTime == outcome = "late" => waiting.name = "claim" /\ waiting.wait = 0

\* The wait is a duration that is not negative, where the server looks for it.
WaitWellFormed(l) ==
    IF l.name = "claim" THEN l.wait >= 0
    ELSE LET w == WaitWord(l)
             v == Numerals[w]
         IN  /\ w \in DOMAIN Numerals /\ v[1] >= 0
             /\ IF l.name \in InMilliseconds
                THEN v[2] = 1 /\ v[1] * Millisecond <= MaxDuration
                ELSE v[1] * Second < MaxDuration * v[2]

(* A wait is refused only if it is malformed, indefinite, too short to be   *)
(* one, or leaves less than the margin, give or take a millisecond          *)
(* (validateBlockingWait, validateSDKBlockingWait).                         *)
RefusedForAReason ==
    outcome = "refused" =>
        \/ timeout <= 0
        \/ ~WaitWellFormed(waiting)
        \/ waiting.name # "claim" /\ ServerWait(waiting) \in {0, Forever}
        \/ timeout - ServerWait(waiting) < Margin + Millisecond
=============================================================================
