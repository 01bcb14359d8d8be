------------------------------ MODULE MCCommands ------------------------------
(* What a command line brings about: CommandSafety and BlockingWait, one    *)
(* command in each behaviour.  It is a named command, a raw command of up   *)
(* to four words, a transaction of two commands, a command with options,    *)
(* with up to two of them beside those it cannot do without, for schedules  *)
(* also beside an interval, a delay or a cron expression, or a query from   *)
(* any place, with up to three parameters from the document and two         *)
(* assignments; or it is a command that waits, with four units to a second  *)
(* and two to a millisecond.                                                *)
EXTENDS CommandSafety, BlockingWait, TLC


Odd(word) == [word |-> word, exact |-> FALSE]

Words == {Exact("--yes"), Exact("FLUSHDB"), Odd("FLUSHDB"), Exact("CONFIG"),
          Odd("SET"), Exact("FERRICSTORE.DOCTOR"), Exact("START"), Odd("REPAIR"),
          Exact("value")}

UpTo(n) == UNION {[1..k -> Words] : k \in 0..n}

RawCalls ==
    {[kind |-> "raw", yes |-> y, args |-> a] : y \in BOOLEAN, a \in UpTo(4) \ {<<>>}}

NamedCalls(commands) ==
    {[kind |-> "named", yes |-> y, command |-> c, args |-> a] :
        y \in BOOLEAN, c \in commands, a \in UpTo(1)}

BatchCalls ==
    {[kind |-> "transaction", yes |-> y, commands |-> <<a, b>>] :
        y \in BOOLEAN, a \in UpTo(2) \ {<<>>}, b \in UpTo(1) \ {<<>>}}

\* Values of an option around what its kind accepts; a millisecond is two.
Samples(o, kind) ==
    CASE o = "state" /\ kind = "text" -> <<"any", "completed", "running", "">>
      [] o = "type" /\ kind = "any" -> <<"any", "email", "email", "email">>
      [] kind \in {"duration", "unless zero", "wait"} -> <<0, 1, 3, -1>>
      [] kind \in {"count", "natural", "priority"} -> <<0, 1, -1, 3>>
      [] kind = "percent"  -> <<0, 100, -1, 101>>
      [] kind = "rate"     -> <<0, 1, 100, 101>>
      [] kind \in {"time", "due"} ->
             <<<<"number", 7>>, <<"blank", 0>>, <<"number", 0>>, <<"date", -5>>>>
      [] kind \in {"active", "active or not"} ->
             <<<<"blank", 0>>, <<"duration", 1>>, <<"infinity", 0>>, <<"word", 0>>>>
      [] kind \in {"name", "text"} -> <<"a", "", " ", "b">>
      [] kind = "overlap" -> <<Exact("skip"), Odd("queue_after_previous"),
                               Exact("queue_after_previous"), Exact("never")>>
      [] kind = "catchup" -> <<Exact("fire_once"), Odd("fire_once"), Exact("all"), Odd("all")>>
      [] kind = "assignments" ->
             <<<<<<"a", "1">>>>, <<<<"a", "1">>, <<"a", "2">>>>, <<<<"", "1">>>>,
               <<<<"a", "1">>, <<"b", "1">>>>>>
      [] kind = "modes" ->
             <<<<<<"a", "FIFO">>>>, <<<<"a", "FIFO">>, <<"a", "PARALLEL">>>>, <<<<"a", "LIFO">>>>,
               <<<<"a", "FIFO">>, <<"b", "PARALLEL">>>>>>
      [] OTHER -> <<"on", "on", "on", "on">>

\* Every way to give the options in chosen, the options in fixed well given
LinesOf(options, chosen, fixed) ==
    {[o \in chosen \cup fixed |->
        IF o \in chosen THEN Samples(o, options[o])[pick[o]]
        ELSE IF options[o] \in {"name", "text", "any"} THEN "a" ELSE 3] : pick \in [chosen -> 1..4]}

FlowLines(name) ==
    LET options == FlowCommands[name].options
        needs == FlowCommands[name].needs
        beside == IF name = "scheduleCreate" THEN {{}, {"every"}, {"after"}, {"cron"}} ELSE {{}}
    IN  UNION {LinesOf(options, c, (needs \cup b) \ c) :
                  c \in {{o, p} : o, p \in DOMAIN options}, b \in beside}
        \cup UNION {LinesOf(options, {o}, needs \ {p}) :
                  o \in DOMAIN options, p \in needs}

OptionCalls ==
    UNION {{[kind |-> "options", yes |-> y, name |-> n, line |-> l] :
        y \in BOOLEAN, l \in FlowLines(n)} : n \in DOMAIN FlowCommands}

GoodText == [fits |-> TRUE, utf8 |-> TRUE, blank |-> FALSE, explain |-> FALSE]

Texts == {[GoodText EXCEPT ![f] = ~@] : f \in DOMAIN GoodText} \cup {GoodText}

Document(members) ==
    [fits |-> TRUE, utf8 |-> TRUE, object |-> TRUE, trailing |-> FALSE, members |-> members]

Flawed(d) == {[d EXCEPT ![f] = ~@] : f \in DOMAIN d \ {"members"}} \cup {d}

SomeValues ==
    {<<"string", "x">>, <<"string", "too long">>, <<"bool", "true">>, <<"fraction", 1>>,
     <<"nested", "">>}
        \cup {<<"integer", n>> : n \in {3, 7, 8, 9, 11, -8, -9, 21, -21}}

Texted(n) == <<n, <<"string", "x">>>>

Members ==
    {<<>>} \cup {<<<<n, v>>>> : n \in {"a", "no name"}, v \in SomeValues}
        \cup {<<<<m, <<"integer", 7>>>>, <<n, v>>>> : m, n \in {"a", "b"}, v \in SomeValues}
        \cup {<<Texted(l), Texted(m), Texted(n)>> : l, m, n \in {"a", "b", "c"}}

Assignments ==
    UNION {[1..k -> {"a", "b", "no name"} \X {<<"string", "y">>, <<"string", "too long">>}] :
        k \in 0..2}

Query(text, json, document, params) ==
    [command |-> "query", positional |-> TRUE, file |-> "",
     json |-> json, paramsFile |-> "", query |-> text, document |-> document,
     params |-> params]

QueryLines ==
    {Query(GoodText, TRUE, Document(m), p) : m \in Members, p \in Assignments}
        \cup [command : {"query", "explain", "explain analyze"}, positional : BOOLEAN,
              file : {"", "-", "path"}, json : BOOLEAN, paramsFile : {"", "-", "path"},
              query : Texts, document : Flawed(Document(<<Texted("a")>>)),
              params : {<<>>, <<Texted("b")>>}]

QueryCalls == {[kind |-> "query", yes |-> FALSE, line |-> l] : l \in QueryLines}

AllCalls == QueryCalls \cup RawCalls \cup NamedCalls(Named) \cup BatchCalls \cup OptionCalls

-----------------------------------------------------------------------------
(* Commands that wait                                                       *)

WaitWords == [w \in {"0", "tiny", "half", "1", "2", "3", "6", "-1", "huge"} |->
    CASE w = "0"    -> <<0, 1>>  [] w = "tiny" -> <<1, 8>>
      [] w = "half" -> <<1, 2>>  [] w = "1"    -> <<1, 1>>
      [] w = "2"    -> <<2, 1>>  [] w = "3"    -> <<3, 1>>
      [] w = "6"    -> <<6, 1>>  [] w = "-1"   -> <<-1, 1>>
      [] w = "huge" -> <<1000, 1>>]

\* What follows the name, with a number in the place of the timeout
Forms(w) == {
    <<"blpop", <<"jobs", w>>>>, <<"brpop", <<"a", "b", w>>>>,
    <<"blmove", <<"a", "b", "LEFT", "RIGHT", w>>>>,
    <<"blmpop", <<w, "1", "a", "LEFT">>>>,
    <<"xread", <<"BLOCK", w, "STREAMS", "a", "0">>>>,
    <<"xread", <<"COUNT", "3", "BLOCK", w, "STREAMS", "a", "0">>>>,
    <<"xreadgroup", <<"GROUP", "g", "c", "BLOCK", w, "STREAMS", "a", "0">>>>,
    <<"xreadgroup", <<"GROUP", "g", "c", "COUNT", "1", "BLOCK", w, "STREAMS", "a", "0">>>>,
    <<"wait", <<"1", w>>>>}

WaitLine(f) == [name |-> f[1], args |-> f[2], wait |-> 0]

Claims == {[name |-> "claim", args |-> <<>>, wait |-> w] : w \in -1..9}

Usual == Claims \cup
    UNION {{WaitLine(f) : f \in Forms(w)} : w \in DOMAIN WaitWords \cup {"x"}}

AllTimeouts == -1..20

-----------------------------------------------------------------------------

\* No command of CommandSafety, and no command that waits
NoCall == [kind |-> "none"]
NoWaiting == [name |-> "none", args |-> <<>>, wait |-> 0]

EitherInit ==
    \/ /\ Init
       /\ waiting = NoWaiting /\ timeout = 0 /\ stage = "done" /\ outcome = "none"
       /\ clock = 0 /\ spent = 0
    \/ /\ WaitInit
       /\ call = NoCall /\ pc = "done" /\ wire = <<>> /\ request = <<>>

EitherNext ==
    \/ Next /\ UNCHANGED waitVars
    \/ WaitNext /\ UNCHANGED vars

EitherSpec == EitherInit /\ [][EitherNext]_<<vars, waitVars>>
=============================================================================
