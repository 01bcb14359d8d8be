---------------------------- MODULE MCTransaction -----------------------------
(* Transaction with two processes and two keys.                             *)
EXTENDS Transaction

File(commands) == [commands |-> commands, trailing |-> FALSE, large |-> FALSE]

Batch(file, watch) == [file |-> file, watch |-> watch, routes |-> {}, http |-> FALSE]

Good == {Batch(File(c), w) : c \in {<<"a", "b">>, <<"b">>}, w \in {{}, {"a"}, {"a", "b"}}}

Refused == {
    [Batch(File(<<"a">>), {}) EXCEPT !.http = TRUE],
    [Batch(File(<<"a">>), {"a"}) EXCEPT !.routes = {"a"}],
    Batch(File(<<>>), {}), Batch(File(<<"a", None>>), {}),
    Batch([File(<<"a">>) EXCEPT !.trailing = TRUE], {}),
    Batch([File(<<"a">>) EXCEPT !.large = TRUE], {})}

AllInputs == Good \cup Refused \cup {[Batch(File(<<"a", "b">>), {}) EXCEPT !.routes = {"a"}]}
=============================================================================
