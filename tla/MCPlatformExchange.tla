-------------------------- MODULE MCPlatformExchange --------------------------
(* PlatformExchange: every call and every answer, a clock of three.         *)
EXTENDS PlatformExchange

Endings == {"none", "relative", "absolute"}

Password(op, stdins, cas) ==
    [op : {op}, method : {"password"}, stdin : stdins, named : BOOLEAN, url : Schemes,
     control : {"https"}, ca : cas, right : BOOLEAN]

Enterprise(op, stdins, cas) ==
    [op : {op}, method : {"enterprise"}, stdin : stdins, named : BOOLEAN, url : {"ferric"},
     control : {"https", "loopback", "http"}, ca : cas, right : {TRUE}]

Stdins == SUBSET {"password", "token"}

\* A login makes the path of its CA file absolute.
AllCalls ==
    Password("login", Stdins, {"none", "absolute"}) \cup Password("open", {{}}, Endings)
        \cup Enterprise("login", Stdins, {"none"}) \cup Enterprise("open", {{}}, Endings)

AllIssues == [endpoint : Schemes, expires : 0..2, complete : BOOLEAN]

AllFiles ==
    [kind : {"regular", "pipe"}, size : {"fits", "long"}, pem : BOOLEAN]
        \cup {[kind |-> "directory", size |-> "fits", pem |-> FALSE]}
=============================================================================
