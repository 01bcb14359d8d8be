--------------------------- MODULE PlatformExchange ---------------------------
(***************************************************************************)
(* From a secret to a client (internal/auth, internal/connection,          *)
(* internal/ferric, internal/platformapi): a login that validates what was *)
(* typed, or a command that opens a saved or ephemeral connection.         *)
(*                                                                         *)
(* A password goes to the endpoint of its profile.  A Platform token goes  *)
(* to the control plane, which gives a temporary credential for a          *)
(* data-plane endpoint.  Endpoints are abstracted to their scheme, or      *)
(* "bad" when they are empty, malformed or hold credentials.  The file of  *)
(* CA certificates may be replaced at any moment; the context may end at   *)
(* any moment; the control plane and the data plane may answer anything,   *)
(* or nothing.                                                             *)
(***************************************************************************)
EXTENDS Naturals, FiniteSets

CONSTANTS Calls,          \* what is asked for
          Issues,         \* the credentials that the Platform gives
          Files,          \* what may be at the path of the CA certificates
          MaxTime,        \* bound: the clock
          None

NoFile == [kind |-> "none", size |-> "fits", pem |-> FALSE]

Schemes == {"ferric", "ferrics", "https", "http", "bad"}

Secrets == {"password", "token", "temporary"}

ASSUME CallsAssumption ==
    \A c \in Calls :
        /\ c.op \in {"login", "open"} /\ c.method \in {"password", "enterprise"}
        /\ c.stdin \subseteq {"password", "token"} /\ c.url \in Schemes

ASSUME IssuesAssumption == \A c \in Issues : c.endpoint \in Schemes

ASSUME NoneAssumption ==
    None \notin Secrets \cup Schemes \cup (Schemes \X Secrets) \cup Issues \cup Files \cup {NoFile}

ASSUME BoundAssumption == MaxTime \in Nat

VARIABLES call,
          pc,
          secret,         \* what is presented: "password", "token", "temporary"
          endpoint,       \* where the client is to connect to
          issued,         \* the credential that the Platform gave
          answer,         \* "none", "issued", "stale", "redirect", "refused"
          file, opened, trust,
          client,         \* "none", "open", "closed"
          proven,         \* the secret with which PING was answered, and where
          outcome,        \* "none", "failed", "saved", "opened"
          sent,           \* history: which secret was presented to whom
          versions,       \* history: what was at the path
          now, over

exchange == <<secret, endpoint, issued, answer>>
trusting == <<file, opened, trust, versions>>
time     == <<now, over>>
vars     == <<call, pc, exchange, trusting, client, proven, outcome, sent, time>>

Init ==
    /\ call \in Calls
    /\ pc = "start"
    /\ secret = None /\ endpoint = None /\ issued = None /\ answer = "none"
    /\ file \in Files \cup {NoFile} /\ opened = NoFile /\ trust = None
    /\ client = "none" /\ proven = None /\ outcome = "none"
    /\ sent = {}
    /\ versions = {file}
    /\ now = 0 /\ over = FALSE

Finish(how) == pc' = "done" /\ outcome' = how

Fail == Finish("failed")

-----------------------------------------------------------------------------
(* What is presented, and to whom                                           *)

\* endpoint.Validate
Valid(scheme) == scheme # "bad"

\* Mutation: --password-stdin is taken for any method.
LoginSecretAnyway(c) ==
    IF c.method = "password" THEN "token" \notin c.stdin ELSE c.stdin # {}

\* loginSecret: a secret is read for the method that it is said to be for.
LoginSecret(c) ==
    IF c.method = "password" THEN "token" \notin c.stdin ELSE c.stdin = {"token"}

\* What the user says the secret is
Declared(c) ==
    IF c.op = "login"
    THEN IF "token" \in c.stdin \/ (c.stdin = {} /\ c.method # "password")
         THEN "token" ELSE "password"
    ELSE IF c.method = "password" THEN "password" ELSE "token"

\* PasswordProvider of internal/auth; the endpoint is the profile's.
PasswordLogin ==
    /\ pc = "start" /\ call.op = "login" /\ call.method = "password"
    /\ IF LoginSecret(call) /\ Valid(call.url)
       THEN /\ secret' = Declared(call) /\ endpoint' = call.url /\ pc' = "client"
            /\ UNCHANGED outcome
       ELSE Fail /\ UNCHANGED <<secret, endpoint>>
    /\ UNCHANGED <<call, issued, answer, trusting, client, proven, sent, time>>

\* PasswordProvider of internal/connection
PasswordOpen ==
    /\ pc = "start" /\ call.op = "open" /\ call.method = "password"
    /\ IF ~over /\ call.named /\ Valid(call.url)
       THEN /\ secret' = Declared(call) /\ endpoint' = call.url /\ pc' = "client"
            /\ UNCHANGED outcome
       ELSE Fail /\ UNCHANGED <<secret, endpoint>>
    /\ UNCHANGED <<call, issued, answer, trusting, client, proven, sent, time>>

\* validateControlURL
ValidControl(url) == url \in {"https", "loopback"}

\* Exchange, up to the request: the token is sent with it.
Exchange ==
    IF ValidControl(call.control) /\ call.named /\ ~over
    THEN /\ secret' = Declared(call) /\ pc' = "exchange"
         /\ sent' = sent \cup {<<"control", Declared(call)>>}
         /\ UNCHANGED outcome
    ELSE Fail /\ UNCHANGED <<secret, sent>>

\* EnterpriseTokenProvider of internal/auth
EnterpriseLogin ==
    /\ pc = "start" /\ call.op = "login" /\ call.method = "enterprise"
    /\ IF LoginSecret(call) THEN Exchange ELSE Fail /\ UNCHANGED <<secret, sent>>
    /\ UNCHANGED <<call, endpoint, issued, answer, trusting, client, proven, time>>

\* EnterpriseTokenProvider of internal/connection
EnterpriseOpen ==
    /\ pc = "start" /\ call.op = "open" /\ call.method = "enterprise"
    /\ Exchange
    /\ UNCHANGED <<call, endpoint, issued, answer, trusting, client, proven, time>>

\* Mutation: the expiry is not compared with the clock.
AcceptableEver(c) == Valid(c.endpoint) /\ c.complete

\* What Exchange asks of a response
Acceptable(c) == Valid(c.endpoint) /\ c.complete /\ c.expires > now

\* From here on the token is not used any more.
Answered ==
    /\ pc = "exchange"
    /\ \E c \in Issues :
          /\ answer' = IF c.expires > now THEN "issued" ELSE "stale"
          /\ IF Acceptable(c)
             THEN /\ issued' = c /\ endpoint' = c.endpoint /\ secret' = "temporary"
                  /\ pc' = "client" /\ UNCHANGED outcome
             ELSE Fail /\ UNCHANGED <<issued, endpoint, secret>>
    /\ UNCHANGED <<call, trusting, client, proven, sent, time>>

\* Mutation: a redirect is followed.
RedirectedAway ==
    /\ pc = "exchange"
    /\ answer' = "redirect"
    /\ sent' = sent \cup {<<"elsewhere", secret>>}
    /\ Fail
    /\ UNCHANGED <<call, secret, endpoint, issued, trusting, client, proven, time>>

\* CheckRedirect of Exchange
Redirected ==
    /\ pc = "exchange"
    /\ answer' = "redirect"
    /\ Fail
    /\ UNCHANGED <<call, secret, endpoint, issued, trusting, client, proven, sent, time>>

\* Any other status than 201, too long a response, no JSON, no answer in time.
Refused ==
    /\ pc = "exchange"
    /\ answer' = "refused"
    /\ Fail
    /\ UNCHANGED <<call, secret, endpoint, issued, trusting, client, proven, sent, time>>

-----------------------------------------------------------------------------
(* The client                                                               *)

\* A login with a token has no CA file; one with a password made its absolute.
CAFile == IF call.op = "login" /\ call.method = "enterprise" THEN "none" ELSE call.ca

\* Mutation: https is not insisted on.
NewClientAnywhere ==
    /\ pc = "client"
    /\ \/ Fail /\ UNCHANGED client
       \/ /\ ~over /\ endpoint \in {"ferric", "http"} /\ CAFile = "none"
          /\ client' = "open" /\ pc' = "ping" /\ UNCHANGED outcome
       \/ /\ ~over /\ endpoint \in {"ferrics", "https"} /\ CAFile # "relative"
          /\ pc' = IF CAFile = "none" THEN "build" ELSE "stat"
          /\ UNCHANGED <<client, outcome>>
    /\ UNCHANGED <<call, exchange, trusting, proven, sent, time>>

\* NewPasswordClient.  Fail: also when the SDK refuses.
NewClient ==
    /\ pc = "client"
    /\ \/ Fail /\ UNCHANGED client
       \/ /\ ~over /\ endpoint = "ferric" /\ CAFile = "none"
          /\ client' = "open" /\ pc' = "ping" /\ UNCHANGED outcome
       \/ /\ ~over /\ endpoint \in {"ferrics", "https"} /\ CAFile # "relative"
          /\ pc' = IF CAFile = "none" THEN "build" ELSE "stat"
          /\ UNCHANGED <<client, outcome>>
    /\ UNCHANGED <<call, exchange, trusting, proven, sent, time>>

\* Mutation: that there is something is enough.
StatAnything ==
    /\ pc = "stat"
    /\ \/ Fail
       \/ file # NoFile /\ pc' = "open" /\ UNCHANGED outcome
    /\ UNCHANGED <<call, exchange, trusting, client, proven, sent, time>>

\* readCACertificateFile: os.Stat ...
Stat ==
    /\ pc = "stat"
    /\ \/ Fail
       \/ file.kind = "regular" /\ pc' = "open" /\ UNCHANGED outcome
    /\ UNCHANGED <<call, exchange, trusting, client, proven, sent, time>>

\* ... os.Open, which waits for a writer if it is a pipe by now ...
Open ==
    /\ pc = "open" /\ file.kind # "pipe"
    /\ \/ Fail /\ UNCHANGED opened
       \/ file # NoFile /\ opened' = file /\ pc' = "read" /\ UNCHANGED outcome
    /\ UNCHANGED <<call, exchange, file, trust, versions, client, proven, sent, time>>

OpenPipe ==
    /\ pc = "open" /\ file.kind = "pipe"
    /\ opened' = file /\ pc' = "read"
    /\ UNCHANGED <<call, exchange, file, trust, versions, client, proven, outcome, sent, time>>

\* Mutation: the first part of a file that is too long is enough.
ReadPart ==
    /\ pc = "read"
    /\ \/ Fail /\ UNCHANGED trust
       \/ /\ opened.pem /\ opened.kind # "directory"
          /\ trust' = opened /\ pc' = "build" /\ UNCHANGED outcome
    /\ UNCHANGED <<call, exchange, file, opened, versions, client, proven, sent, time>>

\* ... and all of it, which is not examined again; passwordTLSConfig.
Read ==
    /\ pc = "read"
    /\ \/ Fail /\ UNCHANGED trust
       \/ /\ opened.size = "fits" /\ opened.pem /\ opened.kind # "directory"
          /\ trust' = opened /\ pc' = "build" /\ UNCHANGED outcome
    /\ UNCHANGED <<call, exchange, file, opened, versions, client, proven, sent, time>>

\* NewClientFromURL, for https in newHTTPPasswordClient
Build ==
    /\ pc = "build"
    /\ \/ Fail /\ UNCHANGED client
       \/ client' = "open" /\ pc' = "ping" /\ UNCHANGED outcome
    /\ UNCHANGED <<call, exchange, trusting, proven, sent, time>>

\* The provider is done: the client belongs to its caller.
HandOver ==
    /\ pc = "ping" /\ call.op = "open"
    /\ Finish("opened")
    /\ UNCHANGED <<call, exchange, trusting, client, proven, sent, time>>

\* ValidatePassword and ValidateEnterpriseToken: PING authenticates.
Ping ==
    /\ pc = "ping" /\ call.op = "login"
    /\ sent' = sent \cup {<<endpoint, secret>>}
    /\ pc' = "pong"
    /\ UNCHANGED <<call, exchange, trusting, client, proven, outcome, time>>

\* What the server accepts: a right password, a credential that has not expired.
Pong ==
    /\ pc = "pong"
    /\ IF secret = "temporary" THEN now < issued.expires ELSE call.right
    /\ proven' = <<endpoint, secret>>
    /\ pc' = "close"
    /\ UNCHANGED <<call, exchange, trusting, client, outcome, sent, time>>

\* An error, a redirect, which is not followed, or no answer in time
NoPong ==
    /\ pc = "pong"
    /\ pc' = "close"
    /\ UNCHANGED <<call, exchange, trusting, client, proven, outcome, sent, time>>

\* Mutation: the client is only closed when it answered.
CloseAfterPong ==
    /\ pc = "close"
    /\ IF proven # None
       THEN client' = "closed" /\ (Fail \/ Finish("saved"))
       ELSE Fail /\ UNCHANGED client
    /\ UNCHANGED <<call, exchange, trusting, proven, sent, time>>

\* Mutation: only an error of Close is looked at.
CloseAndSave ==
    /\ pc = "close"
    /\ client' = "closed"
    /\ Fail \/ Finish("saved")
    /\ UNCHANGED <<call, exchange, trusting, proven, sent, time>>

\* passwordClient.Close, and what both validators make of the two errors
Close ==
    /\ pc = "close"
    /\ client' = "closed"
    /\ \/ Fail
       \/ proven # None /\ Finish("saved")
    /\ UNCHANGED <<call, exchange, trusting, proven, sent, time>>

-----------------------------------------------------------------------------
(* The world                                                                *)

Tick ==
    /\ now < MaxTime /\ pc # "done"
    /\ now' = now + 1
    /\ UNCHANGED <<call, pc, exchange, trusting, client, proven, outcome, sent, over>>

ContextEnds ==
    /\ ~over /\ pc # "done"
    /\ over' = TRUE
    /\ UNCHANGED <<call, pc, exchange, trusting, client, proven, outcome, sent, now>>

\* A file takes the place of the file, once.
Replace(f) ==
    /\ pc \in {"stat", "open", "read"} /\ f # file /\ Cardinality(versions) = 1
    /\ file' = f /\ versions' = versions \cup {f}
    /\ UNCHANGED <<call, pc, exchange, opened, trust, client, proven, outcome, sent, time>>

\* What the process does by itself, and what it does when its time is up
Step ==
    \/ PasswordLogin \/ PasswordOpen \/ EnterpriseLogin \/ EnterpriseOpen
    \/ NewClient \/ Stat \/ Open \/ Read \/ Build \/ HandOver \/ Ping \/ Close
    \/ over /\ (Refused \/ NoPong)

Next ==
    \/ Step \/ Answered \/ Redirected \/ Refused \/ OpenPipe \/ Pong \/ NoPong
    \/ Tick \/ ContextEnds
    \/ \E f \in Files \cup {NoFile} : Replace(f)

Spec == Init /\ [][Next]_vars

\* The system runs the process, and its timeout passes; nothing else is fair.
FairSpec == Spec /\ WF_vars(Step) /\ WF_vars(ContextEnds)

-----------------------------------------------------------------------------

(* Every variable has its type.                                             *)
TypeOK ==
    /\ call \in Calls
    /\ pc \in {"start", "exchange", "client", "stat", "open", "read", "build",
               "ping", "pong", "close", "done"}
    /\ secret \in Secrets \cup {None}
    /\ endpoint \in Schemes \cup {None}
    /\ issued \in Issues \cup {None}
    /\ answer \in {"none", "issued", "stale", "redirect", "refused"}
    /\ {file, opened} \cup versions \subseteq Files \cup {NoFile}
    /\ trust \in Files \cup {NoFile, None}
    /\ client \in {"none", "open", "closed"}
    /\ proven \in (Schemes \X Secrets) \cup {None}
    /\ outcome \in {"none", "failed", "saved", "opened"}
    /\ now \in 0..MaxTime /\ over \in BOOLEAN

(* README.md: the control-plane token "is never forwarded to the data       *)
(* plane", and docs/authentication.md: redirects are not followed,          *)
(* "preventing credentials from crossing origins".  A secret that is said   *)
(* to be a token goes to a trustworthy control plane only, a password to    *)
(* its own endpoint and never over plain HTTP, a temporary credential to    *)
(* the endpoint it was issued for (loginSecret, Exchange, NewPasswordClient,*)
(* CheckRedirect).                                                          *)
SecretsStayHome ==
    \A m \in sent :
        \/ m = <<"control", "token">> /\ ValidControl(call.control)
        \/ m = <<call.url, "password">> /\ call.url \in {"ferric", "ferrics", "https"}
        \/ m[2] = "temporary" /\ m[1] = issued.endpoint /\ m[1] # "http"

(* docs/authentication.md: "Redirects, [...] and expired credential         *)
(* responses fail closed": after a redirect, a refusal or a credential that *)
(* is stale on arrival there is never a client (Exchange).  A credential    *)
(* that expires later is not told from a live one when a connection is      *)
(* opened; for a login, PING tells (LoginIsProven).                         *)
FailsClosed ==
    answer \in {"redirect", "refused", "stale"} =>
        client = "none" /\ outcome \in {"none", "failed"}

(* README.md: "Login performs a real Platform exchange and native PING      *)
(* before saving anything."  A login is saved only if the server answered   *)
(* PING with the very secret that was typed or exchanged for it, whatever   *)
(* expired on the way (ValidatePassword, ValidateEnterpriseToken).          *)
LoginIsProven ==
    outcome = "saved" =>
        /\ proven = <<endpoint, secret>>
        /\ IF call.method = "password" THEN endpoint = call.url /\ call.right
           ELSE /\ <<"control", "token">> \in sent /\ answer = "issued"
                /\ endpoint = issued.endpoint

(* Certificates are trusted only if a whole file held them that is not too  *)
(* long, and a client with a CA file never connects without them            *)
(* (readCACertificateFile, passwordTLSConfig).                              *)
TrustIsWhole ==
    /\ trust # None => trust.size = "fits" /\ trust.pem
    /\ client = "open" => (CAFile # "none" <=> trust # None)

(* Whatever fails, only a client that was handed over stays open            *)
(* (NewPasswordClient, passwordClient.Close, the two validators).           *)
OnlyHandedOverOpen == pc = "done" => (client = "open" <=> outcome = "opened")

\* A pipe took the place of a regular file after os.Stat, before os.Open.
PipeSwappedIn == pc = "open" /\ file.kind = "pipe" /\ Cardinality(versions) > 1

(* A login or a connection ends, whatever the control plane, the server and *)
(* the CA file do, but for a pipe that takes the place of a regular file.   *)
ExchangeEnds == <>(pc = "done" \/ PipeSwappedIn)
=============================================================================
