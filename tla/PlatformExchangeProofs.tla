------------------------ MODULE PlatformExchangeProofs ------------------------
(***************************************************************************)
(* Proofs about PlatformExchange, for all calls, answers of the Platform,  *)
(* CA files and times: its types, and its five safety properties.          *)
(***************************************************************************)
EXTENDS PlatformExchange, TLAPS

-----------------------------------------------------------------------------
(* The inductive invariant, one part for each thing that is carried along   *)

Connecting == {"client", "stat", "open", "read", "build", "ping", "pong", "close"}

WithClient == {"ping", "pong", "close"}

\* Nothing has an end before there is one.
Running ==
    /\ (outcome = "none") = (pc # "done")
    /\ pc \in {"start", "exchange"} \cup Connecting => answer \in {"none", "issued"}
    /\ pc \notin {"close", "done"} => proven = None

\* Which secret is presented, and what it may be used for
Presented ==
    /\ pc = "start" => secret = None /\ sent = {} /\ issued = None
    /\ pc \in {"start", "exchange"} => answer = "none"
    /\ pc = "exchange" => secret = "token" /\ sent = {<<"control", "token">>}
    /\ pc \in Connecting => secret \in {"password", "temporary"}
    /\ secret = "password" => call.method = "password" /\ endpoint = call.url
    /\ secret = "token" => call.method = "enterprise"
    /\ secret = "temporary" =>
           /\ call.method = "enterprise" /\ <<"control", "token">> \in sent
           /\ issued # None /\ endpoint = issued.endpoint /\ answer = "issued"

\* Whether there is a client, and which certificates it trusts
Trusting ==
    /\ pc \in {"start", "exchange", "client", "stat", "open", "read"} => trust = None
    /\ pc \in {"stat", "open", "read"} => CAFile # "none"
    /\ pc \in {"build"} \cup WithClient => (CAFile # "none" <=> trust # None)
    /\ pc \in {"stat", "open", "read", "build"} \cup WithClient =>
           endpoint \in {"ferric", "ferrics", "https"}
    /\ pc \in WithClient => client = "open"
    /\ pc \notin WithClient \cup {"done"} => client = "none"

\* What PING proves
Proven ==
    /\ proven # None =>
           /\ proven = <<endpoint, secret>>
           /\ call.method = "password" => call.right
    /\ outcome = "saved" => proven # None /\ secret \in {"password", "temporary"}

IInv ==
    /\ TypeOK /\ Running /\ Presented /\ Trusting /\ Proven
    /\ SecretsStayHome /\ FailsClosed /\ TrustIsWhole /\ OnlyHandedOverOpen

-----------------------------------------------------------------------------
(* Every step keeps the invariant                                           *)

LEMMA InvInit == Init => IInv
<1> SUFFICES ASSUME Init PROVE IInv
  OBVIOUS
<1> USE NoneAssumption DEF Init, Connecting, WithClient
<1>1. TypeOK
  <2>1. NoFile \in Files \cup {NoFile} /\ 0 \in 0..MaxTime
    BY BoundAssumption
  <2>2. {file, opened} \cup versions \subseteq Files \cup {NoFile}
    BY <2>1
  <2> QED
    BY <2>1, <2>2 DEF TypeOK
<1>2. Running /\ Presented /\ Proven
  BY DEF Running, Presented, Proven, Secrets
<1>3. Trusting /\ TrustIsWhole
  BY DEF Trusting, TrustIsWhole
<1>4. SecretsStayHome /\ FailsClosed /\ OnlyHandedOverOpen
  BY DEF SecretsStayHome, FailsClosed, OnlyHandedOverOpen
<1> QED
  BY <1>1, <1>2, <1>3, <1>4 DEF IInv

LEMMA PasswordLoginKeeps == IInv /\ PasswordLogin => IInv'
<1> SUFFICES ASSUME IInv, PasswordLogin PROVE IInv'
  OBVIOUS
<1> USE DEF IInv, PasswordLogin, Finish, Fail, LoginSecret, Declared, Valid, trusting, time
<1>1. TypeOK'
  BY CallsAssumption, IssuesAssumption
     DEF TypeOK, Schemes, Secrets
<1>2. Running'
  BY DEF Running, Connecting
<1>3. Presented'
  BY CallsAssumption, NoneAssumption DEF TypeOK, Running, Presented, Connecting, Secrets
<1>4. Trusting'
  BY NoneAssumption DEF TypeOK, Trusting, Connecting, WithClient, CAFile, TrustIsWhole
<1>5. Proven'
  BY DEF Proven, Running, Presented, Trusting, Connecting, WithClient
<1>6. SecretsStayHome'
  BY DEF SecretsStayHome, Presented, Trusting, Connecting, WithClient, ValidControl
<1>7. (FailsClosed /\ TrustIsWhole /\ OnlyHandedOverOpen)'
  BY DEF FailsClosed, TrustIsWhole, OnlyHandedOverOpen, CAFile, Running, Trusting,
         Connecting, WithClient
<1> QED
  BY <1>1, <1>2, <1>3, <1>4, <1>5, <1>6, <1>7

LEMMA PasswordOpenKeeps == IInv /\ PasswordOpen => IInv'
<1> SUFFICES ASSUME IInv, PasswordOpen PROVE IInv'
  OBVIOUS
<1> USE DEF IInv, PasswordOpen, Finish, Fail, Declared, Valid, trusting, time
<1>1. TypeOK'
  BY CallsAssumption, IssuesAssumption
     DEF TypeOK, Schemes, Secrets
<1>2. Running'
  BY DEF Running, Connecting
<1>3. Presented'
  BY CallsAssumption, NoneAssumption DEF TypeOK, Running, Presented, Connecting, Secrets
<1>4. Trusting'
  BY NoneAssumption DEF TypeOK, Trusting, Connecting, WithClient, CAFile, TrustIsWhole
<1>5. Proven'
  BY DEF Proven, Running, Presented, Trusting, Connecting, WithClient
<1>6. SecretsStayHome'
  BY DEF SecretsStayHome, Presented, Trusting, Connecting, WithClient, ValidControl
<1>7. (FailsClosed /\ TrustIsWhole /\ OnlyHandedOverOpen)'
  BY DEF FailsClosed, TrustIsWhole, OnlyHandedOverOpen, CAFile, Running, Trusting,
         Connecting, WithClient
<1> QED
  BY <1>1, <1>2, <1>3, <1>4, <1>5, <1>6, <1>7

LEMMA EnterpriseLoginKeeps == IInv /\ EnterpriseLogin => IInv'
<1> SUFFICES ASSUME IInv, EnterpriseLogin PROVE IInv'
  OBVIOUS
<1> USE DEF IInv, EnterpriseLogin, Exchange, Finish, Fail, LoginSecret, Declared, trusting, time
<1>1. TypeOK'
  BY CallsAssumption, IssuesAssumption
     DEF TypeOK, Schemes, Secrets
<1>2. Running'
  BY DEF Running, Connecting
<1>3. Presented'
  BY CallsAssumption, NoneAssumption DEF TypeOK, Running, Presented, Connecting, Secrets
<1>4. Trusting'
  BY NoneAssumption DEF TypeOK, Trusting, Connecting, WithClient, CAFile, TrustIsWhole
<1>5. Proven'
  BY DEF Proven, Running, Presented, Trusting, Connecting, WithClient
<1>6. SecretsStayHome'
  BY DEF SecretsStayHome, Presented, Trusting, Connecting, WithClient, ValidControl
<1>7. (FailsClosed /\ TrustIsWhole /\ OnlyHandedOverOpen)'
  BY DEF FailsClosed, TrustIsWhole, OnlyHandedOverOpen, CAFile, Running, Trusting,
         Connecting, WithClient
<1> QED
  BY <1>1, <1>2, <1>3, <1>4, <1>5, <1>6, <1>7

LEMMA EnterpriseOpenKeeps == IInv /\ EnterpriseOpen => IInv'
<1> SUFFICES ASSUME IInv, EnterpriseOpen PROVE IInv'
  OBVIOUS
<1> USE DEF IInv, EnterpriseOpen, Exchange, Finish, Fail, Declared, trusting, time
<1>1. TypeOK'
  BY CallsAssumption, IssuesAssumption
     DEF TypeOK, Schemes, Secrets
<1>2. Running'
  BY DEF Running, Connecting
<1>3. Presented'
  BY CallsAssumption, NoneAssumption DEF TypeOK, Running, Presented, Connecting, Secrets
<1>4. Trusting'
  BY NoneAssumption DEF TypeOK, Trusting, Connecting, WithClient, CAFile, TrustIsWhole
<1>5. Proven'
  BY DEF Proven, Running, Presented, Trusting, Connecting, WithClient
<1>6. SecretsStayHome'
  BY DEF SecretsStayHome, Presented, Trusting, Connecting, WithClient, ValidControl
<1>7. (FailsClosed /\ TrustIsWhole /\ OnlyHandedOverOpen)'
  BY DEF FailsClosed, TrustIsWhole, OnlyHandedOverOpen, CAFile, Running, Trusting,
         Connecting, WithClient
<1> QED
  BY <1>1, <1>2, <1>3, <1>4, <1>5, <1>6, <1>7

LEMMA NewClientKeeps == IInv /\ NewClient => IInv'
<1> SUFFICES ASSUME IInv, NewClient PROVE IInv'
  OBVIOUS
<1> USE DEF IInv, NewClient, Finish, Fail, exchange, trusting, time
<1>1. TypeOK'
  BY CallsAssumption, IssuesAssumption
     DEF TypeOK, Schemes, Secrets
<1>2. Running'
  BY DEF Running, Connecting
<1>3. Presented'
  BY CallsAssumption, NoneAssumption DEF TypeOK, Running, Presented, Connecting, Secrets
<1>4. Trusting'
  BY NoneAssumption DEF TypeOK, Trusting, Connecting, WithClient, CAFile, TrustIsWhole
<1>5. Proven'
  BY DEF Proven, Running, Presented, Trusting, Connecting, WithClient
<1>6. SecretsStayHome'
  BY DEF SecretsStayHome, Presented, Trusting, Connecting, WithClient, ValidControl
<1>7. (FailsClosed /\ TrustIsWhole /\ OnlyHandedOverOpen)'
  BY DEF FailsClosed, TrustIsWhole, OnlyHandedOverOpen, CAFile, Running, Trusting,
         Connecting, WithClient
<1> QED
  BY <1>1, <1>2, <1>3, <1>4, <1>5, <1>6, <1>7

LEMMA StatKeeps == IInv /\ Stat => IInv'
<1> SUFFICES ASSUME IInv, Stat PROVE IInv'
  OBVIOUS
<1> USE DEF IInv, Stat, Finish, Fail, exchange, trusting, time
<1>1. TypeOK'
  BY CallsAssumption, IssuesAssumption
     DEF TypeOK, Schemes, Secrets
<1>2. Running'
  BY DEF Running, Connecting
<1>3. Presented'
  BY CallsAssumption, NoneAssumption DEF TypeOK, Running, Presented, Connecting, Secrets
<1>4. Trusting'
  BY NoneAssumption DEF TypeOK, Trusting, Connecting, WithClient, CAFile, TrustIsWhole
<1>5. Proven'
  BY DEF Proven, Running, Presented, Trusting, Connecting, WithClient
<1>6. SecretsStayHome'
  BY DEF SecretsStayHome, Presented, Trusting, Connecting, WithClient, ValidControl
<1>7. (FailsClosed /\ TrustIsWhole /\ OnlyHandedOverOpen)'
  BY DEF FailsClosed, TrustIsWhole, OnlyHandedOverOpen, CAFile, Running, Trusting,
         Connecting, WithClient
<1> QED
  BY <1>1, <1>2, <1>3, <1>4, <1>5, <1>6, <1>7

LEMMA OpenKeeps == IInv /\ Open => IInv'
<1> SUFFICES ASSUME IInv, Open PROVE IInv'
  OBVIOUS
<1> USE DEF IInv, Open, Finish, Fail, exchange, time
<1>1. TypeOK'
  BY CallsAssumption, IssuesAssumption
     DEF TypeOK, Schemes, Secrets
<1>2. Running'
  BY DEF Running, Connecting
<1>3. Presented'
  BY CallsAssumption, NoneAssumption DEF TypeOK, Running, Presented, Connecting, Secrets
<1>4. Trusting'
  BY NoneAssumption DEF TypeOK, Trusting, Connecting, WithClient, CAFile, TrustIsWhole
<1>5. Proven'
  BY DEF Proven, Running, Presented, Trusting, Connecting, WithClient
<1>6. SecretsStayHome'
  BY DEF SecretsStayHome, Presented, Trusting, Connecting, WithClient, ValidControl
<1>7. (FailsClosed /\ TrustIsWhole /\ OnlyHandedOverOpen)'
  BY DEF FailsClosed, TrustIsWhole, OnlyHandedOverOpen, CAFile, Running, Trusting,
         Connecting, WithClient
<1> QED
  BY <1>1, <1>2, <1>3, <1>4, <1>5, <1>6, <1>7

LEMMA OpenPipeKeeps == IInv /\ OpenPipe => IInv'
<1> SUFFICES ASSUME IInv, OpenPipe PROVE IInv'
  OBVIOUS
<1> USE DEF IInv, OpenPipe, exchange, time
<1>1. TypeOK'
  BY CallsAssumption, IssuesAssumption
     DEF TypeOK, Schemes, Secrets
<1>2. Running'
  BY DEF Running, Connecting
<1>3. Presented'
  BY CallsAssumption, NoneAssumption DEF TypeOK, Running, Presented, Connecting, Secrets
<1>4. Trusting'
  BY NoneAssumption DEF TypeOK, Trusting, Connecting, WithClient, CAFile, TrustIsWhole
<1>5. Proven'
  BY DEF Proven, Running, Presented, Trusting, Connecting, WithClient
<1>6. SecretsStayHome'
  BY DEF SecretsStayHome, Presented, Trusting, Connecting, WithClient, ValidControl
<1>7. (FailsClosed /\ TrustIsWhole /\ OnlyHandedOverOpen)'
  BY DEF FailsClosed, TrustIsWhole, OnlyHandedOverOpen, CAFile, Running, Trusting,
         Connecting, WithClient
<1> QED
  BY <1>1, <1>2, <1>3, <1>4, <1>5, <1>6, <1>7

LEMMA ReadKeeps == IInv /\ Read => IInv'
<1> SUFFICES ASSUME IInv, Read PROVE IInv'
  OBVIOUS
<1> USE DEF IInv, Read, Finish, Fail, exchange, time
<1>1. TypeOK'
  BY CallsAssumption, IssuesAssumption
     DEF TypeOK, Schemes, Secrets
<1>2. Running'
  BY DEF Running, Connecting
<1>3. Presented'
  BY CallsAssumption, NoneAssumption DEF TypeOK, Running, Presented, Connecting, Secrets
<1>4. Trusting'
  BY NoneAssumption DEF TypeOK, Trusting, Connecting, WithClient, CAFile, TrustIsWhole
<1>5. Proven'
  BY DEF Proven, Running, Presented, Trusting, Connecting, WithClient
<1>6. SecretsStayHome'
  BY DEF SecretsStayHome, Presented, Trusting, Connecting, WithClient, ValidControl
<1>7. (FailsClosed /\ TrustIsWhole /\ OnlyHandedOverOpen)'
  BY DEF FailsClosed, TrustIsWhole, OnlyHandedOverOpen, CAFile, Running, Trusting,
         Connecting, WithClient
<1> QED
  BY <1>1, <1>2, <1>3, <1>4, <1>5, <1>6, <1>7

LEMMA BuildKeeps == IInv /\ Build => IInv'
<1> SUFFICES ASSUME IInv, Build PROVE IInv'
  OBVIOUS
<1> USE DEF IInv, Build, Finish, Fail, exchange, trusting, time
<1>1. TypeOK'
  BY CallsAssumption, IssuesAssumption
     DEF TypeOK, Schemes, Secrets
<1>2. Running'
  BY DEF Running, Connecting
<1>3. Presented'
  BY CallsAssumption, NoneAssumption DEF TypeOK, Running, Presented, Connecting, Secrets
<1>4. Trusting'
  BY NoneAssumption DEF TypeOK, Trusting, Connecting, WithClient, CAFile, TrustIsWhole
<1>5. Proven'
  BY DEF Proven, Running, Presented, Trusting, Connecting, WithClient
<1>6. SecretsStayHome'
  BY DEF SecretsStayHome, Presented, Trusting, Connecting, WithClient, ValidControl
<1>7. (FailsClosed /\ TrustIsWhole /\ OnlyHandedOverOpen)'
  BY DEF FailsClosed, TrustIsWhole, OnlyHandedOverOpen, CAFile, Running, Trusting,
         Connecting, WithClient
<1> QED
  BY <1>1, <1>2, <1>3, <1>4, <1>5, <1>6, <1>7

LEMMA HandOverKeeps == IInv /\ HandOver => IInv'
<1> SUFFICES ASSUME IInv, HandOver PROVE IInv'
  OBVIOUS
<1> USE DEF IInv, HandOver, Finish, exchange, trusting, time
<1>1. TypeOK'
  BY CallsAssumption, IssuesAssumption
     DEF TypeOK, Schemes, Secrets
<1>2. Running'
  BY DEF Running, Connecting
<1>3. Presented'
  BY CallsAssumption, NoneAssumption DEF TypeOK, Running, Presented, Connecting, Secrets
<1>4. Trusting'
  BY NoneAssumption DEF TypeOK, Trusting, Connecting, WithClient, CAFile, TrustIsWhole
<1>5. Proven'
  BY DEF Proven, Running, Presented, Trusting, Connecting, WithClient
<1>6. SecretsStayHome'
  BY DEF SecretsStayHome, Presented, Trusting, Connecting, WithClient, ValidControl
<1>7. (FailsClosed /\ TrustIsWhole /\ OnlyHandedOverOpen)'
  BY DEF FailsClosed, TrustIsWhole, OnlyHandedOverOpen, CAFile, Running, Trusting,
         Connecting, WithClient
<1> QED
  BY <1>1, <1>2, <1>3, <1>4, <1>5, <1>6, <1>7

LEMMA PingKeeps == IInv /\ Ping => IInv'
<1> SUFFICES ASSUME IInv, Ping PROVE IInv'
  OBVIOUS
<1> USE DEF IInv, Ping, exchange, trusting, time
<1>1. TypeOK'
  BY CallsAssumption, IssuesAssumption
     DEF TypeOK, Schemes, Secrets
<1>2. Running'
  BY DEF Running, Connecting
<1>3. Presented'
  BY CallsAssumption, NoneAssumption DEF TypeOK, Running, Presented, Connecting, Secrets
<1>4. Trusting'
  BY NoneAssumption DEF TypeOK, Trusting, Connecting, WithClient, CAFile, TrustIsWhole
<1>5. Proven'
  BY DEF Proven, Running, Presented, Trusting, Connecting, WithClient
<1>6. SecretsStayHome'
  BY DEF SecretsStayHome, Presented, Trusting, Connecting, WithClient, ValidControl
<1>7. (FailsClosed /\ TrustIsWhole /\ OnlyHandedOverOpen)'
  BY DEF FailsClosed, TrustIsWhole, OnlyHandedOverOpen, CAFile, Running, Trusting,
         Connecting, WithClient
<1> QED
  BY <1>1, <1>2, <1>3, <1>4, <1>5, <1>6, <1>7

LEMMA PongKeeps == IInv /\ Pong => IInv'
<1> SUFFICES ASSUME IInv, Pong PROVE IInv'
  OBVIOUS
<1> USE DEF IInv, Pong, exchange, trusting, time
<1>1. TypeOK'
  BY CallsAssumption, IssuesAssumption
     DEF TypeOK, Schemes, Secrets, Presented, Trusting, Connecting, WithClient
<1>2. Running'
  BY DEF Running, Connecting
<1>3. Presented'
  BY CallsAssumption, NoneAssumption DEF TypeOK, Running, Presented, Connecting, Secrets
<1>4. Trusting'
  BY NoneAssumption DEF TypeOK, Trusting, Connecting, WithClient, CAFile, TrustIsWhole
<1>5. Proven'
  BY DEF Proven, Running, Presented, Trusting, Connecting, WithClient
<1>6. SecretsStayHome'
  BY DEF SecretsStayHome, Presented, Trusting, Connecting, WithClient, ValidControl
<1>7. (FailsClosed /\ TrustIsWhole /\ OnlyHandedOverOpen)'
  BY DEF FailsClosed, TrustIsWhole, OnlyHandedOverOpen, CAFile, Running, Trusting,
         Connecting, WithClient
<1> QED
  BY <1>1, <1>2, <1>3, <1>4, <1>5, <1>6, <1>7

LEMMA NoPongKeeps == IInv /\ NoPong => IInv'
<1> SUFFICES ASSUME IInv, NoPong PROVE IInv'
  OBVIOUS
<1> USE DEF IInv, NoPong, exchange, trusting, time
<1>1. TypeOK'
  BY CallsAssumption, IssuesAssumption
     DEF TypeOK, Schemes, Secrets
<1>2. Running'
  BY DEF Running, Connecting
<1>3. Presented'
  BY CallsAssumption, NoneAssumption DEF TypeOK, Running, Presented, Connecting, Secrets
<1>4. Trusting'
  BY NoneAssumption DEF TypeOK, Trusting, Connecting, WithClient, CAFile, TrustIsWhole
<1>5. Proven'
  BY DEF Proven, Running, Presented, Trusting, Connecting, WithClient
<1>6. SecretsStayHome'
  BY DEF SecretsStayHome, Presented, Trusting, Connecting, WithClient, ValidControl
<1>7. (FailsClosed /\ TrustIsWhole /\ OnlyHandedOverOpen)'
  BY DEF FailsClosed, TrustIsWhole, OnlyHandedOverOpen, CAFile, Running, Trusting,
         Connecting, WithClient
<1> QED
  BY <1>1, <1>2, <1>3, <1>4, <1>5, <1>6, <1>7

LEMMA CloseKeeps == IInv /\ Close => IInv'
<1> SUFFICES ASSUME IInv, Close PROVE IInv'
  OBVIOUS
<1> USE DEF IInv, Close, Finish, Fail, exchange, trusting, time
<1>1. TypeOK'
  BY CallsAssumption, IssuesAssumption
     DEF TypeOK, Schemes, Secrets
<1>2. Running'
  BY DEF Running, Connecting
<1>3. Presented'
  BY CallsAssumption, NoneAssumption DEF TypeOK, Running, Presented, Connecting, Secrets
<1>4. Trusting'
  BY NoneAssumption DEF TypeOK, Trusting, Connecting, WithClient, CAFile, TrustIsWhole
<1>5. Proven'
  BY DEF Proven, Running, Presented, Trusting, Connecting, WithClient
<1>6. SecretsStayHome'
  BY DEF SecretsStayHome, Presented, Trusting, Connecting, WithClient, ValidControl
<1>7. (FailsClosed /\ TrustIsWhole /\ OnlyHandedOverOpen)'
  BY DEF FailsClosed, TrustIsWhole, OnlyHandedOverOpen, CAFile, Running, Trusting,
         Connecting, WithClient
<1> QED
  BY <1>1, <1>2, <1>3, <1>4, <1>5, <1>6, <1>7

LEMMA AnsweredKeeps == IInv /\ Answered => IInv'
<1> SUFFICES ASSUME IInv, Answered PROVE IInv'
  OBVIOUS
<1> USE DEF IInv, Answered, Acceptable, Valid, Finish, Fail, trusting, time
<1>1. TypeOK'
  BY CallsAssumption, IssuesAssumption
     DEF TypeOK, Schemes, Secrets
<1>2. Running'
  BY DEF Running, Connecting
<1>3. Presented'
  BY CallsAssumption, NoneAssumption DEF TypeOK, Running, Presented, Connecting, Secrets
<1>4. Trusting'
  BY NoneAssumption DEF TypeOK, Trusting, Connecting, WithClient, CAFile, TrustIsWhole
<1>5. Proven'
  BY DEF Proven, Running, Presented, Trusting, Connecting, WithClient
<1>6. SecretsStayHome'
  BY DEF SecretsStayHome, Presented, Trusting, Connecting, WithClient, ValidControl
<1>7. (FailsClosed /\ TrustIsWhole /\ OnlyHandedOverOpen)'
  BY DEF FailsClosed, TrustIsWhole, OnlyHandedOverOpen, CAFile, Running, Trusting,
         Connecting, WithClient
<1> QED
  BY <1>1, <1>2, <1>3, <1>4, <1>5, <1>6, <1>7

LEMMA RedirectedOrRefusedKeeps == IInv /\ (Redirected \/ Refused) => IInv'
<1> SUFFICES ASSUME IInv, Redirected \/ Refused PROVE IInv'
  OBVIOUS
<1> USE DEF IInv, Redirected, Refused, Finish, Fail, trusting, time
<1>1. TypeOK'
  BY CallsAssumption, IssuesAssumption
     DEF TypeOK, Schemes, Secrets
<1>2. Running'
  BY DEF Running, Connecting
<1>3. Presented'
  BY CallsAssumption, NoneAssumption DEF TypeOK, Running, Presented, Connecting, Secrets
<1>4. Trusting'
  BY NoneAssumption DEF TypeOK, Trusting, Connecting, WithClient, CAFile, TrustIsWhole
<1>5. Proven'
  BY DEF Proven, Running, Presented, Trusting, Connecting, WithClient
<1>6. SecretsStayHome'
  BY DEF SecretsStayHome, Presented, Trusting, Connecting, WithClient, ValidControl
<1>7. (FailsClosed /\ TrustIsWhole /\ OnlyHandedOverOpen)'
  BY DEF FailsClosed, TrustIsWhole, OnlyHandedOverOpen, CAFile, Running, Trusting,
         Connecting, WithClient
<1> QED
  BY <1>1, <1>2, <1>3, <1>4, <1>5, <1>6, <1>7

LEMMA WorldKeeps ==
    ASSUME IInv, \/ Tick \/ ContextEnds \/ UNCHANGED vars
                 \/ \E f \in Files \cup {NoFile} : Replace(f)
    PROVE  IInv'
<1> USE DEF IInv, Tick, ContextEnds, Replace, vars, exchange, trusting, time
<1>1. TypeOK'
  <2>1. CASE Tick
    BY <2>1, BoundAssumption DEF TypeOK
  <2>2. CASE ContextEnds
    BY <2>2 DEF TypeOK
  <2>3. ASSUME NEW f \in Files \cup {NoFile}, Replace(f) PROVE TypeOK'
    <3>1. {file', opened'} \cup versions' \subseteq Files \cup {NoFile}
      BY <2>3 DEF TypeOK
    <3> QED
      BY <2>3, <3>1 DEF TypeOK
  <2>4. CASE UNCHANGED vars
    BY <2>4 DEF TypeOK
  <2> QED
    BY <2>1, <2>2, <2>3, <2>4
<1>2. (Running /\ Presented /\ Proven)'
  BY DEF Running, Presented, Proven
<1>3. (Trusting /\ TrustIsWhole)'
  BY DEF Trusting, TrustIsWhole, CAFile
<1>4. (SecretsStayHome /\ FailsClosed /\ OnlyHandedOverOpen)'
  BY DEF SecretsStayHome, FailsClosed, OnlyHandedOverOpen
<1> QED
  BY <1>1, <1>2, <1>3, <1>4

LEMMA InvNext == IInv /\ [Next]_vars => IInv'
<1> SUFFICES ASSUME IInv, [Next]_vars PROVE IInv'
  OBVIOUS
<1>1. CASE Step
  BY <1>1, PasswordLoginKeeps, PasswordOpenKeeps, EnterpriseLoginKeeps, EnterpriseOpenKeeps,
     NewClientKeeps, StatKeeps, OpenKeeps, ReadKeeps, BuildKeeps, HandOverKeeps, PingKeeps,
     CloseKeeps, RedirectedOrRefusedKeeps, NoPongKeeps DEF Step
<1>2. CASE Answered \/ Redirected \/ Refused \/ OpenPipe \/ Pong \/ NoPong
  BY <1>2, AnsweredKeeps, RedirectedOrRefusedKeeps, OpenPipeKeeps, PongKeeps, NoPongKeeps
<1>3. CASE \/ Tick \/ ContextEnds \/ UNCHANGED vars
           \/ \E f \in Files \cup {NoFile} : Replace(f)
  BY <1>3, WorldKeeps
<1> QED
  BY <1>1, <1>2, <1>3 DEF Next

LEMMA InvHolds == Spec => []IInv
BY InvInit, InvNext, PTL DEF Spec

-----------------------------------------------------------------------------
(* The theorems                                                             *)

(* Every variable has its type, for all calls, answers, files and times.    *)
THEOREM TypeCorrect == Spec => []TypeOK
BY InvHolds, PTL DEF IInv

(* A Platform token reaches a trustworthy control plane only, a password    *)
(* its own endpoint, a temporary credential the endpoint it was issued for, *)
(* and nothing crosses plain HTTP (loginSecret, Exchange, NewPasswordClient,*)
(* CheckRedirect).                                                          *)
THEOREM SecretsAlwaysStayHome == Spec => []SecretsStayHome
BY InvHolds, PTL DEF IInv

(* After a redirect, a refusal or an expired credential there is never a    *)
(* client (Exchange).                                                       *)
THEOREM ExchangeFailsClosed == Spec => []FailsClosed
BY InvHolds, PTL DEF IInv

(* A login is saved only after PING was answered for the secret that was    *)
(* typed or exchanged (ValidatePassword, ValidateEnterpriseToken).          *)
THEOREM LoginAlwaysProven == Spec => []LoginIsProven
<1>1. IInv => LoginIsProven
  BY DEF IInv, Presented, Proven, LoginIsProven
<1> QED
  BY <1>1, InvHolds, PTL

(* Only a whole file of certificates is trusted, and no client connects     *)
(* without the file that was asked for (readCACertificateFile).             *)
THEOREM TrustAlwaysWhole == Spec => []TrustIsWhole
BY InvHolds, PTL DEF IInv

(* No client is left open but one that was handed over (passwordClient).    *)
THEOREM NoClientLeft == Spec => []OnlyHandedOverOpen
BY InvHolds, PTL DEF IInv
=============================================================================
