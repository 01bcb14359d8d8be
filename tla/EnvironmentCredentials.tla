------------------------ MODULE EnvironmentCredentials ------------------------
(***************************************************************************)
(* EnvironmentCredentialSource.Resolve (internal/connection): a set of     *)
(* connection variables of the process environment is complete or refused, *)
(* with a secret given in a variable or in a mounted file.                 *)
(*                                                                         *)
(* A text is a sequence of characters; the environment is the Go map of    *)
(* the variables that are set.  The file is examined, opened, examined     *)
(* again and read in separate system calls, and may be replaced between    *)
(* any two of them, by a rename: what was opened stays as it was.  The     *)
(* context may end at any moment; it is looked at where the code looks.    *)
(***************************************************************************)
EXTENDS Naturals, Sequences, FiniteSets

CONSTANTS Environments,     \* environments the command may run in
          Files,            \* what may take the place of the secret's file
          FilesFor(_),      \* of these, what it may be at first
          MaxSecret,        \* maxEnvironmentSecretBytes, in characters
          MaxVersions       \* bound: files that take each other's place

VARIABLES env,        \* the variables that are set
          file,       \* what is at the path now
          opened,     \* what the open descriptor refers to
          over,       \* has the context ended?
          pc,
          result,
          versions    \* history: what was at the path, one after the other

world == <<file, versions>>
vars  == <<env, file, opened, over, pc, result, versions>>

-----------------------------------------------------------------------------

PasswordKeys == {"URL", "USERNAME", "PASSWORD", "PASSWORD_FILE", "CA_CERT_FILE"}
TokenKeys    == {"CONTROL_URL", "ORGANIZATION", "CLUSTER", "API_TOKEN",
                 "API_TOKEN_FILE"}

\* LookupEnv is asked for these variables only.
ASSUME EnvironmentsAssumption ==
    \A e \in Environments : DOMAIN e \subseteq PasswordKeys \cup TokenKeys

ASSUME FilesAssumption ==
    /\ MaxSecret \in Nat
    /\ \A f \in Files : f.contents \in Seq(STRING)
    /\ \A e \in Environments : FilesFor(e) \subseteq Files

LF == "\n"
CR == "\r"
Blank == {" ", LF, CR}

\* strings.TrimSpace
TrimSpace(text) ==
    LET ink == {i \in DOMAIN text : text[i] \notin Blank}
        First == CHOOSE i \in ink : \A j \in ink : i <= j
        Last == CHOOSE i \in ink : \A j \in ink : j <= i
    IN  IF ink = {} THEN <<>> ELSE SubSeq(text, First, Last)

\* strings.TrimSuffix, of one character
TrimSuffix(text, c) ==
    IF text # <<>> /\ text[Len(text)] = c
    THEN SubSeq(text, 1, Len(text) - 1) ELSE text

NoFile == [kind |-> "none", contents |-> <<>>]

NoResult == [status |-> "none", secret |-> <<>>]

Configured(e) == DOMAIN e # {}

AnySet(e, keys) == DOMAIN e \cap keys # {}

\* requiredEnvironmentValue: is the variable set, and not blank?
Required(e, key) == key \in DOMAIN e /\ TrimSpace(e[key]) # <<>>

\* optionalEnvironmentValue, and filepath.IsAbs: if set, an absolute path
OptionalPath(e, key) ==
    key \in DOMAIN e =>
        LET path == TrimSpace(e[key]) IN path # <<>> /\ path[1] = "/"

\* endpoint.Validate: "@" stands for user information, or what url.Parse
\* rejects.
ValidEndpoint(text) ==
    /\ TrimSpace(text) # <<>>
    /\ \A i \in DOMAIN text : text[i] # "@"

\* validateEnvironmentSecret
ValidSecret(secret) == secret # <<>> /\ Len(secret) <= MaxSecret

\* What the two resolvers demand before they look for the secret ...
Metadata(e) ==
    IF AnySet(e, PasswordKeys)
    THEN Required(e, "URL") /\ ValidEndpoint(e["URL"]) /\ Required(e, "USERNAME")
    ELSE \A key \in {"CONTROL_URL", "ORGANIZATION", "CLUSTER"} : Required(e, key)

\* ... and after it.
LateMetadata(e) == AnySet(e, PasswordKeys) => OptionalPath(e, "CA_CERT_FILE")

InlineKey(e) == IF AnySet(e, PasswordKeys) THEN "PASSWORD" ELSE "API_TOKEN"
FileKey(e)   == IF AnySet(e, PasswordKeys) THEN "PASSWORD_FILE" ELSE "API_TOKEN_FILE"

-----------------------------------------------------------------------------

Init ==
    /\ env \in Environments
    /\ file \in FilesFor(env) \cup {NoFile}
    /\ opened = NoFile
    /\ over \in BOOLEAN
    /\ pc = "resolve"
    /\ result = NoResult
    /\ versions = {file}

Finish(status, secret) ==
    /\ result' = [status |-> status, secret |-> secret]
    /\ pc' = "done"

Refuse == Finish("failed", <<>>)

\* The end of resolveSecret and of the resolver that called it
Accept(secret) ==
    IF ValidSecret(secret) /\ LateMetadata(env) THEN Finish("ok", secret) ELSE Refuse

\* Mutation: OSS and Enterprise variables may be combined.
ResolveCombined ==
    /\ pc = "resolve"
    /\ CASE ~Configured(env) -> Finish("absent", <<>>)
         [] Configured(env) /\ (over \/ ~Metadata(env)) -> Refuse
         [] OTHER ->
              CASE InlineKey(env) \in DOMAIN env /\ FileKey(env) \notin DOMAIN env
                       -> Accept(env[InlineKey(env)])
                [] Required(env, FileKey(env)) /\ InlineKey(env) \notin DOMAIN env
                       -> pc' = "stat" /\ UNCHANGED result
                [] OTHER -> Refuse
    /\ UNCHANGED <<env, world, opened, over>>

Resolve ==
    /\ pc = "resolve"
    /\ \/ /\ ~Configured(env)
          /\ Finish("absent", <<>>)
       \/ /\ Configured(env)
          /\ \/ over
             \/ AnySet(env, PasswordKeys) /\ AnySet(env, TokenKeys)
             \/ ~Metadata(env)
             \/ InlineKey(env) \in DOMAIN env <=> FileKey(env) \in DOMAIN env
             \/ InlineKey(env) \notin DOMAIN env /\ ~Required(env, FileKey(env))
          /\ Refuse
       \/ /\ ~over
          /\ ~(AnySet(env, PasswordKeys) /\ AnySet(env, TokenKeys))
          /\ Configured(env) /\ Metadata(env)
          /\ \/ /\ InlineKey(env) \in DOMAIN env /\ FileKey(env) \notin DOMAIN env
                /\ Accept(env[InlineKey(env)])
             \/ /\ InlineKey(env) \notin DOMAIN env /\ Required(env, FileKey(env))
                /\ pc' = "stat" /\ UNCHANGED result
    /\ UNCHANGED <<env, world, opened, over>>

-----------------------------------------------------------------------------
(* readBoundedSecretFile                                                    *)

\* Mutation: what is at the path is opened without being examined.
StatSkipped ==
    /\ pc = "stat"
    /\ pc' = "open" /\ UNCHANGED result
    /\ UNCHANGED <<env, world, opened, over>>

Stat ==
    /\ pc = "stat"
    /\ IF over \/ file.kind # "regular"
       THEN Refuse
       ELSE pc' = "open" /\ UNCHANGED result
    /\ UNCHANGED <<env, world, opened, over>>

\* Opening a pipe waits for somebody to write to it.
Open ==
    /\ pc = "open"
    /\ file.kind # "pipe"
    /\ IF file = NoFile
       THEN Refuse /\ UNCHANGED opened
       ELSE opened' = file /\ pc' = "fstat" /\ UNCHANGED result
    /\ UNCHANGED <<env, world, over>>

\* A writer opens the pipe.
OpenPipe ==
    /\ pc = "open"
    /\ file.kind = "pipe"
    /\ opened' = file
    /\ pc' = "fstat"
    /\ UNCHANGED <<env, world, over, result>>

Fstat ==
    /\ pc = "fstat"
    /\ IF opened.kind # "regular"
       THEN Refuse
       ELSE pc' = "read" /\ UNCHANGED result
    /\ UNCHANGED <<env, world, opened, over>>

\* At most one character more than is allowed is read.
ReadUpTo(limit) ==
    LET length   == Len(opened.contents)
        contents == SubSeq(opened.contents, 1, IF length < limit THEN length ELSE limit)
    IN  /\ pc = "read"
        /\ IF over \/ Len(contents) > MaxSecret
           THEN Refuse
           ELSE Accept(TrimSuffix(TrimSuffix(contents, LF), CR))
        /\ UNCHANGED <<env, world, opened, over>>

\* Mutation: a secret that is too long is cut off.
ReadTruncated == ReadUpTo(MaxSecret)

Read == ReadUpTo(MaxSecret + 1)

\* A system call fails.
CallFails ==
    /\ pc \in {"stat", "open", "fstat", "read"}
    /\ Refuse
    /\ UNCHANGED <<env, world, opened, over>>

-----------------------------------------------------------------------------
(* The world around the command                                             *)

ContextEnds ==
    /\ ~over
    /\ over' = TRUE
    /\ UNCHANGED <<env, world, opened, pc, result>>

Replace(f) ==
    /\ pc \in {"stat", "open", "fstat", "read"}
    /\ f \notin versions
    /\ Cardinality(versions) < MaxVersions
    /\ file' = f
    /\ versions' = versions \cup {f}
    /\ UNCHANGED <<env, opened, over, pc, result>>

Step == Resolve \/ Stat \/ Open \/ Fstat \/ Read

Next ==
    \/ Step
    \/ OpenPipe \/ CallFails \/ ContextEnds
    \/ \E f \in Files \cup {NoFile} : Replace(f)

Spec == Init /\ [][Next]_vars

\* The system runs the process; nothing in the world around it is fair.
FairSpec == Spec /\ WF_vars(Step)

-----------------------------------------------------------------------------

ExactlyOne(e, key, other) == key \in DOMAIN e <=> other \notin DOMAIN e

(* What docs/authentication.md calls a complete set of variables: one of    *)
(* the two sets with all it needs, nothing of the other, one secret.        *)
Complete(e) ==
    \/ /\ DOMAIN e \subseteq PasswordKeys
       /\ {"URL", "USERNAME"} \subseteq DOMAIN e
       /\ ExactlyOne(e, "PASSWORD", "PASSWORD_FILE")
       /\ \A key \in DOMAIN e \ {"PASSWORD"} : TrimSpace(e[key]) # <<>>
       /\ ValidEndpoint(e["URL"]) /\ OptionalPath(e, "CA_CERT_FILE")
       /\ "PASSWORD" \in DOMAIN e => ValidSecret(e["PASSWORD"])
    \/ /\ DOMAIN e \subseteq TokenKeys
       /\ {"CONTROL_URL", "ORGANIZATION", "CLUSTER"} \subseteq DOMAIN e
       /\ ExactlyOne(e, "API_TOKEN", "API_TOKEN_FILE")
       /\ \A key \in DOMAIN e \ {"API_TOKEN"} : TrimSpace(e[key]) # <<>>
       /\ "API_TOKEN" \in DOMAIN e => ValidSecret(e["API_TOKEN"])

UsesFile(e) == {"PASSWORD_FILE", "API_TOKEN_FILE"} \cap DOMAIN e # {}

(* Only a complete environment is accepted; one that has no variable at all *)
(* is passed over, and every other is an error, never passed over: a broken *)
(* environment must not fall back to a saved profile (Resolve).  A complete *)
(* one is refused only if the context ended or its file was refused.        *)
AcceptedIffComplete ==
    pc = "done" =>
        CASE result.status = "absent" -> DOMAIN env = {}
          [] result.status = "ok"     -> Complete(env)
          [] result.status = "failed" -> /\ DOMAIN env # {}
                                         /\ Complete(env) => over \/ UsesFile(env)

LineEnds == {<<>>, <<LF>>, <<CR, LF>>, <<CR>>}

(* A secret from a file is all that one version of the file contained but   *)
(* for its line end: never cut off at the limit, never read from anything   *)
(* but a regular file, however often the file is replaced on the way        *)
(* (readBoundedSecretFile).                                                 *)
SecretIsWhole ==
    /\ pc = "read" => opened.kind = "regular"
    /\ result.status = "ok" /\ UsesFile(env) =>
        /\ ValidSecret(result.secret)
        /\ \E f \in versions, end \in LineEnds : f.contents = result.secret \o end

\* A pipe took the place of a regular file after os.Stat, before os.Open.
PipeSwappedIn == pc = "open" /\ file.kind = "pipe" /\ Cardinality(versions) > 1

(* The command does not wait for ever on its secret, whatever is at the     *)
(* path, a pipe that nobody writes to included (Resolve,                    *)
(* readBoundedSecretFile; environment_fifo_test.go); unless one takes the   *)
(* place of a regular file between os.Stat and os.Open.                     *)
ResolveEnds == <>(pc = "done" \/ PipeSwappedIn)
=============================================================================
