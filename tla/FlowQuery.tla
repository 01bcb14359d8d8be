------------------------------- MODULE FlowQuery -------------------------------
(***************************************************************************)
(* The input of ferric workflow query and query explain (internal/cli,     *)
(* query.go): a query, as an argument, in a file or on standard input, and *)
(* its parameters, in a JSON document and as repeated assignments.         *)
(*                                                                         *)
(* A line says which sources were given, and what the query and the        *)
(* document hold.  fits: it could be read and is not too long.  A value is *)
(* a pair of how it is written and what it is; the name in an assignment   *)
(* is what is left of it without blanks.                                   *)
(***************************************************************************)
EXTENDS Integers, Sequences, FiniteSets, TLC

CONSTANTS ParameterNames,   \* of the permitted characters, and not too long
          MaxParameters,    \* flowQueryMaxParameters
          MaxInteger,       \* math.MaxInt64
          MaxFloat,         \* math.MaxFloat64
          Spacing           \* of floating-point numbers above MaxInteger

ASSUME NumbersAssumption ==
    /\ MaxParameters \in Nat /\ MaxInteger \in Nat /\ MaxFloat \in Nat
    /\ Spacing \in Nat \ {0}

Values == ({"integer", "fraction"} \X Int) \cup ({"string", "bool", "nested"} \X STRING)

\* A line holds a document and assignments, which are of strings.
QueryLine(line) ==
    /\ line.positional \in BOOLEAN /\ line.json \in BOOLEAN
    /\ line.document.members \in Seq(STRING \X Values)
    /\ line.params \in Seq(STRING \X ({"string"} \X STRING))

\* json.Number.Float64
Float(n) == ((n + Spacing \div 2) \div Spacing) * Spacing

\* normalizeFlowQueryJSONValue: what may be a parameter ...
Scalar(value) ==
    \/ value[1] \in {"string", "bool", "fraction"}
    \/ value[1] = "integer" /\ value[2] \in -MaxFloat..MaxFloat

\* ... and what it becomes
Normal(value) ==
    IF value[1] = "integer" /\ value[2] \notin (-MaxInteger - 1)..MaxInteger
    THEN <<"fraction", Float(value[2])>> ELSE value

\* validateFlowQueryParameter
ValidParameter(name, value) ==
    name \in ParameterNames /\ value # <<"string", "too long">>

NoParameters == [ok |-> TRUE, params |-> <<>>]

With(read, name, value) ==
    [read EXCEPT !.params =
        [n \in DOMAIN @ \cup {name} |-> IF n \in DOMAIN @ THEN @[n] ELSE value]]

\* One member of the document
Member(read, member) ==
    IF /\ read.ok
       /\ member[1] \notin DOMAIN read.params
       /\ Scalar(member[2]) /\ ValidParameter(member[1], Normal(member[2]))
       /\ Cardinality(DOMAIN read.params) < MaxParameters
    THEN With(read, member[1], Normal(member[2])) ELSE [read EXCEPT !.ok = FALSE]

\* The members of the document, one after the other
ReadMembers(members) ==
    LET read[n \in 0..Len(members)] ==
            IF n = 0 THEN NoParameters ELSE Member(read[n - 1], members[n])
    IN  read[Len(members)]

\* decodeFlowQueryParams
Decode(document) ==
    IF ~document.fits \/ ~document.utf8 \/ ~document.object \/ document.trailing
    THEN [NoParameters EXCEPT !.ok = FALSE]
    ELSE ReadMembers(document.members)

\* Mutation: an assignment replaces a parameter of the document.
AssignedOver(read, assignment) ==
    IF read.ok /\ ValidParameter(assignment[1], assignment[2])
    THEN [read EXCEPT !.params = (assignment[1] :> assignment[2]) @@ @]
    ELSE [read EXCEPT !.ok = FALSE]

\* One --param name=value
Assigned(read, assignment) ==
    IF /\ read.ok
       /\ ValidParameter(assignment[1], assignment[2])
       /\ assignment[1] \notin DOMAIN read.params
    THEN With(read, assignment[1], assignment[2]) ELSE [read EXCEPT !.ok = FALSE]

\* The assignments, after what the document says
ReadAssignments(first, assignments) ==
    LET read[n \in 0..Len(assignments)] ==
            IF n = 0 THEN first ELSE Assigned(read[n - 1], assignments[n])
    IN  read[Len(assignments)]

\* flowQueryInputFlags.readParams
Parameters(line) ==
    ReadAssignments(
        IF line.json \/ line.paramsFile # "" THEN Decode(line.document) ELSE NoParameters,
        line.params)

\* flowQueryInputFlags.read, before anything is read
OneSourceEach(line) ==
    /\ line.positional = (line.file = "")
    /\ ~(line.json /\ line.paramsFile # "")
    /\ ~(line.file = "-" /\ line.paramsFile = "-")

\* validateFlowQueryInput
ValidQuery(query) == query.fits /\ query.utf8 /\ ~query.blank

\* newWorkflowQueryCommand, newWorkflowQueryExplainCommand, which refuse a
\* query that begins with EXPLAIN
QueryAccepted(line) ==
    /\ OneSourceEach(line)
    /\ ValidQuery(line.query) /\ ~line.query.explain
    /\ Parameters(line).ok
    /\ Cardinality(DOMAIN Parameters(line).params) <= MaxParameters

QueryOperation(line) ==
    CASE line.command = "query"           -> "FlowQuery"
      [] line.command = "explain"         -> "FlowExplain"
      [] line.command = "explain analyze" -> "FlowExplainAnalyze"
=============================================================================
