----------------------- MODULE MCEnvironmentCredentials -----------------------
(* EnvironmentCredentials on small instances: every combination of set,     *)
(* blank, malformed and well-formed variables; every short file.            *)
EXTENDS EnvironmentCredentials, TLC

Unset == <<"unset">>

Plain == {Unset, <<" ">>, <<"x">>}
Secrets == {Unset, <<>>, <<" ">>, <<"x", "x", "x">>}

Set(choice) == [key \in {k \in DOMAIN choice : choice[k] # Unset} |-> choice[key]]

PasswordSets ==
    {Set(c) : c \in [URL : Plain \cup {<<"x", "@">>}, USERNAME : Plain,
                     PASSWORD : Secrets, PASSWORD_FILE : Plain,
                     CA_CERT_FILE : Plain \cup {<<"/", "x">>}]}

TokenSets ==
    {Set(c) : c \in [CONTROL_URL : Plain, ORGANIZATION : Plain, CLUSTER : Plain,
                     API_TOKEN : Secrets, API_TOKEN_FILE : Plain]}

Few(sets) == {s \in sets : Cardinality(DOMAIN s) <= 1 /\ \A k \in DOMAIN s : s[k] # <<" ">>}

FileEnvironments ==
    {[URL |-> <<"x">>, USERNAME |-> <<"x">>, PASSWORD_FILE |-> <<"x">>],
            [URL |-> <<"x">>, USERNAME |-> <<"x">>, PASSWORD_FILE |-> <<"x">>,
             CA_CERT_FILE |-> <<"x">>],
            [CONTROL_URL |-> <<"x">>, ORGANIZATION |-> <<"x">>,
             CLUSTER |-> <<"x">>, API_TOKEN_FILE |-> <<"x">>]}

AllEnvironments == FileEnvironments \cup
    {p @@ t : p \in PasswordSets, t \in Few(TokenSets)}
        \cup {p @@ t : p \in Few(PasswordSets), t \in TokenSets}

Regular(contents) == [kind |-> "regular", contents |-> contents]
Special(kind)     == [kind |-> kind, contents |-> <<>>]

OneFile == {Regular(<<"x", LF>>)}

ShortFiles ==
    {Regular(c) : c \in UNION {[1..n -> {"x", LF, CR}] : n \in 0..(MaxSecret + 1)}}

AllFiles == ShortFiles \cup {Special("pipe"), Special("directory")}

\* All files for few environments, one file for the others
AllFilesForFew(e) == IF e \in FileEnvironments THEN AllFiles ELSE OneFile
=============================================================================
