--------------------------- MODULE MCNetworkCommand ---------------------------
(* NetworkCommand on a small instance: every mix of flag, environment,      *)
(* FERRIC_PROFILE and profile document, and one command of each kind.       *)
EXTENDS NetworkCommand

CONSTANTS Commands

Calls ==
    [flag : {None, NoName, 1}, env : {"absent", "complete", "broken"},
     variable : {NoName, 1}, positive : BOOLEAN, yes : BOOLEAN, valid : BOOLEAN,
     command : Commands]
=============================================================================
