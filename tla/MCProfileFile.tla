---------------------------- MODULE MCProfileFile ----------------------------
(* ProfileFile on a small instance.                                         *)
EXTENDS ProfileFile
=============================================================================
