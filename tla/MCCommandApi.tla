---------------------------- MODULE MCCommandApi -----------------------------
(***************************************************************************)
(* CommandApi with requests under one key, under an empty key or without.  *)
(***************************************************************************)
EXTENDS CommandApi

CONSTANT printjob

MCKeys == {printjob}
=============================================================================
