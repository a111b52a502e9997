------------------------------- MODULE MCWsj1 -------------------------------
(***************************************************************************)
(* As many ids as calls, so that ids are given again while calls wait for  *)
(* their reply; one verb keeps its request after its job.                  *)
(***************************************************************************)
EXTENDS Wsj1
=============================================================================
