----------------------------- MODULE MCApiDbus -----------------------------
(***************************************************************************)
(* A small instance of ApiDbus: two requests of one session, one of which  *)
(* closes it, and the request of a second session that shares the          *)
(* destination.                                                            *)
(***************************************************************************)
EXTENDS ApiDbus

CONSTANTS r1, r2, r3, s1, s2

MCOwner == [r \in Reqs |-> IF r = r3 THEN s2 ELSE s1]
=============================================================================
