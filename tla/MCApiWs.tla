------------------------------ MODULE MCApiWs ------------------------------
(***************************************************************************)
(* A small instance of ApiWs: calls of two clients in flight together,     *)
(* and so few msgids that the counter wraps over ids in use.               *)
(***************************************************************************)
EXTENDS ApiWs

CONSTANTS r1, r2, c1, c2

MCOwner == (r1 :> c1) @@ (r2 :> c2)
=============================================================================
