----------------------------- MODULE MCServices -----------------------------
(* An instance of Services: a binding, two others of the same name in a    *)
(* subdirectory, and a remote api; or clients only (NoName).               *)
EXTENDS Services, TLC

CONSTANTS lib1, lib2, lib3, remote, n1, n2, n3, h1, h2

MCName == (lib1 :> n1) @@ (lib2 :> n2) @@ (lib3 :> n1) @@ (remote :> n3)
MCTraced == (h1 :> {n1, n2}) @@ (h2 :> {n1})
NoName == <<>>
MCSymmetry == Permutations(Uuids)
=============================================================================
