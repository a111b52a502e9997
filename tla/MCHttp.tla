------------------------------- MODULE MCHttp -------------------------------
(***************************************************************************)
(* Two connections and two workers: each worker may run MHD while the main *)
(* loop or the other one replies.                                          *)
(***************************************************************************)
EXTENDS Http, TLC

(* Connections are interchangeable, and so are workers.                    *)
MCSymmetry == Permutations(Conns) \cup Permutations(Workers)
=============================================================================
