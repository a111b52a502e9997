------------------------------ MODULE MCAfbEvt ------------------------------
(***************************************************************************)
(* Small instances of AfbEvt: more creations than ids, so that the counter *)
(* wraps while events are alive, and listeners of the three kinds of       *)
(* interfaces found in the binder.                                         *)
(***************************************************************************)
EXTENDS AfbEvt, TLC

(* Events are interchangeable.                                             *)
MCSymmetry == Permutations(Events)
=============================================================================
