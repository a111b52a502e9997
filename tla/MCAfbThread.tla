---------------------------- MODULE MCAfbThread ----------------------------
(***************************************************************************)
(* Small instances of AfbThread.  Jobs of the group "a" get blocked behind *)
(* one another, jobs of group "b" and jobs without group overtake them.    *)
(***************************************************************************)
EXTENDS AfbThread, TLC

CONSTANTS GroupA, GroupB    \* the jobs of two bindings

MCGroup == [j \in Jobs |-> IF j \in GroupA THEN "a"
                           ELSE IF j \in GroupB THEN "b" ELSE NoGroup]

(* Jobs of a same group are interchangeable.                               *)
MCSymmetry == Permutations(GroupA) \cup Permutations(GroupB)
=============================================================================
