---------------------------- MODULE MCAfbContext ----------------------------
(***************************************************************************)
(* Small instances of AfbContext: two requests that may share a session,   *)
(* or be a request and its subcall, with at most one websocket.            *)
(***************************************************************************)
EXTENDS AfbContext, TLC

Verb(fs, l) == [flags |-> fs, loa |-> l]

(* Every flag, some of them together.                                      *)
MCVerbs ==
    {Verb({}, 0), Verb({"create"}, 0), Verb({"close"}, 0),
     Verb({"renew", "loa_le"}, 0), Verb({"check", "loa_ge"}, 1)}

MCSymmetry == Permutations(Contexts) \cup Permutations(Uuids)
                \cup Permutations(Values)
=============================================================================
