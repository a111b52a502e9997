--------------------------- MODULE SessionProofs ---------------------------
(***************************************************************************)
(* Proofs about the users of the sessions: the contexts of the requests,   *)
(* the services and the tic-tac-toe binding, for every set of requests, of *)
(* websockets, of verbs, of bindings, of clients and of boards and every   *)
(* size of the store.  The first part is about the operations of the       *)
(* store, the second one about the contexts, where IInv (module            *)
(* AfbContext) is inductive, the third one about the services, where       *)
(* ServicesIInv (module Services) is, the last one about the boards that   *)
(* sessions share, where TicTacToeInv is.                                  *)
(***************************************************************************)
EXTENDS AfbContext, Services, TicTacToe, FiniteSetTheorems, SequenceTheorems, WellFoundedInduction, TLAPS

OneMore(n, s) == [n EXCEPT ![s] = @ + 1]
OneLess(n, s) == [n EXCEPT ![s] = @ - 1]

(* Changing one session.                                                   *)
LEMMA PutSound ==
    ASSUME NEW st, NEW n, Sound(st, n), NEW s \in Slots, NEW m \in [Slots -> Nat],
           \A i \in Slots \ {s} : m[i] = n[i],
           NEW r, \/ r = NoSession /\ m[s] = 0
                  \/ /\ r \in Sessions /\ r.refcount = m[s]
                     /\ IsOpen(r) \/ m[s] > 0
    PROVE  Sound(Put(st, s, r), m)
<1>1. Put(st, s, r) \in Stores
  BY DEF Put, Stores, Sound
<1>2. \A i \in Slots : Put(st, s, r)[i] = IF i = s THEN r ELSE st[i]
  BY DEF Put
<1>. QED  BY <1>1, <1>2, SlotAssumption DEF Sound

LEMMA MoreLess ==
    ASSUME NEW n \in [Slots -> Nat], NEW s \in Slots
    PROVE  /\ OneMore(n, s) \in [Slots -> Nat]
           /\ OneMore(n, s)[s] = n[s] + 1
           /\ \A i \in Slots \ {s} : OneMore(n, s)[i] = n[i]
           /\ n[s] > 0 => /\ OneLess(n, s) \in [Slots -> Nat]
                          /\ OneLess(n, s)[s] = n[s] - 1
           /\ \A i \in Slots \ {s} : OneLess(n, s)[i] = n[i]
BY DEF OneMore, OneLess

(* A session of the store.                                                 *)
LEMMA SessionInStore ==
    ASSUME NEW st, NEW n, Sound(st, n), NEW s \in Slots, st[s] # NoSession
    PROVE  /\ st[s] \in Sessions /\ st[s].refcount = n[s]
           /\ IsOpen(st[s]) \/ n[s] > 0
           /\ n[s] \in Nat
BY DEF Sound, Stores

LEMMA AddRefSound ==
    ASSUME NEW st, NEW n, Sound(st, n), NEW s \in Slots, st[s] # NoSession
    PROVE  Sound(ctxClientAddRef(st, s), OneMore(n, s))
<1>1. n \in [Slots -> Nat]
  BY DEF Sound
<1>2. st[s] \in Sessions /\ st[s].refcount = n[s] /\ n[s] \in Nat
  BY SessionInStore
<1> DEFINE r == [st[s] EXCEPT !.refcount = @ + 1]
<1>3. r \in Sessions /\ r.refcount = n[s] + 1
  <2>1. n[s] + 1 \in Nat
    BY <1>2
  <2>. QED  BY <1>2, <2>1 DEF Sessions
<1> HIDE DEF r
<1>4. Sound(Put(st, s, r), OneMore(n, s))
  BY <1>1, <1>2, <1>3, MoreLess, PutSound
<1>. QED  BY <1>4 DEF ctxClientAddRef, r

LEMMA UnrefSound ==
    ASSUME NEW st, NEW n, Sound(st, n), NEW s \in Slots, n[s] > 0
    PROVE  Sound(ctxClientUnref(st, s), OneLess(n, s))
<1>1. n \in [Slots -> Nat] /\ st[s] # NoSession
  BY DEF Sound
<1>2. st[s] \in Sessions /\ st[s].refcount = n[s] /\ n[s] \in Nat
  BY <1>1, SessionInStore
<1>3. /\ OneLess(n, s) \in [Slots -> Nat] /\ OneLess(n, s)[s] = n[s] - 1
      /\ \A i \in Slots \ {s} : OneLess(n, s)[i] = n[i]
  BY <1>1, MoreLess
<1>4. CASE st[s].refcount = 1 /\ ~IsOpen(st[s])
  <2>1. ctxClientUnref(st, s) = Put(st, s, NoSession)
    BY <1>4 DEF ctxClientUnref
  <2>2. OneLess(n, s)[s] = 0
    BY <1>2, <1>3, <1>4
  <2>. QED  BY <1>3, <2>1, <2>2, PutSound
<1>5. CASE ~(st[s].refcount = 1 /\ ~IsOpen(st[s]))
  <2> DEFINE r == [st[s] EXCEPT !.refcount = @ - 1]
  <2>1. n[s] - 1 \in Nat
    BY <1>2
  <2>2. r \in Sessions /\ r.refcount = n[s] - 1 /\ r.uuid = st[s].uuid
    BY <1>2, <2>1 DEF Sessions
  <2>3. IsOpen(r) \/ n[s] - 1 > 0
    BY <1>2, <1>5, <2>2 DEF IsOpen
  <2>4. ctxClientUnref(st, s) = Put(st, s, r)
    BY <1>5 DEF ctxClientUnref
  <2> HIDE DEF r
  <2>. QED  BY <1>3, <2>2, <2>3, <2>4, PutSound
<1>. QED  BY <1>4, <1>5

(* Closing frees the session that nobody holds.                            *)
LEMMA CloseSound ==
    ASSUME NEW st, NEW n, Sound(st, n), NEW s \in Slots, st[s] # NoSession
    PROVE  Sound(ctxClientClose(st, s), n)
<1>1. n \in [Slots -> Nat]
  BY DEF Sound
<1>2. st[s] \in Sessions /\ st[s].refcount = n[s] /\ n[s] \in Nat
  BY SessionInStore
<1>3. CASE ~IsOpen(st[s])
  BY <1>3 DEF ctxClientClose
<1>4. CASE IsOpen(st[s]) /\ st[s].refcount = 0
  <2>1. ctxClientClose(st, s) = Put(st, s, NoSession)
    BY <1>4 DEF ctxClientClose
  <2>. QED  BY <1>1, <1>2, <1>4, <2>1, PutSound
<1>5. CASE IsOpen(st[s]) /\ st[s].refcount # 0
  <2> DEFINE r == [st[s] EXCEPT !.uuid = Empty, !.values = [a \in Apis |-> NULL]]
  <2>1. ctxClientClose(st, s) = Put(st, s, r)
    BY <1>5 DEF ctxClientClose
  <2>2. r \in Sessions /\ r.refcount = n[s]
    BY <1>2 DEF Sessions
  <2> HIDE DEF r
  <2>. QED  BY <1>1, <1>2, <1>5, <2>1, <2>2, PutSound
<1>. QED  BY <1>3, <1>4, <1>5

LEMMA CleanUpSound ==
    ASSUME NEW st, NEW n, Sound(st, n)
    PROVE  Sound(ctxStoreCleanUp(st), n)
<1> DEFINE cl == ctxStoreCleanUp(st)
<1>1. cl = [s \in Slots |-> cl[s]]
  BY DEF ctxStoreCleanUp
<1>2. ASSUME NEW s \in Slots
      PROVE  cl[s] = st[s] \/ (st[s] # NoSession /\ cl[s] = ctxClientClose(st, s)[s])
  BY DEF ctxStoreCleanUp, Used
<1>3. ASSUME NEW s \in Slots
      PROVE  /\ cl[s] \in Sessions \cup {NoSession}
             /\ cl[s] = NoSession => n[s] = 0
             /\ cl[s] # NoSession => /\ cl[s].refcount = n[s]
                                     /\ IsOpen(cl[s]) \/ n[s] > 0
  <2>1. CASE cl[s] = st[s]
    BY <2>1 DEF Sound, Stores
  <2>2. CASE st[s] # NoSession /\ cl[s] = ctxClientClose(st, s)[s]
    <3>1. Sound(ctxClientClose(st, s), n)
      BY <2>2, CloseSound
    <3>. QED  BY <2>2, <3>1 DEF Sound, Stores
  <2>. QED  BY <1>2, <2>1, <2>2
<1>4. n \in [Slots -> Nat]
  BY DEF Sound
<1> HIDE DEF cl
<1>5. cl \in Stores
  BY <1>1, <1>3 DEF Stores
<1>6. Sound(cl, n)
  BY <1>3, <1>4, <1>5 DEF Sound
<1>. QED  BY <1>6 DEF cl

LEMMA SetLOASound ==
    ASSUME NEW st, NEW n, Sound(st, n), NEW s \in Slots, st[s] # NoSession, NEW loa \in 0..7
    PROVE  Sound(ctxClientSetLOA(st, s, loa), n)
<1> DEFINE r == [st[s] EXCEPT !.loa = loa]
<1>1. /\ n \in [Slots -> Nat] /\ st[s] \in Sessions /\ st[s].refcount = n[s]
      /\ IsOpen(st[s]) \/ n[s] > 0
  BY SessionInStore DEF Sound
<1>2. r \in Sessions /\ r.refcount = n[s] /\ r.uuid = st[s].uuid
  BY <1>1 DEF Sessions
<1> HIDE DEF r
<1>3. Sound(Put(st, s, r), n)
  BY <1>1, <1>2, PutSound DEF IsOpen
<1>. QED  BY <1>3 DEF ctxClientSetLOA, r

LEMMA ValueSetSound ==
    ASSUME NEW st, NEW n, Sound(st, n), NEW s \in Slots, st[s] # NoSession,
           NEW a \in Apis, NEW v \in Values \cup {NULL}
    PROVE  Sound(ctxClientValueSet(st, s, a, v), n)
<1> DEFINE r == [st[s] EXCEPT !.values[a] = v]
<1>1. /\ n \in [Slots -> Nat] /\ st[s] \in Sessions /\ st[s].refcount = n[s]
      /\ IsOpen(st[s]) \/ n[s] > 0
  BY SessionInStore DEF Sound
<1>2. r \in Sessions /\ r.refcount = n[s] /\ r.uuid = st[s].uuid
  BY <1>1 DEF Sessions
<1> HIDE DEF r
<1>3. Sound(Put(st, s, r), n)
  BY <1>1, <1>2, PutSound DEF IsOpen
<1>. QED  BY <1>3 DEF ctxClientValueSet, r

LEMMA TokenNewSound ==
    ASSUME NEW st, NEW n, Sound(st, n), NEW s \in Slots, st[s] # NoSession,
           now \in 0..MaxTime, lastToken \in 1..MaxToken, lastToken < MaxToken
    PROVE  Sound(ctxTokenNew(st, s), n)
<1> DEFINE e == IF st[s].timeout = 0 THEN st[s].expiration ELSE now + st[s].timeout
           r == [st[s] EXCEPT !.token = lastToken + 1, !.expiration = e]
<1>1. /\ n \in [Slots -> Nat] /\ st[s] \in Sessions /\ st[s].refcount = n[s]
      /\ IsOpen(st[s]) \/ n[s] > 0
  BY SessionInStore DEF Sound
<1>2. st[s].timeout \in {0, Timeout} /\ st[s].expiration \in 0..Never
  BY <1>1 DEF Sessions
<1>3. e \in 0..Never /\ lastToken + 1 \in Tokens
  BY <1>2, BoundAssumption, StoreAssumption DEF Never, Tokens
<1> HIDE DEF e
<1>4. r \in Sessions /\ r.refcount = n[s] /\ r.uuid = st[s].uuid
  BY <1>1, <1>3 DEF Sessions
<1> HIDE DEF r
<1>5. Sound(Put(st, s, r), n)
  BY <1>1, <1>4, PutSound DEF IsOpen
<1>. QED  BY <1>5 DEF ctxTokenNew, r, e

(* The first of a set of numbers, of slots.                                *)
LEMMA FirstOf ==
    ASSUME NEW S, S \subseteq Nat, S # {}
    PROVE  First(S) \in S
<1>1. PICK x \in S : \A y \in S : ~(<<y, x>> \in OpToRel(<, Nat))
  BY NatLessThanWellFounded, WFMin, Zenon
<1>2. \A y \in S : y \in Nat /\ x \in Nat /\ ~(y < x)
  BY <1>1 DEF OpToRel
<1>3. \A y \in S : x <= y
  BY <1>2
<1>. QED  BY <1>3 DEF First

LEMMA FirstIsIn ==
    ASSUME NEW S \in SUBSET Slots, S # {}
    PROVE  First(S) \in S
<1>1. S \subseteq Nat
  BY StoreAssumption DEF Slots
<1>. QED  BY <1>1, FirstOf

(* The session found or created is held once more.                         *)
Got(g, n) ==
    /\ g.created \in BOOLEAN
    /\ g.session \in Slots \cup {0}
    /\ g.session = 0 => Sound(g.store, n)
    /\ g.session # 0 => /\ Sound(g.store, OneMore(n, g.session))
                        /\ g.store[g.session] # NoSession

LEMMA NewContextSound ==
    ASSUME NEW st, NEW n, Sound(st, n), NEW u \in Uuids \cup {Empty, LongUuid, NULL},
           NEW t \in {0, Timeout}, now \in 0..MaxTime, NEW g \in new_context(st, u, t)
    PROVE  Got(g, n)
<1> DEFINE free == Slots \ Used(st)
           ids == IF u = NULL THEN {w \in Uuids : Matching(st, w) = {}} ELSE {u}
           f == First(free)
           New(w) == [uuid |-> w, token |-> InitToken, loa |-> 0,
                      timeout |-> t,
                      expiration |-> Expiration(t),
                      refcount |-> 1,
                      values |-> [a \in Apis |-> NULL]]
<1>1. CASE u = LongUuid \/ free = {}
  <2>1. g = [store |-> st, session |-> 0, created |-> TRUE]
    BY <1>1 DEF new_context
  <2>. QED  BY <2>1, StoreAssumption DEF Got, Slots
<1>2. CASE ~(u = LongUuid \/ free = {})
  <2>1. PICK w \in ids : g = [store |-> Put(st, f, New(w)), session |-> f, created |-> TRUE]
    BY <1>2 DEF new_context
  <2>2. f \in free
    BY <1>2, FirstIsIn
  <2>3. f \in Slots /\ st[f] = NoSession /\ f # 0
    BY <2>2, StoreAssumption DEF Used, Slots
  <2>4. n \in [Slots -> Nat] /\ n[f] = 0
    BY <2>3 DEF Sound
  <2>5. w \in Uuids \cup {Empty}
    BY <1>2, <2>1
  <2>6. Expiration(t) \in 0..Never /\ InitToken \in Tokens
    BY BoundAssumption, StoreAssumption, TokenAssumption DEF Expiration, Never, Tokens, NoToken
  <2>7. New(w) \in Sessions /\ New(w).refcount = 1
    BY <2>5, <2>6 DEF Sessions
  <2> HIDE DEF New, f
  <2>8. /\ OneMore(n, f) \in [Slots -> Nat] /\ OneMore(n, f)[f] = 1
        /\ \A i \in Slots \ {f} : OneMore(n, f)[i] = n[i]
    BY <2>3, <2>4, MoreLess
  <2>9. Sound(Put(st, f, New(w)), OneMore(n, f))
    BY <2>3, <2>7, <2>8, PutSound
  <2>10. Put(st, f, New(w))[f] # NoSession
    BY <2>3, <2>7, SlotAssumption DEF Put
  <2>. QED  BY <2>1, <2>3, <2>9, <2>10 DEF Got
<1>. QED  BY <1>1, <1>2

LEMMA GetSessionSound ==
    ASSUME NEW n, Sound(store, n), NEW u \in Uuids \cup {Empty, LongUuid, NULL},
           now \in 0..MaxTime, NEW g \in ctxClientGetSession(u)
    PROVE  Got(g, n)
<1> DEFINE st == ctxStoreCleanUp(store)
           found == Matching(st, u)
           f == First(found)
<1>1. Sound(st, n)
  BY CleanUpSound
<1>2. CASE found = {}
  BY <1>1, <1>2, NewContextSound DEF ctxClientGetSession
<1>3. CASE found # {}
  <2>1. g = [store |-> ctxClientAddRef(st, f), session |-> f, created |-> FALSE]
    BY <1>3 DEF ctxClientGetSession
  <2>2. found \in SUBSET Slots
    BY DEF Matching, Used
  <2>3. f \in found
    BY <1>3, <2>2, FirstIsIn
  <2>4. f \in Slots /\ st[f] # NoSession /\ f # 0
    BY <2>3, StoreAssumption DEF Matching, Used, Slots
  <2> HIDE DEF st, f
  <2>5. Sound(ctxClientAddRef(st, f), OneMore(n, f))
    BY <1>1, <2>4, AddRefSound
  <2>6. ctxClientAddRef(st, f)[f] # NoSession
    <3>1. n[f] \in Nat
      BY <1>1, <2>4, SessionInStore
    <3>2. OneMore(n, f)[f] # 0
      BY <1>1, <2>4, <3>1, MoreLess DEF Sound
    <3>. QED  BY <2>4, <2>5, <3>2 DEF Sound
  <2>. QED  BY <2>1, <2>4, <2>5, <2>6 DEF Got
<1>. QED  BY <1>2, <1>3

-----------------------------------------------------------------------------
(* The contexts one by one.                                                *)

Touches(x) == Has(x, "refreshing") \/ Has(x, "loa_changing")

(* y is x after operations of afb-context.c that do not ask more than its  *)
(* token allows.                                                           *)
Grows(x, y) ==
    /\ y \in ContextStates
    /\ y.phase = x.phase /\ y.session = x.session
    /\ y.root = x.root /\ y.parent = x.parent /\ y.socket = x.socket
    /\ Has(y, "validated") <=> Has(x, "validated")
    /\ Touches(y) => Touches(x) \/ Has(x, "validated")

LEMMA GrowsTrans ==
    ASSUME NEW x, NEW y, NEW z, Grows(x, y), Grows(y, z)
    PROVE  Grows(x, z)
BY DEF Grows

LEMMA GrowsRefl ==
    ASSUME NEW x \in ContextStates
    PROVE  Grows(x, x)
BY DEF Grows

(* A new set of flags.                                                     *)
LEMMA FlagsGrow ==
    ASSUME NEW x \in ContextStates, NEW fs \in SUBSET Flags,
           "validated" \in fs <=> Has(x, "validated"),
           "refreshing" \in fs \/ "loa_changing" \in fs => Touches(x) \/ Has(x, "validated")
    PROVE  Grows(x, [x EXCEPT !.flags = fs])
<1> DEFINE y == [x EXCEPT !.flags = fs]
<1>1. /\ y \in ContextStates /\ y.flags = fs
      /\ y.phase = x.phase /\ y.session = x.session
      /\ y.root = x.root /\ y.parent = x.parent /\ y.socket = x.socket
  BY DEF ContextStates
<1> HIDE DEF y
<1>2. Grows(x, y)
  BY <1>1 DEF Grows, Has, Touches
<1>. QED  BY <1>2 DEF y

LEMMA ContextFlags ==
    ASSUME NEW x \in ContextStates
    PROVE  x.flags \in SUBSET Flags
BY DEF ContextStates

LEMMA WithGrows ==
    ASSUME NEW x \in ContextStates, NEW fs \in SUBSET Flags,
           "validated" \in fs => Has(x, "validated"),
           "refreshing" \in fs \/ "loa_changing" \in fs => Has(x, "validated")
    PROVE  Grows(x, With(x, fs))
<1> DEFINE gs == x.flags \cup fs
<1>1. gs \in SUBSET Flags
  BY ContextFlags
<1>2. /\ "validated" \in gs <=> Has(x, "validated")
      /\ "refreshing" \in gs \/ "loa_changing" \in gs => Touches(x) \/ Has(x, "validated")
  BY DEF Has, Touches
<1>3. With(x, fs) = [x EXCEPT !.flags = gs]
  BY DEF With
<1> HIDE DEF gs
<1>. QED  BY <1>1, <1>2, <1>3, FlagsGrow

LEMMA ChangeLoaGrows ==
    ASSUME NEW x \in ContextStates, NEW loa \in Nat
    PROVE  Grows(x, afb_context_change_loa(x, loa))
<1>1. CASE ~Has(x, "validated") \/ loa > 7
  BY <1>1, GrowsRefl DEF afb_context_change_loa
<1>2. CASE ~(~Has(x, "validated") \/ loa > 7) /\ loa = x.loa_in
  <2>1. afb_context_change_loa(x, loa) = [x EXCEPT !.flags = x.flags \ {"loa_changing"}]
    BY <1>2 DEF afb_context_change_loa
  <2> DEFINE gs == x.flags \ {"loa_changing"}
  <2>2. gs \in SUBSET Flags /\ ("validated" \in gs <=> Has(x, "validated"))
    BY ContextFlags DEF Has
  <2> HIDE DEF gs
  <2>3. Grows(x, [x EXCEPT !.flags = gs])
    BY <1>2, <2>2, FlagsGrow
  <2>. QED  BY <2>1, <2>3 DEF gs
<1>3. CASE ~(~Has(x, "validated") \/ loa > 7) /\ loa # x.loa_in
  <2> DEFINE w == With(x, {"loa_changing"})
             y == [w EXCEPT !.loa_out = loa]
  <2>1. afb_context_change_loa(x, loa) = y
    BY <1>3 DEF afb_context_change_loa
  <2>2. Grows(x, w)
    BY <1>3, WithGrows DEF Flags
  <2> HIDE DEF w
  <2>3. w \in ContextStates /\ loa \in 0..7
    BY <1>3, <2>2 DEF Grows
  <2>4. /\ y \in ContextStates /\ y.flags = w.flags
        /\ y.phase = w.phase /\ y.session = w.session
        /\ y.root = w.root /\ y.parent = w.parent /\ y.socket = w.socket
    BY <2>3 DEF ContextStates
  <2> HIDE DEF y
  <2>5. Grows(w, y)
    BY <2>4 DEF Grows, Has, Touches
  <2>. QED  BY <2>1, <2>2, <2>5, GrowsTrans
<1>. QED  BY <1>1, <1>2, <1>3

(* What the flags of a verb prepare, when the token is valid.              *)
LEMMA PreparedGrows ==
    ASSUME NEW x \in ContextStates, NEW v \in Verbs, NeedsToken(v) => Has(x, "validated")
    PROVE  Grows(x, Prepared(x, v))
<1> DEFINE y == IF "create" \in v.flags
                THEN With(afb_context_change_loa(x, 1), {"refreshing"}) ELSE x
           z == IF "renew" \in v.flags THEN With(y, {"refreshing"}) ELSE y
<1>1. v.flags # {} => Has(x, "validated")
  BY DEF NeedsToken
<1>2. Grows(x, y)
  <2>1. CASE "create" \in v.flags
    <3>1. Grows(x, afb_context_change_loa(x, 1))
      BY ChangeLoaGrows
    <3> DEFINE w == afb_context_change_loa(x, 1)
    <3>2. y = With(w, {"refreshing"})
      BY <2>1
    <3> HIDE DEF w
    <3>3. w \in ContextStates /\ Has(w, "validated")
      BY <1>1, <2>1, <3>1 DEF Grows, w
    <3>4. Grows(w, With(w, {"refreshing"}))
      BY <3>3, WithGrows DEF Flags
    <3>. QED  BY <3>1, <3>2, <3>4, GrowsTrans DEF w
  <2>2. CASE "create" \notin v.flags
    BY <2>2, GrowsRefl
  <2>. QED  BY <2>1, <2>2
<1> HIDE DEF y
<1>3. Grows(x, z)
  <2>1. CASE "renew" \in v.flags
    <3>1. y \in ContextStates /\ Has(y, "validated")
      BY <1>1, <1>2, <2>1 DEF Grows
    <3>2. Grows(y, With(y, {"refreshing"}))
      BY <3>1, WithGrows DEF Flags
    <3>. QED  BY <1>2, <2>1, <3>2, GrowsTrans
  <2>2. CASE "renew" \notin v.flags
    BY <1>2, <2>2
  <2>. QED  BY <2>1, <2>2
<1> HIDE DEF z
<1>4. Prepared(x, v) = IF "close" \in v.flags
                       THEN With(afb_context_change_loa(z, 0), {"closing"}) ELSE z
  BY DEF Prepared, y, z
<1>5. z \in ContextStates
  BY <1>3 DEF Grows
<1>6. Grows(z, afb_context_change_loa(z, 0))
  BY <1>5, ChangeLoaGrows
<1> DEFINE w == afb_context_change_loa(z, 0)
<1> HIDE DEF w
<1>7. Grows(w, With(w, {"closing"}))
  BY <1>6, WithGrows DEF Flags, Grows, w
<1>8. Grows(z, With(w, {"closing"}))
  BY <1>6, <1>7, GrowsTrans DEF w
<1>. QED  BY <1>3, <1>4, <1>8, GrowsTrans DEF w

LEMMA CallCheckGrows ==
    ASSUME NEW x \in ContextStates, NEW v \in Verbs
    PROVE  Grows(x, call_check(x, v).context) /\ call_check(x, v).ok \in BOOLEAN
<1>1. CASE NeedsToken(v) /\ ~Has(x, "validated")
  <2>1. call_check(x, v) = [ok |-> FALSE, context |-> With(x, {"closing"})]
    BY <1>1 DEF call_check
  <2>2. Grows(x, With(x, {"closing"}))
    BY WithGrows DEF Flags
  <2>. QED  BY <2>1, <2>2
<1>2. CASE NeedsToken(v) /\ Has(x, "validated") /\ "create" \in v.flags /\ x.loa_in >= 1
  <2>1. call_check(x, v) = [ok |-> FALSE, context |-> x]
    BY <1>2 DEF call_check
  <2>. QED  BY <2>1, GrowsRefl
<1>3. CASE /\ ~(NeedsToken(v) /\ ~Has(x, "validated"))
           /\ ~(NeedsToken(v) /\ Has(x, "validated") /\ "create" \in v.flags /\ x.loa_in >= 1)
  <2>1. call_check(x, v) = [ok |-> LoaFits(x, v), context |-> Prepared(x, v)]
    BY <1>3 DEF call_check
  <2>2. Grows(x, Prepared(x, v))
    BY <1>3, PreparedGrows
  <2>3. LoaFits(x, v) \in BOOLEAN
    BY DEF LoaFits
  <2>. QED  BY <2>1, <2>2, <2>3
<1>. QED  BY <1>1, <1>2, <1>3

-----------------------------------------------------------------------------
(* Counting the holders.                                                   *)

RootCount == [s \in Slots |-> Cardinality(Roots(s))]
SockCount == [s \in Slots |-> Cardinality(Socks(s))]

LEMMA CountsTyped ==
    /\ \A s \in Slots : IsFiniteSet(Roots(s)) /\ IsFiniteSet(Socks(s))
    /\ RootCount \in [Slots -> Nat]
    /\ SockCount \in [Slots -> Nat]
    /\ Holders \in [Slots -> Nat]
    /\ \A s \in Slots : Holders[s] = RootCount[s] + SockCount[s]
<1>1. \A s \in Slots : Roots(s) \in SUBSET Contexts /\ Socks(s) \in SUBSET Sockets
  BY DEF Roots, Socks
<1>2. \A s \in Slots : IsFiniteSet(Roots(s)) /\ IsFiniteSet(Socks(s))
  BY <1>1, ContextAssumption, FS_Subset
<1>3. \A s \in Slots : Cardinality(Roots(s)) \in Nat /\ Cardinality(Socks(s)) \in Nat
  BY <1>2, FS_CardinalityType
<1>. QED  BY <1>2, <1>3 DEF RootCount, SockCount, Holders

LEMMA RootJoins ==
    ASSUME NEW c, NEW s \in Slots, c \notin Roots(s), Roots(s)' = Roots(s) \cup {c},
           \A i \in Slots \ {s} : Roots(i)' = Roots(i)
    PROVE  RootCount' = OneMore(RootCount, s)
<1>1. Cardinality(Roots(s)') = Cardinality(Roots(s)) + 1
  BY CountsTyped, FS_AddElement
<1>. QED  BY <1>1 DEF RootCount, OneMore

LEMMA RootLeaves ==
    ASSUME NEW c, NEW s \in Slots, c \in Roots(s), Roots(s)' = Roots(s) \ {c},
           \A i \in Slots \ {s} : Roots(i)' = Roots(i)
    PROVE  RootCount' = OneLess(RootCount, s) /\ RootCount[s] > 0
<1>1. Cardinality(Roots(s)') = Cardinality(Roots(s)) - 1
  BY CountsTyped, FS_RemoveElement
<1>2. Cardinality(Roots(s)) # 0 /\ Cardinality(Roots(s)) \in Nat
  BY CountsTyped, FS_EmptySet, FS_CardinalityType
<1>3. RootCount' = OneLess(RootCount, s)
  BY <1>1 DEF RootCount, OneLess
<1>4. RootCount[s] > 0
  BY <1>2 DEF RootCount
<1>. QED  BY <1>3, <1>4

LEMMA SockJoins ==
    ASSUME NEW h, NEW s \in Slots, h \notin Socks(s), Socks(s)' = Socks(s) \cup {h},
           \A i \in Slots \ {s} : Socks(i)' = Socks(i)
    PROVE  SockCount' = OneMore(SockCount, s)
<1>1. Cardinality(Socks(s)') = Cardinality(Socks(s)) + 1
  BY CountsTyped, FS_AddElement
<1>. QED  BY <1>1 DEF SockCount, OneMore

LEMMA SockLeaves ==
    ASSUME NEW h, NEW s \in Slots, h \in Socks(s), Socks(s)' = Socks(s) \ {h},
           \A i \in Slots \ {s} : Socks(i)' = Socks(i)
    PROVE  SockCount' = OneLess(SockCount, s) /\ SockCount[s] > 0
<1>1. Cardinality(Socks(s)') = Cardinality(Socks(s)) - 1
  BY CountsTyped, FS_RemoveElement
<1>2. Cardinality(Socks(s)) # 0 /\ Cardinality(Socks(s)) \in Nat
  BY CountsTyped, FS_EmptySet, FS_CardinalityType
<1>3. SockCount' = OneLess(SockCount, s)
  BY <1>1 DEF SockCount, OneLess
<1>4. SockCount[s] > 0
  BY <1>2 DEF SockCount
<1>. QED  BY <1>3, <1>4

(* The holders after a step, from the two counts.                          *)
LEMMA HoldersAfter ==
    /\ RootCount' = RootCount /\ SockCount' = SockCount => Holders' = Holders
    /\ \A s \in Slots :
         /\ RootCount' = OneMore(RootCount, s) /\ SockCount' = SockCount
              => Holders' = OneMore(Holders, s)
         /\ RootCount' = OneMore(RootCount, s) /\ SockCount' = OneMore(SockCount, s)
              => Holders' = OneMore(OneMore(Holders, s), s)
         /\ RootCount' = OneLess(RootCount, s) /\ SockCount' = SockCount
              => Holders' = OneLess(Holders, s)
         /\ RootCount' = RootCount /\ SockCount' = OneLess(SockCount, s)
              => Holders' = OneLess(Holders, s)
         /\ \A r \in Slots :
              RootCount' = OneLess(RootCount, r) /\ SockCount' = OneLess(SockCount, s)
                => Holders' = OneLess(OneLess(Holders, r), s)
<1>1. Holders = [s \in Slots |-> RootCount[s] + SockCount[s]]
  BY DEF Holders, RootCount, SockCount
<1>2. Holders' = [s \in Slots |-> RootCount'[s] + SockCount'[s]]
  BY DEF Holders, RootCount, SockCount
<1>3. RootCount \in [Slots -> Nat] /\ SockCount \in [Slots -> Nat]
  BY CountsTyped
<1>4. RootCount' = RootCount /\ SockCount' = SockCount => Holders' = Holders
  BY <1>1, <1>2
<1>5. ASSUME NEW s \in Slots
      PROVE  /\ RootCount' = OneMore(RootCount, s) /\ SockCount' = SockCount
                  => Holders' = OneMore(Holders, s)
             /\ RootCount' = OneMore(RootCount, s) /\ SockCount' = OneMore(SockCount, s)
                  => Holders' = OneMore(OneMore(Holders, s), s)
             /\ RootCount' = OneLess(RootCount, s) /\ SockCount' = SockCount
                  => Holders' = OneLess(Holders, s)
             /\ RootCount' = RootCount /\ SockCount' = OneLess(SockCount, s)
                  => Holders' = OneLess(Holders, s)
  BY <1>1, <1>2, <1>3 DEF OneMore, OneLess
<1>6. ASSUME NEW s \in Slots, NEW r \in Slots,
             RootCount' = OneLess(RootCount, r), SockCount' = OneLess(SockCount, s)
      PROVE  Holders' = OneLess(OneLess(Holders, r), s)
  BY <1>1, <1>2, <1>3, <1>6 DEF OneLess
<1>. QED  BY <1>4, <1>5, <1>6

-----------------------------------------------------------------------------
(* The trees of calls.                                                     *)

Trees ==
    /\ ctx \in [Contexts -> ContextStates]
    /\ FreeInv /\ RootInv /\ ParentInv
    /\ ValidatedInv /\ OnlyValidatedChange

LEMMA TreesOfIInv == ASSUME IInv PROVE Trees
BY DEF IInv, TypeOK, Trees

LEMMA IdleFacts ==
    /\ Idle.phase = "free" /\ Idle.session = 0 /\ Idle.flags = {}
    /\ Idle.root = NoContext /\ Idle.parent = NoContext /\ Idle.socket = NoSocket
    /\ Idle \in ContextStates
BY DEF Idle, ContextStates

(* Only the flags and the progress of the requests change.                 *)
LEMMA SameTrees ==
    ASSUME Trees, ctx' \in [Contexts -> ContextStates],
           \A c \in Contexts :
             /\ ctx'[c].session = ctx[c].session /\ ctx'[c].root = ctx[c].root
             /\ ctx'[c].parent = ctx[c].parent
             /\ ctx[c].phase = "free" => ctx'[c] = ctx[c]
             /\ ctx[c].phase # "free" => ctx'[c].phase # "free"
             /\ Has(ctx'[c], "validated") <=> Has(ctx[c], "validated")
             /\ Touches(ctx'[c]) => Touches(ctx[c]) \/ Has(ctx[ctx[c].root], "validated")
    PROVE  Trees' /\ RootCount' = RootCount
<1>1. FreeInv' /\ RootInv'
  BY DEF Trees, FreeInv, RootInv, IsRoot
<1>2. ParentInv'
  BY DEF Trees, ParentInv, IsRoot
<1>3. \A c \in Contexts : ctx[c].phase = "free" => ~Has(ctx[c], "validated") /\ ~Touches(ctx[c])
  BY IdleFacts DEF Trees, FreeInv, Has, Touches
<1>4. \A c \in Contexts : ctx[c].phase # "free" => ctx[c].root \in Contexts
  BY DEF Trees, RootInv
<1>5. ValidatedInv'
  BY <1>3, <1>4 DEF Trees, ValidatedInv
<1>6. OnlyValidatedChange'
  BY <1>3, <1>4 DEF Trees, OnlyValidatedChange, Touches
<1>7. \A s \in Slots : Roots(s)' = Roots(s)
  BY DEF Roots, IsRoot
<1>8. RootCount' = RootCount
  BY <1>7 DEF RootCount
<1>. QED  BY <1>1, <1>2, <1>5, <1>6, <1>8 DEF Trees

(* Nobody was called from, or by, a context that is free.                  *)
LEMMA NoneOfFree ==
    ASSUME Trees, NEW c \in Contexts, ctx[c].phase = "free"
    PROVE  /\ ctx[c] = Idle
           /\ \A d \in Contexts : ctx[d].parent # c /\ ctx[d].root # c
<1>1. ctx[c] = Idle
  BY DEF Trees, FreeInv
<1>2. ASSUME NEW d \in Contexts, ctx[d].root = c PROVE FALSE
  <2>1. ctx[d].phase # "free"
    BY <1>2, IdleFacts, ContextAssumption DEF Trees, FreeInv
  <2>. QED  BY <1>2, <2>1 DEF Trees, RootInv
<1>3. ASSUME NEW d \in Contexts, ctx[d].parent = c PROVE FALSE
  BY <1>3, ContextAssumption DEF Trees, ParentInv, IsRoot
<1>. QED  BY <1>1, <1>2, <1>3

(* A request begins.                                                       *)
LEMMA NewRoot ==
    ASSUME Trees, NEW c \in Contexts, ctx[c].phase = "free",
           NEW y \in ContextStates, ctx' = [ctx EXCEPT ![c] = y],
           y.phase # "free", y.session \in Slots, y.root = c, y.parent = NoContext,
           Touches(y) => Has(y, "validated")
    PROVE  Trees' /\ RootCount' = OneMore(RootCount, y.session)
<1>0. /\ ctx' \in [Contexts -> ContextStates]
      /\ ctx'[c] = y /\ \A d \in Contexts \ {c} : ctx'[d] = ctx[d]
  BY DEF Trees
<1>1. /\ ctx[c] = Idle /\ \A d \in Contexts : ctx[d].parent # c /\ ctx[d].root # c
  BY NoneOfFree
<1>2. FreeInv'
  BY <1>0 DEF Trees, FreeInv
<1>3. RootInv'
  BY <1>0, <1>1 DEF Trees, RootInv, IsRoot
<1>4. ParentInv'
  <2>1. \A d \in Contexts : ~IsRoot(d)' => /\ ctx'[d].parent \in Contexts
                                           /\ ctx'[ctx'[d].parent].phase # "free"
                                           /\ ctx'[d].root = ctx'[ctx'[d].parent].root
    BY <1>0, <1>1 DEF Trees, ParentInv, IsRoot
  <2>2. ASSUME NEW D \in SUBSET Contexts, \A d \in D : ctx'[d].parent \in D PROVE D = {}
    <3>1. c \notin D
      BY <1>0, <2>2, ContextAssumption
    <3>. QED  BY <1>0, <2>2, <3>1 DEF Trees, ParentInv
  <2>. QED  BY <2>1, <2>2 DEF ParentInv
<1>5. ValidatedInv'
  <2> SUFFICES ASSUME NEW d \in Contexts, Has(ctx'[d], "validated")
               PROVE  Has(ctx'[ctx'[d].root], "validated")
    BY DEF ValidatedInv
  <2>1. CASE d = c
    BY <1>0, <2>1
  <2>2. CASE d # c
    <3>1. ctx[d].phase # "free"
      BY <1>0, <2>2, IdleFacts DEF Trees, FreeInv, Has
    <3>. QED  BY <1>0, <1>1, <2>2, <3>1 DEF Trees, ValidatedInv, RootInv
  <2>. QED  BY <2>1, <2>2
<1>6. OnlyValidatedChange'
  <2> SUFFICES ASSUME NEW d \in Contexts, Touches(ctx'[d])
               PROVE  Has(ctx'[ctx'[d].root], "validated")
    BY DEF OnlyValidatedChange, Touches
  <2>1. CASE d = c
    BY <1>0, <2>1
  <2>2. CASE d # c
    <3>1. ctx[d].phase # "free"
      BY <1>0, <2>2, IdleFacts DEF Trees, FreeInv, Has, Touches
    <3>. QED  BY <1>0, <1>1, <2>2, <3>1 DEF Trees, OnlyValidatedChange, RootInv, Touches
  <2>. QED  BY <2>1, <2>2
<1>7. RootCount' = OneMore(RootCount, y.session)
  <2>1. /\ c \notin Roots(y.session) /\ Roots(y.session)' = Roots(y.session) \cup {c}
        /\ \A i \in Slots \ {y.session} : Roots(i)' = Roots(i)
    <3>1. ctx[c].session \notin Slots
      BY <1>1, IdleFacts, StoreAssumption DEF Slots
    <3>. QED  BY <1>0, <3>1 DEF Roots, IsRoot
  <2>. QED  BY <2>1, RootJoins
<1>. QED  BY <1>0, <1>2, <1>3, <1>4, <1>5, <1>6, <1>7 DEF Trees

(* A subcall begins.                                                       *)
LEMMA NewSub ==
    ASSUME Trees, NEW c \in Contexts, ctx[c].phase = "free",
           NEW p \in Contexts, ctx[p].phase # "free",
           NEW y \in ContextStates, ctx' = [ctx EXCEPT ![c] = y],
           y.phase # "free", y.session = ctx[p].session, y.root = ctx[p].root, y.parent = p,
           Has(y, "validated") => Has(ctx[p], "validated"),
           Touches(y) => Touches(ctx[p]) \/ Has(ctx[p], "validated")
    PROVE  Trees' /\ RootCount' = RootCount
<1>0. /\ ctx' \in [Contexts -> ContextStates]
      /\ ctx'[c] = y /\ \A d \in Contexts \ {c} : ctx'[d] = ctx[d]
      /\ p # c
  BY DEF Trees
<1>1. /\ ctx[c] = Idle /\ \A d \in Contexts : ctx[d].parent # c /\ ctx[d].root # c
  BY NoneOfFree
<1>2. FreeInv'
  BY <1>0 DEF Trees, FreeInv
<1>3. RootInv'
  BY <1>0, <1>1, ContextAssumption DEF Trees, RootInv, IsRoot
<1>4. ParentInv'
  <2>1. \A d \in Contexts : ~IsRoot(d)' => /\ ctx'[d].parent \in Contexts
                                           /\ ctx'[ctx'[d].parent].phase # "free"
                                           /\ ctx'[d].root = ctx'[ctx'[d].parent].root
    BY <1>0, <1>1 DEF Trees, ParentInv, IsRoot
  <2>2. ASSUME NEW D \in SUBSET Contexts, \A d \in D : ctx'[d].parent \in D PROVE D = {}
    <3> DEFINE E == D \ {c}
    <3>1. \A d \in E : ctx[d].parent \in E
      BY <1>0, <1>1, <2>2
    <3>2. E = {}
      BY <3>1 DEF Trees, ParentInv
    <3>. QED  BY <1>0, <2>2, <3>2
  <2>. QED  BY <2>1, <2>2 DEF ParentInv
<1>5. ctx[p].root \in Contexts /\ ctx[p].root # c
  BY <1>1 DEF Trees, RootInv
<1>6. ValidatedInv'
  <2> SUFFICES ASSUME NEW d \in Contexts, Has(ctx'[d], "validated")
               PROVE  Has(ctx'[ctx'[d].root], "validated")
    BY DEF ValidatedInv
  <2>1. CASE d = c
    BY <1>0, <1>5, <2>1 DEF Trees, ValidatedInv
  <2>2. CASE d # c
    <3>1. ctx[d].phase # "free"
      BY <1>0, <2>2, IdleFacts DEF Trees, FreeInv, Has
    <3>. QED  BY <1>0, <1>1, <2>2, <3>1 DEF Trees, ValidatedInv, RootInv
  <2>. QED  BY <2>1, <2>2
<1>7. OnlyValidatedChange'
  <2> SUFFICES ASSUME NEW d \in Contexts, Touches(ctx'[d])
               PROVE  Has(ctx'[ctx'[d].root], "validated")
    BY DEF OnlyValidatedChange, Touches
  <2>1. CASE d = c
    BY <1>0, <1>5, <2>1 DEF Trees, ValidatedInv, OnlyValidatedChange, Touches
  <2>2. CASE d # c
    <3>1. ctx[d].phase # "free"
      BY <1>0, <2>2, IdleFacts DEF Trees, FreeInv, Has, Touches
    <3>. QED  BY <1>0, <1>1, <2>2, <3>1 DEF Trees, OnlyValidatedChange, RootInv, Touches
  <2>. QED  BY <2>1, <2>2
<1>8. RootCount' = RootCount
  <2>1. \A i \in Slots : Roots(i)' = Roots(i)
    <3>1. ctx[c].session \notin Slots
      BY <1>1, IdleFacts, StoreAssumption DEF Slots
    <3>. QED  BY <1>0, <3>1, ContextAssumption DEF Roots, IsRoot
  <2>. QED  BY <2>1 DEF RootCount
<1>. QED  BY <1>0, <1>2, <1>3, <1>4, <1>6, <1>7, <1>8 DEF Trees

(* A request or a subcall without subcalls ends.                           *)
LEMMA Ending ==
    ASSUME Trees, NEW c \in Contexts, ctx[c].phase # "free", Children(c) = {},
           ctx' = [ctx EXCEPT ![c] = Idle]
    PROVE  /\ Trees'
           /\ IsRoot(c) => /\ RootCount' = OneLess(RootCount, ctx[c].session)
                           /\ RootCount[ctx[c].session] > 0
           /\ ~IsRoot(c) => RootCount' = RootCount
<1>0. /\ ctx' \in [Contexts -> ContextStates]
      /\ ctx'[c] = Idle /\ \A d \in Contexts \ {c} : ctx'[d] = ctx[d]
  BY IdleFacts DEF Trees
<1>1. \A d \in Contexts : ctx[d].parent # c
  BY DEF Children
<1>2. \A d \in Contexts \ {c} : ctx[d].phase # "free" => ctx[d].root # c
  <2>1. CASE IsRoot(c)
    <3> DEFINE D == {d \in Contexts \ {c} : ctx[d].phase # "free" /\ ctx[d].root = c}
    <3>1. ASSUME NEW d \in D PROVE ctx[d].parent \in D
      <4>1. ~IsRoot(d)
        BY <3>1 DEF Trees, RootInv
      <4>. QED  BY <1>1, <3>1, <4>1 DEF Trees, ParentInv
    <3>2. D = {}
      BY <3>1 DEF Trees, ParentInv
    <3>. QED  BY <3>2
  <2>2. CASE ~IsRoot(c)
    BY <2>2 DEF Trees, RootInv
  <2>. QED  BY <2>1, <2>2
<1>3. FreeInv'
  BY <1>0 DEF Trees, FreeInv
<1>4. RootInv'
  BY <1>0, <1>2, IdleFacts DEF Trees, RootInv, IsRoot
<1>5. ParentInv'
  <2>1. \A d \in Contexts : ~IsRoot(d)' => /\ ctx'[d].parent \in Contexts
                                           /\ ctx'[ctx'[d].parent].phase # "free"
                                           /\ ctx'[d].root = ctx'[ctx'[d].parent].root
    BY <1>0, <1>1, IdleFacts DEF Trees, ParentInv, IsRoot
  <2>2. ASSUME NEW D \in SUBSET Contexts, \A d \in D : ctx'[d].parent \in D PROVE D = {}
    <3>1. c \notin D
      BY <1>0, <2>2, IdleFacts, ContextAssumption
    <3>. QED  BY <1>0, <2>2, <3>1 DEF Trees, ParentInv
  <2>. QED  BY <2>1, <2>2 DEF ParentInv
<1>6. ValidatedInv'
  <2> SUFFICES ASSUME NEW d \in Contexts, Has(ctx'[d], "validated")
               PROVE  Has(ctx'[ctx'[d].root], "validated")
    BY DEF ValidatedInv
  <2>1. d # c
    BY <1>0, IdleFacts DEF Has
  <2>2. ctx[d].phase # "free"
    BY <1>0, <2>1, IdleFacts DEF Trees, FreeInv, Has
  <2>. QED  BY <1>0, <1>2, <2>1, <2>2 DEF Trees, ValidatedInv, RootInv
<1>7. OnlyValidatedChange'
  <2> SUFFICES ASSUME NEW d \in Contexts, Touches(ctx'[d])
               PROVE  Has(ctx'[ctx'[d].root], "validated")
    BY DEF OnlyValidatedChange, Touches
  <2>1. d # c
    BY <1>0, IdleFacts DEF Has, Touches
  <2>2. ctx[d].phase # "free"
    BY <1>0, <2>1, IdleFacts DEF Trees, FreeInv, Has, Touches
  <2>. QED  BY <1>0, <1>2, <2>1, <2>2 DEF Trees, OnlyValidatedChange, RootInv, Touches
<1>8. Idle.session \notin Slots
  BY IdleFacts, StoreAssumption DEF Slots
<1>9. ASSUME IsRoot(c) PROVE /\ RootCount' = OneLess(RootCount, ctx[c].session)
                             /\ RootCount[ctx[c].session] > 0
  <2>1. ctx[c].session \in Slots
    BY DEF Trees, RootInv
  <2> PICK s \in Slots : s = ctx[c].session
    BY <2>1
  <2>2. /\ c \in Roots(s) /\ Roots(s)' = Roots(s) \ {c}
        /\ \A i \in Slots \ {s} : Roots(i)' = Roots(i)
    BY <1>0, <1>8, <1>9 DEF Roots, IsRoot
  <2>3. RootCount' = OneLess(RootCount, s) /\ RootCount[s] > 0
    BY <2>2, RootLeaves
  <2>. QED  BY <2>3
<1>10. ASSUME ~IsRoot(c) PROVE RootCount' = RootCount
  <2>1. \A i \in Slots : Roots(i)' = Roots(i)
    BY <1>0, <1>8, <1>10 DEF Roots, IsRoot
  <2>. QED  BY <2>1 DEF RootCount
<1>. QED  BY <1>0, <1>3, <1>4, <1>5, <1>6, <1>7, <1>9, <1>10 DEF Trees

-----------------------------------------------------------------------------
(* The steps.                                                              *)

(* What is left to show of a step, once its effect on the trees of calls   *)
(* and on the holders is known.                                            *)
LEMMA Invariant ==
    ASSUME Trees', SocketInv', Sound(store', Holders'), ws' \in [Sockets -> SocketStates],
           now' \in 0..MaxTime, lastToken' \in 1..MaxToken
    PROVE  IInv'
<1>1. store' \in Stores
  BY DEF Sound
<1>2. TypeOK'
  BY <1>1 DEF TypeOK, SessionTypeOK, Trees
<1>3. Sound(store, Holders)'
  BY DEF Sound
<1>. QED  BY <1>2, <1>3 DEF IInv, Trees

LEMMA SameSocks ==
    ASSUME \A h \in Sockets : ws'[h].session = ws[h].session
    PROVE  SockCount' = SockCount
<1>1. \A s \in Slots : Socks(s)' = Socks(s)
  BY DEF Socks
<1>. QED  BY <1>1 DEF SockCount

(* A request or a websocket has its session.                               *)
LEMMA HasSession ==
    ASSUME IInv
    PROVE  /\ \A s \in Slots : Holders[s] > 0 => store[s] # NoSession
           /\ \A c \in Contexts : ctx[c].phase # "free" =>
                ctx[c].session \in Slots /\ store[ctx[c].session] # NoSession
           /\ \A h \in Sockets : ws[h].session # 0 =>
                /\ ws[h].session \in Slots /\ store[ws[h].session] # NoSession
                /\ SockCount[ws[h].session] > 0
<1>1. \A s \in Slots : Holders[s] > 0 => store[s] # NoSession
  BY DEF IInv, Sound
<1>2. ASSUME NEW c \in Contexts, ctx[c].phase # "free"
      PROVE  ctx[c].session \in Slots /\ store[ctx[c].session] # NoSession
  <2>1. /\ ctx[c].session \in Slots /\ ctx[c].root \in Contexts
        /\ ctx[c].root \in Roots(ctx[c].session)
    BY <1>2 DEF IInv, RootInv, Roots
  <2>2. PICK s \in Slots : s = ctx[c].session
    BY <2>1
  <2>3. Cardinality(Roots(s)) # 0
    BY <2>1, <2>2, CountsTyped, FS_EmptySet
  <2>4. RootCount[s] \in Nat /\ SockCount[s] \in Nat /\ RootCount[s] # 0
    BY <2>3, CountsTyped DEF RootCount
  <2>5. Holders[s] > 0
    BY <2>4, CountsTyped
  <2>. QED  BY <1>1, <2>2, <2>5
<1>3. ASSUME NEW h \in Sockets, ws[h].session # 0
      PROVE  /\ ws[h].session \in Slots /\ store[ws[h].session] # NoSession
             /\ SockCount[ws[h].session] > 0
  <2>1. ws[h].session \in Slots /\ h \in Socks(ws[h].session)
    BY <1>3 DEF IInv, TypeOK, SocketStates, Socks
  <2>2. PICK s \in Slots : s = ws[h].session
    BY <2>1
  <2>3. Cardinality(Socks(s)) # 0
    BY <2>1, <2>2, CountsTyped, FS_EmptySet
  <2>4. RootCount[s] \in Nat /\ SockCount[s] \in Nat /\ SockCount[s] # 0
    BY <2>3, CountsTyped DEF SockCount
  <2>5. Holders[s] > 0 /\ SockCount[s] > 0
    BY <2>4, CountsTyped
  <2>. QED  BY <1>1, <2>2, <2>5
<1>. QED  BY <1>1, <1>2, <1>3

(* Which context a reply leaves.                                           *)
Left(x, y, ph) ==
    /\ y \in ContextStates
    /\ y.phase = ph /\ y.session = x.session
    /\ y.root = x.root /\ y.parent = x.parent /\ y.socket = x.socket
    /\ Has(y, "validated") <=> Has(x, "validated")
    /\ Touches(y) <=> Touches(x)

LEMMA ReplyLeaves ==
    ASSUME SessionTypeOK, NEW c, NEW x \in ContextStates, x.session \in Slots,
           NEW st, NEW n, Sound(st, n), st[x.session] # NoSession,
           NEW ph \in {"replied", "answered"}, Reply(c, x, st, ph)
    PROVE  /\ Sound(store', n) /\ lastToken' \in 1..MaxToken
           /\ \E y : Left(x, y, ph) /\ ctx' = [ctx EXCEPT ![c] = y]
<1>1. Sound(store', n)
  <2>1. CASE Sends(x) /\ ~Has(x, "refreshed")
    <3>1. lastToken < MaxToken /\ store' = ctxTokenNew(st, x.session)
      BY <2>1 DEF Reply
    <3>. QED  BY <3>1, TokenNewSound DEF SessionTypeOK
  <2>2. CASE ~(Sends(x) /\ ~Has(x, "refreshed"))
    BY <2>2 DEF Reply
  <2>. QED  BY <2>1, <2>2
<1>2. lastToken' \in 1..MaxToken
  BY BoundAssumption DEF Reply, SessionTypeOK
<1>3. \E y : Left(x, y, ph) /\ ctx' = [ctx EXCEPT ![c] = y]
  <2> DEFINE w == IF Sends(x) THEN With(x, {"refreshed"}) ELSE x
             y == [w EXCEPT !.phase = ph]
  <2>1. /\ w \in ContextStates
        /\ w.session = x.session /\ w.root = x.root /\ w.parent = x.parent
        /\ w.socket = x.socket
        /\ Has(w, "validated") <=> Has(x, "validated")
        /\ Touches(w) <=> Touches(x)
    <3>1. CASE Sends(x)
      <4>1. w = With(x, {"refreshed"})
        BY <3>1
      <4>2. Grows(x, With(x, {"refreshed"}))
        BY WithGrows DEF Flags
      <4>3. With(x, {"refreshed"}).flags = x.flags \cup {"refreshed"}
        BY DEF With, ContextStates
      <4> HIDE DEF w
      <4>. QED  BY <4>1, <4>2, <4>3 DEF Grows, Touches, Has
    <3>2. CASE ~Sends(x)
      BY <3>2
    <3>. QED  BY <3>1, <3>2
  <2>2. ctx' = [ctx EXCEPT ![c] = y]
    BY DEF Reply
  <2> HIDE DEF w
  <2>3. /\ y \in ContextStates /\ y.phase = ph /\ y.flags = w.flags
        /\ y.session = w.session /\ y.root = w.root /\ y.parent = w.parent
        /\ y.socket = w.socket
    BY <2>1 DEF ContextStates
  <2> HIDE DEF y
  <2>4. Left(x, y, ph)
    BY <2>1, <2>3 DEF Left, Has, Touches
  <2>. QED  BY <2>2, <2>4
<1>. QED  BY <1>1, <1>2, <1>3

(* A verb is called, on behalf of a client.                                *)
LEMMA CallBegins ==
    ASSUME SessionTypeOK, Trees, NEW c \in Contexts, ctx[c].phase = "free",
           NEW x \in ContextStates, x.session \in Slots, x.parent = NoContext,
           ~Touches(x), NEW v \in Verbs,
           NEW st, NEW n, Sound(st, n), st[x.session] # NoSession, Call(c, x, v, st)
    PROVE  /\ Sound(store', n) /\ lastToken' \in 1..MaxToken
           /\ Trees' /\ RootCount' = OneMore(RootCount, x.session)
           /\ ctx'[c].socket = x.socket /\ \A d \in Contexts \ {c} : ctx'[d] = ctx[d]
<1> DEFINE w == [x EXCEPT !.root = c]
           r == call_check(w, v)
<1>1. /\ w \in ContextStates /\ w.session = x.session /\ w.root = c /\ w.flags = x.flags
      /\ w.parent = x.parent /\ w.socket = x.socket
  BY DEF ContextStates
<1>2. \/ /\ r.ok
         /\ ctx' = [ctx EXCEPT ![c] = [r.context EXCEPT !.phase = "running"]]
         /\ store' = st /\ lastToken' = lastToken
      \/ Reply(c, r.context, st, "answered")
  BY DEF Call
<1> HIDE DEF w
<1>3. Grows(w, r.context)
  BY <1>1, CallCheckGrows
<1> DEFINE z == r.context
<1> HIDE DEF r
<1>4. /\ z \in ContextStates /\ z.session = x.session /\ z.root = c
      /\ z.parent = NoContext /\ z.socket = x.socket
      /\ Touches(z) => Has(z, "validated")
  BY <1>1, <1>3 DEF Grows, Touches, Has
<1>5. /\ Sound(store', n) /\ lastToken' \in 1..MaxToken
      /\ \E y : /\ y \in ContextStates /\ y.phase # "free" /\ y.session = x.session
                /\ y.root = c /\ y.parent = NoContext /\ y.socket = x.socket
                /\ Touches(y) => Has(y, "validated")
                /\ ctx' = [ctx EXCEPT ![c] = y]
  <2>1. CASE /\ r.ok
             /\ ctx' = [ctx EXCEPT ![c] = [z EXCEPT !.phase = "running"]]
             /\ store' = st /\ lastToken' = lastToken
    <3> DEFINE y == [z EXCEPT !.phase = "running"]
    <3> HIDE DEF z
    <3>1. /\ y \in ContextStates /\ y.phase = "running" /\ y.session = z.session
          /\ y.root = z.root /\ y.parent = z.parent /\ y.socket = z.socket
          /\ y.flags = z.flags
      BY <1>4 DEF ContextStates
    <3>2. ctx' = [ctx EXCEPT ![c] = y] /\ store' = st /\ lastToken' = lastToken
      BY <2>1
    <3> HIDE DEF y
    <3>3. /\ y \in ContextStates /\ y.phase # "free" /\ y.session = x.session
          /\ y.root = c /\ y.parent = NoContext /\ y.socket = x.socket
          /\ Touches(y) => Has(y, "validated")
      BY <1>4, <3>1 DEF Touches, Has
    <3>4. lastToken' \in 1..MaxToken
      BY <3>2 DEF SessionTypeOK
    <3>. QED  BY <3>2, <3>3, <3>4
  <2>2. CASE Reply(c, z, st, "answered")
    <3> HIDE DEF z
    <3>1. /\ Sound(store', n) /\ lastToken' \in 1..MaxToken
          /\ \E y : Left(z, y, "answered") /\ ctx' = [ctx EXCEPT ![c] = y]
      <4>1. z \in ContextStates /\ z.session \in Slots /\ st[z.session] # NoSession
        BY <1>4
      <4>2. "answered" \in {"replied", "answered"}
        OBVIOUS
      <4>. QED  BY ONLY <2>2, <4>1, <4>2, ReplyLeaves, SessionTypeOK, Sound(st, n)
    <3>2. PICK y : Left(z, y, "answered") /\ ctx' = [ctx EXCEPT ![c] = y]
      BY <3>1
    <3>3. /\ y \in ContextStates /\ y.phase # "free" /\ y.session = x.session
          /\ y.root = c /\ y.parent = NoContext /\ y.socket = x.socket
          /\ Touches(y) => Has(y, "validated")
      BY <1>4, <3>2 DEF Left
    <3>. QED  BY <3>1, <3>2, <3>3
  <2>. QED  BY <1>2, <2>1, <2>2
<1>6. PICK y : /\ y \in ContextStates /\ y.phase # "free" /\ y.session = x.session
               /\ y.root = c /\ y.parent = NoContext /\ y.socket = x.socket
               /\ Touches(y) => Has(y, "validated")
               /\ ctx' = [ctx EXCEPT ![c] = y]
  BY <1>5
<1>7. Trees' /\ RootCount' = OneMore(RootCount, y.session)
  BY <1>6, NewRoot
<1>8. ctx'[c].socket = x.socket /\ \A d \in Contexts \ {c} : ctx'[d] = ctx[d]
  BY <1>6 DEF Trees
<1>. QED  BY <1>5, <1>6, <1>7, <1>8

(* The context of a session, before the verb is looked at.                 *)
Fresh(x, s) ==
    /\ x \in ContextStates /\ x.session = s
    /\ x.parent = NoContext /\ x.socket = NoSocket /\ ~Touches(x)

LEMMA InitFresh ==
    ASSUME NEW st, NEW n, Sound(st, n), NEW s \in Slots, st[s] # NoSession, NEW t
    PROVE  Fresh(init_context(st, s, t), s)
<1> DEFINE fs == IF t = NULL THEN {}
                 ELSE IF ctxTokenCheck(st[s], t) THEN {"validated"}
                 ELSE {"invalidated"}
           x == [Idle EXCEPT !.session = s, !.loa_in = st[s].loa, !.flags = fs]
<1>1. fs \in SUBSET Flags /\ "refreshing" \notin fs /\ "loa_changing" \notin fs
  BY DEF Flags
<1>2. st[s].loa \in 0..7
  BY SessionInStore DEF Sessions
<1>3. x = init_context(st, s, t)
  BY DEF init_context
<1> HIDE DEF fs
<1>4. /\ x \in ContextStates /\ x.session = s /\ x.flags = fs
      /\ x.parent = Idle.parent /\ x.socket = Idle.socket
  BY <1>1, <1>2, IdleFacts DEF ContextStates
<1> HIDE DEF x
<1>5. Fresh(x, s)
  BY <1>1, <1>4, IdleFacts DEF Fresh, Touches, Has
<1>. QED  BY <1>3, <1>5

LEMMA WithFresh ==
    ASSUME NEW x, NEW s, Fresh(x, s), NEW fs \in SUBSET {"created", "validated"}
    PROVE  Fresh(With(x, fs), s)
<1> DEFINE gs == x.flags \cup fs
           y == [x EXCEPT !.flags = gs]
<1>1. /\ gs \in SUBSET Flags
      /\ "refreshing" \in gs <=> Has(x, "refreshing")
      /\ "loa_changing" \in gs <=> Has(x, "loa_changing")
  BY ContextFlags DEF Fresh, Has, Flags
<1>2. y = With(x, fs)
  BY DEF With
<1> HIDE DEF gs
<1>3. /\ y \in ContextStates /\ y.session = x.session /\ y.flags = gs
      /\ y.parent = x.parent /\ y.socket = x.socket
  BY <1>1 DEF Fresh, ContextStates
<1> HIDE DEF y
<1>4. Fresh(y, s)
  BY <1>1, <1>3 DEF Fresh, Touches, Has
<1>. QED  BY <1>2, <1>4

LEMMA ConnectedFresh ==
    ASSUME NEW g, NEW n, Got(g, n), g.session # 0, NEW t
    PROVE  Fresh(Connected(g, t), g.session)
<1> DEFINE fs == IF g.created THEN {"created"} ELSE {}
<1>1. g.session \in Slots /\ Sound(g.store, OneMore(n, g.session)) /\ g.store[g.session] # NoSession
  BY DEF Got
<1>2. Fresh(init_context(g.store, g.session, t), g.session)
  BY <1>1, InitFresh
<1>3. fs \in SUBSET {"created", "validated"}
  OBVIOUS
<1>4. Connected(g, t) = With(init_context(g.store, g.session, t), fs)
  BY DEF Connected
<1> HIDE DEF fs
<1>. QED  BY <1>2, <1>3, <1>4, WithFresh

(* The parts of the invariant that the steps begin with.                   *)
LEMMA Parts ==
    ASSUME IInv
    PROVE  /\ SessionTypeOK /\ now \in 0..MaxTime /\ lastToken \in 1..MaxToken
           /\ Trees /\ SocketInv /\ Sound(store, Holders)
           /\ ws \in [Sockets -> SocketStates]
BY TreesOfIInv DEF IInv, TypeOK, SessionTypeOK

(* Nothing but the sessions changes.                                       *)
LEMMA StoreStep ==
    ASSUME IInv, ctx' = ctx, ws' = ws, Sound(store', Holders),
           now' \in 0..MaxTime, lastToken' \in 1..MaxToken
    PROVE  IInv'
<1>1. Trees' /\ RootCount' = RootCount
  BY Parts, SameTrees DEF Trees
<1>2. SockCount' = SockCount
  BY SameSocks
<1>3. Holders' = Holders
  BY <1>1, <1>2, HoldersAfter
<1>4. SocketInv'
  BY Parts DEF SocketInv
<1>. QED  BY <1>1, <1>3, <1>4, Parts, Invariant

LEMMA HttpRequestStep ==
    ASSUME IInv, NEW c \in Contexts, NEW u \in GivenUuids, NEW t, NEW v \in Verbs,
           HttpRequest(c, u, t, v)
    PROVE  IInv'
<1>1. /\ ctx[c].phase = "free" /\ ws' = ws /\ now' = now
  BY DEF HttpRequest
<1>2. PICK g \in ctxClientGetSession(u) :
         \/ /\ g.session # 0
            /\ Call(c, Connected(g, t), v, g.store)
         \/ /\ g.session = 0
            /\ store' = g.store
            /\ UNCHANGED <<ctx, lastToken>>
  BY DEF HttpRequest
<1>3. Got(g, Holders)
  BY Parts, GetSessionSound DEF GivenUuids
<1>4. CASE g.session # 0 /\ Call(c, Connected(g, t), v, g.store)
  <2> DEFINE x == Connected(g, t)
             s == g.session
  <2>1. Fresh(x, s)
    BY <1>3, <1>4, ConnectedFresh
  <2>2. s \in Slots /\ Sound(g.store, OneMore(Holders, s)) /\ g.store[s] # NoSession
    BY <1>3, <1>4 DEF Got
  <2> HIDE DEF x
  <2>3. /\ x \in ContextStates /\ x.session = s /\ x.parent = NoContext
        /\ x.socket = NoSocket /\ ~Touches(x)
    BY <2>1 DEF Fresh
  <2>4. Call(c, x, v, g.store)
    BY <1>4 DEF x
  <2> HIDE DEF s
  <2>5. /\ Sound(store', OneMore(Holders, s)) /\ lastToken' \in 1..MaxToken
        /\ Trees' /\ RootCount' = OneMore(RootCount, s)
        /\ ctx'[c].socket = NoSocket /\ \A d \in Contexts \ {c} : ctx'[d] = ctx[d]
    BY <1>1, <2>2, <2>3, <2>4, Parts, CallBegins
  <2>6. SockCount' = SockCount
    BY <1>1, SameSocks
  <2>7. Holders' = OneMore(Holders, s)
    BY <2>2, <2>5, <2>6, HoldersAfter
  <2>8. SocketInv'
    BY <1>1, <2>5, Parts DEF SocketInv
  <2>. QED  BY <1>1, <2>5, <2>7, <2>8, Parts, Invariant
<1>5. CASE g.session = 0 /\ store' = g.store /\ UNCHANGED <<ctx, lastToken>>
  BY <1>1, <1>3, <1>5, Parts, StoreStep DEF Got
<1>. QED  BY <1>2, <1>4, <1>5

LEMMA WebsocketSwitchStep ==
    ASSUME IInv, NEW c \in Contexts, NEW h \in Sockets, NEW u \in GivenUuids, NEW t,
           WebsocketSwitch(c, h, u, t)
    PROVE  IInv'
<1>1. /\ ctx[c].phase = "free" /\ ws[h].session = 0
      /\ now' = now /\ lastToken' = lastToken
  BY DEF WebsocketSwitch
<1>2. PICK g \in ctxClientGetSession(u) :
         \/ /\ g.session # 0
            /\ ctx' = [ctx EXCEPT ![c] = [Connected(g, t) EXCEPT !.phase = "answered",
                                                                 !.root = c]]
            /\ \/ /\ store' = ctxClientAddRef(g.store, g.session)
                  /\ ws' = [ws EXCEPT ![h] = [session |-> g.session, open |-> TRUE,
                                              new_session |-> g.created]]
               \/ /\ store' = g.store
                  /\ UNCHANGED ws
         \/ /\ g.session = 0
            /\ store' = g.store
            /\ UNCHANGED <<ctx, ws>>
  BY DEF WebsocketSwitch
<1>3. Got(g, Holders)
  BY Parts, GetSessionSound DEF GivenUuids
<1>4. CASE g.session = 0 /\ store' = g.store /\ UNCHANGED <<ctx, ws>>
  BY <1>1, <1>3, <1>4, Parts, StoreStep DEF Got
<1>5. ASSUME g.session # 0,
             ctx' = [ctx EXCEPT ![c] = [Connected(g, t) EXCEPT !.phase = "answered",
                                                               !.root = c]],
             \/ /\ store' = ctxClientAddRef(g.store, g.session)
                /\ ws' = [ws EXCEPT ![h] = [session |-> g.session, open |-> TRUE,
                                            new_session |-> g.created]]
             \/ /\ store' = g.store
                /\ UNCHANGED ws
      PROVE  IInv'
  <2> DEFINE x == Connected(g, t)
             y == [x EXCEPT !.phase = "answered", !.root = c]
             s == g.session
  <2>1. Fresh(x, s)
    BY <1>3, <1>5, ConnectedFresh
  <2>2. /\ s \in Slots /\ Sound(g.store, OneMore(Holders, s)) /\ g.store[s] # NoSession
        /\ g.created \in BOOLEAN /\ s # 0
    BY <1>3, <1>5 DEF Got
  <2>3. ctx' = [ctx EXCEPT ![c] = y]
    BY <1>5
  <2> HIDE DEF x
  <2>4. /\ y \in ContextStates /\ y.session = s /\ y.parent = NoContext /\ y.root = c
        /\ y.socket = NoSocket /\ y.flags = x.flags /\ y.phase = "answered"
    BY <2>1 DEF Fresh, ContextStates
  <2> HIDE DEF y, s
  <2>5. ~Touches(y)
    BY <2>1, <2>4 DEF Fresh, Touches, Has
  <2>6. Trees' /\ RootCount' = OneMore(RootCount, s)
    BY <1>1, <2>2, <2>3, <2>4, <2>5, Parts, NewRoot
  <2>7. ctx'[c].socket = NoSocket /\ \A d \in Contexts \ {c} : ctx'[d] = ctx[d]
    BY <2>3, <2>4, Parts DEF Trees
  <2>8. CASE /\ store' = ctxClientAddRef(g.store, s)
             /\ ws' = [ws EXCEPT ![h] = [session |-> s, open |-> TRUE,
                                         new_session |-> g.created]]
    <3>1. /\ ws' \in [Sockets -> SocketStates] /\ ws'[h].session = s
          /\ \A k \in Sockets \ {h} : ws'[k] = ws[k]
      BY <2>2, <2>8, Parts DEF SocketStates
    <3>2. SocketInv'
      <4>1. \A d \in Contexts : ctx[d].socket \in Sockets \cup {NoSocket}
        BY Parts DEF Trees, ContextStates
      <4>. QED  BY <1>1, <2>2, <2>7, <3>1, <4>1, Parts DEF SocketInv
    <3>3. /\ h \notin Socks(s) /\ Socks(s)' = Socks(s) \cup {h}
          /\ \A i \in Slots \ {s} : Socks(i)' = Socks(i)
      <4>1. ws[h].session \notin Slots
        BY <1>1, StoreAssumption DEF Slots
      <4>. QED  BY <2>2, <3>1, <4>1 DEF Socks, s
    <3>4. SockCount' = OneMore(SockCount, s)
      BY <2>2, <3>3, SockJoins
    <3>5. Holders' = OneMore(OneMore(Holders, s), s)
      BY <2>2, <2>6, <3>4, HoldersAfter
    <3>6. Sound(store', OneMore(OneMore(Holders, s), s))
      BY <2>2, <2>8, AddRefSound
    <3>. QED  BY <1>1, <2>6, <3>1, <3>2, <3>5, <3>6, Parts, Invariant
  <2>9. CASE store' = g.store /\ ws' = ws
    <3>1. SocketInv'
      BY <2>7, <2>9, Parts DEF SocketInv
    <3>2. SockCount' = SockCount
      BY <2>9, SameSocks
    <3>3. Holders' = OneMore(Holders, s)
      BY <2>2, <2>6, <3>2, HoldersAfter
    <3>. QED  BY <1>1, <2>2, <2>6, <2>9, <3>1, <3>3, Parts, Invariant
  <2>. QED  BY <1>5, <2>8, <2>9 DEF s
<1>. QED  BY <1>2, <1>4, <1>5

LEMMA WebsocketCallStep ==
    ASSUME IInv, NEW c \in Contexts, NEW h \in Sockets, NEW t, NEW v \in Verbs,
           WebsocketCall(c, h, t, v)
    PROVE  IInv'
<1>1. /\ ctx[c].phase = "free" /\ ws[h].open /\ now' = now
      /\ ws' = [ws EXCEPT ![h].new_session = FALSE]
  BY DEF WebsocketCall
<1>2. ws[h].session # 0
  BY <1>1, Parts DEF SocketInv
<1>3. ws[h].session \in Slots /\ store[ws[h].session] # NoSession
  BY <1>2, HasSession
<1>4. PICK s \in Slots : s = ws[h].session
  BY <1>3
<1> DEFINE st == ctxClientAddRef(store, s)
           x0 == init_context(store, s, t)
           fs == (IF Has(x0, "invalidated") THEN {} ELSE {"validated"})
                 \cup (IF ws[h].new_session THEN {"created"} ELSE {})
           x1 == With(x0, fs)
           x == [x1 EXCEPT !.socket = h]
<1>5. Call(c, x, v, st)
  BY <1>4 DEF WebsocketCall
<1>6. Fresh(x0, s)
  BY <1>3, <1>4, Parts, InitFresh
<1>7. fs \in SUBSET {"created", "validated"}
  OBVIOUS
<1> HIDE DEF x0, fs, st
<1>8. Fresh(x1, s)
  BY <1>6, <1>7, WithFresh
<1> HIDE DEF x1
<1>9. /\ x \in ContextStates /\ x.session = s /\ x.parent = NoContext
      /\ x.flags = x1.flags /\ x.socket = h
  BY <1>8 DEF Fresh, ContextStates
<1> HIDE DEF x
<1>10. ~Touches(x)
  BY <1>8, <1>9 DEF Fresh, Touches, Has
<1>11. Sound(st, OneMore(Holders, s)) /\ st[s] # NoSession
  <2>1. Sound(st, OneMore(Holders, s))
    BY <1>3, <1>4, Parts, AddRefSound DEF st
  <2>2. OneMore(Holders, s)[s] # 0
    BY CountsTyped, MoreLess
  <2>. QED  BY <2>1, <2>2 DEF Sound
<1>12. /\ Sound(store', OneMore(Holders, s)) /\ lastToken' \in 1..MaxToken
       /\ Trees' /\ RootCount' = OneMore(RootCount, s)
       /\ ctx'[c].socket = h /\ \A d \in Contexts \ {c} : ctx'[d] = ctx[d]
  BY <1>1, <1>5, <1>9, <1>10, <1>11, Parts, CallBegins
<1>13. /\ ws' \in [Sockets -> SocketStates]
       /\ \A k \in Sockets : ws'[k].session = ws[k].session /\ ws'[k].open = ws[k].open
  BY <1>1, Parts DEF SocketStates
<1>14. SockCount' = SockCount
  BY <1>13, SameSocks
<1>15. Holders' = OneMore(Holders, s)
  BY <1>12, <1>14, HoldersAfter
<1>16. SocketInv'
  BY <1>2, <1>12, <1>13, ContextAssumption, Parts DEF SocketInv, Trees, ContextStates
<1>. QED  BY <1>1, <1>12, <1>13, <1>15, <1>16, Parts, Invariant

LEMMA WebsocketHangupStep ==
    ASSUME IInv, NEW h \in Sockets, WebsocketHangup(h)
    PROVE  IInv'
<1>1. ws[h].open /\ ctx' = ctx /\ now' = now /\ lastToken' = lastToken
  BY DEF WebsocketHangup
<1>2. ws[h].session # 0
  BY <1>1, Parts DEF SocketInv
<1>3. ws[h].session \in Slots /\ SockCount[ws[h].session] > 0
  BY <1>2, HasSession
<1>4. PICK s \in Slots : s = ws[h].session
  BY <1>3
<1>5. Trees' /\ RootCount' = RootCount
  BY <1>1, Parts, SameTrees DEF Trees
<1>6. CASE Users(h) = {} /\ store' = ReleaseSocket(store, h) /\ ws' = [ws EXCEPT ![h] = Closed]
  <2>1. /\ ws' \in [Sockets -> SocketStates]
        /\ ws'[h] = Closed /\ Closed.session = 0 /\ Closed.open = FALSE
        /\ \A k \in Sockets \ {h} : ws'[k] = ws[k]
    BY <1>6, Parts DEF SocketStates, Closed
  <2>2. SocketInv'
    <3>1. \A d \in Contexts : ctx[d].socket \in Sockets \cup {NoSocket} /\ ctx[d].socket # h
      BY <1>6, Parts DEF Trees, ContextStates, Users
    <3>. QED  BY <1>1, <2>1, <3>1, Parts DEF SocketInv
  <2>3. /\ h \in Socks(s) /\ Socks(s)' = Socks(s) \ {h}
        /\ \A i \in Slots \ {s} : Socks(i)' = Socks(i)
    <3>1. ws'[h].session \notin Slots
      BY <2>1, StoreAssumption DEF Slots
    <3>. QED  BY <1>4, <2>1, <3>1 DEF Socks
  <2>4. SockCount' = OneLess(SockCount, s)
    BY <2>3, SockLeaves
  <2>5. Holders' = OneLess(Holders, s)
    BY <1>5, <2>4, HoldersAfter
  <2>6. Holders[s] > 0
    BY <1>3, <1>4, CountsTyped
  <2>7. Sound(store', OneLess(Holders, s))
    BY <1>4, <1>6, <2>6, Parts, UnrefSound DEF ReleaseSocket
  <2>. QED  BY <1>1, <1>5, <2>1, <2>2, <2>5, <2>7, Parts, Invariant
<1>7. CASE ws' = [ws EXCEPT ![h].open = FALSE] /\ store' = store
  <2>1. /\ ws' \in [Sockets -> SocketStates]
        /\ \A k \in Sockets : ws'[k].session = ws[k].session /\ (ws'[k].open => ws[k].open)
    BY <1>7, Parts DEF SocketStates
  <2>2. SocketInv'
    <3>1. \A d \in Contexts : ctx[d].socket \in Sockets \cup {NoSocket}
      BY Parts DEF Trees, ContextStates
    <3>. QED  BY <1>1, <2>1, <3>1, Parts DEF SocketInv
  <2>3. SockCount' = SockCount
    BY <2>1, SameSocks
  <2>4. Holders' = Holders
    BY <1>5, <2>3, HoldersAfter
  <2>. QED  BY <1>1, <1>5, <1>7, <2>1, <2>2, <2>4, Parts, Invariant
<1>. QED  BY <1>6, <1>7 DEF WebsocketHangup

(* A step that changes nothing but the flags and the progress of contexts. *)
LEMMA FlagsStep ==
    ASSUME IInv, NEW cs, ctx' = cs, cs \in [Contexts -> ContextStates],
           ws' = ws, now' = now, lastToken' \in 1..MaxToken, Sound(store', Holders),
           \A c \in Contexts :
             /\ cs[c].session = ctx[c].session /\ cs[c].root = ctx[c].root
             /\ cs[c].parent = ctx[c].parent /\ cs[c].socket = ctx[c].socket
             /\ ctx[c].phase = "free" => cs[c] = ctx[c]
             /\ ctx[c].phase # "free" => cs[c].phase # "free"
             /\ Has(cs[c], "validated") <=> Has(ctx[c], "validated")
             /\ Touches(cs[c]) => Touches(ctx[c]) \/ Has(ctx[ctx[c].root], "validated")
    PROVE  IInv'
<1>1. Trees' /\ RootCount' = RootCount
  BY Parts, SameTrees
<1>2. SockCount' = SockCount
  BY SameSocks
<1>3. Holders' = Holders
  BY <1>1, <1>2, HoldersAfter
<1>4. SocketInv'
  BY Parts DEF SocketInv
<1>. QED  BY <1>1, <1>3, <1>4, Parts, Invariant

(* One context in use changes so.                                          *)
LEMMA OneFlagsStep ==
    ASSUME IInv, NEW c \in Contexts, ctx[c].phase # "free", NEW y \in ContextStates,
           ctx' = [ctx EXCEPT ![c] = y],
           ws' = ws, now' = now, lastToken' \in 1..MaxToken, Sound(store', Holders),
           y.session = ctx[c].session, y.root = ctx[c].root, y.parent = ctx[c].parent,
           y.socket = ctx[c].socket, y.phase # "free",
           Has(y, "validated") <=> Has(ctx[c], "validated"),
           Touches(y) => Touches(ctx[c]) \/ Has(ctx[ctx[c].root], "validated")
    PROVE  IInv'
<1>1. PICK cs : cs = ctx'
  OBVIOUS
<1>2. /\ cs \in [Contexts -> ContextStates] /\ cs[c] = y
      /\ \A d \in Contexts \ {c} : cs[d] = ctx[d]
  BY <1>1, Parts DEF Trees
<1>3. \A d \in Contexts :
        /\ cs[d].session = ctx[d].session /\ cs[d].root = ctx[d].root
        /\ cs[d].parent = ctx[d].parent /\ cs[d].socket = ctx[d].socket
        /\ ctx[d].phase = "free" => cs[d] = ctx[d]
        /\ ctx[d].phase # "free" => cs[d].phase # "free"
        /\ Has(cs[d], "validated") <=> Has(ctx[d], "validated")
        /\ Touches(cs[d]) => Touches(ctx[d]) \/ Has(ctx[ctx[d].root], "validated")
  BY <1>2
<1>4. ctx' = cs /\ cs \in [Contexts -> ContextStates]
  BY <1>1, <1>2
<1>. QED  BY <1>3, <1>4, FlagsStep

LEMMA RequestReplyStep ==
    ASSUME IInv, NEW c \in Contexts, RequestReply(c)
    PROVE  IInv'
<1>1. /\ ctx[c].phase = "running" /\ Reply(c, ctx[c], store, "replied")
      /\ now' = now /\ ws' = ws
  BY DEF RequestReply
<1>2. /\ ctx[c] \in ContextStates /\ ctx[c].session \in Slots
      /\ store[ctx[c].session] # NoSession /\ "replied" \in {"replied", "answered"}
  BY <1>1, HasSession, Parts DEF Trees
<1>3. SessionTypeOK /\ Sound(store, Holders)
  BY Parts
<1>4. /\ Sound(store', Holders) /\ lastToken' \in 1..MaxToken
      /\ \E y : Left(ctx[c], y, "replied") /\ ctx' = [ctx EXCEPT ![c] = y]
  BY ONLY <1>1, <1>2, <1>3, ReplyLeaves
<1>5. PICK y : Left(ctx[c], y, "replied") /\ ctx' = [ctx EXCEPT ![c] = y]
  BY <1>4
<1>. QED  BY <1>1, <1>4, <1>5, OneFlagsStep DEF Left

LEMMA HttpSendStep ==
    ASSUME IInv, NEW c \in Contexts, HttpSend(c)
    PROVE  IInv'
<1>1. PICK y : y = [ctx[c] EXCEPT !.phase = "replied"]
  OBVIOUS
<1>2. /\ ctx[c].phase # "free" /\ ctx' = [ctx EXCEPT ![c] = y]
      /\ store' = store /\ now' = now /\ lastToken' = lastToken /\ ws' = ws
  BY <1>1 DEF HttpSend, sessionVars
<1>3. /\ y \in ContextStates /\ y.phase = "replied" /\ y.flags = ctx[c].flags
      /\ y.session = ctx[c].session /\ y.root = ctx[c].root /\ y.parent = ctx[c].parent
      /\ y.socket = ctx[c].socket
  BY <1>1, Parts DEF Trees, ContextStates
<1>4. /\ Has(y, "validated") <=> Has(ctx[c], "validated")
      /\ Touches(y) <=> Touches(ctx[c])
  BY <1>3 DEF Has, Touches
<1>. QED  BY <1>2, <1>3, <1>4, Parts, OneFlagsStep

(* The operations on the context at the root of a request.                 *)
LEMMA RootGrowsStep ==
    ASSUME IInv, NEW c \in Contexts, ctx[c].phase # "free", UNCHANGED <<sessionVars, ws>>,
           NEW y, Grows(ctx[ctx[c].root], y), ctx' = [ctx EXCEPT ![ctx[c].root] = y]
    PROVE  IInv'
<1>1. PICK r \in Contexts : /\ r = ctx[c].root /\ ctx[r].phase # "free" /\ ctx[r].root = r
  BY Parts DEF Trees, RootInv
<1>2. /\ ctx' = [ctx EXCEPT ![r] = y] /\ Grows(ctx[r], y)
      /\ store' = store /\ now' = now /\ lastToken' = lastToken /\ ws' = ws
  BY <1>1 DEF sessionVars
<1>3. /\ y \in ContextStates
      /\ y.phase = ctx[r].phase /\ y.session = ctx[r].session
      /\ y.root = ctx[r].root /\ y.parent = ctx[r].parent /\ y.socket = ctx[r].socket
      /\ Has(y, "validated") <=> Has(ctx[r], "validated")
      /\ Touches(y) => Touches(ctx[r]) \/ Has(ctx[r], "validated")
  BY <1>2 DEF Grows
<1>. QED  BY <1>1, <1>2, <1>3, Parts, OneFlagsStep

LEMMA SetLOAStep ==
    ASSUME IInv, NEW c \in Contexts, NEW loa \in Loas, SetLOA(c, loa)
    PROVE  IInv'
<1>1. /\ ctx[c].phase # "free" /\ UNCHANGED <<sessionVars, ws>>
      /\ ctx' = [ctx EXCEPT ![ctx[c].root] = afb_context_change_loa(ctx[ctx[c].root], loa)]
  BY DEF SetLOA, InUse
<1>2. ctx[ctx[c].root] \in ContextStates
  BY <1>1, Parts DEF Trees, RootInv
<1>3. Grows(ctx[ctx[c].root], afb_context_change_loa(ctx[ctx[c].root], loa))
  BY <1>2, ContextAssumption, ChangeLoaGrows
<1>. QED  BY <1>1, <1>3, RootGrowsStep

LEMMA SessionCloseStep ==
    ASSUME IInv, NEW c \in Contexts, SessionClose(c)
    PROVE  IInv'
<1>1. /\ ctx[c].phase # "free" /\ UNCHANGED <<sessionVars, ws>>
      /\ ctx' = [ctx EXCEPT ![ctx[c].root] = With(ctx[ctx[c].root], {"closing"})]
  <2>1. ctx[ctx[c].root] \in ContextStates
    BY Parts DEF SessionClose, InUse, Trees, RootInv
  <2>. QED  BY <2>1, Parts DEF SessionClose, InUse, With, Trees, ContextStates
<1>2. ctx[ctx[c].root] \in ContextStates
  BY <1>1, Parts DEF Trees, RootInv
<1>3. Grows(ctx[ctx[c].root], With(ctx[ctx[c].root], {"closing"}))
  BY <1>2, WithGrows DEF Flags
<1>. QED  BY <1>1, <1>3, RootGrowsStep

LEMMA ContextSetStep ==
    ASSUME IInv, NEW c \in Contexts, NEW a \in Apis, NEW v \in Values \cup {NULL},
           ContextSet(c, a, v)
    PROVE  IInv'
<1>1. /\ ctx[c].phase # "free" /\ ctx' = ctx /\ ws' = ws /\ now' = now
      /\ lastToken' = lastToken
      /\ store' = ctxClientValueSet(store, ctx[c].session, a, v)
  BY DEF ContextSet, InUse
<1>2. Sound(store', Holders)
  BY <1>1, HasSession, Parts, ValueSetSound
<1>. QED  BY <1>1, <1>2, Parts, StoreStep

(* The refresh that a subcall asks for goes up to the context copied, whose*)
(* token was checked.                                                      *)
LEMMA EmittedStep ==
    ASSUME IInv, NEW p \in Contexts, ctx[p].phase # "free", NEW cs,
           cs \in [Contexts -> ContextStates],
           \A d \in Contexts :
             /\ cs[d].session = ctx[d].session /\ cs[d].root = ctx[d].root
             /\ cs[d].parent = ctx[d].parent /\ cs[d].socket = ctx[d].socket
             /\ cs[d].flags = ctx[d].flags
             /\ ctx[d].phase = "free" => cs[d] = ctx[d]
             /\ ctx[d].phase # "free" => cs[d].phase # "free",
           NEW y, Has(y, "refreshing") => Has(ctx[ctx[p].root], "validated"),
           ctx' = Emitted(cs, p, y), UNCHANGED <<sessionVars, ws>>
    PROVE  IInv'
<1>0. store' = store /\ now' = now /\ lastToken' = lastToken /\ ws' = ws
  BY DEF sessionVars
<1>1. Sound(store', Holders) /\ lastToken' \in 1..MaxToken
  BY <1>0, Parts
<1>2. \A d \in Contexts : /\ Has(cs[d], "validated") <=> Has(ctx[d], "validated")
                          /\ Touches(cs[d]) <=> Touches(ctx[d])
  BY DEF Has, Touches
<1>3. CASE ~Has(y, "refreshing")
  <2>1. ctx' = cs
    BY <1>3 DEF Emitted
  <2>. QED  BY <1>0, <1>1, <1>2, <2>1, FlagsStep
<1>4. CASE Has(y, "refreshing")
  <2>1. PICK z : z = [cs[p] EXCEPT !.flags = cs[p].flags \cup {"refreshing"}]
    OBVIOUS
  <2>2. PICK fs : fs = [cs EXCEPT ![p] = z]
    OBVIOUS
  <2>3. ctx' = fs
    BY <1>4, <2>1, <2>2 DEF Emitted
  <2>4. /\ z \in ContextStates /\ z.flags = cs[p].flags \cup {"refreshing"}
        /\ z.phase = cs[p].phase /\ z.session = cs[p].session
        /\ z.root = cs[p].root /\ z.parent = cs[p].parent /\ z.socket = cs[p].socket
    BY <2>1 DEF ContextStates, Flags
  <2>5. /\ fs \in [Contexts -> ContextStates] /\ fs[p] = z
        /\ \A d \in Contexts \ {p} : fs[d] = cs[d]
    BY <2>2, <2>4
  <2>6. Has(z, "validated") <=> Has(ctx[p], "validated")
    BY <1>2, <2>4 DEF Has
  <2>7. \A d \in Contexts :
          /\ fs[d].session = ctx[d].session /\ fs[d].root = ctx[d].root
          /\ fs[d].parent = ctx[d].parent /\ fs[d].socket = ctx[d].socket
          /\ ctx[d].phase = "free" => fs[d] = ctx[d]
          /\ ctx[d].phase # "free" => fs[d].phase # "free"
          /\ Has(fs[d], "validated") <=> Has(ctx[d], "validated")
          /\ Touches(fs[d]) => Touches(ctx[d]) \/ Has(ctx[ctx[d].root], "validated")
    BY <1>2, <1>4, <2>4, <2>5, <2>6
  <2>. QED  BY <1>0, <1>1, <2>3, <2>5, <2>7, FlagsStep
<1>. QED  BY <1>3, <1>4

LEMMA SubcallStep ==
    ASSUME IInv, NEW p \in Contexts, NEW c \in Contexts, NEW v \in Verbs, Subcall(p, c, v)
    PROVE  IInv'
<1> DEFINE r == call_check(ctx[p], v)
           z == r.context
<1>1. /\ ctx[p].phase # "free" /\ ctx[c].phase = "free" /\ UNCHANGED <<sessionVars, ws>>
      /\ \/ /\ r.ok
            /\ ctx' = [ctx EXCEPT ![c] = [z EXCEPT !.phase = "running", !.parent = p]]
         \/ /\ ~r.ok
            /\ ctx' = Emitted(ctx, p, z)
  BY DEF Subcall, InUse
<1>2. ctx[p] \in ContextStates
  BY Parts DEF Trees
<1>3. Grows(ctx[p], z)
  BY <1>2, CallCheckGrows
<1> HIDE DEF z, r
<1>4. CASE r.ok /\ ctx' = [ctx EXCEPT ![c] = [z EXCEPT !.phase = "running", !.parent = p]]
  <2>1. PICK y : y = [z EXCEPT !.phase = "running", !.parent = p]
    OBVIOUS
  <2>2. /\ y \in ContextStates /\ y.phase = "running" /\ y.parent = p /\ y.flags = z.flags
        /\ y.session = ctx[p].session /\ y.root = ctx[p].root /\ y.socket = ctx[p].socket
    BY <1>3, <2>1 DEF Grows, ContextStates
  <2>3. /\ Has(y, "validated") => Has(ctx[p], "validated")
        /\ Touches(y) => Touches(ctx[p]) \/ Has(ctx[p], "validated")
    BY <1>3, <2>2 DEF Grows, Has, Touches
  <2>4. ctx' = [ctx EXCEPT ![c] = y]
    BY <1>4, <2>1
  <2>5. Trees' /\ RootCount' = RootCount
    BY <1>1, <2>2, <2>3, <2>4, Parts, NewSub
  <2>6. store' = store /\ now' = now /\ lastToken' = lastToken /\ ws' = ws
    BY <1>1 DEF sessionVars
  <2>7. SockCount' = SockCount
    BY <2>6, SameSocks
  <2>8. Holders' = Holders
    BY <2>5, <2>7, HoldersAfter
  <2>9. SocketInv'
    <3>1. ctx'[c] = y /\ \A d \in Contexts \ {c} : ctx'[d] = ctx[d]
      BY <2>4, Parts DEF Trees
    <3>. QED  BY <2>2, <2>6, <3>1, Parts DEF SocketInv
  <2>. QED  BY <2>5, <2>6, <2>8, <2>9, Parts, Invariant
<1>5. CASE ctx' = Emitted(ctx, p, z)
  <2>1. Has(z, "refreshing") => Has(ctx[ctx[p].root], "validated")
    BY <1>3, Parts DEF Grows, Touches, Trees, ValidatedInv, OnlyValidatedChange
  <2>2. ctx \in [Contexts -> ContextStates]
    BY Parts DEF Trees
  <2>. QED  BY <1>1, <1>5, <2>1, <2>2, EmittedStep
<1>. QED  BY <1>1, <1>4, <1>5

LEMMA SubcallReplyStep ==
    ASSUME IInv, NEW c \in Contexts, SubcallReply(c)
    PROVE  IInv'
<1>1. PICK cs : cs = [ctx EXCEPT ![c].phase = "replied"]
  OBVIOUS
<1>2. /\ ctx[c].phase = "running" /\ ~IsRoot(c) /\ UNCHANGED <<sessionVars, ws>>
      /\ ctx' = Emitted(cs, ctx[c].parent, ctx[c])
  BY <1>1 DEF SubcallReply
<1>3. PICK p \in Contexts : p = ctx[c].parent /\ ctx[p].phase # "free" /\ ctx[p].root = ctx[c].root
  BY <1>2, Parts DEF Trees, ParentInv
<1>4. cs \in [Contexts -> ContextStates]
  BY <1>1, Parts DEF Trees, ContextStates
<1>5. \A d \in Contexts :
        /\ cs[d].session = ctx[d].session /\ cs[d].root = ctx[d].root
        /\ cs[d].parent = ctx[d].parent /\ cs[d].socket = ctx[d].socket
        /\ cs[d].flags = ctx[d].flags
        /\ ctx[d].phase = "free" => cs[d] = ctx[d]
        /\ ctx[d].phase # "free" => cs[d].phase # "free"
  BY <1>1, <1>2, Parts DEF Trees, ContextStates
<1>6. Has(ctx[c], "refreshing") => Has(ctx[ctx[p].root], "validated")
  BY <1>3, Parts DEF Trees, OnlyValidatedChange
<1>7. ctx' = Emitted(cs, p, ctx[c])
  BY <1>2, <1>3
<1>. QED  BY <1>2, <1>3, <1>4, <1>5, <1>6, <1>7, EmittedStep

LEMMA SubcallEndStep ==
    ASSUME IInv, NEW c \in Contexts, SubcallEnd(c)
    PROVE  IInv'
<1>1. /\ ctx[c].phase # "free" /\ ~IsRoot(c) /\ Children(c) = {}
      /\ ctx' = [ctx EXCEPT ![c] = Idle]
      /\ store' = store /\ now' = now /\ lastToken' = lastToken /\ ws' = ws
  BY DEF SubcallEnd, sessionVars
<1>2. Trees' /\ RootCount' = RootCount
  BY <1>1, Parts, Ending
<1>3. SockCount' = SockCount
  BY <1>1, SameSocks
<1>4. Holders' = Holders
  BY <1>2, <1>3, HoldersAfter
<1>5. SocketInv'
  <2>1. ctx'[c] = Idle /\ \A d \in Contexts \ {c} : ctx'[d] = ctx[d]
    BY <1>1, Parts DEF Trees
  <2>. QED  BY <1>1, <2>1, IdleFacts, Parts DEF SocketInv
<1>. QED  BY <1>1, <1>2, <1>4, <1>5, Parts, Invariant

(* What a request that ends does to its session before it leaves it.       *)
LEMMA DisconnectSound ==
    ASSUME NEW x \in ContextStates, x.session \in Slots, NEW n, Sound(store, n),
           n[x.session] > 0, SessionTypeOK,
           Has(x, "refreshing") /\ ~Has(x, "refreshed") => lastToken < MaxToken
    PROVE  LET s == x.session
               renews == Has(x, "refreshing") /\ ~Has(x, "refreshed")
               st1 == IF renews THEN ctxTokenNew(store, s) ELSE store
               st2 == IF Has(x, "loa_changing") THEN ctxClientSetLOA(st1, s, x.loa_out) ELSE st1
               st3 == IF Has(x, "closing") THEN ctxClientClose(st2, s) ELSE st2
           IN  Sound(ctxClientUnref(st3, s), OneLess(n, s))
<1> DEFINE s == x.session
           renews == Has(x, "refreshing") /\ ~Has(x, "refreshed")
           st1 == IF renews THEN ctxTokenNew(store, s) ELSE store
           st2 == IF Has(x, "loa_changing") THEN ctxClientSetLOA(st1, s, x.loa_out) ELSE st1
           st3 == IF Has(x, "closing") THEN ctxClientClose(st2, s) ELSE st2
<1>0. \A st : Sound(st, n) => st[s] # NoSession
  BY DEF Sound
<1>1. Sound(st1, n)
  BY <1>0, TokenNewSound DEF SessionTypeOK
<1> HIDE DEF st1
<1>2. Sound(st2, n)
  <2>1. x.loa_out \in 0..7
    BY DEF ContextStates
  <2>. QED  BY <1>0, <1>1, <2>1, SetLOASound
<1> HIDE DEF st2
<1>3. Sound(st3, n)
  BY <1>0, <1>2, CloseSound
<1> HIDE DEF st3
<1>4. Sound(ctxClientUnref(st3, s), OneLess(n, s))
  BY <1>3, UnrefSound
<1>. QED  BY <1>4 DEF st3, st2, st1

LEMMA RequestEndStep ==
    ASSUME IInv, NEW c \in Contexts, RequestEnd(c)
    PROVE  IInv'
<1> DEFINE x  == ctx[c]
           s  == x.session
           h  == x.socket
           renews == Has(x, "refreshing") /\ ~Has(x, "refreshed")
           st1 == IF renews THEN ctxTokenNew(store, s) ELSE store
           st2 == IF Has(x, "loa_changing") THEN ctxClientSetLOA(st1, s, x.loa_out) ELSE st1
           st3 == IF Has(x, "closing") THEN ctxClientClose(st2, s) ELSE st2
           over == h # NoSocket /\ ~ws[h].open /\ Users(h) = {c}
<1>1. /\ ctx[c].phase # "free" /\ IsRoot(c) /\ Children(c) = {}
      /\ renews => lastToken < MaxToken
      /\ ctx' = [ctx EXCEPT ![c] = Idle] /\ now' = now
  BY DEF RequestEnd
<1>2. lastToken' \in 1..MaxToken
  <2>1. lastToken' = IF renews THEN lastToken + 1 ELSE lastToken
    BY DEF RequestEnd
  <2>. QED  BY <1>1, <2>1, Parts, BoundAssumption
<1>3. PICK st : st = ctxClientUnref(st3, s)
  OBVIOUS
<1>4. \/ over /\ store' = ReleaseSocket(st, h) /\ ws' = [ws EXCEPT ![h] = Closed]
      \/ ~over /\ store' = st /\ ws' = ws
  BY <1>3 DEF RequestEnd
<1>5. PICK i \in Slots : i = s
  BY <1>1, HasSession
<1>6. Trees' /\ RootCount' = OneLess(RootCount, i) /\ RootCount[i] > 0
  BY <1>1, <1>5, Parts, Ending
<1>7. Holders[i] > 0
  BY <1>6, CountsTyped
<1>8. Sound(st, OneLess(Holders, i))
  <2>1. x \in ContextStates
    BY Parts DEF Trees
  <2>. QED  BY <1>1, <1>3, <1>5, <1>7, <2>1, Parts, DisconnectSound
<1>9. /\ ctx'[c] = Idle /\ \A d \in Contexts \ {c} : ctx'[d] = ctx[d]
      /\ \A d \in Contexts : ctx[d].socket \in Sockets \cup {NoSocket}
  BY <1>1, Parts DEF Trees, ContextStates
<1>10. CASE ~over /\ store' = st /\ ws' = ws
  <2>1. SockCount' = SockCount
    BY <1>10, SameSocks
  <2>2. Holders' = OneLess(Holders, i)
    BY <1>6, <2>1, HoldersAfter
  <2>3. SocketInv'
    BY <1>9, <1>10, IdleFacts, Parts DEF SocketInv
  <2>. QED  BY <1>1, <1>2, <1>6, <1>8, <1>10, <2>2, <2>3, Parts, Invariant
<1>11. CASE over /\ store' = ReleaseSocket(st, h) /\ ws' = [ws EXCEPT ![h] = Closed]
  <2>1. PICK k \in Sockets : k = h
    BY <1>9, <1>11
  <2>2. ws[k].session # 0
    BY <1>11, <2>1, Parts DEF SocketInv
  <2>3. ws[k].session \in Slots /\ SockCount[ws[k].session] > 0
    BY <2>2, HasSession
  <2>4. PICK j \in Slots : j = ws[k].session
    BY <2>3
  <2>5. /\ ws' \in [Sockets -> SocketStates]
        /\ ws'[k] = Closed /\ Closed.session = 0 /\ Closed.open = FALSE
        /\ \A l \in Sockets \ {k} : ws'[l] = ws[l]
    BY <1>11, <2>1, Parts DEF SocketStates, Closed
  <2>6. SocketInv'
    <3>1. \A d \in Contexts \ {c} : ctx[d].socket # k
      BY <1>11, <2>1 DEF Users
    <3>. QED  BY <1>9, <2>5, <3>1, IdleFacts, Parts DEF SocketInv
  <2>7. /\ k \in Socks(j) /\ Socks(j)' = Socks(j) \ {k}
        /\ \A l \in Slots \ {j} : Socks(l)' = Socks(l)
    <3>1. ws'[k].session \notin Slots
      BY <2>5, StoreAssumption DEF Slots
    <3>. QED  BY <2>4, <2>5, <3>1 DEF Socks
  <2>8. SockCount' = OneLess(SockCount, j) /\ SockCount[j] > 0
    BY <2>7, SockLeaves
  <2>9. Holders' = OneLess(OneLess(Holders, i), j)
    BY <1>6, <2>8, HoldersAfter
  <2>10. OneLess(Holders, i)[j] > 0
    BY <1>6, <2>8, CountsTyped DEF OneLess
  <2>11. Sound(store', OneLess(OneLess(Holders, i), j))
    BY <1>8, <1>11, <2>1, <2>4, <2>10, UnrefSound DEF ReleaseSocket
  <2>. QED  BY <1>1, <1>2, <1>6, <2>5, <2>6, <2>9, <2>11, Parts, Invariant
<1>. QED  BY <1>4, <1>10, <1>11

LEMMA TickStep ==
    ASSUME IInv, Tick, UNCHANGED <<ctx, ws>>
    PROVE  IInv'
<1>1. now' \in 0..MaxTime /\ store' = store /\ lastToken' = lastToken
  BY Parts, BoundAssumption DEF Tick
<1>. QED  BY <1>1, Parts, StoreStep

LEMMA StutterStep ==
    ASSUME IInv, UNCHANGED vars
    PROVE  IInv'
<1>1. /\ store' = store /\ now' = now /\ lastToken' = lastToken
      /\ ctx' = ctx /\ ws' = ws
  BY DEF vars, sessionVars
<1>. QED  BY <1>1, Parts, StoreStep

LEMMA NextStep ==
    ASSUME IInv, Next
    PROVE  IInv'
<1>1. CASE Tick /\ UNCHANGED <<ctx, ws>>
  BY <1>1, TickStep
<1>2. CASE \E u \in GivenUuids, t \in GivenTokens :
             \/ \E c \in Contexts, v \in Verbs : HttpRequest(c, u, t, v)
             \/ \E c \in Contexts, h \in Sockets : WebsocketSwitch(c, h, u, t)
  BY <1>2, HttpRequestStep, WebsocketSwitchStep
<1>3. CASE \E h \in Sockets :
             \/ \E c \in Contexts, t \in GivenTokens, v \in Verbs : WebsocketCall(c, h, t, v)
             \/ WebsocketHangup(h)
  BY <1>3, WebsocketCallStep, WebsocketHangupStep
<1>4. ASSUME NEW c \in Contexts,
             \/ RequestReply(c)
             \/ HttpSend(c)
             \/ \E loa \in Loas : SetLOA(c, loa)
             \/ SessionClose(c)
             \/ \E a \in Apis, v \in Values \cup {NULL} : ContextSet(c, a, v)
             \/ \E d \in Contexts, v \in Verbs : Subcall(c, d, v)
             \/ SubcallReply(c)
             \/ SubcallEnd(c)
             \/ RequestEnd(c)
      PROVE  IInv'
  BY <1>4, RequestReplyStep, HttpSendStep, SetLOAStep, SessionCloseStep, ContextSetStep,
     SubcallStep, SubcallReplyStep, SubcallEndStep, RequestEndStep
<1>. QED  BY <1>1, <1>2, <1>3, <1>4 DEF Next

LEMMA InitInv ==
    ASSUME Init
    PROVE  IInv
<1>1. /\ ctx = [c \in Contexts |-> Idle] /\ ws = [h \in Sockets |-> Closed]
      /\ store = [s \in Slots |-> NoSession] /\ now = 0 /\ lastToken = 1
  BY DEF Init, SessionInit
<1>2. Closed \in SocketStates /\ Closed.session = 0 /\ Closed.open = FALSE
  BY DEF Closed, SocketStates
<1>3. TypeOK
  <2>1. SessionTypeOK
    BY <1>1, BoundAssumption DEF SessionTypeOK, Stores
  <2>. QED  BY <1>1, <1>2, <2>1, IdleFacts DEF TypeOK
<1>4. \A s \in Slots : Roots(s) = {} /\ Socks(s) = {}
  <2>1. 0 \notin Slots
    BY StoreAssumption DEF Slots
  <2>. QED  BY <1>1, <1>2, <2>1, IdleFacts DEF Roots, Socks
<1>5. Holders = [s \in Slots |-> 0]
  BY <1>4, FS_EmptySet DEF Holders
<1>6. Sound(store, Holders)
  BY <1>1, <1>5 DEF Sound, Stores
<1>7. FreeInv /\ RootInv /\ ValidatedInv /\ OnlyValidatedChange
  BY <1>1, IdleFacts DEF FreeInv, RootInv, ValidatedInv, OnlyValidatedChange, Has
<1>8. ParentInv
  BY <1>1, IdleFacts, ContextAssumption DEF ParentInv, IsRoot
<1>9. SocketInv
  BY <1>1, <1>2, IdleFacts DEF SocketInv
<1>. QED  BY <1>3, <1>6, <1>7, <1>8, <1>9 DEF IInv

(* The inductive invariant: the references of every session count its      *)
(* holders, and the calls of every request form a tree.                    *)
THEOREM InvHolds == Spec => []IInv
<1>1. Init => IInv
  BY InitInv
<1>2. IInv /\ [Next]_vars => IInv'
  BY NextStep, StutterStep
<1>. QED  BY <1>1, <1>2, PTL DEF Spec

(* No request, websocket or subcall is left with a freed session, and      *)
(* assert(refcount != 0) of ctxClientUnref holds.                          *)
THEOREM SessionsAreCounted == Spec => []RefcountIsHolders
<1>1. IInv => RefcountIsHolders
  <2> SUFFICES ASSUME IInv PROVE RefcountIsHolders
    OBVIOUS
  <2>1. \A s \in Used(store) :
          /\ s \in Slots /\ store[s].refcount = Holders[s]
    BY Parts DEF Sound, Used
  <2>2. \A s \in Slots : Holders[s] =
            Cardinality({c \in Contexts : ctx[c].session = s /\ IsRoot(c)})
            + Cardinality({h \in Sockets : ws[h].session = s})
    BY DEF Holders, Roots, Socks
  <2>. QED  BY <2>1, <2>2, HasSession DEF RefcountIsHolders, IInv, Used
<1>. QED  BY <1>1, InvHolds, PTL

(* A closed session stays in the store as long as somebody holds it, and   *)
(* no longer.                                                              *)
THEOREM ClosedAreHeld == Spec => []ClosedSessionsAreHeld
<1>1. IInv => ClosedSessionsAreHeld
  <2> SUFFICES ASSUME IInv, NEW s \in Used(store)
               PROVE  IsOpen(store[s]) \/ store[s].refcount > 0
    BY DEF ClosedSessionsAreHeld
  <2>. QED  BY Parts DEF Sound, Used
<1>. QED  BY <1>1, InvHolds, PTL

(* A session is refreshed, or gets another LOA, only from a request whose  *)
(* token was good, at whatever depth the subcall that asks for it is.      *)
THEOREM ValidatedChange == Spec => []OnlyValidatedChange
<1>1. IInv => OnlyValidatedChange
  BY DEF IInv
<1>. QED  BY <1>1, InvHolds, PTL

-----------------------------------------------------------------------------
(* The services: what happens to the uuids of the store.                   *)

(* The sessions of t are sessions of st, with their uuid or closed.        *)
Fades(st, t) ==
    \A s \in Slots : t[s] # NoSession =>
        st[s] # NoSession /\ (t[s].uuid = st[s].uuid \/ ~IsOpen(t[s]))

LEMMA FadesUnique ==
    ASSUME NEW st, NEW t, Fades(st, t), UniqueUuids(st)
    PROVE  UniqueUuids(t)
<1>. SUFFICES ASSUME NEW s \in Used(t), NEW r \in Used(t),
                     IsOpen(t[s]), t[s].uuid = t[r].uuid
              PROVE  s = r
  BY DEF UniqueUuids
<1>1. IsOpen(t[r])
  BY DEF IsOpen
<1>2. /\ s \in Used(st) /\ r \in Used(st)
      /\ t[s].uuid = st[s].uuid /\ t[r].uuid = st[r].uuid
  BY <1>1 DEF Fades, Used
<1>. QED  BY <1>2 DEF UniqueUuids, IsOpen

LEMMA FadesTrans ==
    ASSUME NEW st, NEW t, NEW v, Fades(st, t), Fades(t, v)
    PROVE  Fades(st, v)
BY DEF Fades, IsOpen

LEMMA PutFades ==
    ASSUME NEW st, NEW s \in Slots, st[s] # NoSession,
           NEW r, r = NoSession \/ r.uuid = st[s].uuid \/ ~IsOpen(r)
    PROVE  Fades(st, Put(st, s, r))
<1>1. \A i \in Slots : Put(st, s, r)[i] = IF i = s THEN r ELSE st[i]
  BY DEF Put
<1>. QED  BY <1>1 DEF Fades

LEMMA AddRefFades ==
    ASSUME NEW st \in Stores, NEW s \in Slots, st[s] # NoSession
    PROVE  Fades(st, ctxClientAddRef(st, s))
<1> DEFINE r == [st[s] EXCEPT !.refcount = @ + 1]
<1>1. st[s] \in Sessions
  BY DEF Stores
<1>2. r.uuid = st[s].uuid
  BY <1>1 DEF Sessions
<1> HIDE DEF r
<1>3. Fades(st, Put(st, s, r))
  BY <1>2, PutFades
<1>. QED  BY <1>3 DEF ctxClientAddRef, r

LEMMA UnrefFades ==
    ASSUME NEW st \in Stores, NEW s \in Slots, st[s] # NoSession
    PROVE  Fades(st, ctxClientUnref(st, s))
<1> DEFINE e == [st[s] EXCEPT !.refcount = @ - 1]
           r == IF st[s].refcount = 1 /\ ~IsOpen(st[s]) THEN NoSession ELSE e
<1>1. st[s] \in Sessions
  BY DEF Stores
<1>2. e.uuid = st[s].uuid
  BY <1>1 DEF Sessions
<1> HIDE DEF e
<1>3. Fades(st, Put(st, s, r))
  BY <1>2, PutFades
<1>. QED  BY <1>3 DEF ctxClientUnref, e

LEMMA CloseFades ==
    ASSUME NEW st \in Stores, NEW s \in Slots, st[s] # NoSession
    PROVE  Fades(st, ctxClientClose(st, s))
<1> DEFINE e == [st[s] EXCEPT !.uuid = Empty, !.values = [a \in Apis |-> NULL]]
           r == IF st[s].refcount = 0 THEN NoSession ELSE e
<1>1. st[s] \in Sessions
  BY DEF Stores
<1>2. e.uuid = Empty
  BY <1>1 DEF Sessions
<1> HIDE DEF e
<1>3. Fades(st, Put(st, s, r))
  BY <1>2, PutFades DEF IsOpen
<1>4. CASE IsOpen(st[s])
  BY <1>3, <1>4 DEF ctxClientClose, e
<1>5. CASE ~IsOpen(st[s])
  BY <1>5 DEF ctxClientClose, Fades
<1>. QED  BY <1>4, <1>5

(* The clean up closes the sessions that are too old, and no other.        *)
LEMMA CleanUpFades ==
    ASSUME NEW st \in Stores
    PROVE  /\ Fades(st, ctxStoreCleanUp(st))
           /\ \A s \in Slots : LET c == ctxStoreCleanUp(st) IN
                c[s] # NoSession /\ IsOpen(c[s]) => ~ctxStoreTooOld(c[s])
<1> DEFINE c == ctxStoreCleanUp(st)
<1>1. ASSUME NEW s \in Slots, c[s] # NoSession
      PROVE  /\ st[s] # NoSession /\ (c[s].uuid = st[s].uuid \/ ~IsOpen(c[s]))
             /\ IsOpen(c[s]) => ~ctxStoreTooOld(c[s])
  <2>1. CASE s \in Used(st) /\ ctxStoreTooOld(st[s])
    <3>1. c[s] = ctxClientClose(st, s)[s]
      BY <2>1 DEF ctxStoreCleanUp
    <3>2. st[s] # NoSession /\ Fades(st, ctxClientClose(st, s))
      BY <2>1, CloseFades DEF Used
    <3> DEFINE e == [st[s] EXCEPT !.uuid = Empty, !.values = [a \in Apis |-> NULL]]
    <3>3. st[s] \in Sessions
      BY <3>2 DEF Stores
    <3>4. e.uuid = Empty
      BY <3>3 DEF Sessions
    <3> HIDE DEF e
    <3>5. (c[s] = st[s] /\ ~IsOpen(st[s])) \/ c[s] = e
      BY <1>1, <3>1 DEF ctxClientClose, Put, e
    <3>6. ~IsOpen(c[s])
      BY <3>4, <3>5 DEF IsOpen
    <3>. QED  BY <3>2, <3>6
  <2>2. CASE ~(s \in Used(st) /\ ctxStoreTooOld(st[s]))
    <3>1. c[s] = st[s]
      BY <2>2 DEF ctxStoreCleanUp
    <3>. QED  BY <1>1, <2>2, <3>1 DEF Used
  <2>. QED  BY <2>1, <2>2
<1> HIDE DEF c
<1>2. Fades(st, c)
  BY <1>1 DEF Fades
<1>3. \A s \in Slots : c[s] # NoSession /\ IsOpen(c[s]) => ~ctxStoreTooOld(c[s])
  BY <1>1
<1>. QED  BY <1>2, <1>3 DEF c

(* A new session is in a free slot, open with a uuid of its own, unless it *)
(* was asked for the empty one.                                            *)
LEMMA NewContextUnique ==
    ASSUME NEW st \in Stores, UniqueUuids(st), NEW u \in Uuids \cup {Empty, LongUuid, NULL},
           Matching(st, u) = {},
           NEW t \in {0, Timeout}, now \in 0..MaxTime, NEW g \in new_context(st, u, t)
    PROVE  /\ UniqueUuids(g.store)
           /\ g = [store |-> g.store, session |-> g.session, created |-> TRUE]
           /\ g.session = 0 => g.store = st
           /\ g.session # 0 => /\ g.session \in Slots /\ st[g.session] = NoSession
                               /\ \A i \in Slots \ {g.session} : g.store[i] = st[i]
                               /\ IsOpen(g.store[g.session]) <=> u # Empty
                               /\ g.store[g.session].expiration >= now
<1> DEFINE free == Slots \ Used(st)
           ids == IF u = NULL THEN {w \in Uuids : Matching(st, w) = {}} ELSE {u}
           f == First(free)
           New(w) == [uuid |-> w, token |-> InitToken, loa |-> 0,
                      timeout |-> t,
                      expiration |-> Expiration(t),
                      refcount |-> 1,
                      values |-> [a \in Apis |-> NULL]]
<1>1. CASE u = LongUuid \/ free = {}
  <2>1. g = [store |-> st, session |-> 0, created |-> TRUE]
    BY <1>1 DEF new_context
  <2>. QED  BY <2>1
<1>2. CASE ~(u = LongUuid \/ free = {})
  <2>2. PICK w \in ids : g = [store |-> Put(st, f, New(w)), session |-> f, created |-> TRUE]
    BY <1>2 DEF new_context
  <2>3. f \in free
    BY <1>2, FirstIsIn
  <2>4. f \in Slots /\ st[f] = NoSession
    BY <2>3 DEF Used
  <2>5. w \in Uuids \cup {Empty} /\ Matching(st, w) = {} /\ (w = Empty <=> u = Empty)
    BY <1>2, <2>2, UuidAssumption, NullAssumption
  <2>6. Expiration(t) >= now
    BY BoundAssumption, StoreAssumption DEF Expiration, Never
  <2>7. New(w).uuid = w /\ New(w).expiration = Expiration(t) /\ (IsOpen(New(w)) <=> u # Empty)
    BY <2>5 DEF IsOpen
  <2> DEFINE p == Put(st, f, New(w))
  <2> HIDE DEF New, f
  <2>8. \A i \in Slots : p[i] = IF i = f THEN New(w) ELSE st[i]
    BY DEF Put
  <2> HIDE DEF p
  <2>9. UniqueUuids(p)
    <3>. SUFFICES ASSUME NEW s \in Used(p), NEW r \in Used(p),
                         IsOpen(p[s]), p[s].uuid = p[r].uuid, s # r
                  PROVE  FALSE
      BY DEF UniqueUuids
    <3>1. s \in Slots /\ r \in Slots
      BY DEF Used
    <3>2. CASE s = f
      BY <2>5, <2>7, <2>8, <3>1, <3>2 DEF Matching, Used
    <3>3. CASE r = f
      BY <2>5, <2>7, <2>8, <3>1, <3>3 DEF Matching, Used
    <3>4. CASE s # f /\ r # f
      BY <2>8, <3>1, <3>4 DEF UniqueUuids, Used
    <3>. QED  BY <3>2, <3>3, <3>4
  <2>10. /\ g.store = p /\ g.session = f
         /\ g = [store |-> g.store, session |-> g.session, created |-> TRUE]
    BY <2>2 DEF p
  <2>11. f # 0
    BY <2>4, StoreAssumption DEF Slots
  <2>. QED  BY <2>4, <2>6, <2>7, <2>8, <2>9, <2>10, <2>11
<1>. QED  BY <1>1, <1>2

(* The session that a client finds or creates: closed for the empty uuid,  *)
(* else open and not too old.  It is a new one, or one of the uuid asked.  *)
LEMMA GetSessionAlive ==
    ASSUME NEW n, Sound(store, n), UniqueUuids(store),
           NEW u \in Uuids \cup {Empty, LongUuid, NULL},
           now \in 0..MaxTime, NEW g \in ctxClientGetSession(u)
    PROVE  /\ UniqueUuids(g.store)
           /\ \A i \in Slots \ {g.session} : g.store[i] # NoSession =>
                store[i] # NoSession /\ (IsOpen(g.store[i]) => IsOpen(store[i]))
           /\ g.session # 0 =>
                /\ g.session \in Slots
                /\ IF u = Empty THEN ~IsOpen(g.store[g.session])
                   ELSE IsOpen(g.store[g.session]) /\ g.store[g.session].expiration >= now
                /\ \/ n[g.session] = 0
                   \/ /\ store[g.session] # NoSession
                      /\ u # Empty => IsOpen(store[g.session]) /\ store[g.session].uuid = u
<1> DEFINE st == ctxStoreCleanUp(store)
           found == Matching(st, u)
           f == First(found)
<1>1. store \in Stores /\ Sound(st, n)
  BY CleanUpSound DEF Sound
<1>2. Fades(store, st) /\ UniqueUuids(st) /\ st \in Stores
  BY <1>1, CleanUpFades, FadesUnique DEF Sound
<1>3. \A s \in Slots : st[s] # NoSession /\ IsOpen(st[s]) => ~ctxStoreTooOld(st[s])
  BY <1>1, CleanUpFades
<1>4. CASE found = {}
  <2>1. g \in new_context(st, u, Timeout)
    BY <1>4 DEF ctxClientGetSession
  <2> HIDE DEF st
  <2>2. /\ UniqueUuids(g.store)
        /\ g.session = 0 => g.store = st
        /\ g.session # 0 => /\ g.session \in Slots /\ st[g.session] = NoSession
                            /\ \A i \in Slots \ {g.session} : g.store[i] = st[i]
                            /\ IsOpen(g.store[g.session]) <=> u # Empty
                            /\ g.store[g.session].expiration >= now
    BY <1>2, <1>4, <2>1, NewContextUnique
  <2>3. g.session # 0 => n[g.session] = 0
    BY <1>1, <2>2 DEF Sound
  <2>4. \A i \in Slots \ {g.session} : g.store[i] = st[i]
    BY <2>2
  <2>. QED  BY <1>2, <2>2, <2>3, <2>4 DEF Fades, IsOpen
<1>5. CASE found # {}
  <2>1. g = [store |-> ctxClientAddRef(st, f), session |-> f, created |-> FALSE]
    BY <1>5 DEF ctxClientGetSession
  <2>2. found \in SUBSET Slots
    BY DEF Matching, Used
  <2>3. f \in found
    BY <1>5, <2>2, FirstIsIn
  <2>4. f \in Slots /\ st[f] # NoSession /\ st[f].uuid = u
    BY <2>3 DEF Matching, Used
  <2> HIDE DEF st, f
  <2>5. UniqueUuids(ctxClientAddRef(st, f))
    BY <1>2, <2>4, AddRefFades, FadesUnique
  <2>6. /\ ctxClientAddRef(st, f)[f].uuid = u
        /\ ctxClientAddRef(st, f)[f].expiration = st[f].expiration
        /\ \A i \in Slots \ {f} : ctxClientAddRef(st, f)[i] = st[i]
    <3> DEFINE r == [st[f] EXCEPT !.refcount = @ + 1]
    <3>1. st[f] \in Sessions
      BY <1>2, <2>4 DEF Stores
    <3>2. r.uuid = st[f].uuid /\ r.expiration = st[f].expiration
      BY <3>1 DEF Sessions
    <3> HIDE DEF r
    <3>3. Put(st, f, r)[f] = r /\ \A i \in Slots \ {f} : Put(st, f, r)[i] = st[i]
      BY <2>4 DEF Put
    <3>. QED  BY <2>4, <3>2, <3>3 DEF ctxClientAddRef, r
  <2>7. u # Empty => st[f].expiration >= now
    <3>1. st[f].expiration \in 0..Never
      BY <1>2, <2>4 DEF Stores, Sessions
    <3>2. u # Empty => ~ctxStoreTooOld(st[f])
      BY <1>3, <2>4 DEF IsOpen
    <3>. QED  BY <3>1, <3>2, BoundAssumption, StoreAssumption DEF ctxStoreTooOld, Never
  <2>8. store[f] # NoSession /\ (u # Empty => store[f].uuid = u)
    BY <1>2, <2>4 DEF Fades, IsOpen
  <2>9. \A i \in Slots \ {f} : st[i] # NoSession =>
           store[i] # NoSession /\ (IsOpen(st[i]) => IsOpen(store[i]))
    BY <1>2 DEF Fades, IsOpen
  <2>. QED  BY <2>1, <2>4, <2>5, <2>6, <2>7, <2>8, <2>9 DEF IsOpen
<1>. QED  BY <1>4, <1>5

-----------------------------------------------------------------------------
(* The users of the sessions.                                              *)

Is(x, s) == IF x = s THEN 1 ELSE 0

ServiceUsers(s) == {b \in Bindings : svc[b].session = s}
CallsOf(s) == {q \in Calls : call[q].session = s}
ClientsOf(s) == {c \in Clients : client[c] = s}

LEMMA IsType == ASSUME NEW x, NEW s PROVE Is(x, s) \in Nat
BY DEF Is

(* One element changes of place.                                           *)
LEMMA CountMoves ==
    ASSUME NEW S, IsFiniteSet(S), NEW F \in SUBSET S, NEW G \in SUBSET S, NEW x \in S,
           \A y \in S \ {x} : y \in G <=> y \in F,
           NEW v, NEW w, NEW s, x \in F <=> v = s, x \in G <=> w = s
    PROVE  Cardinality(G) = Cardinality(F) + (Is(w, s) - Is(v, s))
<1>1. IsFiniteSet(F) /\ Cardinality(F) \in Nat
  BY FS_Subset, FS_CardinalityType
<1>2. CASE w = s /\ v = s
  <2>1. G = F
    BY <1>2
  <2>. QED  BY <1>1, <1>2, <2>1 DEF Is
<1>3. CASE w # s /\ v # s
  <2>1. G = F
    BY <1>3
  <2>2. Is(w, s) = 0 /\ Is(v, s) = 0
    BY <1>3 DEF Is
  <2>. QED  BY <1>1, <2>1, <2>2
<1>4. CASE w = s /\ v # s
  <2>1. G = F \cup {x} /\ x \notin F
    BY <1>4
  <2>2. Cardinality(G) = Cardinality(F) + 1
    BY <1>1, <2>1, FS_AddElement
  <2>3. Is(w, s) = 1 /\ Is(v, s) = 0
    BY <1>4 DEF Is
  <2>. QED  BY <1>1, <2>2, <2>3
<1>5. CASE w # s /\ v = s
  <2>1. G = F \ {x} /\ x \in F
    BY <1>5
  <2>2. Cardinality(G) = Cardinality(F) - 1
    BY <1>1, <2>1, FS_RemoveElement
  <2>3. Is(w, s) = 0 /\ Is(v, s) = 1
    BY <1>5 DEF Is
  <2>. QED  BY <1>1, <2>2, <2>3
<1>. QED  BY <1>2, <1>3, <1>4, <1>5

LEMMA UsersTyped ==
    /\ AllUsers \in [Slots -> Nat]
    /\ \A s \in Slots :
         /\ AllUsers[s] = Is(common_session, s) + Cardinality(ServiceUsers(s))
                            + Cardinality(CallsOf(s)) + Cardinality(ClientsOf(s))
         /\ Cardinality(ServiceUsers(s)) \in Nat /\ Cardinality(CallsOf(s)) \in Nat
         /\ Cardinality(ClientsOf(s)) \in Nat
<1>1. ASSUME NEW s \in Slots
      PROVE  /\ Cardinality(ServiceUsers(s)) \in Nat /\ Cardinality(CallsOf(s)) \in Nat
             /\ Cardinality(ClientsOf(s)) \in Nat
  <2>1. /\ ServiceUsers(s) \in SUBSET Bindings /\ CallsOf(s) \in SUBSET Calls
        /\ ClientsOf(s) \in SUBSET Clients
    BY DEF ServiceUsers, CallsOf, ClientsOf
  <2>2. IsFiniteSet(ServiceUsers(s)) /\ IsFiniteSet(CallsOf(s)) /\ IsFiniteSet(ClientsOf(s))
    BY <2>1, FiniteAssumption, FS_Subset
  <2>. QED  BY <2>2, FS_CardinalityType
<1>2. ASSUME NEW s \in Slots
      PROVE  SessionUsers(s) = Is(common_session, s) + Cardinality(ServiceUsers(s))
                                 + Cardinality(CallsOf(s)) + Cardinality(ClientsOf(s))
  BY DEF SessionUsers, Is, ServiceUsers, CallsOf, ClientsOf
<1>3. \A s \in Slots : SessionUsers(s) \in Nat
  BY <1>1, <1>2 DEF Is
<1>. QED  BY <1>1, <1>2, <1>3 DEF AllUsers

(* A session that is used.                                                 *)
LEMMA UsedSession ==
    ASSUME ServicesTypeOK, NEW s \in Slots,
           \/ common_session = s
           \/ \E b \in Bindings : svc[b].session = s
           \/ \E q \in Calls : call[q].session = s
           \/ \E c \in Clients : client[c] = s
    PROVE  AllUsers[s] > 0
<1>1. IsFiniteSet(ServiceUsers(s)) /\ IsFiniteSet(CallsOf(s)) /\ IsFiniteSet(ClientsOf(s))
  <2>1. /\ ServiceUsers(s) \in SUBSET Bindings /\ CallsOf(s) \in SUBSET Calls
        /\ ClientsOf(s) \in SUBSET Clients
    BY DEF ServiceUsers, CallsOf, ClientsOf
  <2>. QED  BY <2>1, FiniteAssumption, FS_Subset
<1>2. \/ common_session = s \/ ServiceUsers(s) # {} \/ CallsOf(s) # {} \/ ClientsOf(s) # {}
  BY DEF ServiceUsers, CallsOf, ClientsOf
<1>3. \/ common_session = s \/ Cardinality(ServiceUsers(s)) # 0
      \/ Cardinality(CallsOf(s)) # 0 \/ Cardinality(ClientsOf(s)) # 0
  BY <1>1, <1>2, FS_EmptySet
<1> DEFINE i == Is(common_session, s)
           b == Cardinality(ServiceUsers(s))
           q == Cardinality(CallsOf(s))
           c == Cardinality(ClientsOf(s))
<1>4. i \in Nat /\ (common_session = s => i = 1)
  BY DEF Is
<1>5. AllUsers[s] = i + b + q + c /\ b \in Nat /\ q \in Nat /\ c \in Nat
  BY UsersTyped
<1>6. i # 0 \/ b # 0 \/ q # 0 \/ c # 0
  BY <1>3, <1>4
<1> HIDE DEF i, b, q, c
<1>. QED  BY <1>4, <1>5, <1>6

(* The users after a step where one of them changes its session.           *)
LEMMA UsersPrimed ==
    ASSUME NEW s \in Slots
    PROVE  SessionUsers(s)' = Is(common_session', s) + Cardinality(ServiceUsers(s)')
                                + Cardinality(CallsOf(s)') + Cardinality(ClientsOf(s)')
BY DEF SessionUsers, Is, ServiceUsers, CallsOf, ClientsOf

LEMMA ServiceMoves ==
    ASSUME NEW b \in Bindings, \A a \in Bindings \ {b} : svc'[a].session = svc[a].session,
           UNCHANGED <<call, client>>
    PROVE  \A s \in Slots : SessionUsers(s)' =
             AllUsers[s] + (Is(common_session', s) - Is(common_session, s))
                         + (Is(svc'[b].session, s) - Is(svc[b].session, s))
<1>. SUFFICES ASSUME NEW s \in Slots
              PROVE  SessionUsers(s)' =
                       AllUsers[s] + (Is(common_session', s) - Is(common_session, s))
                                   + (Is(svc'[b].session, s) - Is(svc[b].session, s))
  OBVIOUS
<1>1. /\ ServiceUsers(s) \in SUBSET Bindings /\ ServiceUsers(s)' \in SUBSET Bindings
      /\ \A y \in Bindings \ {b} : y \in ServiceUsers(s)' <=> y \in ServiceUsers(s)
      /\ b \in ServiceUsers(s) <=> svc[b].session = s
      /\ b \in ServiceUsers(s)' <=> svc'[b].session = s
  BY DEF ServiceUsers
<1>2. Cardinality(ServiceUsers(s)') = Cardinality(ServiceUsers(s)) + (Is(svc'[b].session, s) - Is(svc[b].session, s))
  BY <1>1, CountMoves, FiniteAssumption
<1>3. CallsOf(s)' = CallsOf(s) /\ ClientsOf(s)' = ClientsOf(s)
  BY DEF CallsOf, ClientsOf
<1>4. /\ Is(common_session, s) \in Nat /\ Is(common_session', s) \in Nat
      /\ Is(svc'[b].session, s) \in Nat /\ Is(svc[b].session, s) \in Nat
  BY IsType
<1>. QED  BY <1>2, <1>3, <1>4, UsersPrimed, UsersTyped

LEMMA CallMoves ==
    ASSUME NEW q \in Calls, \A p \in Calls \ {q} : call'[p].session = call[p].session,
           UNCHANGED <<common_session, svc, client>>
    PROVE  \A s \in Slots : SessionUsers(s)' =
             AllUsers[s] + (Is(call'[q].session, s) - Is(call[q].session, s))
<1>. SUFFICES ASSUME NEW s \in Slots
              PROVE  SessionUsers(s)' =
                       AllUsers[s] + (Is(call'[q].session, s) - Is(call[q].session, s))
  OBVIOUS
<1>1. /\ CallsOf(s) \in SUBSET Calls /\ CallsOf(s)' \in SUBSET Calls
      /\ \A y \in Calls \ {q} : y \in CallsOf(s)' <=> y \in CallsOf(s)
      /\ q \in CallsOf(s) <=> call[q].session = s
      /\ q \in CallsOf(s)' <=> call'[q].session = s
  BY DEF CallsOf
<1>2. Cardinality(CallsOf(s)') = Cardinality(CallsOf(s)) + (Is(call'[q].session, s) - Is(call[q].session, s))
  BY <1>1, CountMoves, FiniteAssumption
<1>3. ServiceUsers(s)' = ServiceUsers(s) /\ ClientsOf(s)' = ClientsOf(s)
  BY DEF ServiceUsers, ClientsOf
<1>4. /\ Is(common_session, s) \in Nat /\ Is(common_session', s) \in Nat
      /\ Is(call'[q].session, s) \in Nat /\ Is(call[q].session, s) \in Nat
  BY IsType
<1>. QED  BY <1>2, <1>3, <1>4, UsersPrimed, UsersTyped

LEMMA ClientMoves ==
    ASSUME NEW c \in Clients, \A d \in Clients \ {c} : client'[d] = client[d],
           UNCHANGED <<common_session, svc, call>>
    PROVE  \A s \in Slots : SessionUsers(s)' =
             AllUsers[s] + (Is(client'[c], s) - Is(client[c], s))
<1>. SUFFICES ASSUME NEW s \in Slots
              PROVE  SessionUsers(s)' = AllUsers[s] + (Is(client'[c], s) - Is(client[c], s))
  OBVIOUS
<1>1. /\ ClientsOf(s) \in SUBSET Clients /\ ClientsOf(s)' \in SUBSET Clients
      /\ \A y \in Clients \ {c} : y \in ClientsOf(s)' <=> y \in ClientsOf(s)
      /\ c \in ClientsOf(s) <=> client[c] = s
      /\ c \in ClientsOf(s)' <=> client'[c] = s
  BY DEF ClientsOf
<1>2. Cardinality(ClientsOf(s)') = Cardinality(ClientsOf(s)) + (Is(client'[c], s) - Is(client[c], s))
  BY <1>1, CountMoves, FiniteAssumption
<1>3. ServiceUsers(s)' = ServiceUsers(s) /\ CallsOf(s)' = CallsOf(s)
  BY DEF ServiceUsers, CallsOf
<1>4. /\ Is(common_session, s) \in Nat /\ Is(common_session', s) \in Nat
      /\ Is(client'[c], s) \in Nat /\ Is(client[c], s) \in Nat
  BY IsType
<1>. QED  BY <1>2, <1>3, <1>4, UsersPrimed, UsersTyped

LEMMA UsersSame ==
    ASSUME \A s \in Slots : SessionUsers(s)' = AllUsers[s]
    PROVE  AllUsers' = AllUsers
<1>1. AllUsers' = [s \in Slots |-> SessionUsers(s)']
  BY DEF AllUsers
<1>. QED  BY <1>1, UsersTyped

LEMMA UsersMore ==
    ASSUME NEW t \in Slots, \A s \in Slots : SessionUsers(s)' = AllUsers[s] + Is(t, s)
    PROVE  AllUsers' = OneMore(AllUsers, t)
<1>1. AllUsers' = [s \in Slots |-> SessionUsers(s)']
  BY DEF AllUsers
<1>2. AllUsers \in [Slots -> Nat]
  BY UsersTyped
<1>3. \A s \in Slots : OneMore(AllUsers, t)[s] = AllUsers[s] + Is(t, s)
  BY <1>2 DEF Is, OneMore
<1>4. OneMore(AllUsers, t) = [s \in Slots |-> OneMore(AllUsers, t)[s]]
  BY <1>2 DEF OneMore
<1>. QED  BY <1>1, <1>3, <1>4

LEMMA UsersLess ==
    ASSUME NEW t \in Slots, \A s \in Slots : SessionUsers(s)' = AllUsers[s] - Is(t, s)
    PROVE  AllUsers' = OneLess(AllUsers, t)
<1>1. AllUsers' = [s \in Slots |-> SessionUsers(s)']
  BY DEF AllUsers
<1>2. AllUsers \in [Slots -> Nat]
  BY UsersTyped
<1>3. \A s \in Slots : OneLess(AllUsers, t)[s] = AllUsers[s] - Is(t, s)
  BY <1>2 DEF Is, OneLess
<1>4. OneLess(AllUsers, t) = [s \in Slots |-> OneLess(AllUsers, t)[s]]
  BY <1>2 DEF OneLess
<1>. QED  BY <1>1, <1>3, <1>4

LEMMA UsersTwoMore ==
    ASSUME NEW t \in Slots, \A s \in Slots : SessionUsers(s)' = AllUsers[s] + Is(t, s) + Is(t, s)
    PROVE  AllUsers' = OneMore(OneMore(AllUsers, t), t)
<1>1. AllUsers' = [s \in Slots |-> SessionUsers(s)']
  BY DEF AllUsers
<1>2. AllUsers \in [Slots -> Nat]
  BY UsersTyped
<1>3. \A s \in Slots : OneMore(OneMore(AllUsers, t), t)[s] = AllUsers[s] + Is(t, s) + Is(t, s)
  BY <1>2 DEF Is, OneMore
<1>4. OneMore(OneMore(AllUsers, t), t) = [s \in Slots |-> OneMore(OneMore(AllUsers, t), t)[s]]
  BY <1>2 DEF OneMore
<1>. QED  BY <1>1, <1>3, <1>4

-----------------------------------------------------------------------------
(* The calls of the services and their proxies.                            *)

(* The users of a call, one by one.                                        *)
One(p) == IF p THEN 1 ELSE 0

LEMMA UsersOfCall ==
    ASSUME NEW r \in CallStates
    PROVE  /\ CallUsers(r) = One(r.job) + One(r.held) + One(r.subcall)
           /\ CallUsers(r) \in Nat /\ (CallUsers(r) > 0 <=> Uses(r))
<1> DEFINE J == IF r.job THEN {"job"} ELSE {}
           K == IF r.held THEN {"held"} ELSE {}
           L == IF r.subcall THEN {"subcall"} ELSE {}
<1>1. {f \in {"job", "held", "subcall"} : r[f]} = (J \cup K) \cup L
  OBVIOUS
<1>2. IsFiniteSet(J) /\ Cardinality(J) = One(r.job)
  <2>1. CASE r.job
    BY <2>1, FS_Singleton DEF One
  <2>2. CASE ~r.job
    BY <2>2, FS_EmptySet DEF One
  <2>. QED  BY <2>1, <2>2
<1>3. IsFiniteSet(J \cup K) /\ Cardinality(J \cup K) = One(r.job) + One(r.held)
  <2>0. "held" \notin J /\ One(r.job) \in Nat
    BY DEF One
  <2>1. CASE r.held
    <3>1. J \cup K = J \cup {"held"}
      BY <2>1
    <3>2. IsFiniteSet(J \cup {"held"}) /\ Cardinality(J \cup {"held"}) = Cardinality(J) + 1
      BY <1>2, <2>0, FS_AddElement
    <3>3. One(r.held) = 1
      BY <2>1 DEF One
    <3> HIDE DEF J, K
    <3>. QED  BY <1>2, <2>0, <3>1, <3>2, <3>3
  <2>2. CASE ~r.held
    <3>1. J \cup K = J
      BY <2>2
    <3>2. One(r.held) = 0
      BY <2>2 DEF One
    <3>3. IsFiniteSet(J \cup K) /\ Cardinality(J \cup K) = One(r.job)
      BY <1>2, <3>1, Zenon
    <3> HIDE DEF J, K
    <3>. QED  BY <2>0, <3>2, <3>3
  <2>. QED  BY <2>1, <2>2
<1>4. Cardinality((J \cup K) \cup L) = One(r.job) + One(r.held) + One(r.subcall)
  <2>0. "subcall" \notin J \cup K /\ One(r.job) \in Nat /\ One(r.held) \in Nat
    BY DEF One
  <2>1. CASE r.subcall
    <3>1. (J \cup K) \cup L = (J \cup K) \cup {"subcall"}
      BY <2>1
    <3> HIDE DEF J, K, L
    <3>2. Cardinality((J \cup K) \cup {"subcall"}) = Cardinality(J \cup K) + 1
      BY <1>3, <2>0, FS_AddElement
    <3>3. One(r.subcall) = 1
      BY <2>1 DEF One
    <3> HIDE DEF J, K, L
    <3>. QED  BY <1>3, <2>0, <3>1, <3>2, <3>3
  <2>2. CASE ~r.subcall
    <3>1. (J \cup K) \cup L = J \cup K
      BY <2>2
    <3>2. One(r.subcall) = 0
      BY <2>2 DEF One
    <3>3. Cardinality((J \cup K) \cup L) = One(r.job) + One(r.held)
      BY <1>3, <3>1, Zenon
    <3> HIDE DEF J, K, L
    <3>. QED  BY <2>0, <3>2, <3>3
  <2>. QED  BY <2>1, <2>2
<1>5. CallUsers(r) = One(r.job) + One(r.held) + One(r.subcall)
  BY <1>1, <1>4 DEF CallUsers
<1>. QED  BY <1>5 DEF One, Uses

GoodProxy(T) == T \in Proxies /\ (IsProxy(T) <=> T.observers # {})

(* The proxy T becomes t.proxy: it has its observers, or leaves them.      *)
Follows(H, T, t) ==
    /\ GoodProxy(t.proxy)
    /\ t.proxy.observers \in {T.observers, {}}
    /\ t.hooks = IF t.proxy.observers = {} THEN afb_hook_unref(H, T.observers) ELSE H

LEMMA AddRefFollows ==
    ASSUME NEW H, H = [h \in Hooks |-> H[h]], NEW T, GoodProxy(T)
    PROVE  /\ Follows(H, T, [hooks |-> H, proxy |-> hook_req_addref(T)])
           /\ IsProxy(T) => hook_req_addref(T).refcount = T.refcount + 1
<1>1. T.refcount \in Nat /\ T.observers \in SUBSET Hooks
  BY DEF GoodProxy, Proxies
<1>2. CASE IsProxy(T)
  <2> DEFINE U == [T EXCEPT !.refcount = @ + 1]
  <2>1. U \in Proxies /\ U.refcount = T.refcount + 1 /\ U.observers = T.observers
    BY <1>1 DEF GoodProxy, Proxies
  <2>2. U.observers # {} /\ U.refcount # 0
    BY <1>1, <1>2, <2>1 DEF GoodProxy
  <2> HIDE DEF U
  <2>3. hook_req_addref(T) = U
    BY <1>2 DEF hook_req_addref, U
  <2>. QED  BY <2>1, <2>2, <2>3 DEF Follows, GoodProxy, IsProxy
<1>3. CASE ~IsProxy(T)
  <2>1. hook_req_addref(T) = T /\ T.observers = {}
    BY <1>3 DEF hook_req_addref, GoodProxy
  <2>2. afb_hook_unref(H, {}) = H
    BY DEF afb_hook_unref
  <2>. QED  BY <1>3, <2>1, <2>2 DEF Follows
<1>. QED  BY <1>2, <1>3

LEMMA SameFollows ==
    ASSUME NEW H, H = [h \in Hooks |-> H[h]], NEW T, GoodProxy(T)
    PROVE  Follows(H, T, [hooks |-> H, proxy |-> T])
<1>1. afb_hook_unref(H, {}) = H
  BY DEF afb_hook_unref
<1>. QED  BY <1>1 DEF Follows

LEMMA UnrefFollows ==
    ASSUME NEW H, H = [h \in Hooks |-> H[h]], NEW T, GoodProxy(T)
    PROVE  /\ Follows(H, T, hook_req_unref(H, T))
           /\ IsProxy(T) => hook_req_unref(H, T).proxy.refcount = T.refcount - 1
           /\ ~IsProxy(T) => hook_req_unref(H, T) = [hooks |-> H, proxy |-> T]
<1>1. T.refcount \in Nat /\ T.observers \in SUBSET Hooks
  BY DEF GoodProxy, Proxies
<1>2. CASE T.refcount = 0
  <2>1. hook_req_unref(H, T) = [hooks |-> H, proxy |-> T]
    BY <1>2 DEF hook_req_unref
  <2>. QED  BY <1>2, <2>1, SameFollows DEF IsProxy
<1>3. CASE T.refcount = 1
  <2>1. hook_req_unref(H, T) = [hooks |-> afb_hook_unref(H, T.observers), proxy |-> NoProxy]
    BY <1>3 DEF hook_req_unref
  <2>2. GoodProxy(NoProxy) /\ NoProxy.observers = {} /\ NoProxy.refcount = 0
    BY DEF GoodProxy, NoProxy, Proxies, IsProxy
  <2>. QED  BY <1>3, <2>1, <2>2 DEF Follows, IsProxy
<1>4. CASE T.refcount # 0 /\ T.refcount # 1
  <2> DEFINE U == [T EXCEPT !.refcount = @ - 1]
  <2>1. hook_req_unref(H, T) = [hooks |-> H, proxy |-> U]
    BY <1>4 DEF hook_req_unref
  <2>2. T.refcount - 1 \in Nat /\ T.refcount - 1 # 0
    BY <1>1, <1>4
  <2>3. U \in Proxies /\ U.refcount = T.refcount - 1 /\ U.observers = T.observers
    BY <1>1, <2>2 DEF GoodProxy, Proxies
  <2> HIDE DEF U
  <2>4. T.observers # {} /\ GoodProxy(U)
    BY <1>4, <2>2, <2>3 DEF GoodProxy, IsProxy
  <2>5. IsProxy(T) /\ U.observers # {}
    BY <1>4, <2>3, <2>4 DEF IsProxy
  <2>. QED  BY <2>1, <2>3, <2>4, <2>5 DEF Follows
<1>. QED  BY <1>2, <1>3, <1>4

LEMMA FollowsTrans ==
    ASSUME NEW H, H = [h \in Hooks |-> H[h]], NEW T, GoodProxy(T), NEW t, NEW u,
           Follows(H, T, t), Follows(t.hooks, t.proxy, u)
    PROVE  Follows(H, T, u)
<1>1. CASE t.proxy.observers = {}
  <2>1. t.hooks = afb_hook_unref(H, T.observers) /\ u.proxy.observers = {}
    BY <1>1 DEF Follows
  <2>2. afb_hook_unref(t.hooks, {}) = t.hooks
    BY <2>1 DEF afb_hook_unref
  <2>. QED  BY <1>1, <2>1, <2>2 DEF Follows
<1>2. CASE t.proxy.observers # {}
  BY <1>2 DEF Follows
<1>. QED  BY <1>1, <1>2

LEMMA RepliedFollows ==
    ASSUME NEW H, H = [h \in Hooks |-> H[h]], NEW T, GoodProxy(T), NEW how \in {"reply", "send"}
    PROVE  /\ Follows(H, T, Replied(H, T, how))
           /\ IsProxy(T) => Replied(H, T, how).proxy.refcount
                              = T.refcount - (IF how = "send" THEN 0 ELSE 1)
<1>1. T.refcount \in Nat
  BY DEF GoodProxy, Proxies
<1>2. CASE how = "send"
  <2>1. Replied(H, T, how) = [hooks |-> H, proxy |-> T]
    BY <1>2 DEF Replied
  <2>. QED  BY <1>1, <1>2, <2>1, SameFollows
<1>3. CASE how = "reply"
  <2>1. Replied(H, T, how) = hook_req_unref(H, T)
    BY <1>3 DEF Replied
  <2>. QED  BY <1>3, <2>1, UnrefFollows
<1>. QED  BY <1>2, <1>3

(* A call that is used.                                                    *)
LEMMA CallFacts ==
    ASSUME ServicesIInv, NEW q \in Calls, Called(q)
    PROVE  /\ phase # "undefined" /\ call[q] \in CallStates /\ CallInv(call[q])
           /\ call[q].session \in Slots /\ AllUsers[call[q].session] > 0
           /\ store[call[q].session] # NoSession
           /\ GoodProxy(call[q].proxy) /\ hooks = [h \in Hooks |-> hooks[h]]
<1>1. phase # "undefined" /\ call[q].st = "called"
  BY DEF Called, Runs
<1>2. call[q] \in CallStates /\ CallInv(call[q]) /\ hooks = [h \in Hooks |-> hooks[h]]
  BY <1>1 DEF ServicesIInv, ServicesTypeOK, CallsInv
<1>3. call[q].session \in Slots
  <2>1. call[q].session \in Slots \cup {0}
    BY <1>2 DEF CallStates
  <2>. QED  BY <1>1, <1>2, <2>1 DEF CallInv
<1>4. AllUsers[call[q].session] > 0
  BY <1>3, UsedSession DEF ServicesIInv
<1>5. store[call[q].session] # NoSession
  BY <1>3, <1>4 DEF ServicesIInv, Sound
<1>6. GoodProxy(call[q].proxy)
  <2>1. call[q].proxy \in Proxies
    BY <1>2 DEF CallStates
  <2>. QED  BY <1>1, <1>2, <2>1 DEF CallInv, GoodProxy
<1>. QED  BY <1>1, <1>2, <1>3, <1>4, <1>5, <1>6

(* The end of a call leaves its session, closed first when it was asked.   *)
LEMMA LastUnref ==
    ASSUME ServicesIInv, NEW q \in Calls, Called(q)
    PROVE  /\ Sound(svcreq_unref(q), OneLess(AllUsers, call[q].session))
           /\ UniqueUuids(svcreq_unref(q)) /\ Fades(store, svcreq_unref(q))
<1> DEFINE s == call[q].session
           st == IF call[q].closing THEN ctxClientClose(store, s) ELSE store
<1>1. s \in Slots /\ AllUsers[s] > 0 /\ store[s] # NoSession
  BY CallFacts
<1>2. Sound(store, AllUsers) /\ UniqueUuids(store) /\ store \in Stores
  BY DEF ServicesIInv, Sound
<1> HIDE DEF s
<1>3. Sound(st, AllUsers) /\ UniqueUuids(st) /\ Fades(store, st)
  <2>1. CASE call[q].closing
    BY <1>1, <1>2, <2>1, CloseSound, CloseFades, FadesUnique
  <2>2. CASE ~call[q].closing
    BY <1>2, <2>2 DEF Fades
  <2>. QED  BY <2>1, <2>2
<1> HIDE DEF st
<1>4. st \in Stores /\ st[s] # NoSession
  BY <1>1, <1>3 DEF Sound
<1>5. Sound(ctxClientUnref(st, s), OneLess(AllUsers, s))
  BY <1>1, <1>3, UnrefSound
<1>6. UniqueUuids(ctxClientUnref(st, s)) /\ Fades(store, ctxClientUnref(st, s))
  BY <1>1, <1>3, <1>4, UnrefFades, FadesUnique, FadesTrans
<1>. QED  BY <1>5, <1>6 DEF svcreq_unref, st, s

(* The counts of the hooks when a proxy goes on or leaves them.            *)
LEMMA HooksAfter ==
    ASSUME ServicesTypeOK, HooksInv, NEW q \in Calls, NEW t,
           Follows(hooks, call[q].proxy, t), hooks' = t.hooks,
           call'[q].proxy.observers = t.proxy.observers,
           \A p \in Calls \ {q} : call'[p].proxy = call[p].proxy
    PROVE  HooksInv' /\ hooks' \in [Hooks -> Nat]
<1> DEFINE T == call[q].proxy
<1>1. ASSUME NEW h \in Hooks
      PROVE  hooks'[h] = 1 + Cardinality(Observed(h)') /\ hooks'[h] \in Nat
  <2>1. /\ IsFiniteSet(Observed(h)) /\ Cardinality(Observed(h)) \in Nat
        /\ hooks[h] = 1 + Cardinality(Observed(h))
    <3>1. Observed(h) \in SUBSET Calls
      BY DEF Observed
    <3>2. IsFiniteSet(Observed(h))
      BY <3>1, FiniteAssumption, FS_Subset
    <3>. QED  BY <3>2, FS_CardinalityType DEF HooksInv
  <2>2. CASE t.proxy.observers = {} /\ h \in T.observers
    <3>1. Observed(h)' = Observed(h) \ {q} /\ q \in Observed(h)
      BY <2>2 DEF Observed
    <3>2. Cardinality(Observed(h)') = Cardinality(Observed(h)) - 1
      BY <2>1, <3>1, FS_RemoveElement
    <3>3. Cardinality(Observed(h)) # 0
      BY <2>1, <3>1, FS_EmptySet
    <3>4. hooks'[h] = hooks[h] - 1
      BY <2>2 DEF Follows, afb_hook_unref
    <3>. QED  BY <2>1, <3>2, <3>3, <3>4
  <2>3. CASE ~(t.proxy.observers = {} /\ h \in T.observers)
    <3>1. h \in call'[q].proxy.observers <=> h \in T.observers
      BY <2>3 DEF Follows
    <3>2. Observed(h)' = Observed(h)
      BY <3>1 DEF Observed
    <3>3. hooks'[h] = hooks[h]
      BY <2>3 DEF Follows, afb_hook_unref
    <3>. QED  BY <2>1, <3>2, <3>3
  <2>. QED  BY <2>2, <2>3
<1>2. hooks' = [h \in Hooks |-> hooks'[h]]
  BY DEF Follows, afb_hook_unref, ServicesTypeOK
<1>3. hooks' \in [Hooks -> Nat]
  BY <1>1, <1>2
<1>. QED  BY <1>1, <1>3 DEF HooksInv

(* A client that has the session of a service still has it closed.         *)
LEMMA ClientsStay ==
    ASSUME ServicesInv, Fades(store, store'), ServiceSlots' = ServiceSlots, UNCHANGED client
    PROVE  \A c \in Clients :
              client'[c] \in (ServiceSlots \cap Used(store))' => ~IsOpen(store'[client'[c]])
<1>. SUFFICES ASSUME NEW c \in Clients, client[c] \in ServiceSlots \cap Used(store)'
              PROVE  ~IsOpen(store'[client[c]])
  OBVIOUS
<1> DEFINE s == client[c]
<1>1. s \in Slots /\ store'[s] # NoSession
  BY DEF Used
<1>2. store[s] # NoSession /\ (store'[s].uuid = store[s].uuid \/ ~IsOpen(store'[s]))
  BY <1>1 DEF Fades
<1>3. s \in ServiceSlots \cap Used(store)
  BY <1>1, <1>2 DEF Used
<1>4. ~IsOpen(store[s])
  BY <1>3 DEF ServicesInv
<1>. QED  BY <1>2, <1>4 DEF IsOpen

(* The state of q becomes r, its proxy and the hooks become t.             *)
LEMMA BecomesStep ==
    ASSUME ServicesIInv, NEW q \in Calls, Called(q), NEW r \in CallStates, NEW t,
           r.st = "called", r.session = call[q].session, r.how = "none" <=> ~Answered(r),
           Follows(hooks, call[q].proxy, t),
           IsProxy(call[q].proxy) => Twice(r) \/ t.proxy.refcount = CallUsers(r) + ToReply(r),
           Becomes(q, r, t)
    PROVE  ServicesIInv'
<1> DEFINE T == call[q].proxy
           s == call[q].session
           ends == IF T.observers = {} THEN ~Uses(r) ELSE ~IsProxy(t.proxy)
           e == [r EXCEPT !.proxy = t.proxy, !.session = IF ends THEN 0 ELSE @]
           n == IF ends /\ ~Uses(r) THEN NoCall ELSE e
<1>1. /\ phase # "undefined" /\ call[q] \in CallStates /\ CallInv(call[q])
      /\ s \in Slots /\ GoodProxy(T)
  BY CallFacts
<1>2. /\ hooks' = t.hooks /\ call' = [call EXCEPT ![q] = n]
      /\ store' = IF ends THEN svcreq_unref(q) ELSE store
      /\ phase' = IF ends /\ Uses(r) THEN "undefined" ELSE phase
      /\ UNCHANGED <<now, lastToken, dir, todo, apis, common_session, svc, client>>
  BY DEF Becomes
<1>3. /\ t.proxy \in Proxies /\ (IsProxy(t.proxy) <=> t.proxy.observers # {})
      /\ t.proxy.observers \in {T.observers, {}}
  BY DEF Follows, GoodProxy
<1>4. /\ e \in CallStates /\ e.st = "called" /\ e.how = r.how /\ e.job = r.job
      /\ e.held = r.held /\ e.subcall = r.subcall
      /\ e.answered = r.answered /\ e.failed = r.failed /\ e.proxy = t.proxy
      /\ e.session = IF ends THEN 0 ELSE s
  BY <1>1, <1>3 DEF CallStates
<1>5. NoCall \in CallStates /\ NoCall.session = 0 /\ NoCall.proxy = NoProxy /\ NoCall.st = "none"
  BY DEF NoCall, CallStates, NoProxy, Proxies
<1> HIDE DEF e
<1>6. n \in CallStates /\ n.session = IF ends THEN 0 ELSE s
  BY <1>4, <1>5
<1>7. n.proxy.observers = t.proxy.observers
  <2>1. CASE ends /\ ~Uses(r)
    <3>1. t.proxy.observers = {}
      BY <1>3, <2>1
    <3>. QED  BY <1>5, <2>1, <3>1 DEF NoProxy
  <2>2. CASE ~(ends /\ ~Uses(r))
    BY <1>4, <2>2
  <2>. QED  BY <2>1, <2>2
<1> HIDE DEF n, ends
<1>8. /\ call \in [Calls -> CallStates] /\ call' \in [Calls -> CallStates] /\ call'[q] = n
      /\ \A p \in Calls \ {q} : call'[p] = call[p]
  BY <1>2, <1>6 DEF ServicesIInv, ServicesTypeOK
<1>9. HooksInv' /\ hooks' \in [Hooks -> Nat]
  <2>1. ServicesTypeOK /\ HooksInv
    BY DEF ServicesIInv
  <2>. QED  BY <1>2, <1>7, <1>8, <2>1, HooksAfter
<1>10. \A i \in Slots : SessionUsers(i)' = AllUsers[i] + (Is(n.session, i) - Is(s, i))
  <2>1. \A p \in Calls \ {q} : call'[p].session = call[p].session
    BY <1>8
  <2>2. UNCHANGED <<common_session, svc, client>>
    BY <1>2
  <2>. QED  BY <1>8, <2>1, <2>2, CallMoves
<1>11. Sound(store, AllUsers)' /\ UniqueUuids(store)'
  <2>1. CASE ends
    <3>1. \A i \in Slots : Is(n.session, i) = 0 /\ Is(s, i) \in Nat /\ AllUsers[i] \in Nat
      BY <1>6, <2>1, UsersTyped, IsType, StoreAssumption DEF Is, Slots
    <3>2. \A i \in Slots : SessionUsers(i)' = AllUsers[i] - Is(s, i)
      BY <1>10, <3>1
    <3>3. AllUsers' = OneLess(AllUsers, s)
      BY <1>1, <3>2, UsersLess
    <3>. QED  BY <1>2, <2>1, <3>3, LastUnref
  <2>2. CASE ~ends
    <3>1. \A i \in Slots : Is(n.session, i) = Is(s, i) /\ Is(s, i) \in Nat /\ AllUsers[i] \in Nat
      BY <1>6, <2>2, UsersTyped, IsType
    <3>2. \A i \in Slots : SessionUsers(i)' = AllUsers[i]
      BY <1>10, <3>1
    <3>3. AllUsers' = AllUsers
      BY <3>2, UsersSame
    <3>. QED  BY <1>2, <2>2, <3>3 DEF ServicesIInv
  <2>. QED  BY <2>1, <2>2
<1>12. ServicesTypeOK'
  <2>1. store' \in Stores
    BY <1>11 DEF Sound
  <2>. QED  BY <1>2, <1>8, <1>9, <2>1 DEF ServicesIInv, ServicesTypeOK, SessionTypeOK
<1>13. ServicesInv' /\ NamesInv'
  <2>1. Fades(store, store')
    <3>1. store' = store \/ store' = svcreq_unref(q)
      BY <1>2
    <3>2. Fades(store, store)
      BY DEF Fades
    <3>. QED  BY <3>1, <3>2, LastUnref
  <2>2. ServiceSlots' = ServiceSlots
    BY <1>2 DEF ServiceSlots
  <2>3. ServicesInv
    BY DEF ServicesIInv
  <2>4. phase' \in {"paths", "items", "services"} => phase' = phase
    BY <1>2
  <2>5. \A c \in Clients :
           client'[c] \in (ServiceSlots \cap Used(store))' => ~IsOpen(store'[client'[c]])
    BY <1>2, <2>1, <2>2, <2>3, ClientsStay
  <2>. QED  BY <1>2, <2>3, <2>4, <2>5 DEF ServicesIInv, ServicesInv, NamesInv
<1>14. Twice(e) <=> Twice(r)
  BY <1>4 DEF Twice
<1>15. CallsInv'
  <2>. SUFFICES ASSUME phase' # "undefined", NEW p \in Calls
                PROVE  CallInv(call'[p])
    BY DEF CallsInv
  <2>1. CASE p # q
    BY <1>1, <1>8, <2>1 DEF ServicesIInv, CallsInv
  <2>2. CASE p = q /\ ends
    <3>1. n = NoCall
      BY <1>2, <2>2 DEF n
    <3>. QED  BY <1>5, <1>8, <2>2, <3>1 DEF CallInv
  <2>3. CASE p = q /\ ~ends
    <3>1. call'[p] = e
      BY <1>8, <2>3 DEF n
    <3>2. e.session # 0
      BY <1>1, <1>4, <2>3, StoreAssumption DEF Slots
    <3>3. e.how = "none" <=> ~Answered(e)
      BY <1>4 DEF Answered
    <3>4. CallUsers(e) = CallUsers(r) /\ ToReply(e) = ToReply(r) /\ (Uses(e) <=> Uses(r))
      <4>1. CallUsers(e) = CallUsers(r)
        BY <1>4, UsersOfCall
      <4>. QED  BY <1>4, <4>1 DEF ToReply, Answered, Uses
    <3>5. IF IsProxy(t.proxy) THEN IsProxy(T) ELSE T.observers = {}
      BY <1>1, <1>3, <2>3 DEF ends, GoodProxy
    <3>6. IF IsProxy(e.proxy) THEN Twice(e) \/ e.proxy.refcount = CallUsers(e) + ToReply(e)
          ELSE Uses(e)
      <4>1. CASE IsProxy(t.proxy)
        BY <1>4, <1>14, <3>4, <3>5, <4>1
      <4>2. CASE ~IsProxy(t.proxy)
        <5>1. Uses(r)
          BY <2>3, <3>5, <4>2 DEF ends
        <5>. QED  BY <1>4, <3>4, <4>2, <5>1
      <4>. QED  BY <4>1, <4>2
    <3>. QED  BY <1>3, <1>4, <3>1, <3>2, <3>3, <3>6 DEF CallInv
  <2>. QED  BY <2>1, <2>2, <2>3
<1>16. TwiceInv'
  <2>. SUFFICES ASSUME phase' = "undefined" PROVE Twice(call'[q])
    BY DEF TwiceInv
  <2>1. ends /\ Uses(r)
    BY <1>1, <1>2
  <2>2. T.observers # {} /\ ~IsProxy(t.proxy)
    BY <2>1 DEF ends
  <2>3. t.proxy.refcount = 0 /\ IsProxy(T)
    BY <1>1, <2>2 DEF IsProxy, GoodProxy
  <2>4. CallUsers(r) > 0 /\ CallUsers(r) \in Nat /\ ToReply(r) \in Nat
    BY <2>1, UsersOfCall DEF ToReply
  <2>5. Twice(r)
    BY <2>3, <2>4
  <2>6. call'[q] = e
    BY <1>8, <2>1 DEF n
  <2>. QED  BY <1>14, <2>5, <2>6
<1>. QED  BY <1>9, <1>11, <1>12, <1>13, <1>15, <1>16 DEF ServicesIInv

-----------------------------------------------------------------------------
(* The steps of the calls.                                                 *)

(* r is x answered.                                                        *)
AnsweredAs(x, r, who, how) ==
    /\ r \in CallStates /\ r.st = x.st /\ r.session = x.session
    /\ r.job = x.job /\ r.held = x.held /\ r.subcall = x.subcall
    /\ CallUsers(r) = CallUsers(x)
    /\ Answered(r) /\ r.how # "none" /\ (x.how = "none" => r.how = how)
    /\ who = "verb" => (Twice(r) <=> x.failed)
    /\ who = "signal" => (Twice(r) <=> x.answered)

LEMMA AnsweredByFacts ==
    ASSUME NEW x \in CallStates, NEW who \in {"verb", "signal"}, NEW how \in {"reply", "send"}
    PROVE  AnsweredAs(x, AnsweredBy(x, who, how), who, how)
<1> DEFINE r == AnsweredBy(x, who, how)
<1>1. /\ r \in CallStates /\ r.st = x.st /\ r.session = x.session
      /\ r.job = x.job /\ r.held = x.held /\ r.subcall = x.subcall
      /\ r.how = IF x.how = "none" THEN how ELSE x.how
  <2> DEFINE a == x.answered \/ who = "verb"
             f == x.failed \/ who = "signal"
             w == IF x.how = "none" THEN how ELSE x.how
  <2>1. a \in BOOLEAN /\ f \in BOOLEAN /\ w \in {"none", "reply", "send"}
    BY DEF CallStates
  <2>2. r = [x EXCEPT !.answered = a, !.failed = f, !.how = w]
    BY DEF AnsweredBy
  <2> HIDE DEF a, f, w, r
  <2>3. /\ r \in CallStates /\ r.st = x.st /\ r.session = x.session
        /\ r.job = x.job /\ r.held = x.held /\ r.subcall = x.subcall /\ r.how = w
    BY <2>1, <2>2 DEF CallStates
  <2>. QED  BY <2>3 DEF w
<1>2. /\ who = "verb" => r.answered /\ r.failed = x.failed
      /\ who = "signal" => r.failed /\ r.answered = x.answered
  BY DEF AnsweredBy, CallStates
<1> HIDE DEF r
<1>3. CallUsers(r) = CallUsers(x)
  BY <1>1, UsersOfCall
<1>4. /\ Answered(r) /\ r.how # "none"
      /\ who = "verb" => (Twice(r) <=> x.failed)
      /\ who = "signal" => (Twice(r) <=> x.answered)
  BY <1>1, <1>2 DEF Answered, Twice
<1>5. AnsweredAs(x, r, who, how)
  BY <1>1, <1>3, <1>4 DEF AnsweredAs
<1>. QED  BY <1>5 DEF r

(* The reply of a call that was not answered, if it is not the second one. *)
LEMMA ReplyCounts ==
    ASSUME ServicesIInv, NEW q \in Calls, Called(q),
           NEW who \in {"verb", "signal"}, NEW how \in {"reply", "send"},
           who = "verb" => ~call[q].answered, who = "signal" => ~call[q].failed,
           Becomes(q, AnsweredBy(call[q], who, how), Replied(hooks, call[q].proxy, how))
    PROVE  ServicesIInv'
<1> DEFINE x == call[q]
           T == call[q].proxy
           r == AnsweredBy(x, who, how)
           t == Replied(hooks, T, how)
<1>1. x \in CallStates /\ CallInv(x) /\ GoodProxy(T) /\ hooks = [h \in Hooks |-> hooks[h]] /\ x.st = "called"
  BY CallFacts DEF Called
<1>2. /\ r \in CallStates /\ r.st = x.st /\ r.session = x.session
      /\ CallUsers(r) = CallUsers(x)
      /\ Answered(r) /\ r.how # "none" /\ (x.how = "none" => r.how = how)
      /\ who = "verb" => (Twice(r) <=> x.failed)
      /\ who = "signal" => (Twice(r) <=> x.answered)
  <2>1. AnsweredAs(x, r, who, how)
    BY <1>1, AnsweredByFacts
  <2> HIDE DEF r
  <2>. QED  BY <2>1 DEF AnsweredAs
<1>3. /\ Follows(hooks, T, t)
      /\ IsProxy(T) => t.proxy.refcount = T.refcount - (IF how = "send" THEN 0 ELSE 1)
  BY <1>1, RepliedFollows
<1>4. ASSUME IsProxy(T), ~Twice(r)
      PROVE  t.proxy.refcount = CallUsers(r) + ToReply(r)
  <2>1. ~x.answered /\ ~x.failed
    BY <1>2, <1>4
  <2>2. ~Answered(x) /\ ~Twice(x) /\ ToReply(x) = 1
    BY <2>1 DEF Answered, Twice, ToReply
  <2>3. T.refcount = CallUsers(x) + 1 /\ x.how = "none"
    BY <1>1, <1>4, <2>2 DEF CallInv
  <2>4. ToReply(r) = IF how = "send" THEN 1 ELSE 0
    BY <1>2, <2>3 DEF ToReply
  <2>5. CallUsers(x) \in Nat
    BY <1>1, UsersOfCall
  <2> HIDE DEF r, t
  <2>. QED  BY <1>2, <1>3, <1>4, <2>3, <2>4, <2>5
<1> HIDE DEF r, t
<1>5. Becomes(q, r, t)
  BY DEF r, t
<1>. QED  BY <1>1, <1>2, <1>3, <1>4, <1>5, BecomesStep

LEMMA AnswerStep == ASSUME ServicesIInv, NEW q \in Calls, Answer(q) PROVE ServicesIInv'
BY ReplyCounts DEF Answer

LEMMA InterruptStep == ASSUME ServicesIInv, NEW q \in Calls, Interrupt(q) PROVE ServicesIInv'
BY ReplyCounts DEF Interrupt

(* One user more, one user less: r has the same answers.                   *)
SameAnswers(x, r) ==
    /\ r \in CallStates /\ r.st = x.st /\ r.session = x.session /\ r.how = x.how
    /\ r.answered = x.answered /\ r.failed = x.failed

LEMMA SameAnswersFacts ==
    ASSUME NEW x, NEW r, SameAnswers(x, r)
    PROVE  (Answered(r) <=> Answered(x)) /\ (Twice(r) <=> Twice(x)) /\ ToReply(r) = ToReply(x)
BY DEF SameAnswers, Answered, Twice, ToReply

LEMMA TakenStep ==
    ASSUME ServicesIInv, NEW q \in Calls, Called(q), NEW r, SameAnswers(call[q], r),
           CallUsers(r) = CallUsers(call[q]) + 1, Taken(q, r)
    PROVE  ServicesIInv'
<1> DEFINE x == call[q]
           T == call[q].proxy
           t == [hooks |-> hooks, proxy |-> hook_req_addref(T)]
<1>1. x \in CallStates /\ CallInv(x) /\ GoodProxy(T) /\ hooks = [h \in Hooks |-> hooks[h]] /\ x.st = "called"
  BY CallFacts DEF Called
<1>2. Follows(hooks, T, t) /\ (IsProxy(T) => t.proxy.refcount = T.refcount + 1)
  BY <1>1, AddRefFollows
<1>3. /\ r \in CallStates /\ r.st = "called" /\ r.session = x.session
      /\ r.how = "none" <=> ~Answered(r)
      /\ Twice(r) <=> Twice(x)
      /\ ToReply(r) = ToReply(x) /\ ToReply(x) \in Nat /\ CallUsers(x) \in Nat
  BY <1>1, SameAnswersFacts, UsersOfCall DEF SameAnswers, CallInv, ToReply
<1>4. IsProxy(T) => Twice(r) \/ t.proxy.refcount = CallUsers(r) + ToReply(r)
  BY <1>1, <1>2, <1>3 DEF CallInv
<1> HIDE DEF t
<1>5. Becomes(q, r, t)
  BY DEF Taken, t
<1>. QED  BY <1>2, <1>3, <1>4, <1>5, BecomesStep

LEMMA DroppedStep ==
    ASSUME ServicesIInv, NEW q \in Calls, Called(q), NEW r, SameAnswers(call[q], r),
           CallUsers(r) = CallUsers(call[q]) - 1, Dropped(q, r)
    PROVE  ServicesIInv'
<1> DEFINE x == call[q]
           T == call[q].proxy
           t == hook_req_unref(hooks, T)
<1>1. x \in CallStates /\ CallInv(x) /\ GoodProxy(T) /\ hooks = [h \in Hooks |-> hooks[h]] /\ x.st = "called"
  BY CallFacts DEF Called
<1>2. Follows(hooks, T, t) /\ (IsProxy(T) => t.proxy.refcount = T.refcount - 1)
  BY <1>1, UnrefFollows
<1> HIDE DEF t
<1>3. /\ r \in CallStates /\ r.st = "called" /\ r.session = x.session
      /\ r.how = "none" <=> ~Answered(r)
      /\ Twice(r) <=> Twice(x)
      /\ ToReply(r) = ToReply(x) /\ ToReply(x) \in Nat /\ CallUsers(x) \in Nat
  BY <1>1, SameAnswersFacts, UsersOfCall DEF SameAnswers, CallInv, ToReply
<1>4. IsProxy(T) => Twice(r) \/ t.proxy.refcount = CallUsers(r) + ToReply(r)
  BY <1>1, <1>2, <1>3 DEF CallInv
<1>5. Becomes(q, r, t)
  BY DEF Dropped, t
<1>. QED  BY <1>2, <1>3, <1>4, <1>5, BecomesStep

(* The users of a call that is taken or dropped.                           *)
Counted(x, r, p, o) ==
    /\ SameAnswers(x, r)
    /\ p /\ ~o => CallUsers(r) = CallUsers(x) + 1
    /\ ~p /\ o => CallUsers(r) = CallUsers(x) - 1

LEMMA OneUser ==
    ASSUME NEW x \in CallStates, NEW p \in BOOLEAN
    PROVE  /\ Counted(x, [x EXCEPT !.job = p], p, x.job)
           /\ Counted(x, [x EXCEPT !.held = p], p, x.held)
           /\ Counted(x, [x EXCEPT !.subcall = p], p, x.subcall)
<1>1. Counted(x, [x EXCEPT !.job = p], p, x.job)
  <2> DEFINE r == [x EXCEPT !.job = p]
  <2>1. SameAnswers(x, r) /\ r.job = p /\ r.held = x.held /\ r.subcall = x.subcall /\ r \in CallStates
    BY DEF SameAnswers, CallStates
  <2> HIDE DEF r
  <2>2. Counted(x, r, p, x.job)
    BY <2>1, UsersOfCall DEF Counted, One
  <2>. QED  BY <2>2 DEF r
<1>2. Counted(x, [x EXCEPT !.held = p], p, x.held)
  <2> DEFINE r == [x EXCEPT !.held = p]
  <2>1. SameAnswers(x, r) /\ r.held = p /\ r.job = x.job /\ r.subcall = x.subcall /\ r \in CallStates
    BY DEF SameAnswers, CallStates
  <2> HIDE DEF r
  <2>2. Counted(x, r, p, x.held)
    BY <2>1, UsersOfCall DEF Counted, One
  <2>. QED  BY <2>2 DEF r
<1>3. Counted(x, [x EXCEPT !.subcall = p], p, x.subcall)
  <2> DEFINE r == [x EXCEPT !.subcall = p]
  <2>1. SameAnswers(x, r) /\ r.subcall = p /\ r.job = x.job /\ r.held = x.held /\ r \in CallStates
    BY DEF SameAnswers, CallStates
  <2> HIDE DEF r
  <2>2. Counted(x, r, p, x.subcall)
    BY <2>1, UsersOfCall DEF Counted, One
  <2>. QED  BY <2>2 DEF r
<1>. QED  BY <1>1, <1>2, <1>3

LEMMA HoldStep == ASSUME ServicesIInv, NEW q \in Calls, Hold(q) PROVE ServicesIInv'
<1> DEFINE r == [call[q] EXCEPT !.held = TRUE]
<1>1. Called(q) /\ ~call[q].held /\ Taken(q, r)
  BY DEF Hold
<1>2. Counted(call[q], r, TRUE, call[q].held)
  BY <1>1, CallFacts, OneUser
<1> HIDE DEF r
<1>3. SameAnswers(call[q], r) /\ CallUsers(r) = CallUsers(call[q]) + 1
  BY <1>1, <1>2 DEF Counted
<1>. QED  BY <1>1, <1>3, TakenStep

LEMMA UnholdStep == ASSUME ServicesIInv, NEW q \in Calls, Unhold(q) PROVE ServicesIInv'
<1> DEFINE r == [call[q] EXCEPT !.held = FALSE]
<1>1. Called(q) /\ call[q].held /\ Dropped(q, r)
  BY DEF Unhold
<1>2. Counted(call[q], r, FALSE, call[q].held)
  BY <1>1, CallFacts, OneUser
<1> HIDE DEF r
<1>3. SameAnswers(call[q], r) /\ CallUsers(r) = CallUsers(call[q]) - 1
  BY <1>1, <1>2 DEF Counted
<1>. QED  BY <1>1, <1>3, DroppedStep

LEMMA JobEndStep == ASSUME ServicesIInv, NEW q \in Calls, JobEnd(q) PROVE ServicesIInv'
<1> DEFINE r == [call[q] EXCEPT !.job = FALSE]
<1>1. Called(q) /\ call[q].job /\ Dropped(q, r)
  BY DEF JobEnd
<1>2. Counted(call[q], r, FALSE, call[q].job)
  BY <1>1, CallFacts, OneUser
<1> HIDE DEF r
<1>3. SameAnswers(call[q], r) /\ CallUsers(r) = CallUsers(call[q]) - 1
  BY <1>1, <1>2 DEF Counted
<1>. QED  BY <1>1, <1>3, DroppedStep

LEMMA SubcallTakenStep ==
    ASSUME ServicesIInv, NEW q \in Calls, req_hook_subcall(q) PROVE ServicesIInv'
<1> DEFINE r == [call[q] EXCEPT !.subcall = TRUE]
<1>1. Called(q) /\ ~call[q].subcall /\ Taken(q, r)
  BY DEF req_hook_subcall
<1>2. Counted(call[q], r, TRUE, call[q].subcall)
  BY <1>1, CallFacts, OneUser
<1> HIDE DEF r
<1>3. SameAnswers(call[q], r) /\ CallUsers(r) = CallUsers(call[q]) + 1
  BY <1>1, <1>2 DEF Counted
<1>. QED  BY <1>1, <1>3, TakenStep

(* The result of a subcall: its reference is dropped, the callback of the  *)
(* subcall may then answer.                                                *)
LEMMA SubcallResultStep ==
    ASSUME ServicesIInv, NEW q \in Calls, SubcallResult(q) PROVE ServicesIInv'
<1> DEFINE x == call[q]
           T == call[q].proxy
           t == hook_req_unref(hooks, T)
           r == [x EXCEPT !.subcall = FALSE]
<1>1. Called(q) /\ x.subcall
  BY DEF SubcallResult
<1>2. /\ x \in CallStates /\ CallInv(x) /\ GoodProxy(T) /\ hooks = [h \in Hooks |-> hooks[h]]
      /\ x.st = "called" /\ CallUsers(x) \in Nat
  BY <1>1, CallFacts, UsersOfCall DEF Called
<1>3. SameAnswers(x, r) /\ CallUsers(r) = CallUsers(x) - 1
  <2>1. Counted(x, r, FALSE, x.subcall)
    BY <1>2, OneUser
  <2> HIDE DEF r
  <2>. QED  BY <1>1, <2>1 DEF Counted
<1>4. /\ Follows(hooks, T, t)
      /\ IsProxy(T) => t.proxy.refcount = T.refcount - 1
  BY <1>2, UnrefFollows
<1>5. CASE Becomes(q, r, t)
  <2>1. Dropped(q, r)
    BY <1>5 DEF Dropped
  <2> HIDE DEF r
  <2>. QED  BY <1>1, <1>3, <2>1, DroppedStep
<1>6. ASSUME ~r.answered, NEW how \in {"reply", "send"},
             Becomes(q, AnsweredBy(r, "verb", how), Replied(t.hooks, t.proxy, how))
      PROVE  ServicesIInv'
  <2> DEFINE v == AnsweredBy(r, "verb", how)
             u == Replied(t.hooks, t.proxy, how)
  <2>1. t.hooks = [h \in Hooks |-> t.hooks[h]] /\ GoodProxy(t.proxy)
    <3>1. t.hooks = hooks \/ t.hooks = afb_hook_unref(hooks, T.observers)
      BY <1>4 DEF Follows
    <3>2. afb_hook_unref(hooks, T.observers)
            = [h \in Hooks |-> afb_hook_unref(hooks, T.observers)[h]]
      BY DEF afb_hook_unref
    <3> HIDE DEF t
    <3>. QED  BY <1>2, <1>4, <3>1, <3>2 DEF Follows
  <2> HIDE DEF r, t
  <2>2. /\ Follows(t.hooks, t.proxy, u)
        /\ IsProxy(t.proxy) => u.proxy.refcount
                                 = t.proxy.refcount - (IF how = "send" THEN 0 ELSE 1)
    BY <2>1, RepliedFollows
  <2>3. Follows(hooks, T, u)
    BY <1>2, <1>4, <2>2, FollowsTrans
  <2>4. r \in CallStates /\ AnsweredAs(r, v, "verb", how)
    BY <1>3, AnsweredByFacts DEF SameAnswers
  <2> HIDE DEF v, u
  <2>5. /\ v \in CallStates /\ v.st = "called" /\ v.session = x.session
        /\ v.how = "none" <=> ~Answered(v)
        /\ CallUsers(v) = CallUsers(r) /\ (Twice(v) <=> r.failed)
        /\ r.how = "none" => v.how = how
    BY <1>2, <1>3, <2>4 DEF AnsweredAs, SameAnswers
  <2>6. ASSUME IsProxy(T), ~Twice(v)
        PROVE  u.proxy.refcount = CallUsers(v) + ToReply(v)
    <3>1. ~x.answered /\ ~x.failed
      BY <1>3, <1>6, <2>5, <2>6 DEF SameAnswers
    <3>2. ~Answered(x) /\ ~Twice(x) /\ ToReply(x) = 1
      BY <3>1 DEF Answered, Twice, ToReply
    <3>3. T.refcount = CallUsers(x) + 1 /\ x.how = "none"
      BY <1>2, <2>6, <3>2 DEF CallInv
    <3>4. CallUsers(x) > 0
      BY <1>1, <1>2, UsersOfCall DEF Uses
    <3>5. t.proxy.refcount = CallUsers(x) /\ IsProxy(t.proxy)
      BY <1>2, <1>4, <2>6, <3>3, <3>4 DEF IsProxy
    <3>6. ToReply(v) = IF how = "send" THEN 1 ELSE 0
      BY <1>3, <2>4, <2>5, <3>3 DEF ToReply, SameAnswers, AnsweredAs
    <3>. QED  BY <1>2, <1>3, <2>2, <2>5, <3>5, <3>6
  <2>7. Becomes(q, v, u)
    BY <1>6 DEF v, u
  <2>. QED  BY <1>1, <2>3, <2>5, <2>6, <2>7, BecomesStep
<1>. QED  BY <1>5, <1>6 DEF SubcallResult

LEMMA ServicesStutter ==
    ASSUME ServicesIInv, UNCHANGED servicesVars
    PROVE  ServicesIInv'
<1>1. UNCHANGED <<store, now, lastToken, phase, dir, todo, apis, common_session, svc, hooks,
                  call, client>>
  BY DEF servicesVars, sessionVars
<1>2. AllUsers' = AllUsers
  BY <1>1 DEF AllUsers, SessionUsers
<1>3. ServicesTypeOK' /\ Sound(store, AllUsers)' /\ UniqueUuids(store)'
  BY <1>1, <1>2 DEF ServicesIInv, ServicesTypeOK, SessionTypeOK
<1>4. ServicesInv' /\ NamesInv' /\ CallsInv' /\ TwiceInv' /\ HooksInv'
  BY <1>1 DEF ServicesIInv, ServicesInv, ServiceSlots, NamesInv, CallsInv, TwiceInv, HooksInv, Observed
<1>. QED  BY <1>3, <1>4 DEF ServicesIInv

(* A call is made, with its proxy if its api is traced.                    *)
LEMMA svc_callStep ==
    ASSUME ServicesIInv, NEW b \in Bindings, NEW q \in Calls, NEW name, svc_call(b, q, name)
    PROVE  ServicesIInv'
<1> DEFINE s == svc[b].session
           hs == Observing(name)
           p == [observers |-> hs, refcount |-> IF hs = {} THEN 0 ELSE 1]
           T == hook_req_addref(p)
           n == [NoCall EXCEPT !.st = "called", !.svc = b, !.session = s, !.job = TRUE,
                               !.proxy = T]
<1>1. CASE UNCHANGED <<store, callVars>>
  BY <1>1, ServicesStutter DEF svc_call, servicesVars, sessionVars, callVars, loadVars
<1>2. CASE /\ hooks' = afb_hook_addref(hooks, hs)
           /\ call' = [call EXCEPT ![q] = n]
           /\ store' = ctxClientAddRef(store, s)
  <2>1. /\ phase # "undefined" /\ svc[b].st \in {"init", "live"} /\ call[q].st = "none"
        /\ UNCHANGED <<now, lastToken, phase, dir, todo, apis, common_session, svc, client>>
    BY DEF svc_call, Runs, loadVars
  <2>2. call[q] = NoCall /\ call \in [Calls -> CallStates] /\ hooks \in [Hooks -> Nat]
    BY <2>1 DEF ServicesIInv, ServicesTypeOK, CallsInv, CallInv
  <2>3. s \in Slots /\ AllUsers[s] > 0 /\ store[s] # NoSession
    <3>1. s \in Slots \cup {0} /\ s # 0
      BY <2>1 DEF ServicesIInv, ServicesTypeOK, ServicesInv
    <3>2. s \in Slots /\ AllUsers[s] > 0
      BY <3>1, UsedSession DEF ServicesIInv
    <3>. QED  BY <3>2 DEF ServicesIInv, Sound
  <2>4. hs \in SUBSET Hooks
    BY DEF Observing
  <2>5. /\ GoodProxy(T) /\ T.observers = hs
        /\ IsProxy(T) => T.refcount = 2
    <3>1. GoodProxy(p) /\ (IsProxy(p) => p.refcount = 1) /\ p.observers = hs
      BY <2>4 DEF GoodProxy, Proxies, IsProxy
    <3> HIDE DEF p, hs
    <3>2. CASE IsProxy(p)
      <4>1. T = [p EXCEPT !.refcount = @ + 1]
        BY <3>2 DEF hook_req_addref
      <4>2. T \in Proxies /\ T.refcount = 2 /\ T.observers = hs
        BY <3>1, <3>2, <4>1 DEF GoodProxy, Proxies
      <4>. QED  BY <3>1, <3>2, <4>2 DEF GoodProxy, IsProxy
    <3>3. CASE ~IsProxy(p)
      <4>1. T = p
        BY <3>3 DEF hook_req_addref
      <4>. QED  BY <3>1, <3>3, <4>1
    <3>. QED  BY <3>2, <3>3
  <2> HIDE DEF T, p, hs
  <2>6. /\ n \in CallStates /\ n.st = "called" /\ n.session = s /\ n.proxy = T
        /\ n.job = TRUE /\ n.held = FALSE /\ n.subcall = FALSE
        /\ n.answered = FALSE /\ n.failed = FALSE /\ n.how = "none"
    <3>1. T \in Proxies
      BY <2>5 DEF GoodProxy
    <3>. QED  BY <2>3, <3>1 DEF NoCall, CallStates
  <2>7. NoCall.session = 0 /\ NoCall.proxy.observers = {}
    BY DEF NoCall, NoProxy
  <2> HIDE DEF n
  <2>8. /\ call' \in [Calls -> CallStates] /\ call'[q] = n
        /\ \A i \in Calls \ {q} : call'[i] = call[i]
    BY <1>2, <2>2, <2>6
  <2>9. AllUsers' = OneMore(AllUsers, s)
    <3>1. \A i \in Slots : SessionUsers(i)' = AllUsers[i] + (Is(n.session, i) - Is(0, i))
      BY <2>1, <2>2, <2>7, <2>8, CallMoves
    <3>2. \A i \in Slots : Is(0, i) = 0 /\ Is(s, i) \in Nat /\ AllUsers[i] \in Nat
      BY UsersTyped, IsType, StoreAssumption DEF Is, Slots
    <3>3. \A i \in Slots : SessionUsers(i)' = AllUsers[i] + Is(s, i)
      BY <2>6, <3>1, <3>2
    <3> HIDE DEF s
    <3>. QED  BY <2>3, <3>3, UsersMore
  <2>10. Sound(store, AllUsers)' /\ UniqueUuids(store)'
    <3>1. Sound(store, AllUsers) /\ UniqueUuids(store) /\ store \in Stores
      BY DEF ServicesIInv, Sound
    <3>2. Sound(store', AllUsers')
      BY <1>2, <2>3, <2>9, <3>1, AddRefSound
    <3>3. UniqueUuids(store')
      BY <1>2, <2>3, <3>1, AddRefFades, FadesUnique
    <3>. QED  BY <3>2, <3>3
  <2>11. HooksInv' /\ hooks' \in [Hooks -> Nat]
    <3>1. ASSUME NEW h \in Hooks
          PROVE  hooks'[h] = 1 + Cardinality(Observed(h)') /\ hooks'[h] \in Nat
      <4>1. /\ IsFiniteSet(Observed(h)) /\ Cardinality(Observed(h)) \in Nat
            /\ hooks[h] = 1 + Cardinality(Observed(h)) /\ q \notin Observed(h)
        <5>1. Observed(h) \in SUBSET Calls /\ q \notin Observed(h)
          BY <2>2, <2>7 DEF Observed
        <5>2. IsFiniteSet(Observed(h))
          BY <5>1, FiniteAssumption, FS_Subset
        <5>. QED  BY <5>1, <5>2, FS_CardinalityType DEF ServicesIInv, HooksInv
      <4>2. CASE h \in hs
        <5>1. Observed(h)' = Observed(h) \cup {q}
          BY <2>5, <2>6, <2>8, <4>2 DEF Observed
        <5>2. Cardinality(Observed(h)') = Cardinality(Observed(h)) + 1
          BY <4>1, <5>1, FS_AddElement
        <5>3. hooks'[h] = hooks[h] + 1
          BY <1>2, <4>2 DEF afb_hook_addref
        <5>. QED  BY <4>1, <5>2, <5>3
      <4>3. CASE h \notin hs
        <5>1. Observed(h)' = Observed(h)
          BY <2>2, <2>5, <2>6, <2>7, <2>8, <4>3 DEF Observed
        <5>2. hooks'[h] = hooks[h]
          BY <1>2, <4>3 DEF afb_hook_addref
        <5>. QED  BY <4>1, <5>1, <5>2
      <4>. QED  BY <4>2, <4>3
    <3>2. hooks' = [h \in Hooks |-> hooks'[h]]
      BY <1>2 DEF afb_hook_addref
    <3>3. hooks' \in [Hooks -> Nat]
      BY <3>1, <3>2
    <3>. QED  BY <3>1, <3>3 DEF HooksInv
  <2>12. ServicesTypeOK'
    <3>1. store' \in Stores
      BY <2>10 DEF Sound
    <3>. QED  BY <2>1, <2>8, <2>11, <3>1 DEF ServicesIInv, ServicesTypeOK, SessionTypeOK
  <2>13. ServicesInv' /\ NamesInv'
    <3>1. Fades(store, store') /\ ServiceSlots' = ServiceSlots /\ ServicesInv
      BY <1>2, <2>1, <2>3, AddRefFades DEF ServicesIInv, Sound, ServiceSlots
    <3>2. \A c \in Clients :
             client'[c] \in (ServiceSlots \cap Used(store))' => ~IsOpen(store'[client'[c]])
      BY <2>1, <3>1, ClientsStay
    <3>. QED  BY <2>1, <3>1, <3>2 DEF ServicesIInv, ServicesInv, NamesInv
  <2>14. CallInv(n)
    <3>1. CallUsers(n) = 1 /\ Uses(n)
      BY <2>6, UsersOfCall DEF One, Uses
    <3>2. ToReply(n) = 1 /\ ~Answered(n)
      BY <2>6 DEF ToReply, Answered
    <3>3. IsProxy(T) <=> T.observers # {}
      BY <2>5 DEF GoodProxy
    <3>4. n.session # 0
      BY <2>3, <2>6, StoreAssumption DEF Slots
    <3>. QED  BY <2>5, <2>6, <3>1, <3>2, <3>3, <3>4 DEF CallInv
  <2>15. CallsInv' /\ TwiceInv'
    BY <2>1, <2>8, <2>14 DEF ServicesIInv, CallsInv, TwiceInv
  <2>. QED  BY <2>10, <2>11, <2>12, <2>13, <2>15 DEF ServicesIInv
<1>. QED  BY <1>1, <1>2 DEF svc_call, afb_hook_req_call

(* The sessions and who uses them are the same.                            *)
LEMMA SameSessions ==
    ASSUME ServicesIInv, UNCHANGED <<store, common_session, client>>,
           \A b \in Bindings : svc'[b].session = svc[b].session,
           \A q \in Calls : call'[q].session = call[q].session
    PROVE  /\ Sound(store, AllUsers)' /\ UniqueUuids(store)' /\ AllUsers' = AllUsers
           /\ ServiceSlots' = ServiceSlots
<1>1. \A s \in Slots : ServiceUsers(s)' = ServiceUsers(s) /\ CallsOf(s)' = CallsOf(s)
                         /\ ClientsOf(s)' = ClientsOf(s)
  BY DEF ServiceUsers, CallsOf, ClientsOf
<1>2. \A s \in Slots : SessionUsers(s)' = AllUsers[s]
  BY <1>1, UsersPrimed, UsersTyped
<1>3. AllUsers' = AllUsers
  BY <1>2, UsersSame
<1>4. ServiceSlots' = ServiceSlots
  BY DEF ServiceSlots
<1>. QED  BY <1>3, <1>4 DEF ServicesIInv

LEMMA svcreq_subscribeStep ==
    ASSUME ServicesIInv, NEW q \in Calls, NEW e \in Events, svcreq_subscribe(q, e)
    PROVE  ServicesIInv'
<1> DEFINE b == call[q].svc
<1>1. /\ b \in Bindings
      /\ UNCHANGED <<store, now, lastToken, phase, dir, todo, apis, common_session, hooks, call, client>>
  BY BindingsAssumption DEF svcreq_subscribe, sessionVars, loadVars, callVars
<1>2. PICK w \in {svc[b].watches \cup {e}, svc[b].watches \ {e}} :
         svc' = [svc EXCEPT ![b].watches = w]
  BY DEF svcreq_subscribe
<1> HIDE DEF b
<1> DEFINE Svcs == [st : {"none", "passed", "init", "live"}, session : Slots \cup {0},
                    watches : SUBSET Events]
<1>3. svc \in [Bindings -> Svcs]
  BY DEF ServicesIInv, ServicesTypeOK
<1>4. /\ svc' \in [Bindings -> Svcs]
      /\ \A a \in Bindings : svc'[a].session = svc[a].session /\ svc'[a].st = svc[a].st
  <2> DEFINE v == [svc[b] EXCEPT !.watches = w]
  <2>1. svc[b] \in Svcs
    BY <1>1, <1>3
  <2>2. v \in Svcs /\ v.session = svc[b].session /\ v.st = svc[b].st
    BY <2>1
  <2>3. svc' = [svc EXCEPT ![b] = v]
    BY <1>2
  <2> HIDE DEF v, Svcs
  <2>. QED  BY <1>1, <1>3, <2>2, <2>3
<1>5. /\ Sound(store, AllUsers)' /\ UniqueUuids(store)' /\ ServiceSlots' = ServiceSlots
  BY <1>1, <1>4, SameSessions
<1>6. ServicesTypeOK'
  BY <1>1, <1>4 DEF ServicesIInv, ServicesTypeOK, SessionTypeOK
<1>7. ServicesInv' /\ NamesInv' /\ CallsInv' /\ TwiceInv' /\ HooksInv'
  BY <1>1, <1>4, <1>5 DEF ServicesIInv, ServicesInv, NamesInv, CallsInv, TwiceInv, HooksInv, Observed
<1>. QED  BY <1>5, <1>6, <1>7 DEF ServicesIInv

LEMMA SvcReqCloseStep ==
    ASSUME ServicesIInv, NEW q \in Calls, SvcReqClose(q)
    PROVE  ServicesIInv'
<1> DEFINE x == call[q]
           n == [x EXCEPT !.closing = TRUE]
<1>1. /\ Called(q) /\ call' = [call EXCEPT ![q] = n]
      /\ UNCHANGED <<store, now, lastToken, phase, dir, todo, apis, common_session, svc, hooks, client>>
  BY DEF SvcReqClose, sessionVars, loadVars
<1>2. x \in CallStates /\ CallInv(x) /\ x.st = "called" /\ call \in [Calls -> CallStates]
  BY <1>1, CallFacts DEF Called, ServicesIInv, ServicesTypeOK
<1>3. /\ n \in CallStates /\ n.st = x.st /\ n.session = x.session /\ n.proxy = x.proxy
      /\ n.job = x.job /\ n.held = x.held /\ n.subcall = x.subcall
      /\ n.answered = x.answered /\ n.failed = x.failed /\ n.how = x.how
  BY <1>2 DEF CallStates
<1> HIDE DEF n
<1>4. /\ call' \in [Calls -> CallStates] /\ call'[q] = n
      /\ \A p \in Calls \ {q} : call'[p] = call[p]
  BY <1>1, <1>2, <1>3
<1>5. CallInv(n) /\ (Twice(n) <=> Twice(x))
  <2>1. CallUsers(n) = CallUsers(x)
    BY <1>2, <1>3, UsersOfCall
  <2>2. /\ Twice(n) <=> Twice(x)
        /\ Answered(n) <=> Answered(x)
        /\ Uses(n) <=> Uses(x)
        /\ ToReply(n) = ToReply(x)
    BY <1>3 DEF Twice, Answered, Uses, ToReply
  <2>. QED  BY <1>2, <1>3, <2>1, <2>2 DEF CallInv
<1>6. \A p \in Calls : call'[p].session = call[p].session /\ call'[p].proxy = call[p].proxy
  BY <1>3, <1>4
<1>7. Sound(store, AllUsers)' /\ UniqueUuids(store)' /\ ServiceSlots' = ServiceSlots
  BY <1>1, <1>6, SameSessions
<1>8. ServicesTypeOK'
  BY <1>1, <1>4 DEF ServicesIInv, ServicesTypeOK, SessionTypeOK
<1>9. ServicesInv' /\ NamesInv'
  BY <1>1, <1>7 DEF ServicesIInv, ServicesInv, NamesInv
<1>10. CallsInv' /\ TwiceInv'
  BY <1>1, <1>4, <1>5 DEF ServicesIInv, CallsInv, TwiceInv
<1>11. HooksInv'
  <2>1. \A h \in Hooks : Observed(h)' = Observed(h)
    BY <1>6 DEF Observed
  <2>. QED  BY <1>1, <2>1 DEF ServicesIInv, HooksInv
<1>. QED  BY <1>7, <1>8, <1>9, <1>10, <1>11 DEF ServicesIInv

-----------------------------------------------------------------------------
(* The start of the binder.                                                *)

(* The apis after a load have different names.                             *)
LEMMA LoadNames ==
    ASSUME ServicesIInv, NEW b \in Bindings, NEW out \in Outcomes(b), Load(b, out)
    PROVE  NamesInv' /\ apis' \in Seq(Bindings) /\ todo' \subseteq Bindings
<1>1. apis \in Seq(Bindings) /\ todo \subseteq Bindings
  BY DEF ServicesIInv, ServicesTypeOK
<1>2. CASE out = "added"
  <2>1. apis' = Append(apis, b) /\ MayAdd(b)
    BY <1>2 DEF Load, Outcomes
  <2>2. /\ DOMAIN apis' = 1..Len(apis) + 1 /\ DOMAIN apis = 1..Len(apis) /\ Len(apis) \in Nat
        /\ apis'[Len(apis) + 1] = b
        /\ \A i \in 1..Len(apis) : apis'[i] = apis[i]
    BY <1>1, <2>1
  <2>3. \A i \in 1..Len(apis) : Name[apis[i]] # Name[b]
    BY <2>1, <2>2 DEF MayAdd, Registered
  <2>4. \A i, k \in 1..Len(apis) : Name[apis[i]] = Name[apis[k]] => i = k
    BY <2>2 DEF ServicesIInv, NamesInv
  <2>5. NamesInv'
    <3>. SUFFICES ASSUME NEW i \in 1..Len(apis) + 1, NEW k \in 1..Len(apis) + 1,
                         Name[apis'[i]] = Name[apis'[k]], i # k
                  PROVE  FALSE
      BY <2>2 DEF NamesInv
    <3>1. CASE i \in 1..Len(apis) /\ k \in 1..Len(apis)
      BY <2>2, <2>4, <3>1
    <3>2. CASE i = Len(apis) + 1
      <4>1. k \in 1..Len(apis)
        BY <2>2, <3>2
      <4>. QED  BY <2>2, <2>3, <3>2, <4>1
    <3>3. CASE k = Len(apis) + 1
      <4>1. i \in 1..Len(apis)
        BY <2>2, <3>3
      <4>. QED  BY <2>2, <2>3, <3>3, <4>1
    <3>. QED  BY <2>2, <3>1, <3>2, <3>3
  <2>6. apis' \in Seq(Bindings) /\ todo' \subseteq Bindings
    BY <1>1, <2>1 DEF Load
  <2>. QED  BY <2>5, <2>6
<1>3. CASE out # "added"
  <2>1. apis' = apis /\ todo' \subseteq Bindings
    BY <1>1, <1>3 DEF Load
  <2>. QED  BY <1>1, <2>1 DEF ServicesIInv, NamesInv
<1>. QED  BY <1>2, <1>3

LEMMA LoadingStep == ASSUME ServicesIInv, Loading PROVE ServicesIInv'
<1>1. UNCHANGED <<store, now, lastToken, common_session, svc, hooks, call, client>>
  BY DEF Loading, sessionVars, callVars
<1>2. /\ NamesInv' /\ apis' \in Seq(Bindings) /\ todo' \subseteq Bindings
      /\ dir' \in {"top", "sub", "done"}
      /\ phase' \in {"paths", "items", "services", "running", "exited", "undefined"}
      /\ phase' = phase \/ (phase' # "undefined" /\ phase \in {"paths", "items"})
  <2>0. /\ NamesInv /\ apis \in Seq(Bindings) /\ todo \subseteq Bindings
        /\ dir \in {"top", "sub", "done"}
        /\ phase \in {"paths", "items", "services", "running", "exited", "undefined"}
    BY DEF ServicesIInv, ServicesTypeOK
  <2>1. CASE \E b \in Bindings : LoadTop(b) \/ LoadSub(b) \/ StartItem(b)
    <3>1. PICK b \in Bindings : LoadTop(b) \/ LoadSub(b) \/ StartItem(b)
      BY <2>1
    <3>2. PICK out \in Outcomes(b) :
            /\ Load(b, out)
            /\ \/ phase' = phase
               \/ phase \in {"paths", "items"} /\ phase' = "exited"
            /\ dir' = dir \/ dir' = "done"
      BY <3>1 DEF LoadTop, LoadSub, StartItem
    <3>. QED  BY <2>0, <3>2, LoadNames
  <2>2. CASE EnterSub \/ LeaveSub
    BY <2>0, <2>2 DEF EnterSub, LeaveSub, NamesInv
  <2>3. CASE PathsDone
    BY <2>0, <2>3 DEF PathsDone, NamesInv
  <2>4. CASE StartServer
    BY <2>0, <2>4 DEF StartServer, NamesInv
  <2>. QED  BY <2>1, <2>2, <2>3, <2>4 DEF Loading
<1>3. Sound(store, AllUsers)' /\ UniqueUuids(store)' /\ ServiceSlots' = ServiceSlots
  BY <1>1, SameSessions
<1>4. ServicesTypeOK'
  BY <1>1, <1>2 DEF ServicesIInv, ServicesTypeOK, SessionTypeOK
<1>5. ServicesInv' /\ CallsInv' /\ TwiceInv' /\ HooksInv'
  BY <1>1, <1>2, <1>3 DEF ServicesIInv, ServicesInv, CallsInv, TwiceInv, HooksInv, Observed
<1>. QED  BY <1>2, <1>3, <1>4, <1>5 DEF ServicesIInv

LEMMA ReadyStep == ASSUME ServicesIInv, Ready PROVE ServicesIInv'
<1>1. /\ phase = "services" /\ phase' = "running"
      /\ UNCHANGED <<store, now, lastToken, dir, todo, apis, common_session, svc, hooks, call, client>>
  BY DEF Ready, sessionVars, callVars
<1>2. Sound(store, AllUsers)' /\ UniqueUuids(store)' /\ ServiceSlots' = ServiceSlots
  BY <1>1, SameSessions
<1>3. ServicesTypeOK'
  BY <1>1 DEF ServicesIInv, ServicesTypeOK, SessionTypeOK
<1>4. ServicesInv' /\ NamesInv' /\ CallsInv' /\ TwiceInv' /\ HooksInv'
  BY <1>1, <1>2 DEF ServicesIInv, ServicesInv, NamesInv, CallsInv, TwiceInv, HooksInv, Observed
<1>. QED  BY <1>2, <1>3, <1>4 DEF ServicesIInv

(* A new session for a service.                                            *)
LEMMA CreatedSession ==
    ASSUME ServicesIInv, NEW o \in Created
    PROVE  /\ Got(o, AllUsers) /\ UniqueUuids(o.store)
           /\ o = [store |-> o.store, session |-> o.session, created |-> TRUE]
           /\ o.session # 0 => AllUsers[o.session] = 0
<1> DEFINE st == ctxStoreCleanUp(store)
<1>1. Sound(store, AllUsers) /\ UniqueUuids(store) /\ store \in Stores /\ now \in 0..MaxTime
  BY DEF ServicesIInv, ServicesTypeOK, SessionTypeOK
<1>2. Sound(st, AllUsers)
  BY <1>1, CleanUpSound
<1>3. UniqueUuids(st)
  BY <1>1, CleanUpFades, FadesUnique
<1> HIDE DEF st
<1>4. st \in Stores
  BY <1>2 DEF Sound
<1>5. Matching(st, NULL) = {}
  <2>1. \A s \in Used(st) : st[s] \in Sessions
    BY <1>4 DEF Stores, Used
  <2>2. \A s \in Used(st) : st[s].uuid \in Uuids \cup {Empty}
    BY <2>1 DEF Sessions
  <2>. QED  BY <2>2, NullAssumption DEF Matching
<1>6. o \in new_context(st, NULL, 0)
  BY DEF Created, st
<1>7. Got(o, AllUsers)
  BY <1>1, <1>2, <1>6, NewContextSound
<1>8. /\ UniqueUuids(o.store)
      /\ o = [store |-> o.store, session |-> o.session, created |-> TRUE]
      /\ o.session # 0 => o.session \in Slots /\ st[o.session] = NoSession
  BY <1>1, <1>3, <1>4, <1>5, <1>6, NewContextUnique
<1>. QED  BY <1>2, <1>7, <1>8 DEF Sound

(* The session of a service: the new users, n, are the service and, when   *)
(* it is created, the common session.                                      *)
Given(o, n) ==
    /\ o.session \in Slots \cup {0}
    /\ Sound(o.store, n) /\ UniqueUuids(o.store)
    /\ o.session # 0 => o.session = common_session \/ AllUsers[o.session] = 0

LEMMA SharedSession ==
    ASSUME NEW o, NEW n, Sound(o.store, n), UniqueUuids(o.store), NEW s \in Slots, o.session = s,
           o.store[s] # NoSession, NEW c, o = [store |-> o.store, session |-> o.session, created |-> c]
    PROVE  /\ Shared(o).session = s
           /\ Sound(Shared(o).store, OneMore(n, s)) /\ UniqueUuids(Shared(o).store)
<1>1. Shared(o).session = s /\ Shared(o).store = ctxClientAddRef(o.store, s)
  BY DEF Shared
<1>2. Sound(ctxClientAddRef(o.store, s), OneMore(n, s))
  BY AddRefSound
<1>3. UniqueUuids(ctxClientAddRef(o.store, s))
  BY AddRefFades, FadesUnique DEF Sound
<1>. QED  BY <1>1, <1>2, <1>3

LEMMA ServiceSessionGiven ==
    ASSUME ServicesIInv, NEW o \in ServiceSession
    PROVE  /\ o.session = 0 => Given(o, AllUsers) /\ common_session = 0
           /\ o.session # 0 /\ ~ShareSession =>
                Given(o, OneMore(AllUsers, o.session)) /\ common_session = 0
           /\ o.session # 0 /\ ShareSession /\ common_session # 0 =>
                Given(o, OneMore(AllUsers, o.session)) /\ common_session = o.session
           /\ o.session # 0 /\ ShareSession /\ common_session = 0 =>
                Given(o, OneMore(OneMore(AllUsers, o.session), o.session))
<1>1. /\ Sound(store, AllUsers) /\ UniqueUuids(store) /\ common_session \in Slots \cup {0}
      /\ common_session # 0 => ShareSession
  BY DEF ServicesIInv, ServicesTypeOK, ServicesInv
<1>2. 0 \notin Slots
  BY StoreAssumption DEF Slots
<1>3. CASE ~ShareSession
  <2>1. o \in Created /\ common_session = 0
    BY <1>1, <1>3 DEF ServiceSession
  <2>. QED  BY <1>3, <2>1, CreatedSession DEF Got, Given
<1>4. CASE ShareSession /\ common_session # 0
  <2> DEFINE p == [store |-> store, session |-> common_session, created |-> FALSE]
  <2>1. o = Shared(p)
    BY <1>4 DEF ServiceSession
  <2>2. common_session \in Slots /\ store[common_session] # NoSession
    <3>1. common_session \in Slots /\ AllUsers[common_session] > 0
      BY <1>1, <1>4, UsedSession DEF ServicesIInv
    <3>. QED  BY <1>1, <3>1 DEF Sound
  <2>3. p.session = common_session /\ p.store = store /\ p = [store |-> p.store, session |-> p.session, created |-> FALSE]
    OBVIOUS
  <2> HIDE DEF p
  <2>4. /\ o.session = common_session
        /\ Sound(o.store, OneMore(AllUsers, common_session)) /\ UniqueUuids(o.store)
    BY <1>1, <2>1, <2>2, <2>3, SharedSession
  <2>. QED  BY <1>2, <1>4, <2>2, <2>4 DEF Given
<1>5. CASE ShareSession /\ common_session = 0
  <2>1. PICK p \in Created : o = IF p.session = 0 THEN p ELSE Shared(p)
    BY <1>5 DEF ServiceSession
  <2>2. /\ Got(p, AllUsers) /\ UniqueUuids(p.store)
        /\ p.session # 0 => AllUsers[p.session] = 0
    BY CreatedSession
  <2>3. CASE p.session = 0
    BY <1>5, <2>1, <2>2, <2>3 DEF Got, Given
  <2>4. CASE p.session # 0
    <3>1. /\ p.session \in Slots /\ Sound(p.store, OneMore(AllUsers, p.session))
          /\ p.store[p.session] # NoSession
      BY <2>2, <2>4 DEF Got
    <3>2. p = [store |-> p.store, session |-> p.session, created |-> TRUE]
      BY CreatedSession
    <3>3. /\ o.session = p.session
          /\ Sound(o.store, OneMore(OneMore(AllUsers, p.session), p.session))
          /\ UniqueUuids(o.store)
      BY <2>1, <2>2, <2>4, <3>1, <3>2, SharedSession
    <3>. QED  BY <1>2, <1>5, <2>2, <2>4, <3>1, <3>3 DEF Given
  <2>. QED  BY <2>3, <2>4
<1>. QED  BY <1>3, <1>4, <1>5

ServiceStates ==
    [st : {"none", "passed", "init", "live"}, session : Slots \cup {0}, watches : SUBSET Events]

(* Only the sessions, the services and the phase change.                   *)
LEMMA ServiceStep ==
    ASSUME ServicesIInv, store' \in Stores, Sound(store, AllUsers)', UniqueUuids(store)',
           common_session' \in Slots \cup {0}, svc' \in [Bindings -> ServiceStates],
           phase' \in {"services", "exited"}, phase = "services", ServicesInv',
           UNCHANGED <<now, lastToken, dir, todo, apis, hooks, call, client>>
    PROVE  ServicesIInv'
<1>1. ServicesTypeOK'
  BY DEF ServicesIInv, ServicesTypeOK, SessionTypeOK, ServiceStates
<1>2. NamesInv' /\ CallsInv' /\ TwiceInv' /\ HooksInv'
  BY DEF ServicesIInv, NamesInv, CallsInv, TwiceInv, HooksInv, Observed
<1>. QED  BY <1>1, <1>2 DEF ServicesIInv

LEMMA StartServiceStep == ASSUME ServicesIInv, StartService PROVE ServicesIInv'
<1> DEFINE b == apis[First(Unstarted)]
<1>1. b \in Bindings /\ svc[b].st = "none" /\ svc[b].session = 0
  <2>1. apis \in Seq(Bindings)
    BY DEF ServicesIInv, ServicesTypeOK
  <2>2. Unstarted \subseteq DOMAIN apis /\ DOMAIN apis \subseteq Nat
    BY <2>1 DEF Unstarted
  <2>3. Unstarted # {} /\ Unstarted \subseteq Nat
    BY <2>2 DEF StartService
  <2>4. First(Unstarted) \in Unstarted
    BY <2>3, FirstOf
  <2>5. b \in Bindings /\ svc[b].st = "none"
    BY <2>1, <2>2, <2>4 DEF Unstarted
  <2>. QED  BY <2>5 DEF ServicesIInv, ServicesInv
<1>2. svc \in [Bindings -> ServiceStates]
  BY DEF ServicesIInv, ServicesTypeOK, ServiceStates
<1>3. phase = "services" /\ UNCHANGED <<now, lastToken, dir, todo, apis, hooks, call, client>>
  BY DEF StartService, callVars
<1>4. \/ svc' = [svc EXCEPT ![b].st = "passed"] /\ UNCHANGED <<store, common_session, phase>>
      \/ \E o \in ServiceSession :
           /\ store' = o.store
           /\ common_session' = IF ShareSession THEN o.session ELSE 0
           /\ IF o.session = 0 THEN phase' = "exited" /\ UNCHANGED svc
              ELSE /\ svc' = [svc EXCEPT ![b].st = "init", ![b].session = o.session]
                   /\ UNCHANGED phase
  BY DEF StartService
<1> HIDE DEF b
<1>5. CASE svc' = [svc EXCEPT ![b].st = "passed"] /\ UNCHANGED <<store, common_session, phase>>
  <2> DEFINE v == [svc[b] EXCEPT !.st = "passed"]
  <2>1. v \in ServiceStates /\ v.session = svc[b].session /\ v.st = "passed"
    BY <1>1, <1>2 DEF ServiceStates
  <2>2. svc' = [svc EXCEPT ![b] = v]
    BY <1>5
  <2> HIDE DEF v
  <2>3. svc'[b] = v /\ \A a \in Bindings \ {b} : svc'[a] = svc[a]
    BY <1>1, <1>2, <2>2
  <2>4. svc' \in [Bindings -> ServiceStates] /\ \A a \in Bindings : svc'[a].session = svc[a].session
    BY <1>1, <1>2, <2>1, <2>2, <2>3
  <2>5. Sound(store, AllUsers)' /\ UniqueUuids(store)' /\ ServiceSlots' = ServiceSlots
    BY <1>3, <1>5, <2>4, SameSessions
  <2>6. ServicesInv'
    BY <1>1, <1>3, <1>5, <2>1, <2>3, <2>5 DEF ServicesIInv, ServicesInv
  <2>7. store' \in Stores /\ common_session' \in Slots \cup {0}
    BY <1>5 DEF ServicesIInv, ServicesTypeOK, SessionTypeOK
  <2>. QED  BY <1>3, <1>5, <2>4, <2>5, <2>6, <2>7, ServiceStep
<1>6. ASSUME NEW o \in ServiceSession, store' = o.store,
             common_session' = IF ShareSession THEN o.session ELSE 0,
             o.session = 0, phase' = "exited", UNCHANGED svc
      PROVE  ServicesIInv'
  <2>1. Given(o, AllUsers) /\ common_session = 0
    BY <1>6, ServiceSessionGiven
  <2>2. common_session' = 0
    BY <1>6
  <2>3. AllUsers' = AllUsers /\ ServiceSlots' = ServiceSlots
    BY <1>3, <1>6, <2>1, <2>2 DEF AllUsers, SessionUsers, ServiceSlots
  <2>4. Sound(store, AllUsers)' /\ UniqueUuids(store)' /\ store' \in Stores
    BY <1>6, <2>1, <2>3 DEF Given, Sound
  <2>5. ServicesInv'
    <3>1. \A c \in Clients : client'[c] = 0 /\ client'[c] \notin ServiceSlots'
      BY <1>3 DEF ServicesIInv, ServicesInv, ServiceSlots
    <3>. QED  BY <1>3, <1>6, <2>2, <2>3, <3>1 DEF ServicesIInv, ServicesInv
  <2>. QED  BY <1>2, <1>3, <1>6, <2>2, <2>4, <2>5, ServiceStep
<1>7. ASSUME NEW o \in ServiceSession, store' = o.store,
             common_session' = IF ShareSession THEN o.session ELSE 0,
             o.session # 0, svc' = [svc EXCEPT ![b].st = "init", ![b].session = o.session],
             UNCHANGED phase
      PROVE  ServicesIInv'
  <2> DEFINE s == o.session
             v == [svc[b] EXCEPT !.st = "init", !.session = s]
  <2>1. /\ s \in Slots /\ s # 0 /\ UniqueUuids(o.store)
        /\ s = common_session \/ AllUsers[s] = 0
    BY <1>7, ServiceSessionGiven DEF Given
  <2> HIDE DEF s
  <2>2. v \in ServiceStates /\ v.session = s /\ v.st = "init"
    BY <1>1, <1>2, <2>1 DEF ServiceStates
  <2>3. svc' = [svc EXCEPT ![b] = v]
    BY <1>7 DEF s
  <2> HIDE DEF v
  <2>4. svc'[b] = v /\ \A a \in Bindings \ {b} : svc'[a] = svc[a]
    BY <1>1, <1>2, <2>3
  <2>5. svc' \in [Bindings -> ServiceStates]
    BY <1>1, <1>2, <2>2, <2>3
  <2>6. \A i \in Slots : SessionUsers(i)' =
           AllUsers[i] + (Is(common_session', i) - Is(common_session, i)) + (Is(s, i) - Is(0, i))
    BY <1>1, <1>3, <2>2, <2>4, ServiceMoves
  <2>7. \A i \in Slots : /\ Is(0, i) = 0 /\ Is(s, i) \in Nat /\ AllUsers[i] \in Nat
                         /\ Is(common_session, i) \in Nat
    BY UsersTyped, IsType, StoreAssumption DEF Is, Slots
  <2>8. Sound(store, AllUsers)'
    <3>1. CASE ~ShareSession
      <4>1. Given(o, OneMore(AllUsers, s)) /\ common_session = 0 /\ common_session' = 0
        BY <1>7, <3>1, ServiceSessionGiven DEF s
      <4>2. \A i \in Slots : SessionUsers(i)' = AllUsers[i] + Is(s, i)
        BY <2>6, <2>7, <4>1
      <4>3. AllUsers' = OneMore(AllUsers, s)
        BY <2>1, <4>2, UsersMore
      <4>. QED  BY <1>7, <4>1, <4>3 DEF Given
    <3>2. CASE ShareSession /\ common_session # 0
      <4>1. /\ Given(o, OneMore(AllUsers, s))
            /\ common_session = s /\ common_session' = s
        BY <1>7, <3>2, ServiceSessionGiven DEF s
      <4>2. \A i \in Slots : SessionUsers(i)' = AllUsers[i] + Is(s, i)
        BY <2>6, <2>7, <4>1
      <4>3. AllUsers' = OneMore(AllUsers, s)
        BY <2>1, <4>2, UsersMore
      <4>. QED  BY <1>7, <4>1, <4>3 DEF Given
    <3>3. CASE ShareSession /\ common_session = 0
      <4>1. Given(o, OneMore(OneMore(AllUsers, s), s)) /\ common_session' = s
        BY <1>7, <3>3, ServiceSessionGiven DEF s
      <4>2. \A i \in Slots : SessionUsers(i)' = AllUsers[i] + Is(s, i) + Is(s, i)
        BY <2>6, <2>7, <3>3, <4>1
      <4>3. AllUsers' = OneMore(OneMore(AllUsers, s), s)
        BY <2>1, <4>2, UsersTwoMore
      <4>. QED  BY <1>7, <4>1, <4>3 DEF Given
    <3>. QED  BY <3>1, <3>2, <3>3
  <2>9. UniqueUuids(store)' /\ store' \in Stores /\ common_session' \in Slots \cup {0}
    BY <1>7, <2>1, <2>8 DEF Sound, s
  <2>10. ServicesInv'
    <3>1. common_session' # 0 => ShareSession
      BY <1>7
    <3>2. \A a \in Bindings : svc'[a].session # 0 <=> svc'[a].st \in {"init", "live"}
      BY <2>1, <2>2, <2>4 DEF ServicesIInv, ServicesInv
    <3>3. \A c \in Clients : client'[c] = 0 /\ client'[c] \notin ServiceSlots'
      BY <1>3 DEF ServicesIInv, ServicesInv, ServiceSlots
    <3>. QED  BY <3>1, <3>2, <3>3 DEF ServicesInv
  <2>. QED  BY <1>3, <1>7, <2>5, <2>8, <2>9, <2>10, ServiceStep
<1>. QED  BY <1>4, <1>5, <1>6, <1>7

LEMMA ServiceStartedStep == ASSUME ServicesIInv, ServiceStarted PROVE ServicesIInv'
<1> DEFINE b == apis[Current]
           s == svc[b].session
<1>1. b \in Bindings /\ svc[b].st = "init" /\ s \in Slots /\ s # 0
  <2>1. apis \in Seq(Bindings)
    BY DEF ServicesIInv, ServicesTypeOK
  <2>2. \E i \in DOMAIN apis : svc[apis[i]].st = "init"
    <3>1. {a \in Registered : svc[a].st = "init"} # {}
      BY DEF ServiceStarted, Current
    <3>. QED  BY <3>1 DEF Registered
  <2> DEFINE ready == {a \in Registered : svc[a].st = "init"}
  <2>3. Current = CHOOSE i \in DOMAIN apis : svc[apis[i]].st = "init"
    <3>1. ready # {}
      BY <2>2 DEF Registered
    <3>2. Current = IF ready = {} THEN 0 ELSE CHOOSE i \in DOMAIN apis : svc[apis[i]].st = "init"
      BY Zenon DEF Current
    <3>. QED  BY <3>1, <3>2, Zenon
  <2>4. Current \in DOMAIN apis /\ svc[b].st = "init"
    BY <2>2, <2>3
  <2>5. b \in Bindings
    BY <2>1, <2>4
  <2>6. s # 0 /\ s \in Slots \cup {0}
    BY <2>4, <2>5 DEF ServicesIInv, ServicesInv, ServicesTypeOK
  <2>. QED  BY <2>4, <2>5, <2>6
<1>2. svc \in [Bindings -> ServiceStates]
  BY DEF ServicesIInv, ServicesTypeOK, ServiceStates
<1>3. /\ phase = "services" 
      /\ UNCHANGED <<now, lastToken, dir, todo, apis, common_session, hooks, call, client>>
  BY DEF ServiceStarted, callVars
<1>4. \/ svc' = [svc EXCEPT ![b].st = "live"] /\ UNCHANGED <<store, phase>>
      \/ /\ svc' = [svc EXCEPT ![b] = NoService]
         /\ store' = ctxClientUnref(store, s)
         /\ phase' = "exited"
  BY DEF ServiceStarted
<1>5. common_session' \in Slots \cup {0}
  BY <1>3 DEF ServicesIInv, ServicesTypeOK
<1> HIDE DEF b
<1>6. CASE svc' = [svc EXCEPT ![b].st = "live"] /\ UNCHANGED <<store, phase>>
  <2> DEFINE v == [svc[b] EXCEPT !.st = "live"]
  <2>1. v \in ServiceStates /\ v.session = svc[b].session /\ v.st = "live"
    BY <1>1, <1>2 DEF ServiceStates
  <2>2. svc' = [svc EXCEPT ![b] = v]
    BY <1>6
  <2> HIDE DEF v
  <2>3. svc'[b] = v /\ \A a \in Bindings \ {b} : svc'[a] = svc[a]
    BY <1>1, <1>2, <2>2
  <2>4. svc' \in [Bindings -> ServiceStates] /\ \A a \in Bindings : svc'[a].session = svc[a].session
    BY <1>1, <1>2, <2>1, <2>2, <2>3
  <2>5. Sound(store, AllUsers)' /\ UniqueUuids(store)' /\ ServiceSlots' = ServiceSlots
    BY <1>3, <1>6, <2>4, SameSessions
  <2>6. ServicesInv'
    <3>1. \A c \in Clients : client'[c] = 0 /\ client'[c] \notin ServiceSlots'
      BY <1>3 DEF ServicesIInv, ServicesInv, ServiceSlots
    <3>. QED  BY <1>1, <1>3, <2>1, <2>3, <2>5, <3>1 DEF ServicesIInv, ServicesInv
  <2>7. store' \in Stores
    BY <1>6 DEF ServicesIInv, ServicesTypeOK, SessionTypeOK
  <2>. QED  BY <1>3, <1>5, <1>6, <2>4, <2>5, <2>6, <2>7, ServiceStep
<1>7. CASE /\ svc' = [svc EXCEPT ![b] = NoService]
           /\ store' = ctxClientUnref(store, s)
           /\ phase' = "exited"
  <2>1. NoService \in ServiceStates /\ NoService.session = 0 /\ NoService.st = "none"
    BY DEF NoService, ServiceStates
  <2>2. /\ svc' \in [Bindings -> ServiceStates] /\ svc'[b] = NoService
        /\ \A a \in Bindings \ {b} : svc'[a] = svc[a]
    BY <1>1, <1>2, <1>7, <2>1
  <2>3. AllUsers[s] > 0 /\ Sound(store, AllUsers) /\ UniqueUuids(store) /\ store \in Stores
    BY <1>1, UsedSession DEF ServicesIInv, Sound
  <2>4. store[s] # NoSession
    BY <1>1, <2>3 DEF Sound
  <2>5. AllUsers' = OneLess(AllUsers, s)
    <3>1. \A i \in Slots : SessionUsers(i)' =
             AllUsers[i] + (Is(common_session', i) - Is(common_session, i)) + (Is(0, i) - Is(s, i))
      BY <1>1, <1>3, <2>1, <2>2, ServiceMoves
    <3>2. \A i \in Slots : /\ Is(0, i) = 0 /\ Is(s, i) \in Nat /\ AllUsers[i] \in Nat
                           /\ Is(common_session, i) \in Nat
      BY UsersTyped, IsType, StoreAssumption DEF Is, Slots
    <3> HIDE DEF s
    <3>3. \A i \in Slots : SessionUsers(i)' = AllUsers[i] - Is(s, i)
      BY <1>3, <3>1, <3>2
    <3>. QED  BY <1>1, <3>3, UsersLess
  <2>6. Sound(store, AllUsers)' /\ UniqueUuids(store)'
    BY <1>1, <1>7, <2>3, <2>4, <2>5, UnrefSound, UnrefFades, FadesUnique
  <2>7. store' \in Stores
    BY <2>6 DEF Sound
  <2>8. \A c \in Clients : client'[c] = 0 /\ client'[c] \notin ServiceSlots'
    BY <1>3 DEF ServicesIInv, ServicesInv, ServiceSlots
  <2>9. ServicesInv'
    BY <1>1, <1>3, <2>1, <2>2, <2>8 DEF ServicesIInv, ServicesInv
  <2>. QED  BY <1>3, <1>5, <1>7, <2>2, <2>6, <2>7, <2>9, ServiceStep
<1>. QED  BY <1>4, <1>6, <1>7

-----------------------------------------------------------------------------
(* The clients.                                                            *)

(* Only the sessions and the clients change.                               *)
LEMMA ClientStep ==
    ASSUME ServicesIInv, Sound(store, AllUsers)', UniqueUuids(store)',
           client' \in [Clients -> Slots \cup {0}], phase = "running",
           \A c \in Clients :
              client'[c] \in (ServiceSlots \cap Used(store))' => ~IsOpen(store'[client'[c]]),
           UNCHANGED <<now, lastToken, loadVars, common_session, svc, callVars>>
    PROVE  ServicesIInv'
<1>1. UNCHANGED <<now, lastToken, phase, dir, todo, apis, common_session, svc, hooks, call>>
  BY DEF loadVars, callVars
<1>2. ServicesTypeOK'
  <2>1. store' \in Stores
    BY DEF Sound
  <2>. QED  BY <1>1, <2>1 DEF ServicesIInv, ServicesTypeOK, SessionTypeOK
<1>3. ServicesInv'
  BY <1>1 DEF ServicesIInv, ServicesInv
<1>4. NamesInv' /\ CallsInv' /\ TwiceInv' /\ HooksInv'
  BY <1>1 DEF ServicesIInv, NamesInv, CallsInv, TwiceInv, HooksInv, Observed
<1>. QED  BY <1>2, <1>3, <1>4 DEF ServicesIInv

(* The open sessions of the services are not those of a uuid asked.        *)
LEMMA AskedFacts ==
    ASSUME NEW u \in AskedUuids
    PROVE  /\ u \in Uuids \cup {Empty, LongUuid, NULL}
           /\ store \in Stores => \A s \in Slots :
                 store[s] # NoSession /\ IsOpen(store[s]) /\ store[s].uuid = u
                 => s \notin ServiceSlots
<1>1. u \in Uuids \cup {Empty, LongUuid, NULL}
  BY DEF AskedUuids
<1>2. ASSUME store \in Stores, NEW s \in Slots,
             store[s] # NoSession, IsOpen(store[s]), store[s].uuid = u, s \in ServiceSlots
      PROVE  FALSE
  <2>1. s \in Used(store) /\ store[s] \in Sessions
    BY <1>2 DEF Used, Stores
  <2>2. store[s].uuid \in Uuids
    BY <1>2, <2>1 DEF Sessions, IsOpen
  <2>3. u \notin {NULL, Empty, LongUuid}
    BY <1>2, <2>2, NullAssumption, UuidAssumption
  <2>4. u \in {store[r].uuid : r \in ServiceSlots \cap Used(store)}
    BY <1>2, <2>1
  <2>. QED  BY <2>3, <2>4 DEF AskedUuids
<1>. QED  BY <1>1, <1>2

LEMMA ConnectStep ==
    ASSUME ServicesIInv, NEW c \in Clients, NEW u \in AskedUuids, Connect(c, u)
    PROVE  ServicesIInv'
<1>1. PICK o \in ctxClientGetSession(u) :
        /\ store' = o.store
        /\ client' = [client EXCEPT ![c] = o.session]
  BY DEF Connect
<1> DEFINE s == o.session
<1>2. /\ client[c] = 0 /\ UNCHANGED <<now, lastToken, loadVars, common_session, svc, callVars>>
      /\ UNCHANGED call /\ phase = "running"
  BY DEF Connect, callVars
<1>3. /\ Sound(store, AllUsers) /\ UniqueUuids(store) /\ now \in 0..MaxTime
      /\ client \in [Clients -> Slots \cup {0}] /\ store \in Stores
  BY DEF ServicesIInv, ServicesTypeOK, SessionTypeOK
<1>4. u \in Uuids \cup {Empty, LongUuid, NULL}
  BY AskedFacts
<1>5. Got(o, AllUsers)
  BY <1>3, <1>4, GetSessionSound
<1>6. /\ UniqueUuids(o.store)
      /\ \A i \in Slots \ {s} : o.store[i] # NoSession =>
           store[i] # NoSession /\ (IsOpen(o.store[i]) => IsOpen(store[i]))
      /\ s # 0 =>
           /\ s \in Slots
           /\ u = Empty => ~IsOpen(o.store[s])
           /\ \/ AllUsers[s] = 0
              \/ store[s] # NoSession /\ (u # Empty => IsOpen(store[s]) /\ store[s].uuid = u)
  BY <1>3, <1>4, GetSessionAlive
<1>7. s # 0 /\ s \in ServiceSlots => u = Empty
  <2>. SUFFICES ASSUME s # 0, s \in ServiceSlots, u # Empty PROVE FALSE
    OBVIOUS
  <2>1. s \in Slots /\ AllUsers[s] > 0
    <3>1. common_session = s \/ \E b \in Bindings : svc[b].session = s
      BY DEF ServiceSlots
    <3>. QED  BY <1>6, <3>1, UsedSession DEF ServicesIInv
  <2>2. store[s] # NoSession /\ IsOpen(store[s]) /\ store[s].uuid = u
    BY <1>6, <2>1
  <2>. QED  BY <1>3, <2>1, <2>2, AskedFacts
<1>8. s \in Slots \cup {0}
  BY <1>5 DEF Got
<1> HIDE DEF s
<1>9. /\ client' \in [Clients -> Slots \cup {0}] /\ client'[c] = s
      /\ \A d \in Clients \ {c} : client'[d] = client[d]
  BY <1>1, <1>3, <1>8 DEF s
<1>10. \A i \in Slots : SessionUsers(i)' = AllUsers[i] + Is(s, i)
  <2>1. \A i \in Slots : SessionUsers(i)' = AllUsers[i] + (Is(s, i) - Is(0, i))
    BY <1>2, <1>9, ClientMoves
  <2>2. \A i \in Slots : Is(0, i) = 0 /\ Is(s, i) \in Nat /\ AllUsers[i] \in Nat
    BY UsersTyped, IsType, StoreAssumption DEF Is, Slots
  <2>. QED  BY <2>1, <2>2
<1>11. Sound(store, AllUsers)'
  <2>1. CASE s = 0
    <3>1. \A i \in Slots : Is(s, i) = 0 /\ AllUsers[i] \in Nat
      BY <2>1, UsersTyped, StoreAssumption DEF Is, Slots
    <3>2. AllUsers' = AllUsers
      BY <1>10, <3>1, UsersSame
    <3>. QED  BY <1>1, <1>5, <2>1, <3>2 DEF Got, s
  <2>2. CASE s # 0
    <3>1. AllUsers' = OneMore(AllUsers, s)
      BY <1>8, <1>10, <2>2, UsersMore
    <3>. QED  BY <1>1, <1>5, <2>2, <3>1 DEF Got, s
  <2>. QED  BY <2>1, <2>2
<1>12. UniqueUuids(store)'
  BY <1>1, <1>6
<1>13. ASSUME NEW d \in Clients, client'[d] \in (ServiceSlots \cap Used(store))'
       PROVE  ~IsOpen(store'[client'[d]])
  <2> DEFINE r == client'[d]
  <2>1. r \in ServiceSlots /\ r \in Slots /\ r # 0 /\ store'[r] # NoSession
    BY <1>2, <1>13, StoreAssumption DEF ServiceSlots, Used, Slots
  <2>2. CASE r = s
    BY <1>1, <1>6, <1>7, <2>1, <2>2
  <2>3. CASE r # s
    <3>1. r = client[d] /\ store[r] # NoSession
      BY <1>1, <1>6, <1>9, <2>1, <2>3
    <3>2. r \in ServiceSlots \cap Used(store)
      BY <2>1, <3>1 DEF Used
    <3>3. ~IsOpen(store[r])
      BY <3>1, <3>2 DEF ServicesIInv, ServicesInv
    <3>. QED  BY <1>1, <1>6, <2>1, <2>3, <3>3
  <2>. QED  BY <2>2, <2>3
<1>. QED  BY <1>2, <1>9, <1>11, <1>12, <1>13, ClientStep

LEMMA DisconnectStep ==
    ASSUME ServicesIInv, NEW c \in Clients, Disconnect(c)
    PROVE  ServicesIInv'
<1> DEFINE s == client[c]
<1>1. PICK st \in {store, ctxClientClose(store, s)} : store' = ctxClientUnref(st, s)
  BY DEF Disconnect
<1>2. /\ s # 0 /\ client' = [client EXCEPT ![c] = 0]
      /\ UNCHANGED <<now, lastToken, loadVars, common_session, svc, callVars>>
      /\ UNCHANGED call /\ phase = "running"
  BY DEF Disconnect, callVars
<1>3. /\ Sound(store, AllUsers) /\ UniqueUuids(store) /\ store \in Stores
      /\ client \in [Clients -> Slots \cup {0}]
  BY DEF ServicesIInv, ServicesTypeOK, Sound
<1>4. s \in Slots /\ AllUsers[s] > 0
  BY <1>2, <1>3, UsedSession DEF ServicesIInv
<1>5. /\ client' \in [Clients -> Slots \cup {0}] /\ client'[c] = 0
      /\ \A d \in Clients \ {c} : client'[d] = client[d]
  BY <1>2, <1>3
<1> HIDE DEF s
<1>6. store[s] # NoSession
  BY <1>3, <1>4 DEF Sound
<1>7. Sound(st, AllUsers) /\ UniqueUuids(st) /\ Fades(store, st)
  <2>1. Fades(store, store)
    BY DEF Fades
  <2>. QED  BY <1>3, <1>4, <1>6, <2>1, CloseSound, CloseFades, FadesUnique
<1>8. st \in Stores /\ st[s] # NoSession
  BY <1>4, <1>7 DEF Sound
<1>9. AllUsers' = OneLess(AllUsers, s)
  <2>1. \A i \in Slots : SessionUsers(i)' = AllUsers[i] + (Is(0, i) - Is(s, i))
    BY <1>2, <1>5, ClientMoves DEF s
  <2>2. \A i \in Slots : Is(0, i) = 0 /\ Is(s, i) \in Nat /\ AllUsers[i] \in Nat
    BY UsersTyped, IsType, StoreAssumption DEF Is, Slots
  <2>3. \A i \in Slots : SessionUsers(i)' = AllUsers[i] - Is(s, i)
    BY <2>1, <2>2
  <2>. QED  BY <1>4, <2>3, UsersLess
<1>10. Sound(store, AllUsers)'
  BY <1>1, <1>4, <1>7, <1>9, UnrefSound
<1>11. UniqueUuids(store)' /\ Fades(store, store')
  BY <1>1, <1>4, <1>7, <1>8, UnrefFades, FadesUnique, FadesTrans
<1>12. ASSUME NEW d \in Clients, client'[d] \in (ServiceSlots \cap Used(store))'
       PROVE  ~IsOpen(store'[client'[d]])
  <2> DEFINE r == client'[d]
  <2>1. r \in ServiceSlots /\ r \in Slots /\ r # 0 /\ store'[r] # NoSession
    BY <1>2, <1>12, StoreAssumption DEF ServiceSlots, Used, Slots
  <2>2. r = client[d]
    BY <1>5, <2>1
  <2>3. store[r] # NoSession /\ (store'[r].uuid = store[r].uuid \/ ~IsOpen(store'[r]))
    BY <1>11, <2>1 DEF Fades
  <2>4. r \in ServiceSlots \cap Used(store)
    BY <2>1, <2>3 DEF Used
  <2>5. ~IsOpen(store[r])
    BY <2>2, <2>4 DEF ServicesIInv, ServicesInv
  <2>. QED  BY <2>3, <2>5 DEF IsOpen
<1>. QED  BY <1>2, <1>5, <1>10, <1>11, <1>12, ClientStep

LEMMA TimeStep == ASSUME ServicesIInv, Time PROVE ServicesIInv'
<1>1. /\ now' \in 0..MaxTime
      /\ UNCHANGED <<store, lastToken, phase, dir, todo, apis, common_session, svc, hooks, call, client>>
  BY BoundAssumption DEF Time, Tick, loadVars, callVars, ServicesIInv, ServicesTypeOK, SessionTypeOK
<1>2. Sound(store, AllUsers)' /\ UniqueUuids(store)' /\ ServiceSlots' = ServiceSlots
  BY <1>1, SameSessions
<1>3. ServicesTypeOK'
  BY <1>1 DEF ServicesIInv, ServicesTypeOK, SessionTypeOK
<1>4. ServicesInv' /\ NamesInv' /\ CallsInv' /\ TwiceInv' /\ HooksInv'
  BY <1>1, <1>2 DEF ServicesIInv, ServicesInv, NamesInv, CallsInv, TwiceInv, HooksInv, Observed
<1>. QED  BY <1>2, <1>3, <1>4 DEF ServicesIInv

-----------------------------------------------------------------------------

LEMMA ServicesNextStep == ASSUME ServicesIInv, ServicesNext PROVE ServicesIInv'
<1>1. ASSUME NEW q \in Calls,
             \/ \E e \in Events : svcreq_subscribe(q, e)
             \/ SvcReqClose(q)
             \/ Answer(q) \/ Interrupt(q) \/ Hold(q) \/ Unhold(q) \/ JobEnd(q)
             \/ req_hook_subcall(q) \/ SubcallResult(q)
      PROVE  ServicesIInv'
  BY <1>1, svcreq_subscribeStep, SvcReqCloseStep, AnswerStep, InterruptStep, HoldStep,
     UnholdStep, JobEndStep, SubcallTakenStep, SubcallResultStep
<1>2. ASSUME NEW c \in Clients,
             (\E u \in AskedUuids : Connect(c, u)) \/ Disconnect(c)
      PROVE  ServicesIInv'
  BY <1>2, ConnectStep, DisconnectStep
<1>3. CASE \E b \in Bindings, q \in Calls, n \in Names : svc_call(b, q, n)
  BY <1>3, svc_callStep
<1>4. CASE Loading \/ StartService \/ ServiceStarted \/ Ready \/ Time
  BY <1>4, LoadingStep, StartServiceStep, ServiceStartedStep, ReadyStep, TimeStep
<1>. QED  BY <1>1, <1>2, <1>3, <1>4 DEF ServicesNext

LEMMA ServicesInitInv == ASSUME ServicesInit PROVE ServicesIInv
<1>1. /\ store = [s \in Slots |-> NoSession] /\ now = 0 /\ lastToken = 1
      /\ phase = "paths" /\ dir = "top" /\ todo = Bindings /\ apis = <<>>
      /\ common_session = 0 /\ svc = [b \in Bindings |-> NoService]
      /\ hooks = [h \in Hooks |-> 1]
      /\ call = [q \in Calls |-> NoCall] /\ client = [c \in Clients |-> 0]
  BY DEF ServicesInit, SessionInit, HookInit
<1>2. /\ NoCall \in CallStates /\ NoCall.session = 0 /\ NoCall.proxy.observers = {}
      /\ NoCall.st = "none"
  BY DEF NoCall, CallStates, NoProxy, Proxies
<1>3. /\ NoService.session = 0 /\ NoService.st = "none"
      /\ NoService \in [st : {"none", "passed", "init", "live"}, session : Slots \cup {0},
                        watches : SUBSET Events]
  BY DEF NoService
<1>4. ServicesTypeOK
  <2>1. SessionTypeOK
    BY <1>1, BoundAssumption DEF SessionTypeOK, Stores
  <2>. QED  BY <1>1, <1>2, <1>3, <2>1 DEF ServicesTypeOK
<1>5. AllUsers = [s \in Slots |-> 0]
  <2>1. ASSUME NEW s \in Slots PROVE SessionUsers(s) = 0
    <3>1. s # 0
      BY StoreAssumption DEF Slots
    <3>2. /\ common_session # s
          /\ {b \in Bindings : svc[b].session = s} = {}
          /\ {q \in Calls : call[q].session = s} = {}
          /\ {c \in Clients : client[c] = s} = {}
      BY <1>1, <1>2, <1>3, <3>1
    <3>3. Cardinality({}) = 0
      BY FS_EmptySet
    <3>4. SessionUsers(s) = 0 + Cardinality({}) + Cardinality({}) + Cardinality({})
      BY <3>2, Zenon DEF SessionUsers
    <3>. QED  BY <3>3, <3>4
  <2>. QED  BY <2>1 DEF AllUsers
<1>6. Sound(store, AllUsers) /\ UniqueUuids(store)
  BY <1>1, <1>5 DEF Sound, Stores, UniqueUuids, Used
<1>7. ServicesInv
  BY <1>1, <1>3 DEF ServicesInv, ServiceSlots
<1>8. NamesInv
  BY <1>1 DEF NamesInv
<1>9. CallsInv /\ TwiceInv
  BY <1>1, <1>2 DEF CallsInv, CallInv, TwiceInv
<1>10. HooksInv
  <2>1. \A h \in Hooks : Observed(h) = {}
    BY <1>1, <1>2 DEF Observed
  <2>2. Cardinality({}) = 0
    BY FS_EmptySet
  <2>3. \A h \in Hooks : Cardinality(Observed(h)) = 0
    BY <2>1, <2>2, Zenon
  <2>. QED  BY <1>1, <2>3 DEF HooksInv
<1>. QED  BY <1>4, <1>6, <1>7, <1>8, <1>9, <1>10 DEF ServicesIInv

LEMMA ServicesSafe == ServicesSpec => []ServicesIInv
<1>1. ServicesInit => ServicesIInv
  BY ServicesInitInv
<1>2. ServicesIInv /\ [ServicesNext]_servicesVars => ServicesIInv'
  BY ServicesNextStep, ServicesStutter
<1>. QED  BY <1>1, <1>2, PTL DEF ServicesSpec

(* However the directories are scanned, whichever service fails, whatever  *)
(* the calls close and the clients ask, the empty uuid included: a session *)
(* of a service is in the store as long as the service, with a reference   *)
(* for each user, and a client has it only closed; two apis never have the *)
(* same name.                                                              *)
THEOREM ServicesKeepSessions == ServicesSpec => []ServicesKeepTheirSession
<1>1. ServicesIInv => ServicesKeepTheirSession
  <2>. SUFFICES ASSUME ServicesIInv PROVE ServicesKeepTheirSession
    OBVIOUS
  <2>1. \A s \in Used(store) : store[s].refcount = SessionUsers(s)
    BY DEF ServicesIInv, Sound, Used, AllUsers
  <2>2. ASSUME NEW s \in ServiceSlots PROVE s \in Used(store)
    <3>1. common_session = s \/ \E b \in Bindings : svc[b].session = s
      BY <2>2 DEF ServiceSlots
    <3>2. s \in Slots
      BY <3>1 DEF ServicesIInv, ServicesTypeOK, ServiceSlots
    <3>3. AllUsers[s] > 0
      BY <3>1, <3>2, UsedSession DEF ServicesIInv
    <3>. QED  BY <3>2, <3>3 DEF ServicesIInv, Sound, Used
  <2>3. \A c \in Clients : client[c] \in ServiceSlots => ~IsOpen(store[client[c]])
    BY <2>2 DEF ServicesIInv, ServicesInv
  <2>4. ServicesTypeOK /\ NamesInv
    BY DEF ServicesIInv
  <2>. QED  BY <2>1, <2>2, <2>3, <2>4 DEF ServicesKeepTheirSession, NamesInv
<1>. QED  BY <1>1, ServicesSafe, PTL

(* Whatever hooks trace a call: its proxy counts its users and its reply   *)
(* to come, the hooks count the proxies they observe, and a request is     *)
(* used after it is freed only when a signal failed one that its verb had  *)
(* answered.                                                               *)
THEOREM TracedAreHeld == ServicesSpec => []TracedRequestsAreHeld
<1>1. ServicesIInv => TracedRequestsAreHeld
  <2>. SUFFICES ASSUME ServicesIInv PROVE TracedRequestsAreHeld
    OBVIOUS
  <2>1. ASSUME phase # "undefined", NEW q \in Calls, call[q].st = "called", ~Twice(call[q])
        PROVE  /\ call[q].proxy.observers # {} =>
                    call[q].proxy.refcount = CallUsers(call[q]) + ToReply(call[q])
               /\ call[q].proxy.observers = {} => CallUsers(call[q]) > 0
    <3>1. call[q] \in CallStates /\ CallInv(call[q])
      BY <2>1 DEF ServicesIInv, ServicesTypeOK, CallsInv
    <3>2. Uses(call[q]) => CallUsers(call[q]) > 0
      BY <3>1, UsersOfCall
    <3>. QED  BY <2>1, <3>1, <3>2 DEF CallInv
  <2>2. TwiceInv /\ HooksInv
    BY DEF ServicesIInv
  <2>. QED  BY <2>1, <2>2 DEF TracedRequestsAreHeld, TwiceInv, HooksInv
<1>. QED  BY <1>1, ServicesSafe, PTL

(* A client that connects, whatever it asks, is given an open session that *)
(* is not expired and the only one of its uuid; a closed one if it asks    *)
(* the empty uuid.                                                         *)
THEOREM FoundAreAlive == ServicesSpec => FoundSessionIsAlive
<1> DEFINE Alive(c, u) == LET r == store'[client'[c]]
                          IN  IF u = Empty THEN ~IsOpen(r)
                              ELSE /\ IsOpen(r) /\ r.expiration >= now
                                   /\ \A s \in Slots \ {client'[c]} :
                                         s \in Used(store') => store'[s].uuid # r.uuid
           Found == \A c \in Clients, u \in AskedUuids : Connect(c, u) /\ client'[c] # 0 => Alive(c, u)
<1>1. ASSUME ServicesIInv
      PROVE  Found
  <2>. SUFFICES ASSUME NEW c \in Clients, NEW u \in AskedUuids, Connect(c, u), client'[c] # 0
                PROVE  Alive(c, u)
    OBVIOUS
  <2>1. /\ Sound(store, AllUsers) /\ UniqueUuids(store) /\ now \in 0..MaxTime
        /\ u \in Uuids \cup {Empty, LongUuid, NULL} /\ client \in [Clients -> Slots \cup {0}]
    BY <1>1, AskedFacts DEF ServicesIInv, ServicesTypeOK, SessionTypeOK
  <2>2. PICK o \in ctxClientGetSession(u) :
          store' = o.store /\ client' = [client EXCEPT ![c] = o.session]
    BY DEF Connect
  <2>3. client'[c] = o.session /\ o.session # 0
    BY <2>1, <2>2
  <2>4. /\ UniqueUuids(o.store) /\ o.session \in Slots
        /\ IF u = Empty THEN ~IsOpen(o.store[o.session])
           ELSE IsOpen(o.store[o.session]) /\ o.store[o.session].expiration >= now
    BY <2>1, <2>3, GetSessionAlive
  <2>5. o.session \in Used(o.store)
    <3>1. Got(o, AllUsers)
      BY <2>1, GetSessionSound
    <3>. QED  BY <2>3, <2>4, <3>1 DEF Got, Used
  <2>6. IsOpen(o.store[o.session]) =>
          \A s \in Used(o.store) \ {o.session} : o.store[s].uuid # o.store[o.session].uuid
    BY <2>4, <2>5 DEF UniqueUuids
  <2>. QED  BY <2>2, <2>3, <2>4, <2>6
<1>2. ServicesIInv /\ [ServicesNext]_servicesVars => [Found]_servicesVars
  BY <1>1
<1>. QED  BY <1>2, ServicesSafe, PTL DEF ServicesSpec, FoundSessionIsAlive

-----------------------------------------------------------------------------
(* The boards of the tic-tac-toe binding, contexts of the sessions.        *)

(* The cells after some moves: who played them last, if somebody did.      *)
LEMMA AfterCells ==
    ASSUME NEW h, NEW n
    PROVE  /\ After(h, n) \in [Cells -> {"blank", "X", "0"}]
           /\ \A i \in Cells : After(h, n)[i] = "blank" <=> \A m \in 1..n : h[m] # i
BY DEF After, color

LEMMA SameCell ==
    ASSUME NEW h, NEW n, NEW g, NEW l, NEW i \in Cells,
           \A m : m \in 1..n /\ h[m] = i <=> m \in 1..l /\ g[m] = i
    PROVE  After(h, n)[i] = After(g, l)[i]
<1> DEFINE Mark(ms) == IF ms = {} THEN "blank"
                       ELSE color((CHOOSE m \in ms : \A k \in ms : k <= m) - 1)
<1>1. /\ After(h, n)[i] = Mark({m \in 1..n : h[m] = i})
      /\ After(g, l)[i] = Mark({m \in 1..l : g[m] = i})
  BY Zenon DEF After
<1> HIDE DEF Mark
<1>2. {m \in 1..n : h[m] = i} = {m \in 1..l : g[m] = i}
  OBVIOUS
<1>. QED  BY <1>1, <1>2, Zenon

LEMMA NewCell ==
    ASSUME NEW h, NEW n \in Nat \ {0}, NEW i \in Cells, h[n] = i, \A m \in 1..n - 1 : h[m] # i
    PROVE  After(h, n)[i] = color(n - 1)
<1> DEFINE ms == {m \in 1..n : h[m] = i}
<1>1. ms = {n}
  OBVIOUS
<1>2. After(h, n)[i] = IF ms = {} THEN "blank" ELSE color((CHOOSE m \in ms : \A k \in ms : k <= m) - 1)
  BY DEF After
<1>3. (CHOOSE m \in ms : \A k \in ms : k <= m) = n
  BY <1>1
<1>. QED  BY <1>1, <1>2, <1>3, Zenon

(* The moves that two histories share.                                     *)
LEMMA SameMoves ==
    ASSUME NEW h, NEW g, NEW n, \A m \in 1..n : h[m] = g[m]
    PROVE  After(h, n) = After(g, n)
<1>1. \A i \in Cells : After(h, n)[i] = After(g, n)[i]
  BY SameCell
<1>. QED  BY <1>1, AfterCells

(* A game, as BoardIsItsHistory wants it.                                  *)
Game(B) ==
    /\ B.board = After(B.history, Len(B.history))
    /\ \A n \in 1..Len(B.history) :
          After(B.history, n - 1)[B.history[n]] = "blank" /\ winner(After(B.history, n - 1)) = "blank"

LEMMA BlankGame == ASSUME NEW B, B.history = <<>>, B.board = Blank PROVE Game(B)
<1>1. After(<<>>, 0) = Blank
  <2>1. \A i \in Cells : After(<<>>, 0)[i] = "blank"
    BY AfterCells
  <2>. QED  BY <2>1, AfterCells DEF Blank
<1>2. Len(<<>>) = 0
  OBVIOUS
<1>. QED  BY <1>1, <1>2 DEF Game

LEMMA MovedGame ==
    ASSUME NEW B \in Boards, Game(B), NEW i \in Cells, B.board[i] = "blank", winner(B.board) = "blank"
    PROVE  /\ Moved(B, i) \in Boards /\ Game(Moved(B, i))
           /\ Moved(B, i).use_count = B.use_count /\ Moved(B, i).waiters = B.waiters
<1> DEFINE h == B.history
           g == Append(h, i)
           l == Len(h)
<1>1. h \in Seq(Cells) /\ l \in Nat /\ B.board \in [Cells -> {"blank", "X", "0"}]
  BY DEF Boards
<1>2. g \in Seq(Cells) /\ Len(g) = l + 1 /\ g[l + 1] = i /\ \A m \in 1..l : g[m] = h[m]
  BY <1>1, AppendProperties
<1>3. [B.board EXCEPT ![i] = color(l)] \in [Cells -> {"blank", "X", "0"}]
  BY <1>1 DEF color
<1>4. Moved(B, i) = [B EXCEPT !.board = [B.board EXCEPT ![i] = color(l)], !.history = g]
  BY DEF Moved
<1> HIDE DEF g, l
<1>5. /\ Moved(B, i).history = g /\ Moved(B, i).board = [B.board EXCEPT ![i] = color(l)]
      /\ Moved(B, i).use_count = B.use_count /\ Moved(B, i).waiters = B.waiters
      /\ Moved(B, i) \in Boards
  <2> DEFINE f == [B.board EXCEPT ![i] = color(l)]
  <2>1. f \in [Cells -> {"blank", "X", "0"}] /\ Moved(B, i) = [B EXCEPT !.board = f, !.history = g]
    BY <1>3, <1>4
  <2> HIDE DEF f
  <2>2. /\ Moved(B, i) \in Boards /\ Moved(B, i).board = f /\ Moved(B, i).history = g
        /\ Moved(B, i).use_count = B.use_count /\ Moved(B, i).waiters = B.waiters
    BY <1>2, <2>1 DEF Boards
  <2>. QED  BY <2>2 DEF f
<1>6. B.board = After(h, l)
  BY DEF Game, l
<1>7. \A n \in 0..l : After(g, n) = After(h, n)
  <2>1. ASSUME NEW n \in 0..l PROVE \A m \in 1..n : g[m] = h[m]
    BY <1>1, <1>2
  <2>. QED  BY <2>1, SameMoves
<1>8. \A m \in 1..l : h[m] # i
  BY <1>6, AfterCells
<1>9. After(g, l + 1) = [B.board EXCEPT ![i] = color(l)]
  <2>1. After(g, l + 1)[i] = color(l)
    <3>1. l + 1 \in Nat \ {0} /\ (l + 1) - 1 = l
      BY <1>1
    <3>2. \A m \in 1..(l + 1) - 1 : g[m] # i
      BY <1>2, <1>8, <3>1
    <3>. QED  BY <1>2, <3>1, <3>2, NewCell
  <2>2. ASSUME NEW k \in Cells \ {i} PROVE After(g, l + 1)[k] = B.board[k]
    <3>1. \A m : m \in 1..l + 1 /\ g[m] = k <=> m \in 1..l /\ h[m] = k
      BY <1>1, <1>2
    <3>. QED  BY <1>6, <3>1, SameCell
  <2>. QED  BY <1>1, <2>1, <2>2, AfterCells
<1>10. ASSUME NEW n \in 1..l + 1
       PROVE  After(g, n - 1)[g[n]] = "blank" /\ winner(After(g, n - 1)) = "blank"
  <2>1. CASE n = l + 1
    <3>1. n - 1 = l /\ After(g, l) = B.board
      BY <1>1, <1>6, <1>7, <2>1
    <3>. QED  BY <1>2, <2>1, <3>1
  <2>2. CASE n # l + 1
    <3>1. n \in 1..l /\ n - 1 \in 0..l
      BY <1>1, <2>2
    <3>2. After(h, n - 1)[h[n]] = "blank" /\ winner(After(h, n - 1)) = "blank"
      BY <3>1 DEF Game, l
    <3>. QED  BY <1>2, <1>7, <3>1, <3>2
  <2>. QED  BY <2>1, <2>2
<1>11. Game(Moved(B, i))
  BY <1>2, <1>5, <1>9, <1>10 DEF Game
<1>. QED  BY <1>5, <1>11

LEMMA UndoneGame ==
    ASSUME NEW B \in Boards, Game(B), B.history # <<>>
    PROVE  /\ Undone(B) \in Boards /\ Game(Undone(B))
           /\ Undone(B).use_count = B.use_count /\ Undone(B).waiters = B.waiters
<1> DEFINE h == B.history
           g == Front(h)
           l == Len(h)
           i == Last(h)
<1>1. /\ h \in Seq(Cells) /\ l \in Nat \ {0} /\ B.board \in [Cells -> {"blank", "X", "0"}]
      /\ i = h[l] /\ i \in Cells
  <2>1. h \in Seq(Cells) /\ B.board \in [Cells -> {"blank", "X", "0"}]
    BY DEF Boards
  <2>2. l \in Nat \ {0}
    BY <2>1, EmptySeq
  <2>. QED  BY <2>1, <2>2, ElementOfSeq DEF Last
<1>2. g \in Seq(Cells) /\ Len(g) = l - 1 /\ \A m \in 1..l - 1 : g[m] = h[m]
  <2>1. g = SubSeq(h, 1, l - 1)
    BY DEF Front
  <2>. QED  BY <1>1, <2>1, SubSeqProperties
<1>3. Undone(B) = [B EXCEPT !.board = [B.board EXCEPT ![i] = "blank"], !.history = g]
  BY DEF Undone
<1> HIDE DEF g, i, l
<1>4. /\ Undone(B).history = g /\ Undone(B).board = [B.board EXCEPT ![i] = "blank"]
      /\ Undone(B).use_count = B.use_count /\ Undone(B).waiters = B.waiters
      /\ Undone(B) \in Boards
  <2> DEFINE f == [B.board EXCEPT ![i] = "blank"]
  <2>1. f \in [Cells -> {"blank", "X", "0"}] /\ Undone(B) = [B EXCEPT !.board = f, !.history = g]
    BY <1>1, <1>3
  <2> HIDE DEF f
  <2>2. /\ Undone(B) \in Boards /\ Undone(B).board = f /\ Undone(B).history = g
        /\ Undone(B).use_count = B.use_count /\ Undone(B).waiters = B.waiters
    BY <1>2, <2>1 DEF Boards
  <2>. QED  BY <2>2 DEF f
<1>5. B.board = After(h, l)
  BY DEF Game, l
<1>6. \A n \in 0..l - 1 : After(g, n) = After(h, n)
  <2>1. ASSUME NEW n \in 0..l - 1 PROVE \A m \in 1..n : g[m] = h[m]
    BY <1>1, <1>2
  <2>. QED  BY <2>1, SameMoves
<1>7. \A n \in 1..l : After(h, n - 1)[h[n]] = "blank" /\ winner(After(h, n - 1)) = "blank"
  BY DEF Game, l
<1>8. After(g, l - 1) = [B.board EXCEPT ![i] = "blank"]
  <2>1. After(g, l - 1)[i] = "blank"
    BY <1>1, <1>6, <1>7
  <2>2. ASSUME NEW k \in Cells \ {i} PROVE After(g, l - 1)[k] = B.board[k]
    <3>1. PICK n \in Nat : n = l - 1
      BY <1>1
    <3>2. \A m : m \in 1..n /\ g[m] = k <=> m \in 1..l /\ h[m] = k
      BY <1>1, <1>2, <3>1
    <3>3. l \in Nat /\ k \in Cells
      BY <1>1
    <3>4. After(g, n)[k] = After(h, l)[k]
      <4> HIDE DEF h
      <4>. QED  BY <3>2, <3>3, SameCell
    <3>. QED  BY <1>5, <3>1, <3>4, Zenon
  <2>. QED  BY <1>1, <2>1, <2>2, AfterCells
<1>9. ASSUME NEW n \in 1..l - 1
      PROVE  After(g, n - 1)[g[n]] = "blank" /\ winner(After(g, n - 1)) = "blank"
  <2>1. n \in 1..l /\ n - 1 \in 0..l - 1
    BY <1>1
  <2>. QED  BY <1>2, <1>6, <1>7, <2>1
<1>10. Game(Undone(B))
  BY <1>2, <1>4, <1>8, <1>9 DEF Game
<1>. QED  BY <1>4, <1>10

(* A game that is not full has a cell to play.                             *)
LEMMA FreeCell ==
    ASSUME NEW B \in Boards, Game(B), Len(B.history) # 9
    PROVE  \E i \in Cells : B.board[i] = "blank"
<1> DEFINE h == B.history
           l == Len(h)
<1>1. h \in Seq(Cells) /\ l \in Nat /\ h \in [1..l -> Cells] /\ IsFiniteSet(1..l)
      /\ Cardinality(1..l) = l
  <2>1. h \in Seq(Cells)
    BY DEF Boards
  <2>2. l \in Nat /\ h \in [1..l -> Cells]
    BY <2>1, LenProperties, ElementOfSeq
  <2>3. 1 \in Int /\ l \in Int
    BY <2>2
  <2> HIDE DEF l, h
  <2>4. IsFiniteSet(1..l) /\ Cardinality(1..l) = IF 1 > l THEN 0 ELSE l - 1 + 1
    BY <2>3, FS_Interval
  <2>. QED  BY <2>1, <2>2, <2>4
<1>2. IsFiniteSet(Cells) /\ Cardinality(Cells) = 9
  <2>1. 0 \in Int /\ 8 \in Int
    OBVIOUS
  <2>2. IsFiniteSet(0..8) /\ Cardinality(0..8) = IF 0 > 8 THEN 0 ELSE 8 - 0 + 1
    BY <2>1, FS_Interval
  <2>. QED  BY <2>2 DEF Cells
<1>3. B.board = After(h, l) /\ \A n \in 1..l : After(h, n - 1)[h[n]] = "blank"
  BY DEF Game
<1> HIDE DEF h, l
<1>4. \A m, n \in 1..l : m < n => h[m] # h[n]
  <2>. SUFFICES ASSUME NEW m \in 1..l, NEW n \in 1..l, m < n PROVE h[m] # h[n]
    OBVIOUS
  <2>1. h[n] \in Cells /\ m \in 1..n - 1
    BY <1>1
  <2>. QED  BY <1>3, <2>1, AfterCells
<1>5. h \in Injection(1..l, Cells)
  BY <1>1, <1>4 DEF Injection, IsInjective
<1>6. l <= 9
  BY <1>1, <1>2, <1>5, FS_Injection
<1>7. ASSUME \A i \in Cells : B.board[i] # "blank" PROVE FALSE
  <2>1. \A i \in Cells : \E m \in 1..l : h[m] = i
    BY <1>3, <1>7, AfterCells
  <2>2. h \in Surjection(1..l, Cells)
    BY <1>1, <2>1 DEF Surjection
  <2>3. 9 <= l
    BY <1>1, <1>2, <2>2, FS_Surjection
  <2>4. l = 9
    BY <1>1, <1>6, <2>3
  <2>. QED  BY <2>4 DEF l, h
<1>. QED  BY <1>7

LEMMA RandomFree ==
    ASSUME NEW b, \E x \in Cells : b[x] = "blank", NEW i \in get_random_move(b)
    PROVE  i \in Cells /\ b[i] = "blank"
<1>1. PICK r \in Rands : i = (r + CHOOSE k \in Cells : /\ b[(r + k) % 9] = "blank"
                                                     /\ \A j \in 0..k - 1 : b[(r + j) % 9] # "blank") % 9
  BY DEF get_random_move
<1>2. r \in 0..8
  BY BoardsAssumption
<1> DEFINE K == {k \in Cells : b[(r + k) % 9] = "blank"}
<1>3. PICK x \in Cells : b[x] = "blank"
  OBVIOUS
<1>4. \E k \in Cells : (r + k) % 9 = x
  <2>1. x \in 0..8
    BY DEF Cells
  <2>2. CASE r <= x
    <3>1. x - r \in 0..8 /\ (r + (x - r)) % 9 = x
      BY <1>2, <2>1, <2>2
    <3>. QED  BY <3>1 DEF Cells
  <2>3. CASE x < r
    <3>1. 9 + x - r \in 0..8 /\ (r + (9 + x - r)) % 9 = x
      BY <1>2, <2>1, <2>3
    <3>. QED  BY <3>1 DEF Cells
  <2>. QED  BY <1>2, <2>1, <2>2, <2>3
<1>5. K # {} /\ K \subseteq Nat
  BY <1>3, <1>4 DEF Cells
<1>6. PICK f \in K : \A k \in K : ~(<<k, f>> \in OpToRel(<, Nat))
  BY <1>5, NatLessThanWellFounded, WFMin, Zenon
<1>7. \A k \in K : ~(k < f)
  BY <1>5, <1>6 DEF OpToRel
<1>8. ASSUME NEW j \in 0..f - 1 PROVE b[(r + j) % 9] # "blank"
  <2>1. f \in 0..8
    BY <1>6 DEF Cells
  <2>2. j \in Cells /\ j < f
    BY <2>1 DEF Cells
  <2>. QED  BY <1>7, <2>2
<1>9. f \in Cells /\ b[(r + f) % 9] = "blank"
  BY <1>6
<1>10. PICK k \in Cells : i = (r + k) % 9 /\ b[(r + k) % 9] = "blank"
  BY <1>1, <1>8, <1>9
<1>11. (r + k) % 9 \in Cells
  BY <1>2 DEF Cells
<1>. QED  BY <1>10, <1>11

(* The computer plays a free cell.                                         *)
LEMMA MoveFree ==
    ASSUME NEW B \in Boards, \E x \in Cells : B.board[x] = "blank", NEW i \in get_move(B)
    PROVE  i \in Cells /\ B.board[i] = "blank"
<1> DEFINE free == {k \in Cells : B.board[k] = "blank"}
           Wins(score) == {k \in DOMAIN score : score[k] > 0}
           Marked(score) == [k \in Cells |-> IF k \in DOMAIN score /\ score[k] < 0 THEN "+"
                                            ELSE B.board[k]]
<1>1. PICK score : /\ DOMAIN score = free
                   /\ \/ i \in get_random_move(B.board)
                      \/ Wins(score) # {} /\ i = CHOOSE k \in Wins(score) : \A j \in Wins(score) : k <= j
                      \/ (\E k \in DOMAIN score : score[k] = 0) /\ i \in get_random_move(Marked(score))
  <2> DEFINE moves == Len(B.history)
             depth == IF moves + B.level - 1 > 9 THEN 9 - moves ELSE B.level - 1
             c == color(moves)
             score == [k \in free |-> score_position[<<[B.board EXCEPT ![k] = c], c, depth>>]]
  <2>1. i \in IF depth = 0 THEN get_random_move(B.board)
             ELSE IF Wins(score) # {} THEN {CHOOSE k \in Wins(score) : \A j \in Wins(score) : k <= j}
             ELSE IF \E k \in DOMAIN score : score[k] = 0 THEN get_random_move(Marked(score))
             ELSE get_random_move(B.board)
    BY Zenon DEF get_move
  <2>2. DOMAIN score = free
    OBVIOUS
  <2> HIDE DEF score, depth
  <2>. QED  BY <2>1, <2>2, Zenon
<1>2. CASE i \in get_random_move(B.board)
  BY <1>2, RandomFree
<1>3. CASE Wins(score) # {} /\ i = CHOOSE k \in Wins(score) : \A j \in Wins(score) : k <= j
  <2>1. Wins(score) \subseteq free /\ free \subseteq Nat
    BY <1>1 DEF Cells
  <2> DEFINE W == Wins(score)
  <2> HIDE DEF W
  <2>2. PICK f \in W : \A k \in W : ~(<<k, f>> \in OpToRel(<, Nat))
    BY <1>3, <2>1, NatLessThanWellFounded, WFMin, Zenon DEF W
  <2>3. \A k \in W : ~(k < f) /\ k \in Nat /\ f \in Nat
    BY <2>1, <2>2 DEF OpToRel, W
  <2>4. \A k \in W : f <= k
    BY <2>3
  <2>5. i \in W
    BY <1>3, <2>2, <2>4, Zenon DEF W
  <2>. QED  BY <2>1, <2>5 DEF W
<1>4. CASE (\E k \in DOMAIN score : score[k] = 0) /\ i \in get_random_move(Marked(score))
  <2>1. PICK x \in free : score[x] = 0
    BY <1>1, <1>4
  <2>2. x \in Cells /\ Marked(score)[x] = "blank"
    BY <1>1, <2>1
  <2>3. i \in Cells /\ Marked(score)[i] = "blank"
    BY <1>4, <2>2, RandomFree
  <2>. QED  BY <2>3
<1>. QED  BY <1>1, <1>2, <1>3, <1>4

(* The inductive invariant, and boards that would keep it once the session *)
(* s has the board x.                                                      *)
TicTacToeInv == BoardsAreCounted /\ BoardIsItsHistory

KeptBoard(boards, reqs, s, x, c) ==
    /\ boards[c].use_count = all_boards[c].use_count + (Is(x, c) - Is(context[s], c))
    /\ Game(boards[c])
    /\ \A w \in boards[c].waiters :
          reqs[w] = "waits" /\ \A d \in BoardIds \ {c} : w \notin boards[d].waiters

Kept(boards, s, x) ==
    boards \in [BoardIds -> Boards] /\ \A c \in BoardIds : KeptBoard(boards, requests, s, x, c)

LEMMA GamesKept == BoardIsItsHistory <=> \A b \in BoardIds : Game(all_boards[b])
BY Zenon DEF BoardIsItsHistory, Game

LEMMA GamesKeptNext == BoardIsItsHistory' <=> \A b \in BoardIds : Game(all_boards'[b])
BY Zenon DEF BoardIsItsHistory, Game

LEMMA StillBoards == TicTacToeInv /\ UNCHANGED ticTacToeVars => TicTacToeInv'
BY DEF TicTacToeInv, BoardsAreCounted, BoardsTypeOK, BoardIsItsHistory, ticTacToeVars

LEMMA PlayersMove ==
    ASSUME BoardsTypeOK, NEW s \in Players, NEW x, context' = [context EXCEPT ![s] = x], NEW c \in BoardIds
    PROVE  Cardinality({p \in Players : context'[p] = c}) =
             Cardinality({p \in Players : context[p] = c}) + (Is(x, c) - Is(context[s], c))
<1> DEFINE F == {p \in Players : context[p] = c}
           G == {p \in Players : context'[p] = c}
<1>1. /\ context'[s] = x /\ \A p \in Players \ {s} : context'[p] = context[p]
  BY DEF BoardsTypeOK
<1>2. /\ F \in SUBSET Players /\ G \in SUBSET Players /\ \A p \in Players \ {s} : p \in G <=> p \in F
      /\ s \in F <=> context[s] = c
      /\ s \in G <=> x = c
  BY <1>1
<1> HIDE DEF F, G
<1>3. Cardinality(G) = Cardinality(F) + (Is(x, c) - Is(context[s], c))
  BY <1>2, CountMoves, BoardsAssumption
<1>. QED  BY <1>3 DEF F, G

(* A step that makes the boards ones that are kept, whatever is then done  *)
(* to the waiters of one of them.                                          *)
LEMMA BoardsStep ==
    ASSUME TicTacToeInv, NEW s \in Players, NEW x \in BoardIds \cup {NoBoard},
           context' = [context EXCEPT ![s] = x],
           all_boards' \in [BoardIds -> Boards], requests' \in [Waits -> {"none", "waits", "replied"}],
           \A c \in BoardIds : KeptBoard(all_boards', requests', s, x, c)
    PROVE  TicTacToeInv'
<1>1. BoardsTypeOK
  BY DEF TicTacToeInv, BoardsAreCounted
<1>2. /\ BoardsTypeOK'
      /\ \A c \in BoardIds :
            /\ all_boards'[c].use_count = all_boards[c].use_count + (Is(x, c) - Is(context[s], c))
            /\ Game(all_boards'[c])
            /\ \A w \in all_boards'[c].waiters :
                  requests'[w] = "waits" /\ \A d \in BoardIds \ {c} : w \notin all_boards'[d].waiters
  BY <1>1, Zenon DEF BoardsTypeOK, KeptBoard
<1>3. ASSUME NEW c \in BoardIds
      PROVE  all_boards'[c].use_count = Cardinality({p \in Players : context'[p] = c})
  <2>1. all_boards[c].use_count = Cardinality({p \in Players : context[p] = c})
    BY DEF TicTacToeInv, BoardsAreCounted
  <2>2. Cardinality({p \in Players : context'[p] = c}) =
          Cardinality({p \in Players : context[p] = c}) + (Is(x, c) - Is(context[s], c))
    BY <1>1, PlayersMove, Zenon
  <2>. QED  BY <1>2, <2>1, <2>2, Zenon
<1>4. BoardIsItsHistory'
  BY <1>2, GamesKeptNext
<1>5. BoardsAreCounted'
  BY <1>2, <1>3, Zenon DEF BoardsAreCounted
<1>. QED  BY <1>4, <1>5 DEF TicTacToeInv

LEMMA KeptStep ==
    ASSUME TicTacToeInv, NEW s \in Players, NEW x \in BoardIds \cup {NoBoard}, NEW boards, Kept(boards, s, x),
           Untouched(s, x, boards)
    PROVE  TicTacToeInv'
<1>1. /\ all_boards' = boards /\ context' = [context EXCEPT ![s] = x] /\ requests' = requests
      /\ requests' \in [Waits -> {"none", "waits", "replied"}]
  BY DEF Untouched, TicTacToeInv, BoardsAreCounted, BoardsTypeOK
<1>2. /\ all_boards' \in [BoardIds -> Boards]
      /\ \A c \in BoardIds : KeptBoard(all_boards', requests', s, x, c)
  BY <1>1, Zenon DEF Kept, KeptBoard
<1>. QED  BY <1>1, <1>2, BoardsStep

LEMMA ChangedStep ==
    ASSUME TicTacToeInv, NEW s \in Players, NEW b \in BoardIds, NEW boards, Kept(boards, s, b),
           NEW B \in Boards, Game(B), B.use_count = boards[b].use_count, B.waiters = boards[b].waiters,
           changed(s, b, boards, B)
    PROVE  TicTacToeInv'
<1> DEFINE C == [B EXCEPT !.waiters = {}]
<1>1. /\ all_boards' = [boards EXCEPT ![b] = C]
      /\ requests' = [w \in Waits |-> IF w \in B.waiters THEN "replied" ELSE requests[w]]
      /\ context' = [context EXCEPT ![s] = b]
  BY DEF changed
<1>2. /\ C \in Boards /\ C.use_count = B.use_count /\ C.waiters = {}
      /\ C.board = B.board /\ C.history = B.history
  BY DEF Boards
<1>3. Game(C)
  BY <1>2 DEF Game
<1> HIDE DEF C
<1>4. boards \in [BoardIds -> Boards] /\ requests \in [Waits -> {"none", "waits", "replied"}]
  BY DEF Kept, TicTacToeInv, BoardsAreCounted, BoardsTypeOK
<1>5. /\ all_boards' \in [BoardIds -> Boards] /\ requests' \in [Waits -> {"none", "waits", "replied"}]
      /\ all_boards'[b] = C /\ \A c \in BoardIds \ {b} : all_boards'[c] = boards[c]
  BY <1>1, <1>2, <1>4
<1>6. ASSUME NEW c \in BoardIds
      PROVE  /\ all_boards'[c].use_count = all_boards[c].use_count + (Is(b, c) - Is(context[s], c))
             /\ Game(all_boards'[c])
  BY <1>2, <1>3, <1>5, Zenon DEF Kept, KeptBoard
<1>7. ASSUME NEW c \in BoardIds, NEW w \in all_boards'[c].waiters
      PROVE  requests'[w] = "waits" /\ \A d \in BoardIds \ {c} : w \notin all_boards'[d].waiters
  <2>1. c # b /\ w \in boards[c].waiters
    BY <1>2, <1>5, <1>7, Zenon
  <2>2. requests[w] = "waits" /\ \A d \in BoardIds \ {c} : w \notin boards[d].waiters
    BY <2>1, Zenon DEF Kept, KeptBoard
  <2>3. w \in Waits
    BY <1>4, <2>1 DEF Boards
  <2>4. requests'[w] = "waits"
    BY <1>1, <2>1, <2>2, <2>3
  <2>5. ASSUME NEW d \in BoardIds \ {c} PROVE w \notin all_boards'[d].waiters
    BY <1>2, <1>5, <2>2, Zenon
  <2>. QED  BY <2>4, <2>5
<1>8. b \in BoardIds \cup {NoBoard}
  OBVIOUS
<1>9. \A c \in BoardIds : KeptBoard(all_boards', requests', s, b, c)
  BY <1>6, <1>7, Zenon DEF KeptBoard
<1>. QED  BY <1>1, <1>5, <1>8, <1>9, BoardsStep

LEMMA WaitStep ==
    ASSUME TicTacToeInv, NEW s \in Players, NEW b \in BoardIds, NEW boards, Kept(boards, s, b),
           NEW q \in Waits, wait(s, b, boards, q)
    PROVE  TicTacToeInv'
<1> DEFINE C == [boards[b] EXCEPT !.waiters = @ \cup {q}]
<1>1. /\ all_boards' = [boards EXCEPT ![b] = C]
      /\ requests[q] = "none" /\ requests' = [requests EXCEPT ![q] = "waits"]
      /\ context' = [context EXCEPT ![s] = b]
  BY DEF wait
<1>2. boards \in [BoardIds -> Boards] /\ requests \in [Waits -> {"none", "waits", "replied"}]
  BY DEF Kept, TicTacToeInv, BoardsAreCounted, BoardsTypeOK
<1>3. /\ C \in Boards /\ C.use_count = boards[b].use_count /\ C.waiters = boards[b].waiters \cup {q}
      /\ C.board = boards[b].board /\ C.history = boards[b].history
  <2>1. boards[b] \in Boards
    BY <1>2
  <2>. QED  BY <2>1 DEF Boards
<1>4. Game(C)
  <2>1. Game(boards[b])
    BY Zenon DEF Kept, KeptBoard
  <2>. QED  BY <1>3, <2>1 DEF Game
<1> HIDE DEF C
<1>5. /\ all_boards' \in [BoardIds -> Boards] /\ requests' \in [Waits -> {"none", "waits", "replied"}]
      /\ all_boards'[b] = C /\ \A c \in BoardIds \ {b} : all_boards'[c] = boards[c]
  BY <1>1, <1>2, <1>3
<1>6. ASSUME NEW c \in BoardIds
      PROVE  /\ all_boards'[c].use_count = all_boards[c].use_count + (Is(b, c) - Is(context[s], c))
             /\ Game(all_boards'[c])
  BY <1>3, <1>4, <1>5, Zenon DEF Kept, KeptBoard
<1>7. ASSUME NEW c \in BoardIds, NEW w \in all_boards'[c].waiters
      PROVE  requests'[w] = "waits" /\ \A d \in BoardIds \ {c} : w \notin all_boards'[d].waiters
  <2>1. \A d \in BoardIds : q \notin boards[d].waiters
    <3>1. \A d \in BoardIds : \A v \in boards[d].waiters : requests[v] = "waits"
      BY Zenon DEF Kept, KeptBoard
    <3>. QED  BY <1>1, <3>1
  <2>2. CASE w = q
    <3>1. c = b /\ requests'[w] = "waits"
      BY <1>1, <1>2, <1>5, <1>7, <2>1, <2>2
    <3>. QED  BY <1>5, <2>1, <2>2, <3>1, Zenon
  <2>3. CASE w # q
    <3>1. w \in boards[c].waiters
      BY <1>3, <1>5, <1>7, <2>3
    <3>2. requests[w] = "waits" /\ \A d \in BoardIds \ {c} : w \notin boards[d].waiters
      BY <3>1, Zenon DEF Kept, KeptBoard
    <3>3. w \in Waits
      BY <1>2, <3>1 DEF Boards
    <3>4. requests'[w] = "waits"
      BY <1>1, <1>2, <2>3, <3>2, <3>3
    <3>5. ASSUME NEW d \in BoardIds \ {c} PROVE w \notin all_boards'[d].waiters
      BY <1>3, <1>5, <2>3, <3>2
    <3>. QED  BY <3>4, <3>5
  <2>. QED  BY <2>2, <2>3
<1>8. b \in BoardIds \cup {NoBoard}
  OBVIOUS
<1>9. \A c \in BoardIds : KeptBoard(all_boards', requests', s, b, c)
  BY <1>6, <1>7, Zenon DEF KeptBoard
<1>. QED  BY <1>1, <1>5, <1>8, <1>9, BoardsStep

(* A verb of a session that has its board.                                 *)
LEMMA VerbStep ==
    ASSUME TicTacToeInv, NEW s \in Players, NEW b \in BoardIds, NEW boards, Kept(boards, s, b),
           Verb(s, b, boards)
    PROVE  TicTacToeInv'
<1> DEFINE B == boards[b]
<1>1. B \in Boards /\ Game(B)
  BY DEF Kept, KeptBoard
<1>2. b \in BoardIds \cup {NoBoard}
  OBVIOUS
<1>3. ASSUME NEW i \in Cells, winner(B.board) = "blank", B.board[i] = "blank", changed(s, b, boards, Moved(B, i))
      PROVE  TicTacToeInv'
  BY <1>1, <1>3, MovedGame, ChangedStep
<1>4. CASE Untouched(s, b, boards)
  BY <1>2, <1>4, KeptStep
<1>5. CASE new(s, b, boards)
  <2> DEFINE C == [B EXCEPT !.board = Blank, !.history = <<>>]
  <2>1. C \in Boards /\ C.use_count = B.use_count /\ C.waiters = B.waiters /\ C.board = Blank /\ C.history = <<>>
    <3>1. Blank \in [Cells -> {"blank", "X", "0"}] /\ <<>> \in Seq(Cells)
      BY DEF Blank
    <3>. QED  BY <1>1, <3>1 DEF Boards
  <2>2. changed(s, b, boards, C)
    BY <1>5 DEF new
  <2> HIDE DEF C
  <2>. QED  BY <2>1, <2>2, BlankGame, ChangedStep
<1>6. ASSUME NEW i \in Indexes, move(s, b, boards, i) PROVE TicTacToeInv'
  <2>1. CASE i \in Cells /\ MayMove(B, i)
    BY <1>3, <1>6, <2>1, Zenon DEF move, MayMove
  <2>2. CASE ~(i \in Cells /\ MayMove(B, i))
    BY <1>4, <1>6, <2>2, Zenon DEF move
  <2>. QED  BY <2>1, <2>2
<1>7. ASSUME NEW l \in Levels, level(s, b, boards, l) PROVE TicTacToeInv'
  <2>1. CASE l \in 1..10
    <3> DEFINE C == [B EXCEPT !.level = l]
    <3>1. /\ C \in Boards /\ C.use_count = B.use_count /\ C.waiters = B.waiters
          /\ C.board = B.board /\ C.history = B.history
      <4>1. l \in 0..10
        BY <2>1
      <4>. QED  BY <1>1, <4>1 DEF Boards
    <3>2. changed(s, b, boards, C)
      BY <1>7, <2>1 DEF level
    <3>3. Game(C)
      BY <1>1, <3>1 DEF Game
    <3> HIDE DEF C
    <3>. QED  BY <3>1, <3>2, <3>3, ChangedStep
  <2>2. CASE l \notin 1..10
    BY <1>4, <1>7, <2>2, Zenon DEF level
  <2>. QED  BY <2>1, <2>2
<1>8. CASE undo(s, b, boards)
  <2>1. CASE B.history # <<>>
    BY <1>1, <1>8, <2>1, UndoneGame, ChangedStep DEF undo
  <2>2. CASE B.history = <<>>
    BY <1>4, <1>8, <2>2, Zenon DEF undo
  <2>. QED  BY <2>1, <2>2
<1>9. CASE play(s, b, boards)
  <2>1. CASE winner(B.board) # "blank" \/ Len(B.history) = 9
    BY <1>4, <1>9, <2>1, Zenon DEF play
  <2>2. CASE winner(B.board) = "blank" /\ Len(B.history) # 9
    <3>1. PICK i \in get_move(B) : changed(s, b, boards, Moved(B, i))
      BY <1>9, <2>2, Zenon DEF play
    <3>2. i \in Cells /\ B.board[i] = "blank"
      BY <1>1, <2>2, FreeCell, MoveFree
    <3>. QED  BY <1>3, <2>2, <3>1, <3>2, Zenon
  <2>. QED  BY <2>1, <2>2
<1>10. ASSUME NEW w \in Waits, wait(s, b, boards, w) PROVE TicTacToeInv'
  BY <1>10, WaitStep
<1>. QED  BY <1>4, <1>5, <1>6, <1>7, <1>8, <1>9, <1>10, Zenon DEF Verb, board

(* What a session uses has a count, and what has none is not used.         *)
LEMMA UsedBoards ==
    ASSUME TicTacToeInv, NEW b \in BoardIds
    PROVE  /\ all_boards[b].use_count \in Nat
           /\ search_board(b) <=> \E s \in Players : context[s] = b
<1> DEFINE U == {s \in Players : context[s] = b}
<1>1. all_boards[b].use_count = Cardinality(U)
  BY DEF TicTacToeInv, BoardsAreCounted
<1>2. IsFiniteSet(U)
  BY BoardsAssumption, FS_Subset
<1>3. Cardinality(U) \in Nat /\ (Cardinality(U) = 0 <=> U = {})
  BY <1>2, FS_CardinalityType, FS_EmptySet
<1>. QED  BY <1>1, <1>3 DEF search_board

LEMMA NewBoard ==
    /\ get_new_board \in Boards /\ get_new_board.use_count = 1 /\ get_new_board.waiters = {}
    /\ Game(get_new_board)
<1>1. Blank \in [Cells -> {"blank", "X", "0"}] /\ <<>> \in Seq(Cells)
  BY DEF Blank
<1>2. /\ get_new_board \in Boards /\ get_new_board.use_count = 1 /\ get_new_board.waiters = {}
      /\ get_new_board.history = <<>> /\ get_new_board.board = Blank
  BY <1>1 DEF get_new_board, Boards
<1>. QED  BY <1>2, BlankGame

LEMMA FreedBoard ==
    Freed \in Boards /\ Freed.use_count = 0 /\ Freed.waiters = {} /\ Game(Freed)
<1>1. Blank \in [Cells -> {"blank", "X", "0"}] /\ <<>> \in Seq(Cells)
  BY DEF Blank
<1>2. /\ Freed \in Boards /\ Freed.use_count = 0 /\ Freed.waiters = {}
      /\ Freed.history = <<>> /\ Freed.board = Blank
  BY <1>1 DEF Freed, Boards
<1>. QED  BY <1>2, BlankGame

(* One board made new among boards that are kept.                          *)
LEMMA CallKeeps ==
    ASSUME TicTacToeInv, NEW s \in Players, NEW b \in BoardIds, board_of_req(s, b)
    PROVE  Kept(BoardsWith(b), s, b)
<1> USE BoardsAssumption
<1>1. /\ all_boards \in [BoardIds -> Boards]
      /\ \A c \in BoardIds : Game(all_boards[c])
      /\ \A c \in BoardIds : \A w \in all_boards[c].waiters :
            requests[w] = "waits" /\ \A d \in BoardIds \ {c} : w \notin all_boards[d].waiters
  BY GamesKept, Zenon DEF TicTacToeInv, BoardsAreCounted, BoardsTypeOK
<1>2. \A c \in BoardIds : all_boards[c].use_count \in Nat
  BY UsedBoards
<1>3. CASE b = context[s]
  <2>1. BoardsWith(b) = all_boards
    BY <1>3, UsedBoards DEF BoardsWith
  <2>2. \A c \in BoardIds : all_boards[c].use_count = all_boards[c].use_count + (Is(b, c) - Is(context[s], c))
    BY <1>2, <1>3 DEF Is
  <2>. QED  BY <1>1, <2>1, <2>2, Zenon DEF Kept, KeptBoard
<1>4. CASE context[s] = NoBoard /\ b \in FreeIds
  <2>1. /\ BoardsWith(b) = [all_boards EXCEPT ![b] = get_new_board]
        /\ all_boards[b].use_count = 0
    BY <1>2, <1>4 DEF BoardsWith, FreeIds, search_board
  <2>2. /\ BoardsWith(b) \in [BoardIds -> Boards] /\ BoardsWith(b)[b] = get_new_board
        /\ \A c \in BoardIds \ {b} : BoardsWith(b)[c] = all_boards[c]
    BY <1>1, <2>1, NewBoard
  <2>3. ASSUME NEW c \in BoardIds
        PROVE  BoardsWith(b)[c].use_count = all_boards[c].use_count + (Is(b, c) - Is(context[s], c))
    <3>1. context[s] # c
      BY <1>4
    <3>. QED  BY <1>2, <2>1, <2>2, <3>1, NewBoard DEF Is
  <2>4. ASSUME NEW c \in BoardIds
        PROVE  /\ Game(BoardsWith(b)[c])
               /\ \A w \in BoardsWith(b)[c].waiters :
                    requests[w] = "waits" /\ \A d \in BoardIds \ {c} : w \notin BoardsWith(b)[d].waiters
    BY <1>1, <2>2, NewBoard, Zenon
  <2>. QED  BY <2>2, <2>3, <2>4, Zenon DEF Kept, KeptBoard
<1>. QED  BY <1>3, <1>4 DEF board_of_req

(* Boards where b lost a user: the board goes with its last user.          *)
LEMMA ReleasedBoard ==
    ASSUME NEW boards \in [BoardIds -> Boards], NEW b \in BoardIds, boards[b].use_count > 0, Game(boards[b]),
           NEW R, R = release_board(boards, b)
    PROVE  /\ R \in [BoardIds -> Boards] /\ \A c \in BoardIds \ {b} : R[c] = boards[c]
           /\ R[b].use_count = boards[b].use_count - 1 /\ Game(R[b])
           /\ R[b].waiters \subseteq boards[b].waiters
<1> DEFINE B == boards[b]
           D == [B EXCEPT !.use_count = @ - 1]
<1>1. B \in Boards /\ B.use_count \in Nat /\ B.use_count > 0
  BY DEF Boards
<1>2. Freed \in Boards /\ Freed.use_count = 0 /\ Freed.waiters = {} /\ Game(Freed)
  BY FreedBoard
<1>3. D \in Boards /\ D.use_count = B.use_count - 1 /\ D.waiters = B.waiters /\ Game(D)
  <2>1. B.use_count - 1 \in Nat
    BY <1>1
  <2>2. /\ D \in Boards /\ D.use_count = B.use_count - 1 /\ D.waiters = B.waiters
        /\ D.history = B.history /\ D.board = B.board
    BY <1>1, <2>1 DEF Boards
  <2>. QED  BY <2>2 DEF Game
<1>4. b # NoBoard
  BY BoardsAssumption
<1>5. CASE B.use_count = 1
  <2>1. R = [boards EXCEPT ![b] = Freed]
    BY <1>4, <1>5 DEF release_board
  <2>. QED  BY <1>2, <1>5, <2>1
<1>6. CASE B.use_count # 1
  <2>1. R = [boards EXCEPT ![b] = D]
    BY <1>4, <1>6 DEF release_board
  <2> HIDE DEF D
  <2>. QED  BY <1>3, <2>1
<1>. QED  BY <1>5, <1>6

(* A session that leaves its board for x, which has been given one user    *)
(* more.                                                                   *)
LEMMA LeaveKeeps ==
    ASSUME TicTacToeInv, NEW s \in Players, context[s] # NoBoard,
           NEW x \in BoardIds \cup {NoBoard}, x # context[s],
           NEW boards \in [BoardIds -> Boards],
           \A c \in BoardIds :
              /\ boards[c].use_count = all_boards[c].use_count + Is(x, c)
              /\ Game(boards[c])
              /\ boards[c].waiters \subseteq all_boards[c].waiters
    PROVE  Kept(release_board(boards, context[s]), s, x)
<1> DEFINE b == context[s]
           R == release_board(boards, b)
<1>1. /\ b \in BoardIds
      /\ \A c \in BoardIds : \A w \in all_boards[c].waiters :
            requests[w] = "waits" /\ \A d \in BoardIds \ {c} : w \notin all_boards[d].waiters
  BY DEF TicTacToeInv, BoardsAreCounted, BoardsTypeOK
<1>2. \A c \in BoardIds : all_boards[c].use_count \in Nat
  BY UsedBoards
<1>3. all_boards[b].use_count > 0
  BY <1>1, UsedBoards DEF search_board
<1>4. boards[b].use_count = all_boards[b].use_count
  BY <1>1, <1>2 DEF Is
<1> HIDE DEF R, b
<1>5. /\ R \in [BoardIds -> Boards] /\ \A c \in BoardIds \ {b} : R[c] = boards[c]
      /\ R[b].use_count = boards[b].use_count - 1 /\ Game(R[b])
      /\ R[b].waiters \subseteq boards[b].waiters
  BY <1>1, <1>3, <1>4, ReleasedBoard DEF R
<1>6. ASSUME NEW c \in BoardIds PROVE KeptBoard(R, requests, s, x, c)
  <2>1. R[c].use_count = all_boards[c].use_count + (Is(x, c) - Is(b, c))
    <3>1. CASE c = b
      BY <1>2, <1>4, <1>5, <3>1 DEF Is, b
    <3>2. CASE c # b
      BY <1>2, <1>5, <3>2 DEF Is
    <3>. QED  BY <3>1, <3>2
  <2>2. Game(R[c])
    BY <1>5
  <2>3. \A d \in BoardIds : R[d].waiters \subseteq all_boards[d].waiters
    BY <1>5
  <2>. QED  BY <1>1, <2>1, <2>2, <2>3 DEF KeptBoard, b
<1>7. Kept(R, s, x)
  BY <1>5, <1>6 DEF Kept
<1>. QED  BY <1>7 DEF R, b

LEMMA JoinStep ==
    ASSUME TicTacToeInv, NEW s \in Players, NEW id \in BoardIds \cup {NoBoard}, join(s, id)
    PROVE  TicTacToeInv'
<1>1. /\ all_boards \in [BoardIds -> Boards] /\ \A c \in BoardIds : Game(all_boards[c])
      /\ context \in [Players -> BoardIds \cup {NoBoard}] /\ context[s] # NoBoard
  BY GamesKept, Zenon DEF TicTacToeInv, BoardsAreCounted, BoardsTypeOK, join
<1>2. CASE ~search_board(id)
  <2>1. UNCHANGED ticTacToeVars
    BY <1>2 DEF join, ticTacToeVars
  <2>. QED  BY <2>1, StillBoards
<1>3. CASE search_board(id) /\ id = context[s]
  <2>1. UNCHANGED ticTacToeVars
    BY <1>1, <1>3 DEF join, ticTacToeVars, Joined
  <2>. QED  BY <2>1, StillBoards
<1>4. CASE search_board(id) /\ id # context[s]
  <2> DEFINE boards == [all_boards EXCEPT ![id].use_count = @ + 1]
  <2>1. id \in BoardIds
    BY <1>4 DEF search_board
  <2>2. all_boards[id] \in Boards /\ all_boards[id].use_count \in Nat
    BY <1>1, <2>1, UsedBoards
  <2> DEFINE C == [all_boards[id] EXCEPT !.use_count = @ + 1]
  <2>3. /\ C \in Boards /\ C.use_count = all_boards[id].use_count + 1
        /\ C.waiters = all_boards[id].waiters
        /\ C.history = all_boards[id].history /\ C.board = all_boards[id].board
    <3>1. all_boards[id].use_count + 1 \in Nat
      BY <2>2
    <3>. QED  BY <2>2, <3>1 DEF Boards
  <2>4. Game(C)
    BY <1>1, <2>1, <2>3 DEF Game
  <2>5. boards = [all_boards EXCEPT ![id] = C]
    OBVIOUS
  <2> HIDE DEF C, boards
  <2>6. /\ boards \in [BoardIds -> Boards] /\ boards[id] = C
        /\ \A c \in BoardIds \ {id} : boards[c] = all_boards[c]
    BY <1>1, <2>1, <2>3, <2>5
  <2>7. ASSUME NEW c \in BoardIds
        PROVE  /\ boards[c].use_count = all_boards[c].use_count + Is(id, c)
               /\ Game(boards[c])
               /\ boards[c].waiters \subseteq all_boards[c].waiters
    <3>1. all_boards[c].use_count \in Nat
      BY UsedBoards
    <3>2. CASE c = id
      BY <2>3, <2>4, <2>6, <3>2 DEF Is
    <3>3. CASE c # id
      BY <1>1, <2>6, <3>1, <3>3 DEF Is
    <3>. QED  BY <3>2, <3>3
  <2>8. Kept(release_board(boards, context[s]), s, id)
    BY <1>1, <1>4, <2>6, <2>7, LeaveKeeps
  <2>9. Untouched(s, id, release_board(boards, context[s]))
    BY <1>4, Zenon DEF join, Joined, Untouched, boards
  <2>. QED  BY <2>8, <2>9, KeptStep
<1>. QED  BY <1>2, <1>3, <1>4

LEMMA JoinNoneStep ==
    ASSUME TicTacToeInv, NEW s \in Players, NEW id, join_none(s, id)
    PROVE  TicTacToeInv'
<1> DEFINE boards == [all_boards EXCEPT ![id] = get_new_board]
<1>1. /\ all_boards \in [BoardIds -> Boards] /\ \A c \in BoardIds : Game(all_boards[c])
      /\ context[s] # NoBoard /\ id \in BoardIds /\ ~search_board(id)
  BY GamesKept DEF TicTacToeInv, BoardsAreCounted, BoardsTypeOK, join_none, FreeIds
<1>2. all_boards[id].use_count = 0 /\ id # context[s]
  BY <1>1, UsedBoards DEF search_board
<1>3. /\ boards \in [BoardIds -> Boards] /\ boards[id] = get_new_board
      /\ \A c \in BoardIds \ {id} : boards[c] = all_boards[c]
  BY <1>1, NewBoard
<1>4. Untouched(s, id, release_board(boards, context[s]))
  BY Zenon DEF join_none, Untouched
<1> HIDE DEF boards
<1>5. ASSUME NEW c \in BoardIds
      PROVE  /\ boards[c].use_count = all_boards[c].use_count + Is(id, c)
             /\ Game(boards[c])
             /\ boards[c].waiters \subseteq all_boards[c].waiters
  <2>1. all_boards[c].use_count \in Nat
    BY UsedBoards
  <2>2. CASE c = id
    BY <1>2, <1>3, <2>2, NewBoard DEF Is
  <2>3. CASE c # id
    BY <1>1, <1>3, <2>1, <2>3 DEF Is
  <2>. QED  BY <2>2, <2>3
<1>6. Kept(release_board(boards, context[s]), s, id)
  BY <1>1, <1>2, <1>3, <1>5, LeaveKeeps
<1>. QED  BY <1>1, <1>4, <1>6, KeptStep

LEMMA ClosedStep ==
    ASSUME TicTacToeInv, NEW s \in Players, SessionClosed(s)
    PROVE  TicTacToeInv'
<1>1. /\ all_boards \in [BoardIds -> Boards] /\ \A c \in BoardIds : Game(all_boards[c])
      /\ context[s] # NoBoard
  BY GamesKept DEF TicTacToeInv, BoardsAreCounted, BoardsTypeOK, SessionClosed
<1>2. \A c \in BoardIds : all_boards[c].use_count = all_boards[c].use_count + Is(NoBoard, c)
  BY UsedBoards, BoardsAssumption DEF Is
<1>3. Kept(release_board(all_boards, context[s]), s, NoBoard)
  BY <1>1, <1>2, LeaveKeeps
<1>4. Untouched(s, NoBoard, release_board(all_boards, context[s]))
  BY Zenon DEF SessionClosed, Untouched
<1>. QED  BY <1>3, <1>4, KeptStep

LEMMA BoardsInit == TicTacToeInit => TicTacToeInv
<1> SUFFICES ASSUME TicTacToeInit PROVE TicTacToeInv
  OBVIOUS
<1>1. /\ all_boards = [b \in BoardIds |-> Freed] /\ context = [s \in Players |-> NoBoard]
      /\ requests = [w \in Waits |-> "none"]
  BY DEF TicTacToeInit
<1>2. Freed \in Boards /\ Freed.use_count = 0 /\ Freed.waiters = {} /\ Game(Freed)
  BY FreedBoard
<1>3. BoardsTypeOK
  BY <1>1, <1>2 DEF BoardsTypeOK
<1>4. \A b \in BoardIds : {s \in Players : context[s] = b} = {}
  BY <1>1, BoardsAssumption
<1>5. BoardsAreCounted
  BY <1>1, <1>2, <1>3, <1>4, FS_EmptySet DEF BoardsAreCounted
<1>6. BoardIsItsHistory
  BY <1>1, <1>2, GamesKept
<1>. QED  BY <1>5, <1>6 DEF TicTacToeInv

LEMMA BoardsNext == TicTacToeInv /\ [TicTacToeNext]_ticTacToeVars => TicTacToeInv'
<1> SUFFICES ASSUME TicTacToeInv, [TicTacToeNext]_ticTacToeVars PROVE TicTacToeInv'
  OBVIOUS
<1>1. ASSUME NEW s \in Players, VerbCalled(s) PROVE TicTacToeInv'
  <2>1. PICK b \in BoardIds : board_of_req(s, b) /\ Verb(s, b, BoardsWith(b))
    BY <1>1, Zenon DEF VerbCalled
  <2>. QED  BY <2>1, CallKeeps, VerbStep
<1>2. ASSUME NEW s \in Players, NEW id \in BoardIds \cup {NoBoard}, join(s, id) PROVE TicTacToeInv'
  BY <1>2, JoinStep
<1>3. ASSUME NEW s \in Players, NEW id \in BoardIds \cup {NoBoard}, join_none(s, id) PROVE TicTacToeInv'
  BY <1>3, JoinNoneStep
<1>4. ASSUME NEW s \in Players, SessionClosed(s) PROVE TicTacToeInv'
  BY <1>4, ClosedStep
<1>5. CASE UNCHANGED ticTacToeVars
  BY <1>5, StillBoards
<1>. QED  BY <1>1, <1>2, <1>3, <1>4, <1>5, Zenon DEF TicTacToeNext

LEMMA BoardsSafe == TicTacToeSpec => []TicTacToeInv
BY BoardsInit, BoardsNext, PTL DEF TicTacToeSpec

(* Whatever sessions join, leave and close, in any order, a board lives as *)
(* long as some session has it for its context and no longer (join of      *)
(* one's own board included), and the requests that wait on it are neither *)
(* replied nor on an other.                                                *)
THEOREM BoardsCounted == TicTacToeSpec => []BoardsAreCounted
<1>1. TicTacToeInv => BoardsAreCounted
  BY DEF TicTacToeInv
<1>. QED  BY <1>1, BoardsSafe, PTL

(* A board is what its history made of an empty one, no cell played twice  *)
(* and nobody playing after a line: through move, undo, new and play, at   *)
(* any level and whatever rand gives to the computer.                      *)
THEOREM BoardsAreHistories == TicTacToeSpec => []BoardIsItsHistory
<1>1. TicTacToeInv => BoardIsItsHistory
  BY DEF TicTacToeInv
<1>. QED  BY <1>1, BoardsSafe, PTL
=============================================================================
