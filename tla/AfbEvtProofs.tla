---------------------------- MODULE AfbEvtProofs ----------------------------
(***************************************************************************)
(* Proofs about the lists of watches of AfbEvt, the ids of the events and  *)
(* what the listeners are told, for every set of events and of listeners   *)
(* and whatever the callbacks of the listeners are.                        *)
(***************************************************************************)
EXTENDS AfbEvt, FiniteSetTheorems, WellFoundedInduction, TLAPS

(* What the proofs need to know of the variables of the lists.             *)
ListsTyped ==
    /\ events \subseteq Events
    /\ refcount \in [Listeners -> Nat]
    /\ by_event \in [Events -> SUBSET Listeners]
    /\ by_listener \in [Listeners -> SUBSET Events]

ListsInv == ListsTyped /\ WatchesAreLinkedTwice /\ WatchersHavePush

lists == <<events, refcount, by_event, by_listener>>

(* The lists are empty at first.                                           *)
LEMMA ListsInit == Init => ListsInv
  BY DEF Init, ListsInv, ListsTyped, WatchesAreLinkedTwice, WatchersHavePush

(* Removing a set of watches from both lists keeps them in agreement.      *)
LEMMA RemovalKeepsLinks ==
  ASSUME ListsTyped, WatchesAreLinkedTwice, WatchersHavePush,
         NEW ws, RemoveWatches(ws)
  PROVE  /\ by_event' \in [Events -> SUBSET Listeners]
         /\ by_listener' \in [Listeners -> SUBSET Events]
         /\ \A e \in Events : by_event'[e] = {l \in by_event[e] : <<l, e>> \notin ws}
         /\ \A l \in Listeners : by_listener'[l] = {e \in by_listener[l] : <<l, e>> \notin ws}
         /\ \A l \in Listeners, e \in Events :
              l \in by_event'[e] <=> e \in by_listener'[l]
  BY DEF RemoveWatches, ListsTyped, WatchesAreLinkedTwice

(* Every operation keeps the lists in agreement.                           *)
LEMMA ListsStep == ListsInv /\ [Next]_vars => ListsInv'
<1> SUFFICES ASSUME ListsInv, [Next]_vars PROVE ListsInv'
  OBVIOUS
<1> USE DEF ListsInv
<1>1. ASSUME NEW e \in Events, afb_evt_create_event(e) PROVE ListsInv'
  <2>1. by_event' \in [Events -> SUBSET Listeners] /\ events' \subseteq Events
    BY <1>1 DEF afb_evt_create_event, ListsTyped
  <2>2. by_event[e] = {}
    BY <1>1 DEF afb_evt_create_event, ListsTyped, WatchesAreLinkedTwice
  <2>3. \A f \in Events : by_event'[f] = by_event[f]
    BY <1>1, <2>2 DEF afb_evt_create_event, ListsTyped
  <2>4. /\ by_listener' = by_listener /\ refcount' = refcount
        /\ events \subseteq events'
    BY <1>1 DEF afb_evt_create_event
  <2> QED
    BY <2>1, <2>3, <2>4 DEF ListsTyped, WatchesAreLinkedTwice, WatchersHavePush
<1>2. ASSUME NEW e \in Events, evt_destroy(e) PROVE ListsInv'
  <2> DEFINE ws == {<<l, e>> : l \in by_event[e]}
  <2>1. /\ RemoveWatches(ws) /\ events' = events \ {e}
        /\ refcount' = refcount
    BY <1>2 DEF evt_destroy
  <2>2. /\ by_event' \in [Events -> SUBSET Listeners]
        /\ by_listener' \in [Listeners -> SUBSET Events]
        /\ \A f \in Events : by_event'[f] = {l \in by_event[f] : <<l, f>> \notin ws}
        /\ \A l \in Listeners : by_listener'[l] = {f \in by_listener[l] : <<l, f>> \notin ws}
        /\ \A l \in Listeners, f \in Events : l \in by_event'[f] <=> f \in by_listener'[l]
    BY <2>1, RemovalKeepsLinks
  <2>3. by_event'[e] = {}
    BY <2>2 DEF ListsTyped
  <2>4. \A f \in Events : by_event'[f] # {} => f \in events'
    BY <2>1, <2>2, <2>3 DEF WatchesAreLinkedTwice
  <2>5. \A l \in Listeners : by_listener'[l] # {} => refcount'[l] > 0
    BY <2>1, <2>2 DEF WatchesAreLinkedTwice
  <2>6. WatchersHavePush'
    BY <2>2 DEF WatchersHavePush
  <2> QED
    BY <2>1, <2>2, <2>4, <2>5, <2>6 DEF ListsTyped, WatchesAreLinkedTwice
<1>3. ASSUME NEW l \in Listeners, afb_evt_listener_create(l) PROVE ListsInv'
  <2>1. /\ refcount' = [refcount EXCEPT ![l] = @ + 1]
        /\ events' = events /\ by_event' = by_event
    BY <1>3 DEF afb_evt_listener_create
  <2>2. refcount' \in [Listeners -> Nat] /\ \A k \in Listeners : refcount'[k] >= refcount[k]
    BY <2>1 DEF ListsTyped
  <2>3. by_listener' = by_listener
    <3>1. CASE refcount[l] = 0
      <4>1. by_listener[l] = {}
        BY <3>1 DEF ListsTyped, WatchesAreLinkedTwice
      <4> QED
        BY <1>3, <3>1, <4>1 DEF afb_evt_listener_create, ListsTyped
    <3>2. CASE refcount[l] # 0
      BY <1>3, <3>2 DEF afb_evt_listener_create
    <3> QED
      BY <3>1, <3>2
  <2>4. \A k \in Listeners : refcount[k] > 0 => refcount'[k] > 0
    BY <2>2 DEF ListsTyped
  <2> QED
    BY <2>1, <2>2, <2>3, <2>4 DEF ListsTyped, WatchesAreLinkedTwice, WatchersHavePush
<1>4. ASSUME NEW l \in Listeners, afb_evt_listener_unref(l) PROVE ListsInv'
  <2>1. /\ refcount[l] \in Nat /\ refcount[l] > 0
        /\ refcount' = [refcount EXCEPT ![l] = IF LastRef(l) THEN 0 ELSE @ - 1]
        /\ events' = events
    BY <1>4 DEF afb_evt_listener_unref, ListsTyped
  <2>2. refcount' \in [Listeners -> Nat]
    BY <2>1 DEF ListsTyped
  <2>3. CASE LastRef(l)
    <3> DEFINE ws == {<<l, e>> : e \in by_listener[l]}
    <3>1. RemoveWatches(ws)
      BY <1>4, <2>3 DEF afb_evt_listener_unref
    <3>2. /\ by_event' \in [Events -> SUBSET Listeners]
          /\ by_listener' \in [Listeners -> SUBSET Events]
          /\ \A f \in Events : by_event'[f] = {k \in by_event[f] : <<k, f>> \notin ws}
          /\ \A k \in Listeners : by_listener'[k] = {f \in by_listener[k] : <<k, f>> \notin ws}
          /\ \A k \in Listeners, f \in Events : k \in by_event'[f] <=> f \in by_listener'[k]
      BY <3>1, RemovalKeepsLinks
    <3>3. by_listener'[l] = {}
      BY <3>2
    <3>4. \A k \in Listeners : by_listener'[k] # {} => refcount'[k] > 0
      BY <2>1, <3>2, <3>3 DEF ListsTyped, WatchesAreLinkedTwice
    <3>5. \A f \in Events : by_event'[f] # {} => f \in events'
      BY <2>1, <3>2 DEF WatchesAreLinkedTwice
    <3>6. WatchersHavePush'
      BY <3>2 DEF WatchersHavePush
    <3> QED
      BY <2>1, <2>2, <3>2, <3>4, <3>5, <3>6 DEF ListsTyped, WatchesAreLinkedTwice
  <2>4. CASE ~LastRef(l)
    <3>1. by_event' = by_event /\ by_listener' = by_listener
      BY <1>4, <2>4 DEF afb_evt_listener_unref, watchVars
    <3>2. \A k \in Listeners : refcount[k] > 0 => refcount'[k] > 0
      BY <2>1, <2>4 DEF LastRef, ListsTyped
    <3> QED
      BY <2>1, <2>2, <3>1, <3>2 DEF ListsTyped, WatchesAreLinkedTwice, WatchersHavePush
  <2> QED
    BY <2>3, <2>4
<1>5. ASSUME NEW l \in Listeners, NEW e \in Events, afb_evt_add_watch(l, e)
      PROVE  ListsInv'
  <2>1. /\ refcount[l] > 0 /\ e \in events /\ l \in HasPush
        /\ by_event' = [by_event EXCEPT ![e] = @ \cup {l}]
        /\ by_listener' = [by_listener EXCEPT ![l] = @ \cup {e}]
        /\ events' = events /\ refcount' = refcount
    BY <1>5 DEF afb_evt_add_watch, MayWatch
  <2>2. ListsTyped'
    BY <2>1 DEF ListsTyped
  <2>3. WatchesAreLinkedTwice'
    BY <2>1 DEF ListsTyped, WatchesAreLinkedTwice
  <2>4. WatchersHavePush'
    BY <2>1 DEF ListsTyped, WatchersHavePush
  <2> QED
    BY <2>2, <2>3, <2>4
<1>6. ASSUME UNCHANGED lists PROVE ListsInv'
  BY <1>6 DEF lists, ListsTyped, WatchesAreLinkedTwice, WatchersHavePush
<1>7. ASSUME NEW l \in Listeners, NEW e \in Events, afb_evt_remove_watch(l, e)
      PROVE  UNCHANGED lists
  BY <1>7 DEF afb_evt_remove_watch, lists
<1>8. ASSUME NEW e \in Events, evt_push(e) PROVE UNCHANGED lists
  BY <1>8 DEF evt_push, watchVars, lists
<1>9. ASSUME afb_evt_broadcast PROVE UNCHANGED lists
  BY <1>9 DEF afb_evt_broadcast, watchVars, lists
<1>10. ASSUME UNCHANGED vars PROVE UNCHANGED lists
  BY <1>10 DEF vars, lists
<1> QED
  BY <1>1, <1>2, <1>3, <1>4, <1>5, <1>6, <1>7, <1>8, <1>9, <1>10 DEF Next

(* No list of watches keeps a pointer to a freed watch, event or listener  *)
(* (afb-evt.c:181-238 and 342-408), however events are dropped and         *)
(* listeners released.                                                     *)
THEOREM LinkedTwice == Spec => []WatchesAreLinkedTwice
<1>1. Spec => []ListsInv
  BY ListsInit, ListsStep, PTL DEF Spec
<1>2. ListsInv => WatchesAreLinkedTwice
  BY DEF ListsInv
<1> QED
  BY <1>1, <1>2, PTL

(* The assertion of evt_push (afb-evt.c:163) never fails.                  *)
THEOREM PushNeverAsserts == Spec => []WatchersHavePush
<1>1. Spec => []ListsInv
  BY ListsInit, ListsStep, PTL DEF Spec
<1>2. ListsInv => WatchersHavePush
  BY DEF ListsInv
<1> QED
  BY <1>1, <1>2, PTL

-----------------------------------------------------------------------------
(* The ids.                                                                *)

(* A set of numbers has a least one.                                       *)
LEMMA MinOfIsLeast ==
    ASSUME NEW S \in SUBSET Nat, S # {}
    PROVE  MinOf(S) \in S /\ \A n \in S : MinOf(S) <= n
<1>1. PICK x \in S : \A y \in S : ~(<<y, x>> \in OpToRel(<, Nat))
  BY NatLessThanWellFounded, WFMin
<1>2. \A y \in S : y \in Nat /\ x \in Nat /\ ~(y < x)
  BY <1>1 DEF OpToRel
<1>3. \A y \in S : x <= y
  BY <1>2
<1>. QED  BY <1>3 DEF MinOf

(* While an event can be created, an id from WrapId on is free.            *)
LEMMA SomeIdIsFree ==
    ASSUME TypeOK, NEW e \in Events, e \notin events
    PROVE  WrapId..MaxId \ IdsInUse # {}
<1> DEFINE f == [x \in events |-> id[x]]
           W == WrapId..MaxId
<1>1. IsFiniteSet(events) /\ Cardinality(events) < Cardinality(Events)
      /\ Cardinality(events) \in Nat /\ Cardinality(Events) \in Nat
  <2>1. IsFiniteSet(events) /\ Cardinality(events) <= Cardinality(Events)
        /\ (Cardinality(Events) = Cardinality(events) => Events = events)
    BY IdAssumption, FS_Subset DEF TypeOK
  <2>. QED  BY <2>1, IdAssumption, FS_CardinalityType
<1>2. f \in Surjection(events, IdsInUse)
  BY DEF Surjection, IdsInUse
<1>3. IsFiniteSet(IdsInUse) /\ Cardinality(IdsInUse) <= Cardinality(events)
  BY <1>1, <1>2, FS_Surjection
<1>4. IsFiniteSet(W) /\ Cardinality(W) = MaxId - WrapId + 1
  BY IdAssumption, FS_Interval
<1>5. ~(W \subseteq IdsInUse)
  <2> SUFFICES ASSUME W \in SUBSET IdsInUse PROVE FALSE
    OBVIOUS
  <2>1. Cardinality(W) <= Cardinality(IdsInUse) /\ Cardinality(IdsInUse) \in Nat
    BY <1>3, FS_Subset, FS_CardinalityType
  <2>. QED  BY <1>1, <1>3, <1>4, <2>1, IdAssumption
<1>. QED  BY <1>5

(* The id given is one no event has; until the counter wraps, it is the    *)
(* next one.                                                               *)
LEMMA NextIdIsFree ==
    ASSUME TypeOK, IdsInv, NEW e \in Events, e \notin events
    PROVE  /\ NextId \in Ids
           /\ NextId \notin IdsInUse
           /\ ~Wraps => ~event_id_wrapped /\ NextId = event_id_counter + 1
<1> DEFINE above == (event_id_counter + 1)..MaxId \ IdsInUse
           below == WrapId..MaxId \ IdsInUse
<1> USE IdAssumption
<1>0. event_id_counter \in 0..MaxId
  BY DEF TypeOK
<1>1. CASE ~event_id_wrapped /\ event_id_counter < MaxId
  <2>1. NextId = event_id_counter + 1
    BY <1>1 DEF NextId
  <2>. QED  BY <1>0, <1>1, <2>1 DEF Ids, IdsInUse, IdsInv, TypeOK
<1>2. CASE event_id_wrapped \/ event_id_counter = MaxId
  <2>1. NextId = IF above # {} THEN MinOf(above) ELSE MinOf(below)
    BY <1>0, <1>2 DEF NextId
  <2>2. below # {} /\ above \in SUBSET Nat /\ below \in SUBSET Nat
    BY <1>0, SomeIdIsFree
  <2>3. NextId \in above \/ NextId \in below
    <3> HIDE DEF above, below
    <3>. QED  BY <2>1, <2>2, MinOfIsLeast
  <2>4. NextId \in Ids /\ NextId \notin IdsInUse
    BY <1>0, <2>3 DEF Ids
  <2>. QED  BY <1>0, <1>2, <2>4 DEF Wraps, Ids
<1>. QED  BY <1>0, <1>1, <1>2

-----------------------------------------------------------------------------
(* What the listeners are told.                                            *)

(* Of a set of events with different ids, those of one id are one or none. *)
ActiveIn(es, l, i) == {e \in es : activity[l][e] # 0 /\ id[e] = i}

LEMMA OneOrNone ==
    ASSUME IdsInv, NEW es \in SUBSET events, NEW l, NEW i
    PROVE  Cardinality(ActiveIn(es, l, i)) = IF ActiveIn(es, l, i) = {} THEN 0 ELSE 1
<1>1. CASE ActiveIn(es, l, i) = {}
  BY <1>1, FS_EmptySet
<1>2. ASSUME NEW e \in ActiveIn(es, l, i) PROVE ActiveIn(es, l, i) = {e}
  BY <1>2 DEF IdsInv, ActiveIn
<1>. QED  BY <1>1, <1>2, FS_Singleton

(* Removing linked watches, all those of the events that disappear among   *)
(* them, takes back what was told of them and nothing else.                *)
LEMMA RemovalKeepsKnown ==
    ASSUME IInv, NEW ws, RemoveWatches(ws), id' = id, events' \subseteq events,
           \A l \in Listeners, e \in Events : <<l, e>> \in ws => l \in by_event[e],
           \A e \in events \ events' : \A l \in by_event[e] : <<l, e>> \in ws
    PROVE  /\ activity' \in [Listeners -> [Events -> 0..MaxActivity]]
           /\ known' \in [Listeners -> [Ids -> 0..1]]
           /\ ActiveInv'
           /\ KnownInv'
<1> DEFINE es(l) == {e \in Events : <<l, e>> \in ws}
<1>1. /\ activity' \in [Listeners -> [Events -> 0..MaxActivity]]
      /\ \A l \in Listeners, e \in Events :
           activity'[l][e] = IF <<l, e>> \in ws THEN 0 ELSE activity[l][e]
  BY BoundAssumption DEF RemoveWatches, IInv, TypeOK
<1>2. \A l \in Listeners : by_listener'[l] = {e \in by_listener[l] : <<l, e>> \notin ws}
  BY DEF RemoveWatches
<1>3. ActiveInv'
  <2> SUFFICES ASSUME NEW l \in Listeners, NEW e \in Events, activity'[l][e] > 0
               PROVE  e \in by_listener'[l]
    BY DEF ActiveInv
  <2>1. <<l, e>> \notin ws /\ activity[l][e] > 0
    BY <1>1
  <2>. QED  BY <1>2, <2>1 DEF ActiveInv, IInv
<1>4. \A l \in Listeners : es(l) \in SUBSET events
  BY DEF IInv, WatchesAreLinkedTwice
<1>5. \A l \in Listeners : \A i \in Ids :
        known'[l][i] = known[l][i] - (IF l \in HasAdd /\ \E e \in es(l) : activity[l][e] # 0 /\ id[e] = i
                                      THEN 1 ELSE 0)
  <2> SUFFICES ASSUME NEW l \in Listeners, NEW i \in Ids
               PROVE  known'[l][i] = known[l][i] - (IF l \in HasAdd /\ \E e \in es(l) : activity[l][e] # 0 /\ id[e] = i
                                                    THEN 1 ELSE 0)
    OBVIOUS
  <2>1. known'[l][i] = known[l][i] - (IF l \in HasAdd
                      THEN Cardinality({e \in es(l) : activity[l][e] # 0 /\ id[e] = i})
                      ELSE 0)
    BY DEF RemoveWatches, Forgotten
  <2>2. Cardinality({e \in es(l) : activity[l][e] # 0 /\ id[e] = i})
          = IF \E e \in es(l) : activity[l][e] # 0 /\ id[e] = i THEN 1 ELSE 0
    <3>1. IdsInv /\ es(l) \in SUBSET events
      BY <1>4 DEF IInv
    <3> HIDE DEF es
    <3>2. Cardinality(ActiveIn(es(l), l, i)) = IF ActiveIn(es(l), l, i) = {} THEN 0 ELSE 1
      BY <3>1, OneOrNone
    <3>. QED  BY <3>2 DEF ActiveIn
  <2>. QED  BY <2>1, <2>2
<1>6. \A l \in HasAdd, i \in Ids :
         /\ Subscribed(l, i) <=> \/ Subscribed(l, i)'
                                 \/ \E e \in es(l) : activity[l][e] # 0 /\ id[e] = i
         /\ ~(Subscribed(l, i)' /\ \E e \in es(l) : activity[l][e] # 0 /\ id[e] = i)
  <2> SUFFICES ASSUME NEW l \in HasAdd, NEW i \in Ids
               PROVE  /\ Subscribed(l, i) <=> \/ Subscribed(l, i)'
                                              \/ \E e \in es(l) : activity[l][e] # 0 /\ id[e] = i
                      /\ ~(Subscribed(l, i)' /\ \E e \in es(l) : activity[l][e] # 0 /\ id[e] = i)
    OBVIOUS
  <2>0. l \in Listeners
    BY ListenersAssumption
  <2>1. \A e \in events : activity[l][e] > 0 => e \in events' \/ e \in es(l)
    BY <2>0 DEF IInv, TypeOK, ActiveInv, WatchesAreLinkedTwice
  <2>2. \A e \in es(l) : activity'[l][e] = 0
    BY <1>1, <2>0
  <2>3. \A e \in events' : e \in es(l) \/ activity'[l][e] = activity[l][e]
    BY <1>1, <2>0 DEF IInv, TypeOK
  <2>4. \A e \in Events : activity[l][e] \in Nat
    BY <2>0, BoundAssumption DEF IInv, TypeOK
  <2> HIDE DEF es
  <2>5. es(l) \subseteq events /\ events' \subseteq events /\ events \subseteq Events
    BY <1>4, <2>0 DEF IInv, TypeOK
  <2>. QED  BY <2>1, <2>2, <2>3, <2>4, <2>5 DEF Subscribed, IInv, IdsInv
<1> HIDE DEF es
<1>7. KnownInv'
  BY <1>5, <1>6, ListenersAssumption DEF KnownInv, IInv
<1>8. known' \in [Listeners -> [Ids -> 0..1]]
  <2>1. known' = [l \in Listeners |-> [i \in Ids |-> known'[l][i]]]
    BY DEF RemoveWatches, Forgotten
  <2>2. \A l \in Listeners, i \in Ids : known'[l][i] \in 0..1
    <3> SUFFICES ASSUME NEW l \in Listeners, NEW i \in Ids PROVE known'[l][i] \in 0..1
      OBVIOUS
    <3>1. CASE l \in HasAdd
      BY <1>7, <3>1 DEF KnownInv
    <3>2. CASE l \notin HasAdd
      <4>1. known'[l][i] = known[l][i] - 0 /\ known[l][i] \in 0..1
        BY <1>5, <3>2 DEF IInv, TypeOK
      <4>. QED  BY <4>1
    <3>. QED  BY <3>1, <3>2
  <2>. QED  BY <2>1, <2>2
<1>. QED  BY <1>1, <1>3, <1>7, <1>8

-----------------------------------------------------------------------------
(* IInv is inductive.                                                      *)

LEMMA EvtInit == Init => IInv
<1> SUFFICES ASSUME Init PROVE IInv
  OBVIOUS
<1>1. TypeOK
  <2>1. /\ activity \in [Listeners -> [Events -> 0..MaxActivity]]
        /\ known \in [Listeners -> [Ids -> 0..1]]
        /\ refcount \in [Listeners -> 0..MaxRef]
    BY BoundAssumption DEF Init
  <2>2. event_id_wrapped \in BOOLEAN
    BY DEF Init
  <2>3. id \in [Events -> 0..MaxId] /\ event_id_counter \in 0..MaxId
    BY IdAssumption DEF Init
  <2>4. /\ events \subseteq Events
        /\ by_event \in [Events -> SUBSET Listeners]
        /\ by_listener \in [Listeners -> SUBSET Events]
    BY DEF Init
  <2>. QED  BY <2>1, <2>2, <2>3, <2>4 DEF TypeOK
<1>2. WatchesAreLinkedTwice /\ WatchersHavePush
  BY ListsInit DEF ListsInv
<1>3. IdsInv /\ ActiveInv
  BY DEF Init, IdsInv, ActiveInv
<1>4. KnownInv
  BY ListenersAssumption DEF Init, KnownInv, Subscribed
<1>. QED  BY <1>1, <1>2, <1>3, <1>4 DEF IInv

LEMMA ListsKept ==
    ASSUME IInv, [Next]_vars
    PROVE  WatchesAreLinkedTwice' /\ WatchersHavePush'
<1>1. ListsInv
  BY BoundAssumption DEF IInv, TypeOK, ListsInv, ListsTyped
<1>. QED  BY <1>1, ListsStep DEF ListsInv

LEMMA CreateKeeps ==
    ASSUME IInv, NEW e \in Events, afb_evt_create_event(e)
    PROVE  TypeOK' /\ IdsInv' /\ ActiveInv' /\ KnownInv'
<1> USE DEF afb_evt_create_event
<1>1. /\ NextId \in Ids /\ NextId \notin IdsInUse
      /\ ~Wraps => ~event_id_wrapped /\ NextId = event_id_counter + 1
  BY NextIdIsFree DEF IInv
<1>2. e \notin events /\ \A l \in Listeners : ~(activity[l][e] > 0)
  BY DEF IInv, ActiveInv, WatchesAreLinkedTwice
<1>3. event_id_wrapped' \in BOOLEAN
  BY DEF Wraps, IInv, TypeOK
<1>4. TypeOK'
  <2>0. NextId \in 0..MaxId
    BY <1>1, IdAssumption DEF Ids
  <2>1. /\ id' \in [Events -> 0..MaxId] /\ event_id_counter' \in 0..MaxId
        /\ events' \subseteq Events
    BY <2>0 DEF IInv, TypeOK
  <2>2. by_event' \in [Events -> SUBSET Listeners]
    BY DEF IInv, TypeOK
  <2>. QED  BY <1>3, <2>1, <2>2 DEF IInv, TypeOK
<1>5. IdsInv'
  <2>1. /\ event_id_counter' = NextId
        /\ ~event_id_wrapped' => ~event_id_wrapped /\ NextId = event_id_counter + 1
    BY <1>1
  <2>2. CASE events' = events /\ id' = id
    BY <2>1, <2>2 DEF IInv, TypeOK, IdsInv
  <2>3. CASE events' = events \cup {e} /\ id' = [id EXCEPT ![e] = NextId]
    <3>1. \A f \in events : id'[f] = id[f] /\ id[f] # NextId /\ f # e /\ id[f] \in 0..MaxId
      BY <1>1, <1>2, <2>3 DEF IInv, TypeOK, IdsInUse
    <3>2. id'[e] = NextId /\ NextId > 0
      BY <1>1, <2>3, IdAssumption DEF IInv, TypeOK, Ids
    <3>. QED  BY <1>1, <2>1, <2>3, <3>1, <3>2, IdAssumption DEF IInv, IdsInv, Ids, TypeOK
  <2>. QED  BY <2>2, <2>3
<1>6. ActiveInv'
  BY DEF IInv, ActiveInv
<1>7. KnownInv'
  <2>1. \A l \in HasAdd, i \in Ids : Subscribed(l, i)' = Subscribed(l, i)
    BY <1>2, ListenersAssumption DEF Subscribed, IInv, TypeOK
  <2>. QED  BY <2>1 DEF IInv, KnownInv
<1>. QED  BY <1>4, <1>5, <1>6, <1>7

LEMMA DestroyKeeps ==
    ASSUME IInv, NEW e \in Events, evt_destroy(e)
    PROVE  TypeOK' /\ IdsInv' /\ ActiveInv' /\ KnownInv'
<1> USE DEF evt_destroy, idVars
<1> DEFINE ws == {<<l, e>> : l \in by_event[e]}
<1>1. RemoveWatches(ws) /\ id' = id /\ events' = events \ {e} /\ e \in events
  OBVIOUS
<1>2. /\ \A l \in Listeners, f \in Events : <<l, f>> \in ws => l \in by_event[f]
      /\ \A f \in events \ events' : \A l \in by_event[f] : <<l, f>> \in ws
  BY <1>1
<1>3. /\ activity' \in [Listeners -> [Events -> 0..MaxActivity]]
      /\ known' \in [Listeners -> [Ids -> 0..1]]
      /\ ActiveInv' /\ KnownInv'
  BY <1>1, <1>2, RemovalKeepsKnown
<1>4. by_event' \in [Events -> SUBSET Listeners] /\ by_listener' \in [Listeners -> SUBSET Events]
  BY <1>1 DEF RemoveWatches, IInv, TypeOK
<1>5. TypeOK'
  BY <1>1, <1>3, <1>4 DEF IInv, TypeOK
<1>6. IdsInv'
  BY <1>1 DEF IInv, IdsInv
<1>. QED  BY <1>3, <1>5, <1>6

LEMMA ListenerCreateKeeps ==
    ASSUME IInv, NEW l \in Listeners, afb_evt_listener_create(l)
    PROVE  TypeOK' /\ IdsInv' /\ ActiveInv' /\ KnownInv'
<1> USE DEF afb_evt_listener_create, idVars
<1>1. by_listener' = by_listener
  BY DEF IInv, TypeOK, WatchesAreLinkedTwice
<1>2. TypeOK'
  BY <1>1, BoundAssumption DEF IInv, TypeOK
<1>3. IdsInv' /\ ActiveInv'
  BY <1>1 DEF IInv, IdsInv, ActiveInv
<1>4. KnownInv'
  BY DEF IInv, KnownInv, Subscribed
<1>. QED  BY <1>2, <1>3, <1>4

LEMMA ListenerUnrefKeeps ==
    ASSUME IInv, NEW l \in Listeners, afb_evt_listener_unref(l)
    PROVE  TypeOK' /\ IdsInv' /\ ActiveInv' /\ KnownInv'
<1> USE DEF afb_evt_listener_unref, idVars
<1>1. refcount' \in [Listeners -> 0..MaxRef]
  BY BoundAssumption DEF IInv, TypeOK
<1>2. IdsInv'
  BY DEF IInv, IdsInv
<1>3. CASE UNCHANGED watchVars
  <2>1. TypeOK'
    BY <1>1, <1>3 DEF watchVars, IInv, TypeOK
  <2>2. ActiveInv' /\ KnownInv'
    BY <1>3 DEF watchVars, IInv, ActiveInv, KnownInv, Subscribed
  <2>. QED  BY <1>2, <2>1, <2>2
<1>4. CASE RemoveWatches({<<l, e>> : e \in by_listener[l]})
  <2> DEFINE ws == {<<l, e>> : e \in by_listener[l]}
  <2>1. \A k \in Listeners, f \in Events : <<k, f>> \in ws => k \in by_event[f]
    BY DEF IInv, WatchesAreLinkedTwice
  <2>2. /\ activity' \in [Listeners -> [Events -> 0..MaxActivity]]
        /\ known' \in [Listeners -> [Ids -> 0..1]]
        /\ ActiveInv' /\ KnownInv'
    BY <1>4, <2>1, RemovalKeepsKnown
  <2>3. by_event' \in [Events -> SUBSET Listeners] /\ by_listener' \in [Listeners -> SUBSET Events]
    BY <1>4 DEF RemoveWatches, IInv, TypeOK
  <2>4. TypeOK'
    BY <1>1, <2>2, <2>3 DEF IInv, TypeOK
  <2>. QED  BY <1>2, <2>2, <2>4
<1>. QED  BY <1>3, <1>4

LEMMA AddWatchKeeps ==
    ASSUME IInv, NEW l \in Listeners, NEW e \in Events, afb_evt_add_watch(l, e)
    PROVE  TypeOK' /\ IdsInv' /\ ActiveInv' /\ KnownInv'
<1> USE DEF afb_evt_add_watch, idVars
<1>1. /\ e \in events /\ id[e] \in Ids
      /\ \A f \in events : id[f] = id[e] => f = e
  BY IdAssumption DEF IInv, IdsInv, TypeOK, Ids
<1>2. /\ activity' \in [Listeners -> [Events -> 0..MaxActivity]]
      /\ \A k \in Listeners, f \in Events :
           activity'[k][f] = IF k = l /\ f = e THEN activity[l][e] + 1 ELSE activity[k][f]
      /\ activity[l][e] \in Nat
  BY BoundAssumption DEF IInv, TypeOK
<1>3. /\ known'= [known EXCEPT ![l] = TellAdd(l, e)]
      /\ \A k \in Listeners \ {l} : known'[k] = known[k]
      /\ known'[l] = TellAdd(l, e)
  BY DEF IInv, TypeOK
<1>4. KnownInv'
  <2> SUFFICES ASSUME NEW k \in HasAdd, NEW i \in Ids
               PROVE  known'[k][i] = IF Subscribed(k, i)' THEN 1 ELSE 0
    BY DEF KnownInv
  <2>0. k \in Listeners /\ known[k] \in [Ids -> 0..1]
        /\ known[k][i] = IF Subscribed(k, i) THEN 1 ELSE 0
    BY ListenersAssumption DEF IInv, TypeOK, KnownInv
  <2>1. CASE k # l \/ i # id[e]
    <3>1. Subscribed(k, i)' <=> Subscribed(k, i)
      BY <1>2, <2>0, <2>1 DEF Subscribed, IInv, TypeOK
    <3>2. known'[k][i] = known[k][i]
      BY <1>1, <1>3, <2>0, <2>1 DEF TellAdd
    <3>. QED  BY <2>0, <3>1, <3>2
  <2>2. CASE k = l /\ i = id[e]
    <3>1. Subscribed(k, i)'
      BY <1>1, <1>2, <2>2 DEF Subscribed
    <3>2. Subscribed(k, i) <=> activity[l][e] > 0
      BY <1>1, <2>2 DEF Subscribed
    <3>3. known'[k][i] = IF activity[l][e] = 0 THEN known[k][i] + 1 ELSE known[k][i]
      BY <1>1, <1>3, <2>0, <2>2 DEF TellAdd
    <3>. QED  BY <1>2, <2>0, <3>1, <3>2, <3>3
  <2>. QED  BY <2>1, <2>2
<1>5. known' \in [Listeners -> [Ids -> 0..1]]
  <2>1. TellAdd(l, e) \in [Ids -> 0..1]
    <3>1. CASE l \in HasAdd
      <4>1. TellAdd(l, e) \in [Ids -> Int]
        BY <1>1, SMTT(20) DEF TellAdd, IInv, TypeOK
      <4>2. \A i \in Ids : TellAdd(l, e)[i] \in 0..1
        BY <1>3, <1>4, <3>1 DEF KnownInv
      <4>. QED  BY <4>1, <4>2
    <3>2. CASE l \notin HasAdd
      BY <3>2 DEF TellAdd, IInv, TypeOK
    <3>. QED  BY <3>1, <3>2
  <2>. QED  BY <1>3, <2>1 DEF IInv, TypeOK
<1>6. TypeOK'
  <2>1. by_event' \in [Events -> SUBSET Listeners] /\ by_listener' \in [Listeners -> SUBSET Events]
    BY DEF IInv, TypeOK
  <2>. QED  BY <1>2, <1>5, <2>1 DEF IInv, TypeOK
<1>7. IdsInv'
  BY DEF IInv, IdsInv
<1>8. ActiveInv'
  BY <1>2 DEF IInv, TypeOK, ActiveInv
<1>. QED  BY <1>4, <1>6, <1>7, <1>8

LEMMA RemoveWatchKeeps ==
    ASSUME IInv, NEW l \in Listeners, NEW e \in Events, afb_evt_remove_watch(l, e)
    PROVE  TypeOK' /\ IdsInv' /\ ActiveInv' /\ KnownInv'
<1> USE DEF afb_evt_remove_watch, idVars
<1>0. IdsInv'
  BY DEF IInv, IdsInv
<1>1. CASE UNCHANGED <<activity, known>>
  <2>1. TypeOK'
    BY <1>1 DEF IInv, TypeOK
  <2>2. ActiveInv' /\ KnownInv'
    BY <1>1 DEF IInv, ActiveInv, KnownInv, Subscribed
  <2>. QED  BY <1>0, <2>1, <2>2
<1>2. CASE /\ activity[l][e] # 0
           /\ activity' = [activity EXCEPT ![l][e] = @ - 1]
           /\ known' = [known EXCEPT ![l] = IF activity[l][e] = 1 THEN Forgotten(l, {e}) ELSE @]
  <2>1. /\ e \in events /\ id[e] \in Ids
        /\ \A f \in events : id[f] = id[e] => f = e
    BY IdAssumption DEF IInv, IdsInv, TypeOK, Ids, WatchesAreLinkedTwice
  <2>2. /\ activity' \in [Listeners -> [Events -> 0..MaxActivity]]
        /\ \A k \in Listeners, f \in Events :
             activity'[k][f] = IF k = l /\ f = e THEN activity[l][e] - 1 ELSE activity[k][f]
        /\ activity[l][e] \in Nat \ {0}
    <3>1. /\ activity \in [Listeners -> [Events -> 0..MaxActivity]]
          /\ activity[l][e] \in 1..MaxActivity
      BY <1>2, BoundAssumption DEF IInv, TypeOK
    <3>. QED  BY <1>2, <3>1, BoundAssumption
  <2>3. \A i \in Ids : Forgotten(l, {e})[i]
          = known[l][i] - (IF l \in HasAdd /\ id[e] = i THEN 1 ELSE 0)
    <3> SUFFICES ASSUME NEW i \in Ids
                 PROVE  Forgotten(l, {e})[i] = known[l][i] - (IF l \in HasAdd /\ id[e] = i THEN 1 ELSE 0)
      OBVIOUS
    <3>1. Cardinality({f \in {e} : activity[l][f] # 0 /\ id[f] = i}) = IF id[e] = i THEN 1 ELSE 0
      <4>1. {e} \in SUBSET events /\ IdsInv
        BY <2>1 DEF IInv
      <4>2. Cardinality(ActiveIn({e}, l, i)) = IF ActiveIn({e}, l, i) = {} THEN 0 ELSE 1
        BY <4>1, OneOrNone
      <4>3. Cardinality({f \in {e} : activity[l][f] # 0 /\ id[f] = i})
              = IF \E f \in {e} : activity[l][f] # 0 /\ id[f] = i THEN 1 ELSE 0
        BY <4>2 DEF ActiveIn
      <4>. QED  BY <1>2, <4>3
    <3>. QED  BY <3>1 DEF Forgotten
  <2>4. /\ \A k \in Listeners \ {l} : known'[k] = known[k]
        /\ known'[l] = IF activity[l][e] = 1 THEN Forgotten(l, {e}) ELSE known[l]
    BY <1>2 DEF IInv, TypeOK
  <2>5. KnownInv'
    <3> SUFFICES ASSUME NEW k \in HasAdd, NEW i \in Ids
                 PROVE  known'[k][i] = IF Subscribed(k, i)' THEN 1 ELSE 0
      BY DEF KnownInv
    <3>0. k \in Listeners /\ known[k] \in [Ids -> 0..1]
          /\ known[k][i] = IF Subscribed(k, i) THEN 1 ELSE 0
      BY ListenersAssumption DEF IInv, TypeOK, KnownInv
    <3>1. CASE k # l \/ i # id[e]
      <4>1. Subscribed(k, i)' <=> Subscribed(k, i)
        BY <2>2, <3>0, <3>1, ZenonT(30) DEF Subscribed, IInv, TypeOK
      <4>2. known'[k][i] = known[k][i]
        BY <2>3, <2>4, <3>0, <3>1, SMTT(20)
      <4>. QED  BY <3>0, <4>1, <4>2
    <3>2. CASE k = l /\ i = id[e]
      <4>1. Subscribed(k, i)' <=> activity[l][e] # 1
        BY <2>1, <2>2, <3>2 DEF Subscribed
      <4>2. known[k][i] = 1
        BY <2>1, <2>2, <3>0, <3>2 DEF Subscribed
      <4>3. known'[k][i] = IF activity[l][e] = 1 THEN 0 ELSE 1
        BY <2>3, <2>4, <3>2, <4>2
      <4>. QED  BY <4>1, <4>3
    <3>. QED  BY <3>1, <3>2
  <2>6. known' \in [Listeners -> [Ids -> 0..1]]
    <3>1. known'[l] \in [Ids -> 0..1]
      <4>1. known'[l] \in [Ids -> Int]
        <5>1. Forgotten(l, {e}) = [i \in Ids |-> Forgotten(l, {e})[i]]
          BY DEF Forgotten
        <5>2. \A i \in Ids : Forgotten(l, {e})[i] \in Int
          <6>1. \A i \in Ids : known[l][i] \in Int
            BY DEF IInv, TypeOK
          <6>2. ASSUME NEW i \in Ids PROVE Forgotten(l, {e})[i] \in Int
            <7> DEFINE n == IF l \in HasAdd /\ id[e] = i THEN 1 ELSE 0
            <7>1. Forgotten(l, {e})[i] = known[l][i] - n
              BY <2>3, Zenon
            <7>2. n \in Int /\ known[l][i] \in Int
              BY <6>1
            <7> HIDE DEF n
            <7>. QED  BY <7>1, <7>2
          <6>. QED  BY <6>2
        <5>3. Forgotten(l, {e}) \in [Ids -> Int]
          BY <5>1, <5>2
        <5>4. known[l] \in [Ids -> Int]
          BY DEF IInv, TypeOK
        <5>. QED  BY <2>4, <5>3, <5>4
      <4>2. CASE l \in HasAdd
        BY <2>5, <4>1, <4>2 DEF KnownInv
      <4>3. CASE l \notin HasAdd
        <5>1. \A i \in Ids : known'[l][i] = known[l][i]
          <6>1. \A i \in Ids : known[l][i] \in Int
            BY DEF IInv, TypeOK
          <6>2. \A i \in Ids : Forgotten(l, {e})[i] = known[l][i] - 0
            BY <2>3, <4>3
          <6>3. \A i \in Ids : Forgotten(l, {e})[i] = known[l][i]
            BY <6>1, <6>2
          <6>. QED  BY <2>4, <6>3
        <5>. QED  BY <4>1, <5>1 DEF IInv, TypeOK
      <4>. QED  BY <4>2, <4>3
    <3>. QED  BY <1>2, <2>4, <3>1 DEF IInv, TypeOK
  <2>7. TypeOK'
    BY <2>2, <2>6 DEF IInv, TypeOK
  <2>8. ActiveInv'
    BY <2>2 DEF IInv, TypeOK, ActiveInv
  <2>. QED  BY <1>0, <2>5, <2>7, <2>8
<1>. QED  BY <1>1, <1>2

LEMMA EvtStep == IInv /\ [Next]_vars => IInv'
<1> SUFFICES ASSUME IInv, [Next]_vars PROVE IInv'
  OBVIOUS
<1>1. ASSUME UNCHANGED <<events, idVars, refcount, watchVars>>
      PROVE  TypeOK' /\ IdsInv' /\ ActiveInv' /\ KnownInv'
  <2>1. TypeOK'
    BY <1>1 DEF idVars, watchVars, IInv, TypeOK
  <2>. QED
    BY <1>1, <2>1 DEF idVars, watchVars, IInv, IdsInv, ActiveInv, KnownInv, Subscribed
<1>2. TypeOK' /\ IdsInv' /\ ActiveInv' /\ KnownInv'
  <2>1. ASSUME NEW e \in Events, evt_push(e) PROVE UNCHANGED <<events, idVars, refcount, watchVars>>
    BY <2>1 DEF evt_push
  <2>2. CASE afb_evt_broadcast
    BY <1>1, <2>2 DEF afb_evt_broadcast
  <2>3. CASE UNCHANGED vars
    BY <1>1, <2>3 DEF vars, idVars, watchVars
  <2>. QED  BY <1>1, <2>1, <2>2, <2>3, CreateKeeps, DestroyKeeps, ListenerCreateKeeps,
            ListenerUnrefKeeps, AddWatchKeeps, RemoveWatchKeeps DEF Next
<1>. QED  BY <1>2, ListsKept DEF IInv

LEMMA EvtAlways == Spec => []IInv
BY EvtInit, EvtStep, PTL DEF Spec

(* Ids are unique even after the counter wrapped (afb-evt.c:250-260), and  *)
(* the add and remove callbacks leave a remote client with exactly the ids *)
(* of the events it is subscribed to.                                      *)
THEOREM RemoteKnows == Spec => []RemoteKnowsItsEvents
<1>1. IInv => RemoteKnowsItsEvents
  <2> SUFFICES ASSUME IInv, NEW l \in HasAdd, NEW i \in Ids
               PROVE  known[l][i] = Cardinality({e \in events : id[e] = i /\ activity[l][e] > 0})
    BY DEF IInv, IdsInv, RemoteKnowsItsEvents
  <2>1. {e \in events : id[e] = i /\ activity[l][e] > 0}
          = {e \in events : activity[l][e] # 0 /\ id[e] = i}
    BY ListenersAssumption, BoundAssumption DEF IInv, TypeOK
  <2>2. Subscribed(l, i) <=> \E e \in events : activity[l][e] # 0 /\ id[e] = i
    BY ListenersAssumption, BoundAssumption DEF Subscribed, IInv, TypeOK
  <2>3. Cardinality({e \in events : activity[l][e] # 0 /\ id[e] = i})
          = IF \E e \in events : activity[l][e] # 0 /\ id[e] = i THEN 1 ELSE 0
    <3>1. Cardinality(ActiveIn(events, l, i)) = IF ActiveIn(events, l, i) = {} THEN 0 ELSE 1
      BY OneOrNone DEF IInv
    <3>. QED  BY <3>1 DEF ActiveIn
  <2>. QED  BY <2>1, <2>2, <2>3 DEF IInv, KnownInv
<1>. QED  BY <1>1, EvtAlways, PTL

=============================================================================
