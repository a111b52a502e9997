------------------------------- MODULE AfbEvt -------------------------------
(***************************************************************************)
(* The events of the binder (afb-evt.c): events created by the bindings,   *)
(* listeners (one per connected client, per service, per exported api) and *)
(* the watches that link them.  A watch is linked in two lists, the one of *)
(* its event and the one of its listener, and counts its subscriptions.    *)
(*                                                                         *)
(* Events and Listeners are addresses: an event dropped or a listener      *)
(* freed leaves its address to the next malloc.  A listener stands for the *)
(* pair (itf, closure) that afb_evt_listener_create looks for.  The        *)
(* operations are called one at a time here.                               *)
(***************************************************************************)
EXTENDS Integers, FiniteSets

CONSTANTS
    Events,         \* addresses of events
    Listeners,      \* pairs (itf, closure)
    HasPush,        \* listeners whose interface has push
    HasBroadcast,   \* listeners whose interface has broadcast
    HasAdd,         \* listeners whose interface has add and remove
    MaxId,          \* the largest int
    WrapId,         \* where ids restart: 1024
    MaxRef,         \* bound on the references of a listener
    MaxActivity     \* bound on the subscriptions of a watch

ASSUME ListenersAssumption ==
    HasPush \subseteq Listeners /\ HasBroadcast \subseteq Listeners
      /\ HasAdd \subseteq Listeners
ASSUME IdAssumption ==
    /\ MaxId \in Nat /\ WrapId \in 1..MaxId
    /\ IsFiniteSet(Events)
    /\ Cardinality(Events) <= MaxId - WrapId + 1
ASSUME BoundAssumption == MaxRef \in Nat /\ MaxActivity \in Nat

Ids == 1..MaxId

VARIABLES
    events,         \* the list of events
    id,             \* the id of each event
    event_id_counter, event_id_wrapped,
    refcount,       \* references of each listener; 0: not in the list
    by_event,       \* the watches of each event: the listeners it links
    by_listener,    \* the watches of each listener: the events it links
    activity,       \* activity of the watch of a listener and an event
    known,          \* ids told to a listener by add and not by remove yet
    last            \* who received in the last call, and the count it returned

vars == <<events, id, event_id_counter, event_id_wrapped, refcount, by_event,
          by_listener, activity, known, last>>
idVars == <<id, event_id_counter, event_id_wrapped>>
watchVars == <<by_event, by_listener, activity, known>>

Nothing == [to |-> {}, count |-> 0]

Init ==
    /\ events = {}
    /\ id = [e \in Events |-> 0]
    /\ event_id_counter = 0
    /\ event_id_wrapped = FALSE
    /\ refcount = [l \in Listeners |-> 0]
    /\ by_event = [e \in Events |-> {}]
    /\ by_listener = [l \in Listeners |-> {}]
    /\ activity = [l \in Listeners |-> [e \in Events |-> 0]]
    /\ known = [l \in Listeners |-> [i \in Ids |-> 0]]
    /\ last = Nothing

-----------------------------------------------------------------------------
(* Allocation of the ids.                                                  *)

IdsInUse == {id[e] : e \in events}

MinOf(S) == CHOOSE m \in S : \A n \in S : m <= n

(* The id after event_id_counter.  ++ past the largest int is negative     *)
(* (the compiled code tests the sign of the result) and wraps; once it has *)
(* wrapped, the ids in use are skipped.                                    *)
NextId ==
    IF ~event_id_wrapped /\ event_id_counter < MaxId
    THEN event_id_counter + 1
    ELSE LET above == (event_id_counter + 1)..MaxId \ IdsInUse
             below == WrapId..MaxId \ IdsInUse
         IN  IF above # {} THEN MinOf(above) ELSE MinOf(below)

(* The counter passed the largest int on its way to NextId.                *)
Wraps == event_id_wrapped \/ NextId <= event_id_counter

(* The id is allocated, then the event unless memory lacks.                *)
afb_evt_create_event(e) ==
    /\ e \notin events
    /\ event_id_counter' = NextId
    /\ event_id_wrapped' = Wraps
    /\ \/ /\ events' = events \cup {e}
          /\ id' = [id EXCEPT ![e] = NextId]
          /\ by_event' = [by_event EXCEPT ![e] = {}]
       \/ UNCHANGED <<events, id, by_event>>
    /\ last' = Nothing
    /\ UNCHANGED <<refcount, by_listener, activity, known>>

-----------------------------------------------------------------------------
(* Watches.                                                                *)

(* The remove callback of l for each event of es that is active.           *)
Forgotten(l, es) ==
    [i \in Ids |->
       known[l][i] - (IF l \in HasAdd
                      THEN Cardinality({e \in es : activity[l][e] # 0 /\ id[e] = i})
                      ELSE 0)]

MutRemoveWatches(ws) ==
    /\ by_event' = [e \in Events |-> {l \in by_event[e] : <<l, e>> \notin ws}]
    /\ by_listener' = by_listener
    /\ activity' = [l \in Listeners |-> [e \in Events |->
                      IF <<l, e>> \in ws THEN 0 ELSE activity[l][e]]]
    /\ known' = [l \in Listeners |-> Forgotten(l, {e \in Events : <<l, e>> \in ws})]

(* remove_watch for each watch (listener, event) of ws: an active one is   *)
(* notified, then it is unlinked from both lists and freed.                *)
RemoveWatches(ws) ==
    /\ by_event' = [e \in Events |-> {l \in by_event[e] : <<l, e>> \notin ws}]
    /\ by_listener' = [l \in Listeners |-> {e \in by_listener[l] : <<l, e>> \notin ws}]
    /\ activity' = [l \in Listeners |-> [e \in Events |->
                      IF <<l, e>> \in ws THEN 0 ELSE activity[l][e]]]
    /\ known' = [l \in Listeners |-> Forgotten(l, {e \in Events : <<l, e>> \in ws})]

(* evt_destroy of a valid event (drop).                                    *)
evt_destroy(e) ==
    /\ e \in events
    /\ events' = events \ {e}
    /\ RemoveWatches({<<l, e>> : l \in by_event[e]})
    /\ last' = Nothing
    /\ UNCHANGED <<idVars, refcount>>

(* afb_evt_listener_create finds the listener or allocates it.             *)
afb_evt_listener_create(l) ==
    /\ refcount[l] < MaxRef
    /\ refcount' = [refcount EXCEPT ![l] = @ + 1]
    /\ by_listener' = IF refcount[l] = 0 THEN [by_listener EXCEPT ![l] = {}]
                                         ELSE by_listener
    /\ last' = Nothing
    /\ UNCHANGED <<events, idVars, by_event, activity, known>>

LastRef(l) == refcount[l] = 1

(* The last reference removes the watches, unlinks and frees the listener. *)
afb_evt_listener_unref(l) ==
    /\ refcount[l] > 0
    /\ refcount' = [refcount EXCEPT ![l] = IF LastRef(l) THEN 0 ELSE @ - 1]
    /\ \/ LastRef(l) /\ RemoveWatches({<<l, e>> : e \in by_listener[l]})
       \/ ~LastRef(l) /\ UNCHANGED watchVars
    /\ last' = Nothing
    /\ UNCHANGED <<events, idVars>>

MutTellAdd(l, e) == IF l \in HasAdd THEN [known[l] EXCEPT ![id[e]] = @ + 1] ELSE known[l]

(* The add callback, when the watch becomes active.                        *)
TellAdd(l, e) ==
    IF activity[l][e] = 0 /\ l \in HasAdd
    THEN [known[l] EXCEPT ![id[e]] = @ + 1]
    ELSE known[l]

(* Without push: EINVAL.                                                   *)
MayWatch(l) == l \in HasPush

(* The watch is found or linked in both lists, and counts one more         *)
(* subscription; if memory lacks, ENOMEM and nothing changes.              *)
afb_evt_add_watch(l, e) ==
    /\ refcount[l] > 0
    /\ e \in events
    /\ MayWatch(l)
    /\ activity[l][e] < MaxActivity
    /\ by_event' = [by_event EXCEPT ![e] = @ \cup {l}]
    /\ by_listener' = [by_listener EXCEPT ![l] = @ \cup {e}]
    /\ known' = [known EXCEPT ![l] = TellAdd(l, e)]
    /\ activity' = [activity EXCEPT ![l][e] = @ + 1]
    /\ last' = Nothing
    /\ UNCHANGED <<events, idVars, refcount>>

(* One subscription less; the remove callback when it was the last one.    *)
(* The watch stays linked.  Without watch: ENOENT, nothing changes.        *)
afb_evt_remove_watch(l, e) ==
    /\ refcount[l] > 0
    /\ e \in by_listener[l]
    /\ \/ /\ activity[l][e] # 0
          /\ activity' = [activity EXCEPT ![l][e] = @ - 1]
          /\ known' = [known EXCEPT ![l] =
                         IF activity[l][e] = 1 THEN Forgotten(l, {e}) ELSE @]
       \/ activity[l][e] = 0 /\ UNCHANGED <<activity, known>>
    /\ last' = Nothing
    /\ UNCHANGED <<events, idVars, refcount, by_event, by_listener>>

-----------------------------------------------------------------------------
(* Propagation.                                                            *)

(* The listeners whose push callback is called.                            *)
Receivers(e) == {l \in by_event[e] : activity[l][e] # 0}

(* evt_push; the result counts the watches of the event, active or not.    *)
evt_push(e) ==
    /\ e \in events
    /\ last' = [to |-> Receivers(e), count |-> Cardinality(by_event[e])]
    /\ UNCHANGED <<events, idVars, refcount, watchVars>>

(* afb_evt_broadcast: every listener with a broadcast callback.            *)
afb_evt_broadcast ==
    /\ LET to == {l \in HasBroadcast : refcount[l] > 0}
       IN  last' = [to |-> to, count |-> Cardinality(to)]
    /\ UNCHANGED <<events, idVars, refcount, watchVars>>

Next ==
    \/ \E e \in Events : \/ afb_evt_create_event(e)
                         \/ evt_destroy(e)
                         \/ evt_push(e)
    \/ \E l \in Listeners : \/ afb_evt_listener_create(l)
                            \/ afb_evt_listener_unref(l)
    \/ \E l \in Listeners, e \in Events : \/ afb_evt_add_watch(l, e)
                                          \/ afb_evt_remove_watch(l, e)
    \/ afb_evt_broadcast

Spec == Init /\ [][Next]_vars

-----------------------------------------------------------------------------
(* Correctness.                                                            *)

TypeOK ==
    /\ events \subseteq Events
    /\ id \in [Events -> 0..MaxId]
    /\ event_id_counter \in 0..MaxId
    /\ event_id_wrapped \in BOOLEAN
    /\ refcount \in [Listeners -> 0..MaxRef]
    /\ by_event \in [Events -> SUBSET Listeners]
    /\ by_listener \in [Listeners -> SUBSET Events]
    /\ activity \in [Listeners -> [Events -> 0..MaxActivity]]
    /\ known \in [Listeners -> [Ids -> 0..1]]

(* The two lists a watch is linked in (afb-evt.c:75-91) agree, and link    *)
(* only events that are not dropped and listeners that are not freed: no   *)
(* list keeps a pointer to a freed watch, event or listener.               *)
WatchesAreLinkedTwice ==
    /\ \A l \in Listeners, e \in Events : l \in by_event[e] <=> e \in by_listener[l]
    /\ \A e \in Events : by_event[e] # {} => e \in events
    /\ \A l \in Listeners : by_listener[l] # {} => refcount[l] > 0

(* Events have different positive ids, even after the counter wrapped      *)
(* (afb-evt.c:250-260), and a remote client that is told of them (add and  *)
(* remove callbacks) knows exactly once the id of each event it subscribed *)
(* to, and no other id: not one of a dropped event, not one left by a      *)
(* freed listener.                                                         *)
RemoteKnowsItsEvents ==
    /\ TypeOK
    /\ \A e, f \in events : id[e] > 0 /\ (id[e] = id[f] => e = f)
    /\ \A l \in HasAdd : \A i \in Ids :
          known[l][i] =
            Cardinality({e \in events : id[e] = i /\ activity[l][e] > 0})

(* "Thus, when unsubscribing is invoked, it becomes immediately effective" *)
(* (doc/afb-events-guide.md:128): a listener that unsubscribes from an     *)
(* event receives no push of it after that step.  The code counts the      *)
(* subscriptions (afb-evt.c:432).                                          *)
UnsubscribeIsEffective ==
    [][\A l \in Listeners, e \in Events : afb_evt_remove_watch(l, e) => l \notin Receivers(e)']_vars

(* "Returns the count of listener taht received the event" (comment of     *)
(* evt_push and of evt_broadcast, afb-evt.c:151): what a push or a         *)
(* broadcast returns is the number of callbacks called.  The code counts   *)
(* the watches that are not active too (afb-evt.c:167).                    *)
ResultIsReceivers == last.count = Cardinality(last.to)

(* The assertion of evt_push (afb-evt.c:163): a listener without push is   *)
(* never linked to an event.                                               *)
WatchersHavePush == \A e \in Events : by_event[e] \subseteq HasPush

-----------------------------------------------------------------------------
(* The inductive invariant behind the safety properties.                   *)

(* Until the counter wraps, every id was given below it.                   *)
IdsInv ==
    /\ \A e, f \in events : id[e] > 0 /\ (id[e] = id[f] => e = f)
    /\ ~event_id_wrapped => \A e \in events : id[e] <= event_id_counter

(* What is subscribed is linked.                                           *)
ActiveInv ==
    \A l \in Listeners, e \in Events : activity[l][e] > 0 => e \in by_listener[l]

Subscribed(l, i) == \E e \in events : id[e] = i /\ activity[l][e] > 0

KnownInv ==
    \A l \in HasAdd, i \in Ids : known[l][i] = IF Subscribed(l, i) THEN 1 ELSE 0

IInv ==
    /\ TypeOK
    /\ WatchesAreLinkedTwice
    /\ WatchersHavePush
    /\ IdsInv
    /\ ActiveInv
    /\ KnownInv

=============================================================================
