------------------------------ MODULE Session ------------------------------
(***************************************************************************)
(* The store of the sessions (session.c): an array of at most MaxSessions  *)
(* sessions, each with its uuid, its token, its level of assurance (LOA),  *)
(* its expiration, its references and the values the bindings keep in it.  *)
(* A session is closed when its uuid is the empty string; it leaves the    *)
(* store, and is freed, when it is closed and not referenced.  A session   *)
(* is named by its slot: it is allocated as long as it is in the store.    *)
(*                                                                         *)
(* The operations are functions from a store to a store, because the       *)
(* callers of the module chain several of them in one step.                *)
(* The fields access and count are written and never read: left out.       *)
(***************************************************************************)
EXTENDS Integers, FiniteSets

CONSTANTS
    MaxSessions,    \* ctxStoreInit: max_session_count
    Timeout,        \* ctxStoreInit: timeout, 0 for none
    InitToken,      \* ctxStoreInit: initok
    Uuids,          \* uuids generated, or given by clients
    LongUuid,       \* a uuid given by a client that does not fit
    NULL,           \* no uuid, no token, no value
    Apis,           \* indexes of the apis
    Values,         \* what bindings store in sessions
    NoSession,      \* the content of a free slot
    MaxTime,        \* bound on the clock
    MaxToken        \* bound on the tokens generated

(* The empty string: uuid of the closed sessions, token that matches all.  *)
Empty == ""

NoToken == 0

ASSUME StoreAssumption == MaxSessions \in Nat \ {0} /\ Timeout \in Nat
ASSUME TokenAssumption == InitToken \in {NoToken, 1}
ASSUME UuidAssumption == Empty \notin Uuids /\ LongUuid \notin Uuids \cup {Empty}
ASSUME NullAssumption == NULL \notin Uuids \cup Values \cup {Empty, LongUuid}
ASSUME BoundAssumption == MaxTime \in Nat /\ MaxToken \in Nat \ {0}

Slots == 1..MaxSessions

(* Tokens are numbers: NoToken is the empty string, 1 the initial token if *)
(* it is not empty, the others are generated in order.                     *)
Tokens == 0..MaxToken

(* The greatest time_t.                                                    *)
Never == MaxTime + Timeout + 1

VARIABLES
    store,      \* sessions.store
    now,        \* the clock
    lastToken   \* the last token generated

sessionVars == <<store, now, lastToken>>

-----------------------------------------------------------------------------

(* The store st with the session of slot s now r.                          *)
Put(st, s, r) == [i \in Slots |-> IF i = s THEN r ELSE st[i]]

First(S) == CHOOSE s \in S : \A r \in S : s <= r

Used(st) == {s \in Slots : st[s] # NoSession}

IsOpen(r) == r.uuid # Empty

MutTooOld(r) == r.expiration + 1 < now

ctxStoreTooOld(r) == r.expiration < now

ctxIsActive(r) == IsOpen(r) /\ r.expiration >= now

(* The slots that ctxStoreSearch accepts; it returns the first.            *)
Matching(st, u) == {s \in Used(st) : st[s].uuid = u}

(* The values are released, the uuid is erased, the session is freed if no *)
(* reference is left.                                                      *)
ctxClientClose(st, s) ==
    IF ~IsOpen(st[s]) THEN st
    ELSE Put(st, s, IF st[s].refcount = 0 THEN NoSession
                    ELSE [st[s] EXCEPT !.uuid = Empty,
                                       !.values = [a \in Apis |-> NULL]])

ctxStoreCleanUp(st) ==
    [s \in Slots |-> IF s \in Used(st) /\ ctxStoreTooOld(st[s])
                     THEN ctxClientClose(st, s)[s] ELSE st[s]]

Expiration(timeout) == IF timeout = 0 THEN Never ELSE now + timeout

(* new_context: the possible outcomes, session 0 being an error.  The uuid *)
(* for NULL is drawn once, and taken to be one that no session has.        *)
new_context(st, u, timeout) ==
    LET free == Slots \ Used(st)
        ids  == IF u = NULL THEN {w \in Uuids : Matching(st, w) = {}} ELSE {u}
    IN  IF u = LongUuid \/ free = {}
        THEN {[store |-> st, session |-> 0, created |-> TRUE]}
        ELSE {[store |-> Put(st, First(free),
                            [uuid |-> w, token |-> InitToken, loa |-> 0,
                             timeout |-> timeout,
                             expiration |-> Expiration(timeout),
                             refcount |-> 1,
                             values |-> [a \in Apis |-> NULL]]),
               session |-> First(free), created |-> TRUE] : w \in ids}

MutAddRef(st, s) == st

ctxClientAddRef(st, s) == Put(st, s, [st[s] EXCEPT !.refcount = @ + 1])

(* ctxClientGetSession: old sessions are closed, then the session of the   *)
(* uuid is found or created.                                               *)
ctxClientGetSession(u) ==
    LET st    == ctxStoreCleanUp(store)
        found == Matching(st, u)
    IN  IF found # {}
        THEN {[store |-> ctxClientAddRef(st, First(found)),
               session |-> First(found), created |-> FALSE]}
        ELSE new_context(st, u, Timeout)

MutUnref(st, s) == Put(st, s, [st[s] EXCEPT !.refcount = @ - 1])

ctxClientUnref(st, s) ==
    Put(st, s, IF st[s].refcount = 1 /\ ~IsOpen(st[s]) THEN NoSession
               ELSE [st[s] EXCEPT !.refcount = @ - 1])

(* An empty token of session accepts every token.                          *)
ctxTokenCheck(r, t) == ctxIsActive(r) /\ (r.token = NoToken \/ t = r.token)

ctxTokenNew(st, s) ==
    Put(st, s, [st[s] EXCEPT !.token = lastToken + 1,
                             !.expiration = IF st[s].timeout = 0 THEN @
                                            ELSE now + st[s].timeout])

ctxClientSetLOA(st, s, loa) == Put(st, s, [st[s] EXCEPT !.loa = loa])

(* A value replaced is released.                                           *)
ctxClientValueSet(st, s, a, v) ==
    Put(st, s, [st[s] EXCEPT !.values[a] = v])

ValuesIn(r) == {r.values[a] : a \in Apis} \ {NULL}

-----------------------------------------------------------------------------

SessionInit ==
    /\ store = [s \in Slots |-> NoSession]
    /\ now = 0
    /\ lastToken = 1

Tick ==
    /\ now < MaxTime
    /\ now' = now + 1
    /\ UNCHANGED <<store, lastToken>>

Sessions ==
    [uuid : Uuids \cup {Empty}, token : Tokens, loa : 0..7,
     timeout : {0, Timeout}, expiration : 0..Never, refcount : Nat,
     values : [Apis -> Values \cup {NULL}]]

ASSUME SlotAssumption == NoSession \notin Sessions

Stores == [Slots -> Sessions \cup {NoSession}]

SessionTypeOK ==
    /\ store \in Stores
    /\ now \in 0..MaxTime
    /\ lastToken \in 1..MaxToken

(* The memory and the slot of a closed session come back to the store: the *)
(* last of the close and of the unref frees it, in whichever order they    *)
(* happen (session.c:322 and session.c:336).                               *)
ClosedSessionsAreHeld ==
    \A s \in Used(store) : IsOpen(store[s]) \/ store[s].refcount > 0

(* A store where n[s] holders share the session of slot s, and no more:    *)
(* a free slot has none, and a closed session one at least.                *)
Sound(st, n) ==
    /\ st \in Stores
    /\ n \in [Slots -> Nat]
    /\ \A s \in Slots : st[s] = NoSession => n[s] = 0
    /\ \A s \in Slots : st[s] # NoSession => /\ st[s].refcount = n[s]
                                             /\ IsOpen(st[s]) \/ n[s] > 0
=============================================================================
