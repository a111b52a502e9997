----------------------------- MODULE AfbContext -----------------------------
(***************************************************************************)
(* The contexts of the requests (afb-context.c) over the store of sessions:*)
(* HTTP requests (afb-hreq.c, afb-hswitch.c), websocket connections and    *)
(* their calls (afb-ws-json1.c), the check of the session flags of the     *)
(* verbs (call_check of afb-api-so.c) and the subcalls, which run on a copy*)
(* of the context of the request that makes them (afb-subcall.c).          *)
(*                                                                         *)
(* Several requests share a session: what one of them checked when it      *)
(* began may not hold any more when it replies or ends.  A handler of the  *)
(* main loop, a reply and an end of request are one step each.             *)
(*                                                                         *)
(* The flags closed and loa_changed are set in afb_context_disconnect only,*)
(* when the context is not used any more: left out.                        *)
(***************************************************************************)
EXTENDS Session

CONSTANTS
    Contexts,   \* contexts of requests
    NoContext,
    Sockets,    \* websocket connections
    NoSocket,
    Verbs,      \* session flags of the verbs that clients call
    Loas        \* levels the bindings ask for

SessionFlags == {"create", "close", "renew", "check", "loa_ge", "loa_le"}

ASSUME VerbsAssumption ==
    \A v \in Verbs : v.flags \subseteq SessionFlags /\ v.loa \in 0..7
ASSUME ContextAssumption ==
    /\ NoContext \notin Contexts /\ NoSocket \notin Sockets
    /\ IsFiniteSet(Contexts) /\ IsFiniteSet(Sockets)
    /\ Loas \subseteq Nat

VARIABLES
    ctx,        \* the contexts
    ws          \* the websocket connections

vars == <<sessionVars, ctx, ws>>

Idle ==
    [phase |-> "free", session |-> 0, flags |-> {}, loa_in |-> 0, loa_out |-> 0,
     root |-> NoContext, parent |-> NoContext, socket |-> NoSocket]

Closed == [session |-> 0, open |-> FALSE, new_session |-> FALSE]

Init ==
    /\ SessionInit
    /\ ctx = [c \in Contexts |-> Idle]
    /\ ws = [h \in Sockets |-> Closed]

-----------------------------------------------------------------------------
(* Operations on a context x.                                              *)

With(x, fs) == [x EXCEPT !.flags = @ \cup fs]

Has(x, f) == f \in x.flags

(* init_context: the LOA is read and the token is checked.                 *)
init_context(st, s, t) ==
    [Idle EXCEPT !.session = s,
                 !.loa_in = st[s].loa,
                 !.flags = IF t = NULL THEN {}
                           ELSE IF ctxTokenCheck(st[s], t) THEN {"validated"}
                           ELSE {"invalidated"}]

(* Ignored without a valid token or over 7.                                *)
afb_context_change_loa(x, loa) ==
    IF ~Has(x, "validated") \/ loa > 7 THEN x
    ELSE IF loa = x.loa_in THEN [x EXCEPT !.flags = @ \ {"loa_changing"}]
    ELSE [With(x, {"loa_changing"}) EXCEPT !.loa_out = loa]

MutNeedsToken(v) == "check" \in v.flags

(* AFB_SESSION_LOA_EQ is both flags of LOA: every flag needs the token.    *)
NeedsToken(v) == v.flags # {}

LoaFits(x, v) ==
    /\ "loa_ge" \in v.flags => x.loa_in >= v.loa
    /\ "loa_le" \in v.flags => ~(x.loa_in >= v.loa + 1)

(* What the flags of the verb ask for, in the order of call_check.         *)
Prepared(x, v) ==
    LET y == IF "create" \in v.flags
             THEN With(afb_context_change_loa(x, 1), {"refreshing"}) ELSE x
        z == IF "renew" \in v.flags THEN With(y, {"refreshing"}) ELSE y
    IN  IF "close" \in v.flags
        THEN With(afb_context_change_loa(z, 0), {"closing"}) ELSE z

(* call_check: whether the verb may be called, and the context it leaves.  *)
call_check(x, v) ==
    CASE NeedsToken(v) /\ ~Has(x, "validated") ->
            [ok |-> FALSE, context |-> With(x, {"closing"})]
      [] NeedsToken(v) /\ Has(x, "validated")
           /\ "create" \in v.flags /\ x.loa_in >= 1 ->
            [ok |-> FALSE, context |-> x]
      [] OTHER ->
            [ok |-> LoaFits(x, v), context |-> Prepared(x, v)]

-----------------------------------------------------------------------------
(* Requests.                                                               *)

(* afb_context_sent_token: a token is sent, and renewed the first time.    *)
Sends(x) == Has(x, "refreshing") /\ ~Has(x, "closing")

(* A reply of context c, now x, with the store st.                         *)
Reply(c, x, st, phase) ==
    LET renews == Sends(x) /\ ~Has(x, "refreshed") IN
    /\ renews => lastToken < MaxToken
    /\ store' = IF renews THEN ctxTokenNew(st, x.session) ELSE st
    /\ lastToken' = IF renews THEN lastToken + 1 ELSE lastToken
    /\ ctx' = [ctx EXCEPT ![c] =
                 [(IF Sends(x) THEN With(x, {"refreshed"}) ELSE x)
                    EXCEPT !.phase = phase]]

(* The verb is called on context c, now x: it runs, or is refused with an  *)
(* answer and no callback.                                                 *)
Call(c, x, v, st) ==
    LET r == call_check([x EXCEPT !.root = c], v) IN
    \/ /\ r.ok
       /\ ctx' = [ctx EXCEPT ![c] = [r.context EXCEPT !.phase = "running"]]
       /\ store' = st
       /\ UNCHANGED lastToken
    \/ /\ ~r.ok
       /\ Reply(c, r.context, st, "answered")

Connected(g, t) ==
    With(init_context(g.store, g.session, t), IF g.created THEN {"created"} ELSE {})

(* afb_hswitch_apis: connect, then call; an error leaves the store cleaned.*)
HttpRequest(c, u, t, v) ==
    /\ ctx[c].phase = "free"
    /\ \E g \in ctxClientGetSession(u) :
         \/ /\ g.session # 0
            /\ Call(c, Connected(g, t), v, g.store)
         \/ /\ g.session = 0
            /\ store' = g.store
            /\ UNCHANGED <<ctx, lastToken>>
    /\ UNCHANGED <<now, ws>>

(* afb_hswitch_websocket_switch: without a valid token, or when the upgrade*)
(* fails, there is only the context of the HTTP request; else the          *)
(* connection takes a reference of its own (afb_ws_json1_create).          *)
WebsocketSwitch(c, h, u, t) ==
    /\ ctx[c].phase = "free"
    /\ ws[h].session = 0
    /\ \E g \in ctxClientGetSession(u) :
         LET s == g.session
             x == Connected(g, t)
         IN
         \/ /\ s # 0
            /\ ctx' = [ctx EXCEPT ![c] = [x EXCEPT !.phase = "answered", !.root = c]]
            /\ \/ /\ Has(x, "validated")
                  /\ store' = ctxClientAddRef(g.store, s)
                  /\ ws' = [ws EXCEPT ![h] = [session |-> s, open |-> TRUE,
                                              new_session |-> g.created]]
               \/ /\ store' = g.store
                  /\ UNCHANGED ws
         \/ /\ s = 0
            /\ store' = g.store
            /\ UNCHANGED <<ctx, ws>>
    /\ UNCHANGED <<now, lastToken>>

(* aws_on_call: without token, the call is as valid as the connection.     *)
WebsocketCall(c, h, t, v) ==
    LET s  == ws[h].session
        st == ctxClientAddRef(store, s)
        x  == init_context(store, s, t)
        fs == (IF Has(x, "invalidated") THEN {} ELSE {"validated"})
              \cup (IF ws[h].new_session THEN {"created"} ELSE {})
    IN  /\ ctx[c].phase = "free"
        /\ ws[h].open
        /\ Call(c, [With(x, fs) EXCEPT !.socket = h], v, st)
        /\ ws' = [ws EXCEPT ![h].new_session = FALSE]
        /\ UNCHANGED now

Users(h) == {c \in Contexts : ctx[c].socket = h}

(* aws_unref: the reference of a connection that is over is released.      *)
ReleaseSocket(st, h) == ctxClientUnref(st, ws[h].session)

(* aws_on_hangup: the calls in progress keep the connection alive.         *)
WebsocketHangup(h) ==
    /\ ws[h].open
    /\ \/ /\ Users(h) = {}
          /\ store' = ReleaseSocket(store, h)
          /\ ws' = [ws EXCEPT ![h] = Closed]
       \/ /\ Users(h) # {}
          /\ ws' = [ws EXCEPT ![h].open = FALSE]
          /\ UNCHANGED store
    /\ UNCHANGED <<now, lastToken, ctx>>

-----------------------------------------------------------------------------
(* What the callback of a verb does, after its reply too.                  *)

InUse(c) == ctx[c].phase \in {"running", "replied"}

IsRoot(c) == ctx[c].parent = NoContext

(* Success or failure, with the token if it is renewed.                    *)
RequestReply(c) ==
    /\ ctx[c].phase = "running" /\ IsRoot(c)
    /\ Reply(c, ctx[c], store, "replied")
    /\ UNCHANGED <<now, ws>>

(* req_send of an HTTP request: a raw answer, without token.               *)
HttpSend(c) ==
    /\ ctx[c].phase = "running" /\ IsRoot(c) /\ ctx[c].socket = NoSocket
    /\ ctx' = [ctx EXCEPT ![c].phase = "replied"]
    /\ UNCHANGED <<sessionVars, ws>>

(* session_set_LOA and session_close: a subcall passes them to its request.*)
SetLOA(c, loa) ==
    /\ InUse(c)
    /\ LET r == ctx[c].root IN
         ctx' = [ctx EXCEPT ![r] = afb_context_change_loa(ctx[r], loa)]
    /\ UNCHANGED <<sessionVars, ws>>

SessionClose(c) ==
    /\ InUse(c)
    /\ ctx' = [ctx EXCEPT ![ctx[c].root].flags = @ \cup {"closing"}]
    /\ UNCHANGED <<sessionVars, ws>>

StoredValues == UNION {ValuesIn(store[s]) : s \in Used(store)}

(* context_set: NULL or a value just allocated.                            *)
ContextSet(c, a, v) ==
    /\ InUse(c)
    /\ v \notin StoredValues
    /\ store' = ctxClientValueSet(store, ctx[c].session, a, v)
    /\ UNCHANGED <<now, lastToken, ctx, ws>>

(* subcall_emit: only the refresh goes up to the context copied.           *)
Emitted(cs, p, y) ==
    IF Has(y, "refreshing") THEN [cs EXCEPT ![p].flags = @ \cup {"refreshing"}] ELSE cs

(* afb_subcall, by the callback of p on context c.                         *)
Subcall(p, c, v) ==
    LET r == call_check(ctx[p], v) IN
    /\ InUse(p)
    /\ ctx[c].phase = "free"
    /\ \/ /\ r.ok
          /\ ctx' = [ctx EXCEPT ![c] = [r.context EXCEPT !.phase = "running",
                                                         !.parent = p]]
       \/ /\ ~r.ok
          /\ ctx' = Emitted(ctx, p, r.context)
    /\ UNCHANGED <<sessionVars, ws>>

SubcallReply(c) ==
    /\ ctx[c].phase = "running" /\ ~IsRoot(c)
    /\ ctx' = Emitted([ctx EXCEPT ![c].phase = "replied"], ctx[c].parent, ctx[c])
    /\ UNCHANGED <<sessionVars, ws>>

-----------------------------------------------------------------------------
(* The end of a request, once replied and left by its subcalls.            *)

Children(c) == {d \in Contexts : ctx[d].parent = c}

SubcallEnd(c) ==
    /\ ctx[c].phase = "replied" /\ ~IsRoot(c) /\ Children(c) = {}
    /\ ctx' = [ctx EXCEPT ![c] = Idle]
    /\ UNCHANGED <<sessionVars, ws>>

(* afb_context_disconnect: refresh not sent yet, LOA and close are applied *)
(* to the session, then it is released, with the websocket if it is over.  *)
RequestEnd(c) ==
    LET x  == ctx[c]
        s  == x.session
        h  == x.socket
        renews == Has(x, "refreshing") /\ ~Has(x, "refreshed")
        st1 == IF renews THEN ctxTokenNew(store, s) ELSE store
        st2 == IF Has(x, "loa_changing") THEN ctxClientSetLOA(st1, s, x.loa_out) ELSE st1
        st3 == IF Has(x, "closing") THEN ctxClientClose(st2, s) ELSE st2
        st4 == ctxClientUnref(st3, s)
        over == h # NoSocket /\ ~ws[h].open /\ Users(h) = {c}
    IN  /\ x.phase \in {"replied", "answered"} /\ IsRoot(c) /\ Children(c) = {}
        /\ renews => lastToken < MaxToken
        /\ store' = IF over THEN ReleaseSocket(st4, h) ELSE st4
        /\ lastToken' = IF renews THEN lastToken + 1 ELSE lastToken
        /\ ws' = IF over THEN [ws EXCEPT ![h] = Closed] ELSE ws
        /\ ctx' = [ctx EXCEPT ![c] = Idle]
        /\ UNCHANGED now

-----------------------------------------------------------------------------

GivenUuids == Uuids \cup {Empty, LongUuid, NULL}

GivenTokens == 0..lastToken \cup {NULL}

Next ==
    \/ Tick /\ UNCHANGED <<ctx, ws>>
    \/ \E u \in GivenUuids, t \in GivenTokens :
         \/ \E c \in Contexts, v \in Verbs : HttpRequest(c, u, t, v)
         \/ \E c \in Contexts, h \in Sockets : WebsocketSwitch(c, h, u, t)
    \/ \E h \in Sockets :
         \/ \E c \in Contexts, t \in GivenTokens, v \in Verbs : WebsocketCall(c, h, t, v)
         \/ WebsocketHangup(h)
    \/ \E c \in Contexts :
         \/ RequestReply(c)
         \/ HttpSend(c)
         \/ \E loa \in Loas : SetLOA(c, loa)
         \/ SessionClose(c)
         \/ \E a \in Apis, v \in Values \cup {NULL} : ContextSet(c, a, v)
         \/ \E d \in Contexts, v \in Verbs : Subcall(c, d, v)
         \/ SubcallReply(c)
         \/ SubcallEnd(c)
         \/ RequestEnd(c)

Spec == Init /\ [][Next]_vars

-----------------------------------------------------------------------------
(* Correctness.                                                            *)

Flags == {"created", "validated", "invalidated", "refreshing", "refreshed",
          "closing", "loa_changing"}

ContextStates ==
    [phase : {"free", "running", "replied", "answered"},
     session : Slots \cup {0}, flags : SUBSET Flags, loa_in : 0..7, loa_out : 0..7,
     root : Contexts \cup {NoContext}, parent : Contexts \cup {NoContext},
     socket : Sockets \cup {NoSocket}]

SocketStates == [session : Slots \cup {0}, open : BOOLEAN, new_session : BOOLEAN]

TypeOK ==
    /\ SessionTypeOK
    /\ ctx \in [Contexts -> ContextStates]
    /\ ws \in [Sockets -> SocketStates]

(* The references of a session count its requests and its websockets: no   *)
(* request, no websocket and none of their subcalls is left with the       *)
(* pointer of a freed session, and assert(refcount != 0) of ctxClientUnref *)
(* holds.                                                                  *)
RefcountIsHolders ==
    /\ TypeOK
    /\ \A c \in Contexts : ctx[c].phase # "free" => ctx[c].session \in Used(store)
    /\ \A h \in Sockets : ws[h].session # 0 => ws[h].session \in Used(store)
    /\ \A s \in Used(store) :
          store[s].refcount =
              Cardinality({c \in Contexts : ctx[c].session = s /\ IsRoot(c)})
              + Cardinality({h \in Sockets : ws[h].session = s})

(* assert(context->validated) of afb_context_refresh, and the guard of     *)
(* afb_context_change_loa, seen from the end of the request: a session is  *)
(* refreshed or gets another LOA only from a request whose token was good, *)
(* through subcalls too.                                                   *)
OnlyValidatedChange ==
    \A c \in Contexts :
        Has(ctx[c], "refreshing") \/ Has(ctx[c], "loa_changing") =>
            Has(ctx[ctx[c].root], "validated")

-----------------------------------------------------------------------------
(* The inductive invariant behind the safety properties.                   *)

(* A context is in use as its request says, or is blank.                   *)
FreeInv == \A c \in Contexts : ctx[c].phase = "free" => ctx[c] = Idle

(* A subcall works on the session of the request at the root of its calls, *)
(* which is in use as long as it is.                                       *)
RootInv ==
    \A c \in Contexts : ctx[c].phase # "free" =>
        LET r == ctx[c].root IN
        /\ ctx[c].session \in Slots
        /\ r \in Contexts
        /\ ctx[r].phase # "free" /\ IsRoot(r)
        /\ ctx[r].session = ctx[c].session
        /\ IsRoot(c) => r = c

(* It was made by a request or a subcall in use, and no chain of calls     *)
(* bites its tail.                                                         *)
ParentInv ==
    /\ \A c \in Contexts : ~IsRoot(c) =>
         LET p == ctx[c].parent IN
         /\ p \in Contexts
         /\ ctx[p].phase # "free"
         /\ ctx[c].root = ctx[p].root
    /\ \A D \in SUBSET Contexts : (\A d \in D : ctx[d].parent \in D) => D = {}

(* A request keeps the websocket it came by.                               *)
SocketInv ==
    /\ \A c \in Contexts : ctx[c].socket # NoSocket => ws[ctx[c].socket].session # 0
    /\ \A h \in Sockets : ws[h].open => ws[h].session # 0

(* A subcall is validated by its root.                                     *)
ValidatedInv ==
    \A c \in Contexts :
        Has(ctx[c], "validated") => Has(ctx[ctx[c].root], "validated")

(* The requests and the websockets that hold a session.                    *)
Roots(s) == {c \in Contexts : ctx[c].session = s /\ IsRoot(c)}

Socks(s) == {h \in Sockets : ws[h].session = s}

Holders == [s \in Slots |-> Cardinality(Roots(s)) + Cardinality(Socks(s))]

IInv ==
    /\ TypeOK
    /\ Sound(store, Holders)
    /\ OnlyValidatedChange
    /\ FreeInv
    /\ RootInv
    /\ ParentInv
    /\ SocketInv
    /\ ValidatedInv

=============================================================================
