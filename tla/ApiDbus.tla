------------------------------ MODULE ApiDbus ------------------------------
(***************************************************************************)
(* An api exported by a binder over D-Bus and imported by another one      *)
(* (afb-api-dbus.c).  The importing binder, the client, forwards its calls *)
(* as method calls; the exporting binder, the server, answers them as      *)
(* method returns and manages the events of the client by method calls     *)
(* that expect no answer.                                                  *)
(*                                                                         *)
(* The client is one name on the bus: one destination for the server, that *)
(* all the sessions it forwards share.  Each session keeps, in a cookie, a *)
(* listener for the destination; the requests of the session use it        *)
(* without holding it.  The bus (external) delivers in order, gives each   *)
(* call its own cookie, here the request itself, and answers the calls to  *)
(* a server that is gone by an error.  The bindings of the server reply    *)
(* once, subscribe before they reply and unsubscribe what they subscribed. *)
(***************************************************************************)
EXTENDS Integers, Sequences, FiniteSets, SequencesExt

CONSTANTS
    Reqs,           \* requests forwarded
    Sessions,       \* sessions of the client, known by their uuid
    Owner,          \* the session of each request
    Names,          \* names of events of the server
    MaxEventId,     \* bound on the events created
    Closers,        \* requests whose verb closes the session
    MaxDown,        \* bound on the messages to the client before a new one
    Failing,        \* bound: requests whose reply may fail to be sent
    Mortal,         \* sessions that have a timeout; it may come once
    MaxCrashes      \* bound on the crashes of the server

ASSUME OwnerAssumption == Owner \in [Reqs -> Sessions]
ASSUME BoundsAssumption ==
    /\ IsFiniteSet(Reqs) /\ IsFiniteSet(Sessions) /\ IsFiniteSet(Names)
    /\ MaxEventId \in Nat /\ MaxDown \in Nat /\ MaxCrashes \in Nat
    /\ Mortal \subseteq Sessions /\ Closers \cup Failing \subseteq Reqs

VARIABLES
    serving,        \* the server has its name on the bus
    crashes,        \* how many times it crashed
    memos,          \* client.memos: calls without reply
    cevents,        \* client.events: the events of the server known here
    areq,           \* the requests of the client
    up, down,       \* messages under way
    dreq,           \* struct dbus_req of each request
    unsent,         \* requests whose reply could not be sent
    closes,         \* how many times the session of a uuid was closed
    cookies,        \* sessions with a listener in a cookie
    destination,    \* references to the destination
    listener,       \* references to the listener of events of the destination
    last_id,        \* event_id_counter of the server: the last id given
    event,          \* ids of the events of the server; 0: no event
    watch,          \* activity of the watch of the listener on each event
    subs            \* subscriptions made by the bindings for each session

clientVars == <<memos, cevents, areq>>
listenVars == <<closes, cookies, destination, listener>>
eventVars == <<last_id, event, watch, subs>>
vars == <<serving, crashes, clientVars, up, down, dreq, unsent, listenVars, eventVars>>

NoWatch == [s \in Sessions |-> 0]
NoSubs == [s \in Sessions |-> [n \in Names |-> 0]]
NoDreq == [st |-> "none", listener |-> 0, closing |-> FALSE]

Init ==
    /\ serving = FALSE /\ crashes = 0
    /\ memos = {} /\ cevents = <<>>
    /\ areq = [r \in Reqs |-> [st |-> "idle", replies |-> 0, kind |-> "none",
                               closing |-> FALSE]]
    /\ up = <<>> /\ down = <<>>
    /\ dreq = [r \in Reqs |-> NoDreq] /\ unsent = {}
    /\ closes = [s \in Sessions |-> 0]
    /\ cookies = {} /\ destination = 0 /\ listener = 0
    /\ last_id = 0 /\ event = [n \in Names |-> 0]
    /\ watch = [n \in Names |-> 0]
    /\ subs = NoSubs

-----------------------------------------------------------------------------
(* The server comes and goes.                                              *)

(* The name of the service is taken, the object added; either may fail.    *)
afb_api_dbus_add_server ==
    /\ ~serving
    /\ serving' = TRUE
    /\ UNCHANGED <<crashes, unsent, clientVars, up, down, dreq, listenVars, eventVars>>

Message(op, r, closing) == [op |-> op, of |-> r, closing |-> closing, id |-> 0, name |-> "none"]
Replied(r) == \E i \in DOMAIN down : down[i].op \in {"reply", "error"} /\ down[i].of = r

(* What the bus sends for the calls of a server that is gone.              *)
BusErrors == SetToSeq({Message("error", r, FALSE) : r \in {q \in memos : ~Replied(q)}})

Crash ==
    /\ serving /\ crashes < MaxCrashes
    /\ serving' = FALSE
    /\ crashes' = crashes + 1
    /\ up' = <<>>
    /\ down' = down \o BusErrors
    /\ dreq' = [r \in Reqs |-> NoDreq] /\ unsent' = {}
    /\ closes' = [s \in Sessions |-> 0]
    /\ cookies' = {} /\ destination' = 0 /\ listener' = 0
    /\ last_id' = 0 /\ event' = [n \in Names |-> 0]
    /\ watch' = [n \in Names |-> 0]
    /\ subs' = NoSubs
    /\ UNCHANGED clientVars

-----------------------------------------------------------------------------
(* Client: calls and replies.                                              *)

(* The call is sent, with the uuid and the flags of its context.           *)
api_dbus_client_call(r) ==
    /\ areq[r].st = "idle"
    /\ memos' = memos \cup {r}
    /\ areq' = [areq EXCEPT ![r].st = "called"]
    /\ IF serving THEN up' = Append(up, r) /\ UNCHANGED down
       ELSE down' = Append(down, Message("error", r, FALSE)) /\ UNCHANGED up
    /\ UNCHANGED <<serving, crashes, unsent, cevents, dreq, listenVars, eventVars>>

(* No memory, or a failure of the bus: the request fails at once and its   *)
(* memo is destroyed.                                                      *)
api_dbus_client_call_failed(r) ==
    /\ areq[r].st = "idle"
    /\ areq' = [areq EXCEPT ![r].st = "ended", ![r].replies = 1, ![r].kind = "failed"]
    /\ UNCHANGED <<serving, crashes, unsent, memos, cevents, up, down, dreq, listenVars, eventVars>>

Receive(op) ==
    /\ down # <<>> /\ Head(down).op = op
    /\ down' = Tail(down)
    /\ UNCHANGED <<serving, crashes, unsent, up, dreq, listenVars, eventVars>>

(* The flags of the context come back with a reply, not with an error.     *)
RepliedWith(a, m) ==
    [a EXCEPT !.replies = @ + 1, !.kind = m.op, !.st = "ended",
              !.closing = IF m.op = "reply" THEN m.closing ELSE @]

(* The reply, or the error of the bus, is given to the request of the      *)
(* memo; the memo is destroyed, and the request it held with it.           *)
api_dbus_client_on_reply ==
    /\ Receive("reply") \/ Receive("error")
    /\ LET m == Head(down)
       IN  /\ areq' = [areq EXCEPT ![m.of] = RepliedWith(@, m)]
           /\ memos' = memos \ {m.of}
    /\ UNCHANGED cevents

-----------------------------------------------------------------------------
(* Client: events.                                                         *)

(* api_dbus_client_event_search: by id and name; 0 when unknown.           *)
EventOf(m) == SelectInSeq(cevents, LAMBDA v : v.id = m.id /\ v.name = m.name)

api_dbus_client_event_create ==
    /\ Receive("+")
    /\ LET m == Head(down)
       IN  cevents' = IF EventOf(m) # 0 THEN [cevents EXCEPT ![EventOf(m)].refcount = @ + 1]
                      ELSE <<[id |-> m.id, name |-> m.name, refcount |-> 1,
                              watch |-> NoWatch]>> \o cevents
    /\ UNCHANGED <<memos, areq>>

api_dbus_client_event_drop ==
    /\ Receive("-")
    /\ LET i == EventOf(Head(down))
       IN  cevents' = CASE i = 0 -> cevents
                        [] i # 0 /\ cevents[i].refcount > 1 ->
                             [cevents EXCEPT ![i].refcount = @ - 1]
                        [] OTHER -> RemoveAt(cevents, i)
    /\ UNCHANGED <<memos, areq>>

(* The event and the memo of a subscription are searched.                  *)
Subscription(m) == EventOf(m) # 0 /\ m.of \in memos

api_dbus_client_event_subscribe ==
    /\ Receive("S")
    /\ LET m == Head(down)
       IN  cevents' = IF Subscription(m)
                      THEN [cevents EXCEPT ![EventOf(m)].watch[Owner[m.of]] = @ + 1]
                      ELSE cevents
    /\ UNCHANGED <<memos, areq>>

api_dbus_client_event_unsubscribe ==
    /\ Receive("U")
    /\ LET m == Head(down)
       IN  cevents' = IF Subscription(m)
                      THEN [cevents EXCEPT ![EventOf(m)].watch[Owner[m.of]] =
                                IF @ > 0 THEN @ - 1 ELSE 0]
                      ELSE cevents
    /\ UNCHANGED <<memos, areq>>

(* A push and a broadcast are given to the clients (AfbEvt).               *)
api_dbus_client_event_push ==
    /\ Receive("!") \/ Receive("*")
    /\ UNCHANGED clientVars

-----------------------------------------------------------------------------
(* Server: the listeners of the sessions.                                  *)

EventMsg(op, n) == [op |-> op, of |-> "none", closing |-> FALSE, id |-> event[n], name |-> n]
ReqMsg(op, n, r) == [EventMsg(op, n) EXCEPT !.of = r]

MutListernerGet(s) ==
    /\ cookies' = cookies \cup {s}
    /\ destination' = destination + 1
    /\ listener' = listener + (IF s \in cookies THEN 0 ELSE 1)

(* afb_api_dbus_server_listerner_get: the listener found in the session or *)
(* made now; made, it holds the destination and the listener of events.    *)
listerner_get(s) ==
    LET new == IF s \in cookies THEN 0 ELSE 1
    IN  /\ cookies' = cookies \cup {s}
        /\ destination' = destination + new
        /\ listener' = listener + new

ActiveEvents == {n \in Names : watch[n] > 0}

MutEndMessages(s) == <<>>

(* The last listener removes the watches, and tells the active ones to the *)
(* destination, that it still holds.                                       *)
EndMessages(s) ==
    IF s \in cookies /\ listener = 1
    THEN SetToSeq({EventMsg("-", n) : n \in ActiveEvents}) ELSE <<>>

(* ctxClientClose: the cookies of the session are freed, its listener with *)
(* them (afb_api_dbus_server_listener_free).                               *)
CloseSession(s) ==
    LET last == s \in cookies /\ listener = 1
        old == IF s \in cookies THEN 1 ELSE 0
    IN  /\ closes' = [closes EXCEPT ![s] = @ + 1]
        /\ cookies' = cookies \ {s}
        /\ listener' = listener - old
        /\ destination' = destination - old
        /\ down' = down \o EndMessages(s)
        /\ watch' = IF last THEN [n \in Names |-> 0] ELSE watch
        /\ subs' = IF last THEN NoSubs ELSE subs

(* The timeout of the session, found by the clean up of the store.         *)
SessionExpires(s) ==
    /\ s \in cookies \cap Mortal /\ closes[s] = 0
    /\ CloseSession(s)
    /\ UNCHANGED <<serving, crashes, unsent, clientVars, up, dreq, last_id, event>>

-----------------------------------------------------------------------------
(* Server: requests.                                                       *)

ReadCall ==
    /\ serving /\ up # <<>>
    /\ up' = Tail(up)
    /\ UNCHANGED <<serving, crashes, unsent, clientVars, closes, eventVars>>

api_dbus_server_on_object_called ==
    /\ ReadCall
    /\ LET r == Head(up)
       IN  /\ listerner_get(Owner[r])
           /\ dreq' = [dreq EXCEPT ![r] = [st |-> "running", listener |-> closes[Owner[r]],
                                           closing |-> r \in Closers]]
    /\ UNCHANGED down

MutCalledFailed ==
    /\ ReadCall
    /\ UNCHANGED <<down, dreq, cookies, destination, listener>>

(* Without memory or session, or for a signature not expected: an error.   *)
api_dbus_server_on_object_called_failed ==
    /\ ReadCall
    /\ down' = Append(down, Message("error", Head(up), FALSE))
    /\ UNCHANGED <<dreq, cookies, destination, listener>>

(* The session of the request was closed since the call: its listener is   *)
(* freed.                                                                  *)
Stale(r) == dreq[r].listener # closes[Owner[r]]

dbus_req_reply(r) ==
    /\ dreq[r].st = "running"
    /\ dreq' = [dreq EXCEPT ![r].st = "replied"]
    /\ down' = Append(down, Message("reply", r, dreq[r].closing))
    /\ UNCHANGED <<serving, crashes, unsent, clientVars, up, listenVars, eventVars>>

(* sd_bus_reply_method_return fails: an error is logged and nothing is     *)
(* sent; the client set no timeout, it waits as long as the server lives.  *)
dbus_req_reply_failed(r) ==
    /\ dreq[r].st = "running" /\ r \in Failing
    /\ dreq' = [dreq EXCEPT ![r].st = "replied"]
    /\ unsent' = unsent \cup {r}
    /\ UNCHANGED <<serving, crashes, clientVars, up, down, listenVars, eventVars>>

(* The last reference, which may be dropped long after the reply: the      *)
(* context is disconnected, and a session to close is closed.              *)
dbus_req_unref(r) ==
    /\ dreq[r].st = "replied"
    /\ dreq' = [dreq EXCEPT ![r] = NoDreq]
    /\ \/ dreq[r].closing /\ CloseSession(Owner[r])
       \/ ~dreq[r].closing /\ UNCHANGED <<down, listenVars, watch, subs>>
    /\ UNCHANGED <<serving, crashes, unsent, clientVars, up, last_id, event>>

(* A binding that subscribes for a request whose listener is freed reads   *)
(* freed memory: the behaviours considered are the ones without.           *)
dbus_req_subscribe(r, n) ==
    /\ dreq[r].st = "running" /\ ~Stale(r)
    /\ event[n] # 0 /\ subs[Owner[r]][n] = 0 /\ Len(down) < MaxDown
    /\ down' = down \o (IF watch[n] = 0 THEN <<EventMsg("+", n)>> ELSE <<>>)
                    \o <<ReqMsg("S", n, r)>>
    /\ watch' = [watch EXCEPT ![n] = @ + 1]
    /\ subs' = [subs EXCEPT ![Owner[r]][n] = @ + 1]
    /\ UNCHANGED <<serving, crashes, unsent, clientVars, up, dreq, listenVars, last_id, event>>

(* The end of the subscription is sent before the end of the event.        *)
Unsubscribed(n, r) ==
    <<ReqMsg("U", n, r)>> \o (IF watch[n] = 1 THEN <<EventMsg("-", n)>> ELSE <<>>)

dbus_req_unsubscribe(r, n) ==
    /\ dreq[r].st = "running" /\ ~Stale(r)
    /\ event[n] # 0 /\ subs[Owner[r]][n] > 0 /\ Len(down) < MaxDown
    /\ down' = down \o Unsubscribed(n, r)
    /\ watch' = [watch EXCEPT ![n] = @ - 1]
    /\ subs' = [subs EXCEPT ![Owner[r]][n] = @ - 1]
    /\ UNCHANGED <<serving, crashes, unsent, clientVars, up, dreq, listenVars, last_id, event>>

-----------------------------------------------------------------------------
(* Server: events (AfbEvt), as the listener sees them.                     *)

EventCreate(n) ==
    /\ serving /\ event[n] = 0 /\ last_id < MaxEventId
    /\ last_id' = last_id + 1
    /\ event' = [event EXCEPT ![n] = last_id + 1]
    /\ UNCHANGED <<serving, crashes, unsent, clientVars, up, down, dreq, listenVars, watch, subs>>

EventDrop(n) ==
    /\ event[n] # 0
    /\ down' = IF watch[n] = 0 THEN down ELSE Append(down, EventMsg("-", n))
    /\ event' = [event EXCEPT ![n] = 0]
    /\ watch' = [watch EXCEPT ![n] = 0]
    /\ subs' = [s \in Sessions |-> [subs[s] EXCEPT ![n] = 0]]
    /\ UNCHANGED <<serving, crashes, unsent, clientVars, up, dreq, listenVars, last_id>>

afb_api_dbus_server_event_push(n) ==
    /\ watch[n] > 0 /\ Len(down) < MaxDown
    /\ down' = Append(down, EventMsg("!", n))
    /\ UNCHANGED <<serving, crashes, unsent, clientVars, up, dreq, listenVars, eventVars>>

(* A signal, for all the clients.                                          *)
afb_api_dbus_server_event_broadcast ==
    /\ serving /\ Len(down) < MaxDown
    /\ down' = Append(down, Message("*", "none", FALSE))
    /\ UNCHANGED <<serving, crashes, unsent, clientVars, up, dreq, listenVars, eventVars>>

-----------------------------------------------------------------------------
ClientReads ==
    \/ api_dbus_client_on_reply
    \/ api_dbus_client_event_create \/ api_dbus_client_event_drop
    \/ api_dbus_client_event_subscribe \/ api_dbus_client_event_unsubscribe
    \/ api_dbus_client_event_push

ServerReads ==
    api_dbus_server_on_object_called \/ api_dbus_server_on_object_called_failed

Next ==
    \/ afb_api_dbus_add_server \/ Crash
    \/ ClientReads \/ ServerReads
    \/ \E r \in Reqs : \/ api_dbus_client_call(r) \/ api_dbus_client_call_failed(r)
                       \/ dbus_req_reply(r) \/ dbus_req_reply_failed(r) \/ dbus_req_unref(r)
    \/ \E r \in Reqs, n \in Names : dbus_req_subscribe(r, n) \/ dbus_req_unsubscribe(r, n)
    \/ \E s \in Sessions : SessionExpires(s)
    \/ \E n \in Names : EventCreate(n) \/ EventDrop(n) \/ afb_api_dbus_server_event_push(n)
    \/ afb_api_dbus_server_event_broadcast

(* The event loops read what arrived; the bindings of the server reply.    *)
Fairness ==
    /\ WF_vars(ClientReads)
    /\ WF_vars(ServerReads)
    /\ \A r \in Reqs : WF_vars(dbus_req_reply(r) \/ dbus_req_reply_failed(r))

Spec == Init /\ [][Next]_vars /\ Fairness

-----------------------------------------------------------------------------
(* Correctness.                                                            *)

TypeOK ==
    /\ serving \in BOOLEAN /\ crashes \in 0..MaxCrashes
    /\ memos \subseteq Reqs
    /\ cevents \in Seq([id : 1..MaxEventId, name : Names, refcount : Nat \ {0},
                        watch : [Sessions -> Nat]])
    /\ areq \in [Reqs -> [st : {"idle", "called", "ended"}, replies : Nat,
                          kind : {"none", "failed", "reply", "error"}, closing : BOOLEAN]]
    /\ up \in Seq(Reqs)
    /\ dreq \in [Reqs -> [st : {"none", "running", "replied"}, listener : Nat,
                          closing : BOOLEAN]]
    /\ unsent \subseteq Reqs
    /\ closes \in [Sessions -> Nat] /\ cookies \subseteq Sessions
    /\ destination \in 0..Cardinality(Sessions) /\ listener \in 0..Cardinality(Sessions)
    /\ last_id \in 0..MaxEventId /\ event \in [Names -> 0..MaxEventId] /\ watch \in [Names -> Nat]
    /\ subs \in [Sessions -> [Names -> Nat]]

(* The destination and its listener of events live as long as a session    *)
(* has a listener for them, and no longer (afb-api-dbus.c:698, 720): the   *)
(* events that are pushed find their destination.                          *)
DestinationsAreHeld ==
    /\ TypeOK
    /\ destination = Cardinality(cookies) /\ listener = Cardinality(cookies)
    /\ \A n \in Names : watch[n] > 0 => destination > 0

(* As long as the server has not crashed, a message about an event comes   *)
(* when the client knows the event, and one about a subscription when its  *)
(* request still waits: the errors "event not found" (afb-api-dbus.c:441)  *)
(* and "message not found" (:495) are never met.  When all is read, the    *)
(* client knows exactly the events that its destination watches, once, and *)
(* its sessions are subscribed to what the bindings subscribed them,       *)
(* whatever sessions the server closed; and only the reply to the request  *)
(* that closed a session says so to the client.                            *)
EventsAreMirrored ==
    /\ crashes = 0 /\ down # <<>> =>
         LET m == Head(down)
         IN  /\ m.op \in {"S", "U", "!", "-"} => EventOf(m) # 0
             /\ m.op \in {"S", "U", "reply", "error"} => m.of \in memos
    /\ crashes = 0 /\ down = <<>> =>
         /\ \A n \in Names :
              Cardinality({i \in DOMAIN cevents : cevents[i].name = n})
                = IF watch[n] > 0 THEN 1 ELSE 0
         /\ \A i \in DOMAIN cevents :
              /\ cevents[i].id = event[cevents[i].name] /\ cevents[i].refcount = 1
              /\ \A s \in Sessions : cevents[i].watch[s] = subs[s][cevents[i].name]
    /\ \A r \in Reqs : areq[r].kind # "none" =>
         (areq[r].closing <=> areq[r].kind = "reply" /\ r \in Closers)

(* Every call forwarded is answered, once, even when the server crashes or *)
(* refuses it: the bus or the server sends an error.  The only calls that  *)
(* wait on are those whose reply could not be sent (afb-api-dbus.c:821).   *)
CallsAreAnswered ==
    \A r \in Reqs : areq[r].st = "called"
                    ~> (areq[r].st = "ended" /\ areq[r].replies = 1) \/ r \in unsent

(* "Sends a reply of kind success to the request 'req'"                    *)
(* (include/afb/afb-req-itf.h:146): when the binding of the server has     *)
(* replied to a request, the request of the client ends.                   *)
RepliesAreSent == \A r \in Reqs : dreq[r].st = "running" ~> areq[r].st = "ended"

-----------------------------------------------------------------------------
(* The inductive invariant behind DestinationsAreHeld.                     *)

Answers == {"reply", "error"}
Subscriptions == {"S", "U"}
EventOps == {"+", "-", "!"}

DownMessages ==
    {m \in [op : Answers \cup Subscriptions \cup EventOps \cup {"*"}, of : Reqs \cup {"none"},
           closing : BOOLEAN, id : 0..MaxEventId, name : Names \cup {"none"}] :
        /\ m.op \in Answers \cup Subscriptions => m.of \in Reqs
        /\ m.op \in Subscriptions \cup EventOps => m.id # 0 /\ m.name \in Names}

MessagesInv == down \in Seq(DownMessages)

(* The listeners in the cookies are what holds the destination.            *)
CountsInv == destination = Cardinality(cookies) /\ listener = Cardinality(cookies)

(* A request whose session was not closed since its call has its listener. *)
ListenerInv ==
    \A r \in Reqs : dreq[r].st # "none" =>
        /\ dreq[r].listener <= closes[Owner[r]]
        /\ Stale(r) \/ Owner[r] \in cookies

(* A watch counts the sessions subscribed, and somebody listens to it.     *)
WatchInv ==
    \A n \in Names :
        /\ \A s \in Sessions : subs[s][n] \in 0..1
        /\ watch[n] = Cardinality({s \in Sessions : subs[s][n] = 1})
        /\ watch[n] > 0 => event[n] # 0 /\ cookies # {}

IInv == TypeOK /\ MessagesInv /\ CountsInv /\ ListenerInv /\ WatchInv
=============================================================================
