------------------------------- MODULE ApiWs -------------------------------
(***************************************************************************)
(* An api exported by a binder over a websocket and imported by another    *)
(* one (afb-api-ws.c).  The importing binder, the client, forwards the     *)
(* calls it receives from its own clients and remembers each one in a memo *)
(* until its reply; the exporting binder, the server, runs them and pushes *)
(* the events that the requests subscribed.                                *)
(*                                                                         *)
(* The link is a socket: messages arrive in order, and a lost link may     *)
(* lose the end of what was sent.  A message is handled by one callback of *)
(* the event loop of its receiver: one step.  The bindings of the server   *)
(* are the environment: they reply once to each request, subscribe before  *)
(* they reply, and unsubscribe what they subscribed.  The counts of the    *)
(* client and of its requests, changed by the main loop and by the threads *)
(* of the jobs without a lock (afb-api-ws.c:938, 953, 1099, 1110), are     *)
(* taken to change atomically.                                             *)
(***************************************************************************)
EXTENDS Integers, Sequences, FiniteSets, SequencesExt

CONSTANTS
    Reqs,           \* requests made by the clients of the client binder
    Clients,        \* these clients
    Owner,          \* the client of each request
    Names,          \* names of events of the server
    None,           \* no reply yet
    IdMod,          \* msgids are taken modulo this: 2^32
    MaxEventId,     \* ids of events
    Closers,        \* requests whose verb closes the session
    MaxDown         \* bound on the messages to the client before a new one

ASSUME OwnerAssumption == Owner \in [Reqs -> Clients]
ASSUME BoundsAssumption ==
    /\ IsFiniteSet(Reqs) /\ IsFiniteSet(Clients) /\ None \notin Reqs
    /\ IdMod \in Nat /\ Cardinality(Reqs) < IdMod
    /\ MaxEventId \in Nat /\ Closers \subseteq Reqs /\ MaxDown \in Nat

VARIABLES
    listening,      \* the server has its socket
    link,           \* "none", "up", "lost": the connection
    aws,            \* the websocket of the client: "none", "open", "closed"
    memo_id,        \* client.id: the last msgid given
    memos,          \* client.memos: calls without reply, last first
    cevents,        \* client.events: the events of the server known here
    areq,           \* the requests of the client binder
    up, down,       \* messages under way
    client,         \* struct api_ws_client, the link seen by the server
    wreq,           \* struct api_ws_server_req of each request forwarded
    event,          \* ids of the events of the server; 0: no event
    watch,          \* activity of the watch of the link on each event
    subs,           \* subscriptions made by the bindings for each client
    dropped         \* calls the server dropped

clientVars == <<aws, memo_id, memos, cevents, areq>>
serverVars == <<client, wreq, dropped, event, watch, subs>>
vars == <<listening, link, clientVars, up, down, serverVars>>

NoWatch == [c \in Clients |-> 0]
NoWreq == [st |-> "none", msgid |-> 0, closing |-> FALSE]

NoRequest ==
    [st |-> "idle", refs |-> 0, closing |-> FALSE, reply |-> None, replies |-> 0]

Init ==
    /\ listening = FALSE
    /\ link = "none"
    /\ aws = "none"
    /\ memo_id = 0
    /\ memos = <<>>
    /\ cevents = <<>>
    /\ areq = [r \in Reqs |-> NoRequest]
    /\ up = <<>>
    /\ down = <<>>
    /\ client = [st |-> "none", refs |-> 0, open |-> FALSE]
    /\ wreq = [r \in Reqs |-> NoWreq]
    /\ event = [n \in Names |-> 0]
    /\ watch = [n \in Names |-> 0]
    /\ subs = [c \in Clients |-> [n \in Names |-> 0]]
    /\ dropped = {}

-----------------------------------------------------------------------------
(* Setting up the link.                                                    *)

(* Disconnects, then takes the socket anew and watches it; any of them may *)
(* fail.                                                                   *)
api_ws_server_connect == listening' \in BOOLEAN

afb_api_ws_add_server ==
    /\ ~listening /\ link = "none"
    /\ api_ws_server_connect
    /\ UNCHANGED <<link, clientVars, up, down, serverVars>>

(* The socket of the server hangs up: it is closed, with a connection not  *)
(* accepted yet, and made again.  Links accepted before do not see it: it  *)
(* is not repeated then.                                                   *)
api_ws_server_listen_hangup ==
    /\ listening /\ client.st = "none"
    /\ api_ws_server_connect
    /\ link' = IF link = "up" /\ client.st = "none" THEN "lost" ELSE link
    /\ UNCHANGED <<clientVars, up, down, serverVars>>

(* The client connects and records the api.  If the api can't be recorded  *)
(* the connection is closed at once.                                       *)
afb_api_ws_add_client ==
    /\ aws = "none" /\ listening
    /\ \/ link' = "up" /\ aws' = "open"
       \/ link' = "lost" /\ aws' = "closed"
    /\ UNCHANGED <<listening, memo_id, memos, cevents, areq, up, down,
                   serverVars>>

(* The server accepts the connection, or closes it when it can't make the  *)
(* listener or the websocket of the client.                                *)
api_ws_server_accept ==
    /\ listening /\ link # "none" /\ client.st = "none"
    /\ \/ /\ client' = [st |-> "live", refs |-> 1, open |-> TRUE]
          /\ UNCHANGED link
       \/ /\ client' = [st |-> "freed", refs |-> 0, open |-> FALSE]
          /\ link' = "lost"
    /\ UNCHANGED <<listening, clientVars, up, down, wreq, dropped, event, watch, subs>>

(* The connection is lost, and any end of what is under way with it.       *)
Lose ==
    /\ link = "up"
    /\ link' = "lost"
    /\ \E n \in 0..Len(up) : up' = SubSeq(up, 1, n)
    /\ \E n \in 0..Len(down) : down' = SubSeq(down, 1, n)
    /\ UNCHANGED <<listening, clientVars, serverVars>>

-----------------------------------------------------------------------------
(* Client: calls.                                                          *)

(* The requests hold a reference per memo; the last one ends the request.  *)
Unref(a) == [a EXCEPT !.refs = @ - 1, !.st = IF a.refs = 1 THEN "ended" ELSE @]

Answer(a, from) == [a EXCEPT !.reply = from, !.replies = @ + 1]

MutNextMsgId == (memo_id + 1) % IdMod

(* The first id after client.id that no memo has: the id of a call whose   *)
(* reply is awaited is not given again, even once the counter has wrapped. *)
NextMsgId ==
    LET used == {memos[i].msgid : i \in DOMAIN memos}
        steps == {d \in 1..IdMod : (memo_id + d) % IdMod \notin used}
    IN  (memo_id + CHOOSE d \in steps : \A x \in steps : d <= x) % IdMod

(* api_ws_client_memo_make: the memo holds a reference to its request.     *)
memo_make(r) ==
    /\ memo_id' = NextMsgId
    /\ memos' = <<[msgid |-> NextMsgId, req |-> r]>> \o memos

api_ws_client_call_sent(r) ==
    /\ areq[r].st = "idle" /\ aws = "open"
    /\ memo_make(r)
    /\ areq' = [areq EXCEPT ![r].st = "called", ![r].refs = 1]
    /\ up' = IF link = "up" THEN Append(up, [msgid |-> NextMsgId, of |-> r]) ELSE up
    /\ UNCHANGED <<listening, link, aws, cevents, down, serverVars>>

(* A call that fails at once (no memory, no raw data, a websocket closed): *)
(* its request is told and ended, its memo destroyed; only an id is lost,  *)
(* if a memo was made.  Only what it changes for a later call is observed. *)
api_ws_client_call_failed ==
    /\ aws # "none" /\ \E r \in Reqs : areq[r].st = "idle"
    /\ memo_id' \in {memo_id, NextMsgId}
    /\ UNCHANGED <<listening, link, aws, memos, cevents, areq, up, down,
                   serverVars>>

-----------------------------------------------------------------------------
(* Client: messages received.                                              *)

MemoOf(id) == SelectInSeq(memos, LAMBDA m : m.msgid = id)
EventOf(id, n) == SelectInSeq(cevents, LAMBDA v : v.id = id /\ v.name = n)

Receive(op) ==
    /\ aws = "open" /\ down # <<>>
    /\ Head(down).op = op
    /\ down' = Tail(down)
    /\ UNCHANGED <<listening, link, aws, memo_id, up, serverVars>>

(* What a reply does to the request: the flags of the session come back    *)
(* with it, the request is answered and the reference of the memo dropped. *)
ReplyTo(a, m) == [Answer(a, m.of) EXCEPT !.closing = m.closing]

(* T, F and X: the memo is searched, the request answered, the memo        *)
(* destroyed.  Without memo the message is ignored.                        *)
api_ws_client_reply ==
    /\ Receive("reply") /\ ~Head(down).big
    /\ LET m == Head(down)
           i == MemoOf(m.msgid)
       IN  \/ /\ i # 0
              /\ areq' = [areq EXCEPT ![memos[i].req] = Unref(ReplyTo(@, m))]
              /\ memos' = RemoveAt(memos, i)
           \/ /\ i = 0
              /\ UNCHANGED <<areq, memos>>
    /\ UNCHANGED <<cevents>>

(* '+': one more reference to an event already known, else a new one.      *)
api_ws_client_event_create ==
    /\ Receive("+")
    /\ LET m == Head(down)
           i == EventOf(m.id, m.name)
       IN  cevents' = IF i # 0 THEN [cevents EXCEPT ![i].refcount = @ + 1]
                      ELSE <<[id |-> m.id, name |-> m.name, refcount |-> 1,
                              watch |-> NoWatch]>> \o cevents
    /\ UNCHANGED <<memos, areq>>

(* '-': the last reference drops the event, and the watches on it.         *)
api_ws_client_event_drop ==
    /\ Receive("-")
    /\ LET i == EventOf(Head(down).id, Head(down).name)
       IN  cevents' = IF i = 0 THEN cevents
                      ELSE IF cevents[i].refcount > 1
                      THEN [cevents EXCEPT ![i].refcount = @ - 1]
                      ELSE RemoveAt(cevents, i)
    /\ UNCHANGED <<memos, areq>>

(* The message names a memo and an event that are both known.              *)
Subscription(m) == MemoOf(m.msgid) # 0 /\ EventOf(m.id, m.name) # 0

(* The client whose request waits for the reply to m.msgid.                *)
Subscriber(m) == Owner[memos[MemoOf(m.msgid)].req]

api_ws_client_event_subscribe ==
    /\ Receive("S")
    /\ LET m == Head(down)
       IN  cevents' = IF Subscription(m)
                      THEN [cevents EXCEPT ![EventOf(m.id, m.name)].watch[Subscriber(m)] = @ + 1]
                      ELSE cevents
    /\ UNCHANGED <<memos, areq>>

api_ws_client_event_unsubscribe ==
    /\ Receive("U")
    /\ LET m == Head(down)
       IN  cevents' = IF Subscription(m)
                      THEN [cevents EXCEPT ![EventOf(m.id, m.name)].watch[Subscriber(m)] =
                               IF @ > 0 THEN @ - 1 ELSE 0]
                      ELSE cevents
    /\ UNCHANGED <<memos, areq>>

(* '!' and '*' are given to the clients (AfbEvt) and change nothing here.  *)
api_ws_client_event_push ==
    /\ Receive("!") \/ Receive("*")
    /\ UNCHANGED <<cevents, memos, areq>>

(* The client reads the end of a lost link, or a message longer than its   *)
(* websocket takes (65000 bytes): the websocket is closed.  There is no    *)
(* on_hangup callback: memos and events stay as they are.                  *)
ClientHangup ==
    /\ aws = "open"
    /\ \/ link = "lost" /\ down = <<>>
       \/ down # <<>> /\ Head(down).op = "reply" /\ Head(down).big
    /\ aws' = "closed"
    /\ link' = "lost"
    /\ down' = <<>>
    /\ UNCHANGED <<listening, memo_id, memos, cevents, areq, up, serverVars>>

-----------------------------------------------------------------------------
(* Server: the client and its requests.                                    *)

MutSend(ms) ==
    down' = IF client.open /\ link = "up" /\ Len(down) < 2 THEN down \o ms ELSE down

(* The messages ms sent on the websocket of the client.  Once it is closed *)
(* they are refused; once the link is lost nobody reads them.              *)
Send(ms) == down' = IF client.open /\ link = "up" THEN down \o ms ELSE down

(* api_ws_server_client_unref: the last reference frees the client.        *)
ClientUnref(c) == [c EXCEPT !.refs = @ - 1, !.st = IF c.refs = 1 THEN "freed" ELSE @]

(* The listener is freed with the client: no watch remains, and the        *)
(* websocket is closed by then, so that no '-' is sent.                    *)
Unwatch(c) ==
    /\ watch' = IF c.st = "freed" THEN [n \in Names |-> 0] ELSE watch
    /\ subs' = IF c.st = "freed" THEN [k \in Clients |-> [n \in Names |-> 0]] ELSE subs

(* The end of the link is read: the socket is closed and the link releases *)
(* the client, which the requests not ended still use.                     *)
api_ws_server_on_hangup ==
    /\ client.st = "live" /\ client.open
    /\ link = "lost" /\ up = <<>>
    /\ client' = ClientUnref([client EXCEPT !.open = FALSE])
    /\ Unwatch(client')
    /\ UNCHANGED <<listening, link, clientVars, up, down, wreq, dropped, event>>

ReadCall ==
    /\ client.open /\ up # <<>>
    /\ up' = Tail(up)
    /\ UNCHANGED <<listening, link, clientVars, event, watch, subs>>

MutHold(c) == c

Hold(c) == [c EXCEPT !.refs = @ + 1]

(* A call is read and given to the api, which keeps the request; the verb  *)
(* may close the session of the context.                                   *)
api_ws_server_called ==
    /\ ReadCall
    /\ client' = Hold(client)
    /\ LET r == Head(up).of
       IN  wreq' = [wreq EXCEPT ![r] = [st |-> "running", msgid |-> Head(up).msgid,
                                        closing |-> r \in Closers]]
    /\ UNCHANGED <<down, dropped>>

(* afb_apis_call: the server has no such api; the request ends with its    *)
(* reply.                                                                  *)
api_ws_server_called_unknown ==
    /\ ReadCall
    /\ Send(<<[op |-> "reply", msgid |-> Head(up).msgid, of |-> Head(up).of,
               closing |-> FALSE, big |-> FALSE]>>)
    /\ UNCHANGED <<client, wreq, dropped>>

(* No memory for the request, or no session (the store is full): the call  *)
(* is dropped and nothing is told to the client.                           *)
api_ws_server_called_failed ==
    /\ ReadCall
    /\ dropped' = dropped \cup {Head(up).of}
    /\ UNCHANGED <<client, wreq, down>>

Active(r) == wreq[r].st \in {"running", "replied"}

(* success, fail and send: the reply, with the flags of the context.       *)
api_ws_server_req_reply(r) ==
    /\ wreq[r].st = "running"
    /\ wreq' = [wreq EXCEPT ![r].st = "replied"]
    /\ \E big \in BOOLEAN :
         Send(<<[op |-> "reply", msgid |-> wreq[r].msgid, of |-> r,
                 closing |-> wreq[r].closing, big |-> big]>>)
    /\ UNCHANGED <<listening, link, clientVars, up, client, dropped, event, watch, subs>>

(* The last reference to the request, which may be held long after the     *)
(* reply, ends it and releases the client.                                 *)
api_ws_server_req_unref(r) ==
    /\ wreq[r].st = "replied"
    /\ wreq' = [wreq EXCEPT ![r].st = "ended", ![r].msgid = 0]
    /\ client' = ClientUnref(client)
    /\ Unwatch(client')
    /\ UNCHANGED <<listening, link, clientVars, up, down, dropped, event>>

-----------------------------------------------------------------------------
(* Server: events.                                                         *)

EventMsg(op, n) == [op |-> op, id |-> event[n], name |-> n, msgid |-> 0]
ReqMsg(op, n, r) == [EventMsg(op, n) EXCEPT !.msgid = wreq[r].msgid]

MutSubscribed(n, r) ==
    <<ReqMsg("S", n, r)>> \o (IF watch[n] = 0 THEN <<EventMsg("+", n)>> ELSE <<>>)

(* The watch tells a new event before the subscription names it,           *)
Subscribed(n, r) ==
    (IF watch[n] = 0 THEN <<EventMsg("+", n)>> ELSE <<>>) \o <<ReqMsg("S", n, r)>>

(* and the end of the subscription is sent before the end of the event.    *)
Unsubscribed(n, r) ==
    <<ReqMsg("U", n, r)>> \o (IF watch[n] = 1 THEN <<EventMsg("-", n)>> ELSE <<>>)

api_ws_server_req_subscribe(r, n) ==
    /\ wreq[r].st = "running"
    /\ event[n] # 0 /\ subs[Owner[r]][n] = 0 /\ Len(down) < MaxDown
    /\ Send(Subscribed(n, r))
    /\ watch' = [watch EXCEPT ![n] = @ + 1]
    /\ subs' = [subs EXCEPT ![Owner[r]][n] = @ + 1]
    /\ UNCHANGED <<listening, link, clientVars, up, client, wreq, dropped, event>>

api_ws_server_req_unsubscribe(r, n) ==
    /\ wreq[r].st = "running"
    /\ event[n] # 0 /\ subs[Owner[r]][n] > 0 /\ Len(down) < MaxDown
    /\ Send(Unsubscribed(n, r))
    /\ watch' = [watch EXCEPT ![n] = @ - 1]
    /\ subs' = [subs EXCEPT ![Owner[r]][n] = @ - 1]
    /\ UNCHANGED <<listening, link, clientVars, up, client, wreq, dropped, event>>

(* afb_evt_create_event gives an id that no event has.                     *)
EventCreate(n) ==
    /\ event[n] = 0
    /\ \E i \in 1..MaxEventId : /\ \A m \in Names : event[m] # i
                               /\ event' = [event EXCEPT ![n] = i]
    /\ UNCHANGED <<listening, link, clientVars, up, down, client, wreq, dropped,
                   watch, subs>>

(* afb_event_drop: the watch of the link is removed, and told if active.   *)
EventDrop(n) ==
    /\ event[n] # 0
    /\ Send(IF watch[n] = 0 THEN <<>> ELSE <<EventMsg("-", n)>>)
    /\ event' = [event EXCEPT ![n] = 0]
    /\ watch' = [watch EXCEPT ![n] = 0]
    /\ subs' = [c \in Clients |-> [subs[c] EXCEPT ![n] = 0]]
    /\ UNCHANGED <<listening, link, clientVars, up, client, wreq, dropped>>

(* A push, if the link watches the event.                                  *)
api_ws_server_event_push(n) ==
    /\ watch[n] > 0 /\ Len(down) < MaxDown
    /\ Send(<<EventMsg("!", n)>>)
    /\ UNCHANGED <<listening, link, clientVars, up, serverVars>>

(* A broadcast, to every client.                                           *)
api_ws_server_event_broadcast ==
    /\ client.st = "live" /\ Len(down) < MaxDown
    /\ Send(<<[op |-> "*", id |-> 0, name |-> "any", msgid |-> 0]>>)
    /\ UNCHANGED <<listening, link, clientVars, up, serverVars>>

-----------------------------------------------------------------------------
Setup ==
    \/ afb_api_ws_add_server \/ api_ws_server_listen_hangup
    \/ afb_api_ws_add_client \/ api_ws_server_accept \/ Lose

ClientReads ==
    \/ api_ws_client_reply \/ ClientHangup
    \/ api_ws_client_event_create \/ api_ws_client_event_drop
    \/ api_ws_client_event_subscribe \/ api_ws_client_event_unsubscribe
    \/ api_ws_client_event_push

ServerReads ==
    \/ api_ws_server_called \/ api_ws_server_called_unknown
    \/ api_ws_server_called_failed \/ api_ws_server_on_hangup

Events(n) ==
    \/ EventCreate(n) \/ EventDrop(n) \/ api_ws_server_event_push(n)

Next ==
    \/ Setup
    \/ ClientReads
    \/ ServerReads
    \/ \E r \in Reqs : \/ api_ws_client_call_sent(r)
                       \/ api_ws_server_req_reply(r)
                       \/ api_ws_server_req_unref(r)
    \/ api_ws_client_call_failed
    \/ \E r \in Reqs, n \in Names : \/ api_ws_server_req_subscribe(r, n)
                                    \/ api_ws_server_req_unsubscribe(r, n)
    \/ \E n \in Names : Events(n)
    \/ api_ws_server_event_broadcast

(* The event loops read what arrived; the bindings of the server reply.    *)
Fairness ==
    /\ WF_vars(ClientReads)
    /\ WF_vars(ServerReads)
    /\ WF_vars(api_ws_server_accept)
    /\ \A r \in Reqs : WF_vars(api_ws_server_req_reply(r))

Spec == Init /\ [][Next]_vars /\ Fairness
-----------------------------------------------------------------------------
(* Correctness.                                                            *)

TypeOK ==
    /\ listening \in BOOLEAN
    /\ link \in {"none", "up", "lost"} /\ aws \in {"none", "open", "closed"}
    /\ memo_id \in 0..IdMod - 1
    /\ memos \in Seq([msgid : 0..IdMod - 1, req : Reqs])
    /\ cevents \in Seq([id : 1..MaxEventId, name : Names, refcount : Nat \ {0},
                        watch : [Clients -> Nat]])
    /\ areq \in [Reqs -> [st : {"idle", "called", "ended"}, refs : 0..1,
                          closing : BOOLEAN, reply : {None} \cup Reqs,
                          replies : Nat]]
    /\ client \in [st : {"none", "live", "freed"}, refs : 0..(Cardinality(Reqs) + 1),
                   open : BOOLEAN]
    /\ wreq \in [Reqs -> [st : {"none", "running", "replied", "ended"},
                          msgid : 0..IdMod - 1, closing : BOOLEAN]]
    /\ event \in [Names -> 0..MaxEventId]
    /\ watch \in [Names -> Nat] /\ subs \in [Clients -> [Names -> Nat]]
    /\ dropped \subseteq Reqs

(* The server frees its client structure when the link and all the         *)
(* requests have left it, never before (afb-api-ws.c:936): a request that  *)
(* replies after the hangup finds it.  The client binder keeps alive the   *)
(* requests that its memos name.                                           *)
UsersAreHeld ==
    /\ TypeOK
    /\ client.refs = (IF client.open THEN 1 ELSE 0) + Cardinality({r \in Reqs : Active(r)})
    /\ client.st = "live" <=> client.refs > 0
    /\ \A i \in DOMAIN memos : areq[memos[i].req].st = "called"

(* A request gets one reply at most, and it is the reply to its own call,  *)
(* although the ids of the calls wrap (afb-api-ws.c:505); a session closed *)
(* by a binding of the server while it serves the request is closed at the *)
(* client too: the reply carries the flag back.                            *)
RepliesMatch ==
    \A r \in Reqs :
        /\ areq[r].replies <= 1 /\ areq[r].reply \in {None, r}
        /\ areq[r].reply = r => areq[r].closing = wreq[r].closing

(* A message about an event comes when the client knows the event, and one *)
(* about a subscription when the request still waits: the errors "event    *)
(* not found" (afb-api-ws.c:550) and "message not found" (:571) are never  *)
(* met.  When all is read, the client binder knows exactly the events that *)
(* the link watches at the server, and each of its clients is subscribed   *)
(* to what the bindings subscribed it.                                     *)
EventsAreMirrored ==
    aws = "open" =>
        IF down # <<>>
        THEN LET m == Head(down)
             IN  /\ m.op \in {"S", "U", "!", "-"} => EventOf(m.id, m.name) # 0
                 /\ m.op \in {"S", "U", "reply"} => MemoOf(m.msgid) # 0
        ELSE client.open /\ link = "up" =>
             /\ \A n \in Names :
                  Cardinality({i \in DOMAIN cevents : cevents[i].name = n})
                    = IF watch[n] > 0 THEN 1 ELSE 0
             /\ \A i \in DOMAIN cevents :
                  /\ cevents[i].id = event[cevents[i].name]
                  /\ \A c \in Clients :
                       cevents[i].watch[c] = subs[c][cevents[i].name]

(* Every call forwarded is answered, unless the link is lost or the server *)
(* had no memory or no session for it: then nobody answers the caller.     *)
CallsAreAnswered ==
    \A r \in Reqs :
        areq[r].st = "called" ~>
            (areq[r].reply # None \/ link = "lost" \/ r \in dropped)

-----------------------------------------------------------------------------
(* The inductive invariant behind the safety properties.                   *)

MsgIds == 0..IdMod - 1

UpMessages == [msgid : MsgIds, of : Reqs]

Replies == [op : {"reply"}, msgid : MsgIds, of : Reqs, closing : BOOLEAN, big : BOOLEAN]

DownMessages ==
    Replies
    \cup [op : {"+", "-", "S", "U", "!"}, id : 1..MaxEventId, name : Names, msgid : MsgIds]
    \cup [op : {"*"}, id : {0}, name : {"any"}, msgid : {0}]

MessagesInv == up \in Seq(UpMessages) /\ down \in Seq(DownMessages)

Users == {r \in Reqs : Active(r)}

(* The references of the client of the server.                             *)
CountsInv ==
    /\ client.refs = (IF client.open THEN 1 ELSE 0) + Cardinality(Users)
    /\ client.st = "live" <=> client.refs > 0

(* A watch counts the clients that are subscribed.                         *)
WatchInv ==
    \A n \in Names :
        /\ \A c \in Clients : subs[c][n] \in 0..1
        /\ watch[n] = Cardinality({c \in Clients : subs[c][n] = 1})
        /\ watch[n] > 0 => event[n] # 0

(* The calls that wait have ids of their own, and hold their requests.     *)
MemosInv ==
    /\ \A i, k \in DOMAIN memos :
         i # k => memos[i].msgid # memos[k].msgid /\ memos[i].req # memos[k].req
    /\ \A i \in DOMAIN memos : areq[memos[i].req].st = "called"
    /\ \A r \in Reqs :
         /\ areq[r].st = "idle" => areq[r].reply = None /\ areq[r].replies = 0 /\ wreq[r] = NoWreq
         /\ areq[r].st = "called" => /\ areq[r].reply = None /\ areq[r].replies = 0
                                     /\ areq[r].refs = 1

Pending(id, r) == \E i \in DOMAIN memos : memos[i].msgid = id /\ memos[i].req = r

IsReply(m) == m.op = "reply"

(* A call is in one place at most: under way,                              *)
UpInv ==
    \A i \in DOMAIN up :
        /\ Pending(up[i].msgid, up[i].of)
        /\ wreq[up[i].of] = NoWreq
        /\ \A k \in DOMAIN up : up[k].of = up[i].of => k = i
        /\ \A k \in DOMAIN down : IsReply(down[k]) => down[k].of # up[i].of

(* served,                                                                 *)
ServedInv ==
    \A r \in Reqs : wreq[r].st = "running" =>
        /\ Pending(wreq[r].msgid, r)
        /\ \A k \in DOMAIN down : IsReply(down[k]) => down[k].of # r

(* or answered; and it is there with the id it waits for.                  *)
DownInv ==
    \A i \in DOMAIN down : IsReply(down[i]) =>
        /\ Pending(down[i].msgid, down[i].of)
        /\ down[i].closing = wreq[down[i].of].closing
        /\ \A k \in DOMAIN down : IsReply(down[k]) /\ down[k].of = down[i].of => k = i

IInv ==
    /\ TypeOK /\ MessagesInv /\ CountsInv /\ WatchInv /\ MemosInv
    /\ UpInv /\ ServedInv /\ DownInv /\ RepliesMatch
=============================================================================
