-------------------------------- MODULE Wsj1 --------------------------------
(***************************************************************************)
(* The websocket clients of the binder: the protocol of calls, replies and *)
(* events (afb-wsj1.c), used by a client program on one side and by the    *)
(* service of the binder on the other (afb-ws-json1.c).                    *)
(*                                                                         *)
(* The websocket (Websock) gives the messages in order; a lost connection  *)
(* loses the end of what was sent.  A message is handled by one callback.  *)
(* The verbs of the bindings are jobs that reply once, after the callback, *)
(* and may subscribe to an event.  The counts of references, that the main *)
(* loop and the threads of the jobs change without a lock (afb-wsj1.c:118, *)
(* 123, afb-ws-json1.c:170, 176, 242), are taken to change atomically.     *)
(***************************************************************************)
EXTENDS Integers, Sequences, FiniteSets, SequencesExt

CONSTANTS
    Calls,          \* calls made by the client program
    MaxGenId,       \* the first id given, 999999
    Slow,           \* calls whose verb keeps the request after its reply
    MaxDown         \* bound on the messages to the client before an event

ASSUME BoundsAssumption ==
    /\ IsFiniteSet(Calls) /\ MaxGenId \in Nat /\ Cardinality(Calls) <= MaxGenId
    /\ Slow \subseteq Calls /\ MaxDown \in Nat

VARIABLES
    link,           \* "up" or "lost"
    up, down,       \* messages under way
    cws,            \* the websocket of the client is connected
    genid,          \* the next id of the client, unless 0
    calls,          \* calls of the client without reply, last first
    got,            \* for each call, the replies that its callback got
    sws,            \* the websocket of the service: "open", "closed", "destroyed",
                    \* or "crashed" with its process
    wsj1,           \* references to the struct afb_wsj1 of the service
    aws,            \* references to the struct afb_ws_json1
    wsreq,          \* the requests of the service
    msg,            \* references to the message of each request
    watching,       \* the listener of the service watches the event
    cleaned         \* how many times the cleanup of the connection was called

clientVars == <<cws, genid, calls, got>>
serviceVars == <<sws, wsj1, aws, wsreq, msg, watching, cleaned>>
vars == <<link, up, down, clientVars, serviceVars>>

(* afb_ws_json1_create and afb_wsj1_create.                                *)
Init ==
    /\ link = "up" /\ up = <<>> /\ down = <<>>
    /\ cws = TRUE /\ genid = 0 /\ calls = <<>>
    /\ got = [c \in Calls |-> [st |-> "idle", replies |-> {}]]
    /\ sws = "open" /\ wsj1 = 1 /\ aws = 1
    /\ wsreq = [c \in Calls |-> [st |-> "none", id |-> 0]]
    /\ msg = [c \in Calls |-> 0]
    /\ watching = FALSE /\ cleaned = 0

(* The connection is lost, and any end of what is under way with it.       *)
Lose ==
    /\ link = "up"
    /\ link' = "lost"
    /\ \E n \in 0..Len(up) : up' = SubSeq(up, 1, n)
    /\ \E n \in 0..Len(down) : down' = SubSeq(down, 1, n)
    /\ UNCHANGED <<clientVars, serviceVars>>

-----------------------------------------------------------------------------
(* The client program.                                                     *)

CallOf(id) == SelectInSeq(calls, LAMBDA k : k.id = id)

(* The id tried after k others: the counter goes down, and round.          *)
Tried(first, k) == IF k < first THEN first - k ELSE first - k + MaxGenId

MutCallCreate == [id |-> IF genid = 0 THEN MaxGenId ELSE genid,
                  next |-> (IF genid = 0 THEN MaxGenId ELSE genid) - 1]

(* wsj1_call_create: ids go down from MaxGenId, and round, over the ids of *)
(* the calls without reply.                                                *)
CallCreate ==
    LET first == IF genid = 0 THEN MaxGenId ELSE genid
        free == {k \in 0..MaxGenId - 1 : CallOf(Tried(first, k)) = 0}
        id == Tried(first, CHOOSE k \in free : \A l \in free : k <= l)
    IN  [id |-> id, next |-> id - 1]

(* A call may be made again once it is over.                               *)
afb_wsj1_call_s(c) ==
    /\ got[c].st \in {"idle", "replied"} /\ wsreq[c].st \in {"none", "ended"}
    /\ genid' = CallCreate.next
    /\ \/ /\ cws
          /\ calls' = <<[id |-> CallCreate.id, of |-> c]>> \o calls
          /\ up' = IF link = "up" THEN Append(up, [code |-> "call", id |-> CallCreate.id, of |-> c])
                   ELSE up
          /\ got' = [got EXCEPT ![c].st = "called"]
       \/ /\ ~cws                                   \* removed at once: -1
          /\ got' = [got EXCEPT ![c].st = "refused"]
          /\ UNCHANGED <<calls, up>>
    /\ UNCHANGED <<link, down, cws, serviceVars>>

(* Another program may send what wsj1_msg_scan refuses, or an event        *)
(* (afb_wsj1_send_event_s).                                                *)
SendOther ==
    /\ cws /\ link = "up" /\ up = <<>> /\ Len(down) < MaxDown
    /\ \E code \in {"bad", "event"} : up' = Append(up, [code |-> code, id |-> 0, of |-> "none"])
    /\ UNCHANGED <<link, down, clientVars, serviceVars>>

(* afb_ws_hangup: a close was read, or the end of the connection.          *)
ClientHangup ==
    /\ cws
    /\ \/ link = "lost" /\ down = <<>>
       \/ down # <<>> /\ Head(down).code = "close"
    /\ cws' = FALSE
    /\ link' = "lost" /\ down' = <<>>
    /\ UNCHANGED <<up, genid, calls, got, serviceVars>>

(* wsj1_on_text, for a reply: the call is searched and removed, then       *)
(* called back.  A reply to no call closes the websocket.                  *)
ClientReply ==
    /\ cws /\ down # <<>> /\ Head(down).code \in {"ok", "error"}
    /\ down' = Tail(down)
    /\ LET m == Head(down)
           i == CallOf(m.id)
       IN  \/ /\ i # 0
              /\ got' = [got EXCEPT ![calls[i].of].replies = @ \cup {m.of},
                                    ![calls[i].of].st = "replied"]
              /\ calls' = RemoveAt(calls, i)
              /\ UNCHANGED up
           \/ /\ i = 0
              /\ up' = Append(up, [code |-> "close", id |-> 0, of |-> "none"])
              /\ UNCHANGED <<got, calls>>
    /\ UNCHANGED <<link, cws, genid, serviceVars>>

ClientEvent ==
    /\ cws /\ down # <<>> /\ Head(down).code = "event"
    /\ down' = Tail(down)
    /\ UNCHANGED <<link, up, clientVars, serviceVars>>

-----------------------------------------------------------------------------
(* The service: references.                                                *)

MutSend(m) ==
    down' = IF sws = "open" /\ link = "up" /\ down = <<>> THEN Append(down, m) ELSE down

(* A message is sent if the websocket is connected; the sender sees an     *)
(* error if not.                                                           *)
Send(m) == down' = IF sws = "open" /\ link = "up" THEN Append(down, m) ELSE down

(* The counts after n users of the service have left with their messages.  *)
(* aws_unref: the last one frees the listener, leaves wsj1 and calls the   *)
(* cleanup; afb_wsj1_unref: the last one destroys the websocket.           *)
Release(n, msgs) ==
    LET last == aws = n
    IN  /\ aws' = aws - n
        /\ wsj1' = wsj1 - msgs - (IF last THEN 1 ELSE 0)
        /\ watching' = (watching /\ ~last)
        /\ cleaned' = IF last THEN cleaned + 1 ELSE cleaned

Destroyed(s) == IF wsj1' = 0 THEN "destroyed" ELSE s

(* wsj1_on_hangup, aws_on_hangup.                                          *)
ServiceHangup ==
    /\ sws = "open"
    /\ \/ link = "lost" /\ up = <<>>
       \/ up # <<>> /\ Head(up).code = "close"
    /\ Release(1, 0)
    /\ sws' = Destroyed("closed")
    /\ link' = "lost" /\ up' = <<>>
    /\ UNCHANGED <<down, clientVars, wsreq, msg>>

ServiceRead(code) ==
    /\ sws = "open" /\ up # <<>> /\ Head(up).code = code
    /\ up' = Tail(up)
    /\ UNCHANGED <<link, clientVars, sws, watching, cleaned>>

MutHeld(n) == n

(* wsj1_on_text records the message, that holds wsj1,                      *)
Held(n) == n + 1

(* and aws_on_call makes a request that holds the message and aws; the job *)
(* of the verb keeps it when the callback returns.                         *)
aws_on_call ==
    /\ ServiceRead("call")
    /\ LET c == Head(up).of
       IN  /\ wsreq' = [wsreq EXCEPT ![c] = [st |-> "running", id |-> Head(up).id]]
           /\ msg' = [msg EXCEPT ![c] = 1]
    /\ wsj1' = Held(wsj1) /\ aws' = aws + 1
    /\ UNCHANGED down

(* No such api or verb: replied, and released, before the callback ends.   *)
aws_on_call_unknown ==
    /\ ServiceRead("call")
    /\ Send([code |-> "error", id |-> Head(up).id, of |-> Head(up).of])
    /\ UNCHANGED <<wsreq, msg, wsj1, aws>>

(* A message not understood, or no memory for it: the websocket is closed  *)
(* by the client, once it gets the close.                                  *)
wsj1_on_text_bad ==
    /\ ServiceRead("bad")
    /\ Send([code |-> "close", id |-> 0, of |-> "none"])
    /\ UNCHANGED <<wsreq, msg, wsj1, aws>>

(* An event: the service has no on_event (afb-ws-json1.c:90) and calls it; *)
(* the process ends with all it holds, and its connection.                 *)
wsj1_on_text_event ==
    /\ sws = "open" /\ up # <<>> /\ Head(up).code = "event"
    /\ sws' = "crashed" /\ link' = "lost" /\ up' = <<>>
    /\ \E n \in 0..Len(down) : down' = SubSeq(down, 1, n)
    /\ wsreq' = [c \in Calls |-> [st |-> "ended", id |-> 0]]
    /\ msg' = [c \in Calls |-> 0]
    /\ wsj1' = 0 /\ aws' = 0 /\ watching' = FALSE
    /\ UNCHANGED <<clientVars, cleaned>>

-----------------------------------------------------------------------------
(* The service: requests, run by the jobs.                                 *)

wsreq_reply(c) ==
    /\ wsreq[c].st = "running"
    /\ wsreq' = [wsreq EXCEPT ![c].st = "replied"]
    /\ \E code \in {"ok", "error"} : Send([code |-> code, id |-> wsreq[c].id, of |-> c])
    /\ UNCHANGED <<link, up, clientVars, sws, wsj1, aws, msg, watching, cleaned>>

(* The binding keeps the request after the end of its job.                 *)
wsreq_addref(c) ==
    /\ wsreq[c].st = "running" /\ c \in Slow
    /\ wsreq' = [wsreq EXCEPT ![c].st = "kept"]
    /\ UNCHANGED <<link, up, down, clientVars, sws, wsj1, aws, msg, watching, cleaned>>

wsreq_late_reply(c) ==
    /\ wsreq[c].st = "kept"
    /\ wsreq' = [wsreq EXCEPT ![c].st = "replied"]
    /\ Send([code |-> "ok", id |-> wsreq[c].id, of |-> c])
    /\ UNCHANGED <<link, up, clientVars, sws, wsj1, aws, msg, watching, cleaned>>

(* The message released with its request (afb_wsj1_msg_unref).             *)
Released == 1

(* wsreq_unref: the context, the message, the service.                     *)
wsreq_unref(c) ==
    /\ wsreq[c].st = "replied"
    /\ wsreq' = [wsreq EXCEPT ![c] = [st |-> "ended", id |-> 0]]
    /\ msg' = [msg EXCEPT ![c] = 0]
    /\ Release(1, Released)
    /\ sws' = Destroyed(sws)
    /\ UNCHANGED <<link, up, down, clientVars>>

wsreq_subscribe(c) ==
    /\ wsreq[c].st \in {"running", "kept"}
    /\ watching' = TRUE
    /\ UNCHANGED <<link, up, down, clientVars, sws, wsj1, aws, wsreq, msg, cleaned>>

wsreq_unsubscribe(c) ==
    /\ wsreq[c].st \in {"running", "kept"} /\ watching
    /\ watching' = FALSE
    /\ UNCHANGED <<link, up, down, clientVars, sws, wsj1, aws, wsreq, msg, cleaned>>

(* A push to the listener, or a broadcast.                                 *)
aws_on_event ==
    /\ aws > 0 /\ Len(down) < MaxDown
    /\ Send([code |-> "event", id |-> 0, of |-> "none"])
    /\ UNCHANGED <<link, up, clientVars, serviceVars>>

-----------------------------------------------------------------------------
ClientReads == ClientHangup \/ ClientReply \/ ClientEvent
ServiceReads == ServiceHangup \/ aws_on_call \/ aws_on_call_unknown
                \/ wsj1_on_text_bad \/ wsj1_on_text_event
Serve(c) == wsreq_reply(c) \/ wsreq_late_reply(c)

Next ==
    \/ Lose \/ SendOther \/ ClientReads \/ ServiceReads \/ aws_on_event
    \/ \E c \in Calls : \/ afb_wsj1_call_s(c) \/ Serve(c) \/ wsreq_unref(c)
                        \/ wsreq_addref(c) \/ wsreq_subscribe(c) \/ wsreq_unsubscribe(c)

(* Both sides read what they get, and the bindings reply and release.      *)
Fairness ==
    /\ WF_vars(ClientReads) /\ WF_vars(ServiceReads)
    /\ \A c \in Calls : WF_vars(Serve(c)) /\ WF_vars(wsreq_unref(c))

Spec == Init /\ [][Next]_vars /\ Fairness

-----------------------------------------------------------------------------
(* Correctness.                                                            *)

TypeOK ==
    /\ link \in {"up", "lost"} /\ cws \in BOOLEAN
    /\ sws \in {"open", "closed", "destroyed", "crashed"}
    /\ genid \in 0..MaxGenId
    /\ calls \in Seq([id : 1..MaxGenId, of : Calls])
    /\ got \in [Calls -> [st : {"idle", "called", "refused", "replied"}, replies : SUBSET Calls]]
    /\ wsj1 \in 0..Cardinality(Calls) + 1 /\ aws \in 0..Cardinality(Calls) + 1
    /\ wsreq \in [Calls -> [st : {"none", "running", "kept", "replied", "ended"}, id : 0..MaxGenId]]
    /\ msg \in [Calls -> 0..1] /\ watching \in BOOLEAN /\ cleaned \in Nat

(* The requests of the service that are not ended.                         *)
Users == {c \in Calls : wsreq[c].st \in {"running", "kept", "replied"}}

(* What a request uses exists until the request ends, even after the       *)
(* hangup: the message, wsj1 and its websocket for the reply               *)
(* (afb-wsj1.c:117), aws and its listener for a subscription               *)
(* (afb-ws-json1.c:174).                                                   *)
UsersAreHeld ==
    /\ TypeOK
    /\ Users # {} => aws > 0 /\ wsj1 > 0 /\ sws \in {"open", "closed"}
    /\ \A c \in Users : msg[c] > 0
    /\ sws = "open" => aws > 0
    /\ watching => aws > 0

(* The callback of a call is called with the reply to that call, although  *)
(* ids are used again, and no reply comes to nobody, which would close the *)
(* connection (afb-wsj1.c:285).                                            *)
RepliesMatch ==
    /\ \A c \in Calls : got[c].replies \subseteq {c}
    /\ cws /\ down # <<>> /\ Head(down).code \in {"ok", "error"} => CallOf(Head(down).id) # 0

(* A call is replied, unless the connection is lost: the callback of a     *)
(* call without reply is then never called.  The service forgets a client  *)
(* that is gone: when its requests are over the structures are freed and   *)
(* the connection is given back to the HTTP server, once                   *)
(* (afb-ws-json1.c:178); or its process has ended.                         *)
CallsAreReplied ==
    /\ \A c \in Calls :
         got[c].st = "called" ~> (got[c].st = "replied" \/ link = "lost")
    /\ link = "lost" ~> /\ aws = 0 /\ wsj1 = 0
                        /\ sws = "crashed" \/ (sws = "destroyed" /\ cleaned = 1)

(* "This function is called on incoming event" (afb-wsj1.h:45): the side   *)
(* that reads an event has a function for it.  The service of the binder   *)
(* gives none (afb-ws-json1.c:90) and afb-wsj1.c:320 calls NULL.           *)
EventsAreCalledBack == sws # "crashed"

-----------------------------------------------------------------------------
(* The inductive invariant behind the safety properties.                   *)

Answers == {"ok", "error"}

UpMessages ==
    [code : {"call"}, id : 1..MaxGenId, of : Calls]
    \cup [code : {"bad", "event", "close"}, id : {0}, of : {"none"}]

DownMessages ==
    [code : Answers, id : 1..MaxGenId, of : Calls]
    \cup [code : {"close", "event"}, id : {0}, of : {"none"}]

MessagesInv == up \in Seq(UpMessages) /\ down \in Seq(DownMessages)

(* The references of the service: a user each, and one of its own as long  *)
(* as the websocket is open, for aws; a message of each user, and one of   *)
(* aws, for wsj1.                                                          *)
CountsInv ==
    /\ aws = Cardinality(Users) + (IF sws = "open" THEN 1 ELSE 0)
    /\ wsj1 = Cardinality(Users) + (IF aws = 0 THEN 0 ELSE 1)
    /\ sws \in {"destroyed", "crashed"} <=> wsj1 = 0
    /\ watching => aws > 0
    /\ \A c \in Users : msg[c] = 1

(* The calls that wait have ids of their own.                              *)
CallsInv ==
    /\ \A i, k \in DOMAIN calls :
         i # k => calls[i].id # calls[k].id /\ calls[i].of # calls[k].of
    /\ \A i \in DOMAIN calls : got[calls[i].of].st = "called"
    /\ \A c \in Calls : got[c].replies \subseteq {c}

Pending(id, c) == \E i \in DOMAIN calls : calls[i].id = id /\ calls[i].of = c

IsCall(m) == m.code = "call"

IsAnswer(m) == m.code \in Answers

(* A call is in one place at most: under way,                              *)
UpInv ==
    \A i \in DOMAIN up : IsCall(up[i]) =>
        /\ Pending(up[i].id, up[i].of)
        /\ wsreq[up[i].of].st \in {"none", "ended"}
        /\ \A k \in DOMAIN up : IsCall(up[k]) /\ up[k].of = up[i].of => k = i
        /\ \A k \in DOMAIN down : IsAnswer(down[k]) => down[k].of # up[i].of

(* served,                                                                 *)
ServedInv ==
    \A c \in Calls : wsreq[c].st \in {"running", "kept"} =>
        /\ Pending(wsreq[c].id, c)
        /\ \A k \in DOMAIN down : IsAnswer(down[k]) => down[k].of # c

(* or answered; and it is there with the id it waits for.                  *)
DownInv ==
    \A i \in DOMAIN down : IsAnswer(down[i]) =>
        /\ Pending(down[i].id, down[i].of)
        /\ \A k \in DOMAIN down : IsAnswer(down[k]) /\ down[k].of = down[i].of => k = i

IInv == TypeOK /\ MessagesInv /\ CountsInv /\ CallsInv /\ UpInv /\ ServedInv /\ DownInv
=============================================================================
