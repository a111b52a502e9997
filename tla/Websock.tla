------------------------------ MODULE Websock ------------------------------
(***************************************************************************)
(* The websocket protocol as the binder reads it: websock_dispatch, which  *)
(* reads frames from a socket that gives them in pieces (websock.c), and   *)
(* afb_ws, which puts their payloads together as messages (afb-ws.c).      *)
(*                                                                         *)
(* The peer sends frames; each byte is the cell of its frame and its place *)
(* in it.  A read takes any number of the bytes that it asks: the bytes    *)
(* come when they come.  A read never crosses the end of a frame, so a     *)
(* frame is sent when the former one is read: the order of the bytes is    *)
(* all that counts.  Two things that the code does not look at are kept as *)
(* faults of a behaviour: a writev that took the start of a frame only, a  *)
(* ping or a pong whose payload was still to come.  The behaviours end     *)
(* where a byte is taken for what it is not, and where the code uses a     *)
(* buffer that is missing.                                                 *)
(***************************************************************************)
EXTENDS Integers, FiniteSets, Sequences, SequencesExt

CONSTANTS
    Frames,         \* [fin, op, rsv, mask, len]: the frames a peer may send
    MaxFrames,      \* bound on the frames sent
    Accepts,        \* "text", "binary": the callbacks of the interface
    Max7, Max16,    \* lengths that 7 and 16 bits hold: 125 and 65535
    maxlength       \* the longest frame accepted: 65000

Ops == {"text", "binary", "continue", "close", "ping", "pong", "unknown"}

ASSUME FramesAssumption ==
    Frames \subseteq [fin : BOOLEAN, op : Ops, rsv : BOOLEAN, mask : BOOLEAN, len : Nat]
ASSUME BoundsAssumption ==
    /\ MaxFrames \in Nat /\ {Max7, Max16, maxlength} \subseteq Nat
    /\ Max7 < maxlength /\ maxlength < Max16
    /\ Accepts \subseteq {"text", "binary"}

VARIABLES
    wire,           \* cells written and not read
    eof,            \* the connection ended after them
    frames,         \* the frames sent
    sent,           \* the messages sent
    open,           \* the message of which some fragments are sent
    ws,             \* struct websock
    aws,            \* struct afb_ws
    pc,             \* where the receiver is: "dispatch", "read", "drop",
                    \* "closed", "astray", "crashed"
    faults,         \* "partial": a frame was cut; "late": a payload came late
    received,       \* messages given to on_text and on_binary
    pongs           \* pongs sent back

senderVars == <<eof, frames, sent, open>>
vars == <<wire, senderVars, ws, aws, pc, received, pongs, faults>>

NoMessage == [type |-> "none", data |-> <<>>]

Init ==
    /\ wire = <<>> /\ eof = FALSE /\ frames = <<>> /\ sent = <<>> /\ open = NoMessage
    /\ ws = [state |-> "INIT", id |-> 0, lenhead |-> 0, szhead |-> 0, length |-> 0, mask |-> 0]
    /\ aws = [state |-> "waiting", buffer |-> <<>>, connected |-> TRUE]
    /\ pc = "dispatch" /\ received = <<>> /\ pongs = 0 /\ faults = {}

-----------------------------------------------------------------------------
(* Frames.                                                                 *)

Control(f) == f.op \in {"close", "ping", "pong"}

(* Bytes of the extended length, as the 7 bits of the length announce it.  *)
Extended(f) == CASE f.len <= Max7 -> 0 [] f.len > Max16 -> 8 [] OTHER -> 2

(* websock_send_internal_v: the header, of two bytes, the extended length  *)
(* and the mask, then the payload.                                         *)
HeaderLen(f) == 2 + Extended(f) + (IF f.mask THEN 4 ELSE 0)

Encoded(f, id) == [i \in 1..HeaderLen(f) + f.len |-> [id |-> id, at |-> i]]

Payload(f, id) == [i \in 1..f.len |-> <<id, i>>]

(* The frame goes on with the message begun, or begins one.                *)
Legal(f) ==
    /\ ~f.rsv
    /\ f.op \in {"text", "binary"} => open = NoMessage
    /\ f.op = "continue" => open # NoMessage

Extend(f) ==
    LET type == IF f.op = "continue" THEN open.type ELSE f.op
        msg == [type |-> type, data |-> open.data \o Payload(f, Len(frames) + 1)]
    IN  IF f.op \notin {"text", "binary", "continue"} \/ ~Legal(f) THEN UNCHANGED <<sent, open>>
        ELSE IF f.fin THEN sent' = Append(sent, msg) /\ open' = NoMessage
        ELSE open' = msg /\ UNCHANGED sent

(* Everything written was read and handled.                                *)
Quiescent ==
    /\ wire = <<>>
    /\ \/ pc = "dispatch" /\ (ws.state = "INIT" \/ ws.lenhead < ws.szhead)
       \/ pc = "read" /\ ws.length > 0

(* A frame is written; writev may take its start only, and the sender      *)
(* looks for a failure only: it is a success.                              *)
websock_send(f) ==
    /\ Quiescent /\ ~eof /\ Len(frames) < MaxFrames
    /\ LET whole == Encoded(f, Len(frames) + 1)
       IN  \E n \in 1..Len(whole) :
             /\ wire' = SubSeq(whole, 1, n)
             /\ faults' = IF n < Len(whole) THEN faults \cup {"partial"} ELSE faults
    /\ frames' = Append(frames, f)
    /\ Extend(f)
    /\ UNCHANGED <<eof, ws, aws, pc, received, pongs>>

(* The connection ends, with any of the last bytes.                        *)
Lose ==
    /\ ~eof
    /\ eof' = TRUE
    /\ \E n \in 0..Len(wire) : wire' = SubSeq(wire, 1, n)
    /\ UNCHANGED <<frames, sent, open, ws, aws, pc, received, pongs, faults>>

-----------------------------------------------------------------------------
(* websock_dispatch: headers.                                              *)

(* The frame whose header was read.                                        *)
Current == frames[ws.id]

(* The n cells next read.                                                  *)
Readable(asked) == 1..(IF asked < Len(wire) THEN asked ELSE Len(wire))
Skip(n) == wire' = SubSeq(wire, n + 1, Len(wire))

(* afb_ws_hangup: the websocket is destroyed.                              *)
Hangup ==
    /\ aws' = [state |-> "waiting", buffer |-> <<>>, connected |-> FALSE]
    /\ pc' = "closed"

(* websock_error: a close is sent, then aws_on_error hangs up.             *)
websock_error == Hangup /\ UNCHANGED <<ws, received, pongs>>

MutRead(w, n) == [w EXCEPT !.lenhead = n]

Read(w, n) == [w EXCEPT !.lenhead = @ + n]

(* STATE_INIT, then read_header.  The bytes read are the ones of a header  *)
(* only if all the bytes of the former frames were read.                   *)
read_header ==
    /\ pc = "dispatch"
    /\ LET w == IF ws.state = "INIT"
                THEN [ws EXCEPT !.state = "START", !.lenhead = 0, !.szhead = 2] ELSE ws
       IN  /\ w.state \in {"START", "LENGTH"} /\ w.lenhead < w.szhead
           /\ \E n \in Readable(w.szhead - w.lenhead) :
                /\ Skip(n)
                /\ ws' = [Read(w, n) EXCEPT !.id = wire[1].id]
           /\ IF wire[1].at = w.lenhead + 1 THEN UNCHANGED pc ELSE pc' = "astray"
    /\ UNCHANGED <<senderVars, aws, received, pongs, faults>>

check_control_header(f) == ~f.rsv /\ f.len <= Max7 /\ (f.op = "close" => f.len # 1)

(* The two first bytes are known: the length of the header is; the header  *)
(* of a close holds its code.                                              *)
HeaderStart ==
    /\ pc = "dispatch" /\ ws.state = "START" /\ ws.lenhead = ws.szhead
    /\ LET f == Current
           code == IF f.op = "close" /\ f.len # 0 THEN 2 ELSE 0
       IN  \/ /\ Control(f) /\ ~check_control_header(f)
              /\ websock_error
           \/ /\ Control(f) => check_control_header(f)
              /\ ws' = [ws EXCEPT !.szhead = HeaderLen(f) + code, !.state = "LENGTH"]
              /\ UNCHANGED <<aws, pc, received, pongs>>
    /\ UNCHANGED <<wire, senderVars, faults>>

TooLong(f) == f.len > maxlength

(* aws_drop_error: the rest of the frame is dropped, an error sent and the *)
(* websocket closed; dispatch then goes on with a websock that is freed.   *)
aws_drop_error == Hangup /\ UNCHANGED <<received, pongs>>

MutRefused(op) == op # "continue" /\ (aws.state # "waiting" \/ op \notin Accepts)

(* aws_on_text, aws_on_binary, aws_on_continue: the state of the message.  *)
Refused(op) ==
    IF op = "continue" THEN aws.state = "waiting"
    ELSE aws.state # "waiting" \/ op \notin Accepts

OnData(f) ==
    \/ Refused(f.op) /\ aws_drop_error
    \/ /\ ~Refused(f.op)
       /\ aws' = [aws EXCEPT !.state = IF f.op = "continue" THEN @ ELSE f.op]
       /\ pc' = "read"
       /\ UNCHANGED <<received, pongs>>

(* The header is known: length, mask, then the callback of the opcode.  A  *)
(* close is dropped and closes; a ping or a pong is dropped.               *)
HeaderEnd ==
    /\ pc = "dispatch" /\ ws.state = "LENGTH" /\ ws.lenhead = ws.szhead
    /\ LET f == Current
           data == f.op \in {"text", "binary", "continue"}
       IN  \/ /\ TooLong(f) \/ f.rsv \/ f.op = "unknown"
              /\ websock_error
           \/ /\ ~TooLong(f) /\ ~f.rsv /\ f.op # "unknown"
              /\ ws' = [ws EXCEPT !.state = "DATA", !.mask = 0,
                                  !.length = HeaderLen(f) + f.len - ws.szhead]
              /\ \/ data /\ OnData(f)
                 \/ f.op = "close" /\ Hangup /\ UNCHANGED <<received, pongs>>
                 \/ f.op \in {"ping", "pong"} /\ pc' = "drop" /\ UNCHANGED <<aws, received, pongs>>
    /\ UNCHANGED <<wire, senderVars, faults>>

-----------------------------------------------------------------------------
(* The payload.                                                            *)

Min2(a, b) == IF a < b THEN a ELSE b

(* unmask, from the place off of the buffer: bytes up to an aligned place, *)
(* words, then bytes; bytes rotate the mask.                               *)
Leading(off, size) == Min2(size, (4 - (off % 4)) % 4)

KeyOf(mask, off, size, j) ==
    LET a == Leading(off, size)
    IN  IF j <= a THEN (mask + j - 1) % 4 ELSE (mask + a + ((j - a - 1) % 4)) % 4

Rotated(mask, off, size) ==
    LET a == Leading(off, size) IN (mask + a + ((size - a) % 4)) % 4

(* The bytes got: the payload where the mask fits, else garbage.           *)
unmask(cells, mask, off) ==
    [j \in 1..Len(cells) |->
        LET f == frames[cells[j].id]
            i == cells[j].at - HeaderLen(f)
        IN  IF f.mask /\ KeyOf(mask, off, Len(cells), j) # (i - 1) % 4
            THEN <<0, 0>> ELSE <<cells[j].id, i>>]

(* aws_read, by websock_read: the bytes come, at the end of the buffer.    *)
aws_read ==
    /\ pc = "read" /\ ws.length > 0 /\ wire # <<>>
    /\ \E n \in Readable(ws.length) :
         LET off == Len(aws.buffer)
         IN  /\ Skip(n)
             /\ ws' = [ws EXCEPT !.length = @ - n, !.mask = Rotated(@, off, n)]
             /\ aws' = [aws EXCEPT !.buffer = @ \o unmask(SubSeq(wire, 1, n), ws.mask, off)]
    /\ IF wire[1].id = ws.id THEN UNCHANGED pc ELSE pc' = "astray"
    /\ UNCHANGED <<senderVars, received, pongs, faults>>

MutTaken(a) == [a EXCEPT !.state = "waiting"]

Taken(a) == [a EXCEPT !.state = "waiting", !.buffer = <<>>]

(* aws_continue: the payload is read; the last fragment gives the message, *)
(* and ends it with a null byte in a buffer that an empty one has not.     *)
aws_continue ==
    /\ pc = "read" /\ ws.length = 0
    /\ \/ /\ Current.fin /\ aws.buffer # <<>>
          /\ received' = Append(received, [type |-> aws.state, data |-> aws.buffer])
          /\ aws' = Taken(aws)
          /\ pc' = "dispatch"
       \/ /\ Current.fin /\ aws.buffer = <<>>
          /\ pc' = "crashed"
          /\ UNCHANGED <<received, aws>>
       \/ ~Current.fin /\ pc' = "dispatch" /\ UNCHANGED <<received, aws>>
    /\ ws' = [ws EXCEPT !.state = "INIT"]
    /\ UNCHANGED <<wire, senderVars, pongs, faults>>

(* A read that finds the end of the connection: in dispatch, hangs up; in  *)
(* a message, drops it with an error.                                      *)
ReadEnd ==
    /\ pc \in {"dispatch", "read"} /\ wire = <<>> /\ eof
    /\ \/ pc = "dispatch" /\ (ws.lenhead < ws.szhead \/ ws.state = "INIT")
       \/ pc = "read" /\ ws.length > 0
    /\ Hangup
    /\ UNCHANGED <<wire, senderVars, ws, received, pongs, faults>>

Dropped ==
    /\ ws' = [ws EXCEPT !.state = "INIT"]
    /\ pc' = "dispatch"
    /\ pongs' = IF Current.op = "ping" THEN pongs + 1 ELSE pongs

(* websock_drop of a ping or a pong: what came is read; the drop stops     *)
(* when nothing more is there, and the next byte is taken as a header.     *)
websock_drop ==
    /\ pc = "drop"
    /\ \E n \in 0..Min2(Len(wire), ws.length) :
         /\ Skip(n)
         /\ faults' = IF n < ws.length /\ n < Len(wire) THEN faults \cup {"late"} ELSE faults
    /\ Dropped
    /\ UNCHANGED <<aws, received, senderVars>>

-----------------------------------------------------------------------------
Next ==
    \/ \E f \in Frames : websock_send(f)
    \/ Lose
    \/ read_header \/ HeaderStart \/ HeaderEnd
    \/ aws_read \/ aws_continue \/ ReadEnd \/ websock_drop

Spec == Init /\ [][Next]_vars

-----------------------------------------------------------------------------
(* Correctness.                                                            *)

Websocks ==
    [state : {"INIT", "START", "LENGTH", "DATA"}, id : 0..MaxFrames, lenhead : 0..14,
     szhead : 0..14, length : 0..maxlength, mask : 0..3]

TypeOK ==
    /\ eof \in BOOLEAN /\ frames \in Seq(Frames) /\ ws \in Websocks
    /\ aws.state \in {"waiting", "text", "binary"} /\ aws.connected \in BOOLEAN
    /\ pc \in {"dispatch", "read", "drop", "closed", "astray", "crashed"}
    /\ pongs \in 0..MaxFrames /\ faults \subseteq {"partial", "late"}

(* The pings among the n first frames.                                     *)
Pings(n) == {i \in 1..n : frames[i].op = "ping"}

(* What is given to on_text and on_binary is what was sent, in order and   *)
(* whole: however the bytes are cut in reads, the messages in fragments,   *)
(* with pings between the fragments, masked or not (websock.c:466).  Once  *)
(* all is read nothing is missing, and each ping got its pong.  The sender *)
(* must have written its frames whole, and the payloads of the pings have  *)
(* come with their headers.                                                *)
Received ==
    /\ IsPrefix(received, sent)
    /\ Quiescent /\ ~eof =>
        /\ received = sent
        /\ pongs = Cardinality(Pings(Len(frames)))

SentIsReceived == faults = {} => Received

(* The reads leave the bounds of the frames, a byte of payload is taken as *)
(* a header or the reverse, only after a frame that was cut or a payload   *)
(* that came late.                                                         *)
NeverAstray == pc = "astray" => faults # {}

(* "Sends a 'text' of 'length' to the endpoint of 'ws'.  Returns 0 on      *)
(* success" (afb-ws.c:246): what is sent with success is received, if the  *)
(* payloads of the pings come with their headers.  websock.c:153 takes a   *)
(* frame written in part for a success.                                    *)
SuccessIsReceived == "late" \notin faults => Received

(* "continue to read the header" (websock.c:353): if the frames are whole, *)
(* what is read there is a header.  websock.c:446 goes on after a ping     *)
(* that websock_drop (websock.c:539) could not drop.                       *)
HeadersAreHeaders == "partial" \notin faults => pc # "astray"

(* "Reads either text or binary data of 'size' from 'ws' eventually        *)
(* 'last'" (afb-ws.c:452): any size.  With nothing to read there is no    *)
(* buffer, and afb-ws.c:465 writes in it.                                  *)
AnySizeIsRead == pc # "crashed"

(* The i-th frame breaks the protocol, is longer than 65000 bytes, is of a *)
(* kind that is not expected, or closes.                                   *)
Bad(f) ==
    \/ f.rsv \/ f.op = "unknown" \/ f.len > maxlength
    \/ (Control(f) /\ f.len > Max7) \/ f.op = "close"
    \/ f.op \in {"text", "binary"} \ Accepts
Starts(f) == f.op \in {"text", "binary"}
Data(f) == Starts(f) \/ f.op = "continue"
Before(i) == {k \in 1..i - 1 : Data(frames[k])}
InMessage(i) == \E k \in Before(i) : ~frames[k].fin /\ \A l \in Before(i) : l <= k
Broken(i) == Bad(frames[i]) \/ (Data(frames[i]) /\ (Starts(frames[i]) <=> InMessage(i)))

(* A peer that keeps to the protocol, to frames of 65000 bytes and to the  *)
(* kinds of message expected is disconnected only when it closes or when   *)
(* the connection is lost, unless a frame was cut or a payload came late;  *)
(* one that does not is disconnected.  The FIN of a control frame is not   *)
(* looked at.                                                              *)
ClosedForAReason ==
    faults = {} =>
         /\ TypeOK
         /\ pc = "closed" => eof \/ (frames # <<>> /\ Broken(Len(frames)))
         /\ Quiescent /\ ~eof => \A i \in DOMAIN frames : ~Broken(i)

-----------------------------------------------------------------------------
(* The inductive invariant: what holds until a fault.                      *)

Newest == frames[Len(frames)]

(* The length of a frame with its header, and of its header with the code  *)
(* of a close.                                                             *)
Total(f) == HeaderLen(f) + f.len
HeaderSize(f) == HeaderLen(f) + (IF f.op = "close" /\ f.len # 0 THEN 2 ELSE 0)

(* The types of the data: a byte is known by its frame and its place.      *)
Cells == [id : Nat, at : Nat]
Bytes == Nat \X Nat
Messages == [type : {"text", "binary"}, data : Seq(Bytes)]

DataInv ==
    /\ wire \in Seq(Cells) /\ Len(frames) <= MaxFrames
    /\ aws.buffer \in Seq(Bytes)
    /\ aws = [state |-> aws.state, buffer |-> aws.buffer, connected |-> aws.connected]
    /\ {sent, received} \subseteq Seq(Messages) /\ open \in Messages \cup {NoMessage}

(* The bytes of the last frame that were read.                             *)
Consumed ==
    IF pc # "dispatch" THEN Total(Newest) - ws.length
    ELSE IF ws.state = "INIT" THEN 0 ELSE ws.lenhead

(* Nothing is left to read and no frame is begun.                          *)
Idle == pc = "dispatch" /\ ws.state = "INIT" /\ wire = <<>>
Busy == pc \in {"dispatch", "read", "drop"} /\ ~Idle

(* The wire holds what was not read of the last frame.                     *)
WireInv ==
    Busy =>
        /\ frames # <<>>
        /\ \A i \in DOMAIN wire : wire[i] = [id |-> Len(frames), at |-> Consumed + i]
        /\ Len(wire) <= Total(Newest) - Consumed
        /\ ~eof => Len(wire) = Total(Newest) - Consumed

(* What is known of the frame that is read.                                *)
HeaderInv ==
    /\ pc = "dispatch" => ws.state # "DATA"
    /\ Busy /\ ws.state # "INIT" => ws.id = Len(frames)
    /\ pc = "dispatch" /\ ws.state = "START" => ws.szhead = 2 /\ ws.lenhead \in 1..2
    /\ pc = "dispatch" /\ ws.state = "LENGTH" =>
         /\ ws.szhead = HeaderSize(Newest) /\ ws.lenhead \in 2..ws.szhead
         /\ Control(Newest) => check_control_header(Newest)
    /\ pc \in {"read", "drop"} =>
         /\ ws.state = "DATA" /\ ws.length <= Newest.len
         /\ ~Broken(Len(frames))
    /\ pc = "read" =>
         /\ Data(Newest) /\ aws.state # "waiting"
         /\ ws.mask = (Newest.len - ws.length) % 4
    /\ pc = "drop" => Newest.op \in {"ping", "pong"} /\ ws.length = Newest.len

(* The message that is gathered.                                           *)
Gathered == IF aws.state = "waiting" THEN NoMessage ELSE [type |-> aws.state, data |-> aws.buffer]

(* What the sender has after m, once the frames before were given.         *)
Sends(fin, m) ==
    IF fin THEN sent = Append(received, m) /\ open = NoMessage
    ELSE sent = received /\ open = m

(* The last frame is not handled: the sender is one frame ahead.           *)
Ahead ==
    IF ~Newest.rsv /\ Data(Newest) /\ (Starts(Newest) <=> aws.state = "waiting")
    THEN Sends(Newest.fin, [type |-> IF Starts(Newest) THEN Newest.op ELSE aws.state,
                          data |-> aws.buffer \o Payload(Newest, Len(frames))])
    ELSE sent = received /\ open = Gathered

Even == sent = received /\ open = Gathered

(* The bytes of the frame that are still to be gathered.                   *)
Rest == [i \in 1..ws.length |-> <<ws.id, Newest.len - ws.length + i>>]

MessageInv ==
    /\ aws.state = "waiting" => aws.buffer = <<>>
    /\ IsPrefix(received, sent)
    /\ Idle /\ ~eof => Even
    /\ Busy /\ pc = "dispatch" => Ahead
    /\ pc = "read" => Sends(Newest.fin, [type |-> aws.state, data |-> aws.buffer \o Rest])
    /\ pc = "drop" => Even

(* The n first frames were handled: they are good.                         *)
Handled(n) ==
    /\ \A i \in 1..n : ~Broken(i)
    /\ InMessage(n + 1) <=> aws.state # "waiting"

(* What was handled, and the pings that were answered.                     *)
HandledInv ==
    /\ Idle /\ ~eof => Handled(Len(frames)) /\ pongs = Cardinality(Pings(Len(frames)))
    /\ Busy /\ pc = "dispatch" => Handled(Len(frames) - 1)
    /\ Busy => pongs = Cardinality(Pings(Len(frames) - 1))
    /\ pc = "drop" => Handled(Len(frames))
    /\ pc = "read" => /\ \A i \in 1..Len(frames) : ~Broken(i)
                      /\ InMessage(Len(frames) + 1) <=> ~Newest.fin
    /\ pc = "closed" => eof \/ (frames # <<>> /\ Broken(Len(frames)))

OnFrames == pc # "astray"

ReadInv == TypeOK /\ DataInv /\ OnFrames /\ WireInv /\ HeaderInv /\ MessageInv /\ HandledInv

IInv == faults = {} => ReadInv
=============================================================================
