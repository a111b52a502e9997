--------------------------- MODULE WebsockProofs ---------------------------
(***************************************************************************)
(* Proofs about the frames of a websocket, for every set of frames, every  *)
(* limit of their lengths and every cut of their bytes in reads.  IInv     *)
(* (module Websock) is inductive: the faults only grow, and ReadInv holds  *)
(* as long as no frame was cut and no payload of a ping came late.         *)
(***************************************************************************)
EXTENDS Websock, SequenceTheorems, FiniteSetTheorems, TLAPS

-----------------------------------------------------------------------------
(* Frames.                                                                 *)

(* unmask goes on with the mask where the former read left it, whatever    *)
(* the place of the bytes in the buffer.                                   *)
LEMMA MaskFacts ==
    ASSUME NEW c \in Nat, NEW off \in Nat, NEW n \in Nat
    PROVE  /\ Rotated(c % 4, off, n) = (c + n) % 4
           /\ \A j \in 1..n : KeyOf(c % 4, off, n, j) = (c + j - 1) % 4
BY DEF Rotated, KeyOf, Leading, Min2

(* The lengths of the headers.                                             *)
LEMMA FrameFacts ==
    ASSUME NEW f \in Frames
    PROVE  /\ f.len \in Nat /\ f.op \in Ops /\ f.fin \in BOOLEAN /\ f.rsv \in BOOLEAN /\ f.mask \in BOOLEAN
           /\ HeaderLen(f) \in 2..14 /\ Total(f) \in Nat /\ Total(f) = HeaderLen(f) + f.len
           /\ HeaderSize(f) \in Nat /\ HeaderSize(f) >= HeaderLen(f) /\ HeaderSize(f) >= 2
           /\ f.op # "close" => HeaderSize(f) = HeaderLen(f)
           /\ (Control(f) => check_control_header(f)) => HeaderSize(f) <= 14 /\ HeaderSize(f) <= Total(f)
BY FramesAssumption, BoundsAssumption
   DEF Ops, HeaderLen, Extended, Total, HeaderSize, Control, check_control_header

(* The bytes that are read and the ones that stay.                         *)
LEMMA PrefixFacts ==
    ASSUME NEW S, NEW s \in Seq(S), NEW n \in 0..Len(s)
    PROVE  /\ SubSeq(s, 1, n) \in Seq(S) /\ Len(SubSeq(s, 1, n)) = n
           /\ DOMAIN SubSeq(s, 1, n) = 1..n
           /\ \A i \in 1..n : SubSeq(s, 1, n)[i] = s[i]
<1>1. DOMAIN s = 1..Len(s) /\ Len(s) \in Nat
  BY LenProperties
<1>2. n \in Nat /\ n <= Len(s)
  BY <1>1
<1>3. /\ SubSeq(s, 1, n) \in Seq(S) /\ Len(SubSeq(s, 1, n)) = n
      /\ \A i \in 1..n : SubSeq(s, 1, n)[i] = s[i]
  BY <1>1, <1>2, SubSeqProperties
<1>. QED  BY <1>3, LenProperties

LEMMA SuffixFacts ==
    ASSUME NEW S, NEW s \in Seq(S), NEW n \in 0..Len(s)
    PROVE  /\ SubSeq(s, n + 1, Len(s)) \in Seq(S)
           /\ Len(SubSeq(s, n + 1, Len(s))) = Len(s) - n
           /\ DOMAIN SubSeq(s, n + 1, Len(s)) = 1..Len(s) - n
           /\ \A i \in 1..Len(s) - n : SubSeq(s, n + 1, Len(s))[i] = s[n + i]
<1>1. Len(s) \in Nat /\ n \in Nat /\ n <= Len(s)
  BY LenProperties
<1>2. ASSUME NEW m \in Int, m = n + 1
      PROVE  /\ SubSeq(s, m, Len(s)) \in Seq(S) /\ Len(SubSeq(s, m, Len(s))) = Len(s) - n
             /\ \A i \in 1..Len(s) - n : SubSeq(s, m, Len(s))[i] = s[n + i]
  <2>1. \A i \in m..Len(s) : s[i] \in S
    BY <1>1, <1>2, ElementOfSeq
  <2>2. /\ SubSeq(s, m, Len(s)) \in Seq(S)
        /\ Len(SubSeq(s, m, Len(s))) = IF m <= Len(s) THEN Len(s) - m + 1 ELSE 0
        /\ \A i \in 1..Len(s) - m + 1 : SubSeq(s, m, Len(s))[i] = s[m + i - 1]
    BY <1>1, <2>1, SubSeqProperties
  <2>3. Len(s) - m + 1 = Len(s) - n /\ \A i \in 1..Len(s) - n : m + i - 1 = n + i
    BY <1>1, <1>2
  <2>4. Len(SubSeq(s, m, Len(s))) = Len(s) - n
    <3>1. CASE n = Len(s)
      <4>1. ~(m <= Len(s)) /\ Len(s) - n = 0
        BY <1>1, <1>2, <3>1
      <4>. QED  BY <2>2, <4>1, Zenon
    <3>2. CASE n # Len(s)
      <4>1. \A a, b \in Nat : a <= b /\ a # b => a + 1 <= b
        OBVIOUS
      <4>2. m <= Len(s)
        BY <1>1, <1>2, <3>2, <4>1
      <4>. QED  BY <2>2, <2>3, <4>2, Zenon
    <3>. QED  BY <3>1, <3>2
  <2>5. ASSUME NEW i \in 1..Len(s) - n PROVE SubSeq(s, m, Len(s))[i] = s[n + i]
    <3>1. i \in 1..Len(s) - m + 1 /\ m + i - 1 = n + i
      BY <2>3
    <3>. QED  BY <2>2, <3>1
  <2>. QED  BY <2>2, <2>4, <2>5
<1>3. n + 1 \in Int
  BY <1>1
<1>4. /\ SubSeq(s, n + 1, Len(s)) \in Seq(S) /\ Len(SubSeq(s, n + 1, Len(s))) = Len(s) - n
      /\ \A i \in 1..Len(s) - n : SubSeq(s, n + 1, Len(s))[i] = s[n + i]
  BY <1>2, <1>3
<1>. QED  BY <1>4, LenProperties

(* The places of the messages depend on the frames before only.            *)
LEMMA MessageFacts ==
    ASSUME NEW n \in Nat \ {0}
    PROVE  /\ Data(frames[n]) => (InMessage(n + 1) <=> ~frames[n].fin)
           /\ ~Data(frames[n]) => (InMessage(n + 1) <=> InMessage(n))
<1>1. ASSUME Data(frames[n]) PROVE InMessage(n + 1) <=> ~frames[n].fin
  <2>1. n \in Before(n + 1) /\ \A l \in Before(n + 1) : l \in Nat /\ l <= n
    BY <1>1 DEF Before
  <2>. QED  BY <2>1 DEF InMessage
<1>2. ASSUME ~Data(frames[n]) PROVE InMessage(n + 1) <=> InMessage(n)
  <2>1. Before(n + 1) = Before(n)
    BY <1>2 DEF Before
  <2>. QED  BY <2>1 DEF InMessage
<1>. QED  BY <1>1, <1>2

(* What is said of the frames, when no frame is sent.                      *)
LEMMA SameFrames ==
    ASSUME frames' = frames
    PROVE  /\ \A n : InMessage(n)' <=> InMessage(n)
           /\ \A n : Broken(n)' <=> Broken(n)
           /\ \A n : Pings(n)' = Pings(n)
           /\ Newest' = Newest
<1>1. \A n : Before(n)' = Before(n)
  BY DEF Before
<1>2. \A n : InMessage(n)' <=> InMessage(n)
  BY <1>1 DEF InMessage
<1>. QED  BY <1>2 DEF Broken, Pings, Newest

(* What is said of the former frames, when one is sent.                    *)
LEMMA NewFrame ==
    ASSUME frames \in Seq(Frames), NEW f \in Frames, frames' = Append(frames, f)
    PROVE  /\ Len(frames') = Len(frames) + 1 /\ frames' # <<>> /\ frames' \in Seq(Frames)
           /\ Newest' = f /\ Len(frames) \in Nat
           /\ \A i \in 1..Len(frames) + 1 : InMessage(i)' <=> InMessage(i)
           /\ \A i \in 1..Len(frames) : Broken(i)' <=> Broken(i)
           /\ \A n \in 0..Len(frames) : Pings(n)' = Pings(n)
<1>1. PICK k \in Nat : k = Len(frames)
  BY LenProperties
<1>2. /\ frames' \in Seq(Frames) /\ Len(frames') = k + 1
      /\ \A i \in 1..k : frames'[i] = frames[i]
      /\ frames'[k + 1] = f
  BY <1>1, AppendProperties
<1>3. \A i \in 1..k + 1 : Before(i)' = Before(i)
  BY <1>2 DEF Before
<1>4. ASSUME NEW i \in 1..k + 1 PROVE InMessage(i)' <=> InMessage(i)
  <2>1. \A l \in Before(i) : frames'[l].fin = frames[l].fin
    BY <1>2 DEF Before
  <2>. QED  BY <1>3, <2>1 DEF InMessage
<1>5. ASSUME NEW i \in 1..k PROVE Broken(i)' <=> Broken(i)
  BY <1>2, <1>4 DEF Broken
<1>6. \A n \in 0..k : Pings(n)' = Pings(n)
  BY <1>2 DEF Pings
<1>7. frames' # <<>>
  BY <1>2, EmptySeq
<1>8. Newest' = f
  BY <1>2 DEF Newest
<1>. QED  BY <1>1, <1>2, <1>4, <1>5, <1>6, <1>7, <1>8

(* The number of the pings.                                                *)
LEMMA PingFacts ==
    ASSUME NEW n \in Nat
    PROVE  /\ IsFiniteSet(Pings(n)) /\ Cardinality(Pings(n)) \in 0..n
           /\ frames[n + 1].op = "ping" => Cardinality(Pings(n + 1)) = Cardinality(Pings(n)) + 1
           /\ frames[n + 1].op # "ping" => Pings(n + 1) = Pings(n)
<1>1. IsFiniteSet(1..n) /\ Cardinality(1..n) = n
  BY FS_Interval
<1>2. IsFiniteSet(Pings(n)) /\ Cardinality(Pings(n)) \in Nat /\ Cardinality(Pings(n)) <= n
  BY <1>1, FS_Subset, FS_CardinalityType DEF Pings
<1>3. ASSUME frames[n + 1].op = "ping"
      PROVE  Cardinality(Pings(n + 1)) = Cardinality(Pings(n)) + 1
  <2>1. Pings(n + 1) = Pings(n) \cup {n + 1} /\ n + 1 \notin Pings(n)
    BY <1>3 DEF Pings
  <2>. QED  BY <1>2, <2>1, FS_AddElement
<1>4. ASSUME frames[n + 1].op # "ping" PROVE Pings(n + 1) = Pings(n)
  BY <1>4 DEF Pings
<1>. QED  BY <1>2, <1>3, <1>4

-----------------------------------------------------------------------------
(* The invariant, one lemma per action.                                    *)

LEMMA InitInv == Init => ReadInv /\ faults = {}
<1>. SUFFICES ASSUME Init PROVE ReadInv
  BY DEF Init
<1>1. Len(frames) = 0 /\ frames \in Seq(Frames) /\ DOMAIN frames = {} /\ Len(wire) = 0
  BY EmptySeq DEF Init
<1>2. TypeOK
  <2>1. maxlength \in Nat /\ MaxFrames \in Nat
    BY BoundsAssumption
  <2>2. ws \in Websocks
    BY <2>1 DEF Init, Websocks
  <2>3. pongs \in 0..MaxFrames
    BY <2>1 DEF Init
  <2>5. eof \in BOOLEAN /\ pc \in {"dispatch", "read", "drop", "closed", "astray", "crashed"}
    BY Zenon DEF Init
  <2>4. aws.state \in {"waiting", "text", "binary"} /\ aws.connected \in BOOLEAN
    BY DEF Init
  <2>6. faults \subseteq {"partial", "late"}
    BY DEF Init
  <2>. QED  BY <1>1, <2>2, <2>3, <2>4, <2>5, <2>6 DEF TypeOK
<1>3. DataInv
  BY <1>1, BoundsAssumption DEF Init, DataInv, NoMessage, Bytes
<1>4. Idle /\ ~Busy /\ ~eof
  BY DEF Init, Idle, Busy
<1>5. OnFrames /\ WireInv /\ HeaderInv
  BY <1>4 DEF Init, OnFrames, WireInv, HeaderInv
<1>6. MessageInv
  BY <1>4 DEF Init, MessageInv, Even, Gathered, IsPrefix
<1>7. Handled(0) /\ Pings(0) = {}
  BY DEF Init, Handled, InMessage, Before, Pings
<1>8. HandledInv
  BY <1>1, <1>4, <1>7, FS_EmptySet DEF Init, HandledInv
<1>. QED  BY <1>2, <1>3, <1>5, <1>6, <1>8 DEF ReadInv

(* What follows from the types.                                            *)
LEMMA StateFacts ==
    ASSUME ReadInv
    PROVE  /\ Len(frames) \in 0..MaxFrames /\ DOMAIN frames = 1..Len(frames)
           /\ frames # <<>> => Len(frames) >= 1 /\ Newest \in Frames
           /\ wire \in Seq(Cells) /\ DOMAIN wire = 1..Len(wire) /\ Len(wire) \in Nat
           /\ wire = <<>> <=> Len(wire) = 0
           /\ aws \in [state : {"waiting", "text", "binary"}, buffer : Seq(Bytes), connected : BOOLEAN]
           /\ MaxFrames \in Nat /\ maxlength \in Nat
           /\ {ws.id, ws.lenhead, ws.szhead, ws.length, ws.mask} \subseteq Nat
           /\ frames # <<>> => Consumed \in Int /\ Total(Newest) \in Nat
<1>1. /\ frames \in Seq(Frames) /\ Len(frames) <= MaxFrames /\ MaxFrames \in Nat
      /\ wire \in Seq(Cells)
  BY BoundsAssumption DEF ReadInv, TypeOK, DataInv
<1>2. /\ DOMAIN frames = 1..Len(frames) /\ Len(frames) \in Nat
      /\ DOMAIN wire = 1..Len(wire) /\ Len(wire) \in Nat
  BY <1>1, LenProperties
<1>3. /\ wire = <<>> <=> Len(wire) = 0
      /\ frames = <<>> <=> Len(frames) = 0
  BY <1>1, EmptySeq
<1>4. frames # <<>> => Newest \in Frames
  BY <1>1, <1>2, <1>3, ElementOfSeq DEF Newest
<1>5. aws \in [state : {"waiting", "text", "binary"}, buffer : Seq(Bytes), connected : BOOLEAN]
  BY DEF ReadInv, TypeOK, DataInv
<1>6. maxlength \in Nat
  BY BoundsAssumption
<1>7. {ws.id, ws.lenhead, ws.szhead, ws.length, ws.mask} \subseteq Nat
  <2>1. ws \in Websocks
    BY DEF ReadInv, TypeOK
  <2>2. ws.id \in Nat /\ ws.lenhead \in Nat /\ ws.szhead \in Nat /\ ws.length \in Nat /\ ws.mask \in Nat
    <3>1. ws.id \in 0..MaxFrames /\ ws.lenhead \in 0..14 /\ ws.szhead \in 0..14
      BY <2>1 DEF Websocks
    <3>2. ws.length \in 0..maxlength /\ ws.mask \in 0..3
      BY <2>1 DEF Websocks
    <3>3. 0..14 \subseteq Nat /\ 0..3 \subseteq Nat /\ \A m \in Nat : 0..m \subseteq Nat
      OBVIOUS
    <3>4. 0..MaxFrames \subseteq Nat /\ 0..maxlength \subseteq Nat
      BY <1>1, <1>6, <3>3
    <3>. QED  BY <3>1, <3>2, <3>3, <3>4, Zenon
  <2>. QED  BY <2>2, Zenon
<1>8. frames # <<>> => Total(Newest) \in Nat
  BY <1>4, FrameFacts
<1>9. frames # <<>> => Consumed \in Int
  BY <1>7, <1>8 DEF Consumed
<1>. QED  BY <1>1, <1>2, <1>3, <1>4, <1>5, <1>6, <1>7, <1>8, <1>9

(* The websocket is closed.                                                *)
LEMMA HangupInv ==
    ASSUME ReadInv, Hangup, faults' = {}, wire' = wire, frames' = frames, sent' = sent, open' = open,
           received' = received, pongs' = pongs, eof' = eof,
           ws' \in Websocks,
           eof \/ (frames # <<>> /\ Broken(Len(frames)))
    PROVE  ReadInv'
<1>1. pc' = "closed" /\ aws' = [state |-> "waiting", buffer |-> <<>>, connected |-> FALSE]
  BY DEF Hangup
<1>2. TypeOK'
  BY <1>1 DEF ReadInv, TypeOK
<1>3. DataInv'
  BY <1>1 DEF ReadInv, DataInv, Bytes
<1>4. ~Idle' /\ ~Busy'
  BY <1>1 DEF Idle, Busy
<1>5. OnFrames' /\ WireInv' /\ HeaderInv'
  BY <1>1, <1>4 DEF OnFrames, WireInv, HeaderInv
<1>6. MessageInv'
  BY <1>1, <1>4 DEF ReadInv, MessageInv, IsPrefix
<1>7. HandledInv'
  BY <1>1, <1>4, SameFrames DEF HandledInv
<1>. QED  BY <1>2, <1>3, <1>5, <1>6, <1>7 DEF ReadInv

(* What a step leaves when it changes neither the messages nor the frames. *)
LEMMA SameMessages ==
    ASSUME frames' = frames, sent' = sent, open' = open, received' = received, aws' = aws
    PROVE  /\ Ahead' <=> Ahead
           /\ Even' <=> Even
           /\ \A n : Handled(n)' <=> Handled(n)
<1>1. Newest' = Newest
  BY SameFrames
<1>2. Ahead' <=> Ahead
  BY <1>1 DEF Ahead, Sends, Gathered, NoMessage, Payload, Data, Starts
<1>3. Even' <=> Even
  BY DEF Even, Gathered, NoMessage
<1>4. \A n : Handled(n)' <=> Handled(n)
  BY SameFrames DEF Handled
<1>. QED  BY <1>2, <1>3, <1>4

LEMMA ReadEndInv ==
    ASSUME ReadInv, ReadEnd, faults' = {}
    PROVE  ReadInv'
<1>1. /\ Hangup /\ eof /\ wire' = wire /\ frames' = frames /\ sent' = sent /\ open' = open
      /\ received' = received /\ pongs' = pongs /\ eof' = eof /\ ws' = ws
  BY DEF ReadEnd, senderVars
<1>. QED  BY <1>1, HangupInv DEF ReadInv, TypeOK

LEMMA LoseInv ==
    ASSUME ReadInv, Lose, faults' = {}
    PROVE  ReadInv'
<1>1. /\ eof' = TRUE /\ frames' = frames /\ sent' = sent /\ open' = open /\ ws' = ws /\ aws' = aws
      /\ pc' = pc /\ received' = received /\ pongs' = pongs
  BY DEF Lose
<1>2. PICK n \in 0..Len(wire) : wire' = SubSeq(wire, 1, n)
  BY DEF Lose
<1>3. /\ wire' \in Seq(Cells) /\ Len(wire') = n /\ DOMAIN wire' = 1..n
      /\ \A i \in 1..n : wire'[i] = wire[i]
      /\ DOMAIN wire = 1..Len(wire) /\ Len(wire) \in Nat
  <2>1. wire \in Seq(Cells)
    BY StateFacts
  <2>. QED  BY <1>2, <2>1, PrefixFacts, StateFacts
<1>4. wire = <<>> => wire' = <<>>
  BY <1>3, EmptySeq
<1>5. Idle => Idle'
  BY <1>1, <1>4 DEF Idle
<1>6. Busy' => Busy
  BY <1>1, <1>5 DEF Busy
<1>7. Newest' = Newest /\ Consumed' = Consumed /\ Total(Newest)' = Total(Newest)
  BY <1>1, SameFrames DEF Consumed, Total, HeaderLen, Extended
<1>8. TypeOK' /\ DataInv' /\ OnFrames'
  BY <1>1, <1>3 DEF ReadInv, TypeOK, DataInv, OnFrames
<1>9. WireInv'
  <2>. SUFFICES ASSUME Busy' PROVE /\ frames # <<>>
                                   /\ \A i \in DOMAIN wire' : wire'[i] = [id |-> Len(frames), at |-> Consumed + i]
                                   /\ Len(wire') <= Total(Newest) - Consumed
    BY <1>1, <1>7 DEF WireInv
  <2>1. /\ frames # <<>>
        /\ \A i \in DOMAIN wire : wire[i] = [id |-> Len(frames), at |-> Consumed + i]
        /\ Len(wire) <= Total(Newest) - Consumed
    BY <1>6 DEF ReadInv, WireInv
  <2>2. Consumed \in Int /\ Total(Newest) \in Nat
    BY <2>1, StateFacts
  <2>. QED  BY <1>3, <2>1, <2>2
<1>10. HeaderInv'
  BY <1>1, <1>6, <1>7, SameFrames DEF ReadInv, HeaderInv, HeaderSize, HeaderLen, Extended, Data, Starts
<1>11. Rest' = Rest
  BY <1>1, <1>7 DEF Rest
<1>12. MessageInv'
  BY <1>1, <1>6, <1>7, <1>11, SameMessages DEF ReadInv, MessageInv, Sends, IsPrefix, NoMessage
<1>13. HandledInv'
  BY <1>1, <1>6, <1>7, SameFrames, SameMessages DEF ReadInv, HandledInv
<1>. QED  BY <1>8, <1>9, <1>10, <1>12, <1>13 DEF ReadInv

(* The wire after a read of n bytes.                                       *)
LEMMA SkipFacts ==
    ASSUME ReadInv, Busy, NEW n \in 0..Len(wire), Skip(n)
    PROVE  /\ wire' \in Seq(Cells) /\ Len(wire') = Len(wire) - n /\ n \in Nat
           /\ \A i \in DOMAIN wire' : wire'[i] = [id |-> Len(frames), at |-> Consumed + n + i]
           /\ Len(wire') <= Total(Newest) - (Consumed + n)
           /\ ~eof => Len(wire') = Total(Newest) - (Consumed + n)
<1>1. /\ frames # <<>>
      /\ \A i \in DOMAIN wire : wire[i] = [id |-> Len(frames), at |-> Consumed + i]
      /\ Len(wire) <= Total(Newest) - Consumed
      /\ ~eof => Len(wire) = Total(Newest) - Consumed
  BY DEF ReadInv, WireInv
<1>2. /\ Consumed \in Int /\ Total(Newest) \in Nat /\ wire \in Seq(Cells)
      /\ DOMAIN wire = 1..Len(wire) /\ Len(wire) \in Nat
  BY <1>1, StateFacts
<1>3. /\ wire' \in Seq(Cells) /\ Len(wire') = Len(wire) - n /\ DOMAIN wire' = 1..Len(wire) - n
      /\ \A i \in 1..Len(wire) - n : wire'[i] = wire[n + i]
  BY <1>2, SuffixFacts DEF Skip
<1>4. n \in Nat /\ n <= Len(wire)
  BY <1>2
<1>5. ASSUME NEW i \in DOMAIN wire'
      PROVE  wire'[i] = [id |-> Len(frames), at |-> Consumed + n + i]
  <2>1. i \in 1..Len(wire) - n /\ n + i \in 1..Len(wire) /\ Consumed + (n + i) = Consumed + n + i
    BY <1>2, <1>3, <1>4
  <2>. QED  BY <1>1, <1>2, <1>3, <2>1
<1>6. /\ Len(wire') <= Total(Newest) - (Consumed + n)
      /\ ~eof => Len(wire') = Total(Newest) - (Consumed + n)
  BY <1>1, <1>2, <1>3, <1>4
<1>. QED  BY <1>3, <1>4, <1>5, <1>6

LEMMA HeaderStartInv ==
    ASSUME ReadInv, HeaderStart, faults' = {}
    PROVE  ReadInv'
<1>1. /\ pc = "dispatch" /\ ws.state = "START" /\ ws.lenhead = ws.szhead
      /\ wire' = wire /\ eof' = eof /\ frames' = frames /\ sent' = sent /\ open' = open
  BY DEF HeaderStart, senderVars
<1>2. Busy /\ ~Idle
  BY <1>1 DEF Busy, Idle
<1>3. /\ frames # <<>> /\ ws.id = Len(frames) /\ ws.szhead = 2
  BY <1>1, <1>2 DEF ReadInv, WireInv, HeaderInv
<1>4. Current = Newest /\ Newest \in Frames
  BY <1>3, StateFacts DEF Current, Newest
<1>5. ws \in Websocks
  BY DEF ReadInv, TypeOK
<1>6. CASE /\ Control(Newest) /\ ~check_control_header(Newest)
           /\ websock_error
  <2>1. Bad(Newest)
    BY <1>4, <1>6, FrameFacts, BoundsAssumption DEF Bad, Control, check_control_header
  <2>2. Broken(Len(frames))
    BY <2>1 DEF Broken, Newest
  <2>. QED  BY <1>1, <1>3, <1>5, <1>6, <2>2, HangupInv DEF websock_error
<1>7. CASE /\ Control(Newest) => check_control_header(Newest)
           /\ ws' = [ws EXCEPT !.szhead = HeaderSize(Newest), !.state = "LENGTH"]
           /\ UNCHANGED <<aws, pc, received, pongs>>
  <2>1. /\ ws'.state = "LENGTH" /\ ws'.szhead = HeaderSize(Newest) /\ ws'.lenhead = ws.lenhead
        /\ ws'.id = ws.id /\ ws'.length = ws.length /\ ws'.mask = ws.mask
        /\ aws' = aws /\ pc' = pc /\ received' = received /\ pongs' = pongs
    BY <1>5, <1>7
  <2>2. HeaderSize(Newest) \in Nat /\ HeaderSize(Newest) >= 2 /\ HeaderSize(Newest) <= 14
    BY <1>4, <1>7, FrameFacts
  <2>3. Newest' = Newest /\ Consumed' = Consumed /\ Total(Newest)' = Total(Newest)
        /\ HeaderSize(Newest)' = HeaderSize(Newest)
    BY <1>1, <2>1, SameFrames DEF Consumed, Total, HeaderSize, HeaderLen, Extended
  <2>4. Busy' /\ ~Idle'
    BY <1>1, <2>1 DEF Busy, Idle
  <2>5. TypeOK'
    <3>1. ws' \in Websocks
      <4>1. HeaderSize(Newest) \in 0..14
        BY <2>2
      <4>. QED  BY <1>5, <1>7, <4>1 DEF Websocks
    <3>. QED  BY <1>1, <2>1, <3>1 DEF ReadInv, TypeOK
  <2>6. DataInv' /\ OnFrames'
    BY <1>1, <2>1 DEF ReadInv, DataInv, OnFrames, NoMessage
  <2>7. WireInv'
    BY <1>1, <1>2, <2>3 DEF ReadInv, WireInv
  <2>8. HeaderInv'
    BY <1>1, <1>3, <1>7, <2>1, <2>2, <2>3 DEF ReadInv, HeaderInv, Control, check_control_header
  <2>9. MessageInv'
    BY <1>1, <1>2, <2>1, <2>4, SameMessages DEF ReadInv, MessageInv, IsPrefix
  <2>10. HandledInv'
    BY <1>1, <1>2, <2>1, <2>4, SameFrames, SameMessages DEF ReadInv, HandledInv
  <2>. QED  BY <2>5, <2>6, <2>7, <2>8, <2>9, <2>10 DEF ReadInv
<1>. QED  BY <1>4, <1>6, <1>7 DEF HeaderStart, HeaderSize

LEMMA ReadHeaderInv ==
    ASSUME ReadInv, read_header, faults' = {}
    PROVE  ReadInv'
<1>1. /\ pc = "dispatch"
      /\ eof' = eof /\ frames' = frames /\ sent' = sent /\ open' = open
      /\ aws' = aws /\ received' = received /\ pongs' = pongs
  BY DEF read_header, senderVars
<1>2. ws \in Websocks
  BY DEF ReadInv, TypeOK
<1>. DEFINE w == IF ws.state = "INIT"
                 THEN [ws EXCEPT !.state = "START", !.lenhead = 0, !.szhead = 2] ELSE ws
<1>3. PICK n \in Readable(w.szhead - w.lenhead) :
        /\ Skip(n) /\ ws' = [Read(w, n) EXCEPT !.id = wire[1].id]
        /\ w.state \in {"START", "LENGTH"} /\ w.lenhead < w.szhead
        /\ IF wire[1].at = w.lenhead + 1 THEN UNCHANGED pc ELSE pc' = "astray"
  BY DEF read_header
<1>4. /\ w.lenhead \in Nat /\ w.szhead \in Nat /\ w.lenhead = Consumed
      /\ w.szhead <= 14
      /\ w \in Websocks
  <2>1. CASE ws.state = "INIT"
    <3>1. /\ w = [ws EXCEPT !.state = "START", !.lenhead = 0, !.szhead = 2]
          /\ w.lenhead = 0 /\ w.szhead = 2 /\ Consumed = 0
      BY <1>1, <1>2, <2>1 DEF Consumed
    <3>2. 0 \in 0..14 /\ 2 \in 0..14
      OBVIOUS
    <3>. HIDE DEF w
    <3>3. w \in Websocks
      BY <1>2, <3>1, <3>2 DEF Websocks
    <3>. QED  BY <3>1, <3>3
  <2>2. CASE ws.state # "INIT"
    BY <1>1, <1>2, <2>2 DEF Consumed, Websocks
  <2>. QED  BY <2>1, <2>2
<1>5. n \in 1..Len(wire) /\ n <= w.szhead - w.lenhead /\ Len(wire) \in Nat /\ n \in Nat /\ n >= 1
  BY <1>3, <1>4, StateFacts DEF Readable
<1>6. Busy /\ ~Idle
  BY <1>1, <1>5, StateFacts DEF Busy, Idle
<1>7. /\ frames # <<>>
      /\ wire[1] = [id |-> Len(frames), at |-> Consumed + 1]
  BY <1>5, <1>6, StateFacts DEF ReadInv, WireInv
<1>8. Len(frames) \in 0..MaxFrames /\ Newest \in Frames
  BY <1>7, StateFacts
<1>9. pc' = pc
  BY <1>3, <1>4, <1>7
<1>10. /\ ws'.state = w.state /\ ws'.id = Len(frames) /\ ws'.lenhead = Consumed + n /\ ws'.szhead = w.szhead
       /\ ws'.length = w.length /\ ws'.mask = w.mask
  BY <1>3, <1>4, <1>7 DEF Read
<1>11. Newest' = Newest /\ Consumed' = Consumed + n /\ Total(Newest)' = Total(Newest)
        /\ HeaderSize(Newest)' = HeaderSize(Newest)
  BY <1>1, <1>3, <1>9, <1>10, SameFrames DEF Consumed, Total, HeaderSize, HeaderLen, Extended
<1>12. /\ wire' \in Seq(Cells)
       /\ \A i \in DOMAIN wire' : wire'[i] = [id |-> Len(frames), at |-> Consumed + n + i]
       /\ Len(wire') <= Total(Newest) - (Consumed + n)
       /\ ~eof => Len(wire') = Total(Newest) - (Consumed + n)
  BY <1>3, <1>5, <1>6, SkipFacts
<1>13. Busy' /\ ~Idle'
  BY <1>1, <1>3, <1>9, <1>10 DEF Busy, Idle
<1>14. TypeOK'
  <2>1. Consumed + n \in 0..14
    <3>. HIDE DEF w
    <3>1. Consumed \in Nat /\ n \in Nat /\ Consumed + n <= w.szhead /\ w.szhead \in Nat /\ w.szhead <= 14
      BY <1>4, <1>5
    <3>. QED  BY <3>1
  <2>2. ws' \in Websocks
    <3>. HIDE DEF w
    <3>1. ws' = [w EXCEPT !.lenhead = Consumed + n, !.id = Len(frames)]
      BY <1>3, <1>4, <1>7 DEF Read
    <3>. QED  BY <1>4, <1>8, <2>1, <3>1 DEF Websocks
  <2>. QED  BY <1>1, <1>9, <2>2 DEF ReadInv, TypeOK
<1>15. DataInv' /\ OnFrames'
  BY <1>1, <1>9, <1>12 DEF ReadInv, DataInv, OnFrames, NoMessage
<1>16. WireInv'
  BY <1>1, <1>7, <1>11, <1>12 DEF WireInv
<1>17. HeaderInv'
  <2>1. CASE ws.state = "INIT"
    <3>1. w.state = "START" /\ w.szhead = 2 /\ Consumed = 0
      BY <1>1, <1>2, <2>1 DEF Consumed
    <3>2. ws'.state = "START" /\ ws'.szhead = 2 /\ ws'.lenhead \in 1..2 /\ ws'.id = Len(frames')
      BY <1>1, <1>4, <1>5, <1>10, <3>1
    <3>. QED  BY <1>1, <1>9, <3>2 DEF HeaderInv
  <2>2. CASE ws.state # "INIT"
    <3>1. w = ws /\ Consumed = ws.lenhead /\ ws.state \in {"START", "LENGTH"}
      BY <1>1, <1>3, <2>2 DEF Consumed
    <3>2. /\ ws'.state = ws.state /\ ws'.szhead = ws.szhead /\ ws'.id = Len(frames')
          /\ ws'.lenhead = ws.lenhead + n /\ ws'.lenhead \in Nat
          /\ ws'.lenhead <= ws.szhead /\ ws'.lenhead >= ws.lenhead
      BY <1>1, <1>4, <1>5, <1>10, <3>1
    <3>3. CASE ws.state = "START"
      <4>1. ws.szhead = 2 /\ ws.lenhead \in 1..2
        BY <1>1, <3>3 DEF ReadInv, HeaderInv
      <4>2. ws'.lenhead \in 1..2
        BY <3>2, <4>1
      <4>. QED  BY <1>1, <1>9, <3>2, <3>3, <4>1, <4>2 DEF HeaderInv
    <3>4. CASE ws.state = "LENGTH"
      <4>1. /\ ws.szhead = HeaderSize(Newest) /\ ws.lenhead \in 2..ws.szhead
            /\ Control(Newest) => check_control_header(Newest)
        BY <1>1, <3>4 DEF ReadInv, HeaderInv
      <4>2. ws'.lenhead \in 2..ws'.szhead
        BY <1>4, <3>1, <3>2, <4>1
      <4>. QED  BY <1>1, <1>9, <1>11, <3>2, <3>4, <4>1, <4>2 DEF HeaderInv, Control, check_control_header
    <3>. QED  BY <3>1, <3>3, <3>4
  <2>. QED  BY <2>1, <2>2
<1>18. MessageInv'
  BY <1>1, <1>6, <1>9, <1>13, SameMessages DEF ReadInv, MessageInv, IsPrefix
<1>19. HandledInv'
  BY <1>1, <1>6, <1>9, <1>13, SameFrames, SameMessages DEF ReadInv, HandledInv
<1>. QED  BY <1>14, <1>15, <1>16, <1>17, <1>18, <1>19 DEF ReadInv

LEMMA HeaderEndInv ==
    ASSUME ReadInv, HeaderEnd, faults' = {}
    PROVE  ReadInv'
<1>1. /\ pc = "dispatch" /\ ws.state = "LENGTH" /\ ws.lenhead = ws.szhead
      /\ wire' = wire /\ eof' = eof /\ frames' = frames /\ sent' = sent /\ open' = open
  BY DEF HeaderEnd, senderVars
<1>2. Busy /\ ~Idle
  BY <1>1 DEF Busy, Idle
<1>3. /\ frames # <<>> /\ ws.id = Len(frames) /\ ws.szhead = HeaderSize(Newest)
      /\ Control(Newest) => check_control_header(Newest)
  BY <1>1, <1>2 DEF ReadInv, WireInv, HeaderInv
<1>4. Current = Newest /\ Newest \in Frames /\ Newest = frames[Len(frames)]
  BY <1>3, StateFacts DEF Current, Newest
<1>5. ws \in Websocks /\ Len(frames) \in Nat /\ Len(frames) >= 1 /\ maxlength \in Nat
  BY <1>3, StateFacts DEF ReadInv, TypeOK
<1>6. /\ Ahead /\ Handled(Len(frames) - 1)
      /\ pongs = Cardinality(Pings(Len(frames) - 1))
  BY <1>1, <1>2 DEF ReadInv, MessageInv, HandledInv
<1>7. /\ \A i \in 1..Len(frames) - 1 : ~Broken(i)
      /\ InMessage(Len(frames)) <=> aws.state # "waiting"
  BY <1>5, <1>6 DEF Handled
<1>8. aws.state = "waiting" => aws.buffer = <<>>
  BY DEF ReadInv, MessageInv
<1>9. Newest' = Newest /\ Total(Newest)' = Total(Newest)
  BY <1>1, SameFrames DEF Total, HeaderLen, Extended
<1>10. CASE /\ TooLong(Newest) \/ Newest.rsv \/ Newest.op = "unknown"
            /\ websock_error
  <2>1. Bad(Newest)
    BY <1>10 DEF Bad, TooLong
  <2>2. Broken(Len(frames))
    BY <2>1 DEF Broken, Newest
  <2>. QED  BY <1>1, <1>3, <1>5, <1>10, <2>2, HangupInv DEF websock_error
<1>11. ASSUME ~TooLong(Newest), ~Newest.rsv, Newest.op # "unknown",
              ws' = [ws EXCEPT !.state = "DATA", !.mask = 0,
                               !.length = HeaderLen(Newest) + Newest.len - ws.szhead]
       PROVE  /\ ws' \in Websocks /\ ws'.state = "DATA" /\ ws'.id = Len(frames') /\ ws'.mask = 0
              /\ ws'.length = Total(Newest) - HeaderSize(Newest) /\ ws'.length <= Newest.len
              /\ Newest.op # "close" => ws'.length = Newest.len
  <2>1. PICK l : l = HeaderLen(Newest) + Newest.len - ws.szhead
    OBVIOUS
  <2>2. /\ l = Total(Newest) - HeaderSize(Newest) /\ l \in Nat /\ l <= Newest.len
        /\ Newest.op # "close" => l = Newest.len
    <3>1. /\ HeaderLen(Newest) \in Nat /\ Newest.len \in Nat /\ HeaderSize(Newest) \in Nat
          /\ HeaderSize(Newest) >= HeaderLen(Newest) /\ HeaderSize(Newest) <= Total(Newest)
          /\ Newest.op # "close" => HeaderSize(Newest) = HeaderLen(Newest)
          /\ Total(Newest) = HeaderLen(Newest) + Newest.len
      BY <1>3, <1>4, FrameFacts
    <3>. QED  BY <1>3, <2>1, <3>1
  <2>3. l \in 0..maxlength /\ 0 \in 0..3
    BY <1>4, <1>5, <1>11, <2>2, FrameFacts DEF TooLong
  <2>4. ws' = [ws EXCEPT !.state = "DATA", !.mask = 0, !.length = l]
    BY <1>11, <2>1
  <2>5. ws' \in Websocks /\ ws'.state = "DATA" /\ ws'.mask = 0 /\ ws'.length = l /\ ws'.id = ws.id
    BY <1>5, <2>3, <2>4 DEF Websocks
  <2>. QED  BY <1>1, <1>3, <2>2, <2>5
<1>12. CASE /\ ~TooLong(Newest) /\ ~Newest.rsv /\ Newest.op # "unknown"
            /\ ws' = [ws EXCEPT !.state = "DATA", !.mask = 0,
                                !.length = HeaderLen(Newest) + Newest.len - ws.szhead]
            /\ \/ Newest.op = "close"
               \/ Data(Newest) /\ Refused(Newest.op)
            /\ Hangup /\ UNCHANGED <<received, pongs>>
  <2>1. Broken(Len(frames))
    <3>1. CASE Newest.op = "close"
      BY <3>1, <1>4 DEF Broken, Bad
    <3>2. CASE Data(Newest) /\ Refused(Newest.op)
      BY <3>2, <1>4, <1>7 DEF Broken, Bad, Refused, Data, Starts
    <3>. QED  BY <1>12, <3>1, <3>2
  <2>. QED  BY <1>1, <1>3, <1>11, <1>12, <2>1, HangupInv
<1>13. CASE /\ ~TooLong(Newest) /\ ~Newest.rsv /\ Newest.op # "unknown"
            /\ ws' = [ws EXCEPT !.state = "DATA", !.mask = 0,
                                !.length = HeaderLen(Newest) + Newest.len - ws.szhead]
            /\ Newest.op \in {"ping", "pong"} /\ pc' = "drop" /\ UNCHANGED <<aws, received, pongs>>
  <2>1. /\ ws' \in Websocks /\ ws'.state = "DATA" /\ ws'.id = Len(frames') /\ ws'.mask = 0
        /\ ws'.length = Total(Newest) - HeaderSize(Newest) /\ ws'.length = Newest.len
    BY <1>11, <1>13
  <2>2. aws' = aws /\ received' = received /\ pongs' = pongs /\ pc' = "drop"
    BY <1>13
  <2>3. Busy' /\ ~Idle'
    BY <2>2 DEF Busy, Idle
  <2>4. TypeOK' /\ DataInv' /\ OnFrames'
    BY <1>1, <2>1, <2>2 DEF ReadInv, TypeOK, DataInv, OnFrames
  <2>5. Consumed' = Consumed
    BY <1>1, <1>3, <1>4, <1>9, <2>1, <2>2, FrameFacts DEF Consumed
  <2>6. WireInv'
    BY <1>1, <1>2, <1>9, <2>5 DEF ReadInv, WireInv
  <2>7. ~Data(Newest) /\ ~Broken(Len(frames))
    <3>1. ~Data(Newest) /\ Control(Newest) /\ check_control_header(Newest)
      BY <1>3, <1>13 DEF Data, Starts, Control
    <3>2. Newest.len \in Nat /\ Max7 \in Nat
      BY <1>4, FrameFacts, BoundsAssumption
    <3>3. ~Bad(Newest)
      BY <1>13, <3>1, <3>2 DEF Bad, TooLong, check_control_header
    <3>. QED  BY <1>4, <3>1, <3>3 DEF Broken
  <2>8. HeaderInv'
    <3>1. ws'.length <= Newest.len
      BY <1>4, <2>1, FrameFacts
    <3>. QED  BY <1>1, <1>9, <1>13, <2>1, <2>2, <2>7, <3>1, SameFrames DEF HeaderInv
  <2>9. Even
    BY <1>6, <2>7 DEF Ahead, Even
  <2>10. MessageInv'
    BY <1>1, <1>8, <2>2, <2>9, SameMessages DEF ReadInv, MessageInv, Idle, IsPrefix
  <2>11. Handled(Len(frames))
    <3>1. \A i \in 1..Len(frames) : ~Broken(i)
      BY <1>5, <1>7, <2>7
    <3>2. InMessage(Len(frames) + 1) <=> InMessage(Len(frames))
      BY <1>4, <1>5, <2>7, MessageFacts
    <3>. QED  BY <1>7, <3>1, <3>2 DEF Handled
  <2>12. HandledInv'
    BY <1>1, <1>6, <2>2, <2>11, SameFrames, SameMessages DEF HandledInv, Idle
  <2>. QED  BY <2>4, <2>6, <2>8, <2>10, <2>12 DEF ReadInv
<1>14. CASE /\ ~TooLong(Newest) /\ ~Newest.rsv /\ Newest.op # "unknown"
            /\ ws' = [ws EXCEPT !.state = "DATA", !.mask = 0,
                                !.length = HeaderLen(Newest) + Newest.len - ws.szhead]
            /\ Data(Newest) /\ ~Refused(Newest.op)
            /\ aws' = [aws EXCEPT !.state = IF Newest.op = "continue" THEN @ ELSE Newest.op]
            /\ pc' = "read" /\ UNCHANGED <<received, pongs>>
  <2>1. /\ ws' \in Websocks /\ ws'.state = "DATA" /\ ws'.id = Len(frames') /\ ws'.mask = 0
        /\ ws'.length = Total(Newest) - HeaderSize(Newest) /\ ws'.length = Newest.len
    BY <1>11, <1>14 DEF Data, Starts
  <2>2. received' = received /\ pongs' = pongs /\ pc' = "read"
    BY <1>14
  <2>3. Busy' /\ ~Idle'
    BY <2>2 DEF Busy, Idle
  <2>4. aws \in [state : {"waiting", "text", "binary"}, buffer : Seq(Bytes), connected : BOOLEAN]
    BY StateFacts
  <2>5. /\ aws'.state = (IF Starts(Newest) THEN Newest.op ELSE aws.state)
        /\ aws'.buffer = aws.buffer /\ aws'.state # "waiting" /\ aws'.state \in {"text", "binary"}
        /\ aws'.connected = aws.connected
        /\ aws' = [state |-> aws'.state, buffer |-> aws'.buffer, connected |-> aws'.connected]
        /\ Starts(Newest) <=> aws.state = "waiting"
    BY <1>14, <2>4 DEF Starts, Data, Refused
  <2>6. TypeOK' /\ DataInv' /\ OnFrames'
    BY <1>1, <2>1, <2>2, <2>5 DEF ReadInv, TypeOK, DataInv, OnFrames
  <2>7. Consumed' = Consumed
    BY <1>1, <1>3, <1>4, <1>9, <2>1, <2>2, FrameFacts DEF Consumed
  <2>8. WireInv'
    BY <1>1, <1>2, <1>9, <2>7 DEF ReadInv, WireInv
  <2>9. ~Broken(Len(frames))
    BY <1>4, <1>7, <1>14, <2>5, FrameFacts
       DEF Broken, Bad, Data, Starts, TooLong, Control, Refused
  <2>10. HeaderInv'
    <3>1. ws'.length <= Newest.len /\ (Newest.len - ws'.length) % 4 = 0
      BY <1>4, <2>1, FrameFacts
    <3>. QED  BY <1>1, <1>9, <1>14, <2>1, <2>2, <2>5, <2>9, <3>1, SameFrames DEF HeaderInv, Data, Starts
  <2>11. Sends(Newest.fin, [type |-> aws'.state, data |-> aws.buffer \o Payload(Newest, Len(frames))])
    BY <1>6, <1>14, <2>5 DEF Ahead
  <2>12. Rest' = Payload(Newest, Len(frames))
    <3>1. \A i \in 1..Newest.len : Newest.len - ws'.length + i = i
      BY <1>4, <2>1, FrameFacts
    <3>. QED  BY <1>1, <1>9, <2>1, <3>1 DEF Rest, Payload
  <2>13. MessageInv'
    BY <1>1, <1>9, <2>2, <2>5, <2>11, <2>12 DEF ReadInv, MessageInv, Idle, IsPrefix, Sends, NoMessage
  <2>14. /\ \A i \in 1..Len(frames) : ~Broken(i)
         /\ InMessage(Len(frames) + 1) <=> ~Newest.fin
    BY <1>4, <1>5, <1>7, <1>14, <2>9, MessageFacts
  <2>15. HandledInv'
    BY <1>1, <1>6, <1>9, <2>2, <2>14, SameFrames DEF HandledInv, Idle
  <2>. QED  BY <2>6, <2>8, <2>10, <2>13, <2>15 DEF ReadInv
<1>. QED
  <2>1. \/ /\ TooLong(Newest) \/ Newest.rsv \/ Newest.op = "unknown"
           /\ websock_error
        \/ /\ ~TooLong(Newest) /\ ~Newest.rsv /\ Newest.op # "unknown"
           /\ ws' = [ws EXCEPT !.state = "DATA", !.mask = 0,
                               !.length = HeaderLen(Newest) + Newest.len - ws.szhead]
           /\ \/ Newest.op \in {"text", "binary", "continue"} /\ OnData(Newest)
              \/ Newest.op = "close" /\ Hangup /\ UNCHANGED <<received, pongs>>
              \/ Newest.op \in {"ping", "pong"} /\ pc' = "drop" /\ UNCHANGED <<aws, received, pongs>>
    BY <1>4 DEF HeaderEnd
  <2>2. OnData(Newest) =>
           \/ Refused(Newest.op) /\ Hangup /\ UNCHANGED <<received, pongs>>
           \/ /\ ~Refused(Newest.op)
              /\ aws' = [aws EXCEPT !.state = IF Newest.op = "continue" THEN @ ELSE Newest.op]
              /\ pc' = "read" /\ UNCHANGED <<received, pongs>>
    BY DEF OnData, aws_drop_error
  <2>3. Newest.op \in {"text", "binary", "continue"} => Data(Newest)
    BY DEF Data, Starts
  <2>. QED  BY <1>10, <1>12, <1>13, <1>14, <2>1, <2>2, <2>3

(* A frame whose payload was read is handled.                              *)
LEMMA AwsContinueInv ==
    ASSUME ReadInv, aws_continue, faults' = {}
    PROVE  ReadInv'
<1>1. /\ pc = "read" /\ ws.length = 0 /\ ws' = [ws EXCEPT !.state = "INIT"]
      /\ wire' = wire /\ eof' = eof /\ frames' = frames /\ sent' = sent /\ open' = open
      /\ pongs' = pongs
  BY DEF aws_continue, senderVars
<1>2. Busy
  BY <1>1 DEF Busy, Idle
<1>3. /\ frames # <<>> /\ ws.id = Len(frames) /\ aws.state # "waiting" /\ Data(Newest)
  BY <1>1, <1>2 DEF ReadInv, WireInv, HeaderInv
<1>4. Current = Newest /\ Newest \in Frames /\ Newest = frames[Len(frames)]
  BY <1>3, StateFacts DEF Current, Newest
<1>5. /\ ws' \in Websocks /\ ws'.state = "INIT"
  BY <1>1 DEF ReadInv, TypeOK, Websocks
<1>6. Len(wire) = 0 /\ wire = <<>>
  <2>1. Consumed = Total(Newest)
    BY <1>1, <1>3, StateFacts DEF Consumed
  <2>2. Len(wire) <= Total(Newest) - Consumed
    BY <1>2 DEF ReadInv, WireInv
  <2>. QED  BY <1>3, <2>1, <2>2, StateFacts
<1>7. pc' = "dispatch" => Idle' /\ ~Busy'
  BY <1>1, <1>5, <1>6 DEF Idle, Busy
<1>8. pc' = "dispatch" => OnFrames' /\ WireInv' /\ HeaderInv'
  BY <1>1, <1>5, <1>7 DEF OnFrames, WireInv, HeaderInv
<1>9. Sends(Newest.fin, [type |-> aws.state, data |-> aws.buffer])
  <2>1. Rest = <<>>
    BY <1>1 DEF Rest
  <2>2. aws.buffer \o <<>> = aws.buffer
    BY StateFacts, ConcatEmptySeq
  <2>. QED  BY <1>1, <2>1, <2>2 DEF ReadInv, MessageInv
<1>10. /\ \A i \in 1..Len(frames) : ~Broken(i)
       /\ InMessage(Len(frames) + 1) <=> ~Newest.fin
       /\ pongs = Cardinality(Pings(Len(frames) - 1))
  BY <1>1, <1>2 DEF ReadInv, HandledInv
<1>11. pongs = Cardinality(Pings(Len(frames)))
  <2>1. Len(frames) - 1 \in Nat /\ (Len(frames) - 1) + 1 = Len(frames)
    BY <1>3, StateFacts
  <2>2. frames[Len(frames)].op # "ping"
    BY <1>3, <1>4 DEF Data, Starts
  <2>. QED  BY <1>10, <2>1, <2>2, PingFacts
<1>12. CASE /\ Newest.fin
            /\ received' = Append(received, [type |-> aws.state, data |-> aws.buffer])
            /\ aws' = Taken(aws) /\ pc' = "dispatch"
  <2>1. received' = sent /\ open = NoMessage
    BY <1>9, <1>12 DEF Sends
  <2>2. aws \in [state : {"waiting", "text", "binary"}, buffer : Seq(Bytes), connected : BOOLEAN]
    BY StateFacts
  <2>3. aws'.state = "waiting" /\ aws'.buffer = <<>> /\ aws'.connected \in BOOLEAN
        /\ aws' = [state |-> aws'.state, buffer |-> aws'.buffer, connected |-> aws'.connected]
    BY <1>12, <2>2 DEF Taken
  <2>4. TypeOK'
    BY <1>1, <1>5, <1>12, <2>3 DEF ReadInv, TypeOK
  <2>5. DataInv'
    BY <1>1, <2>1, <2>3 DEF ReadInv, DataInv, NoMessage
  <2>6. Even'
    BY <1>1, <2>1, <2>3 DEF Even, Gathered, NoMessage
  <2>7. IsPrefix(received', sent')
    <3>1. Len(sent) \in Nat
      BY LenProperties DEF ReadInv, DataInv
    <3>. QED  BY <1>1, <2>1, <3>1 DEF IsPrefix
  <2>8. MessageInv'
    BY <1>1, <1>7, <1>12, <2>3, <2>6, <2>7 DEF MessageInv, IsPrefix
  <2>9. Handled(Len(frames))'
    BY <1>1, <1>10, <1>12, <2>3, SameFrames DEF Handled
  <2>10. HandledInv'
    BY <1>1, <1>7, <1>11, <1>12, <2>9, SameFrames DEF HandledInv
  <2>. QED  BY <1>8, <1>12, <2>4, <2>5, <2>8, <2>10 DEF ReadInv
<1>13. CASE ~Newest.fin /\ pc' = "dispatch" /\ UNCHANGED <<received, aws>>
  <2>1. received' = received /\ aws' = aws
    BY <1>13
  <2>2. TypeOK' /\ DataInv'
    BY <1>1, <1>5, <1>13, <2>1 DEF ReadInv, TypeOK, DataInv, NoMessage
  <2>3. Even
    BY <1>3, <1>9, <1>13 DEF Sends, Even, Gathered
  <2>4. MessageInv'
    BY <1>1, <1>7, <1>13, <2>1, <2>3, SameMessages DEF ReadInv, MessageInv, IsPrefix
  <2>5. Handled(Len(frames))
    BY <1>3, <1>10, <1>13 DEF Handled
  <2>6. HandledInv'
    BY <1>1, <1>7, <1>11, <1>13, <2>1, <2>5, SameFrames, SameMessages DEF HandledInv
  <2>. QED  BY <1>8, <1>13, <2>2, <2>4, <2>6 DEF ReadInv
<1>14. CASE pc' = "crashed" /\ UNCHANGED <<received, aws>>
  <2>1. received' = received /\ aws' = aws /\ ~Idle' /\ ~Busy'
    BY <1>14 DEF Idle, Busy
  <2>2. TypeOK' /\ DataInv'
    BY <1>1, <1>5, <1>14, <2>1 DEF ReadInv, TypeOK, DataInv, NoMessage
  <2>3. OnFrames' /\ WireInv' /\ HeaderInv'
    BY <1>14, <2>1 DEF OnFrames, WireInv, HeaderInv
  <2>4. MessageInv'
    BY <1>1, <1>14, <2>1 DEF ReadInv, MessageInv, IsPrefix
  <2>5. HandledInv'
    BY <1>14, <2>1 DEF HandledInv
  <2>. QED  BY <2>2, <2>3, <2>4, <2>5 DEF ReadInv
<1>. QED  BY <1>4, <1>12, <1>13, <1>14 DEF aws_continue

LEMMA AwsReadInv ==
    ASSUME ReadInv, aws_read, faults' = {}
    PROVE  ReadInv'
<1>1. /\ pc = "read" /\ ws.length > 0
      /\ eof' = eof /\ frames' = frames /\ sent' = sent /\ open' = open
      /\ received' = received /\ pongs' = pongs
      /\ IF wire[1].id = ws.id THEN UNCHANGED pc ELSE pc' = "astray"
  BY DEF aws_read, senderVars
<1>2. PICK n \in Readable(ws.length) :
        /\ Skip(n)
        /\ ws' = [ws EXCEPT !.length = ws.length - n, !.mask = Rotated(ws.mask, Len(aws.buffer), n)]
        /\ aws' = [aws EXCEPT !.buffer = aws.buffer
                                 \o unmask(SubSeq(wire, 1, n), ws.mask, Len(aws.buffer))]
  BY DEF aws_read
<1>3. Busy
  BY <1>1 DEF Busy, Idle
<1>4. /\ frames # <<>> /\ ws.id = Len(frames) /\ ws.length <= Newest.len
      /\ Data(Newest) /\ aws.state # "waiting" /\ ws.state = "DATA"
      /\ ws.mask = (Newest.len - ws.length) % 4
      /\ ~Broken(Len(frames))
  BY <1>1, <1>3 DEF ReadInv, WireInv, HeaderInv
<1>5. /\ Newest \in Frames /\ Newest = frames[Len(frames)] /\ wire \in Seq(Cells)
      /\ DOMAIN wire = 1..Len(wire) /\ Len(wire) \in Nat /\ ws.length \in Nat
      /\ aws \in [state : {"waiting", "text", "binary"}, buffer : Seq(Bytes), connected : BOOLEAN]
      /\ Len(frames) \in Nat
  <2>1. {ws.id, ws.lenhead, ws.szhead, ws.length, ws.mask} \subseteq Nat
    BY StateFacts
  <2>2. ws.length \in Nat
    BY <2>1, Zenon
  <2>. QED  BY <1>4, <2>2, StateFacts DEF Newest
<1>6. n \in Nat /\ n >= 1 /\ n <= Len(wire) /\ n <= ws.length /\ n \in 0..Len(wire)
  BY <1>2, <1>5 DEF Readable
<1>7. Newest.len \in Nat /\ HeaderLen(Newest) \in Nat /\ Total(Newest) = HeaderLen(Newest) + Newest.len
  <2>1. HeaderLen(Newest) \in 2..14
    BY <1>5, FrameFacts
  <2>2. HeaderLen(Newest) \in Nat
    BY <2>1
  <2>. QED  BY <1>5, <2>2, FrameFacts
<1>8. PICK c \in Nat : c = Newest.len - ws.length /\ Consumed = HeaderLen(Newest) + c
  <2>1. Newest.len - ws.length \in Nat
    BY <1>4, <1>5, <1>7
  <2>2. Consumed = HeaderLen(Newest) + (Newest.len - ws.length)
    BY <1>1, <1>5, <1>7, <2>1 DEF Consumed
  <2>. QED  BY <2>1, <2>2
<1>9. \A i \in 1..Len(wire) : wire[i] = [id |-> Len(frames), at |-> Consumed + i]
  BY <1>3, <1>5 DEF ReadInv, WireInv
<1>10. pc' = pc
  BY <1>1, <1>4, <1>5, <1>6, <1>9
<1>. DEFINE off == Len(aws.buffer)
<1>. DEFINE got == unmask(SubSeq(wire, 1, n), ws.mask, off)
<1>11. off \in Nat
  BY <1>5, LenProperties
<1>12. got = [j \in 1..n |-> <<Len(frames), c + j>>]
  <2>. DEFINE cells == SubSeq(wire, 1, n)
  <2>1. Len(cells) = n /\ \A j \in 1..n : cells[j] = wire[j]
    BY <1>5, <1>6, PrefixFacts
  <2>2. ws.mask = c % 4
    BY <1>4, <1>8
  <2>. HIDE DEF cells, off
  <2>3. ASSUME NEW j \in 1..n
        PROVE  /\ cells[j].id = Len(frames) /\ cells[j].at - HeaderLen(Newest) = c + j
               /\ KeyOf(ws.mask, off, Len(cells), j) = (c + j - 1) % 4
    <3>1. cells[j] = [id |-> Len(frames), at |-> Consumed + j]
      BY <1>5, <1>6, <1>9, <2>1
    <3>2. \A x : x = Consumed + j => x - HeaderLen(Newest) = c + j
      BY <1>6, <1>7, <1>8
    <3>3. KeyOf(c % 4, off, n, j) = (c + j - 1) % 4
      BY <1>6, <1>11, MaskFacts
    <3>4. KeyOf(ws.mask, off, Len(cells), j) = (c + j - 1) % 4
      BY <2>1, <2>2, <3>3, Zenon
    <3>5. cells[j].id = Len(frames) /\ cells[j].at = Consumed + j
      BY <3>1
    <3>6. cells[j].at - HeaderLen(Newest) = c + j
      BY <3>2, <3>5
    <3>. QED  BY <3>4, <3>5, <3>6, Zenon
  <2>4. ASSUME NEW j \in 1..n
        PROVE  (LET f == frames[cells[j].id]
                    i == cells[j].at - HeaderLen(f)
                IN  IF f.mask /\ KeyOf(ws.mask, off, Len(cells), j) # (i - 1) % 4
                    THEN <<0, 0>> ELSE <<cells[j].id, i>>) = <<Len(frames), c + j>>
    <3>1. frames[cells[j].id] = Newest
      BY <1>5, <2>3
    <3>2. cells[j].at - HeaderLen(frames[cells[j].id]) = c + j
      BY <2>3, <3>1, Zenon
    <3>3. KeyOf(ws.mask, off, Len(cells), j)
            = ((cells[j].at - HeaderLen(frames[cells[j].id])) - 1) % 4
      BY <2>3, <3>2
    <3>. QED  BY <2>3, <3>2, <3>3, Zenon
  <2>5. unmask(cells, ws.mask, off) = [j \in 1..n |-> <<Len(frames), c + j>>]
    BY <2>1, <2>4, Zenon DEF unmask
  <2>. QED  BY <2>5 DEF cells, off
<1>13. /\ got \in Seq(Bytes) /\ Len(got) = n
  <2>1. \A j \in 1..n : <<Len(frames), c + j>> \in Bytes
    BY <1>5 DEF Bytes
  <2>2. [j \in 1..n |-> <<Len(frames), c + j>>] \in Seq(Bytes)
    BY <1>6, <2>1, IsASeq
  <2>3. Len([j \in 1..n |-> <<Len(frames), c + j>>]) = n
    BY <1>6, <2>2, LenProperties
  <2>. HIDE DEF got
  <2>. QED  BY <1>12, <2>2, <2>3
<1>14. ws' = [ws EXCEPT !.length = ws.length - n, !.mask = (c + n) % 4]
  <2>1. Rotated(ws.mask, off, n) = (c + n) % 4
    <3>1. ws.mask = c % 4
      BY <1>4, <1>8
    <3>. HIDE DEF off
    <3>2. Rotated(c % 4, off, n) = (c + n) % 4
      BY <1>6, <1>11, MaskFacts
    <3>. QED  BY <3>1, <3>2, Zenon
  <2>. QED  BY <1>2, <2>1
<1>15. /\ ws'.length = ws.length - n /\ ws'.mask = (c + n) % 4 /\ ws'.id = ws.id
       /\ ws'.state = ws.state /\ ws' \in Websocks /\ ws'.length \in Nat
  <2>1. ws \in Websocks
    BY DEF ReadInv, TypeOK
  <2>2. ws.length - n \in 0..maxlength
    <3>1. ws.length \in 0..maxlength /\ maxlength \in Nat
      BY <2>1, StateFacts DEF Websocks
    <3>. QED  BY <1>5, <1>6, <3>1
  <2>3. (c + n) % 4 \in 0..3
    BY <1>6
  <2>4. ws.length - n \in Nat
    BY <1>5, <1>6
  <2>. QED  BY <1>14, <2>1, <2>2, <2>3, <2>4 DEF Websocks
<1>16. /\ aws'.state = aws.state /\ aws'.buffer = aws.buffer \o got /\ aws'.connected = aws.connected
       /\ aws' = [state |-> aws'.state, buffer |-> aws'.buffer, connected |-> aws'.connected]
  <2>. HIDE DEF got
  <2>1. aws' = [aws EXCEPT !.buffer = aws.buffer \o got]
    BY <1>2 DEF got
  <2>. QED  BY <1>5, <2>1
<1>. HIDE DEF got, off
<1>17. aws'.buffer \in Seq(Bytes)
  BY <1>5, <1>13, <1>16, ConcatProperties
<1>18. Newest' = Newest /\ Total(Newest)' = Total(Newest) /\ Busy' /\ ~Idle'
  BY <1>1, <1>10, SameFrames DEF Total, HeaderLen, Extended, Busy, Idle
<1>19. Consumed' = Consumed + n
  BY <1>1, <1>5, <1>6, <1>7, <1>10, <1>15, <1>18 DEF Consumed
<1>20. /\ wire' \in Seq(Cells)
       /\ \A i \in DOMAIN wire' : wire'[i] = [id |-> Len(frames), at |-> Consumed + n + i]
       /\ Len(wire') <= Total(Newest) - (Consumed + n)
       /\ ~eof => Len(wire') = Total(Newest) - (Consumed + n)
  BY <1>2, <1>3, <1>6, SkipFacts
<1>21. TypeOK' /\ DataInv' /\ OnFrames'
  BY <1>1, <1>10, <1>15, <1>16, <1>17, <1>20 DEF ReadInv, TypeOK, DataInv, OnFrames, NoMessage
<1>22. WireInv'
  BY <1>1, <1>4, <1>18, <1>19, <1>20 DEF WireInv
<1>23. HeaderInv'
  <2>1. Newest.len - ws'.length = c + n /\ ws'.length <= Newest.len
    <3>1. \A a, b, d \in Nat : b <= a /\ d <= b => a - (b - d) = (a - b) + d /\ b - d <= a
      OBVIOUS
    <3>2. Newest.len - (ws.length - n) = (Newest.len - ws.length) + n /\ ws.length - n <= Newest.len
      BY <1>4, <1>5, <1>6, <1>7, <3>1
    <3>. QED  BY <1>8, <1>15, <3>2
  <2>2. ws'.mask = (Newest.len - ws'.length) % 4
    BY <1>15, <2>1, Zenon
  <2>. QED  BY <1>1, <1>4, <1>10, <1>15, <1>16, <1>18, <2>1, <2>2, SameFrames DEF HeaderInv, Data, Starts
<1>24. got \o Rest' = Rest /\ Rest' \in Seq(Bytes)
  <2>. DEFINE Left(l) == [i \in 1..l |-> <<Len(frames), Newest.len - l + i>>]
  <2>1. Rest = Left(ws.length) /\ Rest' = Left(ws.length - n)
    BY <1>1, <1>4, <1>15, <1>18 DEF Rest
  <2>2. ASSUME NEW l \in Nat, l <= Newest.len
        PROVE  /\ Left(l) \in Seq(Bytes) /\ Len(Left(l)) = l
               /\ \A i \in 1..l : Left(l)[i] = <<Len(frames), Newest.len - l + i>>
    <3>1. \A i \in 1..l : <<Len(frames), Newest.len - l + i>> \in Bytes
      <4>1. \A a, b \in Nat : b <= a => \A i \in 1..b : a - b + i \in Nat
        OBVIOUS
      <4>2. Newest.len \in Nat /\ Len(frames) \in Nat
        BY <1>5, <1>7
      <4>3. \A i \in 1..l : Newest.len - l + i \in Nat
        BY <2>2, <4>1, <4>2
      <4>. QED  BY <4>2, <4>3, Zenon DEF Bytes
    <3>2. Left(l) \in Seq(Bytes)
      BY <3>1, IsASeq
    <3>3. DOMAIN Left(l) = 1..l
      OBVIOUS
    <3>. HIDE DEF Left
    <3>4. Len(Left(l)) = l
      BY <3>2, <3>3, LenProperties
    <3>. QED  BY <3>2, <3>4 DEF Left
  <2>. HIDE DEF Left
  <2>3. /\ ws.length - n \in Nat /\ ws.length - n <= Newest.len
        /\ Newest.len - (ws.length - n) = c + n
    <3>1. \A a, b, d \in Nat : b <= a /\ d <= b => a - (b - d) = (a - b) + d /\ b - d <= a
      OBVIOUS
    <3>2. /\ Newest.len - (ws.length - n) = (Newest.len - ws.length) + n
          /\ ws.length - n <= Newest.len
      BY <1>4, <1>5, <1>6, <1>7, <3>1
    <3>3. ws.length - n \in Nat
      BY <1>5, <1>6
    <3>. QED  BY <1>8, <3>2, <3>3
  <2>4. PICK a, b : a = Left(ws.length) /\ b = Left(ws.length - n)
    OBVIOUS
  <2>5. /\ a \in Seq(Bytes) /\ Len(a) = ws.length /\ \A i \in 1..ws.length : a[i] = <<Len(frames), c + i>>
        /\ b \in Seq(Bytes) /\ Len(b) = ws.length - n
        /\ \A i \in 1..ws.length - n : b[i] = <<Len(frames), c + n + i>>
    <3>1. /\ Left(ws.length) \in Seq(Bytes) /\ Len(Left(ws.length)) = ws.length
          /\ \A i \in 1..ws.length : Left(ws.length)[i] = <<Len(frames), Newest.len - ws.length + i>>
      BY <1>4, <1>5, <2>2
    <3>2. /\ Left(ws.length - n) \in Seq(Bytes) /\ Len(Left(ws.length - n)) = ws.length - n
          /\ \A i \in 1..ws.length - n :
                Left(ws.length - n)[i] = <<Len(frames), Newest.len - (ws.length - n) + i>>
      BY <2>2, <2>3
    <3>3. Newest.len - ws.length = c
      BY <1>8
    <3>. QED  BY <2>3, <2>4, <3>1, <3>2, <3>3, Zenon
  <2>6. \A j \in 1..n : got[j] = <<Len(frames), c + j>>
    BY <1>12
  <2>7. /\ got \o b \in Seq(Bytes) /\ Len(got \o b) = Len(got) + Len(b)
        /\ \A i \in 1..Len(got) + Len(b) :
             (got \o b)[i] = IF i <= Len(got) THEN got[i] ELSE b[i - Len(got)]
    BY <1>13, <2>5, ConcatProperties
  <2>8. Len(got \o b) = Len(a)
    BY <1>5, <1>6, <1>13, <2>5, <2>7
  <2>9. ASSUME NEW i \in 1..Len(a) PROVE (got \o b)[i] = a[i]
    <3>1. i \in 1..Len(got) + Len(b) /\ i \in 1..ws.length /\ i \in Nat
      <4>1. Len(got) + Len(b) = Len(a) /\ Len(a) = ws.length
        BY <2>5, <2>7, <2>8
      <4>. QED  BY <4>1
    <3>2. CASE i <= n
      <4>1. i \in 1..n
        BY <1>6, <3>1, <3>2
      <4>2. (got \o b)[i] = got[i]
        BY <1>13, <2>7, <3>1, <3>2
      <4>. QED  BY <2>5, <2>6, <3>1, <4>1, <4>2
    <3>3. CASE ~(i <= n)
      <4>1. i - n \in 1..ws.length - n /\ c + n + (i - n) = c + i
        BY <1>5, <1>6, <3>1, <3>3
      <4>2. (got \o b)[i] = b[i - n]
        BY <1>13, <2>7, <3>1, <3>3
      <4>. QED  BY <2>5, <3>1, <4>1, <4>2
    <3>. QED  BY <3>2, <3>3
  <2>10. got \o b = a
    BY <2>5, <2>7, <2>8, <2>9, SeqEqual
  <2>. QED  BY <2>1, <2>4, <2>5, <2>10
<1>25. aws'.buffer \o Rest' = aws.buffer \o Rest
  <2>1. aws.buffer \in Seq(Bytes) /\ got \in Seq(Bytes)
    BY <1>5, <1>13
  <2>2. (aws.buffer \o got) \o Rest' = aws.buffer \o (got \o Rest')
    <3>1. \A x, y, z \in Seq(Bytes) : (x \o y) \o z = x \o (y \o z)
      BY ConcatAssociative
    <3>. QED  BY <1>24, <2>1, <3>1, Zenon
  <2>. QED  BY <1>16, <1>24, <2>2, Zenon
<1>26. MessageInv'
  BY <1>1, <1>4, <1>10, <1>16, <1>18, <1>25 DEF ReadInv, MessageInv, Sends, IsPrefix, NoMessage
<1>27. HandledInv'
  BY <1>1, <1>3, <1>10, <1>18, SameFrames DEF ReadInv, HandledInv
<1>. QED  BY <1>21, <1>22, <1>23, <1>26, <1>27 DEF ReadInv

(* A ping or a pong that comes whole is dropped whole.                     *)
LEMMA DropInv ==
    ASSUME ReadInv, websock_drop, faults' = {}
    PROVE  ReadInv'
<1>1. /\ pc = "drop" /\ Dropped /\ aws' = aws /\ received' = received
      /\ eof' = eof /\ frames' = frames /\ sent' = sent /\ open' = open
  BY DEF websock_drop, senderVars
<1>2. Busy
  BY <1>1 DEF Busy, Idle
<1>3. /\ frames # <<>> /\ ws.id = Len(frames) /\ Newest.op \in {"ping", "pong"} /\ ws.state = "DATA"
  BY <1>1, <1>2 DEF ReadInv, WireInv, HeaderInv
<1>4. /\ Current = Newest /\ Newest \in Frames /\ Newest = frames[Len(frames)]
      /\ Len(frames) \in Nat /\ Len(frames) >= 1 /\ Len(frames) <= MaxFrames /\ MaxFrames \in Nat
      /\ wire \in Seq(Cells) /\ Len(wire) \in Nat /\ Total(Newest) \in Nat
      /\ wire = <<>> <=> Len(wire) = 0
  BY <1>3, StateFacts DEF Current, Newest
<1>5. ws.length \in Nat /\ Len(wire) <= ws.length
  <2>1. {ws.id, ws.lenhead, ws.szhead, ws.length, ws.mask} \subseteq Nat
    BY StateFacts
  <2>2. ws.length \in Nat
    BY <2>1, Zenon
  <2>3. Len(wire) <= Total(Newest) - Consumed /\ Consumed = Total(Newest) - ws.length
    BY <1>1, <1>2 DEF ReadInv, WireInv, Consumed
  <2>. QED  BY <1>4, <2>2, <2>3
<1>6. wire' = <<>>
  <2>1. PICK n \in 0..Min2(Len(wire), ws.length) :
          Skip(n) /\ ~(n < ws.length /\ n < Len(wire))
    BY DEF websock_drop
  <2>2. n = Len(wire) /\ Len(wire) \in 0..Len(wire)
    BY <1>4, <1>5, <2>1 DEF Min2
  <2>3. wire' \in Seq(Cells) /\ Len(wire') = Len(wire) - Len(wire)
    BY <1>2, <2>1, <2>2, SkipFacts
  <2>4. Len(wire') = 0
    BY <1>4, <2>3
  <2>. QED  BY <2>3, <2>4, EmptySeq
<1>7. pc' = "dispatch" /\ ws'.state = "INIT" /\ ws' \in Websocks
      /\ pongs' = IF Newest.op = "ping" THEN pongs + 1 ELSE pongs
  BY <1>1, <1>4 DEF Dropped, ReadInv, TypeOK, Websocks
<1>8. Idle' /\ ~Busy'
  BY <1>6, <1>7 DEF Idle, Busy
<1>9. Even /\ Handled(Len(frames)) /\ pongs = Cardinality(Pings(Len(frames) - 1))
  BY <1>1, <1>2 DEF ReadInv, MessageInv, HandledInv
<1>10. pongs' = Cardinality(Pings(Len(frames))) /\ pongs' \in 0..MaxFrames
  <2>1. PICK m \in Nat : m + 1 = Len(frames) /\ Len(frames) - 1 = m
    BY <1>4
  <2>2. Cardinality(Pings(Len(frames))) = IF Newest.op = "ping" THEN pongs + 1 ELSE pongs
    BY <1>4, <1>9, <2>1, PingFacts
  <2>3. Cardinality(Pings(Len(frames))) \in 0..Len(frames)
    BY <1>4, PingFacts
  <2>4. Cardinality(Pings(Len(frames))) \in 0..MaxFrames
    BY <1>4, <2>3
  <2>. QED  BY <1>7, <2>2, <2>4
<1>11. TypeOK' /\ DataInv'
  <2>1. wire' \in Seq(Cells)
    BY <1>6, EmptySeq
  <2>. QED  BY <1>1, <1>7, <1>10, <2>1 DEF ReadInv, TypeOK, DataInv, NoMessage
<1>12. OnFrames' /\ WireInv' /\ HeaderInv'
  BY <1>7, <1>8 DEF OnFrames, WireInv, HeaderInv
<1>13. MessageInv'
  BY <1>1, <1>7, <1>8, <1>9, SameMessages DEF ReadInv, MessageInv, IsPrefix
<1>14. HandledInv'
  BY <1>1, <1>7, <1>8, <1>9, <1>10, SameFrames, SameMessages DEF HandledInv
<1>. QED  BY <1>11, <1>12, <1>13, <1>14 DEF ReadInv

(* A receiver that waits for bytes, of a connection that is not lost, has  *)
(* handled all the frames.                                                 *)
LEMMA QuiescentIsIdle ==
    ASSUME ReadInv, Quiescent, ~eof
    PROVE  Idle
<1>. SUFFICES ASSUME Busy PROVE FALSE
  BY DEF Quiescent, Busy
<1>1. /\ frames # <<>> /\ Len(wire) = Total(Newest) - Consumed /\ wire = <<>>
  BY DEF ReadInv, WireInv, Quiescent
<1>2. /\ Newest \in Frames /\ Len(wire) = 0 /\ Total(Newest) \in Nat /\ Consumed \in Int
  BY <1>1, StateFacts
<1>3. Total(Newest) = Consumed
  BY <1>1, <1>2
<1>4. ws.lenhead \in Nat /\ ws.length \in Nat /\ ws.szhead \in Nat
  <2>1. {ws.id, ws.lenhead, ws.szhead, ws.length, ws.mask} \subseteq Nat
    BY StateFacts
  <2>. QED  BY <2>1, Zenon
<1>5. CASE pc = "read" /\ ws.length > 0
  BY <1>2, <1>3, <1>4, <1>5 DEF Consumed
<1>6. CASE pc = "dispatch" /\ (ws.state = "INIT" \/ ws.lenhead < ws.szhead)
  <2>1. ws.state # "INIT" /\ ws.lenhead < ws.szhead /\ Consumed = ws.lenhead
    BY <1>1, <1>6 DEF Busy, Idle, Consumed
  <2>2. ws.state \in {"START", "LENGTH"}
    BY <1>6, <2>1 DEF ReadInv, HeaderInv, TypeOK, Websocks
  <2>3. ws.szhead <= Total(Newest)
    <3>1. CASE ws.state = "START"
      <4>1. ws.szhead = 2
        BY <1>6, <3>1 DEF ReadInv, HeaderInv
      <4>2. HeaderLen(Newest) \in 2..14 /\ Newest.len \in Nat /\ Total(Newest) = HeaderLen(Newest) + Newest.len
        BY <1>2, FrameFacts
      <4>. QED  BY <4>1, <4>2
    <3>2. CASE ws.state = "LENGTH"
      <4>1. ws.szhead = HeaderSize(Newest) /\ (Control(Newest) => check_control_header(Newest))
        BY <1>6, <3>2 DEF ReadInv, HeaderInv
      <4>. QED  BY <1>2, <4>1, FrameFacts
    <3>. QED  BY <2>2, <3>1, <3>2
  <2>. QED  BY <1>2, <1>3, <1>4, <2>1, <2>3
<1>. QED  BY <1>5, <1>6 DEF Quiescent

(* A sequence is the start of what it becomes.                             *)
LEMMA AppendIsLonger ==
    ASSUME NEW S, NEW s \in Seq(S), NEW e \in S
    PROVE  Append(s, e) \in Seq(S) /\ IsPrefix(s, Append(s, e))
<1>1. PICK t : t = Append(s, e)
  OBVIOUS
<1>2. PICK n \in Nat : n = Len(s)
  BY LenProperties
<1>3. t \in Seq(S) /\ Len(t) = n + 1 /\ \A i \in 1..n : t[i] = s[i]
  BY <1>1, <1>2, AppendProperties
<1>4. n \in 0..Len(s) /\ n \in 0..Len(t)
  BY <1>2, <1>3
<1>5. /\ SubSeq(s, 1, n) \in Seq(S) /\ Len(SubSeq(s, 1, n)) = n
      /\ \A i \in 1..n : SubSeq(s, 1, n)[i] = s[i]
  BY <1>4, PrefixFacts
<1>6. /\ SubSeq(t, 1, n) \in Seq(S) /\ Len(SubSeq(t, 1, n)) = n
      /\ \A i \in 1..n : SubSeq(t, 1, n)[i] = t[i]
  BY <1>3, <1>4, PrefixFacts
<1>7. SubSeq(s, 1, n) = SubSeq(t, 1, n)
  BY <1>3, <1>5, <1>6, SeqEqual
<1>8. Len(s) <= Len(t)
  BY <1>2, <1>3
<1>. QED  BY <1>1, <1>2, <1>3, <1>7, <1>8 DEF IsPrefix

(* What the sender adds to the message that the receiver gathered.         *)
LEMMA ExtendFacts ==
    ASSUME ReadInv, Even, NEW f \in Frames, Extend(f), frames' = Append(frames, f),
           aws' = aws, received' = received
    PROVE  /\ Ahead' /\ IsPrefix(received', sent')
           /\ sent' \in Seq(Messages) /\ open' \in Messages \cup {NoMessage}
<1>1. /\ Newest' = f /\ Len(frames') = Len(frames) + 1 /\ Len(frames) \in Nat
  BY NewFrame DEF ReadInv, TypeOK
<1>2. /\ aws \in [state : {"waiting", "text", "binary"}, buffer : Seq(Bytes), connected : BOOLEAN]
      /\ aws.state = "waiting" => aws.buffer = <<>>
      /\ sent = received /\ open = Gathered
      /\ sent \in Seq(Messages) /\ open \in Messages \cup {NoMessage}
  BY StateFacts DEF ReadInv, MessageInv, Even, DataInv
<1>3. /\ open = NoMessage <=> aws.state = "waiting"
      /\ aws.state # "waiting" => open.type = aws.state
      /\ open.data = aws.buffer
  BY <1>2 DEF Gathered, NoMessage
<1>4. Len(received) \in Nat /\ IsPrefix(received, received)
  <2>1. Len(received) \in Nat
    BY <1>2, LenProperties
  <2>. QED  BY <2>1 DEF IsPrefix
<1>5. f.op \in Ops /\ f.len \in Nat /\ f.fin \in BOOLEAN /\ f.rsv \in BOOLEAN
  BY FrameFacts
<1>6. Data(f) => (Legal(f) <=> ~f.rsv /\ (Starts(f) <=> aws.state = "waiting"))
  BY <1>3, <1>5 DEF Data, Starts, Legal, Control
<1>7. Data(f) <=> f.op \in {"text", "binary", "continue"}
  BY DEF Data, Starts
<1>8. CASE ~(Data(f) /\ Legal(f))
  <2>1. sent' = sent /\ open' = open
    BY <1>7, <1>8 DEF Extend
  <2>2. Ahead'
    BY <1>1, <1>2, <1>6, <1>8, <2>1 DEF Ahead, Gathered, NoMessage, Data, Starts
  <2>. QED  BY <1>2, <1>4, <2>1, <2>2
<1>9. CASE Data(f) /\ Legal(f)
  <2>. DEFINE type == IF Starts(f) THEN f.op ELSE aws.state
  <2>. DEFINE msg == [type |-> type, data |-> aws.buffer \o Payload(f, Len(frames) + 1)]
  <2>1. type \in {"text", "binary"}
    BY <1>2, <1>6, <1>9 DEF Data, Starts
  <2>2. Payload(f, Len(frames) + 1) \in Seq(Bytes)
    <3>1. \A i \in 1..f.len : <<Len(frames) + 1, i>> \in Bytes
      BY <1>1, <1>5 DEF Bytes
    <3>. QED  BY <1>5, <3>1, IsASeq DEF Payload
  <2>3. aws.buffer \o Payload(f, Len(frames) + 1) \in Seq(Bytes)
    BY <1>2, <2>2, ConcatProperties
  <2>4. msg \in Messages
    BY <2>1, <2>3 DEF Messages
  <2>5. /\ (IF f.op = "continue" THEN open.type ELSE f.op) = type
        /\ open.data = aws.buffer
    BY <1>3, <1>6, <1>9 DEF Data, Starts
  <2>6. IF f.fin THEN sent' = Append(sent, msg) /\ open' = NoMessage
        ELSE open' = msg /\ sent' = sent
    BY <1>7, <1>9, <2>5 DEF Extend
  <2>. HIDE DEF msg
  <2>7. Append(received, msg) \in Seq(Messages) /\ IsPrefix(received, Append(received, msg))
    BY <1>2, <2>4, AppendIsLonger
  <2>8. Payload(f, Len(frames) + 1) = Payload(Newest, Len(frames))'
    BY <1>1 DEF Payload
  <2>9. Ahead'
    BY <1>1, <1>2, <1>6, <1>9, <2>6, <2>8 DEF Ahead, Sends, Data, Starts, NoMessage, msg
  <2>. QED  BY <1>2, <1>4, <2>4, <2>6, <2>7, <2>9
<1>. QED  BY <1>8, <1>9

LEMMA SendInv ==
    ASSUME ReadInv, NEW f \in Frames, websock_send(f), faults' = {}
    PROVE  ReadInv'
<1>1. /\ Quiescent /\ ~eof /\ Len(frames) < MaxFrames /\ Extend(f) /\ frames' = Append(frames, f)
      /\ eof' = eof /\ ws' = ws /\ aws' = aws /\ pc' = pc /\ received' = received /\ pongs' = pongs
  BY DEF websock_send
<1>2. Idle
  BY <1>1, QuiescentIsIdle
<1>3. Even /\ Handled(Len(frames)) /\ pongs = Cardinality(Pings(Len(frames)))
  BY <1>1, <1>2 DEF ReadInv, MessageInv, HandledInv
<1>4. /\ Len(frames') = Len(frames) + 1 /\ frames' # <<>> /\ frames' \in Seq(Frames)
      /\ Newest' = f /\ Len(frames) \in Nat
      /\ \A i \in 1..Len(frames) + 1 : InMessage(i)' <=> InMessage(i)
      /\ \A i \in 1..Len(frames) : Broken(i)' <=> Broken(i)
      /\ \A n \in 0..Len(frames) : Pings(n)' = Pings(n)
  BY <1>1, NewFrame DEF ReadInv, TypeOK
<1>5. /\ Ahead' /\ IsPrefix(received', sent')
      /\ sent' \in Seq(Messages) /\ open' \in Messages \cup {NoMessage}
  BY <1>1, <1>3, ExtendFacts
<1>6. Total(f) \in Nat /\ Total(f) >= 2 /\ Total(f) = HeaderLen(f) + f.len
  <2>1. HeaderLen(f) \in 2..14 /\ f.len \in Nat /\ Total(f) = HeaderLen(f) + f.len
    BY FrameFacts
  <2>. QED  BY <2>1
<1>7. /\ wire' \in Seq(Cells) /\ Len(wire') = Total(f) /\ DOMAIN wire' = 1..Total(f)
      /\ \A i \in 1..Total(f) : wire'[i] = [id |-> Len(frames) + 1, at |-> i]
  <2>. DEFINE whole == Encoded(f, Len(frames) + 1)
  <2>1. PICK n \in 1..Len(whole) : wire' = SubSeq(whole, 1, n) /\ ~(n < Len(whole))
    BY DEF websock_send
  <2>2. whole = [i \in 1..Total(f) |-> [id |-> Len(frames) + 1, at |-> i]]
    BY DEF Encoded, Total
  <2>3. \A i \in 1..Total(f) : [id |-> Len(frames) + 1, at |-> i] \in Cells
    BY <1>4, <1>6 DEF Cells
  <2>4. whole \in Seq(Cells)
    BY <1>6, <2>2, <2>3, IsASeq
  <2>5. DOMAIN whole = 1..Total(f) /\ \A i \in 1..Total(f) : whole[i] = [id |-> Len(frames) + 1, at |-> i]
    BY <2>2
  <2>. HIDE DEF whole
  <2>6. Len(whole) = Total(f)
    BY <1>6, <2>4, <2>5, LenProperties
  <2>7. n = Total(f) /\ n \in 0..Len(whole)
    BY <1>6, <2>1, <2>6
  <2>. QED  BY <2>1, <2>4, <2>5, <2>6, <2>7, PrefixFacts
<1>8. Busy' /\ ~Idle' /\ pc' = "dispatch" /\ ws'.state = "INIT"
  <2>1. wire' # <<>>
    BY <1>6, <1>7, EmptySeq
  <2>. QED  BY <1>1, <1>2, <2>1 DEF Busy, Idle
<1>9. TypeOK' /\ DataInv' /\ OnFrames'
  <2>1. Len(frames') <= MaxFrames
    BY <1>1, <1>4, StateFacts
  <2>. QED  BY <1>1, <1>4, <1>5, <1>7, <1>8, <2>1 DEF ReadInv, TypeOK, DataInv, OnFrames, NoMessage
<1>10. Consumed' = 0 /\ Total(Newest)' = Total(f)
  BY <1>4, <1>8 DEF Consumed, Total, HeaderLen, Extended
<1>11. WireInv'
  BY <1>4, <1>6, <1>7, <1>10 DEF WireInv
<1>12. HeaderInv'
  BY <1>8 DEF HeaderInv
<1>13. MessageInv'
  BY <1>1, <1>5, <1>8 DEF ReadInv, MessageInv, IsPrefix
<1>14. HandledInv'
  <2>1. Len(frames') - 1 = Len(frames) /\ Len(frames) \in 0..Len(frames) /\ Len(frames) + 1 \in 1..Len(frames) + 1
    BY <1>4
  <2>2. Pings(Len(frames) - 1)' = Pings(Len(frames))
    BY <1>4, <2>1
  <2>3. Handled(Len(frames) - 1)'
    <3>1. /\ \A i \in 1..Len(frames) : ~Broken(i)'
          /\ InMessage(Len(frames) + 1) <=> aws'.state # "waiting"
      BY <1>1, <1>3, <1>4 DEF Handled
    <3>2. \A n : n = Len(frames) => Handled(n)'
      BY <1>4, <2>1, <3>1 DEF Handled
    <3>. QED  BY <2>1, <3>2
  <2>. QED  BY <1>1, <1>3, <1>8, <2>2, <2>3 DEF HandledInv
<1>. QED  BY <1>9, <1>11, <1>12, <1>13, <1>14 DEF ReadInv

LEMMA NextInv ==
    ASSUME ReadInv, [Next]_vars, faults' = {}
    PROVE  ReadInv'
<1>1. CASE UNCHANGED vars
  <2>1. /\ wire' = wire /\ eof' = eof /\ frames' = frames /\ sent' = sent /\ open' = open /\ ws' = ws
        /\ aws' = aws /\ pc' = pc /\ received' = received /\ pongs' = pongs
    BY <1>1 DEF vars, senderVars
  <2>2. /\ Newest' = Newest /\ (Idle' <=> Idle) /\ (Busy' <=> Busy)
        /\ Total(Newest)' = Total(Newest) /\ HeaderSize(Newest)' = HeaderSize(Newest)
    BY <2>1, SameFrames DEF Idle, Busy, Total, HeaderSize, HeaderLen, Extended
  <2>3. Consumed' = Consumed /\ Rest' = Rest
    BY <2>1, <2>2 DEF Consumed, Rest
  <2>4. TypeOK' /\ DataInv' /\ OnFrames' /\ WireInv'
    BY <2>1, <2>2, <2>3 DEF ReadInv, TypeOK, DataInv, OnFrames, WireInv, NoMessage
  <2>5. HeaderInv'
    BY <2>1, <2>2, SameFrames DEF ReadInv, HeaderInv, Data, Starts, Control, check_control_header
  <2>6. MessageInv'
    BY <2>1, <2>2, <2>3, SameMessages DEF ReadInv, MessageInv, Sends, IsPrefix, NoMessage
  <2>7. HandledInv'
    BY <2>1, <2>2, SameFrames, SameMessages DEF ReadInv, HandledInv
  <2>. QED  BY <2>4, <2>5, <2>6, <2>7 DEF ReadInv
<1>. QED  BY <1>1, SendInv, LoseInv, ReadHeaderInv, HeaderStartInv, HeaderEndInv, AwsReadInv,
             AwsContinueInv, ReadEndInv, DropInv DEF Next

(* A fault stays.                                                          *)
LEMMA FaultsStay ==
    ASSUME [Next]_vars, faults' = {}
    PROVE  faults = {}
BY DEF Next, vars, websock_send, Lose, read_header, HeaderStart, HeaderEnd, aws_read, aws_continue,
       ReadEnd, websock_drop

LEMMA SafeSpec == Spec => []IInv
<1>1. Init => IInv
  BY InitInv DEF IInv
<1>2. IInv /\ [Next]_vars => IInv'
  BY NextInv, FaultsStay DEF IInv
<1>. QED  BY <1>1, <1>2, PTL DEF Spec

-----------------------------------------------------------------------------
(* The theorems.                                                           *)

(* However the bytes of the frames are cut in reads, the messages in       *)
(* fragments and the pings put between them, masked or not, the receiver   *)
(* gives exactly the messages sent, in order, and answers every ping,      *)
(* until writev takes a part of a frame (websock.c:153) or the payload of  *)
(* a ping is not there when its header is (websock.c:446).                 *)
THEOREM MessagesAreReceived == Spec => []SentIsReceived
<1>1. IInv => SentIsReceived
  <2>. SUFFICES ASSUME ReadInv PROVE Received
    BY DEF IInv, SentIsReceived
  <2>1. IsPrefix(received, sent)
    BY DEF ReadInv, MessageInv
  <2>2. Quiescent /\ ~eof => received = sent /\ pongs = Cardinality(Pings(Len(frames)))
    BY QuiescentIsIdle DEF ReadInv, MessageInv, HandledInv, Even
  <2>. QED  BY <2>1, <2>2 DEF Received
<1>. QED  BY <1>1, SafeSpec, PTL

(* The reads leave the bounds of the frames, websock_dispatch takes a byte *)
(* of payload as a header or a header as payload, only after one of these  *)
(* two faults: no other sequence of frames, cuts and ends leads there.     *)
THEOREM ReadsStayOnFrames == Spec => []NeverAstray
<1>1. IInv => NeverAstray
  BY DEF IInv, ReadInv, OnFrames, NeverAstray
<1>. QED  BY <1>1, SafeSpec, PTL

(* Until one of these two faults, aws_on_error and the other hangups meet  *)
(* the peers that break the protocol, all of them, and no others.          *)
THEOREM ClosesForAReason == Spec => []ClosedForAReason
<1>1. IInv => ClosedForAReason
  <2>. SUFFICES ASSUME ReadInv PROVE ClosedForAReason
    BY DEF IInv, ClosedForAReason
  <2>1. Quiescent /\ ~eof => \A i \in DOMAIN frames : ~Broken(i)
    BY QuiescentIsIdle, StateFacts DEF ReadInv, HandledInv, Handled
  <2>. QED  BY <2>1 DEF ReadInv, HandledInv, ClosedForAReason
<1>. QED  BY <1>1, SafeSpec, PTL
=============================================================================
