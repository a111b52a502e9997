---------------------------- MODULE ApiDbusProofs ----------------------------
(***************************************************************************)
(* Proofs about an api imported over D-Bus, for every set of requests, of  *)
(* sessions and of events, any number of messages under way and of crashes *)
(* of the server.  IInv (module ApiDbus) is inductive, and so is           *)
(* EventsInv, the history of the events that the messages under way tell,  *)
(* given IInv.                                                             *)
(***************************************************************************)
EXTENDS ApiDbus, FiniteSetTheorems, SequenceTheorems, WellFoundedInduction, TLAPS

-----------------------------------------------------------------------------
(* Sequences: the queues of messages and the lists of calls.               *)

(* A message sent at the end of a queue.                                   *)
LEMMA AppendFacts ==
    ASSUME NEW S, NEW s \in Seq(S), NEW e \in S
    PROVE  /\ Append(s, e) \in Seq(S) /\ Len(Append(s, e)) = Len(s) + 1
           /\ DOMAIN Append(s, e) = 1..Len(s) + 1 /\ DOMAIN s = 1..Len(s) /\ Len(s) \in Nat
           /\ \A i \in 1..Len(s) : Append(s, e)[i] = s[i]
           /\ Append(s, e)[Len(s) + 1] = e
BY AppendProperties, LenProperties

(* The message read at the head of a queue.                                *)
LEMMA TailFacts ==
    ASSUME NEW S, NEW s \in Seq(S), s # <<>>
    PROVE  /\ Tail(s) \in Seq(S) /\ Head(s) = s[1] /\ Head(s) \in S
           /\ DOMAIN s = 1..Len(s) /\ Len(s) \in Nat \ {0} /\ 1 \in DOMAIN s
           /\ DOMAIN Tail(s) = 1..Len(s) - 1
           /\ \A i \in 1..Len(s) - 1 : Tail(s)[i] = s[i + 1]
<1>1. /\ Head(s) \in S /\ Tail(s) \in Seq(S) /\ Len(Tail(s)) = Len(s) - 1
      /\ \A i \in 1..Len(Tail(s)) : Tail(s)[i] = s[i + 1]
  BY HeadTailProperties
<1>2. Len(s) \in Nat /\ DOMAIN s = 1..Len(s) /\ DOMAIN Tail(s) = 1..Len(Tail(s))
  BY <1>1, LenProperties
<1>3. Len(s) # 0
  BY EmptySeq
<1>. QED  BY <1>1, <1>2, <1>3

(* An element taken out of a list.                                         *)
LEMMA RemoveFacts ==
    ASSUME NEW S, NEW s \in Seq(S), NEW i \in 1..Len(s)
    PROVE  /\ RemoveAt(s, i) \in Seq(S) /\ DOMAIN RemoveAt(s, i) = 1..Len(s) - 1
           /\ DOMAIN s = 1..Len(s) /\ Len(s) \in Nat \ {0}
           /\ \A k \in 1..Len(s) - 1 : RemoveAt(s, i)[k] = IF k < i THEN s[k] ELSE s[k + 1]
<1>0. DOMAIN s = 1..Len(s) /\ Len(s) \in Nat \ {0}
  BY LenProperties
<1> DEFINE a == SubSeq(s, 1, i - 1)
           b == SubSeq(s, i + 1, Len(s))
<1>1. a \in Seq(S) /\ Len(a) = i - 1 /\ \A k \in 1..i - 1 : a[k] = s[k]
  BY <1>0
<1>2. b \in Seq(S) /\ Len(b) = Len(s) - i /\ \A k \in 1..Len(s) - i : b[k] = s[i + k]
  <2>1. \A k \in i + 1..Len(s) : s[k] \in S
    BY <1>0, ElementOfSeq
  <2>2. /\ b \in Seq(S) /\ Len(b) = IF i + 1 <= Len(s) THEN Len(s) - (i + 1) + 1 ELSE 0
        /\ \A k \in 1..Len(s) - (i + 1) + 1 : b[k] = s[i + 1 + k - 1]
    BY <1>0, <2>1, SubSeqProperties
  <2>3. i \in Nat /\ Len(s) \in Nat /\ 1 <= i /\ i <= Len(s)
    BY <1>0
  <2> HIDE DEF b
  <2>4. CASE i = Len(s)
    <3>1. ~(i + 1 <= Len(s)) /\ Len(s) - i = 0
      BY <2>3, <2>4
    <3>. QED  BY <2>2, <3>1
  <2>5. CASE i < Len(s)
    <3>1. i + 1 <= Len(s) /\ Len(s) - (i + 1) + 1 = Len(s) - i
      BY <2>3, <2>5
    <3>2. \A k \in 1..Len(s) - i : i + 1 + k - 1 = i + k
      BY <2>3
    <3>. QED  BY <2>2, <3>1, <3>2
  <2>. QED  BY <2>3, <2>4, <2>5
<1>3. RemoveAt(s, i) = a \o b
  BY DEF RemoveAt
<1> HIDE DEF a, b
<1>4. /\ a \o b \in Seq(S) /\ Len(a \o b) = Len(s) - 1
      /\ \A k \in 1..Len(s) - 1 : (a \o b)[k] = IF k <= i - 1 THEN a[k] ELSE b[k - (i - 1)]
  <2>1. /\ a \o b \in Seq(S) /\ Len(a \o b) = Len(a) + Len(b)
        /\ \A k \in 1..Len(a) + Len(b) : (a \o b)[k] = IF k <= Len(a) THEN a[k] ELSE b[k - Len(a)]
    BY <1>1, <1>2, ConcatProperties
  <2>2. Len(a) + Len(b) = Len(s) - 1
    BY <1>0, <1>1, <1>2
  <2>. QED  BY <1>1, <2>1, <2>2
<1>5. \A k \in 1..Len(s) - 1 : (a \o b)[k] = IF k < i THEN s[k] ELSE s[k + 1]
  BY <1>0, <1>1, <1>2, <1>4
<1>. QED  BY <1>0, <1>3, <1>4, <1>5, LenProperties

(* An element put at the head of a list.                                   *)
LEMMA ConsFacts ==
    ASSUME NEW S, NEW s \in Seq(S), NEW e \in S
    PROVE  /\ <<e>> \o s \in Seq(S) /\ DOMAIN (<<e>> \o s) = 1..Len(s) + 1
           /\ DOMAIN s = 1..Len(s) /\ Len(s) \in Nat
           /\ (<<e>> \o s)[1] = e
           /\ \A i \in 1..Len(s) : (<<e>> \o s)[i + 1] = s[i]
<1>1. <<e>> \in Seq(S) /\ Len(<<e>>) = 1 /\ <<e>>[1] = e
  OBVIOUS
<1>. QED  BY <1>1, ConcatProperties, LenProperties

(* An element of a list replaced.                                          *)
LEMMA UpdateFacts ==
    ASSUME NEW S, NEW s \in Seq(S), NEW i \in DOMAIN s, NEW e \in S
    PROVE  [s EXCEPT ![i] = e] \in Seq(S)
BY ExceptSeq, LenProperties

(* Two sequences of one element.                                           *)
LEMMA PairOfSeqs == ASSUME NEW S, NEW a \in S, NEW b \in S PROVE <<a>> \o <<b>> = <<a, b>>
<1>1. PICK s, t, p : s = <<a>> /\ t = <<b>> /\ p = <<a, b>>
  OBVIOUS
<1>2. /\ s \in Seq(S) /\ Len(s) = 1 /\ s[1] = a /\ t \in Seq(S) /\ Len(t) = 1 /\ t[1] = b
      /\ p \in Seq(S) /\ Len(p) = 2 /\ p[1] = a /\ p[2] = b
  BY <1>1
<1>3. /\ s \o t \in Seq(S) /\ Len(s \o t) = 2
      /\ \A i \in 1..2 : (s \o t)[i] = IF i <= 1 THEN s[i] ELSE t[i - 1]
  BY <1>2, ConcatProperties
<1>4. (s \o t)[1] = a /\ (s \o t)[2] = b
  BY <1>2, <1>3
<1>5. \A i \in 1..2 : i = 1 \/ i = 2
  OBVIOUS
<1>6. \A i \in 1..Len(p) : (s \o t)[i] = p[i]
  BY <1>2, <1>4, <1>5
<1>7. s \o t = p
  BY <1>2, <1>3, <1>6, SeqEqual
<1>. QED  BY <1>1, <1>7

(* A set of naturals that is not empty has a least element.                *)
LEMMA MinExists ==
    ASSUME NEW S \in SUBSET Nat, S # {}
    PROVE  \E x \in S : \A y \in S : x <= y
<1>1. PICK x \in S : \A y \in S : ~(<<y, x>> \in OpToRel(<, Nat))
  BY NatLessThanWellFounded, WFMin
<1>2. \A y \in S : y \in Nat /\ x \in Nat /\ ~(y < x)
  BY <1>1 DEF OpToRel
<1>3. \A y \in S : x <= y
  BY <1>2
<1>. QED  BY <1>3

-----------------------------------------------------------------------------
(* The list of the events that the importing side of an api knows.         *)

(* What it has of the event n: the id and the subscriptions of the view v, *)
(* in one place; nothing when the id is 0.                                 *)
Knows(n, v, s) ==
    /\ v.id = 0 => \A i \in DOMAIN s : s[i].name # n
    /\ v.id # 0 => \E i \in DOMAIN s :
         /\ s[i] = [id |-> v.id, name |-> n, refcount |-> 1, watch |-> v.subs]
         /\ \A k \in DOMAIN s : s[k].name = n => k = i

(* What is known of an event, when others come and go.                     *)
LEMMA KnowsAfterAdd ==
    ASSUME NEW S, NEW s \in Seq(S), NEW n, NEW v, Knows(n, v, s),
           NEW e \in S, e.name # n
    PROVE  Knows(n, v, <<e>> \o s)
<1>1. PICK t, N : t = <<e>> \o s /\ N = Len(s)
  OBVIOUS
<1>2. /\ DOMAIN s = 1..N /\ N \in Nat /\ DOMAIN t = 1..N + 1 /\ t[1] = e
      /\ \A i \in 1..N : t[i + 1] = s[i]
  BY <1>1, ConsFacts
<1>3. ASSUME NEW i \in DOMAIN t, t[i].name = n PROVE i - 1 \in DOMAIN s /\ t[i] = s[i - 1]
  <2>1. i \in 1..N + 1 /\ i # 1
    BY <1>2, <1>3
  <2>2. i - 1 \in 1..N /\ (i - 1) + 1 = i
    BY <1>2, <2>1
  <2>. QED  BY <1>2, <2>2
<1>4. CASE v.id = 0
  BY <1>3, <1>4, <1>1 DEF Knows
<1>5. CASE v.id # 0
  <2>1. PICK j \in DOMAIN s :
           /\ s[j] = [id |-> v.id, name |-> n, refcount |-> 1, watch |-> v.subs]
           /\ \A k \in DOMAIN s : s[k].name = n => k = j
    BY <1>5 DEF Knows
  <2>2. j + 1 \in DOMAIN t /\ t[j + 1] = s[j]
    BY <1>2
  <2>3. ASSUME NEW k \in DOMAIN t, t[k].name = n PROVE k = j + 1
    <3>1. k - 1 = j
      BY <1>3, <2>1, <2>3
    <3>. QED  BY <1>2, <3>1
  <2>. QED  BY <1>1, <1>5, <2>1, <2>2, <2>3 DEF Knows
<1>. QED  BY <1>4, <1>5

LEMMA KnowsAfterUpdate ==
    ASSUME NEW S, NEW s \in Seq(S), NEW n, NEW v, Knows(n, v, s),
           NEW i \in DOMAIN s, NEW e \in S, s[i].name # n, e.name # n
    PROVE  Knows(n, v, [s EXCEPT ![i] = e])
<1>1. PICK t : t = [s EXCEPT ![i] = e]
  OBVIOUS
<1>2. /\ DOMAIN t = DOMAIN s /\ t[i].name # n
      /\ \A k \in DOMAIN s : k # i => t[k] = s[k]
  BY <1>1
<1>3. CASE v.id = 0
  BY <1>1, <1>2, <1>3 DEF Knows
<1>4. CASE v.id # 0
  <2>1. PICK j \in DOMAIN s :
           /\ s[j] = [id |-> v.id, name |-> n, refcount |-> 1, watch |-> v.subs]
           /\ \A k \in DOMAIN s : s[k].name = n => k = j
    BY <1>4 DEF Knows
  <2>2. j # i
    BY <2>1
  <2>. QED  BY <1>1, <1>2, <1>4, <2>1, <2>2 DEF Knows
<1>. QED  BY <1>3, <1>4

LEMMA KnowsAfterRemove ==
    ASSUME NEW S, NEW s \in Seq(S), NEW n, NEW v, Knows(n, v, s),
           NEW i \in DOMAIN s, s[i].name # n
    PROVE  Knows(n, v, RemoveAt(s, i))
<1>1. PICK t, N : t = RemoveAt(s, i) /\ N = Len(s)
  OBVIOUS
<1>2. DOMAIN s = 1..N /\ N \in Nat
  BY <1>1, LenProperties
<1>3. /\ DOMAIN t = 1..N - 1
      /\ \A k \in 1..N - 1 : t[k] = IF k < i THEN s[k] ELSE s[k + 1]
  BY <1>1, <1>2, RemoveFacts
<1>4. \A k \in DOMAIN t : k \in DOMAIN s /\ k + 1 \in DOMAIN s
  BY <1>2, <1>3
<1>5. CASE v.id = 0
  BY <1>1, <1>3, <1>4, <1>5 DEF Knows
<1>6. CASE v.id # 0
  <2>1. PICK j \in DOMAIN s :
           /\ s[j] = [id |-> v.id, name |-> n, refcount |-> 1, watch |-> v.subs]
           /\ \A k \in DOMAIN s : s[k].name = n => k = j
    BY <1>6 DEF Knows
  <2>2. j # i
    BY <2>1
  <2>3. PICK l : l = IF j < i THEN j ELSE j - 1
    OBVIOUS
  <2>4. l \in DOMAIN t /\ (l < i => l = j) /\ (~(l < i) => l + 1 = j)
    <3>1. i \in 1..N /\ j \in 1..N
      BY <1>2
    <3>2. CASE j < i
      BY <1>2, <1>3, <2>3, <3>1, <3>2
    <3>3. CASE j > i
      BY <1>2, <1>3, <2>3, <3>1, <3>3
    <3>. QED  BY <1>2, <2>2, <3>1, <3>2, <3>3
  <2>5. t[l] = s[j]
    BY <1>3, <2>4
  <2>6. ASSUME NEW k \in DOMAIN t, t[k].name = n PROVE k = l
    <3>1. CASE k < i
      <4>1. k = j
        BY <1>3, <1>4, <2>1, <2>6, <3>1
      <4>. QED  BY <2>3, <3>1, <4>1
    <3>2. CASE ~(k < i)
      <4>1. k + 1 = j
        BY <1>3, <1>4, <2>1, <2>6, <3>2
      <4>. QED  BY <1>2, <1>3, <2>3, <3>2, <4>1
    <3>. QED  BY <3>1, <3>2
  <2>. QED  BY <1>1, <1>6, <2>1, <2>4, <2>5, <2>6 DEF Knows
<1>. QED  BY <1>5, <1>6

(* What is known of the event that comes or goes itself.                   *)
LEMMA KnowsNew ==
    ASSUME NEW S, NEW s \in Seq(S), NEW n, NEW v, Knows(n, v, s), v.id = 0,
           NEW id, id # 0, NEW f, [id |-> id, name |-> n, refcount |-> 1, watch |-> f] \in S
    PROVE  Knows(n, [id |-> id, subs |-> f],
                 <<[id |-> id, name |-> n, refcount |-> 1, watch |-> f]>> \o s)
<1>1. PICK e, w : /\ e = [id |-> id, name |-> n, refcount |-> 1, watch |-> f]
                  /\ w = [id |-> id, subs |-> f]
  OBVIOUS
<1>2. e \in S
  BY <1>1
<1>3. PICK t, N : t = <<e>> \o s /\ N = Len(s)
  OBVIOUS
<1>4. /\ DOMAIN s = 1..N /\ N \in Nat /\ DOMAIN t = 1..N + 1 /\ t[1] = e
      /\ \A i \in 1..N : t[i + 1] = s[i]
  BY <1>2, <1>3, ConsFacts
<1>5. ASSUME NEW k \in DOMAIN t, t[k].name = n PROVE k = 1
  <2>1. ASSUME k # 1 PROVE FALSE
    <3>1. k - 1 \in 1..N /\ (k - 1) + 1 = k
      BY <1>4, <2>1
    <3>2. t[k] = s[k - 1]
      BY <1>4, <3>1
    <3>. QED  BY <1>4, <1>5, <3>1, <3>2 DEF Knows
  <2>. QED  BY <2>1
<1>6. w.id # 0 /\ 1 \in DOMAIN t /\ t[1] = [id |-> w.id, name |-> n, refcount |-> 1, watch |-> w.subs]
  BY <1>1, <1>4
<1>7. Knows(n, w, t)
  BY <1>5, <1>6 DEF Knows
<1>. QED  BY <1>1, <1>3, <1>7

LEMMA KnowsGone ==
    ASSUME NEW S, NEW s \in Seq(S), NEW n, NEW i \in DOMAIN s,
           \A k \in DOMAIN s : s[k].name = n => k = i, NEW w, w.id = 0
    PROVE  Knows(n, w, RemoveAt(s, i))
<1>1. PICK t, N : t = RemoveAt(s, i) /\ N = Len(s)
  OBVIOUS
<1>2. DOMAIN s = 1..N /\ N \in Nat
  BY <1>1, LenProperties
<1>3. /\ DOMAIN t = 1..N - 1
      /\ \A k \in 1..N - 1 : t[k] = IF k < i THEN s[k] ELSE s[k + 1]
  BY <1>1, <1>2, RemoveFacts
<1>4. ASSUME NEW k \in DOMAIN t, t[k].name = n PROVE FALSE
  <2>1. k \in DOMAIN s /\ k + 1 \in DOMAIN s /\ k \in Int
    BY <1>2, <1>3
  <2>2. CASE k < i
    BY <1>3, <1>4, <2>1, <2>2
  <2>3. CASE ~(k < i)
    <3>1. k + 1 = i
      BY <1>3, <1>4, <2>1, <2>3
    <3>. QED  BY <1>2, <2>1, <2>3, <3>1
  <2>. QED  BY <2>2, <2>3
<1>. QED  BY <1>1, <1>4 DEF Knows

LEMMA KnowsChanged ==
    ASSUME NEW S, NEW s \in Seq(S), NEW n, NEW i \in DOMAIN s, NEW e, e.name = n,
           \A k \in DOMAIN s : s[k].name = n => k = i, NEW w, w.id # 0,
           e = [id |-> w.id, name |-> n, refcount |-> 1, watch |-> w.subs]
    PROVE  Knows(n, w, [s EXCEPT ![i] = e])
<1>1. PICK t : t = [s EXCEPT ![i] = e]
  OBVIOUS
<1>2. DOMAIN t = DOMAIN s /\ t[i] = e /\ \A k \in DOMAIN s : k # i => t[k] = s[k]
  BY <1>1
<1>. QED  BY <1>1, <1>2 DEF Knows

-----------------------------------------------------------------------------
(* The messages.                                                           *)

(* The list of a finite set has each of its elements once.                 *)
LEMMA ListFacts ==
    ASSUME NEW S, IsFiniteSet(S)
    PROVE  /\ SetToSeq(S) \in Seq(S)
           /\ \A i, k \in DOMAIN SetToSeq(S) : SetToSeq(S)[i] = SetToSeq(S)[k] => i = k
           /\ \A x \in S : \E i \in DOMAIN SetToSeq(S) : SetToSeq(S)[i] = x
<1>1. PICK n \in Nat : n = Cardinality(S)
  BY FS_CardinalityType
<1>2. ExistsBijection(1..n, S)
  BY <1>1, FS_CardinalityType
<1>3. \E f \in [1..n -> S] : IsInjective(f)
  BY <1>2 DEF ExistsBijection, Bijection, Injection
<1>4. PICK q : q = SetToSeq(S)
  OBVIOUS
<1>5. q \in [1..n -> S] /\ IsInjective(q)
  BY <1>1, <1>3, <1>4 DEF SetToSeq
<1>6. q \in Injection(1..n, S)
  BY <1>5 DEF Injection
<1>7. IsFiniteSet(1..n) /\ Cardinality(1..n) = Cardinality(S)
  <2>1. 0 \in Int /\ 1 \in Int /\ n \in Int
    OBVIOUS
  <2>2. IsFiniteSet(1..n) /\ Cardinality(1..n) = IF 1 > n THEN 0 ELSE n - 1 + 1
    BY <2>1, FS_Interval
  <2>. QED  BY <1>1, <2>2
<1>8. q \in Surjection(1..n, S)
  BY <1>6, <1>7, FS_Injection
<1>9. q \in Seq(S) /\ \A i, k \in DOMAIN q : q[i] = q[k] => i = k
  BY <1>5 DEF IsInjective
<1>10. \A x \in S : \E i \in DOMAIN q : q[i] = x
  BY <1>5, <1>8 DEF Surjection
<1>. QED  BY <1>4, <1>9, <1>10

(* The messages that a function makes for a set of things are finitely     *)
(* many when the things are.                                               *)
LEMMA ImageFacts ==
    ASSUME NEW S, IsFiniteSet(S), NEW T, NEW f \in [S -> T]
    PROVE  IsFiniteSet({f[x] : x \in S}) /\ {f[x] : x \in S} \subseteq T
<1> DEFINE I == {f[x] : x \in S}
<1>1. f \in Surjection(S, I)
  BY DEF Surjection
<1>. QED  BY <1>1, FS_Surjection

LEMMA WiderSeq == ASSUME NEW S, NEW T, S \subseteq T, NEW s \in Seq(S) PROVE s \in Seq(T)
<1>1. s \in [1..Len(s) -> S] /\ Len(s) \in Nat
  BY LenProperties
<1>. QED  BY <1>1

LEMMA MessageFacts ==
    /\ \A r \in Reqs, op \in Answers, c \in BOOLEAN : Message(op, r, c) \in DownMessages
    /\ Message("*", "none", FALSE) \in DownMessages
<1>1. 0 \in 0..MaxEventId
  BY BoundsAssumption
<1>2. ASSUME NEW r \in Reqs, NEW op \in Answers, NEW c \in BOOLEAN
      PROVE  Message(op, r, c) \in DownMessages
  BY <1>1 DEF Message, DownMessages, Answers, Subscriptions, EventOps
<1>3. Message("*", "none", FALSE) \in DownMessages
  BY <1>1 DEF Message, DownMessages, Answers, Subscriptions, EventOps
<1>. QED  BY <1>2, <1>3

LEMMA EventMsgFacts ==
    ASSUME TypeOK, NEW n \in Names, event[n] # 0
    PROVE  /\ \A op \in EventOps : EventMsg(op, n) \in DownMessages
           /\ \A op \in Subscriptions, r \in Reqs : ReqMsg(op, n, r) \in DownMessages
<1>1. event[n] \in 0..MaxEventId
  BY DEF TypeOK
<1>2. ASSUME NEW op \in EventOps PROVE EventMsg(op, n) \in DownMessages
  BY <1>1 DEF EventMsg, DownMessages, Answers, Subscriptions, EventOps
<1>3. ASSUME NEW op \in Subscriptions, NEW r \in Reqs PROVE ReqMsg(op, n, r) \in DownMessages
  <2>1. ReqMsg(op, n, r) = [op |-> op, of |-> r, closing |-> FALSE, id |-> event[n], name |-> n]
    <3>1. PICK e : e = [op |-> op, of |-> "none", closing |-> FALSE, id |-> event[n], name |-> n]
      OBVIOUS
    <3>2. ReqMsg(op, n, r) = [e EXCEPT !.of = r]
      BY <3>1 DEF ReqMsg, EventMsg
    <3>. QED  BY <3>1, <3>2
  <2>. QED  BY <1>1, <2>1 DEF DownMessages, Answers, Subscriptions, EventOps
<1>. QED  BY <1>2, <1>3

(* What the bus and what the last listener send.                           *)
LEMMA BusErrorsFacts == ASSUME TypeOK PROVE BusErrors \in Seq(DownMessages)
<1> DEFINE Q == {q \in memos : ~Replied(q)}
           f == [r \in Q |-> Message("error", r, FALSE)]
           I == {f[r] : r \in Q}
<1>1. Q \in SUBSET Reqs
  BY DEF TypeOK
<1>2. IsFiniteSet(Q)
  BY <1>1, BoundsAssumption, FS_Subset
<1>3. f \in [Q -> DownMessages]
  BY <1>1, MessageFacts DEF Answers
<1>4. BusErrors = SetToSeq(I)
  <2>1. {Message("error", r, FALSE) : r \in Q} = I
    OBVIOUS
  <2>. QED  BY <2>1 DEF BusErrors
<1> HIDE DEF f, Q
<1>5. IsFiniteSet(I) /\ I \subseteq DownMessages
  BY <1>2, <1>3, ImageFacts
<1> HIDE DEF I
<1>6. SetToSeq(I) \in Seq(I)
  BY <1>5, ListFacts
<1>. QED  BY <1>4, <1>5, <1>6, WiderSeq

LEMMA EndMessagesFacts == ASSUME IInv, NEW s PROVE EndMessages(s) \in Seq(DownMessages)
<1> DEFINE Q == ActiveEvents
           f == [n \in Q |-> EventMsg("-", n)]
           I == {f[n] : n \in Q}
<1>1. Q \in SUBSET Names
  BY DEF ActiveEvents
<1>2. IsFiniteSet(Q)
  BY <1>1, BoundsAssumption, FS_Subset
<1>3. f \in [Q -> DownMessages]
  BY EventMsgFacts DEF IInv, WatchInv, ActiveEvents, EventOps
<1>4. {EventMsg("-", n) : n \in ActiveEvents} = I
  OBVIOUS
<1> HIDE DEF f, Q
<1>5. IsFiniteSet(I) /\ I \subseteq DownMessages
  BY <1>2, <1>3, ImageFacts
<1> HIDE DEF I
<1>6. SetToSeq(I) \in Seq(DownMessages)
  <2>1. SetToSeq(I) \in Seq(I)
    BY <1>5, ListFacts
  <2>. QED  BY <1>5, <2>1, WiderSeq
<1>7. EndMessages(s) = IF s \in cookies /\ listener = 1 THEN SetToSeq(I) ELSE <<>>
  BY <1>4 DEF EndMessages
<1>8. <<>> \in Seq(DownMessages)
  OBVIOUS
<1>. QED  BY <1>6, <1>7, <1>8

LEMMA AppendMessage ==
    ASSUME MessagesInv, NEW m \in DownMessages, down' = Append(down, m)
    PROVE  MessagesInv'
BY AppendFacts DEF MessagesInv

LEMMA ConcatMessages ==
    ASSUME MessagesInv, NEW ms \in Seq(DownMessages), down' = down \o ms
    PROVE  MessagesInv'
BY ConcatProperties DEF MessagesInv

LEMMA SameMessages == ASSUME MessagesInv, UNCHANGED down PROVE MessagesInv'
BY DEF MessagesInv

-----------------------------------------------------------------------------
(* What a step leaves as it is.                                            *)

LEMMA ListenerKept ==
    ASSUME ListenerInv, UNCHANGED <<closes, cookies>>,
           \A r \in Reqs : dreq'[r].st # "none" =>
               dreq[r].st # "none" /\ dreq'[r].listener = dreq[r].listener
    PROVE  ListenerInv'
BY DEF ListenerInv, Stale

LEMMA WatchKept == ASSUME WatchInv, UNCHANGED <<event, watch, subs, cookies>> PROVE WatchInv'
BY DEF WatchInv

LEMMA CountsKept == ASSUME CountsInv, UNCHANGED <<destination, listener, cookies>> PROVE CountsInv'
BY DEF CountsInv

(* A step that changes neither the listeners nor the events.               *)
LEMMA QuietStep ==
    ASSUME IInv, TypeOK', MessagesInv', UNCHANGED <<listenVars, event, watch, subs>>,
           \A r \in Reqs : dreq'[r].st # "none" =>
               dreq[r].st # "none" /\ dreq'[r].listener = dreq[r].listener
    PROVE  IInv'
<1>1. ListenerInv' /\ WatchInv' /\ CountsInv'
  BY ListenerKept, WatchKept, CountsKept DEF IInv, listenVars
<1>. QED  BY <1>1 DEF IInv

LEMMA AddServerStep == ASSUME IInv, afb_api_dbus_add_server PROVE IInv'
<1>1. /\ UNCHANGED <<crashes, unsent, clientVars, up, down, dreq, listenVars, eventVars>>
      /\ serving' = TRUE
  BY DEF afb_api_dbus_add_server
<1>2. TypeOK'
  BY <1>1 DEF IInv, TypeOK, clientVars, listenVars, eventVars
<1>3. MessagesInv'
  BY <1>1, SameMessages DEF IInv
<1>. QED  BY <1>1, <1>2, <1>3, QuietStep DEF eventVars

LEMMA BroadcastStep == ASSUME IInv, afb_api_dbus_server_event_broadcast PROVE IInv'
<1>1. /\ UNCHANGED <<serving, crashes, unsent, clientVars, up, dreq, listenVars, eventVars>>
      /\ down' = Append(down, Message("*", "none", FALSE))
  BY DEF afb_api_dbus_server_event_broadcast
<1>2. TypeOK'
  BY <1>1 DEF IInv, TypeOK, clientVars, listenVars, eventVars
<1>3. MessagesInv'
  BY <1>1, MessageFacts, AppendMessage DEF IInv
<1>. QED  BY <1>1, <1>2, <1>3, QuietStep DEF eventVars

LEMMA PushStep == ASSUME IInv, NEW n \in Names, afb_api_dbus_server_event_push(n) PROVE IInv'
<1>1. /\ UNCHANGED <<serving, crashes, unsent, clientVars, up, dreq, listenVars, eventVars>>
      /\ down' = Append(down, EventMsg("!", n)) /\ watch[n] > 0
  BY DEF afb_api_dbus_server_event_push
<1>2. TypeOK'
  BY <1>1 DEF IInv, TypeOK, clientVars, listenVars, eventVars
<1>3. EventMsg("!", n) \in DownMessages
  BY <1>1, EventMsgFacts DEF IInv, WatchInv, EventOps
<1>4. MessagesInv'
  BY <1>1, <1>3, AppendMessage DEF IInv
<1>. QED  BY <1>1, <1>2, <1>4, QuietStep DEF eventVars

-----------------------------------------------------------------------------
(* The client: calls and replies.                                          *)

RequestRecords == [st : {"idle", "called", "ended"}, replies : Nat,
                   kind : {"none", "failed", "reply", "error"}, closing : BOOLEAN]

(* A step of the client that changes neither the server nor the calls      *)
(* under way.                                                              *)
LEMMA ClientStep ==
    ASSUME IInv, UNCHANGED <<serving, crashes, unsent, dreq, listenVars, eventVars>>,
           memos' \subseteq Reqs, cevents' = cevents, areq' \in [Reqs -> RequestRecords],
           up' \in Seq(Reqs), MessagesInv'
    PROVE  IInv'
<1>1. TypeOK'
  BY DEF IInv, TypeOK, listenVars, eventVars, RequestRecords
<1>. QED  BY <1>1, QuietStep DEF eventVars

LEMMA CallStep == ASSUME IInv, NEW r \in Reqs, api_dbus_client_call(r) PROVE IInv'
<1>1. /\ UNCHANGED <<serving, crashes, unsent, cevents, dreq, listenVars, eventVars>>
      /\ memos' = memos \cup {r} /\ areq' = [areq EXCEPT ![r].st = "called"]
  BY DEF api_dbus_client_call
<1>2. memos' \subseteq Reqs
  BY <1>1 DEF IInv, TypeOK
<1>3. areq' \in [Reqs -> RequestRecords]
  <2>1. areq \in [Reqs -> RequestRecords]
    BY DEF IInv, TypeOK, RequestRecords
  <2>2. PICK a \in RequestRecords : a = areq[r]
    BY <2>1
  <2>3. [a EXCEPT !.st = "called"] \in RequestRecords
    BY DEF RequestRecords
  <2>4. areq' = [areq EXCEPT ![r] = [a EXCEPT !.st = "called"]]
    BY <1>1, <2>2
  <2>. QED  BY <2>1, <2>3, <2>4
<1>4. up' \in Seq(Reqs) /\ MessagesInv'
  <2>1. up \in Seq(Reqs)
    BY DEF IInv, TypeOK
  <2>2. CASE serving
    <3>1. up' = Append(up, r) /\ UNCHANGED down
      BY <2>2 DEF api_dbus_client_call
    <3>. QED  BY <2>1, <3>1, AppendFacts, SameMessages DEF IInv
  <2>3. CASE ~serving
    <3>1. down' = Append(down, Message("error", r, FALSE)) /\ UNCHANGED up
      BY <2>3 DEF api_dbus_client_call
    <3>2. Message("error", r, FALSE) \in DownMessages
      BY MessageFacts DEF Answers
    <3>. QED  BY <2>1, <3>1, <3>2, AppendMessage DEF IInv
  <2>. QED  BY <2>2, <2>3
<1>. QED  BY <1>1, <1>2, <1>3, <1>4, ClientStep

LEMMA CallFailedStep == ASSUME IInv, NEW r \in Reqs, api_dbus_client_call_failed(r) PROVE IInv'
<1>1. /\ UNCHANGED <<serving, crashes, unsent, memos, cevents, up, down, dreq, listenVars, eventVars>>
      /\ areq' = [areq EXCEPT ![r] = [st |-> "ended", replies |-> 1, kind |-> "failed",
                                      closing |-> areq[r].closing]]
  <2>1. areq' = [areq EXCEPT ![r].st = "ended", ![r].replies = 1, ![r].kind = "failed"]
    BY DEF api_dbus_client_call_failed
  <2>2. areq \in [Reqs -> RequestRecords]
    BY DEF IInv, TypeOK, RequestRecords
  <2>3. PICK f : f = [areq EXCEPT ![r] = [areq[r] EXCEPT !.st = "ended"]]
    OBVIOUS
  <2>4. PICK g : g = [f EXCEPT ![r] = [f[r] EXCEPT !.replies = 1]]
    OBVIOUS
  <2>5. areq' = [g EXCEPT ![r] = [g[r] EXCEPT !.kind = "failed"]]
    BY ONLY <2>1, <2>3, <2>4
  <2>6. f[r] = [st |-> "ended", replies |-> areq[r].replies, kind |-> areq[r].kind,
                closing |-> areq[r].closing]
    BY <2>2, <2>3 DEF RequestRecords
  <2>7. g[r] = [st |-> "ended", replies |-> 1, kind |-> areq[r].kind,
                closing |-> areq[r].closing]
    BY <2>2, <2>3, <2>4, <2>6
  <2>8. areq' = [areq EXCEPT ![r] = [g[r] EXCEPT !.kind = "failed"]]
    BY <2>2, <2>3, <2>4, <2>5
  <2>9. [g[r] EXCEPT !.kind = "failed"] =
           [st |-> "ended", replies |-> 1, kind |-> "failed", closing |-> areq[r].closing]
    BY <2>7
  <2>10. UNCHANGED <<serving, crashes, unsent, memos, cevents, up, down, dreq, listenVars, eventVars>>
    BY DEF api_dbus_client_call_failed
  <2>. QED  BY <2>8, <2>9, <2>10
<1>2. areq' \in [Reqs -> RequestRecords]
  BY <1>1 DEF IInv, TypeOK, RequestRecords
<1>3. memos' \subseteq Reqs /\ up' \in Seq(Reqs)
  BY <1>1 DEF IInv, TypeOK
<1>. QED  BY <1>1, <1>2, <1>3, SameMessages, ClientStep DEF IInv

(* The next message for the client.                                        *)
LEMMA ReceiveFacts ==
    ASSUME IInv, NEW op, Receive(op)
    PROVE  /\ Head(down) \in DownMessages /\ Head(down).op = op /\ MessagesInv'
           /\ UNCHANGED <<serving, crashes, unsent, up, dreq, listenVars, eventVars>>
<1>1. down # <<>> /\ Head(down).op = op /\ down' = Tail(down)
  BY DEF Receive
<1>2. UNCHANGED <<serving, crashes, unsent, up, dreq, listenVars, eventVars>>
  BY DEF Receive
<1>. QED  BY <1>1, <1>2, TailFacts DEF IInv, MessagesInv

LEMMA ReplyReadStep == ASSUME IInv, api_dbus_client_on_reply PROVE IInv'
<1>1. PICK op \in Answers : Receive(op)
  BY DEF api_dbus_client_on_reply, Answers
<1>2. PICK m : m = Head(down)
  OBVIOUS
<1>3. /\ m \in DownMessages /\ m.op = op /\ MessagesInv'
      /\ UNCHANGED <<serving, crashes, unsent, up, dreq, listenVars, eventVars>>
  BY <1>1, <1>2, ReceiveFacts
<1>4. m.of \in Reqs /\ m.closing \in BOOLEAN
  BY <1>3 DEF DownMessages
<1>5. PICK r \in Reqs : r = m.of
  BY <1>4
<1>6. /\ areq' = [areq EXCEPT ![r] = RepliedWith(areq[r], m)]
      /\ memos' = memos \ {r} /\ cevents' = cevents
  BY <1>2, <1>5 DEF api_dbus_client_on_reply
<1>7. areq \in [Reqs -> RequestRecords]
  BY DEF IInv, TypeOK, RequestRecords
<1>8. RepliedWith(areq[r], m) \in RequestRecords
  <2>1. PICK a \in RequestRecords : a = areq[r]
    BY <1>7
  <2>2. PICK c \in BOOLEAN : c = IF m.op = "reply" THEN m.closing ELSE a.closing
    <3>1. a.closing \in BOOLEAN
      BY <2>1 DEF RequestRecords
    <3>. QED  BY <1>4, <3>1
  <2>3. PICK k \in Nat : k = a.replies + 1
    BY DEF RequestRecords
  <2>4. PICK b : b = [a EXCEPT !.replies = k]
    OBVIOUS
  <2>5. PICK d : d = [b EXCEPT !.kind = op]
    OBVIOUS
  <2>6. PICK e : e = [d EXCEPT !.st = "ended"]
    OBVIOUS
  <2>7. b \in RequestRecords /\ b.closing = a.closing
    BY <2>3, <2>4 DEF RequestRecords
  <2>8. d \in RequestRecords /\ d.closing = a.closing
    BY <2>5, <2>7 DEF RequestRecords, Answers
  <2>9. e \in RequestRecords /\ e.closing = a.closing
    BY <2>6, <2>8 DEF RequestRecords
  <2>10. RepliedWith(a, m) = [e EXCEPT !.closing = IF m.op = "reply" THEN m.closing ELSE e.closing]
    BY ONLY <1>3, <2>3, <2>4, <2>5, <2>6 DEF RepliedWith
  <2>11. RepliedWith(a, m) = [e EXCEPT !.closing = c]
    BY ONLY <2>2, <2>9, <2>10
  <2>. QED  BY <2>1, <2>9, <2>11 DEF RequestRecords
<1>9. areq' \in [Reqs -> RequestRecords]
  BY <1>6, <1>7, <1>8
<1>10. memos' \subseteq Reqs /\ up' \in Seq(Reqs)
  BY <1>3, <1>6 DEF IInv, TypeOK
<1>. QED  BY <1>3, <1>6, <1>9, <1>10, ClientStep

-----------------------------------------------------------------------------
(* The client: the events that it knows.                                   *)

KnownEvents == [id : 1..MaxEventId, name : Names, refcount : Nat \ {0}, watch : [Sessions -> Nat]]

LEMMA KnownFacts ==
    ASSUME NEW e \in KnownEvents
    PROVE  /\ e.refcount \in Nat \ {0}
           /\ \A x \in Nat \ {0} : [e EXCEPT !.refcount = x] \in KnownEvents
BY DEF KnownEvents

(* SelectInSeq gives the place of an element that passes the test, or 0.   *)
LEMMA EventOfFacts ==
    ASSUME NEW S, cevents \in Seq(S), NEW m
    PROVE  /\ EventOf(m) # 0 => /\ EventOf(m) \in DOMAIN cevents
                                /\ cevents[EventOf(m)].id = m.id
                                /\ cevents[EventOf(m)].name = m.name
           /\ EventOf(m) = 0 => \A i \in DOMAIN cevents :
                                  ~(cevents[i].id = m.id /\ cevents[i].name = m.name)
<1> DEFINE I == {i \in 1..Len(cevents) : cevents[i].id = m.id /\ cevents[i].name = m.name}
<1>0. DOMAIN cevents = 1..Len(cevents) /\ Len(cevents) \in Nat
  BY LenProperties
<1>1. EventOf(m) = IF I # {} THEN Min(I) ELSE 0
  BY DEF EventOf, SelectInSeq
<1>2. ASSUME I # {} PROVE Min(I) \in I
  <2>1. I \in SUBSET Nat
    BY <1>0
  <2>. QED  BY <1>2, <2>1, MinExists DEF Min
<1>. QED  BY <1>0, <1>1, <1>2

LEMMA EventReadStep ==
    ASSUME IInv, NEW op, Receive(op), UNCHANGED <<memos, areq>>, cevents' \in Seq(KnownEvents)
    PROVE  IInv'
<1>1. MessagesInv' /\ UNCHANGED <<serving, crashes, unsent, up, dreq, listenVars, eventVars>>
  BY ReceiveFacts
<1>2. TypeOK'
  BY <1>1 DEF IInv, TypeOK, listenVars, eventVars, KnownEvents
<1>. QED  BY <1>1, <1>2, QuietStep DEF eventVars

LEMMA KnownOnes ==
    ASSUME IInv
    PROVE  cevents \in Seq(KnownEvents) /\ \A i \in DOMAIN cevents : cevents[i] \in KnownEvents
<1>1. cevents \in Seq(KnownEvents)
  BY DEF IInv, TypeOK, KnownEvents
<1>. QED  BY <1>1, ElementOfSeq, LenProperties

LEMMA EventCreateStep == ASSUME IInv, api_dbus_client_event_create PROVE IInv'
<1>1. Receive("+") /\ UNCHANGED <<memos, areq>>
  BY DEF api_dbus_client_event_create
<1>2. PICK m : m = Head(down)
  OBVIOUS
<1>3. PICK i : i = EventOf(m)
  OBVIOUS
<1>4. /\ m \in DownMessages /\ m.op = "+" /\ cevents \in Seq(KnownEvents)
      /\ \A k \in DOMAIN cevents : cevents[k] \in KnownEvents
  BY <1>1, <1>2, ReceiveFacts, KnownOnes
<1>5. cevents' \in Seq(KnownEvents)
  <2>1. CASE i # 0
    <3>1. i \in DOMAIN cevents
      BY <1>3, <1>4, <2>1, EventOfFacts
    <3>2. cevents' = [cevents EXCEPT ![i] = [cevents[i] EXCEPT !.refcount = @ + 1]]
      BY <1>2, <1>3, <2>1 DEF api_dbus_client_event_create
    <3>3. [cevents[i] EXCEPT !.refcount = @ + 1] \in KnownEvents
      <4>1. cevents[i].refcount + 1 \in Nat \ {0}
        BY <1>4, <3>1, KnownFacts
      <4>. QED  BY <1>4, <3>1, <4>1, KnownFacts
    <3>. QED  BY <1>4, <3>1, <3>2, <3>3, UpdateFacts
  <2>2. CASE i = 0
    <3>1. PICK e : e = [id |-> m.id, name |-> m.name, refcount |-> 1, watch |-> NoWatch]
      OBVIOUS
    <3>2. e \in KnownEvents
      <4>1. m.id \in 1..MaxEventId /\ m.name \in Names
        BY <1>4, BoundsAssumption DEF DownMessages, EventOps
      <4>2. NoWatch \in [Sessions -> Nat]
        BY DEF NoWatch
      <4>. QED  BY <3>1, <4>1, <4>2 DEF KnownEvents
    <3>3. cevents' = <<e>> \o cevents
      BY <1>2, <1>3, <2>2, <3>1 DEF api_dbus_client_event_create
    <3>. QED  BY <1>4, <3>2, <3>3, ConsFacts
  <2>. QED  BY <2>1, <2>2
<1>. QED  BY <1>1, <1>5, EventReadStep

LEMMA EventDropStep == ASSUME IInv, api_dbus_client_event_drop PROVE IInv'
<1>1. Receive("-") /\ UNCHANGED <<memos, areq>>
  BY DEF api_dbus_client_event_drop
<1>2. PICK i : i = EventOf(Head(down))
  OBVIOUS
<1>3. /\ cevents \in Seq(KnownEvents)
      /\ \A k \in DOMAIN cevents : cevents[k] \in KnownEvents
  BY KnownOnes
<1>4. cevents' \in Seq(KnownEvents)
  <2>1. CASE i = 0
    BY <1>2, <1>3, <2>1 DEF api_dbus_client_event_drop
  <2>2. CASE i # 0
    <3>1. i \in DOMAIN cevents /\ DOMAIN cevents = 1..Len(cevents)
      BY <1>2, <1>3, <2>2, EventOfFacts, LenProperties
    <3>2. CASE cevents[i].refcount > 1
      <4>1. cevents' = [cevents EXCEPT ![i] = [cevents[i] EXCEPT !.refcount = @ - 1]]
        BY <1>2, <2>2, <3>2 DEF api_dbus_client_event_drop
      <4>2. [cevents[i] EXCEPT !.refcount = @ - 1] \in KnownEvents
        <5>1. cevents[i].refcount - 1 \in Nat \ {0}
          BY <1>3, <3>1, <3>2, KnownFacts
        <5>. QED  BY <1>3, <3>1, <5>1, KnownFacts
      <4>. QED  BY <1>3, <3>1, <4>1, <4>2, UpdateFacts
    <3>3. CASE ~(cevents[i].refcount > 1)
      <4>1. cevents' = RemoveAt(cevents, i)
        BY <1>2, <2>2, <3>3 DEF api_dbus_client_event_drop
      <4>. QED  BY <1>3, <3>1, <4>1, RemoveFacts
    <3>. QED  BY <3>2, <3>3
  <2>. QED  BY <2>1, <2>2
<1>. QED  BY <1>1, <1>4, EventReadStep

LEMMA SubscriptionStep ==
    ASSUME IInv, api_dbus_client_event_subscribe \/ api_dbus_client_event_unsubscribe
    PROVE  IInv'
<1>1. PICK op \in {"S", "U"} : Receive(op)
  BY DEF api_dbus_client_event_subscribe, api_dbus_client_event_unsubscribe
<1>2. UNCHANGED <<memos, areq>>
  BY DEF api_dbus_client_event_subscribe, api_dbus_client_event_unsubscribe
<1>3. PICK m : m = Head(down)
  OBVIOUS
<1>4. PICK i : i = EventOf(m)
  OBVIOUS
<1>5. /\ cevents \in Seq(KnownEvents)
      /\ \A k \in DOMAIN cevents : cevents[k] \in KnownEvents
  BY KnownOnes
<1>6. cevents' \in Seq(KnownEvents)
  <2>1. CASE ~Subscription(m)
    BY <1>3, <1>5, <2>1 DEF api_dbus_client_event_subscribe, api_dbus_client_event_unsubscribe
  <2>2. CASE Subscription(m)
    <3>1. i \in DOMAIN cevents
      BY <1>4, <1>5, <2>2, EventOfFacts DEF Subscription
    <3>2. Owner[m.of] \in Sessions
      BY <2>2, OwnerAssumption DEF Subscription, IInv, TypeOK
    <3>3. PICK c \in Sessions : c = Owner[m.of]
      BY <3>2
    <3>4. \E x \in Nat : cevents' = [cevents EXCEPT ![i].watch[c] = x]
      <4>1. cevents[i].watch[c] \in Nat
        BY <1>5, <3>1 DEF KnownEvents
      <4>2. \/ cevents' = [cevents EXCEPT ![i].watch[c] = @ + 1]
            \/ cevents' = [cevents EXCEPT ![i].watch[c] = IF @ > 0 THEN @ - 1 ELSE 0]
        BY <1>3, <1>4, <2>2, <3>3
           DEF api_dbus_client_event_subscribe, api_dbus_client_event_unsubscribe
      <4>3. CASE cevents' = [cevents EXCEPT ![i].watch[c] = @ + 1]
        <5>1. cevents' = [cevents EXCEPT ![i].watch[c] = cevents[i].watch[c] + 1]
          BY <4>3
        <5>2. cevents[i].watch[c] + 1 \in Nat
          BY <4>1
        <5>. QED  BY <5>1, <5>2
      <4>4. CASE cevents' = [cevents EXCEPT ![i].watch[c] = IF @ > 0 THEN @ - 1 ELSE 0]
        <5>1. PICK x : x = IF cevents[i].watch[c] > 0 THEN cevents[i].watch[c] - 1 ELSE 0
          OBVIOUS
        <5>2. cevents' = [cevents EXCEPT ![i].watch[c] = x]
          BY <4>4, <5>1
        <5>3. x \in Nat
          BY <4>1, <5>1
        <5>. QED  BY <5>2, <5>3
      <4>. QED  BY <4>2, <4>3, <4>4
    <3>5. PICK x \in Nat : cevents' = [cevents EXCEPT ![i].watch[c] = x]
      BY <3>4
    <3>6. cevents' = [cevents EXCEPT ![i] = [cevents[i] EXCEPT !.watch = [cevents[i].watch EXCEPT ![c] = x]]]
      BY <3>5
    <3>7. [cevents[i] EXCEPT !.watch = [cevents[i].watch EXCEPT ![c] = x]] \in KnownEvents
      <4>1. cevents[i] \in KnownEvents
        BY <1>5, <3>1
      <4>2. [cevents[i].watch EXCEPT ![c] = x] \in [Sessions -> Nat]
        BY <4>1 DEF KnownEvents
      <4>. QED  BY <4>1, <4>2 DEF KnownEvents
    <3>. QED  BY <1>5, <3>1, <3>6, <3>7, UpdateFacts
  <2>. QED  BY <2>1, <2>2
<1>. QED  BY <1>1, <1>2, <1>6, EventReadStep

LEMMA PushReadStep == ASSUME IInv, api_dbus_client_event_push PROVE IInv'
<1>1. PICK op \in {"!", "*"} : Receive(op)
  BY DEF api_dbus_client_event_push
<1>2. UNCHANGED <<cevents, memos, areq>>
  BY DEF api_dbus_client_event_push, clientVars
<1>3. cevents' \in Seq(KnownEvents)
  BY <1>2, KnownOnes
<1>. QED  BY <1>1, <1>2, <1>3, EventReadStep

-----------------------------------------------------------------------------
(* The server: the listeners of the sessions.                              *)

DreqRecords == [st : {"none", "running", "replied"}, listener : Nat, closing : BOOLEAN]

LEMMA CookiesFacts ==
    ASSUME NEW C, C \subseteq Sessions
    PROVE  /\ IsFiniteSet(C) /\ Cardinality(C) \in Nat /\ Cardinality(C) <= Cardinality(Sessions)
           /\ Cardinality(Sessions) \in Nat /\ Cardinality(C) \in 0..Cardinality(Sessions)
<1>1. C \in SUBSET Sessions
  OBVIOUS
<1>2. IsFiniteSet(C) /\ Cardinality(C) <= Cardinality(Sessions)
  BY <1>1, BoundsAssumption, FS_Subset
<1>3. Cardinality(Sessions) \in Nat /\ Cardinality(C) \in Nat
  BY <1>2, BoundsAssumption, FS_CardinalityType
<1>. QED  BY <1>2, <1>3

LEMMA NobodyWatches ==
    ASSUME watch' = [n \in Names |-> 0], subs' = NoSubs
    PROVE  WatchInv' /\ watch' \in [Names -> Nat] /\ subs' \in [Sessions -> [Names -> Nat]]
<1>1. ASSUME NEW n \in Names PROVE Cardinality({s \in Sessions : subs'[s][n] = 1}) = 0
  <2>1. {s \in Sessions : subs'[s][n] = 1} = {}
    BY DEF NoSubs
  <2>. QED  BY <2>1, FS_EmptySet
<1>2. subs' \in [Sessions -> [Names -> Nat]] /\ \A s \in Sessions, n \in Names : subs'[s][n] = 0
  BY DEF NoSubs
<1>3. watch' \in [Names -> Nat] /\ \A n \in Names : watch'[n] = 0
  OBVIOUS
<1>. QED  BY <1>1, <1>2, <1>3 DEF WatchInv

(* All is gone with the server but the errors that the bus sends.          *)
LEMMA CrashStep == ASSUME IInv, Crash PROVE IInv'
<1>1. /\ serving' = FALSE /\ crashes' = crashes + 1 /\ crashes < MaxCrashes /\ up' = <<>>
      /\ down' = down \o BusErrors /\ dreq' = [r \in Reqs |-> NoDreq]
      /\ closes' = [s \in Sessions |-> 0] /\ cookies' = {} /\ destination' = 0 /\ listener' = 0
      /\ last_id' = 0 /\ event' = [n \in Names |-> 0]
      /\ watch' = [n \in Names |-> 0] /\ subs' = NoSubs /\ UNCHANGED clientVars
      /\ unsent' = {}
  BY DEF Crash
<1>2. MessagesInv'
  BY <1>1, BusErrorsFacts, ConcatMessages DEF IInv
<1>3. WatchInv' /\ watch' \in [Names -> Nat] /\ subs' \in [Sessions -> [Names -> Nat]]
  BY <1>1, NobodyWatches
<1>4. CountsInv'
  <2>1. Cardinality({}) = 0
    BY FS_EmptySet
  <2>. QED  BY <1>1, <2>1 DEF CountsInv
<1>5. \A r \in Reqs : dreq'[r].st = "none"
  BY <1>1 DEF NoDreq
<1>6. ListenerInv'
  BY <1>5 DEF ListenerInv
<1>7. dreq' \in [Reqs -> DreqRecords]
  BY <1>1 DEF NoDreq, DreqRecords
<1>8. crashes' \in 0..MaxCrashes /\ 0 \in 0..MaxEventId
  BY <1>1, BoundsAssumption DEF IInv, TypeOK
<1>9. event' \in [Names -> 0..MaxEventId] /\ closes' \in [Sessions -> Nat]
  BY <1>1, <1>8
<1>10. 0 \in 0..Cardinality(Sessions)
  BY CookiesFacts
<1>11. serving' \in BOOLEAN /\ up' \in Seq(Reqs) /\ cookies' \subseteq Sessions
  <2>1. serving' = FALSE /\ up' = <<>> /\ cookies' = {}
    BY <1>1
  <2>2. serving' \in BOOLEAN
    BY <2>1, Zenon
  <2>3. <<>> \in Seq(Reqs)
    OBVIOUS
  <2>4. up' \in Seq(Reqs)
    BY <2>1, <2>3
  <2>5. cookies' \subseteq Sessions
    BY <2>1
  <2>. QED  BY <2>2, <2>4, <2>5
<1>12. UNCHANGED <<memos, cevents, areq>>
  BY <1>1 DEF clientVars
<1>13. /\ destination' \in 0..Cardinality(Sessions) /\ listener' \in 0..Cardinality(Sessions)
       /\ last_id' \in 0..MaxEventId
  BY <1>1, <1>8, <1>10
<1>14. TypeOK'
  BY <1>1, <1>3, <1>7, <1>8, <1>9, <1>11, <1>12, <1>13 DEF IInv, TypeOK, DreqRecords
<1>. QED  BY <1>2, <1>3, <1>4, <1>6, <1>14 DEF IInv

(* The session of a request that was read has its listener.                *)
LEMMA CalledStep == ASSUME IInv, api_dbus_server_on_object_called PROVE IInv'
<1>1. up # <<>> /\ up' = Tail(up) /\ UNCHANGED <<serving, crashes, unsent, clientVars, closes, eventVars, down>>
  BY DEF api_dbus_server_on_object_called, ReadCall
<1>2. up \in Seq(Reqs)
  BY DEF IInv, TypeOK
<1>3. up' \in Seq(Reqs) /\ Head(up) \in Reqs
  BY <1>1, <1>2, TailFacts
<1>4. PICK r \in Reqs : r = Head(up)
  BY <1>3
<1>5. PICK s \in Sessions : s = Owner[r]
  BY OwnerAssumption
<1>6. /\ listerner_get(s)
      /\ dreq' = [dreq EXCEPT ![r] = [st |-> "running", listener |-> closes[s],
                                      closing |-> r \in Closers]]
  BY <1>4, <1>5 DEF api_dbus_server_on_object_called
<1>7. dreq \in [Reqs -> DreqRecords] /\ closes \in [Sessions -> Nat]
  BY DEF IInv, TypeOK, DreqRecords
<1>8. /\ dreq' \in [Reqs -> DreqRecords] /\ dreq'[r].listener = closes[s]
      /\ \A q \in Reqs \ {r} : dreq'[q] = dreq[q]
  <2>1. PICK b \in BOOLEAN : b = (r \in Closers)
    <3>1. CASE r \in Closers
      <4>1. TRUE = (r \in Closers)
        BY <3>1
      <4>. QED  BY <4>1
    <3>2. CASE r \notin Closers
      <4>1. FALSE = (r \in Closers)
        BY <3>2
      <4>. QED  BY <4>1
    <3>. QED  BY <3>1, <3>2
  <2>2. PICK d : d = [st |-> "running", listener |-> closes[s], closing |-> b]
    OBVIOUS
  <2>3. d \in DreqRecords /\ d.listener = closes[s]
    BY <1>7, <2>1, <2>2 DEF DreqRecords
  <2>4. dreq' = [dreq EXCEPT ![r] = d]
    BY <1>6, <2>1, <2>2
  <2>. QED  BY <1>7, <2>3, <2>4
<1>9. cookies' = cookies \cup {s} /\ cookies' \subseteq Sessions
  BY <1>6 DEF listerner_get, IInv, TypeOK
<1>10. CountsInv'
  <2>1. IsFiniteSet(cookies) /\ Cardinality(cookies) \in Nat
    BY CookiesFacts DEF IInv, TypeOK
  <2>2. destination = Cardinality(cookies) /\ listener = Cardinality(cookies)
    BY DEF IInv, CountsInv
  <2>3. CASE s \in cookies
    <3>1. destination' = destination + 0 /\ listener' = listener + 0
      BY <1>6, <2>3 DEF listerner_get
    <3>2. cookies' = cookies
      BY <1>9, <2>3
    <3>. QED  BY <2>1, <2>2, <3>1, <3>2 DEF CountsInv
  <2>4. CASE s \notin cookies
    <3>1. destination' = destination + 1 /\ listener' = listener + 1
      BY <1>6, <2>4 DEF listerner_get
    <3>2. Cardinality(cookies \cup {s}) = Cardinality(cookies) + 1
      BY <2>1, <2>4, FS_AddElement
    <3>. QED  BY <1>9, <2>2, <3>1, <3>2 DEF CountsInv
  <2>. QED  BY <2>3, <2>4
<1>11. destination' \in 0..Cardinality(Sessions) /\ listener' \in 0..Cardinality(Sessions)
  BY <1>9, <1>10, CookiesFacts DEF CountsInv
<1>12. TypeOK'
  BY <1>1, <1>3, <1>8, <1>9, <1>11 DEF IInv, TypeOK, clientVars, eventVars, DreqRecords
<1>13. ListenerInv'
  <2> SUFFICES ASSUME NEW q \in Reqs, dreq'[q].st # "none"
               PROVE  /\ dreq'[q].listener <= closes'[Owner[q]]
                      /\ dreq'[q].listener # closes'[Owner[q]] \/ Owner[q] \in cookies'
    BY DEF ListenerInv, Stale
  <2>1. CASE q = r
    BY <1>1, <1>5, <1>7, <1>8, <1>9, <2>1
  <2>2. CASE q # r
    <3>1. dreq'[q] = dreq[q] /\ closes' = closes /\ cookies \subseteq cookies'
      BY <1>1, <1>8, <1>9, <2>2
    <3>. QED  BY <3>1 DEF IInv, ListenerInv, Stale
  <2>. QED  BY <2>1, <2>2
<1>14. WatchInv'
  <2>1. cookies' # {}
    BY <1>9
  <2>. QED  BY <1>1, <2>1 DEF IInv, WatchInv, eventVars
<1>15. MessagesInv'
  BY <1>1, SameMessages DEF IInv
<1>. QED  BY <1>10, <1>12, <1>13, <1>14, <1>15 DEF IInv

LEMMA CalledFailedStep == ASSUME IInv, api_dbus_server_on_object_called_failed PROVE IInv'
<1>1. /\ up # <<>> /\ up' = Tail(up) /\ down' = Append(down, Message("error", Head(up), FALSE))
      /\ UNCHANGED <<serving, crashes, unsent, clientVars, eventVars, dreq, listenVars>>
  BY DEF api_dbus_server_on_object_called_failed, ReadCall, listenVars
<1>2. up \in Seq(Reqs)
  BY DEF IInv, TypeOK
<1>3. up' \in Seq(Reqs) /\ Head(up) \in Reqs
  BY <1>1, <1>2, TailFacts
<1>4. Message("error", Head(up), FALSE) \in DownMessages
  BY <1>3, MessageFacts DEF Answers
<1>5. MessagesInv'
  BY <1>1, <1>4, AppendMessage DEF IInv
<1>6. TypeOK'
  BY <1>1, <1>3 DEF IInv, TypeOK, clientVars, listenVars, eventVars
<1>. QED  BY <1>1, <1>5, <1>6, QuietStep DEF eventVars

LEMMA ReplyStep == ASSUME IInv, NEW r \in Reqs, dbus_req_reply(r) PROVE IInv'
<1>1. /\ dreq[r].st = "running" /\ dreq' = [dreq EXCEPT ![r].st = "replied"]
      /\ down' = Append(down, Message("reply", r, dreq[r].closing))
      /\ UNCHANGED <<serving, crashes, unsent, clientVars, up, listenVars, eventVars>>
  BY DEF dbus_req_reply
<1>2. dreq \in [Reqs -> DreqRecords]
  BY DEF IInv, TypeOK, DreqRecords
<1>3. /\ dreq' \in [Reqs -> DreqRecords]
      /\ \A q \in Reqs : dreq'[q].listener = dreq[q].listener
      /\ \A q \in Reqs \ {r} : dreq'[q] = dreq[q]
  BY <1>1, <1>2 DEF DreqRecords
<1>4. dreq[r].closing \in BOOLEAN
  BY <1>2 DEF DreqRecords
<1>5. Message("reply", r, dreq[r].closing) \in DownMessages
  BY <1>4, MessageFacts DEF Answers
<1>6. MessagesInv'
  BY <1>1, <1>5, AppendMessage DEF IInv
<1>7. TypeOK'
  BY <1>1, <1>3 DEF IInv, TypeOK, clientVars, listenVars, eventVars, DreqRecords
<1>8. \A q \in Reqs : dreq'[q].st # "none" =>
         dreq[q].st # "none" /\ dreq'[q].listener = dreq[q].listener
  BY <1>1, <1>3
<1>. QED  BY <1>1, <1>6, <1>7, <1>8, QuietStep DEF eventVars

LEMMA ReplyFailedStep == ASSUME IInv, NEW r \in Reqs, dbus_req_reply_failed(r) PROVE IInv'
<1>1. /\ dreq[r].st = "running" /\ dreq' = [dreq EXCEPT ![r].st = "replied"]
      /\ unsent' = unsent \cup {r}
      /\ UNCHANGED <<serving, crashes, clientVars, up, down, listenVars, eventVars>>
  BY DEF dbus_req_reply_failed
<1>2. dreq \in [Reqs -> DreqRecords]
  BY DEF IInv, TypeOK, DreqRecords
<1>3. /\ dreq' \in [Reqs -> DreqRecords]
      /\ \A q \in Reqs : dreq'[q].listener = dreq[q].listener
      /\ \A q \in Reqs \ {r} : dreq'[q] = dreq[q]
  BY <1>1, <1>2 DEF DreqRecords
<1>4. MessagesInv'
  BY <1>1, SameMessages DEF IInv
<1>5. TypeOK'
  BY <1>1, <1>3 DEF IInv, TypeOK, clientVars, listenVars, eventVars, DreqRecords
<1>6. \A q \in Reqs : dreq'[q].st # "none" =>
         dreq[q].st # "none" /\ dreq'[q].listener = dreq[q].listener
  BY <1>1, <1>3
<1>. QED  BY <1>1, <1>4, <1>5, <1>6, QuietStep DEF eventVars

(* The listener of a session that is closed leaves the destination; the    *)
(* last one takes the watches with it, and the requests of the session are *)
(* stale.                                                                  *)
LEMMA CloseFacts ==
    ASSUME IInv, NEW s \in Sessions, CloseSession(s), UNCHANGED event,
           \A r \in Reqs : dreq'[r].st # "none" =>
               dreq[r].st # "none" /\ dreq'[r].listener = dreq[r].listener
    PROVE  /\ closes' \in [Sessions -> Nat] /\ cookies' \subseteq Sessions
           /\ destination' \in 0..Cardinality(Sessions) /\ listener' \in 0..Cardinality(Sessions)
           /\ watch' \in [Names -> Nat] /\ subs' \in [Sessions -> [Names -> Nat]]
           /\ MessagesInv' /\ CountsInv' /\ ListenerInv' /\ WatchInv'
<1>1. /\ closes' = [closes EXCEPT ![s] = @ + 1] /\ cookies' = cookies \ {s}
      /\ down' = down \o EndMessages(s)
  BY DEF CloseSession
<1>2. /\ closes \in [Sessions -> Nat] /\ cookies \subseteq Sessions
      /\ watch \in [Names -> Nat] /\ subs \in [Sessions -> [Names -> Nat]]
  BY DEF IInv, TypeOK
<1>3. /\ closes' \in [Sessions -> Nat] /\ closes'[s] = closes[s] + 1
      /\ \A t \in Sessions \ {s} : closes'[t] = closes[t]
  BY <1>1, <1>2
<1>4. cookies' \subseteq Sessions
  BY <1>1, <1>2
<1>5. MessagesInv'
  BY <1>1, EndMessagesFacts, ConcatMessages DEF IInv
<1>6. IsFiniteSet(cookies) /\ Cardinality(cookies) \in Nat
  BY <1>2, CookiesFacts
<1>7. destination = Cardinality(cookies) /\ listener = Cardinality(cookies)
  BY DEF IInv, CountsInv
<1>8. CountsInv'
  <2>1. CASE s \in cookies
    <3>1. destination' = destination - 1 /\ listener' = listener - 1
      BY <2>1 DEF CloseSession
    <3>2. Cardinality(cookies \ {s}) = Cardinality(cookies) - 1
      BY <1>6, <2>1, FS_RemoveElement
    <3>. QED  BY <1>1, <1>7, <3>1, <3>2 DEF CountsInv
  <2>2. CASE s \notin cookies
    <3>1. destination' = destination - 0 /\ listener' = listener - 0
      BY <2>2 DEF CloseSession
    <3>2. cookies' = cookies
      BY <1>1, <2>2
    <3>. QED  BY <1>6, <1>7, <3>1, <3>2 DEF CountsInv
  <2>. QED  BY <2>1, <2>2
<1>9. destination' \in 0..Cardinality(Sessions) /\ listener' \in 0..Cardinality(Sessions)
  BY <1>4, <1>8, CookiesFacts DEF CountsInv
<1>10. ListenerInv'
  <2> SUFFICES ASSUME NEW r \in Reqs, dreq'[r].st # "none"
               PROVE  /\ dreq'[r].listener <= closes'[Owner[r]]
                      /\ dreq'[r].listener # closes'[Owner[r]] \/ Owner[r] \in cookies'
    BY DEF ListenerInv, Stale
  <2>1. /\ dreq[r].listener <= closes[Owner[r]] /\ dreq'[r].listener = dreq[r].listener
        /\ dreq[r].listener # closes[Owner[r]] \/ Owner[r] \in cookies
    BY DEF IInv, ListenerInv, Stale
  <2>2. Owner[r] \in Sessions /\ dreq[r].listener \in Nat
    BY OwnerAssumption DEF IInv, TypeOK
  <2>3. CASE Owner[r] = s
    BY <1>2, <1>3, <2>1, <2>2, <2>3
  <2>4. CASE Owner[r] # s
    BY <1>1, <1>3, <2>1, <2>2, <2>4
  <2>. QED  BY <2>3, <2>4
<1>11. /\ WatchInv' /\ watch' \in [Names -> Nat] /\ subs' \in [Sessions -> [Names -> Nat]]
  <2>1. CASE s \in cookies /\ listener = 1
    <3>1. watch' = [n \in Names |-> 0] /\ subs' = NoSubs
      BY <2>1 DEF CloseSession
    <3>. QED  BY <3>1, NobodyWatches
  <2>2. CASE ~(s \in cookies /\ listener = 1)
    <3>1. watch' = watch /\ subs' = subs
      BY <2>2 DEF CloseSession
    <3>2. ASSUME cookies # {} PROVE cookies' # {}
      <4>1. CASE s \notin cookies
        BY <1>1, <3>2, <4>1
      <4>2. CASE s \in cookies
        <5>1. Cardinality(cookies) # 1
          BY <1>7, <2>2, <4>2
        <5>2. cookies # {s}
          BY <5>1, FS_Singleton
        <5>. QED  BY <1>1, <4>2, <5>2
      <4>. QED  BY <4>1, <4>2
    <3>3. WatchInv'
      BY <3>1, <3>2 DEF IInv, WatchInv
    <3>. QED  BY <1>2, <3>1, <3>3
  <2>. QED  BY <2>1, <2>2
<1>. QED  BY <1>3, <1>4, <1>5, <1>8, <1>9, <1>10, <1>11

LEMMA ExpiresStep == ASSUME IInv, NEW s \in Sessions, SessionExpires(s) PROVE IInv'
<1>1. CloseSession(s) /\ UNCHANGED <<serving, crashes, unsent, clientVars, up, dreq, last_id, event>>
  BY DEF SessionExpires
<1>2. /\ closes' \in [Sessions -> Nat] /\ cookies' \subseteq Sessions
      /\ destination' \in 0..Cardinality(Sessions) /\ listener' \in 0..Cardinality(Sessions)
      /\ watch' \in [Names -> Nat] /\ subs' \in [Sessions -> [Names -> Nat]]
      /\ MessagesInv' /\ CountsInv' /\ ListenerInv' /\ WatchInv'
  BY <1>1, CloseFacts
<1>3. TypeOK'
  BY <1>1, <1>2 DEF IInv, TypeOK, clientVars
<1>. QED  BY <1>2, <1>3 DEF IInv

LEMMA UnrefStep == ASSUME IInv, NEW r \in Reqs, dbus_req_unref(r) PROVE IInv'
<1>1. /\ dreq' = [dreq EXCEPT ![r] = NoDreq]
      /\ UNCHANGED <<serving, crashes, unsent, clientVars, up, last_id, event>>
  BY DEF dbus_req_unref
<1>2. dreq \in [Reqs -> DreqRecords] /\ NoDreq \in DreqRecords /\ NoDreq.st = "none"
  BY DEF IInv, TypeOK, DreqRecords, NoDreq
<1>3. /\ dreq' \in [Reqs -> DreqRecords] /\ dreq'[r].st = "none"
      /\ \A q \in Reqs \ {r} : dreq'[q] = dreq[q]
  BY <1>1, <1>2
<1>4. \A q \in Reqs : dreq'[q].st # "none" =>
         dreq[q].st # "none" /\ dreq'[q].listener = dreq[q].listener
  BY <1>3
<1>5. CASE CloseSession(Owner[r])
  <2>1. PICK s \in Sessions : s = Owner[r]
    BY OwnerAssumption
  <2>2. CloseSession(s)
    BY <1>5, <2>1
  <2>3. /\ closes' \in [Sessions -> Nat] /\ cookies' \subseteq Sessions
        /\ destination' \in 0..Cardinality(Sessions) /\ listener' \in 0..Cardinality(Sessions)
        /\ watch' \in [Names -> Nat] /\ subs' \in [Sessions -> [Names -> Nat]]
        /\ MessagesInv' /\ CountsInv' /\ ListenerInv' /\ WatchInv'
    BY <1>1, <1>4, <2>2, CloseFacts
  <2>4. TypeOK'
    BY <1>1, <1>3, <2>3 DEF IInv, TypeOK, clientVars, DreqRecords
  <2>. QED  BY <2>3, <2>4 DEF IInv
<1>6. CASE UNCHANGED <<down, listenVars, watch, subs>>
  <2>1. TypeOK'
    BY <1>1, <1>3, <1>6 DEF IInv, TypeOK, clientVars, listenVars, DreqRecords
  <2>2. MessagesInv'
    BY <1>6, SameMessages DEF IInv
  <2>. QED  BY <1>1, <1>4, <1>6, <2>1, <2>2, QuietStep
<1>. QED  BY <1>5, <1>6 DEF dbus_req_unref

-----------------------------------------------------------------------------
(* The server: the events.                                                 *)

(* Only the watches, the events and the messages about them change.        *)
LEMMA ServerEventStep ==
    ASSUME IInv, UNCHANGED <<serving, crashes, unsent, clientVars, up, dreq, listenVars>>,
           last_id' \in 0..MaxEventId, event' \in [Names -> 0..MaxEventId],
           watch' \in [Names -> Nat], subs' \in [Sessions -> [Names -> Nat]],
           WatchInv', MessagesInv'
    PROVE  IInv'
<1>1. TypeOK'
  BY DEF IInv, TypeOK, clientVars, listenVars
<1>2. CountsInv' /\ ListenerInv'
  BY CountsKept, ListenerKept DEF IInv, listenVars
<1>. QED  BY <1>1, <1>2 DEF IInv

(* The sessions subscribed to an event.                                    *)
LEMMA SubscribersCount ==
    ASSUME NEW n
    PROVE  /\ IsFiniteSet({s \in Sessions : subs[s][n] = 1})
           /\ Cardinality({s \in Sessions : subs[s][n] = 1}) \in Nat
BY BoundsAssumption, FS_Subset, FS_CardinalityType

(* A request that is not stale has its listener: somebody listens.         *)
LEMMA SomebodyListens ==
    ASSUME IInv, NEW r \in Reqs, dreq[r].st = "running", ~Stale(r)
    PROVE  cookies # {}
BY DEF IInv, ListenerInv

LEMMA SubscribeStep ==
    ASSUME IInv, NEW r \in Reqs, NEW n \in Names, dbus_req_subscribe(r, n)
    PROVE  IInv'
<1>1. PICK c \in Sessions : c = Owner[r]
  BY OwnerAssumption
<1>2. /\ dreq[r].st = "running" /\ ~Stale(r) /\ event[n] # 0 /\ subs[c][n] = 0
      /\ watch' = [watch EXCEPT ![n] = @ + 1] /\ subs' = [subs EXCEPT ![c][n] = @ + 1]
      /\ UNCHANGED <<serving, crashes, unsent, clientVars, up, dreq, listenVars, last_id, event>>
  BY <1>1 DEF dbus_req_subscribe
<1>3. watch \in [Names -> Nat] /\ subs \in [Sessions -> [Names -> Nat]]
  BY DEF IInv, TypeOK
<1>4. /\ watch' \in [Names -> Nat] /\ watch'[n] = watch[n] + 1
      /\ \A m \in Names \ {n} : watch'[m] = watch[m]
  BY <1>2, <1>3
<1>5. /\ subs' \in [Sessions -> [Names -> Nat]] /\ subs'[c][n] = 1
      /\ \A d \in Sessions, m \in Names : d # c \/ m # n => subs'[d][m] = subs[d][m]
  BY <1>2, <1>3
<1>6. cookies' = cookies /\ cookies # {}
  BY <1>2, SomebodyListens DEF listenVars
<1>7. WatchInv'
  <2>1. ASSUME NEW m \in Names, m # n
        PROVE  /\ \A d \in Sessions : subs'[d][m] \in 0..1
               /\ watch'[m] = Cardinality({d \in Sessions : subs'[d][m] = 1})
               /\ watch'[m] > 0 => event'[m] # 0 /\ cookies' # {}
    <3>1. {d \in Sessions : subs'[d][m] = 1} = {d \in Sessions : subs[d][m] = 1}
      BY <1>5, <2>1
    <3>2. /\ \A d \in Sessions : subs[d][m] \in 0..1
          /\ watch[m] = Cardinality({d \in Sessions : subs[d][m] = 1})
          /\ watch[m] > 0 => event[m] # 0
      BY DEF IInv, WatchInv
    <3>3. event'[m] = event[m] /\ watch'[m] = watch[m]
      BY <1>2, <1>4, <2>1
    <3>4. \A d \in Sessions : subs'[d][m] = subs[d][m]
      BY <1>5, <2>1
    <3>. QED  BY <1>6, <3>1, <3>2, <3>3, <3>4
  <2>2. /\ \A d \in Sessions : subs'[d][n] \in 0..1
        /\ watch'[n] = Cardinality({d \in Sessions : subs'[d][n] = 1})
        /\ event'[n] # 0
    <3> DEFINE S == {d \in Sessions : subs[d][n] = 1}
    <3>1. {d \in Sessions : subs'[d][n] = 1} = S \cup {c}
      BY <1>5
    <3>2. c \notin S /\ IsFiniteSet(S)
      <4>1. c \notin S
        BY <1>2
      <4>2. IsFiniteSet(S)
        BY SubscribersCount
      <4>. QED  BY <4>1, <4>2
    <3>3. Cardinality(S \cup {c}) = Cardinality(S) + 1
      BY <3>2, FS_AddElement
    <3>4. watch[n] = Cardinality(S) /\ \A d \in Sessions : subs[d][n] \in 0..1
      BY DEF IInv, WatchInv
    <3>5. \A d \in Sessions : subs'[d][n] \in 0..1
      BY <1>5, <3>4
    <3>. QED  BY <1>2, <1>4, <3>1, <3>3, <3>4, <3>5
  <2>. QED  BY <1>6, <2>1, <2>2 DEF WatchInv
<1>8. MessagesInv'
  <2>1. PICK e, m : e = EventMsg("+", n) /\ m = ReqMsg("S", n, r)
    OBVIOUS
  <2>2. e \in DownMessages /\ m \in DownMessages
    BY <1>2, <2>1, EventMsgFacts DEF IInv, EventOps, Subscriptions
  <2>3. PICK ms : ms = IF watch[n] = 0 THEN <<e>> ELSE <<>>
    OBVIOUS
  <2>4. ms \in Seq(DownMessages) /\ <<m>> \in Seq(DownMessages)
    BY <2>2, <2>3
  <2>5. down' = (down \o ms) \o <<m>>
    BY <2>1, <2>3 DEF dbus_req_subscribe
  <2>6. down \o ms \in Seq(DownMessages)
    BY <2>4, ConcatProperties DEF IInv, MessagesInv
  <2>. QED  BY <2>4, <2>5, <2>6, ConcatProperties DEF MessagesInv
<1>9. event' \in [Names -> 0..MaxEventId] /\ last_id' \in 0..MaxEventId
  BY <1>2 DEF IInv, TypeOK
<1>. QED  BY <1>2, <1>4, <1>5, <1>7, <1>8, <1>9, ServerEventStep

LEMMA UnsubscribeStep ==
    ASSUME IInv, NEW r \in Reqs, NEW n \in Names, dbus_req_unsubscribe(r, n)
    PROVE  IInv'
<1>1. PICK c \in Sessions : c = Owner[r]
  BY OwnerAssumption
<1>2. /\ dreq[r].st = "running" /\ ~Stale(r) /\ event[n] # 0 /\ subs[c][n] > 0
      /\ down' = down \o Unsubscribed(n, r)
      /\ watch' = [watch EXCEPT ![n] = @ - 1] /\ subs' = [subs EXCEPT ![c][n] = @ - 1]
      /\ UNCHANGED <<serving, crashes, unsent, clientVars, up, dreq, listenVars, last_id, event>>
  BY <1>1 DEF dbus_req_unsubscribe
<1>3. watch \in [Names -> Nat] /\ subs \in [Sessions -> [Names -> Nat]]
  BY DEF IInv, TypeOK
<1> DEFINE S == {d \in Sessions : subs[d][n] = 1}
<1>4. /\ watch[n] = Cardinality(S) /\ \A d \in Sessions : subs[d][n] \in 0..1
      /\ subs[c][n] = 1 /\ c \in S
  <2>1. watch[n] = Cardinality(S) /\ \A d \in Sessions : subs[d][n] \in 0..1
    BY DEF IInv, WatchInv
  <2>2. subs[c][n] = 1
    BY <1>2, <2>1
  <2>. QED  BY <2>1, <2>2
<1>5. Cardinality(S) \in Nat \ {0} /\ Cardinality(S \ {c}) = Cardinality(S) - 1
  <2>1. IsFiniteSet(S) /\ Cardinality(S) \in Nat
    BY SubscribersCount
  <2>. QED  BY <1>4, <2>1, FS_EmptySet, FS_RemoveElement
<1>6. /\ watch' \in [Names -> Nat] /\ watch'[n] = Cardinality(S) - 1
      /\ \A m \in Names \ {n} : watch'[m] = watch[m]
  <2>1. watch[n] - 1 \in Nat
    BY <1>4, <1>5
  <2>. QED  BY <1>2, <1>3, <1>4, <2>1
<1>7. /\ subs' \in [Sessions -> [Names -> Nat]] /\ subs'[c][n] = 0
      /\ \A d \in Sessions, m \in Names : d # c \/ m # n => subs'[d][m] = subs[d][m]
  <2>1. subs' = [subs EXCEPT ![c][n] = 0]
    BY <1>2, <1>4
  <2>. QED  BY <1>3, <2>1
<1>8. cookies' = cookies /\ cookies # {}
  BY <1>2, SomebodyListens DEF listenVars
<1>9. WatchInv'
  <2>1. ASSUME NEW m \in Names, m # n
        PROVE  /\ \A d \in Sessions : subs'[d][m] \in 0..1
               /\ watch'[m] = Cardinality({d \in Sessions : subs'[d][m] = 1})
               /\ watch'[m] > 0 => event'[m] # 0 /\ cookies' # {}
    <3>1. {d \in Sessions : subs'[d][m] = 1} = {d \in Sessions : subs[d][m] = 1}
      BY <1>7, <2>1
    <3>2. /\ \A d \in Sessions : subs[d][m] \in 0..1
          /\ watch[m] = Cardinality({d \in Sessions : subs[d][m] = 1})
          /\ watch[m] > 0 => event[m] # 0
      BY DEF IInv, WatchInv
    <3>3. event'[m] = event[m] /\ watch'[m] = watch[m]
      BY <1>2, <1>6, <2>1
    <3>4. \A d \in Sessions : subs'[d][m] = subs[d][m]
      BY <1>7, <2>1
    <3>. QED  BY <1>8, <3>1, <3>2, <3>3, <3>4
  <2>2. /\ \A d \in Sessions : subs'[d][n] \in 0..1
        /\ watch'[n] = Cardinality({d \in Sessions : subs'[d][n] = 1})
        /\ event'[n] # 0
    <3>1. {d \in Sessions : subs'[d][n] = 1} = S \ {c}
      BY <1>7
    <3>2. \A d \in Sessions : subs'[d][n] \in 0..1
      BY <1>4, <1>7
    <3>. QED  BY <1>2, <1>5, <1>6, <3>1, <3>2
  <2>. QED  BY <1>8, <2>1, <2>2 DEF WatchInv
<1>10. Unsubscribed(n, r) \in Seq(DownMessages)
  <2>1. PICK e, m : e = EventMsg("-", n) /\ m = ReqMsg("U", n, r)
    OBVIOUS
  <2>2. e \in DownMessages /\ m \in DownMessages
    BY <1>2, <2>1, EventMsgFacts DEF IInv, EventOps, Subscriptions
  <2>3. PICK ms : ms = IF watch[n] = 1 THEN <<e>> ELSE <<>>
    OBVIOUS
  <2>4. ms \in Seq(DownMessages) /\ <<m>> \in Seq(DownMessages)
    BY <2>2, <2>3
  <2>5. Unsubscribed(n, r) = <<m>> \o ms
    BY <2>1, <2>3 DEF Unsubscribed
  <2>. QED  BY <2>4, <2>5, ConcatProperties
<1>11. MessagesInv'
  BY <1>2, <1>10, ConcatMessages DEF IInv
<1>12. event' \in [Names -> 0..MaxEventId] /\ last_id' \in 0..MaxEventId
  BY <1>2 DEF IInv, TypeOK
<1>. QED  BY <1>2, <1>6, <1>7, <1>9, <1>11, <1>12, ServerEventStep

LEMMA NewEventStep == ASSUME IInv, NEW n \in Names, EventCreate(n) PROVE IInv'
<1>1. /\ event[n] = 0 /\ last_id < MaxEventId /\ last_id' = last_id + 1
      /\ event' = [event EXCEPT ![n] = last_id + 1]
      /\ UNCHANGED <<serving, crashes, unsent, clientVars, up, down, dreq, listenVars, watch, subs>>
  BY DEF EventCreate
<1>2. last_id \in 0..MaxEventId /\ event \in [Names -> 0..MaxEventId] /\ MaxEventId \in Nat
  BY BoundsAssumption DEF IInv, TypeOK
<1>3. /\ last_id' \in 0..MaxEventId /\ event' \in [Names -> 0..MaxEventId]
      /\ \A m \in Names : event[m] # 0 => event'[m] # 0
  <2>1. last_id + 1 \in 1..MaxEventId
    BY <1>1, <1>2
  <2>. QED  BY <1>1, <1>2, <2>1
<1>4. WatchInv'
  BY <1>1, <1>3 DEF IInv, WatchInv, listenVars
<1>5. MessagesInv'
  BY <1>1, SameMessages DEF IInv
<1>6. watch' \in [Names -> Nat] /\ subs' \in [Sessions -> [Names -> Nat]]
  BY <1>1 DEF IInv, TypeOK
<1>. QED  BY <1>1, <1>3, <1>4, <1>5, <1>6, ServerEventStep

LEMMA EventEndStep == ASSUME IInv, NEW n \in Names, EventDrop(n) PROVE IInv'
<1>1. /\ event[n] # 0 /\ down' = IF watch[n] = 0 THEN down ELSE Append(down, EventMsg("-", n))
      /\ event' = [event EXCEPT ![n] = 0] /\ watch' = [watch EXCEPT ![n] = 0]
      /\ subs' = [s \in Sessions |-> [subs[s] EXCEPT ![n] = 0]]
      /\ UNCHANGED <<serving, crashes, unsent, clientVars, up, dreq, listenVars, last_id>>
  BY DEF EventDrop
<1>2. /\ event \in [Names -> 0..MaxEventId] /\ watch \in [Names -> Nat]
      /\ subs \in [Sessions -> [Names -> Nat]]
  BY DEF IInv, TypeOK
<1>3. /\ event' \in [Names -> 0..MaxEventId] /\ \A m \in Names \ {n} : event'[m] = event[m]
      /\ watch' \in [Names -> Nat] /\ watch'[n] = 0
      /\ \A m \in Names \ {n} : watch'[m] = watch[m]
  BY <1>1, <1>2, BoundsAssumption
<1>4. /\ subs' \in [Sessions -> [Names -> Nat]] /\ \A d \in Sessions : subs'[d][n] = 0
      /\ \A d \in Sessions, m \in Names : m # n => subs'[d][m] = subs[d][m]
  BY <1>1, <1>2
<1>5. WatchInv'
  <2>1. ASSUME NEW m \in Names, m # n
        PROVE  /\ \A d \in Sessions : subs'[d][m] \in 0..1
               /\ watch'[m] = Cardinality({d \in Sessions : subs'[d][m] = 1})
               /\ watch'[m] > 0 => event'[m] # 0 /\ cookies' # {}
    <3>1. {d \in Sessions : subs'[d][m] = 1} = {d \in Sessions : subs[d][m] = 1}
      BY <1>4, <2>1
    <3>2. cookies' = cookies
      BY <1>1 DEF listenVars
    <3>. QED  BY <1>3, <1>4, <2>1, <3>1, <3>2 DEF IInv, WatchInv
  <2>2. /\ \A d \in Sessions : subs'[d][n] \in 0..1
        /\ watch'[n] = Cardinality({d \in Sessions : subs'[d][n] = 1})
        /\ ~(watch'[n] > 0)
    <3>1. {d \in Sessions : subs'[d][n] = 1} = {}
      BY <1>4
    <3>2. Cardinality({d \in Sessions : subs'[d][n] = 1}) = 0
      BY <3>1, FS_EmptySet
    <3>3. \A d \in Sessions : subs'[d][n] \in 0..1
      BY <1>4
    <3>4. watch'[n] = 0
      BY <1>3
    <3>. QED  BY <3>2, <3>3, <3>4
  <2>. QED  BY <2>1, <2>2 DEF WatchInv
<1>6. MessagesInv'
  <2>1. CASE watch[n] = 0
    <3>1. down' = down
      BY <1>1, <2>1
    <3>. QED  BY <3>1, SameMessages DEF IInv
  <2>2. CASE watch[n] # 0
    <3>1. EventMsg("-", n) \in DownMessages
      BY <1>1, EventMsgFacts DEF IInv, EventOps
    <3>2. down' = Append(down, EventMsg("-", n))
      BY <1>1, <2>2
    <3>. QED  BY <3>1, <3>2, AppendMessage DEF IInv
  <2>. QED  BY <2>1, <2>2
<1>7. last_id' \in 0..MaxEventId
  BY <1>1 DEF IInv, TypeOK
<1>. QED  BY <1>1, <1>3, <1>4, <1>5, <1>6, <1>7, ServerEventStep

-----------------------------------------------------------------------------
LEMMA InitInv == Init => IInv
<1> SUFFICES ASSUME Init PROVE IInv
  OBVIOUS
<1>1. 0 \in 0..Cardinality(Sessions) /\ 0 \in 0..MaxEventId /\ 0 \in 0..MaxCrashes
  BY CookiesFacts, BoundsAssumption
<1>2. TypeOK
  <2>1. areq \in [Reqs -> RequestRecords]
    BY DEF Init, RequestRecords
  <2>2. dreq \in [Reqs -> DreqRecords]
    BY DEF Init, NoDreq, DreqRecords
  <2>3. cevents \in Seq(KnownEvents) /\ up \in Seq(Reqs)
    BY DEF Init
  <2>4. /\ serving \in BOOLEAN /\ crashes \in 0..MaxCrashes /\ memos \subseteq Reqs /\ unsent \subseteq Reqs
        /\ cookies \subseteq Sessions /\ destination \in 0..Cardinality(Sessions)
        /\ listener \in 0..Cardinality(Sessions) /\ last_id \in 0..MaxEventId
    BY <1>1 DEF Init
  <2>5. /\ event \in [Names -> 0..MaxEventId] /\ watch \in [Names -> Nat]
        /\ subs \in [Sessions -> [Names -> Nat]] /\ closes \in [Sessions -> Nat]
    BY <1>1 DEF Init, NoSubs
  <2>. QED  BY <2>1, <2>2, <2>3, <2>4, <2>5 DEF TypeOK, RequestRecords, DreqRecords, KnownEvents
<1>3. MessagesInv
  BY DEF Init, MessagesInv
<1>4. CountsInv
  <2>1. Cardinality({}) = 0
    BY FS_EmptySet
  <2>. QED  BY <2>1 DEF Init, CountsInv
<1>5. ListenerInv
  BY DEF Init, ListenerInv, NoDreq
<1>6. WatchInv
  <2>1. ASSUME NEW n \in Names PROVE Cardinality({s \in Sessions : subs[s][n] = 1}) = 0
    <3>1. {s \in Sessions : subs[s][n] = 1} = {}
      BY DEF Init, NoSubs
    <3>. QED  BY <3>1, FS_EmptySet
  <2>. QED  BY <2>1 DEF Init, WatchInv, NoSubs
<1>. QED  BY <1>2, <1>3, <1>4, <1>5, <1>6 DEF IInv

LEMMA StutterStep == ASSUME IInv, UNCHANGED vars PROVE IInv'
<1>1. TypeOK'
  BY DEF IInv, TypeOK, vars, clientVars, listenVars, eventVars
<1>2. UNCHANGED <<down, dreq, listenVars, event, watch, subs>>
  BY DEF vars, eventVars
<1>. QED  BY <1>1, <1>2, SameMessages, QuietStep DEF IInv

LEMMA NextStep == ASSUME IInv, [Next]_vars PROVE IInv'
<1>1. CASE afb_api_dbus_add_server \/ Crash
  BY <1>1, AddServerStep, CrashStep
<1>2. CASE ClientReads
  BY <1>2, ReplyReadStep, EventCreateStep, EventDropStep, SubscriptionStep, PushReadStep
     DEF ClientReads
<1>3. CASE ServerReads
  BY <1>3, CalledStep, CalledFailedStep DEF ServerReads
<1>4. ASSUME NEW r \in Reqs,
             \/ api_dbus_client_call(r) \/ api_dbus_client_call_failed(r)
             \/ dbus_req_reply(r) \/ dbus_req_reply_failed(r) \/ dbus_req_unref(r)
      PROVE  IInv'
  BY <1>4, CallStep, CallFailedStep, ReplyStep, ReplyFailedStep, UnrefStep
<1>5. ASSUME NEW r \in Reqs, NEW n \in Names,
             dbus_req_subscribe(r, n) \/ dbus_req_unsubscribe(r, n)
      PROVE  IInv'
  BY <1>5, SubscribeStep, UnsubscribeStep
<1>6. ASSUME NEW s \in Sessions, SessionExpires(s) PROVE IInv'
  BY <1>6, ExpiresStep
<1>7. ASSUME NEW n \in Names,
             EventCreate(n) \/ EventDrop(n) \/ afb_api_dbus_server_event_push(n)
      PROVE  IInv'
  BY <1>7, NewEventStep, EventEndStep, PushStep
<1>8. CASE afb_api_dbus_server_event_broadcast
  BY <1>8, BroadcastStep
<1>9. CASE UNCHANGED vars
  BY <1>9, StutterStep
<1>. QED  BY <1>1, <1>2, <1>3, <1>4, <1>5, <1>6, <1>7, <1>8, <1>9 DEF Next

(* IInv holds in every reachable state.                                    *)
THEOREM InvHolds == Spec => []IInv
<1>1. Init => IInv
  BY InitInv
<1>2. IInv /\ [Next]_vars => IInv'
  BY NextStep
<1>. QED  BY <1>1, <1>2, PTL DEF Spec

(* Whatever the sessions that are closed, by their requests or by their    *)
(* timeouts, the destination and its listener of events live as long as a  *)
(* session has a listener for them and no longer (afb-api-dbus.c:698, 720) *)
(* and an event that is watched finds its destination.                     *)
THEOREM DestinationsHeld == Spec => []DestinationsAreHeld
<1>1. ASSUME IInv PROVE DestinationsAreHeld
  <2>1. TypeOK /\ destination = Cardinality(cookies) /\ listener = Cardinality(cookies)
    BY <1>1 DEF IInv, CountsInv
  <2>2. ASSUME NEW n \in Names, watch[n] > 0 PROVE destination > 0
    <3>1. cookies # {}
      BY <1>1, <2>2 DEF IInv, WatchInv
    <3>2. IsFiniteSet(cookies) /\ Cardinality(cookies) \in Nat
      BY <2>1, CookiesFacts DEF TypeOK
    <3>3. Cardinality(cookies) # 0
      BY <3>1, <3>2, FS_EmptySet
    <3>. QED  BY <2>1, <3>2, <3>3
  <2>. QED  BY <2>1, <2>2 DEF DestinationsAreHeld
<1>. QED  BY <1>1, InvHolds, PTL

-----------------------------------------------------------------------------
(* The answers, the subscriptions and the events at the two sides.         *)

(* A call that is under way is served, or answered, once; the answers to a *)
(* request that closes its session, and only they, say so.                 *)
AnswersInv ==
    \A i \in DOMAIN down : down[i].op \in Answers =>
        /\ down[i].of \in memos /\ dreq[down[i].of].st # "running"
        /\ down[i].op = "reply" => (down[i].closing <=> down[i].of \in Closers)
        /\ \A k \in DOMAIN down : down[k].op \in Answers /\ down[k].of = down[i].of => k = i
        /\ \A k \in DOMAIN up : up[k] # down[i].of

CallsInv ==
    \A i \in DOMAIN up :
        /\ up[i] \in memos /\ dreq[up[i]].st # "running"
        /\ \A k \in DOMAIN up : up[k] = up[i] => k = i

RequestsInv ==
    \A r \in Reqs :
        /\ dreq[r].st = "running" => r \in memos
        /\ dreq[r].st # "none" => (dreq[r].closing <=> r \in Closers)
        /\ r \in memos <=> areq[r].st = "called"
        /\ areq[r].st # "ended" => areq[r].kind = "none" /\ ~areq[r].closing
        /\ areq[r].kind # "none" => (areq[r].closing <=> areq[r].kind = "reply" /\ r \in Closers)

(* A message about a subscription comes before the answer to its request.  *)
SubsInv ==
    \A i \in DOMAIN down : down[i].op \in Subscriptions =>
        /\ down[i].of \in memos
        /\ \A k \in DOMAIN down : k < i /\ down[k].op \in Answers => down[k].of # down[i].of

(* The messages under way lead from what the client knows of an event to   *)
(* what the server has of it, one view after each message.                 *)
Views == [id : 0..MaxEventId, subs : [Sessions -> Nat]]

Nothing == [id |-> 0, subs |-> NoWatch]

(* What the server has of the event n: an id, if its listener watches it.  *)
Served(n) == [id |-> IF watch[n] > 0 THEN event[n] ELSE 0,
              subs |-> [s \in Sessions |-> subs[s][n]]]

About(m, n) == m.op \in {"+", "-", "S", "U", "!"} /\ m.name = n

(* The message m finds the client with the view v and leaves it with w.    *)
Reads(n, v, m, w) ==
    /\ ~About(m, n) => w = v
    /\ About(m, n) =>
         /\ m.op = "+" => v.id = 0 /\ w = [id |-> m.id, subs |-> NoWatch]
         /\ m.op # "+" => v.id = m.id
         /\ m.op = "-" => w = [id |-> 0, subs |-> NoWatch]
         /\ m.op = "!" => w = v
         /\ m.op = "S" => w = [id |-> v.id, subs |-> [v.subs EXCEPT ![Owner[m.of]] = @ + 1]]
         /\ m.op = "U" =>
              /\ v.subs[Owner[m.of]] > 0
              /\ w = [id |-> v.id, subs |-> [v.subs EXCEPT ![Owner[m.of]] = @ - 1]]

Along(n, q, v) ==
    /\ v \in [1..Len(q) + 1 -> Views]
    /\ \A i \in DOMAIN q : Reads(n, v[i], q[i], v[i + 1])

Mirror(n, v) ==
    /\ Along(n, down, v)
    /\ Knows(n, v[1], cevents)
    /\ v[Len(down) + 1] = Served(n)

MirrorInv == crashes = 0 => \A n \in Names : \E v : Mirror(n, v)

EventsInv == AnswersInv /\ CallsInv /\ RequestsInv /\ SubsInv /\ MirrorInv

(* What is sent follows what was under way.                                *)
LEMMA SentFacts ==
    ASSUME NEW q \in Seq(DownMessages), NEW ms \in Seq(DownMessages)
    PROVE  /\ DOMAIN q = 1..Len(q) /\ Len(q) \in Nat /\ DOMAIN ms \subseteq Nat \ {0}
           /\ \A i \in DOMAIN q : i \in DOMAIN (q \o ms) /\ (q \o ms)[i] = q[i]
           /\ \A i \in DOMAIN (q \o ms) :
                \/ i \in DOMAIN q
                \/ \E k \in DOMAIN ms : i = Len(q) + k /\ (q \o ms)[i] = ms[k]
<1>1. /\ DOMAIN q = 1..Len(q) /\ Len(q) \in Nat /\ DOMAIN ms = 1..Len(ms) /\ Len(ms) \in Nat
  BY LenProperties
<1>2. PICK p, a, b : p = q \o ms /\ a = Len(q) /\ b = Len(ms)
  OBVIOUS
<1>3. /\ Len(p) = a + b /\ DOMAIN p = 1..a + b
      /\ \A i \in 1..a + b : p[i] = IF i <= a THEN q[i] ELSE ms[i - a]
  BY <1>1, <1>2, ConcatProperties, LenProperties
<1>4. \A i \in DOMAIN q : i \in DOMAIN p /\ p[i] = q[i]
  BY <1>1, <1>2, <1>3
<1>5. ASSUME NEW i \in DOMAIN p, i \notin DOMAIN q
      PROVE  \E k \in DOMAIN ms : i = a + k /\ p[i] = ms[k]
  <2>1. i - a \in 1..b /\ i = a + (i - a) /\ ~(i <= a)
    BY <1>1, <1>2, <1>3, <1>5
  <2>2. p[i] = ms[i - a]
    BY <1>3, <2>1
  <2>. QED  BY <1>1, <1>2, <2>1, <2>2
<1>. QED  BY <1>1, <1>2, <1>4, <1>5

LEMMA AppendIsSent ==
    ASSUME NEW q \in Seq(DownMessages), NEW m \in DownMessages
    PROVE  Append(q, m) = q \o <<m>> /\ <<m>> \in Seq(DownMessages)
<1>1. Append(q, m) = q \o <<m>>
  BY AppendIsConcat
<1>. QED  BY <1>1

LEMMA AlongConcat ==
    ASSUME NEW n, NEW q \in Seq(DownMessages), NEW v, Along(n, q, v),
           NEW ms \in Seq(DownMessages), NEW u, Along(n, ms, u), v[Len(q) + 1] = u[1]
    PROVE  \E w : /\ Along(n, q \o ms, w) /\ w[1] = v[1]
                  /\ w[Len(q \o ms) + 1] = u[Len(ms) + 1]
<1>1. /\ DOMAIN q = 1..Len(q) /\ Len(q) \in Nat /\ DOMAIN ms = 1..Len(ms) /\ Len(ms) \in Nat
  BY LenProperties
<1>2. PICK p : p = q \o ms
  OBVIOUS
<1>3. PICK a, b : a = Len(q) /\ b = Len(ms)
  OBVIOUS
<1>4. /\ Len(p) = a + b /\ DOMAIN p = 1..a + b
      /\ \A i \in 1..a + b : p[i] = IF i <= a THEN q[i] ELSE ms[i - a]
  BY <1>1, <1>2, <1>3, ConcatProperties, LenProperties
<1>5. PICK w : w = [i \in 1..a + b + 1 |-> IF i <= a + 1 THEN v[i] ELSE u[i - a]]
  OBVIOUS
<1>6. a \in Nat /\ b \in Nat /\ v \in [1..a + 1 -> Views] /\ u \in [1..b + 1 -> Views]
  BY <1>1, <1>3 DEF Along
<1>7. w \in [1..a + b + 1 -> Views]
  <2>1. \A i \in 1..a + b + 1 : ~(i <= a + 1) => i - a \in 1..b + 1
    BY <1>6
  <2>2. \A i \in 1..a + b + 1 : i <= a + 1 => i \in 1..a + 1
    BY <1>6
  <2>. QED  BY <1>5, <1>6, <2>1, <2>2
<1>8. \A i \in a + 1..a + b + 1 : w[i] = u[i - a]
  <2>1. w[a + 1] = u[1]
    BY <1>3, <1>5, <1>6
  <2>. QED  BY <1>5, <1>6, <2>1
<1>9. ASSUME NEW i \in 1..a + b PROVE Reads(n, w[i], p[i], w[i + 1])
  <2>1. CASE i <= a
    <3>1. w[i] = v[i] /\ w[i + 1] = v[i + 1] /\ p[i] = q[i] /\ i \in DOMAIN q
      BY <1>1, <1>3, <1>4, <1>5, <1>6, <2>1
    <3>2. Reads(n, v[i], q[i], v[i + 1])
      BY <3>1 DEF Along
    <3>. QED  BY <3>1, <3>2
  <2>2. CASE ~(i <= a)
    <3>1. PICK j : j = i - a
      OBVIOUS
    <3>2. j \in DOMAIN ms /\ i \in a + 1..a + b + 1 /\ i + 1 \in a + 1..a + b + 1 /\ i + 1 - a = j + 1
      BY <1>1, <1>3, <1>6, <2>2, <3>1
    <3>3. w[i] = u[j] /\ w[i + 1] = u[j + 1] /\ p[i] = ms[j]
      <4>1. w[i] = u[i - a] /\ w[i + 1] = u[i + 1 - a]
        BY <1>6, <1>8, <3>2
      <4>2. p[i] = ms[i - a]
        BY <1>4, <2>2
      <4>. QED  BY <3>1, <3>2, <4>1, <4>2
    <3>4. Reads(n, u[j], ms[j], u[j + 1])
      BY <3>2 DEF Along
    <3>. QED  BY <3>3, <3>4
  <2>. QED  BY <2>1, <2>2
<1>10. w[1] = v[1] /\ w[Len(p) + 1] = u[b + 1]
  <2>1. w[1] = v[1]
    BY <1>5, <1>6
  <2>2. a + b + 1 \in a + 1..a + b + 1 /\ a + b + 1 - a = b + 1
    BY <1>6
  <2>3. w[a + b + 1] = u[a + b + 1 - a]
    BY <1>6, <1>8, <2>2
  <2>. QED  BY <1>4, <2>1, <2>2, <2>3
<1>11. Along(n, p, w)
  BY <1>4, <1>7, <1>9 DEF Along
<1>. QED  BY <1>2, <1>3, <1>10, <1>11

LEMMA AlongTail ==
    ASSUME NEW n, NEW q \in Seq(DownMessages), q # <<>>, NEW v, Along(n, q, v)
    PROVE  \E w : /\ Along(n, Tail(q), w) /\ w[1] = v[2]
                  /\ w[Len(Tail(q)) + 1] = v[Len(q) + 1]
<1>1. /\ Tail(q) \in Seq(DownMessages) /\ DOMAIN q = 1..Len(q) /\ Len(q) \in Nat \ {0}
      /\ DOMAIN Tail(q) = 1..Len(q) - 1
      /\ \A i \in 1..Len(q) - 1 : Tail(q)[i] = q[i + 1]
  BY TailFacts
<1>2. PICK p, a : p = Tail(q) /\ a = Len(q)
  OBVIOUS
<1>3. Len(p) = a - 1
  BY <1>1, <1>2, HeadTailProperties
<1>4. PICK w : w = [i \in 1..a |-> v[i + 1]]
  OBVIOUS
<1>5. a \in Nat \ {0} /\ v \in [1..a + 1 -> Views]
  BY <1>1, <1>2 DEF Along
<1>6. w \in [1..Len(p) + 1 -> Views]
  BY <1>3, <1>4, <1>5
<1>7. ASSUME NEW i \in DOMAIN p PROVE Reads(n, w[i], p[i], w[i + 1])
  <2>1. i + 1 \in DOMAIN q /\ w[i] = v[i + 1] /\ w[i + 1] = v[i + 1 + 1] /\ p[i] = q[i + 1]
    BY <1>1, <1>2, <1>4, <1>5
  <2>2. Reads(n, v[i + 1], q[i + 1], v[i + 1 + 1])
    BY <2>1 DEF Along
  <2>. QED  BY <2>1, <2>2
<1>8. w[1] = v[2] /\ w[Len(p) + 1] = v[a + 1]
  BY <1>3, <1>4, <1>5
<1>9. Along(n, p, w)
  BY <1>6, <1>7 DEF Along
<1>. QED  BY <1>2, <1>8, <1>9

LEMMA NothingFacts == Nothing \in Views /\ Nothing.id = 0
BY BoundsAssumption DEF Nothing, Views, NoWatch

(* Messages none of which is about the event, or a single one.             *)
LEMMA QuietAlong ==
    ASSUME NEW n, NEW a \in Views, NEW q \in Seq(DownMessages),
           \A i \in DOMAIN q : ~About(q[i], n)
    PROVE  \E u : Along(n, q, u) /\ u[1] = a /\ u[Len(q) + 1] = a
<1>1. DOMAIN q = 1..Len(q) /\ Len(q) \in Nat
  BY LenProperties
<1>2. PICK u, l : u = [i \in 1..Len(q) + 1 |-> a] /\ l = Len(q)
  OBVIOUS
<1>3. /\ u \in [1..l + 1 -> Views] /\ \A i \in 1..l : u[i] = a /\ u[i + 1] = a
      /\ u[1] = a /\ u[l + 1] = a
  BY <1>1, <1>2
<1>4. Along(n, q, u)
  <2>1. \A i \in DOMAIN q : Reads(n, a, q[i], a)
    BY DEF Reads
  <2>. QED  BY <1>1, <1>2, <1>3, <2>1 DEF Along
<1>. QED  BY <1>2, <1>3, <1>4

LEMMA OnceAlong ==
    ASSUME NEW n, NEW a \in Views, NEW b \in Views, NEW q \in Seq(DownMessages),
           NEW j \in DOMAIN q, Reads(n, a, q[j], b),
           \A i \in DOMAIN q : i # j => ~About(q[i], n)
    PROVE  \E u : Along(n, q, u) /\ u[1] = a /\ u[Len(q) + 1] = b
<1>1. DOMAIN q = 1..Len(q) /\ Len(q) \in Nat
  BY LenProperties
<1>2. PICK l : l = Len(q)
  OBVIOUS
<1>3. PICK u : u = [i \in 1..l + 1 |-> IF i <= j THEN a ELSE b]
  OBVIOUS
<1>4. j \in 1..l /\ l \in Nat /\ u \in [1..l + 1 -> Views] /\ u[1] = a /\ u[l + 1] = b
  BY <1>1, <1>2, <1>3
<1>5. ASSUME NEW i \in DOMAIN q PROVE Reads(n, u[i], q[i], u[i + 1])
  <2>1. i \in 1..l
    BY <1>1, <1>2
  <2>2. CASE i < j
    <3>1. u[i] = a /\ u[i + 1] = a
      BY <1>3, <1>4, <2>1, <2>2
    <3>. QED  BY <1>4, <2>1, <2>2, <3>1 DEF Reads
  <2>3. CASE i = j
    <3>1. u[i] = a /\ u[i + 1] = b
      BY <1>3, <1>4, <2>1, <2>3
    <3>. QED  BY <2>3, <3>1
  <2>4. CASE i > j
    <3>1. u[i] = b /\ u[i + 1] = b
      BY <1>3, <1>4, <2>1, <2>4
    <3>. QED  BY <1>4, <2>1, <2>4, <3>1 DEF Reads
  <2>. QED  BY <1>4, <2>1, <2>2, <2>3, <2>4
<1>6. Along(n, q, u)
  BY <1>2, <1>4, <1>5 DEF Along
<1>. QED  BY <1>2, <1>4, <1>6

LEMMA NoneAlong ==
    ASSUME NEW n, NEW a \in Views
    PROVE  \E u : Along(n, <<>>, u) /\ u[1] = a /\ u[Len(<<>>) + 1] = a
<1>1. PICK u : u = [i \in 1..1 |-> a]
  OBVIOUS
<1>2. u \in [1..1 -> Views] /\ u[1] = a /\ Len(<<>>) + 1 = 1
  BY <1>1
<1>3. Along(n, <<>>, u)
  BY <1>2 DEF Along
<1>. QED  BY <1>2, <1>3

LEMMA OneAlong ==
    ASSUME NEW n, NEW a \in Views, NEW b \in Views, NEW m, Reads(n, a, m, b)
    PROVE  \E u : Along(n, <<m>>, u) /\ u[1] = a /\ u[Len(<<m>>) + 1] = b
<1>1. PICK u : u = [i \in 1..2 |-> IF i = 1 THEN a ELSE b]
  OBVIOUS
<1>2. PICK q : q = <<m>>
  OBVIOUS
<1>3. Len(q) + 1 = 2 /\ DOMAIN q = {1} /\ q[1] = m
  BY <1>2
<1>4. u \in [1..2 -> Views] /\ u[1] = a /\ u[2] = b
  BY <1>1
<1>5. Along(n, q, u)
  BY <1>3, <1>4 DEF Along
<1>. QED  BY <1>2, <1>3, <1>4, <1>5

LEMMA TwoAlong ==
    ASSUME NEW n, NEW a \in Views, NEW b \in Views, NEW c \in Views, NEW l, NEW m,
           Reads(n, a, l, b), Reads(n, b, m, c)
    PROVE  \E u : Along(n, <<l, m>>, u) /\ u[1] = a /\ u[Len(<<l, m>>) + 1] = c
<1>1. PICK u : u = [i \in 1..3 |-> IF i = 1 THEN a ELSE IF i = 2 THEN b ELSE c]
  OBVIOUS
<1>2. PICK q : q = <<l, m>>
  OBVIOUS
<1>3. Len(q) + 1 = 3 /\ DOMAIN q = {1, 2} /\ q[1] = l /\ q[2] = m
  BY <1>2
<1>4. u \in [1..3 -> Views] /\ u[1] = a /\ u[2] = b /\ u[3] = c
  BY <1>1
<1>5. Along(n, q, u)
  BY <1>3, <1>4 DEF Along
<1>. QED  BY <1>2, <1>3, <1>4, <1>5

LEMMA ServedFacts ==
    ASSUME TypeOK, NEW n \in Names
    PROVE  /\ Served(n) \in Views
           /\ Served(n).id = IF watch[n] > 0 THEN event[n] ELSE 0
           /\ Served(n).subs = [c \in Sessions |-> subs[c][n]]
           /\ watch[n] \in Nat /\ event[n] \in 0..MaxEventId
<1>1. watch[n] \in Nat /\ event[n] \in 0..MaxEventId /\ \A c \in Sessions : subs[c][n] \in Nat
  BY DEF TypeOK
<1>2. (IF watch[n] > 0 THEN event[n] ELSE 0) \in 0..MaxEventId
  BY <1>1, BoundsAssumption
<1>3. [c \in Sessions |-> subs[c][n]] \in [Sessions -> Nat]
  BY <1>1
<1>. QED  BY <1>1, <1>2, <1>3 DEF Served, Views

LEMMA NoneCounted ==
    ASSUME NEW f, \A c \in Sessions : f[c] \in 0..1, Cardinality({c \in Sessions : f[c] = 1}) = 0
    PROVE  \A c \in Sessions : f[c] = 0
<1>1. IsFiniteSet({c \in Sessions : f[c] = 1})
  BY BoundsAssumption, FS_Subset
<1>2. {c \in Sessions : f[c] = 1} = {}
  BY <1>1, FS_EmptySet
<1>. QED  BY <1>2

LEMMA UnwatchedView ==
    ASSUME IInv, NEW n \in Names, watch[n] = 0
    PROVE  Served(n) = Nothing
<1>1. PICK f : f = [c \in Sessions |-> subs[c][n]]
  OBVIOUS
<1>2. {c \in Sessions : f[c] = 1} = {c \in Sessions : subs[c][n] = 1}
  BY <1>1
<1>3. Cardinality({c \in Sessions : f[c] = 1}) = 0 /\ \A c \in Sessions : f[c] \in 0..1
  BY <1>1, <1>2 DEF IInv, WatchInv
<1>4. \A c \in Sessions : f[c] = 0
  BY <1>3, NoneCounted
<1>5. f = NoWatch
  BY <1>1, <1>4 DEF NoWatch
<1>. QED  BY <1>1, <1>5 DEF Served, Nothing

LEMMA UnwatchedNext ==
    ASSUME IInv', NEW n \in Names, watch'[n] = 0
    PROVE  Served(n)' = Nothing
<1>1. PICK f : f = [c \in Sessions |-> subs'[c][n]]
  OBVIOUS
<1>2. {c \in Sessions : f[c] = 1} = {c \in Sessions : subs'[c][n] = 1}
  BY <1>1
<1>3. Cardinality({c \in Sessions : f[c] = 1}) = 0 /\ \A c \in Sessions : f[c] \in 0..1
  BY <1>1, <1>2 DEF IInv, WatchInv
<1>4. \A c \in Sessions : f[c] = 0
  BY <1>3, NoneCounted
<1>5. f = NoWatch
  BY <1>1, <1>4 DEF NoWatch
<1>. QED  BY <1>1, <1>5 DEF Served, Nothing

-----------------------------------------------------------------------------
(* What a step does to each part.                                          *)

LEMMA MirrorKept ==
    ASSUME MirrorInv, UNCHANGED <<down, cevents>>, crashes' = crashes,
           \A n \in Names : Served(n)' = Served(n)
    PROVE  MirrorInv'
BY DEF MirrorInv, Mirror

(* The messages sent lead from what the server had to what it has now.     *)
LEMMA SendMirror ==
    ASSUME IInv, MirrorInv, NEW ms \in Seq(DownMessages), down' = down \o ms,
           UNCHANGED <<crashes, cevents>>,
           \A n \in Names : \E u : /\ Along(n, ms, u) /\ u[1] = Served(n)
                                   /\ u[Len(ms) + 1] = Served(n)'
    PROVE  MirrorInv'
<1> SUFFICES ASSUME crashes = 0, NEW n \in Names PROVE \E v : Mirror(n, v)'
  BY DEF MirrorInv
<1>1. PICK v : Mirror(n, v)
  BY DEF MirrorInv
<1>2. PICK u : Along(n, ms, u) /\ u[1] = Served(n) /\ u[Len(ms) + 1] = Served(n)'
  OBVIOUS
<1>3. down \in Seq(DownMessages)
  BY DEF IInv, MessagesInv
<1>4. PICK w : /\ Along(n, down \o ms, w) /\ w[1] = v[1]
               /\ w[Len(down \o ms) + 1] = u[Len(ms) + 1]
  BY <1>1, <1>2, <1>3, AlongConcat DEF Mirror
<1>5. Along(n, down', w) /\ Knows(n, w[1], cevents') /\ w[Len(down') + 1] = Served(n)'
  BY <1>1, <1>2, <1>4 DEF Mirror
<1>6. Mirror(n, w)'
  BY <1>5 DEF Mirror
<1>. QED  BY <1>6

(* A message that tells nothing new of the events.                         *)
LEMMA QuietSendMirror ==
    ASSUME IInv, MirrorInv, NEW m \in DownMessages, down' = Append(down, m),
           UNCHANGED <<crashes, cevents, event, watch, subs>>,
           m.op \in Answers \cup {"*"} \/ (m.op = "!" /\ watch[m.name] > 0 /\ m.id = event[m.name])
    PROVE  MirrorInv'
<1>1. down' = down \o <<m>> /\ <<m>> \in Seq(DownMessages)
  BY AppendIsSent DEF IInv, MessagesInv
<1>2. ASSUME NEW n \in Names
      PROVE  \E u : Along(n, <<m>>, u) /\ u[1] = Served(n) /\ u[Len(<<m>>) + 1] = Served(n)'
  <2>1. /\ Served(n) \in Views /\ Served(n)' = Served(n)
        /\ Served(n).id = IF watch[n] > 0 THEN event[n] ELSE 0
    BY ServedFacts DEF IInv, Served
  <2>2. PICK a : a = Served(n)
    OBVIOUS
  <2>3. Reads(n, a, m, a)
    BY <2>1, <2>2 DEF Reads, About, Answers
  <2>4. \E u : Along(n, <<m>>, u) /\ u[1] = a /\ u[Len(<<m>>) + 1] = a
    BY <2>1, <2>2, <2>3, OneAlong
  <2>. QED  BY <2>1, <2>2, <2>4
<1>. QED  BY <1>1, <1>2, SendMirror

(* The head of the queue is read: the view after it is the one of the      *)
(* client.                                                                 *)
LEMMA ReadMirror ==
    ASSUME IInv, MirrorInv, NEW op, Receive(op),
           \A n \in Names : \A v, w \in Views :
             Knows(n, v, cevents) /\ Reads(n, v, Head(down), w) => Knows(n, w, cevents')
    PROVE  MirrorInv'
<1>1. down # <<>> /\ down' = Tail(down) /\ UNCHANGED <<crashes, event, watch, subs>>
  BY DEF Receive, eventVars
<1>2. /\ down \in Seq(DownMessages) /\ DOMAIN down = 1..Len(down) /\ Len(down) \in Nat \ {0}
      /\ 1 \in DOMAIN down /\ Head(down) = down[1]
  BY <1>1, TailFacts DEF IInv, MessagesInv
<1> SUFFICES ASSUME crashes = 0, NEW n \in Names PROVE \E w : Mirror(n, w)'
  BY <1>1 DEF MirrorInv
<1>3. PICK v : Mirror(n, v)
  BY DEF MirrorInv
<1>4. PICK w : /\ Along(n, Tail(down), w) /\ w[1] = v[2]
               /\ w[Len(Tail(down)) + 1] = v[Len(down) + 1]
  BY <1>1, <1>2, <1>3, AlongTail DEF Mirror
<1>5. v[1] \in Views /\ v[2] \in Views /\ Reads(n, v[1], Head(down), v[2])
  <2>1. v \in [1..Len(down) + 1 -> Views] /\ Reads(n, v[1], down[1], v[1 + 1])
    BY <1>2, <1>3 DEF Mirror, Along
  <2>2. 1 \in 1..Len(down) + 1 /\ 2 \in 1..Len(down) + 1 /\ 1 + 1 = 2
    BY <1>2
  <2>. QED  BY <1>2, <2>1, <2>2
<1>6. Knows(n, w[1], cevents')
  <2>1. Knows(n, v[1], cevents)
    BY <1>3 DEF Mirror
  <2>2. Knows(n, v[2], cevents')
    BY <1>5, <2>1
  <2>. QED  BY <1>4, <2>2
<1>7. Along(n, down', w) /\ w[Len(down') + 1] = Served(n)'
  BY <1>1, <1>3, <1>4 DEF Mirror, Served
<1>8. Mirror(n, w)'
  BY <1>6, <1>7 DEF Mirror
<1>. QED  BY <1>8

(* The calls and the answers, when the messages stay.                      *)
LEMMA AnswersKept ==
    ASSUME AnswersInv, SubsInv, UNCHANGED down, memos \subseteq memos',
           \A r \in memos : /\ dreq'[r].st = "running" =>
                                 dreq[r].st = "running" \/ \E k \in DOMAIN up : up[k] = r
                            /\ \A k \in DOMAIN up' : up'[k] = r => \E j \in DOMAIN up : up[j] = r
    PROVE  AnswersInv' /\ SubsInv'
<1>1. SubsInv'
  BY DEF SubsInv
<1>2. AnswersInv'
  BY DEF AnswersInv
<1>. QED  BY <1>1, <1>2

(* Messages sent, none of which is an answer, for a request that is served.*)
LEMMA SendSubs ==
    ASSUME IInv, AnswersInv, SubsInv, NEW ms \in Seq(DownMessages), down' = down \o ms,
           UNCHANGED <<memos, up>>,
           \A q \in Reqs : dreq'[q].st = "running" => dreq[q].st = "running",
           \A k \in DOMAIN ms : ms[k].op \notin Answers,
           \A k \in DOMAIN ms : ms[k].op \in Subscriptions =>
             dreq[ms[k].of].st = "running" /\ ms[k].of \in memos
    PROVE  AnswersInv' /\ SubsInv'
<1>0. down \in Seq(DownMessages) /\ memos \subseteq Reqs
  BY DEF IInv, MessagesInv, TypeOK
<1>1. /\ DOMAIN down = 1..Len(down) /\ Len(down) \in Nat /\ DOMAIN ms \subseteq Nat \ {0}
      /\ \A i \in DOMAIN down : i \in DOMAIN down' /\ down'[i] = down[i]
      /\ \A i \in DOMAIN down' :
           \/ i \in DOMAIN down
           \/ \E k \in DOMAIN ms : i = Len(down) + k /\ down'[i] = ms[k]
  BY <1>0, SentFacts
<1>2. \A i \in DOMAIN down' : down'[i].op \in Answers => i \in DOMAIN down /\ down'[i] = down[i]
  BY <1>1
<1>3. AnswersInv'
  <2> SUFFICES ASSUME NEW i \in DOMAIN down', down'[i].op \in Answers
               PROVE  /\ down'[i].of \in memos /\ dreq'[down'[i].of].st # "running"
                      /\ down'[i].op = "reply" => (down'[i].closing <=> down'[i].of \in Closers)
                      /\ \A k \in DOMAIN down' :
                           down'[k].op \in Answers /\ down'[k].of = down'[i].of => k = i
                      /\ \A k \in DOMAIN up : up[k] # down'[i].of
    BY DEF AnswersInv
  <2>1. i \in DOMAIN down /\ down'[i] = down[i]
    BY <1>2
  <2>2. /\ down[i].of \in memos /\ dreq[down[i].of].st # "running"
        /\ down[i].op = "reply" => (down[i].closing <=> down[i].of \in Closers)
        /\ \A k \in DOMAIN down : down[k].op \in Answers /\ down[k].of = down[i].of => k = i
        /\ \A k \in DOMAIN up : up[k] # down[i].of
    BY <2>1 DEF AnswersInv
  <2>3. dreq'[down'[i].of].st # "running"
    BY <1>0, <2>1, <2>2
  <2>. QED  BY <1>2, <2>1, <2>2, <2>3
<1>4. SubsInv'
  <2> SUFFICES ASSUME NEW i \in DOMAIN down', down'[i].op \in Subscriptions
               PROVE  /\ down'[i].of \in memos
                      /\ \A k \in DOMAIN down' : k < i /\ down'[k].op \in Answers =>
                           down'[k].of # down'[i].of
    BY DEF SubsInv
  <2>1. CASE i \in DOMAIN down
    BY <1>1, <1>2, <2>1 DEF SubsInv
  <2>2. CASE i \notin DOMAIN down
    <3>1. dreq[down'[i].of].st = "running" /\ down'[i].of \in memos
      BY <1>1, <2>2
    <3>. QED  BY <1>2, <3>1 DEF AnswersInv
  <2>. QED  BY <2>1, <2>2
<1>. QED  BY <1>3, <1>4

(* An answer is sent.                                                      *)
LEMMA SendAnswer ==
    ASSUME IInv, AnswersInv, SubsInv, NEW m \in DownMessages, down' = Append(down, m),
           m.op \in Answers, m.of \in memos', memos \subseteq memos',
           m.op = "reply" => (m.closing <=> m.of \in Closers),
           \A i \in DOMAIN down : down[i].op \in Answers => down[i].of # m.of,
           dreq'[m.of].st # "running", \A k \in DOMAIN up' : up'[k] # m.of,
           \A q \in Reqs : dreq'[q].st = "running" => dreq[q].st = "running",
           \A k \in DOMAIN up' : \E j \in DOMAIN up : up'[k] = up[j]
    PROVE  AnswersInv' /\ SubsInv'
<1>0. down \in Seq(DownMessages) /\ memos \subseteq Reqs
  BY DEF IInv, MessagesInv, TypeOK
<1>1. PICK N : N = Len(down)
  OBVIOUS
<1>2. /\ DOMAIN down = 1..N /\ N \in Nat /\ DOMAIN down' = 1..N + 1
      /\ \A i \in 1..N : down'[i] = down[i]
      /\ down'[N + 1] = m
  BY <1>0, <1>1, AppendFacts
<1>3. \A i \in 1..N + 1 : i \in 1..N \/ i = N + 1
  BY <1>2
<1>4. AnswersInv'
  <2> SUFFICES ASSUME NEW i \in DOMAIN down', down'[i].op \in Answers
               PROVE  /\ down'[i].of \in memos' /\ dreq'[down'[i].of].st # "running"
                      /\ down'[i].op = "reply" => (down'[i].closing <=> down'[i].of \in Closers)
                      /\ \A k \in DOMAIN down' :
                           down'[k].op \in Answers /\ down'[k].of = down'[i].of => k = i
                      /\ \A k \in DOMAIN up' : up'[k] # down'[i].of
    BY DEF AnswersInv
  <2>1. CASE i \in DOMAIN down
    BY <1>0, <1>2, <1>3, <2>1 DEF AnswersInv
  <2>2. CASE i = N + 1
    BY <1>2, <1>3, <2>2
  <2>. QED  BY <1>2, <1>3, <2>1, <2>2
<1>5. SubsInv'
  <2> SUFFICES ASSUME NEW i \in DOMAIN down', down'[i].op \in Subscriptions
               PROVE  /\ down'[i].of \in memos'
                      /\ \A k \in DOMAIN down' : k < i /\ down'[k].op \in Answers =>
                           down'[k].of # down'[i].of
    BY DEF SubsInv
  <2>1. i \in DOMAIN down /\ down'[i] = down[i]
    BY <1>2, <1>3 DEF Answers, Subscriptions
  <2>2. \A k \in DOMAIN down' : k < i => k \in DOMAIN down /\ down'[k] = down[k]
    BY <1>2, <2>1
  <2>. QED  BY <2>1, <2>2 DEF SubsInv
<1>. QED  BY <1>4, <1>5

(* The head of the queue is read, and the answer takes its memo.           *)
LEMMA ReadAnswers ==
    ASSUME IInv, AnswersInv, SubsInv, NEW op, Receive(op),
           \A r \in memos : r \in memos' \/ (Head(down).op \in Answers /\ Head(down).of = r)
    PROVE  AnswersInv' /\ SubsInv'
<1>1. down # <<>> /\ down' = Tail(down) /\ UNCHANGED <<up, dreq>>
  BY DEF Receive
<1>2. /\ DOMAIN down = 1..Len(down) /\ Len(down) \in Nat \ {0} /\ Head(down) = down[1]
      /\ DOMAIN down' = 1..Len(down) - 1 /\ 1 \in DOMAIN down
      /\ \A i \in 1..Len(down) - 1 : down'[i] = down[i + 1]
  BY <1>1, TailFacts DEF IInv, MessagesInv
<1>3. \A i \in DOMAIN down' : /\ i + 1 \in DOMAIN down /\ down'[i] = down[i + 1] /\ i \in Int
                              /\ i + 1 # 1 /\ 1 < i + 1
  BY <1>2
<1>4. AnswersInv'
  <2> SUFFICES ASSUME NEW i \in DOMAIN down', down'[i].op \in Answers
               PROVE  /\ down'[i].of \in memos' /\ dreq'[down'[i].of].st # "running"
                      /\ down'[i].op = "reply" => (down'[i].closing <=> down'[i].of \in Closers)
                      /\ \A k \in DOMAIN down' :
                           down'[k].op \in Answers /\ down'[k].of = down'[i].of => k = i
                      /\ \A k \in DOMAIN up' : up'[k] # down'[i].of
    BY DEF AnswersInv
  <2>1. /\ down[i + 1].of \in memos /\ dreq[down[i + 1].of].st # "running"
        /\ down[i + 1].op = "reply" => (down[i + 1].closing <=> down[i + 1].of \in Closers)
        /\ \A k \in DOMAIN down :
             down[k].op \in Answers /\ down[k].of = down[i + 1].of => k = i + 1
        /\ \A k \in DOMAIN up : up[k] # down[i + 1].of
    BY <1>3 DEF AnswersInv
  <2>2. down'[i].of \in memos'
    BY <1>2, <1>3, <2>1
  <2>3. ASSUME NEW k \in DOMAIN down', down'[k].op \in Answers, down'[k].of = down'[i].of
        PROVE  k = i
    <3>1. k + 1 = i + 1
      BY <1>3, <2>1, <2>3
    <3>. QED  BY <1>3, <3>1
  <2>. QED  BY <1>1, <1>3, <2>1, <2>2, <2>3
<1>5. SubsInv'
  <2> SUFFICES ASSUME NEW i \in DOMAIN down', down'[i].op \in Subscriptions
               PROVE  /\ down'[i].of \in memos'
                      /\ \A k \in DOMAIN down' : k < i /\ down'[k].op \in Answers =>
                           down'[k].of # down'[i].of
    BY DEF SubsInv
  <2>1. /\ down[i + 1].of \in memos
        /\ \A k \in DOMAIN down : k < i + 1 /\ down[k].op \in Answers =>
             down[k].of # down[i + 1].of
    BY <1>3 DEF SubsInv
  <2>2. down'[i].of \in memos'
    BY <1>2, <1>3, <2>1
  <2>3. ASSUME NEW k \in DOMAIN down', k < i, down'[k].op \in Answers
        PROVE  down'[k].of # down'[i].of
    <3>1. k + 1 < i + 1
      BY <1>3, <2>3
    <3>. QED  BY <1>3, <2>1, <2>3, <3>1
  <2>. QED  BY <2>2, <2>3
<1>. QED  BY <1>4, <1>5

-----------------------------------------------------------------------------
(* The client reads.                                                       *)

LEMMA HeadFacts ==
    ASSUME IInv, NEW op, Receive(op)
    PROVE  /\ Head(down) \in DownMessages /\ Head(down).op = op
           /\ Head(down) = down[1] /\ 1 \in DOMAIN down
           /\ op \in Subscriptions => Head(down).of \in Reqs
           /\ op \in Subscriptions \cup EventOps =>
                Head(down).id \in 1..MaxEventId /\ Head(down).name \in Names
<1>1. down # <<>> /\ Head(down).op = op
  BY DEF Receive
<1>2. Head(down) \in DownMessages /\ Head(down) = down[1] /\ 1 \in DOMAIN down
  BY <1>1, TailFacts DEF IInv, MessagesInv
<1>. QED  BY <1>1, <1>2, BoundsAssumption DEF DownMessages

(* A message about an event, while the memos stay.                         *)
LEMMA EventReadMirror ==
    ASSUME IInv, EventsInv, NEW op, Receive(op), UNCHANGED <<memos, areq>>,
           \A n \in Names : \A v, w \in Views :
             Knows(n, v, cevents) /\ Reads(n, v, Head(down), w) => Knows(n, w, cevents')
    PROVE  EventsInv'
<1>1. MirrorInv'
  BY ReadMirror DEF EventsInv
<1>2. AnswersInv' /\ SubsInv'
  BY ReadAnswers DEF EventsInv
<1>3. UNCHANGED <<up, dreq>>
  BY DEF Receive
<1>4. CallsInv' /\ RequestsInv'
  BY <1>3 DEF EventsInv, CallsInv, RequestsInv
<1>. QED  BY <1>1, <1>2, <1>4 DEF EventsInv

LEMMA EventOfPlace ==
    ASSUME IInv, NEW n \in Names, NEW v \in Views, Knows(n, v, cevents), NEW m, m.name = n
    PROVE  /\ v.id = 0 => EventOf(m) = 0
           /\ v.id # 0 /\ v.id = m.id =>
                /\ EventOf(m) \in DOMAIN cevents
                /\ cevents[EventOf(m)] =
                     [id |-> v.id, name |-> n, refcount |-> 1, watch |-> v.subs]
                /\ \A k \in DOMAIN cevents : cevents[k].name = n => k = EventOf(m)
<1>0. cevents \in Seq(KnownEvents)
  BY KnownOnes
<1>1. /\ EventOf(m) # 0 => EventOf(m) \in DOMAIN cevents /\ cevents[EventOf(m)].name = n
      /\ EventOf(m) = 0 => \A i \in DOMAIN cevents :
                             ~(cevents[i].id = m.id /\ cevents[i].name = n)
  BY <1>0, EventOfFacts
<1>2. ASSUME v.id = 0 PROVE EventOf(m) = 0
  BY <1>1, <1>2 DEF Knows
<1>3. ASSUME v.id # 0, v.id = m.id
      PROVE  /\ EventOf(m) \in DOMAIN cevents
             /\ cevents[EventOf(m)] =
                  [id |-> v.id, name |-> n, refcount |-> 1, watch |-> v.subs]
             /\ \A k \in DOMAIN cevents : cevents[k].name = n => k = EventOf(m)
  <2>1. PICK i \in DOMAIN cevents :
           /\ cevents[i] = [id |-> v.id, name |-> n, refcount |-> 1, watch |-> v.subs]
           /\ \A k \in DOMAIN cevents : cevents[k].name = n => k = i
    BY <1>3 DEF Knows
  <2>2. cevents[i].id = v.id /\ cevents[i].name = n
    BY <2>1
  <2>3. EventOf(m) # 0
    BY <1>1, <1>3, <2>2
  <2>4. EventOf(m) = i
    BY <1>1, <2>1, <2>3
  <2>. QED  BY <2>1, <2>4
<1>. QED  BY <1>2, <1>3

LEMMA CreateMirror == ASSUME IInv, EventsInv, api_dbus_client_event_create PROVE EventsInv'
<1>1. Receive("+") /\ UNCHANGED <<memos, areq>>
  BY DEF api_dbus_client_event_create
<1>2. PICK m, s : m = Head(down) /\ s = cevents
  OBVIOUS
<1>3. PICK i : i = EventOf(m)
  OBVIOUS
<1>4. /\ m \in DownMessages /\ m.op = "+" /\ s \in Seq(KnownEvents)
      /\ \A k \in DOMAIN s : s[k] \in KnownEvents
  BY <1>1, <1>2, HeadFacts, KnownOnes
<1>5. m.id \in 1..MaxEventId /\ m.name \in Names
  BY <1>1, <1>2, HeadFacts DEF EventOps
<1>6. cevents' = IF i # 0 THEN [s EXCEPT ![i].refcount = @ + 1]
                 ELSE <<[id |-> m.id, name |-> m.name, refcount |-> 1, watch |-> NoWatch]>> \o s
  BY <1>2, <1>3 DEF api_dbus_client_event_create
<1>7. ASSUME NEW n \in Names, NEW v \in Views, NEW w \in Views,
             Knows(n, v, s), Reads(n, v, m, w)
      PROVE  Knows(n, w, cevents')
  <2>1. CASE m.name = n
    <3>1. v.id = 0 /\ w = [id |-> m.id, subs |-> NoWatch]
      BY <1>4, <1>7, <2>1 DEF Reads, About
    <3>2. i = 0
      <4>1. Knows(n, v, cevents)
        BY <1>2, <1>7
      <4>2. EventOf(m) # 0 => EventOf(m) \in DOMAIN cevents /\ cevents[EventOf(m)].name = m.name
        BY <1>2, <1>4, EventOfFacts
      <4>. QED  BY <1>3, <2>1, <3>1, <4>1, <4>2 DEF Knows
    <3>3. cevents' = <<[id |-> m.id, name |-> m.name, refcount |-> 1, watch |-> NoWatch]>> \o s
      BY <1>6, <3>2
    <3>4. [id |-> m.id, name |-> n, refcount |-> 1, watch |-> NoWatch] \in KnownEvents
      BY <1>5, <2>1 DEF KnownEvents, NoWatch
    <3>5. m.id # 0
      BY <1>5
    <3>. QED  BY <1>4, <1>7, <2>1, <3>1, <3>3, <3>4, <3>5, KnowsNew
  <2>2. CASE m.name # n
    <3>1. w = v
      BY <1>7, <2>2 DEF Reads, About
    <3>2. CASE i = 0
      <4>1. PICK e : e = [id |-> m.id, name |-> m.name, refcount |-> 1, watch |-> NoWatch]
        OBVIOUS
      <4>2. e \in KnownEvents /\ e.name # n
        BY <1>5, <2>2, <4>1 DEF KnownEvents, NoWatch
      <4>3. cevents' = <<e>> \o s
        BY <1>6, <3>2, <4>1
      <4>. QED  BY <1>4, <1>7, <3>1, <4>2, <4>3, KnowsAfterAdd
    <3>3. CASE i # 0
      <4>1. i \in DOMAIN s /\ s[i].name # n
        BY <1>2, <1>3, <1>4, <2>2, <3>3, EventOfFacts
      <4>2. PICK e : e = [s[i] EXCEPT !.refcount = s[i].refcount + 1]
        OBVIOUS
      <4>3. s[i].refcount + 1 \in Nat \ {0}
        BY <1>4, <4>1, KnownFacts
      <4>4. e \in KnownEvents /\ e.name # n
        BY <1>4, <4>1, <4>2, <4>3, KnownFacts DEF KnownEvents
      <4>5. cevents' = [s EXCEPT ![i] = e]
        BY <1>6, <3>3, <4>2
      <4>. QED  BY <1>4, <1>7, <3>1, <4>1, <4>4, <4>5, KnowsAfterUpdate
    <3>. QED  BY <3>2, <3>3
  <2>. QED  BY <2>1, <2>2
<1>. QED  BY <1>1, <1>2, <1>7, EventReadMirror

LEMMA DropMirror == ASSUME IInv, EventsInv, api_dbus_client_event_drop PROVE EventsInv'
<1>1. Receive("-") /\ UNCHANGED <<memos, areq>>
  BY DEF api_dbus_client_event_drop
<1>2. PICK m, s : m = Head(down) /\ s = cevents
  OBVIOUS
<1>3. PICK i : i = EventOf(m)
  OBVIOUS
<1>4. /\ m \in DownMessages /\ m.op = "-" /\ s \in Seq(KnownEvents)
      /\ \A k \in DOMAIN s : s[k] \in KnownEvents
  BY <1>1, <1>2, HeadFacts, KnownOnes
<1>5. m.id \in 1..MaxEventId /\ m.name \in Names
  BY <1>1, <1>2, HeadFacts DEF EventOps
<1>6. cevents' = IF i = 0 THEN s ELSE IF s[i].refcount > 1 THEN [s EXCEPT ![i].refcount = @ - 1]
                 ELSE RemoveAt(s, i)
  BY <1>2, <1>3 DEF api_dbus_client_event_drop
<1>7. ASSUME NEW n \in Names, NEW v \in Views, NEW w \in Views,
             Knows(n, v, s), Reads(n, v, m, w)
      PROVE  Knows(n, w, cevents')
  <2>1. CASE m.name = n
    <3>1. v.id = m.id /\ w = [id |-> 0, subs |-> NoWatch] /\ v.id # 0
      BY <1>4, <1>5, <1>7, <2>1 DEF Reads, About
    <3>2. /\ i \in DOMAIN s /\ s[i] = [id |-> v.id, name |-> n, refcount |-> 1, watch |-> v.subs]
          /\ \A k \in DOMAIN s : s[k].name = n => k = i
      BY <1>2, <1>3, <1>7, <2>1, <3>1, EventOfPlace
    <3>3. i # 0 /\ ~(s[i].refcount > 1)
      BY <1>4, <3>2, LenProperties
    <3>4. cevents' = RemoveAt(s, i)
      BY <1>6, <3>3
    <3>5. w.id = 0
      BY <3>1
    <3>. QED  BY <1>4, <3>2, <3>4, <3>5, KnowsGone
  <2>2. CASE m.name # n
    <3>1. w = v
      BY <1>7, <2>2 DEF Reads, About
    <3>2. CASE i = 0
      BY <1>6, <1>7, <3>1, <3>2
    <3>3. CASE i # 0
      <4>1. i \in DOMAIN s /\ s[i].name # n
        BY <1>2, <1>3, <1>4, <2>2, <3>3, EventOfFacts
      <4>2. CASE s[i].refcount > 1
        <5>1. PICK e : e = [s[i] EXCEPT !.refcount = s[i].refcount - 1]
          OBVIOUS
        <5>2. s[i].refcount - 1 \in Nat \ {0}
          BY <1>4, <4>1, <4>2, KnownFacts
        <5>3. e \in KnownEvents /\ e.name # n
          BY <1>4, <4>1, <5>1, <5>2, KnownFacts DEF KnownEvents
        <5>4. cevents' = [s EXCEPT ![i] = e]
          BY <1>6, <3>3, <4>2, <5>1
        <5>. QED  BY <1>4, <1>7, <3>1, <4>1, <5>3, <5>4, KnowsAfterUpdate
      <4>3. CASE ~(s[i].refcount > 1)
        <5>1. cevents' = RemoveAt(s, i)
          BY <1>6, <3>3, <4>3
        <5>. QED  BY <1>4, <1>7, <3>1, <4>1, <5>1, KnowsAfterRemove
      <4>. QED  BY <4>2, <4>3
    <3>. QED  BY <3>2, <3>3
  <2>. QED  BY <2>1, <2>2
<1>. QED  BY <1>1, <1>2, <1>7, EventReadMirror

LEMMA PushReadMirror == ASSUME IInv, EventsInv, api_dbus_client_event_push PROVE EventsInv'
<1>1. PICK op \in {"!", "*"} : Receive(op)
  BY DEF api_dbus_client_event_push, clientVars
<1>2. UNCHANGED <<cevents, memos, areq>>
  BY DEF api_dbus_client_event_push, clientVars
<1>3. ASSUME NEW n \in Names, NEW v \in Views, NEW w \in Views,
             Knows(n, v, cevents), Reads(n, v, Head(down), w)
      PROVE  Knows(n, w, cevents')
  <2>1. Head(down).op = op
    BY <1>1 DEF Receive
  <2>2. w = v
    BY <1>3, <2>1 DEF Reads, About
  <2>. QED  BY <1>2, <1>3, <2>2
<1>. QED  BY <1>1, <1>2, <1>3, EventReadMirror

LEMMA SubscriptionMirror ==
    ASSUME IInv, IInv', EventsInv, api_dbus_client_event_subscribe \/ api_dbus_client_event_unsubscribe
    PROVE  EventsInv'
<1>1. PICK op \in {"S", "U"} : /\ Receive(op)
                               /\ op = "S" => api_dbus_client_event_subscribe
                               /\ op = "U" => api_dbus_client_event_unsubscribe
  BY DEF api_dbus_client_event_subscribe, api_dbus_client_event_unsubscribe
<1>2. PICK m, s : m = Head(down) /\ s = cevents
  OBVIOUS
<1>3. PICK i : i = EventOf(m)
  OBVIOUS
<1>4. /\ m \in DownMessages /\ m.op = op /\ s \in Seq(KnownEvents)
      /\ \A k \in DOMAIN s : s[k] \in KnownEvents
  BY <1>1, <1>2, HeadFacts, KnownOnes
<1>5. m.id \in 1..MaxEventId /\ m.name \in Names
  BY <1>1, <1>2, HeadFacts DEF Subscriptions
<1>6. m.of \in memos /\ m.of \in Reqs
  BY <1>1, <1>2, HeadFacts DEF EventsInv, SubsInv, Subscriptions
<1>7. PICK c \in Sessions : c = Owner[m.of]
  BY <1>6, OwnerAssumption
<1>8. /\ i = 0 => cevents' = s
      /\ i # 0 /\ op = "S" => cevents' = [s EXCEPT ![i].watch[c] = @ + 1]
      /\ i # 0 /\ op = "U" => cevents' = [s EXCEPT ![i].watch[c] = IF @ > 0 THEN @ - 1 ELSE 0]
  BY <1>1, <1>2, <1>3, <1>6, <1>7
     DEF api_dbus_client_event_subscribe, api_dbus_client_event_unsubscribe, Subscription
<1>9. UNCHANGED <<memos, areq>>
  BY DEF api_dbus_client_event_subscribe, api_dbus_client_event_unsubscribe
<1>10. ASSUME NEW n \in Names, NEW v \in Views, NEW w \in Views,
              Knows(n, v, s), Reads(n, v, m, w)
       PROVE  Knows(n, w, cevents')
  <2>1. CASE m.name = n
    <3>1. v.id = m.id /\ v.id # 0
      BY <1>4, <1>5, <1>10, <2>1 DEF Reads, About
    <3>2. /\ i \in DOMAIN s /\ s[i] = [id |-> v.id, name |-> n, refcount |-> 1, watch |-> v.subs]
          /\ \A k \in DOMAIN s : s[k].name = n => k = i
      BY <1>2, <1>3, <1>10, <2>1, <3>1, EventOfPlace
    <3>3. i # 0
      BY <1>4, <3>2, LenProperties
    <3>4. PICK d : d = v.subs
      OBVIOUS
    <3>5. d \in [Sessions -> Nat] /\ d[c] \in Nat /\ s[i].watch = d
      BY <3>2, <3>4 DEF Views
    <3>6. PICK f : /\ w = [id |-> v.id, subs |-> f]
                   /\ cevents' = [s EXCEPT ![i].watch = f]
      <4>1. CASE op = "S"
        <5>1. w = [id |-> v.id, subs |-> [d EXCEPT ![c] = @ + 1]]
          BY <1>4, <1>6, <1>7, <1>10, <2>1, <3>4, <4>1 DEF Reads, About
        <5>2. cevents' = [s EXCEPT ![i].watch[c] = @ + 1]
          BY <1>8, <3>3, <4>1
        <5>3. cevents' = [s EXCEPT ![i].watch = [d EXCEPT ![c] = @ + 1]]
          BY <3>5, <5>2
        <5>. QED  BY <5>1, <5>3
      <4>2. CASE op = "U"
        <5>1. d[c] > 0 /\ w = [id |-> v.id, subs |-> [d EXCEPT ![c] = @ - 1]]
          BY <1>4, <1>6, <1>7, <1>10, <2>1, <3>4, <4>2 DEF Reads, About
        <5>2. cevents' = [s EXCEPT ![i].watch[c] = IF @ > 0 THEN @ - 1 ELSE 0]
          BY <1>8, <3>3, <4>2
        <5>3. cevents' = [s EXCEPT ![i].watch = [d EXCEPT ![c] = @ - 1]]
          BY <3>5, <5>1, <5>2
        <5>. QED  BY <5>1, <5>3
      <4>. QED  BY <4>1, <4>2
    <3>7. PICK e : e = [s[i] EXCEPT !.watch = f]
      OBVIOUS
    <3>8. cevents' = [s EXCEPT ![i] = e]
      BY <3>6, <3>7
    <3>9. w.id # 0 /\ e = [id |-> w.id, name |-> n, refcount |-> 1, watch |-> w.subs] /\ e.name = n
      BY <3>1, <3>2, <3>6, <3>7
    <3>. QED  BY <1>4, <3>2, <3>8, <3>9, KnowsChanged
  <2>2. CASE m.name # n
    <3>1. w = v
      BY <1>10, <2>2 DEF Reads, About
    <3>2. CASE i = 0
      BY <1>8, <1>10, <3>1, <3>2
    <3>3. CASE i # 0
      <4>1. i \in DOMAIN s /\ s[i].name # n
        BY <1>2, <1>3, <1>4, <2>2, <3>3, EventOfFacts
      <4>2. PICK f : cevents' = [s EXCEPT ![i].watch = f]
        BY <1>4, <1>8, <3>3
      <4>3. PICK e : e = [s[i] EXCEPT !.watch = f]
        OBVIOUS
      <4>4. cevents' = [s EXCEPT ![i] = e]
        BY <4>2, <4>3
      <4>5. e \in KnownEvents
        <5>1. cevents' \in Seq(KnownEvents)
          BY DEF IInv, TypeOK, KnownEvents
        <5>2. i \in DOMAIN cevents' /\ cevents'[i] = e
          BY <4>1, <4>4
        <5>. QED  BY <5>1, <5>2, ElementOfSeq, LenProperties
      <4>6. e.name # n
        BY <1>4, <4>1, <4>3 DEF KnownEvents
      <4>. QED  BY <1>4, <1>10, <3>1, <4>1, <4>4, <4>5, <4>6, KnowsAfterUpdate
    <3>. QED  BY <3>2, <3>3
  <2>. QED  BY <2>1, <2>2
<1>. QED  BY <1>1, <1>2, <1>9, <1>10, EventReadMirror

(* The answer takes the memo of its request, that no other names.          *)
LEMMA ReplyReadMirror == ASSUME IInv, EventsInv, api_dbus_client_on_reply PROVE EventsInv'
<1>1. PICK op \in Answers : Receive(op)
  BY DEF api_dbus_client_on_reply, Answers
<1>2. PICK m : m = Head(down)
  OBVIOUS
<1>3. /\ areq' = [areq EXCEPT ![m.of] = RepliedWith(areq[m.of], m)] /\ memos' = memos \ {m.of}
      /\ UNCHANGED <<cevents, up, dreq>>
  BY <1>1, <1>2 DEF api_dbus_client_on_reply, Receive
<1>4. m = down[1] /\ 1 \in DOMAIN down /\ m.op \in Answers
  BY <1>1, <1>2, HeadFacts
<1>5. /\ m.of \in memos /\ dreq[m.of].st # "running" /\ m.of \in Reqs
      /\ m.op = "reply" => (m.closing <=> m.of \in Closers)
      /\ \A k \in DOMAIN up : up[k] # m.of
  BY <1>4 DEF EventsInv, AnswersInv, IInv, TypeOK
<1>6. MirrorInv'
  <2>1. ASSUME NEW n \in Names, NEW v \in Views, NEW w \in Views,
               Knows(n, v, cevents), Reads(n, v, m, w)
        PROVE  Knows(n, w, cevents')
    <3>1. w = v
      BY <1>4, <2>1 DEF Reads, About, Answers
    <3>. QED  BY <1>3, <2>1, <3>1
  <2>. QED  BY <1>1, <1>2, <2>1, ReadMirror DEF EventsInv
<1>7. AnswersInv' /\ SubsInv'
  BY <1>1, <1>2, <1>3, <1>4, ReadAnswers DEF EventsInv
<1>8. CallsInv'
  BY <1>3, <1>5 DEF EventsInv, CallsInv
<1>9. RequestsInv'
  <2> SUFFICES ASSUME NEW r \in Reqs
               PROVE  /\ dreq[r].st = "running" => r \in memos'
                      /\ dreq[r].st # "none" => (dreq[r].closing <=> r \in Closers)
                      /\ r \in memos' <=> areq'[r].st = "called"
                      /\ areq'[r].st # "ended" => areq'[r].kind = "none" /\ ~areq'[r].closing
                      /\ areq'[r].kind # "none" =>
                           (areq'[r].closing <=> areq'[r].kind = "reply" /\ r \in Closers)
    BY <1>3 DEF RequestsInv
  <2>1. /\ dreq[r].st = "running" => r \in memos
        /\ dreq[r].st # "none" => (dreq[r].closing <=> r \in Closers)
        /\ r \in memos <=> areq[r].st = "called"
        /\ areq[r].st # "ended" => areq[r].kind = "none" /\ ~areq[r].closing
        /\ areq[r].kind # "none" =>
             (areq[r].closing <=> areq[r].kind = "reply" /\ r \in Closers)
    BY DEF EventsInv, RequestsInv
  <2>2. areq \in [Reqs -> RequestRecords]
    BY DEF IInv, TypeOK, RequestRecords
  <2>3. CASE r = m.of
    <3>1. areq[r] \in RequestRecords /\ areq'[r] = RepliedWith(areq[r], m) /\ ~areq[r].closing
      BY <1>3, <1>5, <2>1, <2>2, <2>3
    <3>2. /\ areq'[r].st = "ended" /\ areq'[r].kind = m.op
          /\ areq'[r].closing = IF m.op = "reply" THEN m.closing ELSE areq[r].closing
      BY <3>1 DEF RepliedWith, RequestRecords
    <3>3. areq'[r].closing <=> m.op = "reply" /\ r \in Closers
      BY <1>5, <2>3, <3>1, <3>2
    <3>. QED  BY <1>3, <1>5, <2>1, <2>3, <3>2, <3>3
  <2>4. CASE r # m.of
    BY <1>3, <2>1, <2>2, <2>4
  <2>. QED  BY <2>3, <2>4
<1>. QED  BY <1>6, <1>7, <1>8, <1>9 DEF EventsInv

-----------------------------------------------------------------------------
(* The client calls.                                                       *)

(* The answers and the calls under way are of requests that were called.   *)
LEMMA IdleFacts ==
    ASSUME IInv, EventsInv, NEW r \in Reqs, areq[r].st = "idle"
    PROVE  /\ r \notin memos /\ dreq[r].st # "running"
           /\ \A i \in DOMAIN down : down[i].op \in Answers => down[i].of # r
           /\ \A i \in DOMAIN up : up[i] # r
BY DEF EventsInv, RequestsInv, AnswersInv, CallsInv

LEMMA CallMirror == ASSUME IInv, EventsInv, NEW r \in Reqs, api_dbus_client_call(r) PROVE EventsInv'
<1>1. /\ areq[r].st = "idle" /\ memos' = memos \cup {r}
      /\ areq' = [areq EXCEPT ![r].st = "called"]
      /\ UNCHANGED <<crashes, cevents, dreq, event, watch, subs>>
  BY DEF api_dbus_client_call, eventVars
<1>2. /\ r \notin memos /\ dreq[r].st # "running"
      /\ \A i \in DOMAIN down : down[i].op \in Answers => down[i].of # r
      /\ \A i \in DOMAIN up : up[i] # r
  BY <1>1, IdleFacts
<1>3. areq \in [Reqs -> RequestRecords] /\ memos \subseteq Reqs /\ up \in Seq(Reqs)
  BY DEF IInv, TypeOK, RequestRecords
<1>4. RequestsInv'
  <2>1. /\ areq'[r].st = "called" /\ areq'[r].kind = areq[r].kind
        /\ areq'[r].closing = areq[r].closing
        /\ \A q \in Reqs \ {r} : areq'[q] = areq[q]
    BY <1>1, <1>3 DEF RequestRecords
  <2>. QED  BY <1>1, <2>1 DEF EventsInv, RequestsInv
<1>5. CASE serving
  <2>1. up' = Append(up, r) /\ UNCHANGED down
    BY <1>5 DEF api_dbus_client_call
  <2>2. PICK N : N = Len(up)
    OBVIOUS
  <2>3. /\ DOMAIN up = 1..N /\ N \in Nat /\ DOMAIN up' = 1..N + 1
        /\ \A i \in 1..N : up'[i] = up[i]
        /\ up'[N + 1] = r
    BY <1>3, <2>1, <2>2, AppendFacts
  <2>4. \A i \in 1..N + 1 : i \in 1..N \/ i = N + 1
    BY <2>3
  <2>5. CallsInv'
    <3> SUFFICES ASSUME NEW i \in DOMAIN up'
                 PROVE  /\ up'[i] \in memos' /\ dreq[up'[i]].st # "running"
                        /\ \A k \in DOMAIN up' : up'[k] = up'[i] => k = i
      BY <1>1 DEF CallsInv
    <3>1. CASE i \in 1..N
      BY <1>1, <1>2, <2>3, <2>4, <3>1 DEF EventsInv, CallsInv
    <3>2. CASE i = N + 1
      BY <1>1, <1>2, <2>3, <2>4, <3>2
    <3>. QED  BY <2>3, <2>4, <3>1, <3>2
  <2>6. AnswersInv' /\ SubsInv'
    <3>1. \A q \in memos : \A k \in DOMAIN up' : up'[k] = q => \E j \in DOMAIN up : up[j] = q
      BY <1>2, <2>3, <2>4
    <3>. QED  BY <1>1, <2>1, <3>1, AnswersKept DEF EventsInv
  <2>7. MirrorInv'
    BY <1>1, <2>1, MirrorKept DEF EventsInv, Served
  <2>. QED  BY <1>4, <2>5, <2>6, <2>7 DEF EventsInv
<1>6. CASE ~serving
  <2>1. PICK m : m = Message("error", r, FALSE)
    OBVIOUS
  <2>2. down' = Append(down, m) /\ UNCHANGED up
    BY <1>6, <2>1 DEF api_dbus_client_call
  <2>3. m \in DownMessages /\ m.op = "error" /\ m.of = r
    <3>1. m \in DownMessages
      BY <2>1, MessageFacts DEF Answers
    <3>. QED  BY <2>1, <3>1 DEF Message
  <2>4. CallsInv'
    BY <1>1, <2>2 DEF EventsInv, CallsInv
  <2>5. AnswersInv' /\ SubsInv'
    BY <1>1, <1>2, <2>2, <2>3, SendAnswer DEF EventsInv, Answers
  <2>6. MirrorInv'
    BY <1>1, <2>2, <2>3, QuietSendMirror DEF EventsInv, Answers
  <2>. QED  BY <1>4, <2>4, <2>5, <2>6 DEF EventsInv
<1>. QED  BY <1>5, <1>6

LEMMA CallFailedMirror ==
    ASSUME IInv, EventsInv, NEW r \in Reqs, api_dbus_client_call_failed(r)
    PROVE  EventsInv'
<1>1. /\ areq[r].st = "idle"
      /\ areq' = [areq EXCEPT ![r].st = "ended", ![r].replies = 1, ![r].kind = "failed"]
      /\ UNCHANGED <<crashes, memos, cevents, up, down, dreq, event, watch, subs>>
  BY DEF api_dbus_client_call_failed, eventVars
<1>2. areq \in [Reqs -> RequestRecords]
  BY DEF IInv, TypeOK, RequestRecords
<1>3. RequestsInv'
  <2>1. /\ areq'[r].st = "ended" /\ areq'[r].kind = "failed"
        /\ areq'[r].closing = areq[r].closing
        /\ \A q \in Reqs \ {r} : areq'[q] = areq[q]
    BY <1>1, <1>2 DEF RequestRecords
  <2>2. RequestsInv
    BY DEF EventsInv
  <2>3. r \notin memos /\ ~areq[r].closing
    BY <1>1, <2>2 DEF RequestsInv
  <2>4. memos' = memos /\ dreq' = dreq
    BY <1>1
  <2>. QED  BY <2>1, <2>2, <2>3, <2>4 DEF RequestsInv
<1>4. CallsInv' /\ AnswersInv' /\ SubsInv'
  BY <1>1 DEF EventsInv, CallsInv, AnswersInv, SubsInv
<1>5. MirrorInv'
  BY <1>1, MirrorKept DEF EventsInv, Served
<1>. QED  BY <1>3, <1>4, <1>5 DEF EventsInv

-----------------------------------------------------------------------------
(* The server comes, goes, and reads the calls.                            *)

LEMMA StillStep ==
    ASSUME EventsInv,
           UNCHANGED <<crashes, memos, cevents, areq, up, down, dreq, event, watch, subs>>
    PROVE  EventsInv'
<1>1. CallsInv' /\ AnswersInv' /\ SubsInv' /\ RequestsInv'
  BY DEF EventsInv, CallsInv, AnswersInv, SubsInv, RequestsInv
<1>2. MirrorInv'
  BY MirrorKept DEF EventsInv, Served
<1>. QED  BY <1>1, <1>2 DEF EventsInv

(* The errors that the bus sends are for the calls without answer, one for *)
(* each.                                                                   *)
LEMMA ErrorsFacts ==
    ASSUME TypeOK
    PROVE  /\ BusErrors \in Seq(DownMessages)
           /\ \A i \in DOMAIN BusErrors :
                /\ BusErrors[i].op = "error" /\ BusErrors[i].of \in memos
                /\ ~Replied(BusErrors[i].of)
                /\ \A k \in DOMAIN BusErrors : BusErrors[k].of = BusErrors[i].of => k = i
<1> DEFINE Q == {q \in memos : ~Replied(q)}
           f == [r \in Q |-> Message("error", r, FALSE)]
           I == {f[r] : r \in Q}
<1>1. Q \in SUBSET Reqs
  BY DEF TypeOK
<1>2. IsFiniteSet(Q)
  BY <1>1, BoundsAssumption, FS_Subset
<1>3. f \in [Q -> DownMessages]
  BY <1>1, MessageFacts DEF Answers
<1>4. BusErrors = SetToSeq(I)
  <2>1. {Message("error", r, FALSE) : r \in Q} = I
    OBVIOUS
  <2>. QED  BY <2>1 DEF BusErrors
<1>5. \A r \in Q : f[r].op = "error" /\ f[r].of = r /\ r \in memos /\ ~Replied(r)
  BY DEF Message
<1> HIDE DEF f, Q
<1>6. IsFiniteSet(I)
  BY <1>2, <1>3, ImageFacts
<1>7. \A x \in I : /\ x.op = "error" /\ x.of \in memos /\ ~Replied(x.of)
                   /\ \A y \in I : y.of = x.of => y = x
  BY <1>5
<1> HIDE DEF I
<1>8. PICK q : q = SetToSeq(I)
  OBVIOUS
<1>9. q \in Seq(I) /\ \A i, k \in DOMAIN q : q[i] = q[k] => i = k
  BY <1>6, <1>8, ListFacts
<1>10. \A i \in DOMAIN q : q[i] \in I
  BY <1>9, ElementOfSeq, LenProperties
<1>. QED  BY <1>4, <1>7, <1>8, <1>9, <1>10, BusErrorsFacts

LEMMA CrashMirror == ASSUME IInv, EventsInv, Crash PROVE EventsInv'
<1>1. PICK ms : ms = BusErrors
  OBVIOUS
<1>2. /\ crashes' = crashes + 1 /\ up' = <<>> /\ down' = down \o ms
      /\ dreq' = [r \in Reqs |-> NoDreq] /\ UNCHANGED <<memos, cevents, areq>>
  BY <1>1 DEF Crash, clientVars
<1>3. MirrorInv'
  <2>1. crashes' # 0
    BY <1>2 DEF IInv, TypeOK
  <2>. QED  BY <2>1 DEF MirrorInv
<1>4. CallsInv'
  BY <1>2 DEF CallsInv
<1>5. \A r \in Reqs : dreq'[r].st = "none"
  BY <1>2 DEF NoDreq
<1>6. RequestsInv'
  BY <1>2, <1>5 DEF EventsInv, RequestsInv
<1>7. /\ ms \in Seq(DownMessages)
      /\ \A i \in DOMAIN ms :
           /\ ms[i].op = "error" /\ ms[i].of \in memos /\ ~Replied(ms[i].of)
           /\ \A k \in DOMAIN ms : ms[k].of = ms[i].of => k = i
  BY <1>1, ErrorsFacts DEF IInv
<1>8. down \in Seq(DownMessages) /\ memos \subseteq Reqs
  BY DEF IInv, MessagesInv, TypeOK
<1>9. /\ DOMAIN down = 1..Len(down) /\ Len(down) \in Nat /\ DOMAIN ms \subseteq Nat \ {0}
      /\ \A i \in DOMAIN down : i \in DOMAIN down' /\ down'[i] = down[i]
      /\ \A i \in DOMAIN down' :
           \/ i \in DOMAIN down
           \/ \E k \in DOMAIN ms : i = Len(down) + k /\ down'[i] = ms[k]
  BY <1>2, <1>7, <1>8, SentFacts
<1>10. \A j \in DOMAIN ms, i \in DOMAIN down :
          down[i].op \in Answers => down[i].of # ms[j].of
  BY <1>7 DEF Replied, Answers
<1>11. AnswersInv'
  <2> SUFFICES ASSUME NEW i \in DOMAIN down', down'[i].op \in Answers
               PROVE  /\ down'[i].of \in memos /\ dreq'[down'[i].of].st # "running"
                      /\ down'[i].op = "reply" => (down'[i].closing <=> down'[i].of \in Closers)
                      /\ \A k \in DOMAIN down' :
                           down'[k].op \in Answers /\ down'[k].of = down'[i].of => k = i
    BY <1>2 DEF AnswersInv
  <2>1. CASE i \in DOMAIN down
    <3>1. /\ down[i].of \in memos
          /\ down[i].op = "reply" => (down[i].closing <=> down[i].of \in Closers)
          /\ \A k \in DOMAIN down : down[k].op \in Answers /\ down[k].of = down[i].of => k = i
      BY <1>9, <2>1 DEF EventsInv, AnswersInv
    <3>2. ASSUME NEW k \in DOMAIN down', down'[k].op \in Answers, down'[k].of = down'[i].of
          PROVE  k = i
      <4>1. k \in DOMAIN down
        BY <1>9, <1>10, <2>1, <3>2
      <4>. QED  BY <1>9, <2>1, <3>1, <3>2, <4>1
    <3>3. dreq'[down'[i].of].st # "running"
      BY <1>5, <1>8, <1>9, <2>1, <3>1
    <3>. QED  BY <1>9, <2>1, <3>1, <3>2, <3>3
  <2>2. CASE i \notin DOMAIN down
    <3>1. PICK j \in DOMAIN ms : i = Len(down) + j /\ down'[i] = ms[j]
      BY <1>9, <2>2
    <3>2. ASSUME NEW k \in DOMAIN down', down'[k].op \in Answers, down'[k].of = down'[i].of
          PROVE  k = i
      <4>1. k \notin DOMAIN down
        BY <1>9, <1>10, <3>1, <3>2
      <4>2. PICK l \in DOMAIN ms : k = Len(down) + l /\ down'[k] = ms[l]
        BY <1>9, <4>1
      <4>3. l = j
        BY <1>7, <3>1, <3>2, <4>2
      <4>. QED  BY <3>1, <4>2, <4>3
    <3>3. down'[i].of \in memos /\ down'[i].op = "error"
      BY <1>7, <3>1
    <3>4. dreq'[down'[i].of].st # "running"
      BY <1>5, <1>8, <3>3
    <3>. QED  BY <3>2, <3>3, <3>4
  <2>. QED  BY <2>1, <2>2
<1>12. SubsInv'
  <2> SUFFICES ASSUME NEW i \in DOMAIN down', down'[i].op \in Subscriptions
               PROVE  /\ down'[i].of \in memos
                      /\ \A k \in DOMAIN down' : k < i /\ down'[k].op \in Answers =>
                           down'[k].of # down'[i].of
    BY <1>2 DEF SubsInv
  <2>1. i \in DOMAIN down
    BY <1>7, <1>9 DEF Subscriptions
  <2>2. ASSUME NEW k \in DOMAIN down', k < i PROVE k \in DOMAIN down
    <3>1. ASSUME NEW l \in DOMAIN ms, k = Len(down) + l PROVE FALSE
      BY <1>9, <2>1, <2>2, <3>1
    <3>. QED  BY <1>9, <3>1
  <2>. QED  BY <1>9, <2>1, <2>2 DEF EventsInv, SubsInv
<1>. QED  BY <1>3, <1>4, <1>6, <1>11, <1>12 DEF EventsInv

(* A call is taken from the queue.                                         *)
LEMMA CallTaken ==
    ASSUME IInv, EventsInv, ReadCall
    PROVE  /\ Head(up) \in memos /\ Head(up) \in Reqs /\ dreq[Head(up)].st # "running"
           /\ \E j \in DOMAIN up : up[j] = Head(up)
           /\ \A i \in DOMAIN down : down[i].op \in Answers => down[i].of # Head(up)
           /\ \A i \in DOMAIN up' : /\ up'[i] # Head(up) /\ \E j \in DOMAIN up : up'[i] = up[j]
                                    /\ \A k \in DOMAIN up' : up'[k] = up'[i] => k = i
<1>1. up \in Seq(Reqs) /\ up # <<>> /\ up' = Tail(up)
  BY DEF ReadCall, IInv, TypeOK
<1>2. /\ Head(up) = up[1] /\ Head(up) \in Reqs /\ 1 \in DOMAIN up
      /\ DOMAIN up = 1..Len(up) /\ Len(up) \in Nat \ {0} /\ DOMAIN up' = 1..Len(up) - 1
      /\ \A i \in 1..Len(up) - 1 : up'[i] = up[i + 1]
  BY <1>1, TailFacts
<1>3. \A i \in DOMAIN up' : /\ i + 1 \in DOMAIN up /\ up'[i] = up[i + 1] /\ i \in Int
                            /\ i + 1 # 1
  BY <1>2
<1>4. \A i \in DOMAIN up, k \in DOMAIN up : up[k] = up[i] => k = i
  BY DEF EventsInv, CallsInv
<1>5. ASSUME NEW i \in DOMAIN up' PROVE up'[i] # Head(up) /\ \E j \in DOMAIN up : up'[i] = up[j]
  BY <1>2, <1>3, <1>4
<1>6. ASSUME NEW i \in DOMAIN up', NEW k \in DOMAIN up', up'[k] = up'[i] PROVE k = i
  <2>1. k + 1 = i + 1
    BY <1>3, <1>4, <1>6
  <2>. QED  BY <1>3, <2>1
<1>7. Head(up) \in memos /\ dreq[Head(up)].st # "running"
  BY <1>2 DEF EventsInv, CallsInv
<1>8. \A i \in DOMAIN down : down[i].op \in Answers => down[i].of # Head(up)
  BY <1>2 DEF EventsInv, AnswersInv
<1>. QED  BY <1>2, <1>5, <1>6, <1>7, <1>8

LEMMA CalledMirror == ASSUME IInv, EventsInv, api_dbus_server_on_object_called PROVE EventsInv'
<1>1. PICK r : r = Head(up)
  OBVIOUS
<1>2. /\ ReadCall /\ UNCHANGED <<crashes, memos, cevents, areq, down, event, watch, subs>>
      /\ dreq' = [dreq EXCEPT ![r] = [st |-> "running", listener |-> closes[Owner[r]],
                                      closing |-> r \in Closers]]
  BY <1>1 DEF api_dbus_server_on_object_called, ReadCall, clientVars, eventVars
<1>3. /\ r \in memos /\ r \in Reqs /\ \E j \in DOMAIN up : up[j] = r
      /\ \A i \in DOMAIN up' : /\ up'[i] # r /\ \E j \in DOMAIN up : up'[i] = up[j]
                               /\ \A k \in DOMAIN up' : up'[k] = up'[i] => k = i
  BY <1>1, <1>2, CallTaken
<1>4. dreq \in [Reqs -> DreqRecords] /\ memos \subseteq Reqs /\ up \in Seq(Reqs)
  BY DEF IInv, TypeOK, DreqRecords
<1>5. /\ dreq'[r].st = "running" /\ (dreq'[r].closing <=> r \in Closers)
      /\ \A q \in Reqs \ {r} : dreq'[q] = dreq[q]
  BY <1>2, <1>3, <1>4
<1>6. RequestsInv'
  BY <1>2, <1>3, <1>5 DEF EventsInv, RequestsInv
<1>7. CallsInv'
  <2> SUFFICES ASSUME NEW i \in DOMAIN up' PROVE up'[i] \in memos /\ dreq'[up'[i]].st # "running"
    BY <1>2, <1>3 DEF CallsInv
  <2>1. PICK j \in DOMAIN up : up'[i] = up[j]
    BY <1>3
  <2>2. up[j] \in memos /\ dreq[up[j]].st # "running" /\ up[j] # r
    BY <1>3, <2>1 DEF EventsInv, CallsInv
  <2>. QED  BY <1>4, <1>5, <2>1, <2>2
<1>8. AnswersInv' /\ SubsInv'
  <2>1. \A q \in memos : /\ dreq'[q].st = "running" =>
                              dreq[q].st = "running" \/ \E k \in DOMAIN up : up[k] = q
                         /\ \A k \in DOMAIN up' : up'[k] = q => \E j \in DOMAIN up : up[j] = q
    BY <1>3, <1>4, <1>5
  <2>. QED  BY <1>2, <2>1, AnswersKept DEF EventsInv
<1>9. MirrorInv'
  BY <1>2, MirrorKept DEF EventsInv, Served
<1>. QED  BY <1>6, <1>7, <1>8, <1>9 DEF EventsInv

LEMMA CalledFailedMirror ==
    ASSUME IInv, EventsInv, api_dbus_server_on_object_called_failed
    PROVE  EventsInv'
<1>1. PICK r, m : r = Head(up) /\ m = Message("error", r, FALSE)
  OBVIOUS
<1>2. /\ ReadCall /\ down' = Append(down, m)
      /\ UNCHANGED <<crashes, memos, cevents, areq, dreq, event, watch, subs>>
  BY <1>1 DEF api_dbus_server_on_object_called_failed, ReadCall, clientVars, eventVars
<1>3. /\ r \in memos /\ r \in Reqs /\ dreq[r].st # "running"
      /\ \A i \in DOMAIN down : down[i].op \in Answers => down[i].of # r
      /\ \A i \in DOMAIN up' : /\ up'[i] # r /\ \E j \in DOMAIN up : up'[i] = up[j]
                               /\ \A k \in DOMAIN up' : up'[k] = up'[i] => k = i
  BY <1>1, <1>2, CallTaken
<1>4. m \in DownMessages /\ m.op = "error" /\ m.of = r
  <2>1. m \in DownMessages
    BY <1>1, <1>3, MessageFacts DEF Answers
  <2>. QED  BY <1>1, <2>1 DEF Message
<1>5. RequestsInv'
  BY <1>2 DEF EventsInv, RequestsInv
<1>6. CallsInv'
  BY <1>2, <1>3 DEF EventsInv, CallsInv
<1>7. AnswersInv' /\ SubsInv'
  BY <1>2, <1>3, <1>4, SendAnswer DEF EventsInv, Answers
<1>8. MirrorInv'
  BY <1>2, <1>4, QuietSendMirror DEF EventsInv, Answers
<1>. QED  BY <1>5, <1>6, <1>7, <1>8 DEF EventsInv

-----------------------------------------------------------------------------
(* The server answers, and closes sessions.                                *)

LEMMA ReplyMirror == ASSUME IInv, EventsInv, NEW r \in Reqs, dbus_req_reply(r) PROVE EventsInv'
<1>1. PICK m : m = Message("reply", r, dreq[r].closing)
  OBVIOUS
<1>2. /\ dreq[r].st = "running" /\ dreq' = [dreq EXCEPT ![r].st = "replied"]
      /\ down' = Append(down, m)
      /\ UNCHANGED <<crashes, memos, cevents, areq, up, event, watch, subs>>
  BY <1>1 DEF dbus_req_reply, clientVars, eventVars
<1>3. dreq \in [Reqs -> DreqRecords]
  BY DEF IInv, TypeOK, DreqRecords
<1>4. /\ dreq'[r].st = "replied" /\ dreq'[r].closing = dreq[r].closing
      /\ \A q \in Reqs \ {r} : dreq'[q] = dreq[q]
  BY <1>2, <1>3 DEF DreqRecords
<1>5. /\ r \in memos /\ (dreq[r].closing <=> r \in Closers)
      /\ \A i \in DOMAIN down : down[i].op \in Answers => down[i].of # r
      /\ \A i \in DOMAIN up : up[i] # r
  BY <1>2 DEF EventsInv, RequestsInv, AnswersInv, CallsInv
<1>6. m \in DownMessages /\ m.op = "reply" /\ m.of = r /\ m.closing = dreq[r].closing
  <2>1. dreq[r].closing \in BOOLEAN
    BY <1>3 DEF DreqRecords
  <2>2. m \in DownMessages
    BY <1>1, <2>1, MessageFacts DEF Answers
  <2>. QED  BY <1>1, <2>2 DEF Message
<1>7. RequestsInv'
  BY <1>2, <1>4, <1>5 DEF EventsInv, RequestsInv
<1>8. \A q \in Reqs : dreq'[q].st = "running" => dreq[q].st = "running"
  BY <1>2, <1>4
<1>9. CallsInv'
  <2>1. up \in Seq(Reqs)
    BY DEF IInv, TypeOK
  <2>2. \A i \in DOMAIN up : up[i] \in Reqs
    BY <2>1, ElementOfSeq, LenProperties
  <2>. QED  BY <1>2, <1>8, <2>2 DEF EventsInv, CallsInv
<1>10. AnswersInv' /\ SubsInv'
  <2>1. m.op = "reply" => (m.closing <=> m.of \in Closers)
    BY <1>5, <1>6
  <2>2. \A k \in DOMAIN up' : \E j \in DOMAIN up : up'[k] = up[j]
    BY <1>2
  <2>3. m.op \in Answers /\ m.of \in memos' /\ memos \subseteq memos' /\ dreq'[m.of].st # "running"
    BY <1>2, <1>4, <1>5, <1>6 DEF Answers
  <2>4. /\ \A i \in DOMAIN down : down[i].op \in Answers => down[i].of # m.of
        /\ \A k \in DOMAIN up' : up'[k] # m.of
    BY <1>2, <1>5, <1>6
  <2>. QED  BY <1>2, <1>6, <1>8, <2>1, <2>2, <2>3, <2>4, SendAnswer DEF EventsInv
<1>11. MirrorInv'
  BY <1>2, <1>6, QuietSendMirror DEF EventsInv, Answers
<1>. QED  BY <1>7, <1>9, <1>10, <1>11 DEF EventsInv

LEMMA ReplyFailedMirror ==
    ASSUME IInv, EventsInv, NEW r \in Reqs, dbus_req_reply_failed(r) PROVE EventsInv'
<1>1. /\ dreq[r].st = "running" /\ dreq' = [dreq EXCEPT ![r].st = "replied"]
      /\ UNCHANGED <<crashes, memos, cevents, areq, up, down, event, watch, subs>>
  BY DEF dbus_req_reply_failed, clientVars, eventVars
<1>2. dreq \in [Reqs -> DreqRecords]
  BY DEF IInv, TypeOK, DreqRecords
<1>3. /\ dreq'[r].st = "replied" /\ dreq'[r].closing = dreq[r].closing
      /\ \A q \in Reqs \ {r} : dreq'[q] = dreq[q]
  BY <1>1, <1>2 DEF DreqRecords
<1>4. RequestsInv'
  BY <1>1, <1>3 DEF EventsInv, RequestsInv
<1>5. \A q \in Reqs : dreq'[q].st = "running" => dreq[q].st = "running"
  BY <1>1, <1>3
<1>6. CallsInv'
  <2>1. up \in Seq(Reqs)
    BY DEF IInv, TypeOK
  <2>2. \A i \in DOMAIN up : up[i] \in Reqs
    BY <2>1, ElementOfSeq, LenProperties
  <2>. QED  BY <1>1, <1>5, <2>2 DEF EventsInv, CallsInv
<1>7. AnswersInv' /\ SubsInv'
  <2>1. down \in Seq(DownMessages)
    BY DEF IInv, MessagesInv
  <2>2. \A i \in DOMAIN down : down[i].op \in Answers => down[i].of \in Reqs
    <3>1. \A i \in DOMAIN down : down[i] \in DownMessages
      BY <2>1, ElementOfSeq, LenProperties
    <3>. QED  BY <3>1 DEF DownMessages
  <2>. QED  BY <1>1, <1>5, <2>2 DEF EventsInv, AnswersInv, SubsInv
<1>8. MirrorInv'
  BY <1>1 DEF EventsInv, MirrorInv, Mirror, Served
<1>. QED  BY <1>4, <1>6, <1>7, <1>8 DEF EventsInv

(* The last listener tells the end of each active event, once.             *)
LEMMA EndsFacts ==
    ASSUME IInv, NEW s, s \in cookies, listener = 1
    PROVE  /\ EndMessages(s) \in Seq(DownMessages)
           /\ \A i \in DOMAIN EndMessages(s) :
                /\ EndMessages(s)[i].op = "-" /\ EndMessages(s)[i].name \in ActiveEvents
                /\ EndMessages(s)[i].id = event[EndMessages(s)[i].name]
                /\ \A k \in DOMAIN EndMessages(s) :
                     EndMessages(s)[k].name = EndMessages(s)[i].name => k = i
           /\ \A n \in ActiveEvents : \E i \in DOMAIN EndMessages(s) : EndMessages(s)[i].name = n
<1> DEFINE Q == ActiveEvents
           f == [n \in Q |-> EventMsg("-", n)]
           I == {f[n] : n \in Q}
<1>1. Q \in SUBSET Names
  BY DEF ActiveEvents
<1>2. IsFiniteSet(Q)
  BY <1>1, BoundsAssumption, FS_Subset
<1>3. f \in [Q -> DownMessages]
  BY EventMsgFacts DEF IInv, WatchInv, ActiveEvents, EventOps
<1>4. EndMessages(s) = SetToSeq(I)
  <2>1. {EventMsg("-", n) : n \in ActiveEvents} = I
    OBVIOUS
  <2>. QED  BY <2>1 DEF EndMessages
<1>5. \A n \in Q : f[n].op = "-" /\ f[n].name = n /\ f[n].id = event[n]
  BY DEF EventMsg
<1> HIDE DEF f, Q
<1>6. IsFiniteSet(I)
  BY <1>2, <1>3, ImageFacts
<1>7. \A x \in I : /\ x.op = "-" /\ x.name \in Q /\ x.id = event[x.name]
                   /\ \A y \in I : y.name = x.name => y = x
  BY <1>5
<1>8. \A n \in Q : \E x \in I : x.name = n
  BY <1>5
<1> HIDE DEF I
<1>9. PICK q : q = SetToSeq(I)
  OBVIOUS
<1>10. /\ q \in Seq(I) /\ \A i, k \in DOMAIN q : q[i] = q[k] => i = k
       /\ \A x \in I : \E i \in DOMAIN q : q[i] = x
  BY <1>6, <1>9, ListFacts
<1>11. \A i \in DOMAIN q : q[i] \in I
  BY <1>10, ElementOfSeq, LenProperties
<1>12. \A n \in Q : \E i \in DOMAIN q : q[i].name = n
  BY <1>8, <1>10
<1>13. ActiveEvents = Q
  BY DEF Q
<1>. QED  BY <1>4, <1>7, <1>9, <1>10, <1>11, <1>12, <1>13, EndMessagesFacts

LEMMA CloseMirror ==
    ASSUME IInv, IInv', EventsInv, NEW s \in Sessions, CloseSession(s),
           UNCHANGED <<crashes, memos, cevents, areq, up, event>>,
           \A q \in Reqs : dreq'[q].st = "running" => dreq[q].st = "running"
    PROVE  AnswersInv' /\ SubsInv' /\ MirrorInv'
<1>1. PICK ms : ms = EndMessages(s)
  OBVIOUS
<1>2. down' = down \o ms
  BY <1>1 DEF CloseSession
<1>3. CASE s \in cookies /\ listener = 1
  <2>1. watch' = [n \in Names |-> 0] /\ subs' = NoSubs
    BY <1>3 DEF CloseSession
  <2>2. /\ ms \in Seq(DownMessages)
        /\ \A i \in DOMAIN ms :
             /\ ms[i].op = "-" /\ ms[i].name \in ActiveEvents /\ ms[i].id = event[ms[i].name]
             /\ \A k \in DOMAIN ms : ms[k].name = ms[i].name => k = i
        /\ \A n \in ActiveEvents : \E i \in DOMAIN ms : ms[i].name = n
    BY <1>1, <1>3, EndsFacts
  <2>3. AnswersInv' /\ SubsInv'
    <3>1. \A k \in DOMAIN ms : ms[k].op \notin Answers /\ ms[k].op \notin Subscriptions
      BY <2>2 DEF Answers, Subscriptions
    <3>. QED  BY <1>2, <2>2, <3>1, SendSubs DEF EventsInv
  <2>4. ASSUME NEW n \in Names
        PROVE  \E u : Along(n, ms, u) /\ u[1] = Served(n) /\ u[Len(ms) + 1] = Served(n)'
    <3>1. PICK a, b : a = Served(n) /\ b = Served(n)'
      OBVIOUS
    <3>2. a \in Views /\ a.id = IF watch[n] > 0 THEN event[n] ELSE 0
      BY <3>1, ServedFacts DEF IInv
    <3>3. b = Nothing
      BY <2>1, <3>1, UnwatchedNext
    <3>4. CASE n \in ActiveEvents
      <4>1. PICK j \in DOMAIN ms : ms[j].name = n
        BY <2>2, <3>4
      <4>2. ms[j].op = "-" /\ ms[j].id = a.id
        BY <2>2, <3>2, <3>4, <4>1 DEF ActiveEvents
      <4>3. Reads(n, a, ms[j], b)
        BY <3>3, <4>1, <4>2 DEF Reads, About, Nothing
      <4>4. \A i \in DOMAIN ms : i # j => ~About(ms[i], n)
        BY <2>2, <4>1 DEF About
      <4>5. \E u : Along(n, ms, u) /\ u[1] = a /\ u[Len(ms) + 1] = b
        BY <2>2, <3>2, <3>3, <4>3, <4>4, NothingFacts, OnceAlong
      <4>. QED  BY <3>1, <4>5
    <3>5. CASE n \notin ActiveEvents
      <4>1. watch[n] = 0
        BY <3>5 DEF ActiveEvents, IInv, TypeOK
      <4>2. a = b
        BY <3>1, <3>3, <4>1, UnwatchedView
      <4>3. \A i \in DOMAIN ms : ~About(ms[i], n)
        BY <2>2, <3>5 DEF About
      <4>4. \E u : Along(n, ms, u) /\ u[1] = a /\ u[Len(ms) + 1] = a
        <5>1. a \in Views /\ ms \in Seq(DownMessages)
          BY <2>2, <3>2
        <5>. QED  BY ONLY <5>1, <4>3, QuietAlong
      <4>. QED  BY <3>1, <4>2, <4>4
    <3>. QED  BY <3>4, <3>5
  <2>5. MirrorInv'
    BY <1>2, <2>2, <2>4, SendMirror DEF EventsInv
  <2>. QED  BY <2>3, <2>5
<1>4. CASE ~(s \in cookies /\ listener = 1)
  <2>1. ms = <<>> /\ UNCHANGED <<watch, subs>>
    BY <1>1, <1>4 DEF EndMessages, CloseSession
  <2>2. down' = down
    BY <1>2, <2>1 DEF IInv, MessagesInv
  <2>3. MirrorInv'
    BY <2>1, <2>2, MirrorKept DEF EventsInv, Served
  <2>4. AnswersInv' /\ SubsInv'
    <3>1. memos \subseteq Reqs
      BY DEF IInv, TypeOK
    <3>. QED  BY <2>2, <3>1, AnswersKept DEF EventsInv
  <2>. QED  BY <2>3, <2>4
<1>. QED  BY <1>3, <1>4

LEMMA ExpiresMirror ==
    ASSUME IInv, IInv', EventsInv, NEW s \in Sessions, SessionExpires(s)
    PROVE  EventsInv'
<1>1. CloseSession(s) /\ UNCHANGED <<crashes, memos, cevents, areq, up, dreq, event>>
  BY DEF SessionExpires, clientVars
<1>2. AnswersInv' /\ SubsInv' /\ MirrorInv'
  BY <1>1, CloseMirror
<1>3. CallsInv' /\ RequestsInv'
  BY <1>1 DEF EventsInv, CallsInv, RequestsInv
<1>. QED  BY <1>2, <1>3 DEF EventsInv

LEMMA UnrefMirror ==
    ASSUME IInv, IInv', EventsInv, NEW r \in Reqs, dbus_req_unref(r)
    PROVE  EventsInv'
<1>1. /\ dreq' = [dreq EXCEPT ![r] = NoDreq]
      /\ UNCHANGED <<crashes, memos, cevents, areq, up, event>>
  BY DEF dbus_req_unref, clientVars
<1>2. dreq \in [Reqs -> DreqRecords] /\ NoDreq.st = "none"
  BY DEF IInv, TypeOK, DreqRecords, NoDreq
<1>3. dreq'[r].st = "none" /\ \A q \in Reqs \ {r} : dreq'[q] = dreq[q]
  BY <1>1, <1>2
<1>4. \A q \in Reqs : dreq'[q].st = "running" => dreq[q].st = "running"
  BY <1>3
<1>5. RequestsInv'
  BY <1>1, <1>3 DEF EventsInv, RequestsInv
<1>6. up \in Seq(Reqs) /\ memos \subseteq Reqs
  BY DEF IInv, TypeOK
<1>7. CallsInv'
  <2>1. \A i \in DOMAIN up : up[i] \in Reqs
    BY <1>6, ElementOfSeq, LenProperties
  <2>. QED  BY <1>1, <1>4, <2>1 DEF EventsInv, CallsInv
<1>8. AnswersInv' /\ SubsInv' /\ MirrorInv'
  <2>1. CASE CloseSession(Owner[r])
    <3>1. PICK s \in Sessions : s = Owner[r]
      BY OwnerAssumption
    <3>2. CloseSession(s)
      BY <2>1, <3>1
    <3>. QED  BY <1>1, <1>4, <3>2, CloseMirror
  <2>2. CASE UNCHANGED <<down, listenVars, watch, subs>>
    <3>1. MirrorInv'
      BY <1>1, <2>2, MirrorKept DEF EventsInv, Served
    <3>2. AnswersInv' /\ SubsInv'
      BY <1>1, <1>4, <1>6, <2>2, AnswersKept DEF EventsInv
    <3>. QED  BY <3>1, <3>2
  <2>. QED  BY <2>1, <2>2 DEF dbus_req_unref
<1>. QED  BY <1>5, <1>7, <1>8 DEF EventsInv

-----------------------------------------------------------------------------
(* The server: events.                                                     *)

LEMMA NewEventMirror == ASSUME IInv, EventsInv, NEW n \in Names, EventCreate(n) PROVE EventsInv'
<1>1. /\ event[n] = 0 /\ event' = [event EXCEPT ![n] = last_id + 1]
      /\ UNCHANGED <<crashes, memos, cevents, areq, up, down, dreq, watch, subs>>
  BY DEF EventCreate, clientVars
<1>2. event \in [Names -> 0..MaxEventId] /\ watch \in [Names -> Nat]
  BY DEF IInv, TypeOK
<1>3. ~(watch[n] > 0)
  BY <1>1 DEF IInv, WatchInv
<1>4. \A k \in Names : Served(k)' = Served(k)
  <2>1. \A k \in Names : k # n => event'[k] = event[k]
    BY <1>1, <1>2
  <2>. QED  BY <1>1, <1>3, <2>1 DEF Served
<1>5. MirrorInv'
  BY <1>1, <1>4, MirrorKept DEF EventsInv
<1>6. CallsInv' /\ AnswersInv' /\ SubsInv' /\ RequestsInv'
  BY <1>1 DEF EventsInv, CallsInv, AnswersInv, SubsInv, RequestsInv
<1>. QED  BY <1>5, <1>6 DEF EventsInv

(* Messages about events, while the requests stay as they are.             *)
LEMMA EventSent ==
    ASSUME IInv, EventsInv, MirrorInv', NEW ms \in Seq(DownMessages), down' = down \o ms,
           UNCHANGED <<memos, areq, up, dreq>>,
           \A k \in DOMAIN ms : ms[k].op \notin Answers,
           \A k \in DOMAIN ms : ms[k].op \in Subscriptions =>
             ms[k].of \in Reqs /\ dreq[ms[k].of].st = "running"
    PROVE  EventsInv'
<1>1. \A k \in DOMAIN ms : ms[k].op \in Subscriptions =>
         dreq[ms[k].of].st = "running" /\ ms[k].of \in memos
  BY DEF EventsInv, RequestsInv
<1>2. AnswersInv' /\ SubsInv'
  BY <1>1, SendSubs DEF EventsInv
<1>3. CallsInv' /\ RequestsInv'
  BY DEF EventsInv, CallsInv, RequestsInv
<1>. QED  BY <1>2, <1>3 DEF EventsInv

LEMMA QuietSent ==
    ASSUME IInv, EventsInv, NEW m \in DownMessages, down' = Append(down, m),
           UNCHANGED <<crashes, memos, cevents, areq, up, dreq, event, watch, subs>>,
           m.op = "*" \/ (m.op = "!" /\ watch[m.name] > 0 /\ m.id = event[m.name])
    PROVE  EventsInv'
<1>1. MirrorInv'
  BY QuietSendMirror DEF EventsInv
<1>2. PICK ms : ms = <<m>>
  OBVIOUS
<1>3. ms \in Seq(DownMessages) /\ DOMAIN ms = {1} /\ ms[1] = m /\ down' = down \o ms
  BY <1>2, AppendIsSent DEF IInv, MessagesInv
<1>4. \A k \in DOMAIN ms : ms[k].op \notin Answers /\ ms[k].op \notin Subscriptions
  BY <1>3 DEF Answers, Subscriptions
<1>. QED  BY <1>1, <1>3, <1>4, EventSent

LEMMA PushMirror ==
    ASSUME IInv, EventsInv, NEW n \in Names, afb_api_dbus_server_event_push(n)
    PROVE  EventsInv'
<1>1. PICK m : m = EventMsg("!", n)
  OBVIOUS
<1>2. /\ watch[n] > 0 /\ down' = Append(down, m)
      /\ UNCHANGED <<crashes, memos, cevents, areq, up, dreq, event, watch, subs>>
  BY <1>1 DEF afb_api_dbus_server_event_push, clientVars, eventVars
<1>3. event[n] # 0
  BY <1>2 DEF IInv, WatchInv
<1>4. m \in DownMessages /\ m.op = "!" /\ m.name = n /\ m.id = event[n]
  <2>1. m \in DownMessages
    BY <1>1, <1>3, EventMsgFacts DEF IInv, EventOps
  <2>. QED  BY <1>1, <2>1 DEF EventMsg
<1>. QED  BY <1>2, <1>4, QuietSent

LEMMA BroadcastMirror ==
    ASSUME IInv, EventsInv, afb_api_dbus_server_event_broadcast
    PROVE  EventsInv'
<1>1. PICK m : m = Message("*", "none", FALSE)
  OBVIOUS
<1>2. /\ down' = Append(down, m)
      /\ UNCHANGED <<crashes, memos, cevents, areq, up, dreq, event, watch, subs>>
  BY <1>1 DEF afb_api_dbus_server_event_broadcast, clientVars, eventVars
<1>3. m \in DownMessages /\ m.op = "*"
  BY <1>1, MessageFacts DEF Message
<1>. QED  BY <1>2, <1>3, QuietSent

LEMMA EventEndMirror ==
    ASSUME IInv, IInv', EventsInv, NEW n \in Names, EventDrop(n)
    PROVE  EventsInv'
<1>1. PICK ms : ms = IF watch[n] = 0 THEN <<>> ELSE <<EventMsg("-", n)>>
  OBVIOUS
<1>2. /\ event[n] # 0 /\ down' = down \o ms
      /\ event' = [event EXCEPT ![n] = 0] /\ watch' = [watch EXCEPT ![n] = 0]
      /\ subs' = [c \in Sessions |-> [subs[c] EXCEPT ![n] = 0]]
      /\ UNCHANGED <<crashes, memos, cevents, areq, up, dreq>>
  <2>1. CASE watch[n] = 0
    <3>1. down' = down /\ ms = <<>>
      BY <1>1, <2>1 DEF EventDrop
    <3>2. down \o <<>> = down
      BY DEF IInv, MessagesInv
    <3>. QED  BY <3>1, <3>2 DEF EventDrop, clientVars
  <2>2. CASE watch[n] # 0
    <3>1. event[n] # 0 /\ down' = Append(down, EventMsg("-", n)) /\ ms = <<EventMsg("-", n)>>
      BY <1>1, <2>2 DEF EventDrop
    <3>2. EventMsg("-", n) \in DownMessages
      BY <3>1, EventMsgFacts DEF IInv, EventOps
    <3>3. down' = down \o ms
      BY <3>1, <3>2, AppendIsSent DEF IInv, MessagesInv
    <3>. QED  BY <3>3 DEF EventDrop, clientVars
  <2>. QED  BY <2>1, <2>2
<1>3. /\ watch \in [Names -> Nat] /\ event \in [Names -> 0..MaxEventId]
      /\ subs \in [Sessions -> [Names -> Nat]]
  BY DEF IInv, TypeOK
<1>4. /\ watch'[n] = 0
      /\ \A k \in Names \ {n} : /\ watch'[k] = watch[k] /\ event'[k] = event[k]
                                /\ \A c \in Sessions : subs'[c][k] = subs[c][k]
  BY <1>2, <1>3
<1>5. PICK m : m = EventMsg("-", n)
  OBVIOUS
<1>6. m \in DownMessages /\ m.op = "-" /\ m.name = n /\ m.id = event[n]
  <2>1. m \in DownMessages
    BY <1>2, <1>5, EventMsgFacts DEF IInv, EventOps
  <2>. QED  BY <1>5, <2>1 DEF EventMsg
<1>7. ms = <<>> \/ (watch[n] # 0 /\ ms = <<m>>)
  BY <1>1, <1>5
<1>8. ms \in Seq(DownMessages) /\ \A k \in DOMAIN ms : ms[k].op = "-"
  <2>1. CASE ms = <<>>
    BY <2>1
  <2>2. CASE ms = <<m>>
    <3>1. ms \in Seq(DownMessages) /\ DOMAIN ms = {1} /\ ms[1] = m
      BY <1>6, <2>2
    <3>. QED  BY <1>6, <3>1
  <2>. QED  BY <1>7, <2>1, <2>2
<1>9. ASSUME NEW k \in Names
      PROVE  \E u : Along(k, ms, u) /\ u[1] = Served(k) /\ u[Len(ms) + 1] = Served(k)'
  <2>1. PICK a, b : a = Served(k) /\ b = Served(k)'
    OBVIOUS
  <2>2. a \in Views /\ a.id = IF watch[k] > 0 THEN event[k] ELSE 0
    BY <2>1, ServedFacts DEF IInv
  <2>3. CASE k # n
    <3>1. b = a
      BY <1>4, <2>1, <2>3 DEF Served
    <3>2. Reads(k, a, m, a)
      BY <1>6, <2>3 DEF Reads, About
    <3>3. \E u : Along(k, <<>>, u) /\ u[1] = a /\ u[Len(<<>>) + 1] = a
      BY <2>2, NoneAlong
    <3>4. \E u : Along(k, <<m>>, u) /\ u[1] = a /\ u[Len(<<m>>) + 1] = a
      BY <2>2, <3>2, OneAlong
    <3>. QED  BY <1>7, <2>1, <3>1, <3>3, <3>4
  <2>4. CASE k = n
    <3>1. b = Nothing
      BY <1>4, <2>1, <2>4, UnwatchedNext
    <3>2. CASE watch[n] = 0
      <4>1. a = Nothing
        BY <2>1, <2>4, <3>2, UnwatchedView
      <4>2. ms = <<>>
        BY <1>7, <3>2
      <4>3. \E u : Along(k, <<>>, u) /\ u[1] = a /\ u[Len(<<>>) + 1] = a
        BY <2>2, NoneAlong
      <4>. QED  BY <2>1, <3>1, <4>1, <4>2, <4>3
    <3>3. CASE watch[n] # 0
      <4>1. a.id = m.id
        BY <1>3, <1>6, <2>2, <2>4, <3>3
      <4>2. Reads(k, a, m, b)
        BY <1>6, <2>4, <3>1, <4>1 DEF Reads, About, Nothing
      <4>3. ms = <<m>>
        BY <1>1, <1>5, <3>3
      <4>4. b \in Views
        BY <3>1, NothingFacts
      <4>5. \E u : Along(k, <<m>>, u) /\ u[1] = a /\ u[Len(<<m>>) + 1] = b
        BY <2>2, <4>2, <4>4, OneAlong
      <4>. QED  BY <2>1, <4>3, <4>5
    <3>. QED  BY <3>2, <3>3
  <2>. QED  BY <2>3, <2>4
<1>10. MirrorInv'
  BY <1>2, <1>8, <1>9, SendMirror DEF EventsInv
<1>11. \A k \in DOMAIN ms : ms[k].op \notin Answers /\ ms[k].op \notin Subscriptions
  BY <1>8 DEF Answers, Subscriptions
<1>. QED  BY <1>2, <1>8, <1>10, <1>11, EventSent

LEMMA SubscribeMirror ==
    ASSUME IInv, IInv', EventsInv, NEW r \in Reqs, NEW n \in Names, dbus_req_subscribe(r, n)
    PROVE  EventsInv'
<1>1. PICK c \in Sessions : c = Owner[r]
  BY OwnerAssumption
<1>2. PICK ps, ms : /\ ps = IF watch[n] = 0 THEN <<EventMsg("+", n)>> ELSE <<>>
                    /\ ms = ps \o <<ReqMsg("S", n, r)>>
  OBVIOUS
<1>3. /\ dreq[r].st = "running" /\ event[n] # 0 /\ subs[c][n] = 0 /\ down' = down \o ms
      /\ watch' = [watch EXCEPT ![n] = @ + 1] /\ subs' = [subs EXCEPT ![c][n] = @ + 1]
      /\ UNCHANGED <<crashes, memos, cevents, areq, up, dreq, event>>
  <2>0. PICK t, d : t = <<ReqMsg("S", n, r)>> /\ d = down
    OBVIOUS
  <2>1. event[n] # 0 /\ down' = (d \o ps) \o t
    BY <1>2, <2>0 DEF dbus_req_subscribe
  <2>2. EventMsg("+", n) \in DownMessages /\ ReqMsg("S", n, r) \in DownMessages
    BY <2>1, EventMsgFacts DEF IInv, EventOps, Subscriptions
  <2>3. ps \in Seq(DownMessages) /\ t \in Seq(DownMessages)
    BY <1>2, <2>0, <2>2
  <2>4. d \in Seq(DownMessages)
    BY <2>0 DEF IInv, MessagesInv
  <2>5. (d \o ps) \o t = d \o (ps \o t)
    BY ONLY <2>3, <2>4, ConcatAssociative
  <2>6. down' = down \o ms
    BY ONLY <1>2, <2>0, <2>1, <2>5
  <2>. QED  BY <1>1, <2>6 DEF dbus_req_subscribe, clientVars
<1>4. watch \in [Names -> Nat] /\ subs \in [Sessions -> [Names -> Nat]]
  BY DEF IInv, TypeOK
<1>5. /\ watch'[n] = watch[n] + 1 /\ subs'[c][n] = 1
      /\ \A d \in Sessions : d # c => subs'[d][n] = subs[d][n]
      /\ \A k \in Names \ {n} : /\ watch'[k] = watch[k]
                                /\ \A d \in Sessions : subs'[d][k] = subs[d][k]
  BY <1>3, <1>4
<1>6. PICK e, s : e = EventMsg("+", n) /\ s = ReqMsg("S", n, r)
  OBVIOUS
<1>7. /\ e \in DownMessages /\ e.op = "+" /\ e.name = n /\ e.id = event[n]
      /\ s \in DownMessages /\ s.op = "S" /\ s.name = n /\ s.id = event[n] /\ s.of = r
  <2>1. e \in DownMessages /\ s \in DownMessages
    BY <1>3, <1>6, EventMsgFacts DEF IInv, EventOps, Subscriptions
  <2>2. s = [op |-> "S", of |-> r, closing |-> FALSE, id |-> event[n], name |-> n]
    BY <1>6 DEF ReqMsg, EventMsg
  <2>3. e = [op |-> "+", of |-> "none", closing |-> FALSE, id |-> event[n], name |-> n]
    BY <1>6 DEF EventMsg
  <2>. QED  BY <2>1, <2>2, <2>3
<1>8. (watch[n] = 0 => ms = <<e, s>>) /\ (watch[n] # 0 => ms = <<s>>)
  <2>1. CASE watch[n] = 0
    <3>1. ms = <<e>> \o <<s>>
      BY <1>2, <1>6, <2>1
    <3>2. <<e>> \o <<s>> = <<e, s>>
      BY <1>7, PairOfSeqs
    <3>. QED  BY <2>1, <3>1, <3>2
  <2>2. CASE watch[n] # 0
    <3>1. ms = <<>> \o <<s>>
      BY <1>2, <1>6, <2>2
    <3>. QED  BY <2>2, <3>1
  <2>. QED  BY <2>1, <2>2
<1>9. ms \in Seq(DownMessages) /\ \A k \in DOMAIN ms : ms[k] = e \/ ms[k] = s
  <2>1. CASE ms = <<e, s>>
    <3>1. ms \in Seq(DownMessages) /\ DOMAIN ms = {1, 2} /\ ms[1] = e /\ ms[2] = s
      BY <1>7, <2>1
    <3>. QED  BY <3>1
  <2>2. CASE ms = <<s>>
    <3>1. ms \in Seq(DownMessages) /\ DOMAIN ms = {1} /\ ms[1] = s
      BY <1>7, <2>2
    <3>. QED  BY <3>1
  <2>. QED  BY <1>8, <2>1, <2>2
<1>10. ASSUME NEW k \in Names
       PROVE  \E u : Along(k, ms, u) /\ u[1] = Served(k) /\ u[Len(ms) + 1] = Served(k)'
  <2>1. PICK a, w : a = Served(k) /\ w = Served(k)'
    OBVIOUS
  <2>2. /\ a \in Views /\ a.id = IF watch[k] > 0 THEN event[k] ELSE 0
        /\ a.subs = [d \in Sessions |-> subs[d][k]]
    BY <2>1, ServedFacts DEF IInv
  <2>3. CASE k # n
    <3>1. w = a
      BY <1>3, <1>5, <2>1, <2>3 DEF Served
    <3>2. Reads(k, a, e, a) /\ Reads(k, a, s, a)
      BY <1>7, <2>3 DEF Reads, About
    <3>3. \E u : Along(k, <<s>>, u) /\ u[1] = a /\ u[Len(<<s>>) + 1] = a
      BY <2>2, <3>2, OneAlong
    <3>4. \E u : Along(k, <<e, s>>, u) /\ u[1] = a /\ u[Len(<<e, s>>) + 1] = a
      BY <2>2, <3>2, TwoAlong
    <3>. QED  BY <1>8, <2>1, <3>1, <3>3, <3>4
  <2>4. CASE k = n
    <3>1. w = [id |-> event[n], subs |-> [a.subs EXCEPT ![c] = @ + 1]]
      <4>1. watch'[n] > 0
        BY <1>4, <1>5
      <4>2. [d \in Sessions |-> subs'[d][n]] = [a.subs EXCEPT ![c] = @ + 1]
        BY <1>3, <1>5, <2>2, <2>4
      <4>3. w = [id |-> event'[n], subs |-> [d \in Sessions |-> subs'[d][n]]]
        BY <2>1, <2>4, <4>1 DEF Served
      <4>4. event'[n] = event[n]
        BY <1>3
      <4>. QED  BY ONLY <4>2, <4>3, <4>4
    <3>2. w \in Views
      <4>1. [a.subs EXCEPT ![c] = @ + 1] \in [Sessions -> Nat]
        BY <2>2 DEF Views
      <4>2. event[n] \in 0..MaxEventId
        BY DEF IInv, TypeOK
      <4>. QED  BY <3>1, <4>1, <4>2 DEF Views
    <3>4. PICK b : b = [id |-> event[n], subs |-> a.subs]
      OBVIOUS
    <3>5. b \in Views
      BY <2>2, <3>4 DEF Views, IInv, TypeOK
    <3>6. Reads(n, b, s, w)
      BY <1>1, <1>7, <3>1, <3>4 DEF Reads, About
    <3>7. CASE watch[n] = 0
      <4>1. a = Nothing
        BY <2>1, <2>4, <3>7, UnwatchedView
      <4>2. Reads(n, a, e, b)
        BY <1>7, <3>4, <4>1 DEF Reads, About, Nothing
      <4>3. \E u : Along(n, <<e, s>>, u) /\ u[1] = a /\ u[Len(<<e, s>>) + 1] = w
        BY <2>2, <3>2, <3>5, <3>6, <4>2, TwoAlong
      <4>. QED  BY <1>8, <2>1, <2>4, <3>7, <4>3
    <3>8. CASE watch[n] # 0
      <4>1. a.id = event[n]
        BY <1>4, <2>2, <2>4, <3>8
      <4>2. a = b
        BY <2>2, <3>4, <4>1 DEF Views
      <4>3. \E u : Along(n, <<s>>, u) /\ u[1] = a /\ u[Len(<<s>>) + 1] = w
        <5>1. Reads(n, a, s, w)
          BY <3>6, <4>2
        <5>. QED  BY <2>2, <3>2, <5>1, OneAlong
      <4>. QED  BY <1>8, <2>1, <2>4, <3>8, <4>3
    <3>. QED  BY <3>7, <3>8
  <2>. QED  BY <2>3, <2>4
<1>11. MirrorInv'
  BY <1>3, <1>9, <1>10, SendMirror DEF EventsInv
<1>12. \A k \in DOMAIN ms : /\ ms[k].op \notin Answers
                            /\ ms[k].op \in Subscriptions => ms[k].of = r
  BY <1>7, <1>9 DEF Answers, Subscriptions
<1>. QED  BY <1>3, <1>9, <1>11, <1>12, EventSent

LEMMA UnsubscribeMirror ==
    ASSUME IInv, IInv', EventsInv, NEW r \in Reqs, NEW n \in Names, dbus_req_unsubscribe(r, n)
    PROVE  EventsInv'
<1>1. PICK c \in Sessions : c = Owner[r]
  BY OwnerAssumption
<1>2. PICK ms : ms = Unsubscribed(n, r)
  OBVIOUS
<1>3. /\ dreq[r].st = "running" /\ event[n] # 0 /\ subs[c][n] > 0 /\ down' = down \o ms
      /\ watch' = [watch EXCEPT ![n] = @ - 1] /\ subs' = [subs EXCEPT ![c][n] = @ - 1]
      /\ UNCHANGED <<crashes, memos, cevents, areq, up, dreq, event>>
  BY <1>1, <1>2 DEF dbus_req_unsubscribe, clientVars
<1>4. watch \in [Names -> Nat] /\ subs \in [Sessions -> [Names -> Nat]] /\ watch' \in [Names -> Nat]
  BY DEF IInv, TypeOK
<1>5. /\ watch'[n] = watch[n] - 1 /\ subs'[c][n] = subs[c][n] - 1
      /\ \A d \in Sessions : d # c => subs'[d][n] = subs[d][n]
      /\ \A k \in Names \ {n} : /\ watch'[k] = watch[k]
                                /\ \A d \in Sessions : subs'[d][k] = subs[d][k]
  BY <1>3, <1>4
<1>6. watch[n] > 0
  <2>1. watch[n] \in Nat /\ watch'[n] \in Nat
    BY <1>4
  <2>. QED  BY <1>5, <2>1
<1>7. PICK e, s : e = EventMsg("-", n) /\ s = ReqMsg("U", n, r)
  OBVIOUS
<1>8. /\ e \in DownMessages /\ e.op = "-" /\ e.name = n /\ e.id = event[n]
      /\ s \in DownMessages /\ s.op = "U" /\ s.name = n /\ s.id = event[n] /\ s.of = r
  <2>1. e \in DownMessages /\ s \in DownMessages
    BY <1>3, <1>7, EventMsgFacts DEF IInv, EventOps, Subscriptions
  <2>2. s = [op |-> "U", of |-> r, closing |-> FALSE, id |-> event[n], name |-> n]
    BY <1>7 DEF ReqMsg, EventMsg
  <2>3. e = [op |-> "-", of |-> "none", closing |-> FALSE, id |-> event[n], name |-> n]
    BY <1>7 DEF EventMsg
  <2>. QED  BY <2>1, <2>2, <2>3
<1>9. (watch[n] = 1 => ms = <<s, e>>) /\ (watch[n] # 1 => ms = <<s>>)
  <2>1. CASE watch[n] = 1
    <3>1. ms = <<s>> \o <<e>>
      BY <1>2, <1>7, <2>1 DEF Unsubscribed
    <3>2. <<s>> \o <<e>> = <<s, e>>
      BY <1>8, PairOfSeqs
    <3>. QED  BY <2>1, <3>1, <3>2
  <2>2. CASE watch[n] # 1
    <3>1. ms = <<s>> \o <<>>
      BY <1>2, <1>7, <2>2 DEF Unsubscribed
    <3>. QED  BY <2>2, <3>1
  <2>. QED  BY <2>1, <2>2
<1>10. ms \in Seq(DownMessages) /\ \A k \in DOMAIN ms : ms[k] = e \/ ms[k] = s
  <2>1. CASE ms = <<s, e>>
    <3>1. ms \in Seq(DownMessages) /\ DOMAIN ms = {1, 2} /\ ms[1] = s /\ ms[2] = e
      BY <1>8, <2>1
    <3>. QED  BY <3>1
  <2>2. CASE ms = <<s>>
    <3>1. ms \in Seq(DownMessages) /\ DOMAIN ms = {1} /\ ms[1] = s
      BY <1>8, <2>2
    <3>. QED  BY <3>1
  <2>. QED  BY <1>9, <2>1, <2>2
<1>11. ASSUME NEW k \in Names
       PROVE  \E u : Along(k, ms, u) /\ u[1] = Served(k) /\ u[Len(ms) + 1] = Served(k)'
  <2>1. PICK a, w : a = Served(k) /\ w = Served(k)'
    OBVIOUS
  <2>2. /\ a \in Views /\ a.id = IF watch[k] > 0 THEN event[k] ELSE 0
        /\ a.subs = [d \in Sessions |-> subs[d][k]]
    BY <2>1, ServedFacts DEF IInv
  <2>3. CASE k # n
    <3>1. w = a
      BY <1>3, <1>5, <2>1, <2>3 DEF Served
    <3>2. Reads(k, a, e, a) /\ Reads(k, a, s, a)
      BY <1>8, <2>3 DEF Reads, About
    <3>3. \E u : Along(k, <<s>>, u) /\ u[1] = a /\ u[Len(<<s>>) + 1] = a
      BY <2>2, <3>2, OneAlong
    <3>4. \E u : Along(k, <<s, e>>, u) /\ u[1] = a /\ u[Len(<<s, e>>) + 1] = a
      BY <2>2, <3>2, TwoAlong
    <3>. QED  BY <1>9, <2>1, <3>1, <3>3, <3>4
  <2>4. CASE k = n
    <3>1. PICK f : f = [a.subs EXCEPT ![c] = @ - 1]
      OBVIOUS
    <3>2. f \in [Sessions -> Nat] /\ [d \in Sessions |-> subs'[d][n]] = f /\ a.subs[c] > 0
      <4>1. a.subs \in [Sessions -> Nat] /\ a.subs[c] > 0
        BY <1>3, <2>2, <2>4 DEF Views
      <4>2. f \in [Sessions -> Nat]
        <5>1. a.subs[c] - 1 \in Nat
          BY <4>1
        <5>. QED  BY <3>1, <4>1, <5>1
      <4>3. [d \in Sessions |-> subs'[d][n]] = f
        BY <1>5, <2>2, <2>4, <3>1
      <4>. QED  BY <4>1, <4>2, <4>3
    <3>3. PICK b : b = [id |-> event[n], subs |-> f]
      OBVIOUS
    <3>4. b \in Views /\ a.id = event[n]
      BY <1>6, <2>2, <2>4, <3>2, <3>3 DEF Views, IInv, TypeOK
    <3>6. Reads(n, a, s, b)
      BY <1>8, <3>1, <3>2, <3>3, <3>4, <1>1 DEF Reads, About
    <3>7. CASE watch[n] = 1
      <4>1. w = Nothing
        BY <1>5, <2>1, <2>4, <3>7, UnwatchedNext
      <4>2. Reads(n, b, e, w)
        BY <1>8, <3>3, <4>1 DEF Reads, About, Nothing
      <4>3. w \in Views
        BY <4>1, NothingFacts
      <4>4. \E u : Along(n, <<s, e>>, u) /\ u[1] = a /\ u[Len(<<s, e>>) + 1] = w
        BY <2>2, <3>4, <3>6, <4>2, <4>3, TwoAlong
      <4>. QED  BY <1>9, <2>1, <2>4, <3>7, <4>4
    <3>8. CASE watch[n] # 1
      <4>1. watch'[n] > 0
        BY <1>4, <1>5, <1>6, <3>8
      <4>2. w = b
        <5>1. event' = event
          BY <1>3
        <5>2. w = [id |-> event[n], subs |-> [d \in Sessions |-> subs'[d][n]]]
          BY <2>1, <2>4, <4>1, <5>1 DEF Served
        <5>. QED  BY <3>2, <3>3, <5>2
      <4>3. \E u : Along(n, <<s>>, u) /\ u[1] = a /\ u[Len(<<s>>) + 1] = w
        BY <2>2, <3>4, <3>6, <4>2, OneAlong
      <4>. QED  BY <1>9, <2>1, <2>4, <3>8, <4>3
    <3>. QED  BY <3>7, <3>8
  <2>. QED  BY <2>3, <2>4
<1>12. MirrorInv'
  BY <1>3, <1>10, <1>11, SendMirror DEF EventsInv
<1>13. \A k \in DOMAIN ms : /\ ms[k].op \notin Answers
                            /\ ms[k].op \in Subscriptions => ms[k].of = r
  BY <1>8, <1>10 DEF Answers, Subscriptions
<1>. QED  BY <1>3, <1>10, <1>12, <1>13, EventSent

-----------------------------------------------------------------------------
LEMMA InitMirror == Init => EventsInv
<1> SUFFICES ASSUME Init PROVE EventsInv
  OBVIOUS
<1>1. AnswersInv /\ CallsInv /\ SubsInv
  BY DEF Init, AnswersInv, CallsInv, SubsInv
<1>2. RequestsInv
  BY DEF Init, RequestsInv, NoDreq
<1>3. MirrorInv
  <2>1. ASSUME NEW n \in Names PROVE \E v : Mirror(n, v)
    <3>1. PICK v : v = [i \in 1..1 |-> Nothing]
      OBVIOUS
    <3>2. v \in [1..1 -> Views] /\ v[1] = Nothing
      BY <3>1, NothingFacts
    <3>3. Len(down) + 1 = 1 /\ DOMAIN down = {} /\ DOMAIN cevents = {}
      BY DEF Init
    <3>4. Served(n) = Nothing
      BY DEF Init, Served, Nothing, NoWatch, NoSubs
    <3>5. Knows(n, v[1], cevents)
      BY <3>2, <3>3, NothingFacts DEF Knows
    <3>6. Along(n, down, v)
      BY <3>2, <3>3 DEF Along
    <3>. QED  BY <3>2, <3>3, <3>4, <3>5, <3>6 DEF Mirror
  <2>. QED  BY <2>1 DEF MirrorInv
<1>. QED  BY <1>1, <1>2, <1>3 DEF EventsInv

LEMMA NextMirror == ASSUME IInv, IInv', EventsInv, [Next]_vars PROVE EventsInv'
<1>1. CASE afb_api_dbus_add_server \/ UNCHANGED vars
  <2>1. UNCHANGED <<crashes, memos, cevents, areq, up, down, dreq, event, watch, subs>>
    BY <1>1 DEF afb_api_dbus_add_server, vars, clientVars, eventVars
  <2>. QED  BY <2>1, StillStep
<1>2. CASE Crash
  BY <1>2, CrashMirror
<1>3. CASE ClientReads
  BY <1>3, ReplyReadMirror, CreateMirror, DropMirror, SubscriptionMirror, PushReadMirror
     DEF ClientReads
<1>4. CASE ServerReads
  BY <1>4, CalledMirror, CalledFailedMirror DEF ServerReads
<1>5. ASSUME NEW r \in Reqs,
             \/ api_dbus_client_call(r) \/ api_dbus_client_call_failed(r)
             \/ dbus_req_reply(r) \/ dbus_req_reply_failed(r) \/ dbus_req_unref(r)
      PROVE  EventsInv'
  BY <1>5, CallMirror, CallFailedMirror, ReplyMirror, ReplyFailedMirror, UnrefMirror
<1>6. ASSUME NEW r \in Reqs, NEW n \in Names,
             dbus_req_subscribe(r, n) \/ dbus_req_unsubscribe(r, n)
      PROVE  EventsInv'
  BY <1>6, SubscribeMirror, UnsubscribeMirror
<1>7. ASSUME NEW s \in Sessions, SessionExpires(s) PROVE EventsInv'
  BY <1>7, ExpiresMirror
<1>8. ASSUME NEW n \in Names,
             EventCreate(n) \/ EventDrop(n) \/ afb_api_dbus_server_event_push(n)
      PROVE  EventsInv'
  BY <1>8, NewEventMirror, EventEndMirror, PushMirror
<1>9. CASE afb_api_dbus_server_event_broadcast
  BY <1>9, BroadcastMirror
<1>. QED  BY <1>1, <1>2, <1>3, <1>4, <1>5, <1>6, <1>7, <1>8, <1>9 DEF Next

LEMMA MirrorIsExact == ASSUME IInv, EventsInv PROVE EventsAreMirrored
<1>1. down \in Seq(DownMessages) /\ cevents \in Seq(KnownEvents)
  BY DEF IInv, TypeOK, MessagesInv, KnownEvents
<1>2. ASSUME crashes = 0, down # <<>>
      PROVE  LET m == Head(down)
             IN  /\ m.op \in {"S", "U", "!", "-"} => EventOf(m) # 0
                 /\ m.op \in {"S", "U", "reply", "error"} => m.of \in memos
  <2>1. PICK m : m = Head(down)
    OBVIOUS
  <2>2. 1 \in DOMAIN down /\ m = down[1] /\ m \in DownMessages
    BY <1>1, <1>2, <2>1, TailFacts
  <2>3. ASSUME m.op \in {"S", "U", "!", "-"} PROVE EventOf(m) # 0
    <3>1. m.id # 0 /\ m.name \in Names
      BY <2>2, <2>3 DEF DownMessages, Subscriptions, EventOps
    <3>2. PICK v : Mirror(m.name, v)
      BY <1>2, <3>1 DEF EventsInv, MirrorInv
    <3>3. v[1].id = m.id /\ Knows(m.name, v[1], cevents)
      BY <2>2, <2>3, <3>2 DEF Mirror, Along, Reads, About
    <3>4. PICK i \in DOMAIN cevents :
             cevents[i] = [id |-> v[1].id, name |-> m.name, refcount |-> 1, watch |-> v[1].subs]
      BY <3>1, <3>3 DEF Knows
    <3>5. cevents[i].id = m.id /\ cevents[i].name = m.name
      BY <3>3, <3>4
    <3>. QED  BY <1>1, <3>5, EventOfFacts
  <2>4. m.op \in {"S", "U", "reply", "error"} => m.of \in memos
    BY <2>2 DEF EventsInv, SubsInv, AnswersInv, Subscriptions, Answers
  <2>. QED  BY <2>1, <2>3, <2>4
<1>3. ASSUME crashes = 0, down = <<>>
      PROVE  /\ \A n \in Names :
                  Cardinality({i \in DOMAIN cevents : cevents[i].name = n})
                    = IF watch[n] > 0 THEN 1 ELSE 0
             /\ \A i \in DOMAIN cevents :
                  /\ cevents[i].id = event[cevents[i].name] /\ cevents[i].refcount = 1
                  /\ \A s \in Sessions : cevents[i].watch[s] = subs[s][cevents[i].name]
  <2>1. ASSUME NEW n \in Names PROVE Knows(n, Served(n), cevents)
    <3>1. PICK v : Mirror(n, v)
      BY <1>3 DEF EventsInv, MirrorInv
    <3>2. Len(down) + 1 = 1
      BY <1>3
    <3>. QED  BY <3>1, <3>2 DEF Mirror
  <2>2. ASSUME NEW n \in Names
        PROVE  Cardinality({i \in DOMAIN cevents : cevents[i].name = n})
                 = IF watch[n] > 0 THEN 1 ELSE 0
    <3> DEFINE I == {i \in DOMAIN cevents : cevents[i].name = n}
    <3>1. watch[n] > 0 => Served(n).id # 0
      BY ServedFacts DEF IInv, WatchInv
    <3>2. ~(watch[n] > 0) => Served(n).id = 0
      BY ServedFacts DEF IInv
    <3>3. CASE watch[n] > 0
      <4>1. PICK i \in DOMAIN cevents :
               /\ cevents[i].name = n
               /\ \A k \in DOMAIN cevents : cevents[k].name = n => k = i
        BY <2>1, <3>1, <3>3 DEF Knows
      <4>2. I = {i}
        BY <4>1
      <4>3. Cardinality(I) = 1
        BY <4>2, FS_Singleton
      <4>. QED  BY <3>3, <4>3
    <3>4. CASE ~(watch[n] > 0)
      <4>1. I = {}
        BY <2>1, <3>2, <3>4 DEF Knows
      <4>2. Cardinality(I) = 0
        BY <4>1, FS_EmptySet
      <4>. QED  BY <3>4, <4>2
    <3>. QED  BY <3>3, <3>4
  <2>3. ASSUME NEW i \in DOMAIN cevents
        PROVE  /\ cevents[i].id = event[cevents[i].name] /\ cevents[i].refcount = 1
               /\ \A c \in Sessions : cevents[i].watch[c] = subs[c][cevents[i].name]
    <3>1. PICK n : n = cevents[i].name
      OBVIOUS
    <3>2. n \in Names
      <4>1. cevents[i] \in KnownEvents
        BY <1>1, ElementOfSeq, LenProperties
      <4>. QED  BY <3>1, <4>1 DEF KnownEvents
    <3>3. Served(n).id # 0 /\ Knows(n, Served(n), cevents)
      BY <2>1, <3>1, <3>2 DEF Knows
    <3>4. cevents[i] = [id |-> Served(n).id, name |-> n, refcount |-> 1, watch |-> Served(n).subs]
      BY <3>1, <3>3 DEF Knows
    <3>5. Served(n).id = event[n] /\ Served(n).subs = [c \in Sessions |-> subs[c][n]]
      BY <3>2, <3>3, ServedFacts DEF IInv
    <3>. QED  BY <3>1, <3>4, <3>5
  <2>. QED  BY <2>2, <2>3
<1>4. \A r \in Reqs : areq[r].kind # "none" =>
         (areq[r].closing <=> areq[r].kind = "reply" /\ r \in Closers)
  BY DEF EventsInv, RequestsInv
<1>. QED  BY <1>2, <1>3, <1>4 DEF EventsAreMirrored

(* As long as the server has not crashed, the messages about events come   *)
(* in an order in which the client can read them: the errors "event not    *)
(* found" (afb-api-dbus.c:441) and "message not found" (:495) are never    *)
(* met, and with the queue empty the two binders agree on the events and   *)
(* the subscriptions, whatever sessions the server closed meanwhile; and   *)
(* only the reply to a request that closes its session says so.            *)
THEOREM EventsMirrored == Spec => []EventsAreMirrored
<1>1. Init => EventsInv
  BY InitMirror
<1>2. IInv /\ IInv' /\ EventsInv /\ [Next]_vars => EventsInv'
  BY NextMirror
<1>3. IInv /\ EventsInv => EventsAreMirrored
  BY MirrorIsExact
<1>. QED  BY <1>1, <1>2, <1>3, InvHolds, PTL DEF Spec
====
