----------------------------- MODULE ApiWsProofs -----------------------------
(***************************************************************************)
(* Proofs about an api imported over a websocket, for every set of         *)
(* requests, of clients and of events, every size of the msgids that is    *)
(* large enough and any number of messages under way.  IInv (module ApiWs) *)
(* is inductive, and so is EventsInv, the history of the events that the   *)
(* messages under way tell, given IInv.                                    *)
(***************************************************************************)
EXTENDS ApiWs, FiniteSetTheorems, SequenceTheorems, WellFoundedInduction, TLAPS

-----------------------------------------------------------------------------
(* Sequences: the queues of messages and the lists of calls.               *)

(* A message sent at the end of a queue.                                   *)
LEMMA AppendFacts ==
    ASSUME NEW S, NEW s \in Seq(S), NEW e \in S
    PROVE  /\ Append(s, e) \in Seq(S) /\ Len(Append(s, e)) = Len(s) + 1
           /\ DOMAIN Append(s, e) = 1..Len(s) + 1 /\ DOMAIN s = 1..Len(s) /\ Len(s) \in Nat
           /\ \A i \in 1..Len(s) : Append(s, e)[i] = s[i]
           /\ Append(s, e)[Len(s) + 1] = e
BY AppendProperties, LenProperties

(* The message read at the head of a queue.                                *)
LEMMA TailFacts ==
    ASSUME NEW S, NEW s \in Seq(S), s # <<>>
    PROVE  /\ Tail(s) \in Seq(S) /\ Head(s) = s[1] /\ Head(s) \in S
           /\ DOMAIN s = 1..Len(s) /\ Len(s) \in Nat \ {0} /\ 1 \in DOMAIN s
           /\ DOMAIN Tail(s) = 1..Len(s) - 1
           /\ \A i \in 1..Len(s) - 1 : Tail(s)[i] = s[i + 1]
<1>1. /\ Head(s) \in S /\ Tail(s) \in Seq(S) /\ Len(Tail(s)) = Len(s) - 1
      /\ \A i \in 1..Len(Tail(s)) : Tail(s)[i] = s[i + 1]
  BY HeadTailProperties
<1>2. Len(s) \in Nat /\ DOMAIN s = 1..Len(s) /\ DOMAIN Tail(s) = 1..Len(Tail(s))
  BY <1>1, LenProperties
<1>3. Len(s) # 0
  BY EmptySeq
<1>. QED  BY <1>1, <1>2, <1>3

(* What a lost link leaves of a queue.                                     *)
LEMMA PrefixFacts ==
    ASSUME NEW S, NEW s \in Seq(S), NEW n \in 0..Len(s)
    PROVE  /\ SubSeq(s, 1, n) \in Seq(S) /\ DOMAIN SubSeq(s, 1, n) = 1..n
           /\ DOMAIN s = 1..Len(s) /\ Len(s) \in Nat
           /\ \A i \in 1..n : SubSeq(s, 1, n)[i] = s[i]
<1>1. DOMAIN s = 1..Len(s) /\ Len(s) \in Nat
  BY LenProperties
<1>. QED  BY <1>1, SubSeqProperties, LenProperties

(* An element taken out of a list.                                         *)
LEMMA RemoveFacts ==
    ASSUME NEW S, NEW s \in Seq(S), NEW i \in 1..Len(s)
    PROVE  /\ RemoveAt(s, i) \in Seq(S) /\ DOMAIN RemoveAt(s, i) = 1..Len(s) - 1
           /\ DOMAIN s = 1..Len(s) /\ Len(s) \in Nat \ {0}
           /\ \A k \in 1..Len(s) - 1 : RemoveAt(s, i)[k] = IF k < i THEN s[k] ELSE s[k + 1]
<1>0. DOMAIN s = 1..Len(s) /\ Len(s) \in Nat \ {0}
  BY LenProperties
<1> DEFINE a == SubSeq(s, 1, i - 1)
           b == SubSeq(s, i + 1, Len(s))
<1>1. a \in Seq(S) /\ Len(a) = i - 1 /\ \A k \in 1..i - 1 : a[k] = s[k]
  BY <1>0
<1>2. b \in Seq(S) /\ Len(b) = Len(s) - i /\ \A k \in 1..Len(s) - i : b[k] = s[i + k]
  <2>1. \A k \in i + 1..Len(s) : s[k] \in S
    BY <1>0, ElementOfSeq
  <2>2. /\ b \in Seq(S) /\ Len(b) = IF i + 1 <= Len(s) THEN Len(s) - (i + 1) + 1 ELSE 0
        /\ \A k \in 1..Len(s) - (i + 1) + 1 : b[k] = s[i + 1 + k - 1]
    BY <1>0, <2>1, SubSeqProperties
  <2>3. i \in Nat /\ Len(s) \in Nat /\ 1 <= i /\ i <= Len(s)
    BY <1>0
  <2> HIDE DEF b
  <2>4. CASE i = Len(s)
    <3>1. ~(i + 1 <= Len(s)) /\ Len(s) - i = 0
      BY <2>3, <2>4
    <3>. QED  BY <2>2, <3>1
  <2>5. CASE i < Len(s)
    <3>1. i + 1 <= Len(s) /\ Len(s) - (i + 1) + 1 = Len(s) - i
      BY <2>3, <2>5
    <3>2. \A k \in 1..Len(s) - i : i + 1 + k - 1 = i + k
      BY <2>3
    <3>. QED  BY <2>2, <3>1, <3>2
  <2>. QED  BY <2>3, <2>4, <2>5
<1>3. RemoveAt(s, i) = a \o b
  BY DEF RemoveAt
<1> HIDE DEF a, b
<1>4. /\ a \o b \in Seq(S) /\ Len(a \o b) = Len(s) - 1
      /\ \A k \in 1..Len(s) - 1 : (a \o b)[k] = IF k <= i - 1 THEN a[k] ELSE b[k - (i - 1)]
  <2>1. /\ a \o b \in Seq(S) /\ Len(a \o b) = Len(a) + Len(b)
        /\ \A k \in 1..Len(a) + Len(b) : (a \o b)[k] = IF k <= Len(a) THEN a[k] ELSE b[k - Len(a)]
    BY <1>1, <1>2, ConcatProperties
  <2>2. Len(a) + Len(b) = Len(s) - 1
    BY <1>0, <1>1, <1>2
  <2>. QED  BY <1>1, <2>1, <2>2
<1>5. \A k \in 1..Len(s) - 1 : (a \o b)[k] = IF k < i THEN s[k] ELSE s[k + 1]
  BY <1>0, <1>1, <1>2, <1>4
<1>. QED  BY <1>0, <1>3, <1>4, <1>5, LenProperties

(* An element put at the head of a list.                                   *)
LEMMA ConsFacts ==
    ASSUME NEW S, NEW s \in Seq(S), NEW e \in S
    PROVE  /\ <<e>> \o s \in Seq(S) /\ DOMAIN (<<e>> \o s) = 1..Len(s) + 1
           /\ DOMAIN s = 1..Len(s) /\ Len(s) \in Nat
           /\ (<<e>> \o s)[1] = e
           /\ \A i \in 1..Len(s) : (<<e>> \o s)[i + 1] = s[i]
<1>1. <<e>> \in Seq(S) /\ Len(<<e>>) = 1 /\ <<e>>[1] = e
  OBVIOUS
<1>. QED  BY <1>1, ConcatProperties, LenProperties

(* An element of a list replaced.                                          *)
LEMMA UpdateFacts ==
    ASSUME NEW S, NEW s \in Seq(S), NEW i \in DOMAIN s, NEW e \in S
    PROVE  [s EXCEPT ![i] = e] \in Seq(S)
BY ExceptSeq, LenProperties

(* Two sequences of one element.                                           *)
LEMMA PairOfSeqs == ASSUME NEW S, NEW a \in S, NEW b \in S PROVE <<a>> \o <<b>> = <<a, b>>
<1>1. PICK s, t, p : s = <<a>> /\ t = <<b>> /\ p = <<a, b>>
  OBVIOUS
<1>2. /\ s \in Seq(S) /\ Len(s) = 1 /\ s[1] = a /\ t \in Seq(S) /\ Len(t) = 1 /\ t[1] = b
      /\ p \in Seq(S) /\ Len(p) = 2 /\ p[1] = a /\ p[2] = b
  BY <1>1
<1>3. /\ s \o t \in Seq(S) /\ Len(s \o t) = 2
      /\ \A i \in 1..2 : (s \o t)[i] = IF i <= 1 THEN s[i] ELSE t[i - 1]
  BY <1>2, ConcatProperties
<1>4. (s \o t)[1] = a /\ (s \o t)[2] = b
  BY <1>2, <1>3
<1>5. \A i \in 1..2 : i = 1 \/ i = 2
  OBVIOUS
<1>6. \A i \in 1..Len(p) : (s \o t)[i] = p[i]
  BY <1>2, <1>4, <1>5
<1>7. s \o t = p
  BY <1>2, <1>3, <1>6, SeqEqual
<1>. QED  BY <1>1, <1>7

(* A set of naturals that is not empty has a least element.                *)
LEMMA MinExists ==
    ASSUME NEW S \in SUBSET Nat, S # {}
    PROVE  \E x \in S : \A y \in S : x <= y
<1>1. PICK x \in S : \A y \in S : ~(<<y, x>> \in OpToRel(<, Nat))
  BY NatLessThanWellFounded, WFMin
<1>2. \A y \in S : y \in Nat /\ x \in Nat /\ ~(y < x)
  BY <1>1 DEF OpToRel
<1>3. \A y \in S : x <= y
  BY <1>2
<1>. QED  BY <1>3

(* A move by the same distance keeps places apart.                         *)
LEMMA SamePlace == ASSUME NEW i \in Int, NEW k \in Int, NEW a \in Nat, k + a = i + a PROVE k = i
OBVIOUS

-----------------------------------------------------------------------------
(* The list of the events that the importing side of an api knows.         *)

(* What it has of the event n: the id and the subscriptions of the view v, *)
(* in one place; nothing when the id is 0.                                 *)
Knows(n, v, s) ==
    /\ v.id = 0 => \A i \in DOMAIN s : s[i].name # n
    /\ v.id # 0 => \E i \in DOMAIN s :
         /\ s[i] = [id |-> v.id, name |-> n, refcount |-> 1, watch |-> v.subs]
         /\ \A k \in DOMAIN s : s[k].name = n => k = i

(* What is known of an event, when others come and go.                     *)
LEMMA KnowsAfterAdd ==
    ASSUME NEW S, NEW s \in Seq(S), NEW n, NEW v, Knows(n, v, s),
           NEW e \in S, e.name # n
    PROVE  Knows(n, v, <<e>> \o s)
<1>1. PICK t, N : t = <<e>> \o s /\ N = Len(s)
  OBVIOUS
<1>2. /\ DOMAIN s = 1..N /\ N \in Nat /\ DOMAIN t = 1..N + 1 /\ t[1] = e
      /\ \A i \in 1..N : t[i + 1] = s[i]
  BY <1>1, ConsFacts
<1>3. ASSUME NEW i \in DOMAIN t, t[i].name = n PROVE i - 1 \in DOMAIN s /\ t[i] = s[i - 1]
  <2>1. i \in 1..N + 1 /\ i # 1
    BY <1>2, <1>3
  <2>2. i - 1 \in 1..N /\ (i - 1) + 1 = i
    BY <1>2, <2>1
  <2>. QED  BY <1>2, <2>2
<1>4. CASE v.id = 0
  BY <1>3, <1>4, <1>1 DEF Knows
<1>5. CASE v.id # 0
  <2>1. PICK j \in DOMAIN s :
           /\ s[j] = [id |-> v.id, name |-> n, refcount |-> 1, watch |-> v.subs]
           /\ \A k \in DOMAIN s : s[k].name = n => k = j
    BY <1>5 DEF Knows
  <2>2. j + 1 \in DOMAIN t /\ t[j + 1] = s[j]
    BY <1>2
  <2>3. ASSUME NEW k \in DOMAIN t, t[k].name = n PROVE k = j + 1
    <3>1. k - 1 = j
      BY <1>3, <2>1, <2>3
    <3>. QED  BY <1>2, <3>1
  <2>. QED  BY <1>1, <1>5, <2>1, <2>2, <2>3 DEF Knows
<1>. QED  BY <1>4, <1>5

LEMMA KnowsAfterUpdate ==
    ASSUME NEW S, NEW s \in Seq(S), NEW n, NEW v, Knows(n, v, s),
           NEW i \in DOMAIN s, NEW e \in S, s[i].name # n, e.name # n
    PROVE  Knows(n, v, [s EXCEPT ![i] = e])
<1>1. PICK t : t = [s EXCEPT ![i] = e]
  OBVIOUS
<1>2. /\ DOMAIN t = DOMAIN s /\ t[i].name # n
      /\ \A k \in DOMAIN s : k # i => t[k] = s[k]
  BY <1>1
<1>3. CASE v.id = 0
  BY <1>1, <1>2, <1>3 DEF Knows
<1>4. CASE v.id # 0
  <2>1. PICK j \in DOMAIN s :
           /\ s[j] = [id |-> v.id, name |-> n, refcount |-> 1, watch |-> v.subs]
           /\ \A k \in DOMAIN s : s[k].name = n => k = j
    BY <1>4 DEF Knows
  <2>2. j # i
    BY <2>1
  <2>. QED  BY <1>1, <1>2, <1>4, <2>1, <2>2 DEF Knows
<1>. QED  BY <1>3, <1>4

LEMMA KnowsAfterRemove ==
    ASSUME NEW S, NEW s \in Seq(S), NEW n, NEW v, Knows(n, v, s),
           NEW i \in DOMAIN s, s[i].name # n
    PROVE  Knows(n, v, RemoveAt(s, i))
<1>1. PICK t, N : t = RemoveAt(s, i) /\ N = Len(s)
  OBVIOUS
<1>2. DOMAIN s = 1..N /\ N \in Nat
  BY <1>1, LenProperties
<1>3. /\ DOMAIN t = 1..N - 1
      /\ \A k \in 1..N - 1 : t[k] = IF k < i THEN s[k] ELSE s[k + 1]
  BY <1>1, <1>2, RemoveFacts
<1>4. \A k \in DOMAIN t : k \in DOMAIN s /\ k + 1 \in DOMAIN s
  BY <1>2, <1>3
<1>5. CASE v.id = 0
  BY <1>1, <1>3, <1>4, <1>5 DEF Knows
<1>6. CASE v.id # 0
  <2>1. PICK j \in DOMAIN s :
           /\ s[j] = [id |-> v.id, name |-> n, refcount |-> 1, watch |-> v.subs]
           /\ \A k \in DOMAIN s : s[k].name = n => k = j
    BY <1>6 DEF Knows
  <2>2. j # i
    BY <2>1
  <2>3. PICK l : l = IF j < i THEN j ELSE j - 1
    OBVIOUS
  <2>4. l \in DOMAIN t /\ (l < i => l = j) /\ (~(l < i) => l + 1 = j)
    <3>1. i \in 1..N /\ j \in 1..N
      BY <1>2
    <3>2. CASE j < i
      BY <1>2, <1>3, <2>3, <3>1, <3>2
    <3>3. CASE j > i
      BY <1>2, <1>3, <2>3, <3>1, <3>3
    <3>. QED  BY <1>2, <2>2, <3>1, <3>2, <3>3
  <2>5. t[l] = s[j]
    BY <1>3, <2>4
  <2>6. ASSUME NEW k \in DOMAIN t, t[k].name = n PROVE k = l
    <3>1. CASE k < i
      <4>1. k = j
        BY <1>3, <1>4, <2>1, <2>6, <3>1
      <4>. QED  BY <2>3, <3>1, <4>1
    <3>2. CASE ~(k < i)
      <4>1. k + 1 = j
        BY <1>3, <1>4, <2>1, <2>6, <3>2
      <4>. QED  BY <1>2, <1>3, <2>3, <3>2, <4>1
    <3>. QED  BY <3>1, <3>2
  <2>. QED  BY <1>1, <1>6, <2>1, <2>4, <2>5, <2>6 DEF Knows
<1>. QED  BY <1>5, <1>6

(* What is known of the event that comes or goes itself.                   *)
LEMMA KnowsNew ==
    ASSUME NEW S, NEW s \in Seq(S), NEW n, NEW v, Knows(n, v, s), v.id = 0,
           NEW id, id # 0, NEW f, [id |-> id, name |-> n, refcount |-> 1, watch |-> f] \in S
    PROVE  Knows(n, [id |-> id, subs |-> f],
                 <<[id |-> id, name |-> n, refcount |-> 1, watch |-> f]>> \o s)
<1>1. PICK e, w : /\ e = [id |-> id, name |-> n, refcount |-> 1, watch |-> f]
                  /\ w = [id |-> id, subs |-> f]
  OBVIOUS
<1>2. e \in S
  BY <1>1
<1>3. PICK t, N : t = <<e>> \o s /\ N = Len(s)
  OBVIOUS
<1>4. /\ DOMAIN s = 1..N /\ N \in Nat /\ DOMAIN t = 1..N + 1 /\ t[1] = e
      /\ \A i \in 1..N : t[i + 1] = s[i]
  BY <1>2, <1>3, ConsFacts
<1>5. ASSUME NEW k \in DOMAIN t, t[k].name = n PROVE k = 1
  <2>1. ASSUME k # 1 PROVE FALSE
    <3>1. k - 1 \in 1..N /\ (k - 1) + 1 = k
      BY <1>4, <2>1
    <3>2. t[k] = s[k - 1]
      BY <1>4, <3>1
    <3>. QED  BY <1>4, <1>5, <3>1, <3>2 DEF Knows
  <2>. QED  BY <2>1
<1>6. w.id # 0 /\ 1 \in DOMAIN t /\ t[1] = [id |-> w.id, name |-> n, refcount |-> 1, watch |-> w.subs]
  BY <1>1, <1>4
<1>7. Knows(n, w, t)
  BY <1>5, <1>6 DEF Knows
<1>. QED  BY <1>1, <1>3, <1>7

LEMMA KnowsGone ==
    ASSUME NEW S, NEW s \in Seq(S), NEW n, NEW i \in DOMAIN s,
           \A k \in DOMAIN s : s[k].name = n => k = i, NEW w, w.id = 0
    PROVE  Knows(n, w, RemoveAt(s, i))
<1>1. PICK t, N : t = RemoveAt(s, i) /\ N = Len(s)
  OBVIOUS
<1>2. DOMAIN s = 1..N /\ N \in Nat
  BY <1>1, LenProperties
<1>3. /\ DOMAIN t = 1..N - 1
      /\ \A k \in 1..N - 1 : t[k] = IF k < i THEN s[k] ELSE s[k + 1]
  BY <1>1, <1>2, RemoveFacts
<1>4. ASSUME NEW k \in DOMAIN t, t[k].name = n PROVE FALSE
  <2>1. k \in DOMAIN s /\ k + 1 \in DOMAIN s /\ k \in Int
    BY <1>2, <1>3
  <2>2. CASE k < i
    BY <1>3, <1>4, <2>1, <2>2
  <2>3. CASE ~(k < i)
    <3>1. k + 1 = i
      BY <1>3, <1>4, <2>1, <2>3
    <3>. QED  BY <1>2, <2>1, <2>3, <3>1
  <2>. QED  BY <2>2, <2>3
<1>. QED  BY <1>1, <1>4 DEF Knows

LEMMA KnowsChanged ==
    ASSUME NEW S, NEW s \in Seq(S), NEW n, NEW i \in DOMAIN s, NEW e, e.name = n,
           \A k \in DOMAIN s : s[k].name = n => k = i, NEW w, w.id # 0,
           e = [id |-> w.id, name |-> n, refcount |-> 1, watch |-> w.subs]
    PROVE  Knows(n, w, [s EXCEPT ![i] = e])
<1>1. PICK t : t = [s EXCEPT ![i] = e]
  OBVIOUS
<1>2. DOMAIN t = DOMAIN s /\ t[i] = e /\ \A k \in DOMAIN s : k # i => t[k] = s[k]
  BY <1>1
<1>. QED  BY <1>1, <1>2 DEF Knows

-----------------------------------------------------------------------------
(* The ids of the calls.                                                   *)

(* SelectInSeq gives the place of an element that passes the test, or 0.   *)
LEMMA MemoOfFacts ==
    ASSUME NEW S, memos \in Seq(S), NEW id
    PROVE  /\ MemoOf(id) # 0 => MemoOf(id) \in DOMAIN memos /\ memos[MemoOf(id)].msgid = id
           /\ MemoOf(id) = 0 => \A i \in DOMAIN memos : memos[i].msgid # id
<1> DEFINE I == {i \in 1..Len(memos) : memos[i].msgid = id}
<1>0. DOMAIN memos = 1..Len(memos) /\ Len(memos) \in Nat
  BY LenProperties
<1>1. MemoOf(id) = IF I # {} THEN Min(I) ELSE 0
  BY DEF MemoOf, SelectInSeq
<1>2. ASSUME I # {} PROVE Min(I) \in I
  <2>1. I \in SUBSET Nat
    BY <1>0
  <2>. QED  BY <1>2, <2>1, MinExists DEF Min
<1>3. 0 \notin I
  BY <1>0
<1>. QED  BY <1>0, <1>1, <1>2, <1>3

LEMMA EventOfFacts ==
    ASSUME NEW S, cevents \in Seq(S), NEW id, NEW n
    PROVE  /\ EventOf(id, n) # 0 => /\ EventOf(id, n) \in DOMAIN cevents
                                    /\ cevents[EventOf(id, n)].id = id
                                    /\ cevents[EventOf(id, n)].name = n
           /\ EventOf(id, n) = 0 => \A i \in DOMAIN cevents :
                                      ~(cevents[i].id = id /\ cevents[i].name = n)
<1> DEFINE I == {i \in 1..Len(cevents) : cevents[i].id = id /\ cevents[i].name = n}
<1>0. DOMAIN cevents = 1..Len(cevents) /\ Len(cevents) \in Nat
  BY LenProperties
<1>1. EventOf(id, n) = IF I # {} THEN Min(I) ELSE 0
  BY DEF EventOf, SelectInSeq
<1>2. ASSUME I # {} PROVE Min(I) \in I
  <2>1. I \in SUBSET Nat
    BY <1>0
  <2>. QED  BY <1>2, <2>1, MinExists DEF Min
<1>3. 0 \notin I
  BY <1>0
<1>. QED  BY <1>0, <1>1, <1>2, <1>3

LEMMA ModFacts ==
    ASSUME NEW N \in Nat \ {0}, NEW m \in 0..N - 1
    PROVE  /\ m % N = m /\ (m + N) % N = m
           /\ \A a \in Int : a % N \in 0..N - 1
OBVIOUS

(* There are more ids than calls that wait.                                *)
LEMMA SomeIdIsFree ==
    ASSUME TypeOK, MemosInv
    PROVE  \E id \in MsgIds : \A i \in DOMAIN memos : memos[i].msgid # id
<1> SUFFICES ASSUME \A id \in MsgIds : \E i \in DOMAIN memos : memos[i].msgid = id
             PROVE  FALSE
  OBVIOUS
<1> DEFINE S == [msgid : MsgIds, req : Reqs]
           at(id) == CHOOSE i \in DOMAIN memos : memos[i].msgid = id
           g == [id \in MsgIds |-> memos[at(id)].req]
<1>1. memos \in Seq(S)
  BY DEF TypeOK, MsgIds
<1>2. \A id \in MsgIds : at(id) \in DOMAIN memos /\ memos[at(id)].msgid = id
  OBVIOUS
<1>3. \A i \in DOMAIN memos : memos[i] \in S
  BY <1>1, ElementOfSeq, LenProperties
<1> HIDE DEF at
<1>4. \A id \in MsgIds : memos[at(id)].req \in Reqs
  BY <1>2, <1>3
<1>5. \A i, j \in MsgIds : i # j => memos[at(i)].req # memos[at(j)].req
  BY <1>2 DEF MemosInv
<1>6. g \in Injection(MsgIds, Reqs)
  BY <1>4, <1>5 DEF Injection, IsInjective
<1>7. Cardinality(MsgIds) <= Cardinality(Reqs)
  BY <1>6, BoundsAssumption, FS_Injection
<1>8. Cardinality(MsgIds) = IdMod
  <2>1. 0 \in Int /\ IdMod - 1 \in Int /\ IdMod \in Nat
    BY BoundsAssumption
  <2>2. IdMod # 0
    BY BoundsAssumption, FS_CardinalityType
  <2>. QED  BY <2>1, <2>2, FS_Interval DEF MsgIds
<1>. QED  BY <1>7, <1>8, BoundsAssumption, FS_CardinalityType

(* The msgid given to a call is one that no other call has.                *)
LEMMA MsgIdFacts ==
    ASSUME TypeOK, MemosInv
    PROVE  /\ NextMsgId \in MsgIds
           /\ \A i \in DOMAIN memos : memos[i].msgid # NextMsgId
<1> DEFINE used == {memos[i].msgid : i \in DOMAIN memos}
           steps == {d \in 1..IdMod : (memo_id + d) % IdMod \notin used}
           d0 == CHOOSE d \in steps : \A x \in steps : d <= x
<1>1. PICK id \in MsgIds : id \notin used
  BY SomeIdIsFree
<1>2. IdMod \in Nat \ {0} /\ memo_id \in 0..IdMod - 1 /\ id \in 0..IdMod - 1
  BY <1>1, BoundsAssumption DEF TypeOK, MsgIds
<1>3. \E d \in 1..IdMod : (memo_id + d) % IdMod = id
  <2>1. CASE memo_id < id
    <3>1. id - memo_id \in 1..IdMod /\ memo_id + (id - memo_id) = id
      BY <1>2, <2>1
    <3>. QED  BY <1>2, <3>1, ModFacts
  <2>2. CASE id <= memo_id
    <3>1. id - memo_id + IdMod \in 1..IdMod /\ memo_id + (id - memo_id + IdMod) = id + IdMod
      BY <1>2, <2>2
    <3>. QED  BY <1>2, <3>1, ModFacts
  <2>. QED  BY <1>2, <2>1, <2>2
<1>4. steps # {} /\ steps \in SUBSET Nat
  <2>1. PICK d \in 1..IdMod : (memo_id + d) % IdMod = id
    BY <1>3
  <2>2. d \in steps
    BY <1>1, <2>1
  <2>3. 1..IdMod \subseteq Nat
    BY <1>2
  <2>. QED  BY <2>2, <2>3
<1>5. d0 \in steps
  BY <1>4, MinExists
<1>6. NextMsgId = (memo_id + d0) % IdMod
  BY DEF NextMsgId
<1> HIDE DEF d0
<1>7. d0 \in Int /\ (memo_id + d0) % IdMod \notin used
  BY <1>2, <1>5
<1>8. (memo_id + d0) % IdMod \in MsgIds
  <2>1. memo_id + d0 \in Int
    BY <1>2, <1>7
  <2>. QED  BY <1>2, <2>1, ModFacts DEF MsgIds
<1>. QED  BY <1>6, <1>7, <1>8

-----------------------------------------------------------------------------
(* What a step leaves as it is.                                            *)

LEMMA SeqDomains ==
    ASSUME MessagesInv
    PROVE  /\ DOMAIN up = 1..Len(up) /\ Len(up) \in Nat
           /\ DOMAIN down = 1..Len(down) /\ Len(down) \in Nat
           /\ \A i \in DOMAIN up : up[i] \in UpMessages
           /\ \A i \in DOMAIN down : down[i] \in DownMessages
BY ElementOfSeq, LenProperties DEF MessagesInv

(* The messages, by their kind.                                            *)
LEMMA MessageFacts ==
    /\ \A m \in UpMessages : m.of \in Reqs /\ m.msgid \in MsgIds
    /\ \A m \in DownMessages : IsReply(m) =>
         /\ m.of \in Reqs /\ m.msgid \in MsgIds /\ m.closing \in BOOLEAN
    /\ \A m \in DownMessages : m.op \in {"+", "-", "S", "U", "!"} =>
         m.id \in 1..MaxEventId /\ m.name \in Names
<1>1. \A m \in UpMessages : m.of \in Reqs /\ m.msgid \in MsgIds
  BY DEF UpMessages
<1>2. ASSUME NEW m \in DownMessages, IsReply(m)
      PROVE  m.of \in Reqs /\ m.msgid \in MsgIds /\ m.closing \in BOOLEAN
  <2>1. m \in Replies
    BY <1>2 DEF DownMessages, IsReply
  <2>. QED  BY <2>1 DEF Replies
<1>3. ASSUME NEW m \in DownMessages, m.op \in {"+", "-", "S", "U", "!"}
      PROVE  m.id \in 1..MaxEventId /\ m.name \in Names
  <2>1. m \in [op : {"+", "-", "S", "U", "!"}, id : 1..MaxEventId, name : Names, msgid : MsgIds]
    BY <1>3 DEF DownMessages, Replies
  <2>. QED  BY <2>1
<1>. QED  BY <1>1, <1>2, <1>3

(* Calls that stay where they are: the calls of up' are calls of up, a     *)
(* places further, and the replies of down' are replies of down, b places  *)
(* further.                                                                *)
LEMMA PlacesKept ==
    ASSUME MessagesInv, MessagesInv', UpInv, ServedInv, DownInv, UNCHANGED memos,
           NEW a \in Nat, \A i \in DOMAIN up' : i + a \in DOMAIN up /\ up'[i] = up[i + a],
           NEW b \in Nat, \A i \in DOMAIN down' : IsReply(down'[i]) =>
                            i + b \in DOMAIN down /\ down'[i] = down[i + b],
           \A r \in Reqs : /\ wreq'[r].st = "running" => wreq[r].st = "running"
                           /\ wreq'[r].st = "running" => wreq'[r].msgid = wreq[r].msgid
                           /\ wreq[r] = NoWreq => wreq'[r] = NoWreq
                           /\ wreq'[r].closing = wreq[r].closing
    PROVE  UpInv' /\ ServedInv' /\ DownInv'
<1>0. /\ DOMAIN up \subseteq Int /\ DOMAIN up' \subseteq Int
      /\ DOMAIN down \subseteq Int /\ DOMAIN down' \subseteq Int
      /\ \A i \in DOMAIN up : up[i].of \in Reqs
      /\ \A i \in DOMAIN down : IsReply(down[i]) => down[i].of \in Reqs
  <2>1. /\ DOMAIN up \subseteq Int /\ DOMAIN down \subseteq Int
        /\ \A i \in DOMAIN up : up[i] \in UpMessages
        /\ \A i \in DOMAIN down : down[i] \in DownMessages
    BY SeqDomains
  <2>2. DOMAIN up' \subseteq Int /\ DOMAIN down' \subseteq Int
    BY LenProperties DEF MessagesInv
  <2>. QED  BY <2>1, <2>2, MessageFacts
<1>1. UpInv'
  <2> SUFFICES ASSUME NEW i \in DOMAIN up'
               PROVE  /\ Pending(up[i].msgid, up[i].of)'
                      /\ wreq'[up'[i].of] = NoWreq
                      /\ \A k \in DOMAIN up' : up'[k].of = up'[i].of => k = i
                      /\ \A k \in DOMAIN down' : IsReply(down'[k]) => down'[k].of # up'[i].of
    BY DEF UpInv, IsReply, NoWreq
  <2>1. i + a \in DOMAIN up /\ up'[i] = up[i + a] /\ up'[i].of \in Reqs
    BY <1>0
  <2>2. Pending(up[i].msgid, up[i].of)'
    BY <2>1 DEF UpInv, Pending
  <2>3. wreq'[up'[i].of] = NoWreq
    BY <2>1 DEF UpInv
  <2>4. ASSUME NEW k \in DOMAIN up', up'[k].of = up'[i].of PROVE k = i
    <3>1. k + a = i + a
      BY <2>1, <2>4 DEF UpInv
    <3>2. k \in Int /\ i \in Int
      BY <1>0
    <3>. QED  BY <3>1, <3>2, SamePlace
  <2>5. ASSUME NEW k \in DOMAIN down', IsReply(down'[k]) PROVE down'[k].of # up'[i].of
    BY <2>1, <2>5 DEF UpInv
  <2>. QED  BY <2>2, <2>3, <2>4, <2>5
<1>2. ServedInv'
  <2> SUFFICES ASSUME NEW r \in Reqs, wreq'[r].st = "running"
               PROVE  /\ Pending(wreq[r].msgid, r)'
                      /\ \A k \in DOMAIN down' : IsReply(down'[k]) => down'[k].of # r
    BY DEF ServedInv, IsReply
  <2>1. Pending(wreq[r].msgid, r)'
    BY DEF ServedInv, Pending
  <2>2. ASSUME NEW k \in DOMAIN down', IsReply(down'[k]) PROVE down'[k].of # r
    BY <2>2 DEF ServedInv
  <2>. QED  BY <2>1, <2>2
<1>3. DownInv'
  <2> SUFFICES ASSUME NEW i \in DOMAIN down', IsReply(down'[i])
               PROVE  /\ Pending(down[i].msgid, down[i].of)'
                      /\ down'[i].closing = wreq'[down'[i].of].closing
                      /\ \A k \in DOMAIN down' : IsReply(down'[k]) /\ down'[k].of = down'[i].of
                           => k = i
    BY DEF DownInv, IsReply
  <2>1. i + b \in DOMAIN down /\ down'[i] = down[i + b] /\ IsReply(down[i + b])
    OBVIOUS
  <2>2. Pending(down[i].msgid, down[i].of)'
    BY <2>1 DEF DownInv, Pending
  <2>3. down'[i].closing = wreq'[down'[i].of].closing
    BY <1>0, <2>1 DEF DownInv
  <2>4. ASSUME NEW k \in DOMAIN down', IsReply(down'[k]), down'[k].of = down'[i].of PROVE k = i
    <3>1. k + b = i + b
      BY <2>1, <2>4 DEF DownInv
    <3>2. k \in Int /\ i \in Int
      BY <1>0
    <3>. QED  BY <3>1, <3>2, SamePlace
  <2>. QED  BY <2>2, <2>3, <2>4
<1>. QED  BY <1>1, <1>2, <1>3

(* The parts of the invariant about the state of the two sides.            *)
LEMMA CountsKept ==
    ASSUME CountsInv, UNCHANGED client, \A r \in Reqs : Active(r)' <=> Active(r)
    PROVE  CountsInv'
<1>1. Users' = Users
  BY DEF Users
<1>. QED  BY <1>1 DEF CountsInv

LEMMA WatchKept == ASSUME WatchInv, UNCHANGED <<event, watch, subs>> PROVE WatchInv'
BY DEF WatchInv

LEMMA MemosKept ==
    ASSUME MemosInv, UNCHANGED <<memos, areq>>,
           \A r \in Reqs : wreq[r] = NoWreq => wreq'[r] = NoWreq
    PROVE  MemosInv'
BY DEF MemosInv, NoWreq

LEMMA RepliesKept ==
    ASSUME RepliesMatch, UNCHANGED areq, \A r \in Reqs : wreq'[r].closing = wreq[r].closing
    PROVE  RepliesMatch'
BY DEF RepliesMatch

(* A step that changes nothing else than the link, the messages and what   *)
(* the client knows of the events.                                         *)
LEMMA QuietStep ==
    ASSUME IInv, TypeOK', MessagesInv',
           UNCHANGED <<memos, areq, client, wreq, event, watch, subs>>,
           NEW a \in Nat, \A i \in DOMAIN up' : i + a \in DOMAIN up /\ up'[i] = up[i + a],
           NEW b \in Nat, \A i \in DOMAIN down' : IsReply(down'[i]) =>
                            i + b \in DOMAIN down /\ down'[i] = down[i + b]
    PROVE  IInv'
<1>1. CountsInv'
  BY CountsKept DEF IInv, Active
<1>2. WatchInv' /\ MemosInv' /\ RepliesMatch'
  BY WatchKept, MemosKept, RepliesKept DEF IInv
<1>3. UpInv' /\ ServedInv' /\ DownInv'
  BY PlacesKept DEF IInv
<1>. QED  BY <1>1, <1>2, <1>3 DEF IInv

(* Messages that stay as they are.                                         *)
LEMMA SameMessages ==
    ASSUME MessagesInv, UNCHANGED <<up, down>>
    PROVE  /\ MessagesInv'
           /\ \A i \in DOMAIN up' : i + 0 \in DOMAIN up /\ up'[i] = up[i + 0]
           /\ \A i \in DOMAIN down' : i + 0 \in DOMAIN down /\ down'[i] = down[i + 0]
BY SeqDomains DEF MessagesInv

LEMMA SetupStep ==
    ASSUME IInv,
           \/ afb_api_ws_add_server \/ api_ws_server_listen_hangup \/ afb_api_ws_add_client
    PROVE  IInv'
<1>1. UNCHANGED <<memo_id, memos, cevents, areq, up, down, serverVars>>
  BY DEF afb_api_ws_add_server, api_ws_server_listen_hangup, afb_api_ws_add_client, clientVars
<1>2. listening' \in BOOLEAN
  BY DEF afb_api_ws_add_server, api_ws_server_listen_hangup, afb_api_ws_add_client,
         api_ws_server_connect, IInv, TypeOK
<1>3. link' \in {"none", "up", "lost"} /\ aws' \in {"none", "open", "closed"}
  BY DEF afb_api_ws_add_server, api_ws_server_listen_hangup, afb_api_ws_add_client,
         clientVars, IInv, TypeOK
<1>4. TypeOK'
  BY <1>1, <1>2, <1>3 DEF IInv, TypeOK, serverVars
<1>. QED  BY <1>1, <1>4, SameMessages, QuietStep DEF IInv, serverVars

LEMMA LoseStep == ASSUME IInv, Lose PROVE IInv'
<1>1. PICK n \in 0..Len(up) : up' = SubSeq(up, 1, n)
  BY DEF Lose
<1>2. PICK m \in 0..Len(down) : down' = SubSeq(down, 1, m)
  BY DEF Lose
<1>3. link' = "lost" /\ UNCHANGED <<listening, clientVars, serverVars>>
  BY DEF Lose
<1>4. /\ up' \in Seq(UpMessages)
      /\ \A i \in DOMAIN up' : i + 0 \in DOMAIN up /\ up'[i] = up[i + 0]
  <2>1. /\ up' \in Seq(UpMessages) /\ DOMAIN up' = 1..n /\ DOMAIN up = 1..Len(up)
        /\ Len(up) \in Nat /\ \A i \in 1..n : up'[i] = up[i]
    BY <1>1, PrefixFacts DEF IInv, MessagesInv
  <2>. QED  BY <2>1
<1>5. /\ down' \in Seq(DownMessages)
      /\ \A i \in DOMAIN down' : i + 0 \in DOMAIN down /\ down'[i] = down[i + 0]
  <2>1. /\ down' \in Seq(DownMessages) /\ DOMAIN down' = 1..m /\ DOMAIN down = 1..Len(down)
        /\ Len(down) \in Nat /\ \A i \in 1..m : down'[i] = down[i]
    BY <1>2, PrefixFacts DEF IInv, MessagesInv
  <2>. QED  BY <2>1
<1>6. TypeOK'
  BY <1>3 DEF IInv, TypeOK, clientVars, serverVars
<1>7. MessagesInv'
  BY <1>4, <1>5 DEF MessagesInv
<1>. QED  BY <1>3, <1>4, <1>5, <1>6, <1>7, QuietStep DEF clientVars, serverVars

LEMMA CallFailedStep == ASSUME IInv, api_ws_client_call_failed PROVE IInv'
<1>1. UNCHANGED <<listening, link, aws, memos, cevents, areq, up, down, serverVars>>
  BY DEF api_ws_client_call_failed
<1>2. memo_id' \in 0..IdMod - 1
  BY MsgIdFacts DEF api_ws_client_call_failed, IInv, TypeOK, MsgIds
<1>3. TypeOK'
  BY <1>1, <1>2 DEF IInv, TypeOK, serverVars
<1>. QED  BY <1>1, <1>3, SameMessages, QuietStep DEF IInv, serverVars

LEMMA ClientHangupStep == ASSUME IInv, ClientHangup PROVE IInv'
<1>1. /\ aws' = "closed" /\ link' = "lost" /\ down' = <<>>
      /\ UNCHANGED <<listening, memo_id, memos, cevents, areq, up, serverVars>>
  BY DEF ClientHangup
<1>2. TypeOK'
  BY <1>1 DEF IInv, TypeOK, serverVars
<1>3. MessagesInv'
  BY <1>1 DEF IInv, MessagesInv
<1>4. \A i \in DOMAIN up' : i + 0 \in DOMAIN up /\ up'[i] = up[i + 0]
  BY <1>1, SeqDomains DEF IInv
<1>5. \A i \in DOMAIN down' : i + 0 \in DOMAIN down /\ down'[i] = down[i + 0]
  <2>1. DOMAIN down' = {}
    BY <1>1
  <2>. QED  BY <2>1
<1>. QED  BY <1>1, <1>2, <1>3, <1>4, <1>5, QuietStep DEF serverVars

-----------------------------------------------------------------------------
(* The client reads: the events that it knows.                             *)

KnownEvents == [id : 1..MaxEventId, name : Names, refcount : Nat \ {0}, watch : [Clients -> Nat]]

LEMMA KnownFacts ==
    ASSUME NEW e \in KnownEvents
    PROVE  /\ e.refcount \in Nat \ {0}
           /\ \A x \in Nat \ {0} : [e EXCEPT !.refcount = x] \in KnownEvents
BY DEF KnownEvents

LEMMA EventReadStep ==
    ASSUME IInv, NEW op, op # "reply", Receive(op), UNCHANGED <<memos, areq>>,
           cevents' \in Seq(KnownEvents)
    PROVE  IInv'
<1>1. /\ down # <<>> /\ down' = Tail(down) /\ UNCHANGED <<listening, link, aws, memo_id, up, serverVars>>
  BY DEF Receive
<1>2. /\ down' \in Seq(DownMessages) /\ DOMAIN down' = 1..Len(down) - 1
      /\ DOMAIN down = 1..Len(down) /\ Len(down) \in Nat \ {0}
      /\ \A i \in 1..Len(down) - 1 : down'[i] = down[i + 1]
  BY <1>1, TailFacts DEF IInv, MessagesInv
<1>3. TypeOK'
  BY <1>1 DEF IInv, TypeOK, serverVars, KnownEvents
<1>4. MessagesInv'
  BY <1>1, <1>2 DEF IInv, MessagesInv
<1>5. \A i \in DOMAIN up' : i + 0 \in DOMAIN up /\ up'[i] = up[i + 0]
  BY <1>1, SeqDomains DEF IInv
<1>6. \A i \in DOMAIN down' : i + 1 \in DOMAIN down /\ down'[i] = down[i + 1]
  BY <1>2
<1>. QED  BY <1>1, <1>3, <1>4, <1>5, <1>6, QuietStep DEF serverVars

(* The next message for the client, and the events it knows.               *)
LEMMA HeadFacts ==
    ASSUME IInv, NEW op, Receive(op)
    PROVE  /\ 1 \in DOMAIN down /\ Head(down) = down[1] /\ Head(down) \in DownMessages
           /\ Head(down).op = op /\ cevents \in Seq(KnownEvents)
           /\ \A i \in DOMAIN cevents : cevents[i] \in KnownEvents
<1>1. down # <<>> /\ Head(down).op = op
  BY DEF Receive
<1>2. cevents \in Seq(KnownEvents)
  BY DEF IInv, TypeOK, KnownEvents
<1>. QED  BY <1>1, <1>2, TailFacts, ElementOfSeq, LenProperties DEF IInv, MessagesInv

LEMMA EventCreateStep == ASSUME IInv, api_ws_client_event_create PROVE IInv'
<1>1. Receive("+") /\ UNCHANGED <<memos, areq>>
  BY DEF api_ws_client_event_create
<1>2. PICK m : m = Head(down)
  OBVIOUS
<1>3. PICK i : i = EventOf(m.id, m.name)
  OBVIOUS
<1>4. /\ m \in DownMessages /\ m.op = "+" /\ cevents \in Seq(KnownEvents)
      /\ \A k \in DOMAIN cevents : cevents[k] \in KnownEvents
  BY <1>1, <1>2, HeadFacts
<1>5. cevents' \in Seq(KnownEvents)
  <2>1. CASE i # 0
    <3>1. i \in DOMAIN cevents
      BY <1>3, <1>4, <2>1, EventOfFacts
    <3>2. cevents' = [cevents EXCEPT ![i] = [cevents[i] EXCEPT !.refcount = @ + 1]]
      BY <1>2, <1>3, <2>1 DEF api_ws_client_event_create
    <3>3. [cevents[i] EXCEPT !.refcount = @ + 1] \in KnownEvents
      <4>1. cevents[i].refcount + 1 \in Nat \ {0}
        BY <1>4, <3>1, KnownFacts
      <4>. QED  BY <1>4, <3>1, <4>1, KnownFacts
    <3>. QED  BY <1>4, <3>1, <3>2, <3>3, UpdateFacts
  <2>2. CASE i = 0
    <3>1. PICK e : e = [id |-> m.id, name |-> m.name, refcount |-> 1, watch |-> NoWatch]
      OBVIOUS
    <3>2. e \in KnownEvents
      <4>1. m.id \in 1..MaxEventId /\ m.name \in Names
        BY <1>4, MessageFacts
      <4>2. NoWatch \in [Clients -> Nat]
        BY DEF NoWatch
      <4>. QED  BY <3>1, <4>1, <4>2 DEF KnownEvents
    <3>3. cevents' = <<e>> \o cevents
      BY <1>2, <1>3, <2>2, <3>1 DEF api_ws_client_event_create
    <3>. QED  BY <1>4, <3>2, <3>3, ConsFacts
  <2>. QED  BY <2>1, <2>2
<1>. QED  BY <1>1, <1>5, EventReadStep

LEMMA EventDropStep == ASSUME IInv, api_ws_client_event_drop PROVE IInv'
<1>1. Receive("-") /\ UNCHANGED <<memos, areq>>
  BY DEF api_ws_client_event_drop
<1>2. PICK i : i = EventOf(Head(down).id, Head(down).name)
  OBVIOUS
<1>3. /\ cevents \in Seq(KnownEvents)
      /\ \A k \in DOMAIN cevents : cevents[k] \in KnownEvents
  BY <1>1, HeadFacts
<1>4. cevents' \in Seq(KnownEvents)
  <2>1. CASE i = 0
    BY <1>2, <1>3, <2>1 DEF api_ws_client_event_drop
  <2>2. CASE i # 0
    <3>1. i \in DOMAIN cevents /\ DOMAIN cevents = 1..Len(cevents)
      BY <1>2, <1>3, <2>2, EventOfFacts, LenProperties
    <3>2. CASE cevents[i].refcount > 1
      <4>1. cevents' = [cevents EXCEPT ![i] = [cevents[i] EXCEPT !.refcount = @ - 1]]
        BY <1>2, <2>2, <3>2 DEF api_ws_client_event_drop
      <4>2. [cevents[i] EXCEPT !.refcount = @ - 1] \in KnownEvents
        <5>1. cevents[i].refcount - 1 \in Nat \ {0}
          BY <1>3, <3>1, <3>2, KnownFacts
        <5>. QED  BY <1>3, <3>1, <5>1, KnownFacts
      <4>. QED  BY <1>3, <3>1, <4>1, <4>2, UpdateFacts
    <3>3. CASE ~(cevents[i].refcount > 1)
      <4>1. cevents' = RemoveAt(cevents, i)
        BY <1>2, <2>2, <3>3 DEF api_ws_client_event_drop
      <4>. QED  BY <1>3, <3>1, <4>1, RemoveFacts
    <3>. QED  BY <3>2, <3>3
  <2>. QED  BY <2>1, <2>2
<1>. QED  BY <1>1, <1>4, EventReadStep

LEMMA SubscriptionStep ==
    ASSUME IInv, api_ws_client_event_subscribe \/ api_ws_client_event_unsubscribe
    PROVE  IInv'
<1>1. PICK op \in {"S", "U"} : Receive(op)
  BY DEF api_ws_client_event_subscribe, api_ws_client_event_unsubscribe
<1>2. UNCHANGED <<memos, areq>>
  BY DEF api_ws_client_event_subscribe, api_ws_client_event_unsubscribe
<1>3. PICK m : m = Head(down)
  OBVIOUS
<1>4. PICK i : i = EventOf(m.id, m.name)
  OBVIOUS
<1>5. /\ cevents \in Seq(KnownEvents)
      /\ \A k \in DOMAIN cevents : cevents[k] \in KnownEvents
  BY <1>1, HeadFacts
<1>6. cevents' \in Seq(KnownEvents)
  <2>1. CASE ~Subscription(m)
    BY <1>3, <1>5, <2>1 DEF api_ws_client_event_subscribe, api_ws_client_event_unsubscribe
  <2>2. CASE Subscription(m)
    <3>1. i \in DOMAIN cevents
      BY <1>4, <1>5, <2>2, EventOfFacts DEF Subscription
    <3>2. Subscriber(m) \in Clients
      <4>1. memos \in Seq([msgid : 0..IdMod - 1, req : Reqs])
        BY DEF IInv, TypeOK
      <4>2. MemoOf(m.msgid) \in DOMAIN memos
        BY <2>2, <4>1, MemoOfFacts DEF Subscription
      <4>3. memos[MemoOf(m.msgid)] \in [msgid : 0..IdMod - 1, req : Reqs]
        BY <4>1, <4>2, ElementOfSeq, LenProperties
      <4>4. memos[MemoOf(m.msgid)].req \in Reqs
        BY <4>3
      <4>. QED  BY <4>4, OwnerAssumption DEF Subscriber
    <3>3. PICK c \in Clients : c = Subscriber(m)
      BY <3>2
    <3>4. \E x \in Nat : cevents' = [cevents EXCEPT ![i].watch[c] = x]
      <4>1. cevents[i].watch[c] \in Nat
        BY <1>5, <3>1 DEF KnownEvents
      <4>2. \/ cevents' = [cevents EXCEPT ![i].watch[c] = @ + 1]
            \/ cevents' = [cevents EXCEPT ![i].watch[c] = IF @ > 0 THEN @ - 1 ELSE 0]
        BY <1>3, <1>4, <2>2, <3>3
           DEF api_ws_client_event_subscribe, api_ws_client_event_unsubscribe
      <4>3. CASE cevents' = [cevents EXCEPT ![i].watch[c] = @ + 1]
        <5>1. cevents' = [cevents EXCEPT ![i].watch[c] = cevents[i].watch[c] + 1]
          BY <4>3
        <5>2. cevents[i].watch[c] + 1 \in Nat
          BY <4>1
        <5>. QED  BY <5>1, <5>2
      <4>4. CASE cevents' = [cevents EXCEPT ![i].watch[c] = IF @ > 0 THEN @ - 1 ELSE 0]
        <5>1. PICK x : x = IF cevents[i].watch[c] > 0 THEN cevents[i].watch[c] - 1 ELSE 0
          OBVIOUS
        <5>2. cevents' = [cevents EXCEPT ![i].watch[c] = x]
          BY <4>4, <5>1
        <5>3. x \in Nat
          BY <4>1, <5>1
        <5>. QED  BY <5>2, <5>3
      <4>. QED  BY <4>2, <4>3, <4>4
    <3>5. PICK x \in Nat : cevents' = [cevents EXCEPT ![i].watch[c] = x]
      BY <3>4
    <3>6. cevents' = [cevents EXCEPT ![i] = [cevents[i] EXCEPT !.watch = [cevents[i].watch EXCEPT ![c] = x]]]
      BY <3>5
    <3>7. [cevents[i] EXCEPT !.watch = [cevents[i].watch EXCEPT ![c] = x]] \in KnownEvents
      <4>1. cevents[i] \in KnownEvents
        BY <1>5, <3>1
      <4>2. [cevents[i].watch EXCEPT ![c] = x] \in [Clients -> Nat]
        BY <4>1 DEF KnownEvents
      <4>. QED  BY <4>1, <4>2 DEF KnownEvents
    <3>. QED  BY <1>5, <3>1, <3>6, <3>7, UpdateFacts
  <2>. QED  BY <2>1, <2>2
<1>. QED  BY <1>1, <1>2, <1>6, EventReadStep

LEMMA PushReadStep == ASSUME IInv, api_ws_client_event_push PROVE IInv'
<1>1. PICK op \in {"!", "*"} : Receive(op)
  BY DEF api_ws_client_event_push
<1>2. UNCHANGED <<cevents, memos, areq>>
  BY DEF api_ws_client_event_push
<1>3. cevents' \in Seq(KnownEvents)
  BY <1>1, <1>2, HeadFacts
<1>. QED  BY <1>1, <1>2, <1>3, EventReadStep

-----------------------------------------------------------------------------
(* The server sends.                                                       *)

(* What is sent comes last, if it is sent.                                 *)
LEMMA SentFacts ==
    ASSUME MessagesInv, NEW ms \in Seq(DownMessages), Send(ms)
    PROVE  /\ down' \in Seq(DownMessages)
           /\ DOMAIN down = 1..Len(down) /\ Len(down) \in Nat
           /\ \A i \in DOMAIN down : i \in DOMAIN down' /\ down'[i] = down[i]
           /\ \A i \in DOMAIN down' :
                \/ i \in DOMAIN down
                \/ \E k \in DOMAIN ms : i = Len(down) + k /\ down'[i] = ms[k]
<1>0. down \in Seq(DownMessages) /\ DOMAIN down = 1..Len(down) /\ Len(down) \in Nat
  BY SeqDomains DEF MessagesInv
<1>1. CASE client.open /\ link = "up"
  <2>1. down' = down \o ms
    BY <1>1 DEF Send
  <2>2. DOMAIN ms = 1..Len(ms) /\ Len(ms) \in Nat
    BY LenProperties
  <2>3. /\ down \o ms \in Seq(DownMessages) /\ Len(down \o ms) = Len(down) + Len(ms)
        /\ \A i \in 1..Len(down) + Len(ms) :
             (down \o ms)[i] = IF i <= Len(down) THEN down[i] ELSE ms[i - Len(down)]
    BY <1>0, ConcatProperties
  <2>4. DOMAIN (down \o ms) = 1..Len(down) + Len(ms)
    BY <2>3, LenProperties
  <2>5. ASSUME NEW i \in 1..Len(down) + Len(ms), ~(i <= Len(down))
        PROVE  \E k \in DOMAIN ms : i = Len(down) + k /\ down'[i] = ms[k]
    <3>1. i - Len(down) \in DOMAIN ms /\ i = Len(down) + (i - Len(down))
      BY <1>0, <2>2, <2>5
    <3>. QED  BY <2>1, <2>3, <2>5, <3>1
  <2>6. \A i \in DOMAIN down : i \in DOMAIN down' /\ down'[i] = down[i]
    BY <1>0, <2>1, <2>2, <2>3, <2>4
  <2>. QED  BY <1>0, <2>1, <2>3, <2>4, <2>5, <2>6
<1>2. CASE ~(client.open /\ link = "up")
  <2>1. down' = down
    BY <1>2 DEF Send
  <2>. QED  BY <1>0, <2>1
<1>. QED  BY <1>1, <1>2

(* Messages that are no replies.                                           *)
LEMMA QuietSent ==
    ASSUME MessagesInv, UNCHANGED up, NEW ms \in Seq(DownMessages), Send(ms),
           \A k \in DOMAIN ms : ~IsReply(ms[k])
    PROVE  /\ MessagesInv'
           /\ \A i \in DOMAIN up' : i + 0 \in DOMAIN up /\ up'[i] = up[i + 0]
           /\ \A i \in DOMAIN down' : IsReply(down'[i]) =>
                i + 0 \in DOMAIN down /\ down'[i] = down[i + 0]
<1>1. MessagesInv'
  BY SentFacts DEF MessagesInv
<1>2. \A i \in DOMAIN up' : i + 0 \in DOMAIN up /\ up'[i] = up[i + 0]
  BY SeqDomains
<1>3. ASSUME NEW i \in DOMAIN down', IsReply(down'[i])
      PROVE  i + 0 \in DOMAIN down /\ down'[i] = down[i + 0]
  <2>1. i \in DOMAIN down
    BY <1>3, SentFacts
  <2>. QED  BY <2>1, SentFacts
<1>. QED  BY <1>1, <1>2, <1>3

LEMMA EventMsgFacts ==
    ASSUME TypeOK, NEW n \in Names, event[n] # 0, NEW op \in {"+", "-", "S", "U", "!"}
    PROVE  /\ EventMsg(op, n) \in DownMessages /\ ~IsReply(EventMsg(op, n))
           /\ \A r \in Reqs : ReqMsg(op, n, r) \in DownMessages /\ ~IsReply(ReqMsg(op, n, r))
<1>1. event[n] \in 1..MaxEventId /\ 0 \in MsgIds
  BY BoundsAssumption, FS_CardinalityType DEF TypeOK, MsgIds
<1>2. EventMsg(op, n) \in DownMessages /\ ~IsReply(EventMsg(op, n))
  BY <1>1 DEF EventMsg, DownMessages, IsReply
<1>3. ASSUME NEW r \in Reqs PROVE ReqMsg(op, n, r) \in DownMessages /\ ~IsReply(ReqMsg(op, n, r))
  <2>1. wreq[r].msgid \in MsgIds
    BY DEF TypeOK, MsgIds
  <2>2. ReqMsg(op, n, r) = [op |-> op, id |-> event[n], name |-> n, msgid |-> wreq[r].msgid]
    BY DEF ReqMsg, EventMsg
  <2>. QED  BY <1>1, <2>1, <2>2 DEF DownMessages, IsReply
<1>. QED  BY <1>2, <1>3

LEMMA PushStep == ASSUME IInv, NEW n \in Names, api_ws_server_event_push(n) PROVE IInv'
<1>1. /\ watch[n] > 0 /\ Send(<<EventMsg("!", n)>>)
      /\ UNCHANGED <<listening, link, clientVars, up, serverVars>>
  BY DEF api_ws_server_event_push
<1>2. PICK m : m = EventMsg("!", n)
  OBVIOUS
<1>3. m \in DownMessages /\ ~IsReply(m)
  BY <1>1, <1>2, EventMsgFacts DEF IInv, WatchInv
<1>4. <<m>> \in Seq(DownMessages) /\ \A k \in DOMAIN <<m>> : ~IsReply(<<m>>[k])
  BY <1>3
<1>5. TypeOK'
  BY <1>1 DEF IInv, TypeOK, clientVars, serverVars
<1>6. UNCHANGED up
  BY <1>1
<1>7. /\ MessagesInv'
      /\ \A i \in DOMAIN up' : i + 0 \in DOMAIN up /\ up'[i] = up[i + 0]
      /\ \A i \in DOMAIN down' : IsReply(down'[i]) =>
           i + 0 \in DOMAIN down /\ down'[i] = down[i + 0]
  BY <1>1, <1>2, <1>4, <1>6, QuietSent DEF IInv
<1>. QED  BY <1>1, <1>5, <1>7, QuietStep DEF clientVars, serverVars

LEMMA BroadcastStep == ASSUME IInv, api_ws_server_event_broadcast PROVE IInv'
<1>1. PICK m : m = [op |-> "*", id |-> 0, name |-> "any", msgid |-> 0]
  OBVIOUS
<1>2. Send(<<m>>) /\ UNCHANGED <<listening, link, clientVars, up, serverVars>>
  BY <1>1 DEF api_ws_server_event_broadcast
<1>3. m \in DownMessages /\ ~IsReply(m)
  BY <1>1 DEF DownMessages, IsReply
<1>4. <<m>> \in Seq(DownMessages) /\ \A k \in DOMAIN <<m>> : ~IsReply(<<m>>[k])
  BY <1>3
<1>5. TypeOK'
  BY <1>2 DEF IInv, TypeOK, clientVars, serverVars
<1>6. UNCHANGED up
  BY <1>2
<1>7. /\ MessagesInv'
      /\ \A i \in DOMAIN up' : i + 0 \in DOMAIN up /\ up'[i] = up[i + 0]
      /\ \A i \in DOMAIN down' : IsReply(down'[i]) =>
           i + 0 \in DOMAIN down /\ down'[i] = down[i + 0]
  BY <1>2, <1>4, <1>6, QuietSent DEF IInv
<1>. QED  BY <1>2, <1>5, <1>7, QuietStep DEF clientVars, serverVars

(* The next call that the server reads.                                    *)
LEMMA CallFacts ==
    ASSUME IInv, ReadCall
    PROVE  /\ up' \in Seq(UpMessages) /\ Head(up) = up[1] /\ up[1] \in UpMessages
           /\ DOMAIN up = 1..Len(up) /\ Len(up) \in Nat \ {0} /\ 1 \in DOMAIN up
           /\ up[1].of \in Reqs /\ up[1].msgid \in MsgIds
           /\ \A i \in DOMAIN up' : i + 1 \in DOMAIN up /\ i + 1 # 1 /\ up'[i] = up[i + 1]
<1>1. up # <<>> /\ up' = Tail(up)
  BY DEF ReadCall
<1>2. /\ up' \in Seq(UpMessages) /\ Head(up) = up[1] /\ up[1] \in UpMessages
      /\ DOMAIN up = 1..Len(up) /\ Len(up) \in Nat \ {0} /\ 1 \in DOMAIN up
      /\ DOMAIN up' = 1..Len(up) - 1
      /\ \A i \in 1..Len(up) - 1 : up'[i] = up[i + 1]
  BY <1>1, TailFacts DEF IInv, MessagesInv
<1>. QED  BY <1>2, MessageFacts

LEMMA CalledFailedStep == ASSUME IInv, api_ws_server_called_failed PROVE IInv'
<1>1. /\ ReadCall /\ dropped' = dropped \cup {Head(up).of}
      /\ UNCHANGED <<listening, link, clientVars, client, wreq, event, watch, subs, down>>
  BY DEF api_ws_server_called_failed, ReadCall
<1>2. TypeOK'
  BY <1>1, CallFacts DEF IInv, TypeOK, clientVars
<1>3. MessagesInv'
  BY <1>1, CallFacts DEF IInv, MessagesInv
<1>4. \A i \in DOMAIN up' : i + 1 \in DOMAIN up /\ up'[i] = up[i + 1]
  BY <1>1, CallFacts
<1>5. \A i \in DOMAIN down' : i + 0 \in DOMAIN down /\ down'[i] = down[i + 0]
  BY <1>1, SeqDomains DEF IInv
<1>. QED  BY <1>1, <1>2, <1>3, <1>4, <1>5, QuietStep DEF clientVars

-----------------------------------------------------------------------------
(* The client of the server and its watches.                               *)

LEMMA UsersCount ==
    /\ IsFiniteSet(Users) /\ Cardinality(Users) \in Nat
    /\ Cardinality(Users) <= Cardinality(Reqs) /\ Cardinality(Reqs) \in Nat
<1>1. Users \in SUBSET Reqs
  BY DEF Users
<1>. QED  BY <1>1, BoundsAssumption, FS_Subset, FS_CardinalityType

LEMMA AcceptStep == ASSUME IInv, api_ws_server_accept PROVE IInv'
<1>1. /\ client.st = "none"
      /\ UNCHANGED <<listening, clientVars, up, down, wreq, dropped, event, watch, subs>>
      /\ link' \in {"none", "up", "lost"}
      /\ \/ client' = [st |-> "live", refs |-> 1, open |-> TRUE]
         \/ client' = [st |-> "freed", refs |-> 0, open |-> FALSE]
  BY DEF api_ws_server_accept, IInv, TypeOK
<1>2. Cardinality(Users) = 0
  <2>1. client.refs \in Nat
    BY DEF IInv, TypeOK
  <2>2. client.refs = 0
    BY <1>1, <2>1 DEF IInv, CountsInv
  <2>. QED  BY <2>2, UsersCount DEF IInv, CountsInv
<1>3. Users' = Users
  BY <1>1 DEF Users, Active
<1>4. CountsInv'
  BY <1>1, <1>2, <1>3 DEF CountsInv
<1>5. TypeOK'
  <2>1. client' \in [st : {"none", "live", "freed"}, refs : 0..(Cardinality(Reqs) + 1), open : BOOLEAN]
    <3>1. 0 \in 0..(Cardinality(Reqs) + 1) /\ 1 \in 0..(Cardinality(Reqs) + 1)
      BY UsersCount
    <3>2. CASE client' = [st |-> "live", refs |-> 1, open |-> TRUE]
      BY <3>1, <3>2
    <3>3. CASE client' = [st |-> "freed", refs |-> 0, open |-> FALSE]
      BY <3>1, <3>3
    <3>. QED  BY <1>1, <3>2, <3>3
  <2>. QED  BY <1>1, <2>1 DEF IInv, TypeOK, clientVars
<1>6. WatchInv' /\ MemosInv' /\ RepliesMatch'
  BY <1>1, WatchKept, MemosKept, RepliesKept DEF IInv, clientVars
<1>7. UpInv' /\ ServedInv' /\ DownInv' /\ MessagesInv'
  BY <1>1, SameMessages, PlacesKept DEF IInv, clientVars
<1>. QED  BY <1>4, <1>5, <1>6, <1>7 DEF IInv

(* A listener freed watches nothing.                                       *)
LEMMA UnwatchFacts ==
    ASSUME TypeOK, WatchInv, UNCHANGED event, NEW c, Unwatch(c)
    PROVE  WatchInv' /\ watch' \in [Names -> Nat] /\ subs' \in [Clients -> [Names -> Nat]]
<1>1. CASE c.st = "freed"
  <2>1. /\ watch' = [n \in Names |-> 0] /\ subs' = [k \in Clients |-> [n \in Names |-> 0]]
    BY <1>1 DEF Unwatch
  <2>2. ASSUME NEW n \in Names PROVE Cardinality({k \in Clients : subs'[k][n] = 1}) = 0
    <3>1. {k \in Clients : subs'[k][n] = 1} = {}
      BY <2>1
    <3>. QED  BY <3>1, FS_EmptySet
  <2>. QED  BY <2>1, <2>2 DEF WatchInv
<1>2. CASE c.st # "freed"
  <2>1. watch' = watch /\ subs' = subs
    BY <1>2 DEF Unwatch
  <2>. QED  BY <2>1, WatchKept DEF TypeOK
<1>. QED  BY <1>1, <1>2

LEMMA HangupStep == ASSUME IInv, api_ws_server_on_hangup PROVE IInv'
<1>1. /\ client.st = "live" /\ client.open
      /\ client' = ClientUnref([client EXCEPT !.open = FALSE]) /\ Unwatch(client')
      /\ UNCHANGED <<listening, link, clientVars, up, down, wreq, dropped, event>>
  BY DEF api_ws_server_on_hangup
<1>2. client \in [st : {"none", "live", "freed"}, refs : 0..(Cardinality(Reqs) + 1), open : BOOLEAN]
  BY DEF IInv, TypeOK
<1>3. client' = [st |-> IF client.refs = 1 THEN "freed" ELSE "live", refs |-> client.refs - 1,
                 open |-> FALSE]
  BY <1>1, <1>2 DEF ClientUnref
<1>4. client.refs = 1 + Cardinality(Users)
  BY <1>1 DEF IInv, CountsInv
<1>5. client' \in [st : {"none", "live", "freed"}, refs : 0..(Cardinality(Reqs) + 1), open : BOOLEAN]
  BY <1>3, <1>4, UsersCount
<1>6. Users' = Users
  BY <1>1 DEF Users, Active
<1>7. CountsInv'
  <2>1. client'.refs = Cardinality(Users) /\ ~client'.open
    BY <1>3, <1>4, UsersCount
  <2>2. client'.st = "live" <=> client'.refs > 0
    BY <1>3, <1>4, UsersCount
  <2>. QED  BY <1>6, <2>1, <2>2, UsersCount DEF CountsInv
<1>8. PICK c : c = client'
  OBVIOUS
<1>9. WatchInv' /\ watch' \in [Names -> Nat] /\ subs' \in [Clients -> [Names -> Nat]]
  BY <1>1, <1>8, UnwatchFacts DEF IInv
<1>10. TypeOK'
  BY <1>1, <1>5, <1>9 DEF IInv, TypeOK, clientVars
<1>11. MemosInv' /\ RepliesMatch'
  BY <1>1, MemosKept, RepliesKept DEF IInv, clientVars
<1>12. UpInv' /\ ServedInv' /\ DownInv' /\ MessagesInv'
  BY <1>1, SameMessages, PlacesKept DEF IInv, clientVars
<1>. QED  BY <1>7, <1>9, <1>10, <1>11, <1>12 DEF IInv

WorkRecords == [st : {"none", "running", "replied", "ended"}, msgid : 0..IdMod - 1, closing : BOOLEAN]

LEMMA UnrefStep == ASSUME IInv, NEW r \in Reqs, api_ws_server_req_unref(r) PROVE IInv'
<1>1. /\ wreq[r].st = "replied"
      /\ wreq' = [wreq EXCEPT ![r].st = "ended", ![r].msgid = 0]
      /\ client' = ClientUnref(client) /\ Unwatch(client')
      /\ UNCHANGED <<listening, link, clientVars, up, down, dropped, event>>
  BY DEF api_ws_server_req_unref
<1>2. /\ wreq' \in [Reqs -> WorkRecords] /\ wreq'[r].st = "ended"
      /\ wreq'[r].closing = wreq[r].closing
      /\ \A q \in Reqs \ {r} : wreq'[q] = wreq[q]
  <2>1. wreq \in [Reqs -> WorkRecords]
    BY DEF IInv, TypeOK, WorkRecords
  <2>2. PICK w : w = [st |-> "ended", msgid |-> 0, closing |-> wreq[r].closing]
    OBVIOUS
  <2>3. wreq[r] \in WorkRecords
    BY <2>1
  <2>4. w \in WorkRecords /\ w.st = "ended" /\ w.closing = wreq[r].closing
    <3>1. 0 \in 0..IdMod - 1
      BY BoundsAssumption, FS_CardinalityType
    <3>2. wreq[r].closing \in BOOLEAN
      BY <2>3 DEF WorkRecords
    <3>. QED  BY <2>2, <3>1, <3>2 DEF WorkRecords
  <2>5. wreq' = [wreq EXCEPT ![r] = w]
    <3>1. PICK g : g = [wreq EXCEPT ![r].st = "ended"]
      OBVIOUS
    <3>2. wreq' = [g EXCEPT ![r].msgid = 0]
      BY ONLY <1>1, <3>1
    <3>3. /\ g \in [Reqs -> WorkRecords] /\ g[r].st = "ended" /\ g[r].closing = wreq[r].closing
          /\ \A q \in Reqs \ {r} : g[q] = wreq[q]
      BY <2>1, <2>3, <3>1 DEF WorkRecords
    <3>4. wreq' = [g EXCEPT ![r] = [g[r] EXCEPT !.msgid = 0]]
      BY <3>2, <3>3
    <3>5. g[r] \in WorkRecords
      BY <3>3
    <3>6. [g[r] EXCEPT !.msgid = 0] = w
      BY <2>2, <3>3, <3>5 DEF WorkRecords
    <3>. QED  BY <2>1, <3>3, <3>4, <3>6
  <2>. QED  BY <2>1, <2>4, <2>5
<1>3. r \in Users /\ Users' = Users \ {r}
  BY <1>1, <1>2 DEF Users, Active
<1>4. Cardinality(Users) \in Nat \ {0} /\ Cardinality(Users') = Cardinality(Users) - 1
  BY <1>3, UsersCount, FS_EmptySet, FS_RemoveElement
<1>5. client \in [st : {"none", "live", "freed"}, refs : 0..(Cardinality(Reqs) + 1), open : BOOLEAN]
  BY DEF IInv, TypeOK
<1>6. PICK o \in 0..1 : /\ client.open => o = 1
                        /\ ~client.open => o = 0
  OBVIOUS
<1>7. client.refs = o + Cardinality(Users) /\ client.st = "live"
  BY <1>4, <1>6 DEF IInv, CountsInv
<1>8. client' = [st |-> IF client.refs = 1 THEN "freed" ELSE "live", refs |-> client.refs - 1,
                 open |-> client.open]
  BY <1>1, <1>5, <1>7 DEF ClientUnref
<1>9. client'.refs = o + Cardinality(Users') /\ client'.open = client.open
  BY <1>4, <1>6, <1>7, <1>8
<1>10. client'.st = "live" <=> client'.refs > 0
  BY <1>4, <1>6, <1>7, <1>8
<1>11. CountsInv'
  BY <1>6, <1>9, <1>10 DEF CountsInv
<1>12. client' \in [st : {"none", "live", "freed"}, refs : 0..(Cardinality(Reqs) + 1), open : BOOLEAN]
  <2>1. client.refs - 1 \in 0..(Cardinality(Reqs) + 1)
    BY <1>4, <1>5, <1>6, <1>7, UsersCount
  <2>2. client.open \in BOOLEAN
    BY <1>5
  <2>. QED  BY <1>8, <2>1, <2>2
<1>13. PICK c : c = client'
  OBVIOUS
<1>14. WatchInv' /\ watch' \in [Names -> Nat] /\ subs' \in [Clients -> [Names -> Nat]]
  BY <1>1, <1>13, UnwatchFacts DEF IInv
<1>15. TypeOK'
  BY <1>1, <1>2, <1>12, <1>14 DEF IInv, TypeOK, clientVars, WorkRecords
<1>16. \A q \in Reqs : /\ wreq'[q].st = "running" => wreq[q].st = "running"
                       /\ wreq'[q].st = "running" => wreq'[q].msgid = wreq[q].msgid
                       /\ wreq[q] = NoWreq => wreq'[q] = NoWreq
                       /\ wreq'[q].closing = wreq[q].closing
  <2>1. wreq[r] # NoWreq
    BY <1>1 DEF NoWreq
  <2>. QED  BY <1>1, <1>2, <2>1
<1>17. MemosInv' /\ RepliesMatch'
  BY <1>1, <1>16, MemosKept, RepliesKept DEF IInv, clientVars
<1>18. UpInv' /\ ServedInv' /\ DownInv' /\ MessagesInv'
  BY <1>1, <1>16, SameMessages, PlacesKept DEF IInv, clientVars
<1>. QED  BY <1>11, <1>14, <1>15, <1>17, <1>18 DEF IInv

(* A step on the events of the server: only the watches, the events and    *)
(* the messages about them change.                                         *)
LEMMA ServerEventStep ==
    ASSUME IInv, UNCHANGED <<listening, link, clientVars, up, client, wreq, dropped>>,
           event' \in [Names -> 0..MaxEventId], watch' \in [Names -> Nat],
           subs' \in [Clients -> [Names -> Nat]], WatchInv',
           NEW ms \in Seq(DownMessages), Send(ms), \A k \in DOMAIN ms : ~IsReply(ms[k])
    PROVE  IInv'
<1>1. TypeOK'
  BY DEF IInv, TypeOK, clientVars
<1>2. CountsInv'
  BY CountsKept DEF IInv, Active
<1>3. MemosInv' /\ RepliesMatch'
  BY MemosKept, RepliesKept DEF IInv, clientVars
<1>4. /\ MessagesInv'
      /\ \A i \in DOMAIN up' : i + 0 \in DOMAIN up /\ up'[i] = up[i + 0]
      /\ \A i \in DOMAIN down' : IsReply(down'[i]) =>
           i + 0 \in DOMAIN down /\ down'[i] = down[i + 0]
  BY QuietSent DEF IInv
<1>5. UpInv' /\ ServedInv' /\ DownInv'
  BY <1>4, PlacesKept DEF IInv, clientVars
<1>. QED  BY <1>1, <1>2, <1>3, <1>4, <1>5 DEF IInv

(* One or two messages that are no replies, or none.                       *)
LEMMA ShortSeqs ==
    ASSUME NEW a \in DownMessages, NEW b \in DownMessages, ~IsReply(a), ~IsReply(b),
           NEW ms, ms = <<>> \/ ms = <<a>> \/ ms = <<a, b>>
    PROVE  ms \in Seq(DownMessages) /\ \A k \in DOMAIN ms : ~IsReply(ms[k])
<1>1. CASE ms = <<>>
  BY <1>1
<1>2. CASE ms = <<a>>
  BY <1>2
<1>3. CASE ms = <<a, b>>
  <2>1. ms \in Seq(DownMessages)
    BY <1>3
  <2>2. DOMAIN ms = 1..2 /\ ms[1] = a /\ ms[2] = b
    BY <1>3
  <2>3. \A k \in 1..2 : k = 1 \/ k = 2
    OBVIOUS
  <2>. QED  BY <2>1, <2>2, <2>3
<1>. QED  BY <1>1, <1>2, <1>3

(* The clients subscribed to an event.                                     *)
LEMMA SubscribersCount ==
    ASSUME NEW n
    PROVE  /\ IsFiniteSet({c \in Clients : subs[c][n] = 1})
           /\ Cardinality({c \in Clients : subs[c][n] = 1}) \in Nat
BY BoundsAssumption, FS_Subset, FS_CardinalityType

LEMMA SubscribeStep ==
    ASSUME IInv, NEW r \in Reqs, NEW n \in Names, api_ws_server_req_subscribe(r, n)
    PROVE  IInv'
<1>1. PICK c \in Clients : c = Owner[r]
  BY OwnerAssumption
<1>2. /\ event[n] # 0 /\ subs[c][n] = 0 /\ Send(Subscribed(n, r))
      /\ watch' = [watch EXCEPT ![n] = @ + 1] /\ subs' = [subs EXCEPT ![c][n] = @ + 1]
      /\ UNCHANGED <<listening, link, clientVars, up, client, wreq, dropped, event>>
  BY <1>1 DEF api_ws_server_req_subscribe
<1>3. watch \in [Names -> Nat] /\ subs \in [Clients -> [Names -> Nat]]
  BY DEF IInv, TypeOK
<1>4. /\ watch' \in [Names -> Nat] /\ watch'[n] = watch[n] + 1
      /\ \A m \in Names \ {n} : watch'[m] = watch[m]
  BY <1>2, <1>3
<1>5. /\ subs' \in [Clients -> [Names -> Nat]] /\ subs'[c][n] = 1
      /\ \A d \in Clients, m \in Names : d # c \/ m # n => subs'[d][m] = subs[d][m]
  BY <1>2, <1>3
<1>6. WatchInv'
  <2>1. ASSUME NEW m \in Names, m # n
        PROVE  /\ \A d \in Clients : subs'[d][m] \in 0..1
               /\ watch'[m] = Cardinality({d \in Clients : subs'[d][m] = 1})
               /\ watch'[m] > 0 => event'[m] # 0
    <3>1. {d \in Clients : subs'[d][m] = 1} = {d \in Clients : subs[d][m] = 1}
      BY <1>5, <2>1
    <3>2. /\ \A d \in Clients : subs[d][m] \in 0..1
          /\ watch[m] = Cardinality({d \in Clients : subs[d][m] = 1})
          /\ watch[m] > 0 => event[m] # 0
      BY DEF IInv, WatchInv
    <3>3. event'[m] = event[m] /\ watch'[m] = watch[m]
      BY <1>2, <1>4, <2>1
    <3>4. \A d \in Clients : subs'[d][m] = subs[d][m]
      BY <1>5, <2>1
    <3>. QED  BY <3>1, <3>2, <3>3, <3>4
  <2>2. /\ \A d \in Clients : subs'[d][n] \in 0..1
        /\ watch'[n] = Cardinality({d \in Clients : subs'[d][n] = 1})
        /\ event'[n] # 0
    <3> DEFINE S == {d \in Clients : subs[d][n] = 1}
    <3>1. {d \in Clients : subs'[d][n] = 1} = S \cup {c}
      BY <1>5
    <3>2. c \notin S /\ IsFiniteSet(S)
      <4>1. c \notin S
        BY <1>2
      <4>2. IsFiniteSet(S)
        BY SubscribersCount
      <4>. QED  BY <4>1, <4>2
    <3>3. Cardinality(S \cup {c}) = Cardinality(S) + 1
      BY <3>2, FS_AddElement
    <3>4. watch[n] = Cardinality(S) /\ \A d \in Clients : subs[d][n] \in 0..1
      BY DEF IInv, WatchInv
    <3>5. \A d \in Clients : subs'[d][n] \in 0..1
      BY <1>5, <3>4
    <3>. QED  BY <1>2, <1>4, <3>1, <3>3, <3>4, <3>5
  <2>. QED  BY <2>1, <2>2 DEF WatchInv
<1>7. Subscribed(n, r) \in Seq(DownMessages) /\ \A k \in DOMAIN Subscribed(n, r) : ~IsReply(Subscribed(n, r)[k])
  <2>1. PICK e, s : e = EventMsg("+", n) /\ s = ReqMsg("S", n, r)
    OBVIOUS
  <2>2. e \in DownMessages /\ ~IsReply(e) /\ s \in DownMessages /\ ~IsReply(s)
    BY <1>2, <2>1, EventMsgFacts DEF IInv
  <2>3. Subscribed(n, r) = <<s>> \/ Subscribed(n, r) = <<e, s>>
    <3>1. CASE watch[n] = 0
      <4>1. Subscribed(n, r) = <<e>> \o <<s>>
        BY <2>1, <3>1 DEF Subscribed
      <4>2. <<e>> \o <<s>> = <<e, s>>
        BY <2>2, PairOfSeqs
      <4>. QED  BY <4>1, <4>2
    <3>2. CASE watch[n] # 0
      <4>1. Subscribed(n, r) = <<>> \o <<s>>
        BY <2>1, <3>2 DEF Subscribed
      <4>. QED  BY <4>1
    <3>. QED  BY <3>1, <3>2
  <2>. QED  BY <2>2, <2>3, ShortSeqs
<1>8. PICK ms : ms = Subscribed(n, r)
  OBVIOUS
<1>9. event' \in [Names -> 0..MaxEventId]
  BY <1>2 DEF IInv, TypeOK
<1>10. UNCHANGED <<listening, link, clientVars, up, client, wreq, dropped>>
  BY <1>2
<1>. QED  BY <1>2, <1>4, <1>5, <1>6, <1>7, <1>8, <1>9, <1>10, ServerEventStep

LEMMA UnsubscribeStep ==
    ASSUME IInv, NEW r \in Reqs, NEW n \in Names, api_ws_server_req_unsubscribe(r, n)
    PROVE  IInv'
<1>1. PICK c \in Clients : c = Owner[r]
  BY OwnerAssumption
<1>2. /\ event[n] # 0 /\ subs[c][n] > 0 /\ Send(Unsubscribed(n, r))
      /\ watch' = [watch EXCEPT ![n] = @ - 1] /\ subs' = [subs EXCEPT ![c][n] = @ - 1]
      /\ UNCHANGED <<listening, link, clientVars, up, client, wreq, dropped, event>>
  BY <1>1 DEF api_ws_server_req_unsubscribe
<1>3. watch \in [Names -> Nat] /\ subs \in [Clients -> [Names -> Nat]]
  BY DEF IInv, TypeOK
<1> DEFINE S == {d \in Clients : subs[d][n] = 1}
<1>4. /\ watch[n] = Cardinality(S) /\ \A d \in Clients : subs[d][n] \in 0..1
      /\ subs[c][n] = 1 /\ c \in S
  <2>1. watch[n] = Cardinality(S) /\ \A d \in Clients : subs[d][n] \in 0..1
    BY DEF IInv, WatchInv
  <2>2. subs[c][n] = 1
    BY <1>2, <2>1
  <2>. QED  BY <2>1, <2>2
<1>5. Cardinality(S) \in Nat \ {0} /\ Cardinality(S \ {c}) = Cardinality(S) - 1
  <2>1. IsFiniteSet(S) /\ Cardinality(S) \in Nat
    BY SubscribersCount
  <2>. QED  BY <1>4, <2>1, FS_EmptySet, FS_RemoveElement
<1>6. /\ watch' \in [Names -> Nat] /\ watch'[n] = Cardinality(S) - 1
      /\ \A m \in Names \ {n} : watch'[m] = watch[m]
  <2>1. watch[n] - 1 \in Nat
    BY <1>4, <1>5
  <2>. QED  BY <1>2, <1>3, <1>4, <2>1
<1>7. /\ subs' \in [Clients -> [Names -> Nat]] /\ subs'[c][n] = 0
      /\ \A d \in Clients, m \in Names : d # c \/ m # n => subs'[d][m] = subs[d][m]
  <2>1. subs' = [subs EXCEPT ![c][n] = 0]
    BY <1>2, <1>4
  <2>. QED  BY <1>3, <2>1
<1>8. WatchInv'
  <2>1. ASSUME NEW m \in Names, m # n
        PROVE  /\ \A d \in Clients : subs'[d][m] \in 0..1
               /\ watch'[m] = Cardinality({d \in Clients : subs'[d][m] = 1})
               /\ watch'[m] > 0 => event'[m] # 0
    <3>1. {d \in Clients : subs'[d][m] = 1} = {d \in Clients : subs[d][m] = 1}
      BY <1>7, <2>1
    <3>2. /\ \A d \in Clients : subs[d][m] \in 0..1
          /\ watch[m] = Cardinality({d \in Clients : subs[d][m] = 1})
          /\ watch[m] > 0 => event[m] # 0
      BY DEF IInv, WatchInv
    <3>3. event'[m] = event[m] /\ watch'[m] = watch[m]
      BY <1>2, <1>6, <2>1
    <3>4. \A d \in Clients : subs'[d][m] = subs[d][m]
      BY <1>7, <2>1
    <3>. QED  BY <3>1, <3>2, <3>3, <3>4
  <2>2. /\ \A d \in Clients : subs'[d][n] \in 0..1
        /\ watch'[n] = Cardinality({d \in Clients : subs'[d][n] = 1})
        /\ event'[n] # 0
    <3>1. {d \in Clients : subs'[d][n] = 1} = S \ {c}
      BY <1>7
    <3>2. \A d \in Clients : subs'[d][n] \in 0..1
      BY <1>4, <1>7
    <3>. QED  BY <1>2, <1>5, <1>6, <3>1, <3>2
  <2>. QED  BY <2>1, <2>2 DEF WatchInv
<1>9. Unsubscribed(n, r) \in Seq(DownMessages) /\ \A k \in DOMAIN Unsubscribed(n, r) : ~IsReply(Unsubscribed(n, r)[k])
  <2>1. PICK e, s : e = EventMsg("-", n) /\ s = ReqMsg("U", n, r)
    OBVIOUS
  <2>2. e \in DownMessages /\ ~IsReply(e) /\ s \in DownMessages /\ ~IsReply(s)
    BY <1>2, <2>1, EventMsgFacts DEF IInv
  <2>3. Unsubscribed(n, r) = <<s>> \/ Unsubscribed(n, r) = <<s, e>>
    <3>1. CASE watch[n] = 1
      <4>1. Unsubscribed(n, r) = <<s>> \o <<e>>
        BY <2>1, <3>1 DEF Unsubscribed
      <4>2. <<s>> \o <<e>> = <<s, e>>
        BY <2>2, PairOfSeqs
      <4>. QED  BY <4>1, <4>2
    <3>2. CASE watch[n] # 1
      <4>1. Unsubscribed(n, r) = <<s>> \o <<>>
        BY <2>1, <3>2 DEF Unsubscribed
      <4>. QED  BY <4>1
    <3>. QED  BY <3>1, <3>2
  <2>. QED  BY <2>2, <2>3, ShortSeqs
<1>10. PICK ms : ms = Unsubscribed(n, r)
  OBVIOUS
<1>11. event' \in [Names -> 0..MaxEventId]
  BY <1>2 DEF IInv, TypeOK
<1>12. UNCHANGED <<listening, link, clientVars, up, client, wreq, dropped>>
  BY <1>2
<1>. QED  BY <1>2, <1>6, <1>7, <1>8, <1>9, <1>10, <1>11, <1>12, ServerEventStep

LEMMA NewEventStep == ASSUME IInv, NEW n \in Names, EventCreate(n) PROVE IInv'
<1>1. /\ event[n] = 0
      /\ UNCHANGED <<listening, link, clientVars, up, down, client, wreq, dropped, watch, subs>>
  BY DEF EventCreate
<1>2. PICK i \in 1..MaxEventId : event' = [event EXCEPT ![n] = i]
  BY DEF EventCreate
<1>3. event' \in [Names -> 0..MaxEventId] /\ \A m \in Names : event[m] # 0 => event'[m] # 0
  BY <1>1, <1>2, BoundsAssumption DEF IInv, TypeOK
<1>4. WatchInv'
  BY <1>1, <1>3 DEF IInv, WatchInv
<1>5. PICK ms : ms = <<>>
  OBVIOUS
<1>6. ms \in Seq(DownMessages) /\ DOMAIN ms = {}
  BY <1>5
<1>7. Send(ms)
  <2>1. down \in Seq(DownMessages)
    BY DEF IInv, MessagesInv
  <2>2. down \o ms = down
    BY <1>5, <2>1, ConcatEmptySeq
  <2>. QED  BY <1>1, <2>2 DEF Send
<1>8. watch' \in [Names -> Nat] /\ subs' \in [Clients -> [Names -> Nat]]
  BY <1>1 DEF IInv, TypeOK
<1>9. UNCHANGED <<listening, link, clientVars, up, client, wreq, dropped>>
  BY <1>1
<1>. QED  BY <1>3, <1>4, <1>6, <1>7, <1>8, <1>9, ServerEventStep

LEMMA EventEndStep == ASSUME IInv, NEW n \in Names, EventDrop(n) PROVE IInv'
<1>1. PICK ms : ms = IF watch[n] = 0 THEN <<>> ELSE <<EventMsg("-", n)>>
  OBVIOUS
<1>2. /\ event[n] # 0 /\ Send(ms)
      /\ event' = [event EXCEPT ![n] = 0] /\ watch' = [watch EXCEPT ![n] = 0]
      /\ subs' = [c \in Clients |-> [subs[c] EXCEPT ![n] = 0]]
      /\ UNCHANGED <<listening, link, clientVars, up, client, wreq, dropped>>
  BY <1>1 DEF EventDrop
<1>3. /\ event \in [Names -> 0..MaxEventId] /\ watch \in [Names -> Nat]
      /\ subs \in [Clients -> [Names -> Nat]]
  BY DEF IInv, TypeOK
<1>4. /\ event' \in [Names -> 0..MaxEventId] /\ \A m \in Names \ {n} : event'[m] = event[m]
      /\ watch' \in [Names -> Nat] /\ watch'[n] = 0
      /\ \A m \in Names \ {n} : watch'[m] = watch[m]
  BY <1>2, <1>3, BoundsAssumption
<1>5. /\ subs' \in [Clients -> [Names -> Nat]] /\ \A d \in Clients : subs'[d][n] = 0
      /\ \A d \in Clients, m \in Names : m # n => subs'[d][m] = subs[d][m]
  BY <1>2, <1>3
<1>6. WatchInv'
  <2>1. ASSUME NEW m \in Names, m # n
        PROVE  /\ \A d \in Clients : subs'[d][m] \in 0..1
               /\ watch'[m] = Cardinality({d \in Clients : subs'[d][m] = 1})
               /\ watch'[m] > 0 => event'[m] # 0
    <3>1. {d \in Clients : subs'[d][m] = 1} = {d \in Clients : subs[d][m] = 1}
      BY <1>5, <2>1
    <3>. QED  BY <1>4, <1>5, <2>1, <3>1 DEF IInv, WatchInv
  <2>2. /\ \A d \in Clients : subs'[d][n] \in 0..1
        /\ watch'[n] = Cardinality({d \in Clients : subs'[d][n] = 1})
        /\ ~(watch'[n] > 0)
    <3>1. {d \in Clients : subs'[d][n] = 1} = {}
      BY <1>5
    <3>2. Cardinality({d \in Clients : subs'[d][n] = 1}) = 0
      BY <3>1, FS_EmptySet
    <3>3. \A d \in Clients : subs'[d][n] \in 0..1
      BY <1>5
    <3>4. watch'[n] = 0
      BY <1>4
    <3>. QED  BY <3>2, <3>3, <3>4
  <2>. QED  BY <2>1, <2>2 DEF WatchInv
<1>7. ms \in Seq(DownMessages) /\ \A k \in DOMAIN ms : ~IsReply(ms[k])
  <2>1. PICK e : e = EventMsg("-", n)
    OBVIOUS
  <2>2. e \in DownMessages /\ ~IsReply(e)
    BY <1>2, <2>1, EventMsgFacts DEF IInv
  <2>3. ms = <<>> \/ ms = <<e>>
    BY <1>1, <2>1
  <2>. QED  BY <2>2, <2>3, ShortSeqs
<1>. QED  BY <1>2, <1>4, <1>5, <1>6, <1>7, ServerEventStep

-----------------------------------------------------------------------------
(* The server replies.                                                     *)

LEMMA ReplySent ==
    ASSUME UpInv, ServedInv, DownInv, MessagesInv, UNCHANGED memos,
           NEW r \in Reqs, NEW m \in DownMessages, IsReply(m), m.of = r, Pending(m.msgid, r),
           m.closing = wreq'[r].closing,
           \A k \in DOMAIN down : IsReply(down[k]) => down[k].of # r, Send(<<m>>),
           DOMAIN up' \subseteq Int,
           NEW a \in Nat, \A i \in DOMAIN up' :
                            /\ i + a \in DOMAIN up /\ up'[i] = up[i + a] /\ up'[i].of # r,
           wreq'[r].st # "running", \A q \in Reqs \ {r} : wreq'[q] = wreq[q]
    PROVE  UpInv' /\ ServedInv' /\ DownInv' /\ down' \in Seq(DownMessages)
<1>0. /\ \A i \in DOMAIN up : up[i].of \in Reqs
      /\ \A i \in DOMAIN down : IsReply(down[i]) => down[i].of \in Reqs
  BY SeqDomains, MessageFacts
<1>1. /\ DOMAIN down = 1..Len(down) /\ Len(down) \in Nat
      /\ down' \in Seq(DownMessages)
      /\ \A i \in DOMAIN down : i \in DOMAIN down' /\ down'[i] = down[i]
      /\ \A i \in DOMAIN down' : i \in DOMAIN down \/ (i = Len(down) + 1 /\ down'[i] = m)
  <2>1. PICK ms : ms = <<m>>
    OBVIOUS
  <2>2. ms \in Seq(DownMessages) /\ DOMAIN ms = {1} /\ ms[1] = m
    BY <2>1
  <2>3. Send(ms)
    BY <2>1
  <2>. QED  BY <2>2, <2>3, SentFacts
<1>2. UpInv'
  <2> SUFFICES ASSUME NEW i \in DOMAIN up'
               PROVE  /\ Pending(up[i].msgid, up[i].of)'
                      /\ wreq'[up'[i].of] = NoWreq
                      /\ \A k \in DOMAIN up' : up'[k].of = up'[i].of => k = i
                      /\ \A k \in DOMAIN down' : IsReply(down'[k]) => down'[k].of # up'[i].of
    BY DEF UpInv, IsReply, NoWreq
  <2>1. i + a \in DOMAIN up /\ up'[i] = up[i + a] /\ up'[i].of # r
    OBVIOUS
  <2>2. Pending(up[i].msgid, up[i].of)'
    BY <2>1 DEF UpInv, Pending
  <2>3. wreq'[up'[i].of] = NoWreq
    BY <1>0, <2>1 DEF UpInv
  <2>4. ASSUME NEW k \in DOMAIN up', up'[k].of = up'[i].of PROVE k = i
    <3>1. k + a = i + a
      BY <2>1, <2>4 DEF UpInv
    <3>2. k \in Int /\ i \in Int /\ a \in Nat
      BY <2>4
    <3>. QED  BY <3>1, <3>2, SamePlace
  <2>5. ASSUME NEW k \in DOMAIN down', IsReply(down'[k]) PROVE down'[k].of # up'[i].of
    BY <1>1, <2>1, <2>5 DEF UpInv
  <2>. QED  BY <2>2, <2>3, <2>4, <2>5
<1>3. ServedInv'
  <2> SUFFICES ASSUME NEW q \in Reqs, wreq'[q].st = "running"
               PROVE  /\ Pending(wreq[q].msgid, q)'
                      /\ \A k \in DOMAIN down' : IsReply(down'[k]) => down'[k].of # q
    BY DEF ServedInv, IsReply
  <2>0. q # r /\ wreq'[q] = wreq[q]
    OBVIOUS
  <2>1. Pending(wreq[q].msgid, q)'
    BY <2>0 DEF ServedInv, Pending
  <2>2. ASSUME NEW k \in DOMAIN down', IsReply(down'[k]) PROVE down'[k].of # q
    BY <1>1, <2>0, <2>2 DEF ServedInv
  <2>. QED  BY <2>1, <2>2
<1>4. DownInv'
  <2> SUFFICES ASSUME NEW i \in DOMAIN down', IsReply(down'[i])
               PROVE  /\ Pending(down[i].msgid, down[i].of)'
                      /\ down'[i].closing = wreq'[down'[i].of].closing
                      /\ \A k \in DOMAIN down' : IsReply(down'[k]) /\ down'[k].of = down'[i].of
                           => k = i
    BY DEF DownInv, IsReply
  <2>1. CASE i \in DOMAIN down
    <3>1. down'[i] = down[i] /\ IsReply(down[i]) /\ down[i].of # r /\ down[i].of \in Reqs
      BY <1>0, <1>1, <2>1
    <3>2. Pending(down[i].msgid, down[i].of)'
      BY <2>1, <3>1 DEF DownInv, Pending
    <3>3. down'[i].closing = wreq'[down'[i].of].closing
      BY <2>1, <3>1 DEF DownInv
    <3>. QED  BY <1>1, <2>1, <3>1, <3>2, <3>3 DEF DownInv
  <2>2. CASE i = Len(down) + 1 /\ down'[i] = m
    <3>1. Pending(down[i].msgid, down[i].of)'
      BY <2>2 DEF Pending
    <3>. QED  BY <1>1, <2>2, <3>1
  <2>. QED  BY <1>1, <2>1, <2>2
<1>. QED  BY <1>1, <1>2, <1>3, <1>4

LEMMA CalledUnknownStep == ASSUME IInv, api_ws_server_called_unknown PROVE IInv'
<1>1. /\ ReadCall /\ UNCHANGED <<listening, link, clientVars, event, watch, subs, client, wreq, dropped>>
      /\ Send(<<[op |-> "reply", msgid |-> Head(up).msgid, of |-> Head(up).of,
                 closing |-> FALSE, big |-> FALSE]>>)
  BY DEF api_ws_server_called_unknown, ReadCall
<1>2. /\ up' \in Seq(UpMessages) /\ Head(up) = up[1] /\ 1 \in DOMAIN up
      /\ up[1].of \in Reqs /\ up[1].msgid \in MsgIds
      /\ \A i \in DOMAIN up' : i + 1 \in DOMAIN up /\ i + 1 # 1 /\ up'[i] = up[i + 1]
  BY <1>1, CallFacts
<1>3. PICK r \in Reqs, m \in Replies :
        /\ r = up[1].of
        /\ m = [op |-> "reply", msgid |-> up[1].msgid, of |-> r,
                closing |-> FALSE, big |-> FALSE]
  BY <1>2 DEF Replies
<1>4. m \in DownMessages /\ IsReply(m) /\ m.of = r /\ m.msgid = up[1].msgid /\ m.closing = FALSE
  BY <1>2, <1>3 DEF DownMessages, Replies, IsReply
<1>5. Send(<<m>>)
  BY <1>1, <1>2, <1>3
<1>6. /\ Pending(m.msgid, r) /\ wreq[r] = NoWreq
      /\ \A k \in DOMAIN up : up[k].of = r => k = 1
      /\ \A k \in DOMAIN down : IsReply(down[k]) => down[k].of # r
  BY <1>2, <1>3, <1>4 DEF IInv, UpInv
<1>7. /\ DOMAIN up' \subseteq Int
      /\ \A i \in DOMAIN up' : i + 1 \in DOMAIN up /\ up'[i] = up[i + 1] /\ up'[i].of # r
  <2>1. DOMAIN up' \subseteq Int
    BY <1>2, LenProperties
  <2>. QED  BY <1>2, <1>6, <2>1
<1>8. m.closing = wreq'[r].closing /\ wreq'[r].st # "running" /\ wreq' = wreq /\ memos' = memos
  <2>1. wreq' = wreq /\ memos' = memos
    BY <1>1 DEF clientVars
  <2>2. NoWreq.closing = FALSE /\ NoWreq.st # "running"
    BY DEF NoWreq
  <2>. QED  BY <1>4, <1>6, <2>1, <2>2
<1>9. UpInv' /\ ServedInv' /\ DownInv' /\ down' \in Seq(DownMessages)
  BY <1>4, <1>5, <1>6, <1>7, <1>8, ReplySent DEF IInv
<1>10. TypeOK'
  BY <1>1 DEF IInv, TypeOK, clientVars
<1>11. MessagesInv'
  BY <1>2, <1>9 DEF MessagesInv
<1>12. CountsInv'
  BY <1>1, CountsKept DEF IInv, Active
<1>13. WatchInv' /\ MemosInv' /\ RepliesMatch'
  BY <1>1, WatchKept, MemosKept, RepliesKept DEF IInv, clientVars
<1>. QED  BY <1>9, <1>10, <1>11, <1>12, <1>13 DEF IInv

(* One field of the state of a served request.                             *)
LEMMA WorkSet ==
    ASSUME NEW g \in [Reqs -> WorkRecords], NEW r \in Reqs,
           NEW s \in {"none", "running", "replied", "ended"}, NEW h, h = [g EXCEPT ![r].st = s]
    PROVE  /\ h \in [Reqs -> WorkRecords] /\ h[r].st = s /\ h[r].closing = g[r].closing
           /\ \A q \in Reqs \ {r} : h[q] = g[q]
<1>1. g[r] \in WorkRecords
  OBVIOUS
<1>2. h = [g EXCEPT ![r] = [g[r] EXCEPT !.st = s]]
  OBVIOUS
<1>3. /\ [g[r] EXCEPT !.st = s] \in WorkRecords
      /\ [g[r] EXCEPT !.st = s].closing = g[r].closing
      /\ [g[r] EXCEPT !.st = s].st = s
  BY <1>1 DEF WorkRecords
<1>. QED  BY <1>2, <1>3

LEMMA ReqReplyStep == ASSUME IInv, NEW r \in Reqs, api_ws_server_req_reply(r) PROVE IInv'
<1>1. /\ wreq[r].st = "running" /\ wreq' = [wreq EXCEPT ![r].st = "replied"]
      /\ UNCHANGED <<listening, link, clientVars, up, client, dropped, event, watch, subs>>
  BY DEF api_ws_server_req_reply
<1>2. PICK big \in BOOLEAN :
         Send(<<[op |-> "reply", msgid |-> wreq[r].msgid, of |-> r,
                 closing |-> wreq[r].closing, big |-> big]>>)
  BY DEF api_ws_server_req_reply
<1>3. PICK m : m = [op |-> "reply", msgid |-> wreq[r].msgid, of |-> r,
                    closing |-> wreq[r].closing, big |-> big]
  OBVIOUS
<1>4. wreq \in [Reqs -> WorkRecords]
  BY DEF IInv, TypeOK, WorkRecords
<1>5. wreq[r].msgid \in MsgIds /\ wreq[r].closing \in BOOLEAN
  BY <1>4 DEF WorkRecords, MsgIds
<1>6. /\ m \in DownMessages /\ IsReply(m) /\ m.of = r /\ m.msgid = wreq[r].msgid
      /\ m.closing = wreq[r].closing
  <2>1. m \in Replies
    BY <1>3, <1>5 DEF Replies
  <2>. QED  BY <1>3, <2>1 DEF DownMessages, IsReply
<1>7. Send(<<m>>)
  BY <1>2, <1>3
<1>8. /\ wreq' \in [Reqs -> WorkRecords] /\ wreq'[r].st = "replied"
      /\ wreq'[r].closing = wreq[r].closing /\ \A q \in Reqs \ {r} : wreq'[q] = wreq[q]
  <2>1. "replied" \in {"none", "running", "replied", "ended"}
    OBVIOUS
  <2>2. wreq' = [wreq EXCEPT ![r].st = "replied"]
    BY <1>1
  <2>. QED  BY ONLY <1>4, <2>1, <2>2, WorkSet, r \in Reqs
<1>9. /\ Pending(m.msgid, r)
      /\ \A k \in DOMAIN down : IsReply(down[k]) => down[k].of # r
  BY <1>1, <1>6 DEF IInv, ServedInv
<1>10. wreq[r] # NoWreq
  BY <1>1 DEF NoWreq
<1>11. /\ DOMAIN up' \subseteq Int
       /\ \A i \in DOMAIN up' : i + 0 \in DOMAIN up /\ up'[i] = up[i + 0] /\ up'[i].of # r
  BY <1>1, <1>10, SeqDomains DEF IInv, UpInv
<1>12. memos' = memos
  BY <1>1 DEF clientVars
<1>13. UpInv' /\ ServedInv' /\ DownInv' /\ down' \in Seq(DownMessages)
  BY <1>6, <1>7, <1>8, <1>9, <1>11, <1>12, ReplySent DEF IInv
<1>14. TypeOK'
  BY <1>1, <1>8 DEF IInv, TypeOK, clientVars, WorkRecords
<1>15. MessagesInv'
  BY <1>1, <1>13 DEF IInv, MessagesInv
<1>16. CountsInv'
  <2>1. \A q \in Reqs : Active(q)' <=> Active(q)
    BY <1>1, <1>8 DEF Active
  <2>. QED  BY <1>1, <2>1, CountsKept DEF IInv
<1>17. \A q \in Reqs : /\ wreq[q] = NoWreq => wreq'[q] = NoWreq
                       /\ wreq'[q].closing = wreq[q].closing
  BY <1>8, <1>10
<1>18. WatchInv' /\ MemosInv' /\ RepliesMatch'
  BY <1>1, <1>17, WatchKept, MemosKept, RepliesKept DEF IInv, clientVars
<1>. QED  BY <1>13, <1>14, <1>15, <1>16, <1>18 DEF IInv

(* The server runs a call: it is where the message was.                    *)
LEMMA CalledStep == ASSUME IInv, api_ws_server_called PROVE IInv'
<1>1. /\ ReadCall /\ client.open /\ client' = Hold(client)
      /\ UNCHANGED <<listening, link, clientVars, event, watch, subs, down, dropped>>
      /\ wreq' = [wreq EXCEPT ![Head(up).of] =
                    [st |-> "running", msgid |-> Head(up).msgid, closing |-> Head(up).of \in Closers]]
  BY DEF api_ws_server_called, ReadCall
<1>2. /\ up' \in Seq(UpMessages) /\ Head(up) = up[1] /\ 1 \in DOMAIN up
      /\ up[1].of \in Reqs /\ up[1].msgid \in MsgIds
      /\ \A i \in DOMAIN up' : i + 1 \in DOMAIN up /\ i + 1 # 1 /\ up'[i] = up[i + 1]
      /\ \A i \in DOMAIN up : up[i].of \in Reqs
  BY <1>1, CallFacts, SeqDomains, MessageFacts DEF IInv
<1>3. PICK r \in Reqs : r = up[1].of
  BY <1>2
<1>4. PICK w : w = [st |-> "running", msgid |-> up[1].msgid, closing |-> r \in Closers]
  OBVIOUS
<1>5. w \in WorkRecords /\ w.st = "running" /\ w.msgid = up[1].msgid
  <2>1. (r \in Closers) \in BOOLEAN
    OBVIOUS
  <2>. QED  BY <1>2, <1>4, <2>1 DEF WorkRecords, MsgIds
<1>6. wreq' \in [Reqs -> WorkRecords] /\ wreq'[r] = w /\ \A q \in Reqs \ {r} : wreq'[q] = wreq[q]
  <2>1. wreq \in [Reqs -> WorkRecords]
    BY DEF IInv, TypeOK, WorkRecords
  <2>2. wreq' = [wreq EXCEPT ![r] = w]
    BY <1>1, <1>2, <1>3, <1>4
  <2>. QED  BY <1>5, <2>1, <2>2
<1>7. /\ Pending(up[1].msgid, r) /\ wreq[r] = NoWreq
      /\ \A k \in DOMAIN up : up[k].of = r => k = 1
      /\ \A k \in DOMAIN down : IsReply(down[k]) => down[k].of # r
  BY <1>2, <1>3 DEF IInv, UpInv
<1>8. areq[r].st = "called"
  BY <1>7 DEF Pending, IInv, MemosInv
<1>9. r \notin Users /\ Users' = Users \cup {r}
  <2>1. wreq[r].st = "none"
    BY <1>7 DEF NoWreq
  <2>. QED  BY <1>5, <1>6, <2>1 DEF Users, Active
<1>10. Cardinality(Users') = Cardinality(Users) + 1
  BY <1>9, UsersCount, FS_AddElement
<1>11. Cardinality(Users) + 1 <= Cardinality(Reqs)
  <2>1. Users' \in SUBSET Reqs
    BY DEF Users
  <2>. QED  BY <1>10, <2>1, BoundsAssumption, FS_Subset, UsersCount
<1>12. client \in [st : {"none", "live", "freed"}, refs : 0..(Cardinality(Reqs) + 1), open : BOOLEAN]
  BY DEF IInv, TypeOK
<1>13. client.refs = 1 + Cardinality(Users) /\ client.st = "live"
  BY <1>1, UsersCount DEF IInv, CountsInv
<1>14. client' = [st |-> "live", refs |-> client.refs + 1, open |-> client.open]
  BY <1>1, <1>12, <1>13 DEF Hold
<1>15. client' \in [st : {"none", "live", "freed"}, refs : 0..(Cardinality(Reqs) + 1), open : BOOLEAN]
  <2>1. client.refs + 1 \in 0..(Cardinality(Reqs) + 1)
    BY <1>11, <1>13, UsersCount
  <2>2. client.open \in BOOLEAN
    BY <1>12
  <2>. QED  BY <1>14, <2>1, <2>2
<1>16. CountsInv'
  <2>1. client'.refs = 1 + Cardinality(Users') /\ client'.open /\ client'.st = "live"
    BY <1>1, <1>10, <1>13, <1>14, UsersCount
  <2>2. client'.refs > 0
    BY <1>10, <2>1, UsersCount
  <2>. QED  BY <2>1, <2>2 DEF CountsInv
<1>17. TypeOK'
  BY <1>1, <1>6, <1>15 DEF IInv, TypeOK, clientVars, WorkRecords
<1>18. MessagesInv'
  BY <1>1, <1>2 DEF IInv, MessagesInv
<1>19. WatchInv'
  BY <1>1, WatchKept DEF IInv
<1>20. memos' = memos /\ areq' = areq /\ down' = down
  BY <1>1 DEF clientVars
<1>21. MemosInv'
  <2>1. \A q \in Reqs : areq'[q].st = "idle" => wreq'[q] = NoWreq
    BY <1>6, <1>8, <1>20 DEF IInv, MemosInv
  <2>. QED  BY <1>20, <2>1 DEF IInv, MemosInv, NoWreq
<1>22. RepliesMatch'
  <2>1. areq[r].reply = None /\ None # r
    BY <1>8, BoundsAssumption DEF IInv, MemosInv
  <2>. QED  BY <1>6, <1>20, <2>1 DEF IInv, RepliesMatch
<1>23. UpInv'
  <2> SUFFICES ASSUME NEW i \in DOMAIN up'
               PROVE  /\ Pending(up[i].msgid, up[i].of)'
                      /\ wreq'[up'[i].of] = NoWreq
                      /\ \A k \in DOMAIN up' : up'[k].of = up'[i].of => k = i
                      /\ \A k \in DOMAIN down' : IsReply(down'[k]) => down'[k].of # up'[i].of
    BY DEF UpInv, IsReply, NoWreq
  <2>0. DOMAIN up' \subseteq Int
    BY <1>2, LenProperties
  <2>1. i + 1 \in DOMAIN up /\ up'[i] = up[i + 1] /\ up[i + 1].of # r /\ up[i + 1].of \in Reqs
    BY <1>2, <1>7
  <2>2. Pending(up[i].msgid, up[i].of)'
    BY <1>20, <2>1 DEF IInv, UpInv, Pending
  <2>3. wreq'[up'[i].of] = NoWreq
    BY <1>6, <2>1 DEF IInv, UpInv
  <2>4. ASSUME NEW k \in DOMAIN up', up'[k].of = up'[i].of PROVE k = i
    <3>1. k + 1 = i + 1
      BY <1>2, <2>1, <2>4 DEF IInv, UpInv
    <3>2. k \in Int /\ i \in Int
      BY <2>0
    <3>. QED  BY <3>1, <3>2, SamePlace
  <2>5. ASSUME NEW k \in DOMAIN down', IsReply(down'[k]) PROVE down'[k].of # up'[i].of
    BY <1>20, <2>1, <2>5 DEF IInv, UpInv
  <2>. QED  BY <2>2, <2>3, <2>4, <2>5
<1>24. ServedInv'
  <2> SUFFICES ASSUME NEW q \in Reqs, wreq'[q].st = "running"
               PROVE  /\ Pending(wreq[q].msgid, q)'
                      /\ \A k \in DOMAIN down' : IsReply(down'[k]) => down'[k].of # q
    BY DEF ServedInv, IsReply
  <2>1. CASE q = r
    BY <1>5, <1>6, <1>7, <1>20, <2>1 DEF Pending
  <2>2. CASE q # r
    BY <1>6, <1>20, <2>2 DEF IInv, ServedInv, Pending
  <2>. QED  BY <2>1, <2>2
<1>25. DownInv'
  <2> SUFFICES ASSUME NEW i \in DOMAIN down', IsReply(down'[i])
               PROVE  /\ Pending(down[i].msgid, down[i].of)'
                      /\ down'[i].closing = wreq'[down'[i].of].closing
                      /\ \A k \in DOMAIN down' : IsReply(down'[k]) /\ down'[k].of = down'[i].of
                           => k = i
    BY DEF DownInv, IsReply
  <2>1. i \in DOMAIN down /\ IsReply(down[i]) /\ down[i].of # r /\ down[i].of \in Reqs
    BY <1>7, <1>20, SeqDomains, MessageFacts DEF IInv
  <2>2. Pending(down[i].msgid, down[i].of)'
    BY <1>20, <2>1 DEF IInv, DownInv, Pending
  <2>3. down'[i].closing = wreq'[down'[i].of].closing
    BY <1>6, <1>20, <2>1 DEF IInv, DownInv
  <2>4. \A k \in DOMAIN down' : IsReply(down'[k]) /\ down'[k].of = down'[i].of => k = i
    BY <1>20, <2>1 DEF IInv, DownInv
  <2>. QED  BY <2>2, <2>3, <2>4
<1>. QED  BY <1>16, <1>17, <1>18, <1>19, <1>21, <1>22, <1>23, <1>24, <1>25 DEF IInv

-----------------------------------------------------------------------------
(* The client calls.                                                       *)

MemoRecords == [msgid : 0..IdMod - 1, req : Reqs]

RequestRecords ==
    [st : {"idle", "called", "ended"}, refs : 0..1, closing : BOOLEAN,
     reply : {None} \cup Reqs, replies : Nat]

LEMMA MemosFacts ==
    ASSUME TypeOK
    PROVE  /\ memos \in Seq(MemoRecords) /\ DOMAIN memos = 1..Len(memos) /\ Len(memos) \in Nat
           /\ \A i \in DOMAIN memos : memos[i] \in MemoRecords /\ memos[i].req \in Reqs
<1>1. memos \in Seq(MemoRecords)
  BY DEF TypeOK, MemoRecords
<1>2. /\ DOMAIN memos = 1..Len(memos) /\ Len(memos) \in Nat
      /\ \A i \in DOMAIN memos : memos[i] \in MemoRecords
  BY <1>1, ElementOfSeq, LenProperties
<1>. QED  BY <1>1, <1>2 DEF MemoRecords

(* The call gets an id of its own, and is nowhere else.                    *)
LEMMA CallSentStep == ASSUME IInv, NEW r \in Reqs, api_ws_client_call_sent(r) PROVE IInv'
<1>1. /\ areq[r].st = "idle" /\ memo_id' = NextMsgId
      /\ memos' = <<[msgid |-> NextMsgId, req |-> r]>> \o memos
      /\ areq' = [areq EXCEPT ![r].st = "called", ![r].refs = 1]
      /\ up' = IF link = "up" THEN Append(up, [msgid |-> NextMsgId, of |-> r]) ELSE up
      /\ UNCHANGED <<listening, link, aws, cevents, down, serverVars>>
  BY DEF api_ws_client_call_sent, memo_make
<1>2. NextMsgId \in MsgIds /\ \A i \in DOMAIN memos : memos[i].msgid # NextMsgId
  BY MsgIdFacts DEF IInv
<1>3. PICK id \in MsgIds : id = NextMsgId
  BY <1>2
<1>4. /\ DOMAIN memos = 1..Len(memos) /\ Len(memos) \in Nat
      /\ \A i \in DOMAIN memos : memos[i].req \in Reqs /\ memos[i].req # r
      /\ memos \in Seq(MemoRecords)
  BY <1>1, MemosFacts DEF IInv, MemosInv
<1>5. PICK e, m : e = [msgid |-> id, req |-> r] /\ m = [msgid |-> id, of |-> r]
  OBVIOUS
<1>6. e \in MemoRecords /\ e.msgid = id /\ e.req = r
  BY <1>5 DEF MemoRecords, MsgIds
<1>7. m \in UpMessages /\ m.msgid = id /\ m.of = r
  BY <1>5 DEF UpMessages
<1>8. memos' = <<e>> \o memos /\ up' = IF link = "up" THEN Append(up, m) ELSE up
  BY <1>1, <1>3, <1>5
<1>9. /\ memos' \in Seq(MemoRecords) /\ DOMAIN memos' = 1..Len(memos) + 1 /\ memos'[1] = e
      /\ \A i \in 1..Len(memos) : memos'[i + 1] = memos[i]
  BY <1>4, <1>6, <1>8, ConsFacts
<1>10. /\ areq' \in [Reqs -> RequestRecords] /\ areq'[r].st = "called" /\ areq'[r].refs = 1
       /\ areq'[r].closing = areq[r].closing /\ areq'[r].reply = areq[r].reply
       /\ areq'[r].replies = areq[r].replies /\ \A q \in Reqs \ {r} : areq'[q] = areq[q]
  <2>1. areq \in [Reqs -> RequestRecords]
    BY DEF IInv, TypeOK, RequestRecords
  <2>2. areq' = [areq EXCEPT ![r].st = "called", ![r].refs = 1]
    BY <1>1
  <2>3. PICK f : f = [areq EXCEPT ![r].st = "called"]
    OBVIOUS
  <2>4. areq' = [f EXCEPT ![r].refs = 1]
    BY ONLY <2>2, <2>3
  <2>5. areq[r] \in RequestRecords
    BY <2>1
  <2>6. PICK a : a = [areq[r] EXCEPT !.st = "called"]
    OBVIOUS
  <2>7. /\ a \in RequestRecords /\ a.st = "called" /\ a.closing = areq[r].closing
        /\ a.reply = areq[r].reply /\ a.replies = areq[r].replies
    BY <2>5, <2>6 DEF RequestRecords
  <2>8. f \in [Reqs -> RequestRecords] /\ f[r] = a /\ \A q \in Reqs \ {r} : f[q] = areq[q]
    BY <2>1, <2>3, <2>6, <2>7
  <2>9. PICK b : b = [a EXCEPT !.refs = 1]
    OBVIOUS
  <2>10. /\ b \in RequestRecords /\ b.st = "called" /\ b.closing = areq[r].closing /\ b.refs = 1
         /\ b.reply = areq[r].reply /\ b.replies = areq[r].replies
    BY <2>7, <2>9 DEF RequestRecords
  <2>11. areq' = [f EXCEPT ![r] = b]
    BY <2>4, <2>8, <2>9
  <2>. QED  BY <2>8, <2>10, <2>11
<1>11. /\ up' \in Seq(UpMessages) /\ DOMAIN up = 1..Len(up) /\ Len(up) \in Nat
       /\ \A i \in 1..Len(up) : up'[i] = up[i]
       /\ \A i \in DOMAIN up' : i \in DOMAIN up \/ (i = Len(up) + 1 /\ up'[i] = m)
  <2>1. CASE link = "up"
    <3>1. up' = Append(up, m)
      BY <1>8, <2>1
    <3>. QED  BY <1>7, <3>1, AppendFacts DEF IInv, MessagesInv
  <2>2. CASE link # "up"
    <3>1. up' = up
      BY <1>8, <2>2
    <3>. QED  BY <3>1, SeqDomains DEF IInv, MessagesInv
  <2>. QED  BY <2>1, <2>2
<1>12. /\ areq[r].reply = None /\ areq[r].replies = 0 /\ wreq[r] = NoWreq
  BY <1>1 DEF IInv, MemosInv
<1>13. wreq' = wreq /\ down' = down
  BY <1>1 DEF serverVars
<1>14. TypeOK'
  BY <1>1, <1>2, <1>9, <1>10 DEF IInv, TypeOK, serverVars, MemoRecords, RequestRecords, MsgIds
<1>15. MessagesInv'
  BY <1>11, <1>13 DEF IInv, MessagesInv
<1>16. CountsInv'
  BY <1>1, CountsKept DEF IInv, Active, serverVars
<1>17. WatchInv'
  BY <1>1, WatchKept DEF IInv, serverVars
<1>18. ASSUME NEW i \in DOMAIN memos', i # 1
       PROVE  i - 1 \in DOMAIN memos /\ memos'[i] = memos[i - 1]
  <2>1. i \in Int /\ i - 1 \in 1..Len(memos) /\ (i - 1) + 1 = i
    BY <1>4, <1>9, <1>18
  <2>. QED  BY <1>4, <1>9, <2>1
<1>19. MemosInv'
  <2>1. ASSUME NEW i \in DOMAIN memos', NEW k \in DOMAIN memos', i # k
        PROVE  memos'[i].msgid # memos'[k].msgid /\ memos'[i].req # memos'[k].req
    <3>1. CASE i = 1
      BY <1>2, <1>3, <1>4, <1>6, <1>9, <1>18, <2>1, <3>1
    <3>2. CASE k = 1
      BY <1>2, <1>3, <1>4, <1>6, <1>9, <1>18, <2>1, <3>2
    <3>3. CASE i # 1 /\ k # 1
      <4>1. /\ i - 1 \in DOMAIN memos /\ memos'[i] = memos[i - 1]
            /\ k - 1 \in DOMAIN memos /\ memos'[k] = memos[k - 1]
        BY <1>18, <3>3
      <4>2. i - 1 # k - 1
        BY <1>4, <1>9, <2>1
      <4>. QED  BY <4>1, <4>2 DEF IInv, MemosInv
    <3>. QED  BY <3>1, <3>2, <3>3
  <2>2. ASSUME NEW i \in DOMAIN memos' PROVE areq'[memos'[i].req].st = "called"
    <3>1. CASE i = 1
      BY <1>6, <1>9, <1>10, <3>1
    <3>2. CASE i # 1
      BY <1>4, <1>10, <1>18, <3>2 DEF IInv, MemosInv
    <3>. QED  BY <3>1, <3>2
  <2>3. ASSUME NEW q \in Reqs
        PROVE  /\ areq'[q].st = "idle" => areq'[q].reply = None /\ areq'[q].replies = 0 /\ wreq'[q] = NoWreq
               /\ areq'[q].st = "called" => /\ areq'[q].reply = None /\ areq'[q].replies = 0
                                            /\ areq'[q].refs = 1
    <3>1. CASE q = r
      BY <1>10, <1>12, <3>1
    <3>2. CASE q # r
      BY <1>10, <1>13, <3>2 DEF IInv, MemosInv
    <3>. QED  BY <3>1, <3>2
  <2>. QED  BY <2>1, <2>2, <2>3 DEF MemosInv, NoWreq
<1>20. RepliesMatch'
  <2>1. None # r
    BY BoundsAssumption
  <2>. QED  BY <1>10, <1>12, <1>13, <2>1 DEF IInv, RepliesMatch
<1>21. ASSUME NEW i, NEW q, Pending(i, q) PROVE Pending(i, q)' /\ q # r
  <2>1. PICK k \in DOMAIN memos : memos[k].msgid = i /\ memos[k].req = q
    BY <1>21 DEF Pending
  <2>2. k + 1 \in DOMAIN memos' /\ memos'[k + 1] = memos[k]
    BY <1>4, <1>9
  <2>. QED  BY <1>4, <2>1, <2>2 DEF Pending
<1>22. Pending(id, r)'
  BY <1>4, <1>6, <1>9 DEF Pending
<1>23. UpInv'
  <2> SUFFICES ASSUME NEW i \in DOMAIN up'
               PROVE  /\ Pending(up[i].msgid, up[i].of)'
                      /\ wreq'[up'[i].of] = NoWreq
                      /\ \A k \in DOMAIN up' : up'[k].of = up'[i].of => k = i
                      /\ \A k \in DOMAIN down' : IsReply(down'[k]) => down'[k].of # up'[i].of
    BY DEF UpInv, IsReply, NoWreq
  <2>0. \A k \in DOMAIN up : up[k].of # r
    BY <1>21 DEF IInv, UpInv
  <2>1. CASE i \in DOMAIN up
    <3>1. up'[i] = up[i]
      BY <1>11, <2>1
    <3>2. Pending(up[i].msgid, up[i].of)
      BY <2>1, <3>1 DEF IInv, UpInv
    <3>3. Pending(up[i].msgid, up[i].of)'
      <4>1. PICK j, q : j = up[i].msgid /\ q = up[i].of
        OBVIOUS
      <4>2. Pending(j, q)'
        BY <1>21, <3>2, <4>1
      <4>. QED  BY <3>1, <4>1, <4>2 DEF Pending
    <3>4. /\ wreq'[up'[i].of] = NoWreq
          /\ \A k \in DOMAIN down' : IsReply(down'[k]) => down'[k].of # up'[i].of
      BY <1>13, <2>1, <3>1 DEF IInv, UpInv
    <3>5. \A k \in DOMAIN up' : up'[k].of = up'[i].of => k = i
      BY <1>7, <1>11, <2>0, <2>1, <3>1 DEF IInv, UpInv
    <3>. QED  BY <3>3, <3>4, <3>5
  <2>2. CASE i = Len(up) + 1 /\ up'[i] = m
    <3>1. Pending(up[i].msgid, up[i].of)'
      BY <1>7, <1>22, <2>2 DEF Pending
    <3>2. wreq'[up'[i].of] = NoWreq
      BY <1>7, <1>12, <1>13, <2>2
    <3>3. \A k \in DOMAIN down' : IsReply(down'[k]) => down'[k].of # up'[i].of
      BY <1>7, <1>13, <1>21, <2>2 DEF IInv, DownInv
    <3>4. \A k \in DOMAIN up' : up'[k].of = up'[i].of => k = i
      BY <1>7, <1>11, <2>0, <2>2
    <3>. QED  BY <3>1, <3>2, <3>3, <3>4
  <2>. QED  BY <1>11, <2>1, <2>2
<1>24. ServedInv'
  <2> SUFFICES ASSUME NEW q \in Reqs, wreq'[q].st = "running"
               PROVE  /\ Pending(wreq[q].msgid, q)'
                      /\ \A k \in DOMAIN down' : IsReply(down'[k]) => down'[k].of # q
    BY DEF ServedInv, IsReply
  <2>1. /\ Pending(wreq[q].msgid, q)
        /\ \A k \in DOMAIN down' : IsReply(down'[k]) => down'[k].of # q
    BY <1>13 DEF IInv, ServedInv
  <2>2. PICK j : j = wreq[q].msgid
    OBVIOUS
  <2>3. Pending(j, q)'
    BY <1>21, <2>1, <2>2
  <2>. QED  BY <1>13, <2>1, <2>2, <2>3 DEF Pending
<1>25. DownInv'
  <2> SUFFICES ASSUME NEW i \in DOMAIN down', IsReply(down'[i])
               PROVE  /\ Pending(down[i].msgid, down[i].of)'
                      /\ down'[i].closing = wreq'[down'[i].of].closing
                      /\ \A k \in DOMAIN down' : IsReply(down'[k]) /\ down'[k].of = down'[i].of
                           => k = i
    BY DEF DownInv, IsReply
  <2>1. /\ Pending(down[i].msgid, down[i].of)
        /\ down'[i].closing = wreq'[down'[i].of].closing
        /\ \A k \in DOMAIN down' : IsReply(down'[k]) /\ down'[k].of = down'[i].of => k = i
    BY <1>13 DEF IInv, DownInv
  <2>2. PICK j, q : j = down[i].msgid /\ q = down[i].of
    OBVIOUS
  <2>3. Pending(j, q)'
    BY <1>21, <2>1, <2>2
  <2>. QED  BY <1>13, <2>1, <2>2, <2>3 DEF Pending
<1>. QED  BY <1>14, <1>15, <1>16, <1>17, <1>19, <1>20, <1>23, <1>24, <1>25 DEF IInv

-----------------------------------------------------------------------------
(* The client gets a reply: the request is found by its id, and is the one *)
(* that the reply is for; it is nowhere else.                              *)

LEMMA AnsweredFacts ==
    ASSUME NEW a \in RequestRecords, a.refs = 1, a.replies = 0,
           NEW r \in Reqs, NEW m \in DownMessages, IsReply(m), m.of = r
    PROVE  Unref(ReplyTo(a, m)) = [st |-> "ended", refs |-> 0, closing |-> m.closing,
                                   reply |-> r, replies |-> 1]
<1>0. m.closing \in BOOLEAN
  BY MessageFacts
<1>1. PICK b : b = Answer(a, m.of)
  OBVIOUS
<1>2. b = [st |-> a.st, refs |-> 1, closing |-> a.closing, reply |-> r, replies |-> 1]
  <2>1. PICK d : d = [a EXCEPT !.reply = r]
    OBVIOUS
  <2>2. d = [st |-> a.st, refs |-> 1, closing |-> a.closing, reply |-> r, replies |-> 0]
    BY <2>1 DEF RequestRecords
  <2>3. b = [d EXCEPT !.replies = @ + 1]
    BY <1>1, <2>1 DEF Answer
  <2>. QED  BY <2>2, <2>3
<1>3. PICK c : c = ReplyTo(a, m)
  OBVIOUS
<1>4. c = [b EXCEPT !.closing = m.closing]
  BY <1>1, <1>3 DEF ReplyTo
<1>5. c = [st |-> a.st, refs |-> 1, closing |-> m.closing, reply |-> r, replies |-> 1]
  BY <1>2, <1>4
<1>6. Unref(c) = [st |-> "ended", refs |-> 0, closing |-> m.closing, reply |-> r, replies |-> 1]
  <2>1. PICK d : d = [c EXCEPT !.refs = @ - 1]
    OBVIOUS
  <2>2. d = [st |-> a.st, refs |-> 0, closing |-> m.closing, reply |-> r, replies |-> 1]
    BY <1>5, <2>1
  <2>3. Unref(c) = [d EXCEPT !.st = IF c.refs = 1 THEN "ended" ELSE @]
    BY <2>1 DEF Unref
  <2>4. c.refs = 1
    BY <1>5
  <2>5. Unref(c) = [d EXCEPT !.st = "ended"]
    BY <2>3, <2>4
  <2>. QED  BY <2>2, <2>5
<1>. QED  BY <1>3, <1>6

LEMMA ReplyStep == ASSUME IInv, api_ws_client_reply PROVE IInv'
<1>1. /\ Receive("reply") /\ down # <<>> /\ Head(down).op = "reply" /\ down' = Tail(down)
      /\ UNCHANGED <<listening, link, aws, memo_id, up, serverVars, cevents>>
  BY DEF api_ws_client_reply, Receive
<1>2. /\ down' \in Seq(DownMessages) /\ Head(down) = down[1] /\ down[1] \in DownMessages
      /\ DOMAIN down = 1..Len(down) /\ Len(down) \in Nat \ {0} /\ 1 \in DOMAIN down
      /\ DOMAIN down' = 1..Len(down) - 1
      /\ \A i \in 1..Len(down) - 1 : down'[i] = down[i + 1]
  BY <1>1, TailFacts DEF IInv, MessagesInv
<1>3. IsReply(down[1]) /\ down[1].of \in Reqs
  BY <1>1, <1>2, MessageFacts DEF IsReply
<1>4. PICK m \in DownMessages, r \in Reqs, id \in MsgIds :
        m = down[1] /\ r = m.of /\ id = m.msgid /\ IsReply(m)
  <2>1. PICK n \in DownMessages : n = down[1]
    BY <1>2
  <2>2. n.msgid \in MsgIds
    BY <1>3, <2>1, MessageFacts
  <2>. QED  BY <1>3, <2>1, <2>2
<1>5. /\ Pending(id, r) /\ m.closing = wreq[r].closing
      /\ \A k \in DOMAIN down : IsReply(down[k]) /\ down[k].of = r => k = 1
  BY <1>2, <1>3, <1>4 DEF IInv, DownInv
<1>6. /\ memos \in Seq(MemoRecords) /\ DOMAIN memos = 1..Len(memos) /\ Len(memos) \in Nat
      /\ \A i \in DOMAIN memos : memos[i].req \in Reqs
  BY MemosFacts DEF IInv
<1>7. PICK i \in DOMAIN memos : i = MemoOf(id) /\ memos[i].msgid = id /\ memos[i].req = r
  <2>1. PICK k \in DOMAIN memos : memos[k].msgid = id /\ memos[k].req = r
    BY <1>5 DEF Pending
  <2>2. MemoOf(id) \in DOMAIN memos /\ memos[MemoOf(id)].msgid = id
    BY <1>6, <2>1, MemoOfFacts
  <2>3. MemoOf(id) = k
    BY <2>1, <2>2 DEF IInv, MemosInv
  <2>. QED  BY <2>1, <2>3
<1>8. areq \in [Reqs -> RequestRecords] /\ areq[r] \in RequestRecords
  BY DEF IInv, TypeOK, RequestRecords
<1>9. /\ areq[r].st = "called" /\ areq[r].refs = 1 /\ areq[r].replies = 0
  BY <1>7 DEF IInv, MemosInv
<1>10. PICK x : x = [st |-> "ended", refs |-> 0, closing |-> m.closing, reply |-> r, replies |-> 1]
  OBVIOUS
<1>11. memos' = RemoveAt(memos, i) /\ areq' = [areq EXCEPT ![r] = x]
  <2>1. i # 0
    BY <1>6
  <2>2. memos' = RemoveAt(memos, i) /\ areq' = [areq EXCEPT ![r] = Unref(ReplyTo(areq[r], m))]
    BY <1>2, <1>4, <1>7, <2>1 DEF api_ws_client_reply
  <2>3. Unref(ReplyTo(areq[r], m)) = x
    BY <1>4, <1>8, <1>9, <1>10, AnsweredFacts
  <2>. QED  BY <2>2, <2>3
<1>12. /\ x \in RequestRecords /\ x.st = "ended" /\ x.reply = r /\ x.replies = 1
       /\ x.closing = m.closing
  <2>1. m.closing \in BOOLEAN
    BY <1>4, MessageFacts
  <2>. QED  BY <1>10, <2>1 DEF RequestRecords
<1>13. areq' \in [Reqs -> RequestRecords] /\ areq'[r] = x /\ \A q \in Reqs \ {r} : areq'[q] = areq[q]
  BY <1>8, <1>11, <1>12
<1>14. /\ memos' \in Seq(MemoRecords) /\ DOMAIN memos' = 1..Len(memos) - 1
       /\ \A k \in 1..Len(memos) - 1 : memos'[k] = IF k < i THEN memos[k] ELSE memos[k + 1]
  <2>1. i \in 1..Len(memos)
    BY <1>6
  <2>2. /\ RemoveAt(memos, i) \in Seq(MemoRecords) /\ DOMAIN RemoveAt(memos, i) = 1..Len(memos) - 1
        /\ \A k \in 1..Len(memos) - 1 :
             RemoveAt(memos, i)[k] = IF k < i THEN memos[k] ELSE memos[k + 1]
    BY ONLY <1>6, <2>1, RemoveFacts
  <2>. QED  BY ONLY <1>11, <2>2
<1> DEFINE f(k) == IF k < i THEN k ELSE k + 1
<1>15. \A k \in DOMAIN memos' : /\ f(k) \in DOMAIN memos /\ f(k) # i
                                /\ memos'[k] = memos[f(k)]
  BY <1>6, <1>14
<1>16. \A k, l \in DOMAIN memos' : k # l => f(k) # f(l)
  BY <1>6, <1>14
<1>17. ASSUME NEW j \in DOMAIN memos, j # i PROVE \E k \in DOMAIN memos' : memos'[k] = memos[j]
  <2>1. CASE j < i
    <3>1. j \in DOMAIN memos' /\ memos'[j] = memos[j]
      BY <1>6, <1>14, <2>1
    <3>. QED  BY <3>1
  <2>2. CASE j > i
    <3>1. j - 1 \in 1..Len(memos) - 1 /\ ~(j - 1 < i) /\ (j - 1) + 1 = j
      BY <1>6, <2>2
    <3>2. j - 1 \in DOMAIN memos' /\ memos'[j - 1] = memos[j]
      BY <1>14, <3>1
    <3>. QED  BY <3>2
  <2>. QED  BY <1>6, <1>17, <2>1, <2>2
<1> HIDE DEF f
<1>18. ASSUME NEW y, NEW q, Pending(y, q), q # r PROVE Pending(y, q)'
  <2>1. PICK j \in DOMAIN memos : memos[j].msgid = y /\ memos[j].req = q
    BY <1>18 DEF Pending
  <2>2. PICK k \in DOMAIN memos' : memos'[k] = memos[j]
    BY <1>7, <1>17, <1>18, <2>1
  <2>. QED  BY <2>1, <2>2 DEF Pending
<1>19. wreq' = wreq /\ up' = up
  BY <1>1 DEF serverVars
<1>20. TypeOK'
  BY <1>1, <1>13, <1>14 DEF IInv, TypeOK, serverVars, MemoRecords, RequestRecords
<1>21. MessagesInv'
  BY <1>2, <1>19 DEF IInv, MessagesInv
<1>22. CountsInv'
  BY <1>1, CountsKept DEF IInv, Active, serverVars
<1>23. WatchInv'
  BY <1>1, WatchKept DEF IInv, serverVars
<1>24. MemosInv'
  <2>1. ASSUME NEW k \in DOMAIN memos', NEW l \in DOMAIN memos', k # l
        PROVE  memos'[k].msgid # memos'[l].msgid /\ memos'[k].req # memos'[l].req
    BY <1>15, <1>16, <2>1 DEF IInv, MemosInv
  <2>2. ASSUME NEW k \in DOMAIN memos' PROVE areq'[memos'[k].req].st = "called"
    <3>1. memos[f(k)].req # r /\ memos[f(k)].req \in Reqs
      BY <1>6, <1>7, <1>15 DEF IInv, MemosInv
    <3>. QED  BY <1>13, <1>15, <3>1 DEF IInv, MemosInv
  <2>3. ASSUME NEW q \in Reqs
        PROVE  /\ areq'[q].st = "idle" => areq'[q].reply = None /\ areq'[q].replies = 0 /\ wreq'[q] = NoWreq
               /\ areq'[q].st = "called" => /\ areq'[q].reply = None /\ areq'[q].replies = 0
                                            /\ areq'[q].refs = 1
    <3>1. CASE q = r
      BY <1>12, <1>13, <3>1
    <3>2. CASE q # r
      BY <1>13, <1>19, <3>2 DEF IInv, MemosInv
    <3>. QED  BY <3>1, <3>2
  <2>. QED  BY <2>1, <2>2, <2>3 DEF MemosInv, NoWreq
<1>25. RepliesMatch'
  <2>1. ASSUME NEW q \in Reqs
        PROVE  /\ areq'[q].replies <= 1 /\ areq'[q].reply \in {None, q}
               /\ areq'[q].reply = q => areq'[q].closing = wreq'[q].closing
    <3>1. CASE q = r
      BY <1>5, <1>12, <1>13, <1>19, <3>1
    <3>2. CASE q # r
      BY <1>13, <1>19, <3>2 DEF IInv, RepliesMatch
    <3>. QED  BY <3>1, <3>2
  <2>. QED  BY <2>1 DEF RepliesMatch
<1>26. \A k \in DOMAIN down' : /\ k \in Int /\ k + 1 \in DOMAIN down /\ k + 1 # 1
                               /\ down'[k] = down[k + 1]
  BY <1>2
<1>27. UpInv'
  <2> SUFFICES ASSUME NEW k \in DOMAIN up'
               PROVE  /\ Pending(up[k].msgid, up[k].of)'
                      /\ wreq'[up'[k].of] = NoWreq
                      /\ \A l \in DOMAIN up' : up'[l].of = up'[k].of => l = k
                      /\ \A l \in DOMAIN down' : IsReply(down'[l]) => down'[l].of # up'[k].of
    BY DEF UpInv, IsReply, NoWreq
  <2>1. /\ k \in DOMAIN up /\ up'[k] = up[k]
        /\ Pending(up[k].msgid, up[k].of) /\ up[k].of # r
    BY <1>2, <1>3, <1>4, <1>19 DEF IInv, UpInv
  <2>2. PICK y, q : y = up[k].msgid /\ q = up[k].of
    OBVIOUS
  <2>3. Pending(y, q)'
    BY <1>18, <2>1, <2>2
  <2>4. Pending(up[k].msgid, up[k].of)'
    BY <2>1, <2>2, <2>3 DEF Pending
  <2>5. /\ wreq'[up'[k].of] = NoWreq
        /\ \A l \in DOMAIN up' : up'[l].of = up'[k].of => l = k
    BY <1>19, <2>1 DEF IInv, UpInv
  <2>6. \A l \in DOMAIN down' : IsReply(down'[l]) => down'[l].of # up'[k].of
    BY <1>26, <2>1 DEF IInv, UpInv
  <2>. QED  BY <2>4, <2>5, <2>6
<1>28. ServedInv'
  <2> SUFFICES ASSUME NEW q \in Reqs, wreq'[q].st = "running"
               PROVE  /\ Pending(wreq[q].msgid, q)'
                      /\ \A k \in DOMAIN down' : IsReply(down'[k]) => down'[k].of # q
    BY DEF ServedInv, IsReply
  <2>1. /\ Pending(wreq[q].msgid, q) /\ q # r
        /\ \A k \in DOMAIN down : IsReply(down[k]) => down[k].of # q
    BY <1>2, <1>3, <1>4, <1>19 DEF IInv, ServedInv
  <2>2. PICK y : y = wreq[q].msgid
    OBVIOUS
  <2>3. Pending(y, q)'
    BY <1>18, <2>1, <2>2
  <2>4. Pending(wreq[q].msgid, q)'
    BY <1>19, <2>2, <2>3 DEF Pending
  <2>. QED  BY <1>26, <2>1, <2>4
<1>29. DownInv'
  <2> SUFFICES ASSUME NEW k \in DOMAIN down', IsReply(down'[k])
               PROVE  /\ Pending(down[k].msgid, down[k].of)'
                      /\ down'[k].closing = wreq'[down'[k].of].closing
                      /\ \A l \in DOMAIN down' : IsReply(down'[l]) /\ down'[l].of = down'[k].of
                           => l = k
    BY DEF DownInv, IsReply
  <2>1. /\ k \in Int /\ k + 1 \in DOMAIN down /\ down'[k] = down[k + 1]
        /\ IsReply(down[k + 1]) /\ down[k + 1].of # r
        /\ Pending(down[k + 1].msgid, down[k + 1].of)
        /\ down[k + 1].closing = wreq[down[k + 1].of].closing
    BY <1>5, <1>26 DEF IInv, DownInv
  <2>2. PICK y, q : y = down[k + 1].msgid /\ q = down[k + 1].of
    OBVIOUS
  <2>3. Pending(y, q)'
    BY <1>18, <2>1, <2>2
  <2>4. Pending(down[k].msgid, down[k].of)'
    BY <2>1, <2>2, <2>3 DEF Pending
  <2>5. ASSUME NEW l \in DOMAIN down', IsReply(down'[l]), down'[l].of = down'[k].of PROVE l = k
    <3>1. l + 1 = k + 1 /\ l \in Int
      BY <1>26, <2>1, <2>5 DEF IInv, DownInv
    <3>. QED  BY <2>1, <3>1, SamePlace
  <2>6. down'[k].closing = wreq'[down'[k].of].closing
    BY <1>19, <2>1
  <2>. QED  BY <2>4, <2>5, <2>6
<1>. QED  BY <1>20, <1>21, <1>22, <1>23, <1>24, <1>25, <1>27, <1>28, <1>29 DEF IInv

-----------------------------------------------------------------------------
LEMMA InitInv == Init => IInv
<1> SUFFICES ASSUME Init PROVE IInv
  OBVIOUS
<1>1. Cardinality(Users) = 0 /\ Cardinality(Reqs) \in Nat
  <2>1. Users = {}
    BY DEF Init, Users, Active, NoWreq
  <2>. QED  BY <2>1, FS_EmptySet, UsersCount
<1>2. 0 \in 0..IdMod - 1
  BY BoundsAssumption, FS_CardinalityType
<1>3. TypeOK
  <2>1. areq \in [Reqs -> RequestRecords]
    BY DEF Init, NoRequest, RequestRecords
  <2>2. wreq \in [Reqs -> WorkRecords]
    BY <1>2 DEF Init, NoWreq, WorkRecords
  <2>3. client \in [st : {"none", "live", "freed"}, refs : 0..(Cardinality(Reqs) + 1), open : BOOLEAN]
    <3>1. 0 \in 0..(Cardinality(Reqs) + 1)
      BY <1>1
    <3>. QED  BY <3>1 DEF Init
  <2>4. memos \in Seq(MemoRecords) /\ cevents \in Seq(KnownEvents)
    BY DEF Init
  <2>5. /\ listening \in BOOLEAN /\ link \in {"none", "up", "lost"} /\ aws \in {"none", "open", "closed"}
        /\ memo_id \in 0..IdMod - 1 /\ dropped \subseteq Reqs
    BY <1>2 DEF Init
  <2>6. /\ event \in [Names -> 0..MaxEventId] /\ watch \in [Names -> Nat]
        /\ subs \in [Clients -> [Names -> Nat]]
    BY BoundsAssumption DEF Init
  <2>. QED  BY <2>1, <2>2, <2>3, <2>4, <2>5, <2>6
            DEF TypeOK, RequestRecords, WorkRecords, MemoRecords, KnownEvents
<1>4. MessagesInv
  BY DEF Init, MessagesInv
<1>5. CountsInv
  BY <1>1 DEF Init, CountsInv
<1>6. WatchInv
  <2>1. ASSUME NEW n \in Names PROVE Cardinality({c \in Clients : subs[c][n] = 1}) = 0
    <3>1. {c \in Clients : subs[c][n] = 1} = {}
      BY DEF Init
    <3>. QED  BY <3>1, FS_EmptySet
  <2>. QED  BY <2>1 DEF Init, WatchInv
<1>7. DOMAIN memos = {} /\ DOMAIN up = {} /\ DOMAIN down = {}
  BY DEF Init
<1>8. MemosInv
  BY <1>7 DEF Init, MemosInv, NoRequest
<1>9. UpInv /\ ServedInv /\ DownInv
  BY <1>7 DEF Init, UpInv, ServedInv, DownInv, NoWreq
<1>10. RepliesMatch
  BY BoundsAssumption DEF Init, RepliesMatch, NoRequest
<1>. QED  BY <1>3, <1>4, <1>5, <1>6, <1>8, <1>9, <1>10 DEF IInv

LEMMA StutterStep == ASSUME IInv, UNCHANGED vars PROVE IInv'
<1>1. TypeOK'
  BY DEF IInv, TypeOK, vars, clientVars, serverVars
<1>2. UNCHANGED <<memos, areq, client, wreq, event, watch, subs, up, down>>
  BY DEF vars, clientVars, serverVars
<1>. QED  BY <1>1, <1>2, SameMessages, QuietStep DEF IInv

LEMMA NextStep == ASSUME IInv, [Next]_vars PROVE IInv'
<1>1. CASE Setup
  BY <1>1, SetupStep, AcceptStep, LoseStep DEF Setup
<1>2. CASE ClientReads
  BY <1>2, ReplyStep, ClientHangupStep, EventCreateStep, EventDropStep, SubscriptionStep,
     PushReadStep DEF ClientReads
<1>3. CASE ServerReads
  BY <1>3, CalledStep, CalledUnknownStep, CalledFailedStep, HangupStep DEF ServerReads
<1>4. ASSUME NEW r \in Reqs,
             \/ api_ws_client_call_sent(r) \/ api_ws_server_req_reply(r)
             \/ api_ws_server_req_unref(r)
      PROVE  IInv'
  BY <1>4, CallSentStep, ReqReplyStep, UnrefStep
<1>5. CASE api_ws_client_call_failed
  BY <1>5, CallFailedStep
<1>6. ASSUME NEW r \in Reqs, NEW n \in Names,
             api_ws_server_req_subscribe(r, n) \/ api_ws_server_req_unsubscribe(r, n)
      PROVE  IInv'
  BY <1>6, SubscribeStep, UnsubscribeStep
<1>7. ASSUME NEW n \in Names, Events(n) PROVE IInv'
  BY <1>7, NewEventStep, EventEndStep, PushStep DEF Events
<1>8. CASE api_ws_server_event_broadcast
  BY <1>8, BroadcastStep
<1>9. CASE UNCHANGED vars
  BY <1>9, StutterStep
<1>. QED  BY <1>1, <1>2, <1>3, <1>4, <1>5, <1>6, <1>7, <1>8, <1>9 DEF Next

(* IInv holds in every reachable state.                                    *)
THEOREM InvHolds == Spec => []IInv
<1>1. Init => IInv
  BY InitInv
<1>2. IInv /\ [Next]_vars => IInv'
  BY NextStep
<1>. QED  BY <1>1, <1>2, PTL DEF Spec

(* Whatever the order of the hangup, of the replies and of the ends of the *)
(* requests, the structure of the client at the server lives until all of  *)
(* them have left it and not longer (afb-api-ws.c:936), and the requests   *)
(* that the memos of the client binder name are alive.                     *)
THEOREM UsersHeld == Spec => []UsersAreHeld
<1>1. ASSUME IInv PROVE UsersAreHeld
  BY <1>1 DEF IInv, CountsInv, MemosInv, Users, UsersAreHeld
<1>. QED  BY <1>1, InvHolds, PTL

(* Although the msgids wrap (afb-api-ws.c:505), a request gets one reply   *)
(* at most, its own, with the flags that its session had at the server.    *)
THEOREM RepliesAreMatched == Spec => []RepliesMatch
<1>1. IInv => RepliesMatch
  BY DEF IInv
<1>. QED  BY <1>1, InvHolds, PTL

-----------------------------------------------------------------------------
(* The events at the two sides.  The messages under way lead from what the *)
(* client knows of an event to what the server knows of it, one view after *)
(* each message.                                                           *)

Views == [id : 0..MaxEventId, subs : [Clients -> Nat]]

(* What the server has of the event n: an id, if the link watches it.      *)
Served(n) == [id |-> IF watch[n] > 0 THEN event[n] ELSE 0,
              subs |-> [c \in Clients |-> subs[c][n]]]

About(m, n) == m.op \in {"+", "-", "S", "U", "!"} /\ m.name = n

(* The message m finds the client with the view v and leaves it with w.    *)
Reads(n, v, m, w) ==
    /\ ~About(m, n) => w = v
    /\ About(m, n) =>
         /\ m.op = "+" => v.id = 0 /\ w = [id |-> m.id, subs |-> NoWatch]
         /\ m.op # "+" => v.id = m.id
         /\ m.op = "-" => w = [id |-> 0, subs |-> NoWatch]
         /\ m.op = "!" => w = v
         /\ m.op = "S" => \A r \in Reqs : Pending(m.msgid, r) =>
              w = [id |-> v.id, subs |-> [v.subs EXCEPT ![Owner[r]] = @ + 1]]
         /\ m.op = "U" => \A r \in Reqs : Pending(m.msgid, r) =>
              /\ v.subs[Owner[r]] > 0
              /\ w = [id |-> v.id, subs |-> [v.subs EXCEPT ![Owner[r]] = @ - 1]]

Along(n, q, v) ==
    /\ v \in [1..Len(q) + 1 -> Views]
    /\ \A i \in DOMAIN q : Reads(n, v[i], q[i], v[i + 1])

Mirror(n, v) ==
    /\ Along(n, down, v)
    /\ Knows(n, v[1], cevents)
    /\ client.open /\ link = "up" => v[Len(down) + 1] = Served(n)

MirrorInv == aws = "open" => \A n \in Names : \E v : Mirror(n, v)

(* A message about a subscription comes before the reply to its request.   *)
SubsInv ==
    \A i \in DOMAIN down : down[i].op \in {"S", "U"} =>
        \E r \in Reqs :
            /\ Pending(down[i].msgid, r)
            /\ \A k \in DOMAIN down : k < i /\ IsReply(down[k]) => down[k].of # r

(* Before the server accepts the link nothing is known nor sent.           *)
LinkInv ==
    /\ aws = "none" => link = "none"
    /\ link = "none" => client.st = "none"
    /\ client.st = "none" =>
         /\ down = <<>> /\ cevents = <<>>
         /\ \A n \in Names : watch[n] = 0 /\ \A c \in Clients : subs[c][n] = 0

EventsInv == SubsInv /\ LinkInv /\ MirrorInv

LEMMA AlongConcat ==
    ASSUME NEW n, NEW q \in Seq(DownMessages), NEW v, Along(n, q, v),
           NEW ms \in Seq(DownMessages), NEW u, Along(n, ms, u), v[Len(q) + 1] = u[1]
    PROVE  \E w : /\ Along(n, q \o ms, w) /\ w[1] = v[1]
                  /\ w[Len(q \o ms) + 1] = u[Len(ms) + 1]
<1>1. /\ DOMAIN q = 1..Len(q) /\ Len(q) \in Nat /\ DOMAIN ms = 1..Len(ms) /\ Len(ms) \in Nat
  BY LenProperties
<1>2. PICK p : p = q \o ms
  OBVIOUS
<1>3. PICK a, b : a = Len(q) /\ b = Len(ms)
  OBVIOUS
<1>4. /\ Len(p) = a + b /\ DOMAIN p = 1..a + b
      /\ \A i \in 1..a + b : p[i] = IF i <= a THEN q[i] ELSE ms[i - a]
  BY <1>1, <1>2, <1>3, ConcatProperties, LenProperties
<1>5. PICK w : w = [i \in 1..a + b + 1 |-> IF i <= a + 1 THEN v[i] ELSE u[i - a]]
  OBVIOUS
<1>6. a \in Nat /\ b \in Nat /\ v \in [1..a + 1 -> Views] /\ u \in [1..b + 1 -> Views]
  BY <1>1, <1>3 DEF Along
<1>7. w \in [1..a + b + 1 -> Views]
  <2>1. \A i \in 1..a + b + 1 : ~(i <= a + 1) => i - a \in 1..b + 1
    BY <1>6
  <2>2. \A i \in 1..a + b + 1 : i <= a + 1 => i \in 1..a + 1
    BY <1>6
  <2>. QED  BY <1>5, <1>6, <2>1, <2>2
<1>8. \A i \in a + 1..a + b + 1 : w[i] = u[i - a]
  <2>1. w[a + 1] = u[1]
    BY <1>3, <1>5, <1>6
  <2>. QED  BY <1>5, <1>6, <2>1
<1>9. ASSUME NEW i \in 1..a + b PROVE Reads(n, w[i], p[i], w[i + 1])
  <2>1. CASE i <= a
    <3>1. w[i] = v[i] /\ w[i + 1] = v[i + 1] /\ p[i] = q[i] /\ i \in DOMAIN q
      BY <1>1, <1>3, <1>4, <1>5, <1>6, <2>1
    <3>2. Reads(n, v[i], q[i], v[i + 1])
      BY <3>1 DEF Along
    <3>. QED  BY <3>1, <3>2
  <2>2. CASE ~(i <= a)
    <3>1. PICK j : j = i - a
      OBVIOUS
    <3>2. j \in DOMAIN ms /\ i \in a + 1..a + b + 1 /\ i + 1 \in a + 1..a + b + 1 /\ i + 1 - a = j + 1
      BY <1>1, <1>3, <1>6, <2>2, <3>1
    <3>3. w[i] = u[j] /\ w[i + 1] = u[j + 1] /\ p[i] = ms[j]
      <4>1. w[i] = u[i - a] /\ w[i + 1] = u[i + 1 - a]
        BY <1>6, <1>8, <3>2
      <4>2. p[i] = ms[i - a]
        BY <1>4, <2>2
      <4>. QED  BY <3>1, <3>2, <4>1, <4>2
    <3>4. Reads(n, u[j], ms[j], u[j + 1])
      BY <3>2 DEF Along
    <3>. QED  BY <3>3, <3>4
  <2>. QED  BY <2>1, <2>2
<1>10. w[1] = v[1] /\ w[Len(p) + 1] = u[b + 1]
  <2>1. w[1] = v[1]
    BY <1>5, <1>6
  <2>2. a + b + 1 \in a + 1..a + b + 1 /\ a + b + 1 - a = b + 1
    BY <1>6
  <2>3. w[a + b + 1] = u[a + b + 1 - a]
    BY <1>6, <1>8, <2>2
  <2>. QED  BY <1>4, <2>1, <2>2, <2>3
<1>11. Along(n, p, w)
  BY <1>4, <1>7, <1>9 DEF Along
<1>. QED  BY <1>2, <1>3, <1>10, <1>11

LEMMA AlongTail ==
    ASSUME NEW n, NEW q \in Seq(DownMessages), q # <<>>, NEW v, Along(n, q, v)
    PROVE  \E w : /\ Along(n, Tail(q), w) /\ w[1] = v[2]
                  /\ w[Len(Tail(q)) + 1] = v[Len(q) + 1]
<1>1. /\ Tail(q) \in Seq(DownMessages) /\ DOMAIN q = 1..Len(q) /\ Len(q) \in Nat \ {0}
      /\ DOMAIN Tail(q) = 1..Len(q) - 1
      /\ \A i \in 1..Len(q) - 1 : Tail(q)[i] = q[i + 1]
  BY TailFacts
<1>2. PICK p, a : p = Tail(q) /\ a = Len(q)
  OBVIOUS
<1>3. Len(p) = a - 1
  BY <1>1, <1>2, HeadTailProperties
<1>4. PICK w : w = [i \in 1..a |-> v[i + 1]]
  OBVIOUS
<1>5. a \in Nat \ {0} /\ v \in [1..a + 1 -> Views]
  BY <1>1, <1>2 DEF Along
<1>6. w \in [1..Len(p) + 1 -> Views]
  BY <1>3, <1>4, <1>5
<1>7. ASSUME NEW i \in DOMAIN p PROVE Reads(n, w[i], p[i], w[i + 1])
  <2>1. i + 1 \in DOMAIN q /\ w[i] = v[i + 1] /\ w[i + 1] = v[i + 1 + 1] /\ p[i] = q[i + 1]
    BY <1>1, <1>2, <1>4, <1>5
  <2>2. Reads(n, v[i + 1], q[i + 1], v[i + 1 + 1])
    BY <2>1 DEF Along
  <2>. QED  BY <2>1, <2>2
<1>8. w[1] = v[2] /\ w[Len(p) + 1] = v[a + 1]
  BY <1>3, <1>4, <1>5
<1>9. Along(n, p, w)
  BY <1>6, <1>7 DEF Along
<1>. QED  BY <1>2, <1>8, <1>9

LEMMA AlongPrefix ==
    ASSUME NEW n, NEW q \in Seq(DownMessages), NEW k \in 0..Len(q), NEW v, Along(n, q, v)
    PROVE  \E w : Along(n, SubSeq(q, 1, k), w) /\ w[1] = v[1]
<1>1. /\ SubSeq(q, 1, k) \in Seq(DownMessages) /\ DOMAIN SubSeq(q, 1, k) = 1..k
      /\ DOMAIN q = 1..Len(q) /\ Len(q) \in Nat /\ \A i \in 1..k : SubSeq(q, 1, k)[i] = q[i]
  BY PrefixFacts
<1>2. PICK p, a : p = SubSeq(q, 1, k) /\ a = Len(q)
  OBVIOUS
<1>3. Len(p) = k
  BY <1>1, <1>2, SubSeqProperties, LenProperties
<1>4. PICK w : w = [i \in 1..k + 1 |-> v[i]]
  OBVIOUS
<1>5. a \in Nat /\ k \in Nat /\ k <= a /\ v \in [1..a + 1 -> Views]
  BY <1>1, <1>2 DEF Along
<1>6. w \in [1..Len(p) + 1 -> Views]
  BY <1>3, <1>4, <1>5
<1>7. ASSUME NEW i \in DOMAIN p PROVE Reads(n, w[i], p[i], w[i + 1])
  <2>1. i \in DOMAIN q /\ w[i] = v[i] /\ w[i + 1] = v[i + 1] /\ p[i] = q[i]
    BY <1>1, <1>2, <1>4, <1>5
  <2>2. Reads(n, v[i], q[i], v[i + 1])
    BY <2>1 DEF Along
  <2>. QED  BY <2>1, <2>2
<1>8. w[1] = v[1]
  BY <1>4, <1>5
<1>9. Along(n, p, w)
  BY <1>6, <1>7 DEF Along
<1>. QED  BY <1>2, <1>8, <1>9

(* The memos that a message may name are the ones that it could before.    *)
LEMMA AlongKept ==
    ASSUME NEW n, NEW q, NEW v, Along(n, q, v),
           \A i \in DOMAIN q, r \in Reqs : q[i].op \in {"S", "U"} =>
             (Pending(q[i].msgid, r)' => Pending(q[i].msgid, r))
    PROVE  Along(n, q, v)'
<1>1. ASSUME NEW i \in DOMAIN q PROVE Reads(n, v[i], q[i], v[i + 1])'
  <2>1. Reads(n, v[i], q[i], v[i + 1])
    BY DEF Along
  <2>2. \A r \in Reqs : q[i].op \in {"S", "U"} /\ Pending(q[i].msgid, r)' => Pending(q[i].msgid, r)
    OBVIOUS
  <2>. QED  BY <2>1, <2>2 DEF Reads, About, NoWatch
<1>2. v \in [1..Len(q) + 1 -> Views]
  BY DEF Along
<1>. QED  BY <1>1, <1>2 DEF Along, Views

(* Steps that leave the queue and the events of the client as they are.    *)
LEMMA MirrorKept ==
    ASSUME MirrorInv, UNCHANGED <<down, cevents, aws>>,
           \A i \in DOMAIN down, r \in Reqs : down[i].op \in {"S", "U"} =>
             (Pending(down[i].msgid, r)' => Pending(down[i].msgid, r)),
           client.open' /\ link' = "up" =>
             client.open /\ link = "up" /\ \A n \in Names : Served(n)' = Served(n)
    PROVE  MirrorInv'
<1> SUFFICES ASSUME aws = "open", NEW n \in Names PROVE \E v : Mirror(n, v)'
  BY DEF MirrorInv
<1>1. PICK v : Mirror(n, v)
  BY DEF MirrorInv
<1>2. PICK q : q = down
  OBVIOUS
<1>3. Along(n, q, v)'
  BY <1>1, <1>2, AlongKept DEF Mirror
<1>4. Knows(n, v[1], cevents')
  BY <1>1 DEF Mirror, Knows
<1>5. Mirror(n, v)'
  <2>1. Along(n, down, v)'
    BY <1>2, <1>3 DEF Along
  <2>2. client.open' /\ link' = "up" => v[Len(down') + 1] = Served(n)'
    BY <1>1 DEF Mirror
  <2>. QED  BY <1>4, <2>1, <2>2 DEF Mirror
<1>. QED  BY <1>5

LEMMA SubsKept ==
    ASSUME SubsInv, UNCHANGED down,
           \A i \in DOMAIN down, r \in Reqs : down[i].op \in {"S", "U"} =>
             (Pending(down[i].msgid, r) => Pending(down[i].msgid, r)')
    PROVE  SubsInv'
BY DEF SubsInv, IsReply

(* Steps that leave the memos and the events of both sides as they are.    *)
LEMMA StillStep ==
    ASSUME EventsInv, LinkInv', UNCHANGED <<down, cevents, aws, memos>>,
           client.open' /\ link' = "up" =>
             client.open /\ link = "up" /\ UNCHANGED <<event, watch, subs>>
    PROVE  EventsInv'
<1>1. \A i \in DOMAIN down, r \in Reqs : Pending(down[i].msgid, r)' <=> Pending(down[i].msgid, r)
  BY DEF Pending
<1>2. SubsInv'
  BY <1>1, SubsKept DEF EventsInv
<1>3. MirrorInv'
  BY <1>1, MirrorKept DEF EventsInv, Served
<1>. QED  BY <1>2, <1>3 DEF EventsInv

-----------------------------------------------------------------------------
Nothing == [id |-> 0, subs |-> NoWatch]

LEMMA NothingFacts == Nothing \in Views /\ Nothing.id = 0
BY BoundsAssumption DEF Nothing, Views, NoWatch

(* Before the server accepts the link.                                     *)
LEMMA EmptyMirror ==
    ASSUME down = <<>>, cevents = <<>>,
           \A n \in Names : watch[n] = 0 /\ \A c \in Clients : subs[c][n] = 0
    PROVE  SubsInv /\ MirrorInv
<1>1. SubsInv
  BY DEF SubsInv
<1>2. ASSUME NEW n \in Names PROVE Mirror(n, [i \in 1..1 |-> Nothing])
  <2>1. PICK v : v = [i \in 1..1 |-> Nothing]
    OBVIOUS
  <2>2. v \in [1..1 -> Views] /\ v[1] = Nothing
    BY <2>1, NothingFacts
  <2>3. Len(down) + 1 = 1 /\ DOMAIN down = {} /\ DOMAIN cevents = {}
    OBVIOUS
  <2>4. Served(n) = Nothing
    BY DEF Served, Nothing, NoWatch
  <2>5. Knows(n, v[1], cevents)
    BY <2>2, <2>3, NothingFacts DEF Knows
  <2>6. Along(n, down, v)
    BY <2>2, <2>3 DEF Along
  <2>7. Mirror(n, v)
    BY <2>2, <2>3, <2>4, <2>5, <2>6 DEF Mirror
  <2>. QED  BY <2>1, <2>7
<1>. QED  BY <1>1, <1>2 DEF MirrorInv

LEMMA EmptyMirrorNext ==
    ASSUME down' = <<>>, cevents' = <<>>,
           \A n \in Names : watch'[n] = 0 /\ \A c \in Clients : subs'[c][n] = 0
    PROVE  (SubsInv /\ MirrorInv)'
<1>1. SubsInv'
  BY DEF SubsInv
<1>2. ASSUME NEW n \in Names PROVE \E v : Mirror(n, v)'
  <2>1. PICK v : v = [i \in 1..1 |-> Nothing]
    OBVIOUS
  <2>2. v \in [1..1 -> Views] /\ v[1] = Nothing
    BY <2>1, NothingFacts
  <2>3. Len(down') + 1 = 1 /\ DOMAIN down' = {} /\ DOMAIN cevents' = {}
    OBVIOUS
  <2>4. Served(n)' = Nothing
    BY DEF Served, Nothing, NoWatch
  <2>5. Knows(n, v[1], cevents')
    BY <2>2, <2>3, NothingFacts DEF Knows
  <2>6. Along(n, down, v)'
    BY <2>2, <2>3 DEF Along, Views
  <2>7. Mirror(n, v)'
    BY <2>2, <2>3, <2>4, <2>5, <2>6 DEF Mirror
  <2>. QED  BY <2>7
<1>. QED  BY <1>1, <1>2 DEF MirrorInv

LEMMA NotAccepted ==
    ASSUME IInv, client.st = "none"
    PROVE  ~client.open /\ \A r \in Reqs : ~Active(r)
<1>1. client.refs \in Nat /\ ~(client.refs > 0)
  BY DEF IInv, TypeOK, CountsInv
<1>2. IsFiniteSet(Users) /\ Cardinality(Users) \in Nat
  BY BoundsAssumption, FS_Subset, FS_CardinalityType DEF Users
<1>3. ~client.open /\ Cardinality(Users) = 0
  BY <1>1, <1>2 DEF IInv, CountsInv
<1>4. Users = {}
  BY <1>2, <1>3, FS_EmptySet
<1>. QED  BY <1>3, <1>4 DEF Users

LEMMA SetupMirror == ASSUME IInv, EventsInv, Setup PROVE EventsInv'
<1>1. CASE afb_api_ws_add_server
  <2>1. UNCHANGED <<link, clientVars, up, down, serverVars>>
    BY <1>1 DEF afb_api_ws_add_server
  <2>2. LinkInv'
    BY <2>1 DEF EventsInv, LinkInv, clientVars, serverVars
  <2>. QED  BY <2>1, <2>2, StillStep DEF clientVars, serverVars
<1>2. CASE api_ws_server_listen_hangup
  <2>1. UNCHANGED <<clientVars, up, down, serverVars>> /\ (link' = link \/ link' = "lost")
    BY <1>2 DEF api_ws_server_listen_hangup
  <2>2. LinkInv'
    <3>1. CASE link' = link
      BY <2>1, <3>1 DEF EventsInv, LinkInv, clientVars, serverVars
    <3>2. CASE link' = "lost" /\ link # link'
      <4>1. link = "up"
        BY <1>2, <3>2 DEF api_ws_server_listen_hangup
      <4>. QED  BY <2>1, <3>2, <4>1 DEF EventsInv, LinkInv, clientVars, serverVars
    <3>. QED  BY <2>1, <3>1, <3>2
  <2>3. link' = "up" => link = "up"
    BY <2>1
  <2>. QED  BY <2>1, <2>2, <2>3, StillStep DEF clientVars, serverVars
<1>3. CASE afb_api_ws_add_client
  <2>1. /\ aws = "none" /\ UNCHANGED <<memos, cevents, down, serverVars>>
        /\ link' \in {"up", "lost"} /\ aws' \in {"open", "closed"}
    BY <1>3 DEF afb_api_ws_add_client
  <2>2. /\ down = <<>> /\ cevents = <<>>
        /\ \A n \in Names : watch[n] = 0 /\ \A c \in Clients : subs[c][n] = 0
    BY <2>1 DEF EventsInv, LinkInv
  <2>3. (SubsInv /\ MirrorInv)'
    BY <2>1, <2>2, EmptyMirrorNext DEF serverVars
  <2>4. LinkInv'
    BY <2>1, <2>2 DEF LinkInv, serverVars
  <2>. QED  BY <2>3, <2>4 DEF EventsInv
<1>4. CASE api_ws_server_accept
  <2>1. /\ client.st = "none" /\ UNCHANGED <<clientVars, down, watch, subs>>
        /\ client'.st # "none" /\ link # "none" /\ (link' = link \/ link' = "lost")
    BY <1>4 DEF api_ws_server_accept
  <2>2. /\ down = <<>> /\ cevents = <<>>
        /\ \A n \in Names : watch[n] = 0 /\ \A c \in Clients : subs[c][n] = 0
    BY <2>1 DEF EventsInv, LinkInv
  <2>3. (SubsInv /\ MirrorInv)'
    BY <2>1, <2>2, EmptyMirrorNext DEF clientVars
  <2>4. LinkInv'
    BY <2>1, <2>2 DEF EventsInv, LinkInv, clientVars
  <2>. QED  BY <2>3, <2>4 DEF EventsInv
<1>5. CASE Lose
  <2>1. PICK k \in 0..Len(down) : down' = SubSeq(down, 1, k)
    BY <1>5 DEF Lose
  <2>2. UNCHANGED <<clientVars, serverVars>> /\ link' = "lost" /\ link = "up"
    BY <1>5 DEF Lose
  <2>3. down \in Seq(DownMessages)
    BY DEF IInv, MessagesInv
  <2>4. /\ DOMAIN down' = 1..k /\ DOMAIN down = 1..Len(down) /\ Len(down) \in Nat
        /\ \A i \in 1..k : down'[i] = down[i]
    BY <2>1, <2>3, PrefixFacts
  <2>5. DOMAIN down' \subseteq DOMAIN down /\ \A i \in DOMAIN down' : down'[i] = down[i]
    BY <2>4
  <2>6. SubsInv'
    BY <2>2, <2>5 DEF EventsInv, SubsInv, Pending, IsReply, clientVars
  <2>7. LinkInv'
    <3>1. client.st = "none" => down' = <<>>
      <4>1. down = <<>> => down' = <<>>
        BY <2>1
      <4>. QED  BY <4>1 DEF EventsInv, LinkInv
    <3>. QED  BY <2>2, <3>1 DEF EventsInv, LinkInv, clientVars, serverVars
  <2>8. MirrorInv'
    <3> SUFFICES ASSUME aws = "open", NEW n \in Names PROVE \E v : Mirror(n, v)'
      BY <2>2 DEF MirrorInv, clientVars
    <3>1. PICK v : Mirror(n, v)
      BY DEF EventsInv, MirrorInv
    <3>2. PICK q : q = SubSeq(down, 1, k)
      OBVIOUS
    <3>3. PICK w : Along(n, q, w) /\ w[1] = v[1]
      BY <2>3, <3>1, <3>2, AlongPrefix DEF Mirror
    <3>4. Along(n, q, w)'
      <4>1. \A i \in DOMAIN q, r \in Reqs : Pending(q[i].msgid, r)' => Pending(q[i].msgid, r)
        BY <2>2 DEF Pending, clientVars
      <4>. QED  BY <3>3, <4>1, AlongKept
    <3>5. Along(n, down, w)'
      BY <2>1, <3>2, <3>4 DEF Along
    <3>6. Knows(n, w[1], cevents')
      BY <2>2, <3>1, <3>3 DEF Mirror, Knows, clientVars
    <3>7. Mirror(n, w)'
      BY <2>2, <3>5, <3>6 DEF Mirror
    <3>. QED  BY <3>7
  <2>. QED  BY <2>6, <2>7, <2>8 DEF EventsInv
<1>. QED  BY <1>1, <1>2, <1>3, <1>4, <1>5 DEF Setup

-----------------------------------------------------------------------------
(* The client reads.                                                       *)

(* The head of the queue is read: the view after it is the one of the      *)
(* client.                                                                 *)
LEMMA ReadMirror ==
    ASSUME IInv, EventsInv, NEW op, Receive(op),
           \A id : \A r \in Reqs : Pending(id, r)' => Pending(id, r),
           \A n \in Names : \A v, w \in Views :
             Knows(n, v, cevents) /\ Reads(n, v, Head(down), w) => Knows(n, w, cevents')
    PROVE  MirrorInv' /\ LinkInv'
<1>1. /\ aws = "open" /\ down # <<>> /\ down' = Tail(down)
      /\ UNCHANGED <<link, aws, client, event, watch, subs>>
  BY DEF Receive, serverVars
<1>2. /\ down \in Seq(DownMessages) /\ DOMAIN down = 1..Len(down) /\ Len(down) \in Nat \ {0}
      /\ 1 \in DOMAIN down /\ Head(down) = down[1]
      /\ DOMAIN Tail(down) = 1..Len(down) - 1
      /\ \A i \in 1..Len(down) - 1 : Tail(down)[i] = down[i + 1]
  BY <1>1, TailFacts DEF IInv, MessagesInv
<1>3. LinkInv'
  BY <1>1 DEF EventsInv, LinkInv
<1>4. ASSUME NEW n \in Names PROVE \E w : Mirror(n, w)'
  <2>1. PICK v : Mirror(n, v)
    BY <1>1 DEF EventsInv, MirrorInv
  <2>2. PICK q : q = Tail(down)
    OBVIOUS
  <2>3. PICK w : Along(n, q, w) /\ w[1] = v[2] /\ w[Len(q) + 1] = v[Len(down) + 1]
    BY <1>1, <1>2, <2>1, <2>2, AlongTail DEF Mirror
  <2>4. Along(n, q, w)'
    <3>1. ASSUME NEW i \in DOMAIN q, NEW r \in Reqs, Pending(q[i].msgid, r)'
          PROVE  Pending(q[i].msgid, r)
      <4>1. i + 1 \in DOMAIN down /\ q[i] = down[i + 1]
        BY <1>2, <2>2
      <4>. QED  BY <3>1, <4>1
    <3>. QED  BY <2>3, <3>1, AlongKept
  <2>5. v[1] \in Views /\ v[2] \in Views /\ Reads(n, v[1], Head(down), v[2])
    <3>1. v \in [1..Len(down) + 1 -> Views] /\ Reads(n, v[1], down[1], v[1 + 1])
      BY <1>2, <2>1 DEF Mirror, Along
    <3>2. 1 \in 1..Len(down) + 1 /\ 2 \in 1..Len(down) + 1 /\ 1 + 1 = 2
      BY <1>2
    <3>. QED  BY <1>2, <3>1, <3>2
  <2>6. Knows(n, w[1], cevents')
    <3>1. Knows(n, v[1], cevents)
      BY <2>1 DEF Mirror
    <3>2. Knows(n, v[2], cevents')
      BY <2>5, <3>1
    <3>. QED  BY <2>3, <3>2
  <2>7. client.open' /\ link' = "up" => w[Len(down') + 1] = Served(n)'
    BY <1>1, <2>1, <2>2, <2>3 DEF Mirror, Served
  <2>8. Along(n, down, w)'
    BY <1>1, <2>2, <2>4 DEF Along
  <2>9. Mirror(n, w)'
    BY <2>6, <2>7, <2>8 DEF Mirror
  <2>. QED  BY <2>9
<1>. QED  BY <1>3, <1>4 DEF MirrorInv

(* The subscriptions that follow still find their memo.                    *)
LEMMA ReadSubs ==
    ASSUME IInv, EventsInv, NEW op, Receive(op),
           \A id : \A r \in Reqs :
             Pending(id, r) => Pending(id, r)' \/ (IsReply(Head(down)) /\ Head(down).of = r)
    PROVE  SubsInv'
<1>1. down # <<>> /\ down' = Tail(down)
  BY DEF Receive
<1>2. /\ DOMAIN down = 1..Len(down) /\ Len(down) \in Nat \ {0} /\ Head(down) = down[1]
      /\ DOMAIN down' = 1..Len(down) - 1 /\ 1 \in DOMAIN down
      /\ \A i \in 1..Len(down) - 1 : down'[i] = down[i + 1]
  BY <1>1, TailFacts DEF IInv, MessagesInv
<1> SUFFICES ASSUME NEW i \in DOMAIN down', down'[i].op \in {"S", "U"}
             PROVE  \E r \in Reqs :
                      /\ Pending(down[i].msgid, r)'
                      /\ \A k \in DOMAIN down' : k < i /\ IsReply(down'[k]) => down'[k].of # r
  BY DEF SubsInv, IsReply
<1>3. i + 1 \in DOMAIN down /\ down'[i] = down[i + 1] /\ 1 < i + 1 /\ i \in Int
  BY <1>2
<1>4. PICK r \in Reqs : /\ Pending(down[i + 1].msgid, r)
                        /\ \A k \in DOMAIN down : k < i + 1 /\ IsReply(down[k]) => down[k].of # r
  BY <1>3 DEF EventsInv, SubsInv
<1>5. PICK id : id = down[i + 1].msgid
  OBVIOUS
<1>6. Pending(id, r)'
  BY <1>2, <1>3, <1>4, <1>5
<1>7. ASSUME NEW k \in DOMAIN down', k < i, IsReply(down'[k]) PROVE down'[k].of # r
  <2>1. k + 1 \in DOMAIN down /\ down'[k] = down[k + 1] /\ k + 1 < i + 1
    BY <1>2, <1>3, <1>7
  <2>. QED  BY <1>4, <1>7, <2>1
<1>8. Pending(down[i].msgid, r)'
  <2>1. down'[i].msgid = id
    BY <1>3, <1>5
  <2>. QED  BY <1>6, <2>1 DEF Pending
<1>. QED  BY <1>7, <1>8

(* A message about an event, while the memos stay.                         *)
LEMMA EventReadMirror ==
    ASSUME IInv, EventsInv, NEW op, Receive(op), UNCHANGED memos,
           \A n \in Names : \A v, w \in Views :
             Knows(n, v, cevents) /\ Reads(n, v, Head(down), w) => Knows(n, w, cevents')
    PROVE  EventsInv'
<1>1. \A id : \A r \in Reqs : Pending(id, r)' <=> Pending(id, r)
  BY DEF Pending
<1>2. MirrorInv' /\ LinkInv'
  BY <1>1, ReadMirror
<1>3. SubsInv'
  BY <1>1, ReadSubs
<1>. QED  BY <1>2, <1>3 DEF EventsInv

LEMMA EventOfPlace ==
    ASSUME IInv, NEW n \in Names, NEW v \in Views, Knows(n, v, cevents)
    PROVE  /\ v.id = 0 => \A id : EventOf(id, n) = 0
           /\ v.id # 0 => /\ EventOf(v.id, n) \in DOMAIN cevents
                          /\ cevents[EventOf(v.id, n)] =
                               [id |-> v.id, name |-> n, refcount |-> 1, watch |-> v.subs]
                          /\ \A k \in DOMAIN cevents :
                               cevents[k].name = n => k = EventOf(v.id, n)
<1>0. cevents \in Seq(KnownEvents)
  BY DEF IInv, TypeOK, KnownEvents
<1>1. ASSUME NEW id
      PROVE  /\ EventOf(id, n) # 0 => /\ EventOf(id, n) \in DOMAIN cevents
                                      /\ cevents[EventOf(id, n)].name = n
             /\ EventOf(id, n) = 0 => \A i \in DOMAIN cevents :
                                        ~(cevents[i].id = id /\ cevents[i].name = n)
  BY <1>0, EventOfFacts
<1>2. ASSUME v.id = 0, NEW id PROVE EventOf(id, n) = 0
  BY <1>1, <1>2 DEF Knows
<1>3. ASSUME v.id # 0
      PROVE  /\ EventOf(v.id, n) \in DOMAIN cevents
             /\ cevents[EventOf(v.id, n)] =
                  [id |-> v.id, name |-> n, refcount |-> 1, watch |-> v.subs]
             /\ \A k \in DOMAIN cevents : cevents[k].name = n => k = EventOf(v.id, n)
  <2>1. PICK i \in DOMAIN cevents :
           /\ cevents[i] = [id |-> v.id, name |-> n, refcount |-> 1, watch |-> v.subs]
           /\ \A k \in DOMAIN cevents : cevents[k].name = n => k = i
    BY <1>3 DEF Knows
  <2>2. cevents[i].id = v.id /\ cevents[i].name = n
    BY <2>1
  <2>3. EventOf(v.id, n) # 0
    BY <1>1, <2>2
  <2>4. EventOf(v.id, n) = i
    BY <1>1, <2>1, <2>3
  <2>. QED  BY <2>1, <2>4
<1>. QED  BY <1>2, <1>3

LEMMA CreateMirror == ASSUME IInv, EventsInv, api_ws_client_event_create PROVE EventsInv'
<1>1. Receive("+") /\ UNCHANGED memos
  BY DEF api_ws_client_event_create
<1>2. PICK m, s : m = Head(down) /\ s = cevents
  OBVIOUS
<1>3. PICK i : i = EventOf(m.id, m.name)
  OBVIOUS
<1>4. /\ m \in DownMessages /\ m.op = "+" /\ s \in Seq(KnownEvents)
      /\ \A k \in DOMAIN s : s[k] \in KnownEvents
  BY <1>1, <1>2, HeadFacts
<1>5. m.id \in 1..MaxEventId /\ m.name \in Names
  BY <1>4, MessageFacts
<1>6. cevents' = IF i # 0 THEN [s EXCEPT ![i].refcount = @ + 1]
                 ELSE <<[id |-> m.id, name |-> m.name, refcount |-> 1, watch |-> NoWatch]>> \o s
  BY <1>2, <1>3 DEF api_ws_client_event_create
<1>7. ASSUME NEW n \in Names, NEW v \in Views, NEW w \in Views,
             Knows(n, v, s), Reads(n, v, m, w)
      PROVE  Knows(n, w, cevents')
  <2>1. CASE m.name = n
    <3>1. v.id = 0 /\ w = [id |-> m.id, subs |-> NoWatch]
      BY <1>4, <1>7, <2>1 DEF Reads, About
    <3>2. i = 0
      BY <1>2, <1>3, <1>7, <2>1, <3>1, EventOfPlace
    <3>3. cevents' = <<[id |-> m.id, name |-> m.name, refcount |-> 1, watch |-> NoWatch]>> \o s
      BY <1>6, <3>2
    <3>4. [id |-> m.id, name |-> n, refcount |-> 1, watch |-> NoWatch] \in KnownEvents
      BY <1>5, <2>1 DEF KnownEvents, NoWatch
    <3>5. m.id # 0
      BY <1>5
    <3>. QED  BY <1>4, <1>7, <2>1, <3>1, <3>3, <3>4, <3>5, KnowsNew
  <2>2. CASE m.name # n
    <3>1. w = v
      BY <1>7, <2>2 DEF Reads, About
    <3>2. CASE i = 0
      <4>1. PICK e : e = [id |-> m.id, name |-> m.name, refcount |-> 1, watch |-> NoWatch]
        OBVIOUS
      <4>2. e \in KnownEvents /\ e.name # n
        BY <1>5, <2>2, <4>1 DEF KnownEvents, NoWatch
      <4>3. cevents' = <<e>> \o s
        BY <1>6, <3>2, <4>1
      <4>. QED  BY <1>4, <1>7, <3>1, <4>2, <4>3, KnowsAfterAdd
    <3>3. CASE i # 0
      <4>1. i \in DOMAIN s /\ s[i].name # n
        BY <1>2, <1>3, <1>4, <2>2, <3>3, EventOfFacts
      <4>2. PICK e : e = [s[i] EXCEPT !.refcount = s[i].refcount + 1]
        OBVIOUS
      <4>3. s[i].refcount + 1 \in Nat \ {0}
        BY <1>4, <4>1, KnownFacts
      <4>4. e \in KnownEvents /\ e.name # n
        BY <1>4, <4>1, <4>2, <4>3, KnownFacts DEF KnownEvents
      <4>5. cevents' = [s EXCEPT ![i] = e]
        BY <1>6, <3>3, <4>2
      <4>. QED  BY <1>4, <1>7, <3>1, <4>1, <4>4, <4>5, KnowsAfterUpdate
    <3>. QED  BY <3>2, <3>3
  <2>. QED  BY <2>1, <2>2
<1>. QED  BY <1>1, <1>2, <1>7, EventReadMirror

LEMMA DropMirror == ASSUME IInv, EventsInv, api_ws_client_event_drop PROVE EventsInv'
<1>1. Receive("-") /\ UNCHANGED memos
  BY DEF api_ws_client_event_drop
<1>2. PICK m, s : m = Head(down) /\ s = cevents
  OBVIOUS
<1>3. PICK i : i = EventOf(m.id, m.name)
  OBVIOUS
<1>4. /\ m \in DownMessages /\ m.op = "-" /\ s \in Seq(KnownEvents)
      /\ \A k \in DOMAIN s : s[k] \in KnownEvents
  BY <1>1, <1>2, HeadFacts
<1>5. m.id \in 1..MaxEventId /\ m.name \in Names
  BY <1>4, MessageFacts
<1>6. cevents' = IF i = 0 THEN s ELSE IF s[i].refcount > 1 THEN [s EXCEPT ![i].refcount = @ - 1]
                 ELSE RemoveAt(s, i)
  BY <1>2, <1>3 DEF api_ws_client_event_drop
<1>7. ASSUME NEW n \in Names, NEW v \in Views, NEW w \in Views,
             Knows(n, v, s), Reads(n, v, m, w)
      PROVE  Knows(n, w, cevents')
  <2>1. CASE m.name = n
    <3>1. v.id = m.id /\ w = [id |-> 0, subs |-> NoWatch] /\ v.id # 0
      BY <1>4, <1>5, <1>7, <2>1 DEF Reads, About
    <3>2. /\ i \in DOMAIN s /\ s[i] = [id |-> v.id, name |-> n, refcount |-> 1, watch |-> v.subs]
          /\ \A k \in DOMAIN s : s[k].name = n => k = i
      BY <1>2, <1>3, <1>7, <2>1, <3>1, EventOfPlace
    <3>3. i # 0 /\ ~(s[i].refcount > 1)
      BY <1>4, <3>2, LenProperties
    <3>4. cevents' = RemoveAt(s, i)
      BY <1>6, <3>3
    <3>5. w.id = 0
      BY <3>1
    <3>. QED  BY <1>4, <3>2, <3>4, <3>5, KnowsGone
  <2>2. CASE m.name # n
    <3>1. w = v
      BY <1>7, <2>2 DEF Reads, About
    <3>2. CASE i = 0
      BY <1>6, <1>7, <3>1, <3>2
    <3>3. CASE i # 0
      <4>1. i \in DOMAIN s /\ s[i].name # n
        BY <1>2, <1>3, <1>4, <2>2, <3>3, EventOfFacts
      <4>2. CASE s[i].refcount > 1
        <5>1. PICK e : e = [s[i] EXCEPT !.refcount = s[i].refcount - 1]
          OBVIOUS
        <5>2. s[i].refcount - 1 \in Nat \ {0}
          BY <1>4, <4>1, <4>2, KnownFacts
        <5>3. e \in KnownEvents /\ e.name # n
          BY <1>4, <4>1, <5>1, <5>2, KnownFacts DEF KnownEvents
        <5>4. cevents' = [s EXCEPT ![i] = e]
          BY <1>6, <3>3, <4>2, <5>1
        <5>. QED  BY <1>4, <1>7, <3>1, <4>1, <5>3, <5>4, KnowsAfterUpdate
      <4>3. CASE ~(s[i].refcount > 1)
        <5>1. cevents' = RemoveAt(s, i)
          BY <1>6, <3>3, <4>3
        <5>. QED  BY <1>4, <1>7, <3>1, <4>1, <5>1, KnowsAfterRemove
      <4>. QED  BY <4>2, <4>3
    <3>. QED  BY <3>2, <3>3
  <2>. QED  BY <2>1, <2>2
<1>. QED  BY <1>1, <1>2, <1>7, EventReadMirror

LEMMA PushReadMirror == ASSUME IInv, EventsInv, api_ws_client_event_push PROVE EventsInv'
<1>1. PICK op \in {"!", "*"} : Receive(op)
  BY DEF api_ws_client_event_push
<1>2. UNCHANGED <<cevents, memos>>
  BY DEF api_ws_client_event_push
<1>3. ASSUME NEW n \in Names, NEW v \in Views, NEW w \in Views,
             Knows(n, v, cevents), Reads(n, v, Head(down), w)
      PROVE  Knows(n, w, cevents')
  <2>1. Head(down).op = op
    BY <1>1 DEF Receive
  <2>2. w = v
    BY <1>3, <2>1 DEF Reads, About
  <2>. QED  BY <1>2, <1>3, <2>2
<1>. QED  BY <1>1, <1>2, <1>3, EventReadMirror

(* The subscription that is read names a call that waits.                  *)
LEMMA SubscriberFacts ==
    ASSUME IInv, EventsInv, NEW op \in {"S", "U"}, Receive(op)
    PROVE  \E r \in Reqs : /\ Pending(Head(down).msgid, r) /\ MemoOf(Head(down).msgid) # 0
                           /\ Subscriber(Head(down)) = Owner[r]
<1>1. PICK m : m = Head(down)
  OBVIOUS
<1>2. 1 \in DOMAIN down /\ m = down[1] /\ m.op = op
  BY <1>1, HeadFacts
<1>3. PICK r \in Reqs : Pending(m.msgid, r)
  BY <1>2 DEF EventsInv, SubsInv
<1>4. PICK k \in DOMAIN memos : memos[k].msgid = m.msgid /\ memos[k].req = r
  BY <1>3 DEF Pending
<1>5. memos \in Seq([msgid : 0..IdMod - 1, req : Reqs])
  BY DEF IInv, TypeOK
<1>6. MemoOf(m.msgid) \in DOMAIN memos /\ memos[MemoOf(m.msgid)].msgid = m.msgid /\ MemoOf(m.msgid) # 0
  BY <1>4, <1>5, MemoOfFacts
<1>7. MemoOf(m.msgid) = k
  BY <1>4, <1>6 DEF IInv, MemosInv
<1>. QED  BY <1>1, <1>3, <1>4, <1>6, <1>7 DEF Subscriber

LEMMA SubscriptionMirror ==
    ASSUME IInv, IInv', EventsInv, api_ws_client_event_subscribe \/ api_ws_client_event_unsubscribe
    PROVE  EventsInv'
<1>1. PICK op \in {"S", "U"} : /\ Receive(op)
                               /\ op = "S" => api_ws_client_event_subscribe
                               /\ op = "U" => api_ws_client_event_unsubscribe
  BY DEF api_ws_client_event_subscribe, api_ws_client_event_unsubscribe
<1>2. PICK m, s : m = Head(down) /\ s = cevents
  OBVIOUS
<1>3. PICK i : i = EventOf(m.id, m.name)
  OBVIOUS
<1>4. /\ m \in DownMessages /\ m.op = op /\ s \in Seq(KnownEvents)
      /\ \A k \in DOMAIN s : s[k] \in KnownEvents
  BY <1>1, <1>2, HeadFacts
<1>5. m.id \in 1..MaxEventId /\ m.name \in Names
  BY <1>4, MessageFacts
<1>6. PICK r \in Reqs : Pending(m.msgid, r) /\ MemoOf(m.msgid) # 0 /\ Subscriber(m) = Owner[r]
  BY <1>1, <1>2, SubscriberFacts
<1>7. PICK c \in Clients : c = Owner[r]
  BY OwnerAssumption
<1>8. /\ i = 0 => cevents' = s
      /\ i # 0 /\ op = "S" => cevents' = [s EXCEPT ![i].watch[c] = @ + 1]
      /\ i # 0 /\ op = "U" => cevents' = [s EXCEPT ![i].watch[c] = IF @ > 0 THEN @ - 1 ELSE 0]
  BY <1>1, <1>2, <1>3, <1>6, <1>7
     DEF api_ws_client_event_subscribe, api_ws_client_event_unsubscribe, Subscription
<1>9. UNCHANGED memos
  BY DEF api_ws_client_event_subscribe, api_ws_client_event_unsubscribe
<1>10. ASSUME NEW n \in Names, NEW v \in Views, NEW w \in Views,
              Knows(n, v, s), Reads(n, v, m, w)
       PROVE  Knows(n, w, cevents')
  <2>1. CASE m.name = n
    <3>1. v.id = m.id /\ v.id # 0
      BY <1>4, <1>5, <1>10, <2>1 DEF Reads, About
    <3>2. /\ i \in DOMAIN s /\ s[i] = [id |-> v.id, name |-> n, refcount |-> 1, watch |-> v.subs]
          /\ \A k \in DOMAIN s : s[k].name = n => k = i
      BY <1>2, <1>3, <1>10, <2>1, <3>1, EventOfPlace
    <3>3. i # 0
      BY <1>4, <3>2, LenProperties
    <3>4. PICK d : d = v.subs
      OBVIOUS
    <3>5. d \in [Clients -> Nat] /\ d[c] \in Nat /\ s[i].watch = d
      BY <3>2, <3>4 DEF Views
    <3>6. PICK f : /\ w = [id |-> v.id, subs |-> f]
                   /\ cevents' = [s EXCEPT ![i].watch = f]
      <4>1. CASE op = "S"
        <5>1. w = [id |-> v.id, subs |-> [d EXCEPT ![c] = @ + 1]]
          BY <1>4, <1>6, <1>7, <1>10, <2>1, <3>4, <4>1 DEF Reads, About
        <5>2. cevents' = [s EXCEPT ![i].watch[c] = @ + 1]
          BY <1>8, <3>3, <4>1
        <5>3. cevents' = [s EXCEPT ![i].watch = [d EXCEPT ![c] = @ + 1]]
          BY <3>5, <5>2
        <5>. QED  BY <5>1, <5>3
      <4>2. CASE op = "U"
        <5>1. d[c] > 0 /\ w = [id |-> v.id, subs |-> [d EXCEPT ![c] = @ - 1]]
          BY <1>4, <1>6, <1>7, <1>10, <2>1, <3>4, <4>2 DEF Reads, About
        <5>2. cevents' = [s EXCEPT ![i].watch[c] = IF @ > 0 THEN @ - 1 ELSE 0]
          BY <1>8, <3>3, <4>2
        <5>3. cevents' = [s EXCEPT ![i].watch = [d EXCEPT ![c] = @ - 1]]
          BY <3>5, <5>1, <5>2
        <5>. QED  BY <5>1, <5>3
      <4>. QED  BY <4>1, <4>2
    <3>7. PICK e : e = [s[i] EXCEPT !.watch = f]
      OBVIOUS
    <3>8. cevents' = [s EXCEPT ![i] = e]
      BY <3>6, <3>7
    <3>9. w.id # 0 /\ e = [id |-> w.id, name |-> n, refcount |-> 1, watch |-> w.subs] /\ e.name = n
      BY <3>1, <3>2, <3>6, <3>7
    <3>. QED  BY <1>4, <3>2, <3>8, <3>9, KnowsChanged
  <2>2. CASE m.name # n
    <3>1. w = v
      BY <1>10, <2>2 DEF Reads, About
    <3>2. CASE i = 0
      BY <1>8, <1>10, <3>1, <3>2
    <3>3. CASE i # 0
      <4>1. i \in DOMAIN s /\ s[i].name # n
        BY <1>2, <1>3, <1>4, <2>2, <3>3, EventOfFacts
      <4>2. PICK f : cevents' = [s EXCEPT ![i].watch = f]
        BY <1>4, <1>8, <3>3
      <4>3. PICK e : e = [s[i] EXCEPT !.watch = f]
        OBVIOUS
      <4>4. cevents' = [s EXCEPT ![i] = e]
        BY <4>2, <4>3
      <4>5. e \in KnownEvents
        <5>1. cevents' \in Seq(KnownEvents)
          BY DEF IInv, TypeOK, KnownEvents
        <5>2. i \in DOMAIN cevents' /\ cevents'[i] = e
          BY <4>1, <4>4
        <5>. QED  BY <5>1, <5>2, ElementOfSeq, LenProperties
      <4>6. e.name # n
        BY <1>4, <4>1, <4>3 DEF KnownEvents
      <4>. QED  BY <1>4, <1>10, <3>1, <4>1, <4>4, <4>5, <4>6, KnowsAfterUpdate
    <3>. QED  BY <3>2, <3>3
  <2>. QED  BY <2>1, <2>2
<1>. QED  BY <1>1, <1>2, <1>9, <1>10, EventReadMirror

LEMMA ReplyMirror == ASSUME IInv, EventsInv, api_ws_client_reply PROVE EventsInv'
<1>1. Receive("reply") /\ UNCHANGED cevents
  BY DEF api_ws_client_reply
<1>2. PICK m, i : m = Head(down) /\ i = MemoOf(m.msgid)
  OBVIOUS
<1>3. (i # 0 /\ memos' = RemoveAt(memos, i)) \/ (i = 0 /\ memos' = memos)
  BY <1>2 DEF api_ws_client_reply
<1>4. PICK s, N : s = memos /\ N = Len(memos)
  OBVIOUS
<1>5. s \in Seq([msgid : 0..IdMod - 1, req : Reqs]) /\ DOMAIN s = 1..N /\ N \in Nat
  BY <1>4, LenProperties DEF IInv, TypeOK
<1>6. m = down[1] /\ 1 \in DOMAIN down /\ m.op = "reply"
  BY <1>1, <1>2, HeadFacts
<1>7. Pending(m.msgid, m.of)
  BY <1>6 DEF IInv, DownInv, IsReply
<1>8. i \in DOMAIN s /\ s[i].msgid = m.msgid /\ s[i].req = m.of /\ i # 0
  <2>1. PICK k \in DOMAIN s : s[k].msgid = m.msgid /\ s[k].req = m.of
    BY <1>4, <1>7 DEF Pending
  <2>2. i \in DOMAIN s /\ s[i].msgid = m.msgid /\ i # 0
    BY <1>2, <1>4, <1>5, <2>1, MemoOfFacts
  <2>3. i = k
    BY <1>4, <2>1, <2>2 DEF IInv, MemosInv
  <2>. QED  BY <2>1, <2>2, <2>3
<1>9. memos' = RemoveAt(s, i)
  BY <1>3, <1>4, <1>8
<1>10. /\ DOMAIN memos' = 1..N - 1
       /\ \A k \in 1..N - 1 : memos'[k] = IF k < i THEN s[k] ELSE s[k + 1]
  <2>1. i \in 1..Len(s) /\ N = Len(s)
    BY <1>4, <1>5, <1>8
  <2>2. /\ DOMAIN RemoveAt(s, i) = 1..Len(s) - 1
        /\ \A k \in 1..Len(s) - 1 : RemoveAt(s, i)[k] = IF k < i THEN s[k] ELSE s[k + 1]
    BY <1>5, <2>1, RemoveFacts
  <2>. QED  BY ONLY <1>9, <2>1, <2>2
<1>11. ASSUME NEW id, NEW r \in Reqs, Pending(id, r)' PROVE Pending(id, r)
  <2>1. PICK k \in DOMAIN memos' : memos'[k].msgid = id /\ memos'[k].req = r
    BY <1>11 DEF Pending
  <2>2. k \in DOMAIN s /\ k + 1 \in DOMAIN s
    BY <1>5, <1>10
  <2>3. memos'[k] = s[k] \/ memos'[k] = s[k + 1]
    BY <1>10
  <2>. QED  BY <1>4, <2>1, <2>2, <2>3 DEF Pending
<1>12. ASSUME NEW id, NEW r \in Reqs, Pending(id, r), m.of # r PROVE Pending(id, r)'
  <2>1. PICK k \in DOMAIN s : s[k].msgid = id /\ s[k].req = r
    BY <1>4, <1>12 DEF Pending
  <2>2. k # i /\ k \in 1..N /\ i \in 1..N
    BY <1>5, <1>8, <1>12, <2>1
  <2>3. CASE k < i
    <3>1. k \in DOMAIN memos' /\ memos'[k] = s[k]
      BY <1>5, <1>10, <2>2, <2>3
    <3>. QED  BY <2>1, <3>1 DEF Pending
  <2>4. CASE k > i
    <3>1. k - 1 \in 1..N - 1 /\ ~(k - 1 < i) /\ (k - 1) + 1 = k
      BY <1>5, <2>2, <2>4
    <3>2. k - 1 \in DOMAIN memos' /\ memos'[k - 1] = s[k]
      BY <1>10, <3>1
    <3>. QED  BY <2>1, <3>2 DEF Pending
  <2>. QED  BY <1>5, <2>2, <2>3, <2>4
<1>13. ASSUME NEW n \in Names, NEW v \in Views, NEW w \in Views,
              Knows(n, v, cevents), Reads(n, v, m, w)
       PROVE  Knows(n, w, cevents')
  <2>1. w = v
    BY <1>6, <1>13 DEF Reads, About
  <2>. QED  BY <1>1, <1>13, <2>1
<1>14. MirrorInv' /\ LinkInv'
  BY <1>1, <1>2, <1>11, <1>13, ReadMirror
<1>15. SubsInv'
  <2>1. IsReply(m)
    BY <1>6 DEF IsReply
  <2>. QED  BY <1>1, <1>2, <1>12, <2>1, ReadSubs
<1>. QED  BY <1>14, <1>15 DEF EventsInv

LEMMA ClientHangupMirror == ASSUME IInv, EventsInv, ClientHangup PROVE EventsInv'
<1>1. /\ aws = "open" /\ aws' = "closed" /\ link' = "lost" /\ down' = <<>>
      /\ UNCHANGED <<cevents, serverVars>>
  BY DEF ClientHangup
<1>2. SubsInv' /\ MirrorInv'
  BY <1>1 DEF SubsInv, MirrorInv
<1>3. LinkInv'
  BY <1>1 DEF EventsInv, LinkInv, serverVars
<1>. QED  BY <1>2, <1>3 DEF EventsInv

LEMMA CallFailedMirror == ASSUME IInv, EventsInv, api_ws_client_call_failed PROVE EventsInv'
<1>1. UNCHANGED <<link, aws, memos, cevents, down, serverVars>>
  BY DEF api_ws_client_call_failed
<1>2. LinkInv'
  BY <1>1 DEF EventsInv, LinkInv, serverVars
<1>. QED  BY <1>1, <1>2, StillStep DEF serverVars

LEMMA CallSentMirror ==
    ASSUME IInv, EventsInv, NEW r \in Reqs, api_ws_client_call_sent(r)
    PROVE  EventsInv'
<1>1. /\ UNCHANGED <<link, aws, cevents, down, serverVars>>
      /\ memos' = <<[msgid |-> NextMsgId, req |-> r]>> \o memos
  BY DEF api_ws_client_call_sent, memo_make
<1>2. PICK e, s, N : e = [msgid |-> NextMsgId, req |-> r] /\ s = memos /\ N = Len(memos)
  OBVIOUS
<1>3. s \in Seq([msgid : MsgIds, req : Reqs])
  BY <1>2 DEF IInv, TypeOK, MsgIds
<1>4. NextMsgId \in MsgIds /\ \A i \in DOMAIN s : s[i].msgid # NextMsgId
  BY <1>2, MsgIdFacts DEF IInv
<1>5. e \in [msgid : MsgIds, req : Reqs] /\ e.msgid = NextMsgId
  BY <1>2, <1>4
<1>6. /\ DOMAIN memos' = 1..N + 1 /\ DOMAIN s = 1..N /\ N \in Nat
      /\ memos'[1] = e /\ \A i \in 1..N : memos'[i + 1] = s[i]
  BY <1>1, <1>2, <1>3, <1>5, ConsFacts
<1>7. ASSUME NEW id, NEW q \in Reqs, Pending(id, q) PROVE Pending(id, q)'
  <2>1. PICK k \in DOMAIN s : s[k].msgid = id /\ s[k].req = q
    BY <1>2, <1>7 DEF Pending
  <2>2. k + 1 \in DOMAIN memos' /\ memos'[k + 1] = s[k]
    BY <1>6
  <2>. QED  BY <2>1, <2>2 DEF Pending
<1>8. ASSUME NEW id, NEW q \in Reqs, Pending(id, q)', id # NextMsgId PROVE Pending(id, q)
  <2>1. PICK k \in DOMAIN memos' : memos'[k].msgid = id /\ memos'[k].req = q
    BY <1>8 DEF Pending
  <2>2. k # 1
    BY <1>5, <1>6, <1>8, <2>1
  <2>3. k - 1 \in 1..N /\ (k - 1) + 1 = k
    BY <1>6, <2>2
  <2>4. k - 1 \in DOMAIN s /\ memos'[k] = s[k - 1]
    BY <1>6, <2>3
  <2>. QED  BY <1>2, <2>1, <2>4 DEF Pending
<1>9. ASSUME NEW i \in DOMAIN down, down[i].op \in {"S", "U"} PROVE down[i].msgid # NextMsgId
  <2>1. PICK q \in Reqs : Pending(down[i].msgid, q)
    BY <1>9 DEF EventsInv, SubsInv
  <2>. QED  BY <1>2, <1>4, <2>1 DEF Pending
<1>10. ASSUME NEW i \in DOMAIN down, NEW q \in Reqs, down[i].op \in {"S", "U"}
       PROVE  Pending(down[i].msgid, q)' <=> Pending(down[i].msgid, q)
  <2>1. PICK id : id = down[i].msgid /\ id = down'[i].msgid
    BY <1>1
  <2>2. Pending(id, q)' <=> Pending(id, q)
    BY <1>7, <1>8, <1>9, <1>10, <2>1
  <2>. QED  BY <2>1, <2>2 DEF Pending
<1>11. SubsInv'
  BY <1>1, <1>10, SubsKept DEF EventsInv
<1>12. MirrorInv'
  BY <1>1, <1>10, MirrorKept DEF EventsInv, serverVars, Served
<1>13. LinkInv'
  BY <1>1 DEF EventsInv, LinkInv, serverVars
<1>. QED  BY <1>11, <1>12, <1>13 DEF EventsInv

-----------------------------------------------------------------------------
(* The server sends.                                                       *)

(* The messages sent lead from what the server had to what it has now.     *)
LEMMA SendMirror ==
    ASSUME IInv, EventsInv, NEW ms \in Seq(DownMessages), Send(ms),
           UNCHANGED <<aws, memos, cevents, client, link>>,
           \A n \in Names : \E u : /\ Along(n, ms, u) /\ u[1] = Served(n)
                                   /\ u[Len(ms) + 1] = Served(n)'
    PROVE  MirrorInv'
<1> SUFFICES ASSUME aws = "open", NEW n \in Names PROVE \E v : Mirror(n, v)'
  BY DEF MirrorInv
<1>1. PICK v : Mirror(n, v)
  BY DEF EventsInv, MirrorInv
<1>2. \A q, w : Along(n, q, w) => Along(n, q, w)'
  <2>1. \A id : \A r \in Reqs : Pending(id, r)' <=> Pending(id, r)
    BY DEF Pending
  <2>. QED  BY <2>1, AlongKept
<1>3. CASE client.open /\ link = "up"
  <2>1. PICK u : Along(n, ms, u) /\ u[1] = Served(n) /\ u[Len(ms) + 1] = Served(n)'
    OBVIOUS
  <2>2. down \in Seq(DownMessages)
    BY DEF IInv, MessagesInv
  <2>3. PICK w : /\ Along(n, down \o ms, w) /\ w[1] = v[1]
                 /\ w[Len(down \o ms) + 1] = u[Len(ms) + 1]
    BY <1>1, <1>3, <2>1, <2>2, AlongConcat DEF Mirror
  <2>4. PICK q : q = down \o ms
    OBVIOUS
  <2>5. down' = q
    BY <1>3, <2>4 DEF Send
  <2>6. Along(n, q, w)'
    BY <1>2, <2>3, <2>4
  <2>7. Along(n, down, w)'
    BY <2>5, <2>6 DEF Along
  <2>8. Knows(n, w[1], cevents')
    BY <1>1, <2>3 DEF Mirror
  <2>9. w[Len(down') + 1] = Served(n)'
    BY <2>1, <2>3, <2>4, <2>5
  <2>10. Mirror(n, w)'
    BY <2>7, <2>8, <2>9 DEF Mirror
  <2>. QED  BY <2>10
<1>4. CASE ~(client.open /\ link = "up")
  <2>1. PICK q : q = down
    OBVIOUS
  <2>2. down' = q
    BY <1>4, <2>1 DEF Send
  <2>3. Along(n, q, v)'
    BY <1>1, <1>2, <2>1 DEF Mirror
  <2>4. Along(n, down, v)'
    BY <2>2, <2>3 DEF Along
  <2>5. Mirror(n, v)'
    BY <1>1, <1>4, <2>4 DEF Mirror
  <2>. QED  BY <2>5
<1>. QED  BY <1>3, <1>4

(* Subscriptions are sent while their request is served.                   *)
LEMMA SendSubs ==
    ASSUME IInv, EventsInv, NEW ms \in Seq(DownMessages), Send(ms), UNCHANGED memos,
           \A k \in DOMAIN ms : ms[k].op \in {"S", "U"} =>
             \E r \in Reqs : wreq[r].st = "running" /\ ms[k].msgid = wreq[r].msgid,
           \A k \in DOMAIN ms : IsReply(ms[k]) => ms = <<ms[k]>>
    PROVE  SubsInv'
<1>1. /\ DOMAIN down = 1..Len(down) /\ Len(down) \in Nat
      /\ \A i \in DOMAIN down : i \in DOMAIN down' /\ down'[i] = down[i]
      /\ \A i \in DOMAIN down' :
           \/ i \in DOMAIN down
           \/ \E k \in DOMAIN ms : i = Len(down) + k /\ down'[i] = ms[k]
  BY SentFacts DEF IInv
<1>2. DOMAIN ms \subseteq Nat \ {0}
  BY LenProperties
<1>3. \A id : \A r \in Reqs : Pending(id, r)' <=> Pending(id, r)
  BY DEF Pending
<1> SUFFICES ASSUME NEW i \in DOMAIN down', down'[i].op \in {"S", "U"}
             PROVE  \E r \in Reqs :
                      /\ Pending(down[i].msgid, r)'
                      /\ \A k \in DOMAIN down' : k < i /\ IsReply(down'[k]) => down'[k].of # r
  BY DEF SubsInv, IsReply
<1>4. PICK id : id = down'[i].msgid
  OBVIOUS
<1>5. CASE i \in DOMAIN down
  <2>1. PICK r \in Reqs : /\ Pending(down[i].msgid, r)
                          /\ \A k \in DOMAIN down : k < i /\ IsReply(down[k]) => down[k].of # r
    BY <1>1, <1>5 DEF EventsInv, SubsInv
  <2>2. ASSUME NEW k \in DOMAIN down', k < i, IsReply(down'[k]) PROVE down'[k].of # r
    <3>1. k \in DOMAIN down
      <4>1. ASSUME NEW j \in DOMAIN ms, k = Len(down) + j PROVE FALSE
        BY <1>1, <1>2, <1>5, <2>2, <4>1
      <4>. QED  BY <1>1, <4>1
    <3>. QED  BY <1>1, <2>1, <2>2, <3>1
  <2>3. Pending(id, r)'
    BY <1>1, <1>3, <1>4, <1>5, <2>1
  <2>. QED  BY <1>4, <2>2, <2>3 DEF Pending
<1>6. CASE i \notin DOMAIN down
  <2>1. PICK j \in DOMAIN ms : i = Len(down) + j /\ down'[i] = ms[j]
    BY <1>1, <1>6
  <2>2. PICK r \in Reqs : wreq[r].st = "running" /\ ms[j].msgid = wreq[r].msgid
    BY <2>1
  <2>3. /\ Pending(wreq[r].msgid, r)
        /\ \A k \in DOMAIN down : IsReply(down[k]) => down[k].of # r
    BY <2>2 DEF IInv, ServedInv
  <2>4. Pending(id, r)'
    BY <1>3, <1>4, <2>1, <2>2, <2>3
  <2>5. ASSUME NEW k \in DOMAIN down', IsReply(down'[k]) PROVE k \in DOMAIN down
    <3>1. ASSUME NEW l \in DOMAIN ms, down'[k] = ms[l] PROVE FALSE
      <4>1. IsReply(ms[l]) /\ ms = <<ms[l]>>
        BY <2>5, <3>1
      <4>2. ms[j] = ms[l]
        BY <4>1
      <4>. QED  BY <2>1, <4>1, <4>2 DEF IsReply
    <3>. QED  BY <1>1, <3>1
  <2>6. \A k \in DOMAIN down' : k < i /\ IsReply(down'[k]) => down'[k].of # r
    BY <1>1, <2>3, <2>5
  <2>. QED  BY <1>4, <2>4, <2>6 DEF Pending
<1>. QED  BY <1>5, <1>6

(* No message, one or two.                                                 *)
LEMMA NoneAlong ==
    ASSUME NEW n, NEW a \in Views
    PROVE  \E u : Along(n, <<>>, u) /\ u[1] = a /\ u[Len(<<>>) + 1] = a
<1>1. PICK u : u = [i \in 1..1 |-> a]
  OBVIOUS
<1>2. u \in [1..1 -> Views] /\ u[1] = a /\ Len(<<>>) + 1 = 1
  BY <1>1
<1>3. Along(n, <<>>, u)
  BY <1>2 DEF Along
<1>. QED  BY <1>2, <1>3

LEMMA OneAlong ==
    ASSUME NEW n, NEW a \in Views, NEW b \in Views, NEW m, Reads(n, a, m, b)
    PROVE  \E u : Along(n, <<m>>, u) /\ u[1] = a /\ u[Len(<<m>>) + 1] = b
<1>1. PICK u : u = [i \in 1..2 |-> IF i = 1 THEN a ELSE b]
  OBVIOUS
<1>2. PICK q : q = <<m>>
  OBVIOUS
<1>3. Len(q) + 1 = 2 /\ DOMAIN q = {1} /\ q[1] = m
  BY <1>2
<1>4. u \in [1..2 -> Views] /\ u[1] = a /\ u[2] = b
  BY <1>1
<1>5. Along(n, q, u)
  BY <1>3, <1>4 DEF Along
<1>. QED  BY <1>2, <1>3, <1>4, <1>5

LEMMA TwoAlong ==
    ASSUME NEW n, NEW a \in Views, NEW b \in Views, NEW c \in Views, NEW l, NEW m,
           Reads(n, a, l, b), Reads(n, b, m, c)
    PROVE  \E u : Along(n, <<l, m>>, u) /\ u[1] = a /\ u[Len(<<l, m>>) + 1] = c
<1>1. PICK u : u = [i \in 1..3 |-> IF i = 1 THEN a ELSE IF i = 2 THEN b ELSE c]
  OBVIOUS
<1>2. PICK q : q = <<l, m>>
  OBVIOUS
<1>3. Len(q) + 1 = 3 /\ DOMAIN q = {1, 2} /\ q[1] = l /\ q[2] = m
  BY <1>2
<1>4. u \in [1..3 -> Views] /\ u[1] = a /\ u[2] = b /\ u[3] = c
  BY <1>1
<1>5. Along(n, q, u)
  BY <1>3, <1>4 DEF Along
<1>. QED  BY <1>2, <1>3, <1>4, <1>5

LEMMA ServedFacts ==
    ASSUME TypeOK, NEW n \in Names
    PROVE  /\ Served(n) \in Views
           /\ Served(n).id = IF watch[n] > 0 THEN event[n] ELSE 0
           /\ Served(n).subs = [c \in Clients |-> subs[c][n]]
           /\ watch[n] \in Nat /\ event[n] \in 0..MaxEventId
<1>1. watch[n] \in Nat /\ event[n] \in 0..MaxEventId /\ \A c \in Clients : subs[c][n] \in Nat
  BY DEF TypeOK
<1>2. (IF watch[n] > 0 THEN event[n] ELSE 0) \in 0..MaxEventId
  BY <1>1, BoundsAssumption
<1>3. [c \in Clients |-> subs[c][n]] \in [Clients -> Nat]
  BY <1>1
<1>. QED  BY <1>1, <1>2, <1>3 DEF Served, Views

LEMMA NoneCounted ==
    ASSUME NEW f, \A c \in Clients : f[c] \in 0..1, Cardinality({c \in Clients : f[c] = 1}) = 0
    PROVE  \A c \in Clients : f[c] = 0
<1>1. IsFiniteSet({c \in Clients : f[c] = 1})
  BY BoundsAssumption, FS_Subset
<1>2. {c \in Clients : f[c] = 1} = {}
  BY <1>1, FS_EmptySet
<1>. QED  BY <1>2

LEMMA UnwatchedView ==
    ASSUME IInv, NEW n \in Names, watch[n] = 0
    PROVE  Served(n) = Nothing
<1>1. PICK f : f = [c \in Clients |-> subs[c][n]]
  OBVIOUS
<1>2. {c \in Clients : f[c] = 1} = {c \in Clients : subs[c][n] = 1}
  BY <1>1
<1>3. Cardinality({c \in Clients : f[c] = 1}) = 0 /\ \A c \in Clients : f[c] \in 0..1
  BY <1>1, <1>2 DEF IInv, WatchInv
<1>4. \A c \in Clients : f[c] = 0
  BY <1>3, NoneCounted
<1>5. f = NoWatch
  BY <1>1, <1>4 DEF NoWatch
<1>. QED  BY <1>1, <1>5 DEF Served, Nothing

LEMMA UnwatchedNext ==
    ASSUME IInv', NEW n \in Names, watch'[n] = 0
    PROVE  Served(n)' = Nothing
<1>1. PICK f : f = [c \in Clients |-> subs'[c][n]]
  OBVIOUS
<1>2. {c \in Clients : f[c] = 1} = {c \in Clients : subs'[c][n] = 1}
  BY <1>1
<1>3. Cardinality({c \in Clients : f[c] = 1}) = 0 /\ \A c \in Clients : f[c] \in 0..1
  BY <1>1, <1>2 DEF IInv, WatchInv
<1>4. \A c \in Clients : f[c] = 0
  BY <1>3, NoneCounted
<1>5. f = NoWatch
  BY <1>1, <1>4 DEF NoWatch
<1>. QED  BY <1>1, <1>5 DEF Served, Nothing

(* A message that tells nothing new of the events.                         *)
LEMMA QuietSendMirror ==
    ASSUME IInv, EventsInv, NEW m \in DownMessages, Send(<<m>>), client.st # "none",
           UNCHANGED <<aws, memos, cevents, client, link, event, watch, subs>>,
           m.op \in {"reply", "*"} \/ (m.op = "!" /\ watch[m.name] > 0 /\ m.id = event[m.name])
    PROVE  EventsInv'
<1>1. <<m>> \in Seq(DownMessages) /\ DOMAIN <<m>> = {1} /\ <<m>>[1] = m
  OBVIOUS
<1>2. ASSUME NEW n \in Names
      PROVE  \E u : Along(n, <<m>>, u) /\ u[1] = Served(n) /\ u[Len(<<m>>) + 1] = Served(n)'
  <2>1. Served(n) \in Views /\ Served(n)' = Served(n)
        /\ Served(n).id = IF watch[n] > 0 THEN event[n] ELSE 0
    BY ServedFacts DEF IInv, Served
  <2>2. PICK a : a = Served(n)
    OBVIOUS
  <2>3. Reads(n, a, m, a)
    BY <2>1, <2>2 DEF Reads, About
  <2>4. \E u : Along(n, <<m>>, u) /\ u[1] = a /\ u[Len(<<m>>) + 1] = a
    BY <2>1, <2>2, <2>3, OneAlong
  <2>. QED  BY <2>1, <2>2, <2>4
<1>3. MirrorInv'
  BY <1>1, <1>2, SendMirror
<1>4. SubsInv'
  BY <1>1, SendSubs
<1>5. LinkInv'
  BY DEF EventsInv, LinkInv
<1>. QED  BY <1>3, <1>4, <1>5 DEF EventsInv

LEMMA PushMirror == ASSUME IInv, EventsInv, NEW n \in Names, api_ws_server_event_push(n) PROVE EventsInv'
<1>1. /\ watch[n] > 0 /\ Send(<<EventMsg("!", n)>>)
      /\ UNCHANGED <<aws, memos, cevents, client, link, event, watch, subs>>
  BY DEF api_ws_server_event_push, clientVars, serverVars
<1>2. event[n] # 0
  BY <1>1 DEF IInv, WatchInv
<1>3. PICK m : m = EventMsg("!", n)
  OBVIOUS
<1>4. m \in DownMessages /\ m.op = "!" /\ m.name = n /\ m.id = event[n]
  <2>1. m \in DownMessages
    BY <1>2, <1>3, EventMsgFacts DEF IInv
  <2>. QED  BY <1>3, <2>1 DEF EventMsg
<1>5. client.st # "none"
  BY <1>1 DEF EventsInv, LinkInv
<1>. QED  BY <1>1, <1>3, <1>4, <1>5, QuietSendMirror

LEMMA BroadcastMirror == ASSUME IInv, EventsInv, api_ws_server_event_broadcast PROVE EventsInv'
<1>1. PICK m : m = [op |-> "*", id |-> 0, name |-> "any", msgid |-> 0]
  OBVIOUS
<1>2. /\ client.st = "live" /\ Send(<<m>>)
      /\ UNCHANGED <<aws, memos, cevents, client, link, event, watch, subs>>
  BY <1>1 DEF api_ws_server_event_broadcast, clientVars, serverVars
<1>3. m \in DownMessages /\ m.op = "*"
  BY <1>1 DEF DownMessages
<1>. QED  BY <1>2, <1>3, QuietSendMirror

LEMMA CalledUnknownMirror == ASSUME IInv, EventsInv, api_ws_server_called_unknown PROVE EventsInv'
<1>1. PICK m : m = [op |-> "reply", msgid |-> Head(up).msgid, of |-> Head(up).of,
                    closing |-> FALSE, big |-> FALSE]
  OBVIOUS
<1>2. /\ client.open /\ up # <<>> /\ Send(<<m>>)
      /\ UNCHANGED <<aws, memos, cevents, client, link, event, watch, subs>>
  BY <1>1 DEF api_ws_server_called_unknown, ReadCall, clientVars
<1>3. m \in DownMessages /\ m.op = "reply"
  <2>1. Head(up) \in UpMessages
    BY <1>2, TailFacts DEF IInv, MessagesInv
  <2>. QED  BY <1>1, <2>1, MessageFacts DEF DownMessages, Replies
<1>4. client.st # "none"
  BY <1>2, NotAccepted
<1>. QED  BY <1>2, <1>3, <1>4, QuietSendMirror

LEMMA ReqReplyMirror ==
    ASSUME IInv, EventsInv, NEW r \in Reqs, api_ws_server_req_reply(r)
    PROVE  EventsInv'
<1>1. PICK big \in BOOLEAN : Send(<<[op |-> "reply", msgid |-> wreq[r].msgid, of |-> r,
                                     closing |-> wreq[r].closing, big |-> big]>>)
  BY DEF api_ws_server_req_reply
<1>2. PICK m : m = [op |-> "reply", msgid |-> wreq[r].msgid, of |-> r,
                    closing |-> wreq[r].closing, big |-> big]
  OBVIOUS
<1>3. /\ wreq[r].st = "running" /\ Send(<<m>>)
      /\ UNCHANGED <<aws, memos, cevents, client, link, event, watch, subs>>
  BY <1>1, <1>2 DEF api_ws_server_req_reply, clientVars
<1>4. m \in DownMessages /\ m.op = "reply"
  BY <1>2 DEF DownMessages, Replies, IInv, TypeOK, MsgIds
<1>5. client.st # "none"
  BY <1>3, NotAccepted DEF Active
<1>. QED  BY <1>3, <1>4, <1>5, QuietSendMirror

LEMMA EventEndMirror ==
    ASSUME IInv, IInv', EventsInv, NEW n \in Names, EventDrop(n)
    PROVE  EventsInv'
<1>1. PICK ms : ms = IF watch[n] = 0 THEN <<>> ELSE <<EventMsg("-", n)>>
  OBVIOUS
<1>2. /\ event[n] # 0 /\ Send(ms)
      /\ event' = [event EXCEPT ![n] = 0] /\ watch' = [watch EXCEPT ![n] = 0]
      /\ subs' = [c \in Clients |-> [subs[c] EXCEPT ![n] = 0]]
      /\ UNCHANGED <<aws, memos, cevents, client, link, wreq>>
  BY <1>1 DEF EventDrop, clientVars
<1>3. /\ watch \in [Names -> Nat] /\ event \in [Names -> 0..MaxEventId]
      /\ subs \in [Clients -> [Names -> Nat]]
  BY DEF IInv, TypeOK
<1>4. /\ watch'[n] = 0
      /\ \A k \in Names \ {n} : /\ watch'[k] = watch[k] /\ event'[k] = event[k]
                                /\ \A c \in Clients : subs'[c][k] = subs[c][k]
  BY <1>2, <1>3
<1>5. PICK m : m = EventMsg("-", n)
  OBVIOUS
<1>6. m \in DownMessages /\ m.op = "-" /\ m.name = n /\ m.id = event[n]
  <2>1. m \in DownMessages
    BY <1>2, <1>5, EventMsgFacts DEF IInv
  <2>. QED  BY <1>5, <2>1 DEF EventMsg
<1>7. ms = <<>> \/ (watch[n] # 0 /\ ms = <<m>>)
  BY <1>1, <1>5
<1>8. ms \in Seq(DownMessages) /\ \A k \in DOMAIN ms : ms[k].op = "-"
  <2>1. CASE ms = <<>>
    BY <2>1
  <2>2. CASE ms = <<m>>
    <3>1. ms \in Seq(DownMessages) /\ DOMAIN ms = {1} /\ ms[1] = m
      BY <1>6, <2>2
    <3>. QED  BY <1>6, <3>1
  <2>. QED  BY <1>7, <2>1, <2>2
<1>9. ASSUME NEW k \in Names
      PROVE  \E u : Along(k, ms, u) /\ u[1] = Served(k) /\ u[Len(ms) + 1] = Served(k)'
  <2>1. PICK a, b : a = Served(k) /\ b = Served(k)'
    OBVIOUS
  <2>2. a \in Views /\ a.id = IF watch[k] > 0 THEN event[k] ELSE 0
    BY <2>1, ServedFacts DEF IInv
  <2>3. CASE k # n
    <3>1. b = a
      BY <1>4, <2>1, <2>3 DEF Served
    <3>2. Reads(k, a, m, a)
      BY <1>6, <2>3 DEF Reads, About
    <3>3. \E u : Along(k, <<>>, u) /\ u[1] = a /\ u[Len(<<>>) + 1] = a
      BY <2>2, NoneAlong
    <3>4. \E u : Along(k, <<m>>, u) /\ u[1] = a /\ u[Len(<<m>>) + 1] = a
      BY <2>2, <3>2, OneAlong
    <3>. QED  BY <1>7, <2>1, <3>1, <3>3, <3>4
  <2>4. CASE k = n
    <3>1. b = Nothing
      BY <1>4, <2>1, <2>4, UnwatchedNext
    <3>2. CASE watch[n] = 0
      <4>1. a = Nothing
        BY <2>1, <2>4, <3>2, UnwatchedView
      <4>2. ms = <<>>
        BY <1>7, <3>2
      <4>3. \E u : Along(k, <<>>, u) /\ u[1] = a /\ u[Len(<<>>) + 1] = a
        BY <2>2, NoneAlong
      <4>. QED  BY <2>1, <3>1, <4>1, <4>2, <4>3
    <3>3. CASE watch[n] # 0
      <4>1. a.id = m.id
        BY <1>3, <1>6, <2>2, <2>4, <3>3
      <4>2. Reads(k, a, m, b)
        BY <1>6, <2>4, <3>1, <4>1 DEF Reads, About, Nothing
      <4>3. ms = <<m>>
        BY <1>1, <1>5, <3>3
      <4>4. b \in Views
        BY <3>1, NothingFacts
      <4>5. \E u : Along(k, <<m>>, u) /\ u[1] = a /\ u[Len(<<m>>) + 1] = b
        BY <2>2, <4>2, <4>4, OneAlong
      <4>. QED  BY <2>1, <4>3, <4>5
    <3>. QED  BY <3>2, <3>3
  <2>. QED  BY <2>3, <2>4
<1>10. MirrorInv'
  BY <1>2, <1>8, <1>9, SendMirror
<1>11. SubsInv'
  BY <1>2, <1>8, SendSubs DEF IsReply
<1>12. LinkInv'
  <2>1. CASE client.st = "none"
    <3>1. down' = down
      BY <1>2, <2>1, NotAccepted DEF Send
    <3>2. \A k \in Names, c \in Clients : watch'[k] = 0 /\ subs'[c][k] = 0
      BY <1>2, <1>3, <1>4, <2>1 DEF EventsInv, LinkInv
    <3>3. \A k \in Names : watch'[k] = 0
      BY <1>4, <2>1 DEF EventsInv, LinkInv
    <3>. QED  BY <1>2, <3>1, <3>2, <3>3 DEF EventsInv, LinkInv
  <2>2. CASE client.st # "none"
    BY <1>2, <2>2 DEF EventsInv, LinkInv
  <2>. QED  BY <2>1, <2>2
<1>. QED  BY <1>10, <1>11, <1>12 DEF EventsInv

(* A request that is served is the one that its id names.                  *)
LEMMA ServedByItsId ==
    ASSUME IInv, NEW r \in Reqs, wreq[r].st = "running"
    PROVE  \A q \in Reqs : Pending(wreq[r].msgid, q) => q = r
BY DEF IInv, ServedInv, MemosInv, Pending

LEMMA SubscribeMirror ==
    ASSUME IInv, IInv', EventsInv, NEW r \in Reqs, NEW n \in Names, api_ws_server_req_subscribe(r, n)
    PROVE  EventsInv'
<1>1. PICK c \in Clients : c = Owner[r]
  BY OwnerAssumption
<1>2. PICK ms : ms = Subscribed(n, r)
  OBVIOUS
<1>3. /\ wreq[r].st = "running" /\ event[n] # 0 /\ subs[c][n] = 0 /\ Send(ms)
      /\ watch' = [watch EXCEPT ![n] = @ + 1] /\ subs' = [subs EXCEPT ![c][n] = @ + 1]
      /\ UNCHANGED <<link, aws, memos, cevents, client, event>>
  BY <1>1, <1>2 DEF api_ws_server_req_subscribe, clientVars
<1>4. watch \in [Names -> Nat] /\ subs \in [Clients -> [Names -> Nat]]
  BY DEF IInv, TypeOK
<1>5. /\ watch'[n] = watch[n] + 1 /\ subs'[c][n] = 1
      /\ \A d \in Clients : d # c => subs'[d][n] = subs[d][n]
      /\ \A k \in Names \ {n} : /\ watch'[k] = watch[k]
                                /\ \A d \in Clients : subs'[d][k] = subs[d][k]
  BY <1>3, <1>4
<1>6. PICK e, s : e = EventMsg("+", n) /\ s = ReqMsg("S", n, r)
  OBVIOUS
<1>7. /\ e \in DownMessages /\ e.op = "+" /\ e.name = n /\ e.id = event[n]
      /\ s \in DownMessages /\ s.op = "S" /\ s.name = n /\ s.id = event[n] /\ s.msgid = wreq[r].msgid
  <2>1. e \in DownMessages /\ s \in DownMessages
    BY <1>3, <1>6, EventMsgFacts DEF IInv
  <2>2. s = [op |-> "S", id |-> event[n], name |-> n, msgid |-> wreq[r].msgid]
    BY <1>6 DEF ReqMsg, EventMsg
  <2>3. e = [op |-> "+", id |-> event[n], name |-> n, msgid |-> 0]
    BY <1>6 DEF EventMsg
  <2>. QED  BY <2>1, <2>2, <2>3
<1>8. (watch[n] = 0 => ms = <<e, s>>) /\ (watch[n] # 0 => ms = <<s>>)
  <2>1. CASE watch[n] = 0
    <3>1. ms = <<e>> \o <<s>>
      BY <1>2, <1>6, <2>1 DEF Subscribed
    <3>2. <<e>> \o <<s>> = <<e, s>>
      BY <1>7, PairOfSeqs
    <3>. QED  BY <2>1, <3>1, <3>2
  <2>2. CASE watch[n] # 0
    <3>1. ms = <<>> \o <<s>>
      BY <1>2, <1>6, <2>2 DEF Subscribed
    <3>. QED  BY <2>2, <3>1
  <2>. QED  BY <2>1, <2>2
<1>9. ms \in Seq(DownMessages) /\ \A k \in DOMAIN ms : ms[k] = e \/ ms[k] = s
  <2>1. CASE ms = <<e, s>>
    <3>1. ms \in Seq(DownMessages) /\ DOMAIN ms = {1, 2} /\ ms[1] = e /\ ms[2] = s
      BY <1>7, <2>1
    <3>. QED  BY <3>1
  <2>2. CASE ms = <<s>>
    <3>1. ms \in Seq(DownMessages) /\ DOMAIN ms = {1} /\ ms[1] = s
      BY <1>7, <2>2
    <3>. QED  BY <3>1
  <2>. QED  BY <1>8, <2>1, <2>2
<1>10. ASSUME NEW k \in Names
       PROVE  \E u : Along(k, ms, u) /\ u[1] = Served(k) /\ u[Len(ms) + 1] = Served(k)'
  <2>1. PICK a, w : a = Served(k) /\ w = Served(k)'
    OBVIOUS
  <2>2. /\ a \in Views /\ a.id = IF watch[k] > 0 THEN event[k] ELSE 0
        /\ a.subs = [d \in Clients |-> subs[d][k]]
    BY <2>1, ServedFacts DEF IInv
  <2>3. CASE k # n
    <3>1. w = a
      BY <1>3, <1>5, <2>1, <2>3 DEF Served
    <3>2. Reads(k, a, e, a) /\ Reads(k, a, s, a)
      BY <1>7, <2>3 DEF Reads, About
    <3>3. \E u : Along(k, <<s>>, u) /\ u[1] = a /\ u[Len(<<s>>) + 1] = a
      BY <2>2, <3>2, OneAlong
    <3>4. \E u : Along(k, <<e, s>>, u) /\ u[1] = a /\ u[Len(<<e, s>>) + 1] = a
      BY <2>2, <3>2, TwoAlong
    <3>. QED  BY <1>8, <2>1, <3>1, <3>3, <3>4
  <2>4. CASE k = n
    <3>1. w = [id |-> event[n], subs |-> [a.subs EXCEPT ![c] = @ + 1]]
      <4>1. watch'[n] > 0
        BY <1>4, <1>5
      <4>2. [d \in Clients |-> subs'[d][n]] = [a.subs EXCEPT ![c] = @ + 1]
        BY <1>3, <1>5, <2>2, <2>4
      <4>. QED  BY <1>3, <2>1, <2>4, <4>1, <4>2 DEF Served
    <3>2. w \in Views
      <4>1. [a.subs EXCEPT ![c] = @ + 1] \in [Clients -> Nat]
        BY <2>2 DEF Views
      <4>2. event[n] \in 0..MaxEventId
        BY DEF IInv, TypeOK
      <4>. QED  BY <3>1, <4>1, <4>2 DEF Views
    <3>3. \A q \in Reqs : Pending(s.msgid, q) => Owner[q] = c
      BY <1>1, <1>3, <1>7, ServedByItsId
    <3>4. PICK b : b = [id |-> event[n], subs |-> a.subs]
      OBVIOUS
    <3>5. b \in Views
      BY <2>2, <3>4 DEF Views, IInv, TypeOK
    <3>6. Reads(n, b, s, w)
      BY <1>7, <3>1, <3>3, <3>4 DEF Reads, About
    <3>7. CASE watch[n] = 0
      <4>1. a = Nothing
        BY <2>1, <2>4, <3>7, UnwatchedView
      <4>2. Reads(n, a, e, b)
        BY <1>7, <3>4, <4>1 DEF Reads, About, Nothing
      <4>3. \E u : Along(n, <<e, s>>, u) /\ u[1] = a /\ u[Len(<<e, s>>) + 1] = w
        BY <2>2, <3>2, <3>5, <3>6, <4>2, TwoAlong
      <4>. QED  BY <1>8, <2>1, <2>4, <3>7, <4>3
    <3>8. CASE watch[n] # 0
      <4>1. a.id = event[n]
        BY <1>4, <2>2, <2>4, <3>8
      <4>2. a = b
        BY <2>2, <3>4, <4>1 DEF Views
      <4>3. \E u : Along(n, <<s>>, u) /\ u[1] = a /\ u[Len(<<s>>) + 1] = w
        <5>1. Reads(n, a, s, w)
          BY <3>6, <4>2
        <5>. QED  BY <2>2, <3>2, <5>1, OneAlong
      <4>. QED  BY <1>8, <2>1, <2>4, <3>8, <4>3
    <3>. QED  BY <3>7, <3>8
  <2>. QED  BY <2>3, <2>4
<1>11. MirrorInv'
  BY <1>3, <1>9, <1>10, SendMirror
<1>12. SubsInv'
  <2>1. \A k \in DOMAIN ms : /\ ~IsReply(ms[k])
                             /\ ms[k].op \in {"S", "U"} => ms[k].msgid = wreq[r].msgid
    BY <1>7, <1>9 DEF IsReply
  <2>. QED  BY <1>3, <1>9, <2>1, SendSubs
<1>13. LinkInv'
  <2>1. client.st # "none"
    BY <1>3, NotAccepted DEF Active
  <2>. QED  BY <1>3, <2>1 DEF EventsInv, LinkInv
<1>. QED  BY <1>11, <1>12, <1>13 DEF EventsInv

LEMMA UnsubscribeMirror ==
    ASSUME IInv, IInv', EventsInv, NEW r \in Reqs, NEW n \in Names, api_ws_server_req_unsubscribe(r, n)
    PROVE  EventsInv'
<1>1. PICK c \in Clients : c = Owner[r]
  BY OwnerAssumption
<1>2. PICK ms : ms = Unsubscribed(n, r)
  OBVIOUS
<1>3. /\ wreq[r].st = "running" /\ event[n] # 0 /\ subs[c][n] > 0 /\ Send(ms)
      /\ watch' = [watch EXCEPT ![n] = @ - 1] /\ subs' = [subs EXCEPT ![c][n] = @ - 1]
      /\ UNCHANGED <<link, aws, memos, cevents, client, event>>
  BY <1>1, <1>2 DEF api_ws_server_req_unsubscribe, clientVars
<1>4. watch \in [Names -> Nat] /\ subs \in [Clients -> [Names -> Nat]] /\ watch' \in [Names -> Nat]
  BY DEF IInv, TypeOK
<1>5. /\ watch'[n] = watch[n] - 1 /\ subs'[c][n] = subs[c][n] - 1
      /\ \A d \in Clients : d # c => subs'[d][n] = subs[d][n]
      /\ \A k \in Names \ {n} : /\ watch'[k] = watch[k]
                                /\ \A d \in Clients : subs'[d][k] = subs[d][k]
  BY <1>3, <1>4
<1>6. watch[n] > 0
  <2>1. watch[n] \in Nat /\ watch'[n] \in Nat
    BY <1>4
  <2>. QED  BY <1>5, <2>1
<1>7. PICK e, s : e = EventMsg("-", n) /\ s = ReqMsg("U", n, r)
  OBVIOUS
<1>8. /\ e \in DownMessages /\ e.op = "-" /\ e.name = n /\ e.id = event[n]
      /\ s \in DownMessages /\ s.op = "U" /\ s.name = n /\ s.id = event[n] /\ s.msgid = wreq[r].msgid
  <2>1. e \in DownMessages /\ s \in DownMessages
    BY <1>3, <1>7, EventMsgFacts DEF IInv
  <2>2. s = [op |-> "U", id |-> event[n], name |-> n, msgid |-> wreq[r].msgid]
    BY <1>7 DEF ReqMsg, EventMsg
  <2>3. e = [op |-> "-", id |-> event[n], name |-> n, msgid |-> 0]
    BY <1>7 DEF EventMsg
  <2>. QED  BY <2>1, <2>2, <2>3
<1>9. (watch[n] = 1 => ms = <<s, e>>) /\ (watch[n] # 1 => ms = <<s>>)
  <2>1. CASE watch[n] = 1
    <3>1. ms = <<s>> \o <<e>>
      BY <1>2, <1>7, <2>1 DEF Unsubscribed
    <3>2. <<s>> \o <<e>> = <<s, e>>
      BY <1>8, PairOfSeqs
    <3>. QED  BY <2>1, <3>1, <3>2
  <2>2. CASE watch[n] # 1
    <3>1. ms = <<s>> \o <<>>
      BY <1>2, <1>7, <2>2 DEF Unsubscribed
    <3>. QED  BY <2>2, <3>1
  <2>. QED  BY <2>1, <2>2
<1>10. ms \in Seq(DownMessages) /\ \A k \in DOMAIN ms : ms[k] = e \/ ms[k] = s
  <2>1. CASE ms = <<s, e>>
    <3>1. ms \in Seq(DownMessages) /\ DOMAIN ms = {1, 2} /\ ms[1] = s /\ ms[2] = e
      BY <1>8, <2>1
    <3>. QED  BY <3>1
  <2>2. CASE ms = <<s>>
    <3>1. ms \in Seq(DownMessages) /\ DOMAIN ms = {1} /\ ms[1] = s
      BY <1>8, <2>2
    <3>. QED  BY <3>1
  <2>. QED  BY <1>9, <2>1, <2>2
<1>11. ASSUME NEW k \in Names
       PROVE  \E u : Along(k, ms, u) /\ u[1] = Served(k) /\ u[Len(ms) + 1] = Served(k)'
  <2>1. PICK a, w : a = Served(k) /\ w = Served(k)'
    OBVIOUS
  <2>2. /\ a \in Views /\ a.id = IF watch[k] > 0 THEN event[k] ELSE 0
        /\ a.subs = [d \in Clients |-> subs[d][k]]
    BY <2>1, ServedFacts DEF IInv
  <2>3. CASE k # n
    <3>1. w = a
      BY <1>3, <1>5, <2>1, <2>3 DEF Served
    <3>2. Reads(k, a, e, a) /\ Reads(k, a, s, a)
      BY <1>8, <2>3 DEF Reads, About
    <3>3. \E u : Along(k, <<s>>, u) /\ u[1] = a /\ u[Len(<<s>>) + 1] = a
      BY <2>2, <3>2, OneAlong
    <3>4. \E u : Along(k, <<s, e>>, u) /\ u[1] = a /\ u[Len(<<s, e>>) + 1] = a
      BY <2>2, <3>2, TwoAlong
    <3>. QED  BY <1>9, <2>1, <3>1, <3>3, <3>4
  <2>4. CASE k = n
    <3>1. PICK f : f = [a.subs EXCEPT ![c] = @ - 1]
      OBVIOUS
    <3>2. f \in [Clients -> Nat] /\ [d \in Clients |-> subs'[d][n]] = f /\ a.subs[c] > 0
      <4>1. a.subs \in [Clients -> Nat] /\ a.subs[c] > 0
        BY <1>3, <2>2, <2>4 DEF Views
      <4>2. f \in [Clients -> Nat]
        <5>1. a.subs[c] - 1 \in Nat
          BY <4>1
        <5>. QED  BY <3>1, <4>1, <5>1
      <4>3. [d \in Clients |-> subs'[d][n]] = f
        BY <1>5, <2>2, <2>4, <3>1
      <4>. QED  BY <4>1, <4>2, <4>3
    <3>3. PICK b : b = [id |-> event[n], subs |-> f]
      OBVIOUS
    <3>4. b \in Views /\ a.id = event[n]
      BY <1>6, <2>2, <2>4, <3>2, <3>3 DEF Views, IInv, TypeOK
    <3>5. \A q \in Reqs : Pending(s.msgid, q) => Owner[q] = c
      BY <1>1, <1>3, <1>8, ServedByItsId
    <3>6. Reads(n, a, s, b)
      BY <1>8, <3>1, <3>2, <3>3, <3>4, <3>5 DEF Reads, About
    <3>7. CASE watch[n] = 1
      <4>1. w = Nothing
        BY <1>5, <2>1, <2>4, <3>7, UnwatchedNext
      <4>2. Reads(n, b, e, w)
        BY <1>8, <3>3, <4>1 DEF Reads, About, Nothing
      <4>3. w \in Views
        BY <4>1, NothingFacts
      <4>4. \E u : Along(n, <<s, e>>, u) /\ u[1] = a /\ u[Len(<<s, e>>) + 1] = w
        BY <2>2, <3>4, <3>6, <4>2, <4>3, TwoAlong
      <4>. QED  BY <1>9, <2>1, <2>4, <3>7, <4>4
    <3>8. CASE watch[n] # 1
      <4>1. watch'[n] > 0
        BY <1>4, <1>5, <1>6, <3>8
      <4>2. w = b
        BY <1>3, <2>1, <2>4, <3>2, <3>3, <4>1 DEF Served
      <4>3. \E u : Along(n, <<s>>, u) /\ u[1] = a /\ u[Len(<<s>>) + 1] = w
        BY <2>2, <3>4, <3>6, <4>2, OneAlong
      <4>. QED  BY <1>9, <2>1, <2>4, <3>8, <4>3
    <3>. QED  BY <3>7, <3>8
  <2>. QED  BY <2>3, <2>4
<1>12. MirrorInv'
  BY <1>3, <1>10, <1>11, SendMirror
<1>13. SubsInv'
  <2>1. \A k \in DOMAIN ms : /\ ~IsReply(ms[k])
                             /\ ms[k].op \in {"S", "U"} => ms[k].msgid = wreq[r].msgid
    BY <1>8, <1>10 DEF IsReply
  <2>. QED  BY <1>3, <1>10, <2>1, SendSubs
<1>14. LinkInv'
  <2>1. client.st # "none"
    BY <1>3, NotAccepted DEF Active
  <2>. QED  BY <1>3, <2>1 DEF EventsInv, LinkInv
<1>. QED  BY <1>12, <1>13, <1>14 DEF EventsInv

LEMMA CalledMirror ==
    ASSUME IInv, EventsInv, api_ws_server_called \/ api_ws_server_called_failed
    PROVE  EventsInv'
<1>1. UNCHANGED <<link, aws, memos, cevents, down, event, watch, subs>>
  BY DEF api_ws_server_called, api_ws_server_called_failed, ReadCall, clientVars
<1>2. client'.open = client.open /\ client'.st = client.st
  BY DEF api_ws_server_called, api_ws_server_called_failed, Hold, IInv, TypeOK
<1>3. LinkInv'
  BY <1>1, <1>2 DEF EventsInv, LinkInv
<1>. QED  BY <1>1, <1>2, <1>3, StillStep

LEMMA HangupMirror == ASSUME IInv, EventsInv, api_ws_server_on_hangup PROVE EventsInv'
<1>1. /\ client.st = "live" /\ client' = ClientUnref([client EXCEPT !.open = FALSE])
      /\ UNCHANGED <<link, aws, memos, cevents, down, event>>
  BY DEF api_ws_server_on_hangup, clientVars
<1>2. client'.open = FALSE /\ client'.st \in {"live", "freed"}
  BY <1>1 DEF ClientUnref, IInv, TypeOK
<1>3. LinkInv'
  BY <1>1, <1>2 DEF EventsInv, LinkInv
<1>. QED  BY <1>1, <1>2, <1>3, StillStep

LEMMA UnrefMirror ==
    ASSUME IInv, IInv', EventsInv, NEW r \in Reqs, api_ws_server_req_unref(r)
    PROVE  EventsInv'
<1>1. /\ wreq[r].st = "replied" /\ client' = ClientUnref(client) /\ Unwatch(client')
      /\ UNCHANGED <<link, aws, memos, cevents, down, event>>
  BY DEF api_ws_server_req_unref, clientVars
<1>2. client.st # "none"
  BY <1>1, NotAccepted DEF Active
<1>3. client'.open = client.open /\ client'.st # "none"
  BY <1>1, <1>2 DEF ClientUnref, IInv, TypeOK
<1>4. client'.st = "freed" => ~client'.open
  <2>1. client'.refs \in Nat /\ Cardinality(Users') \in Nat
    <3>1. IsFiniteSet(Users')
      BY BoundsAssumption, FS_Subset DEF Users
    <3>. QED  BY <3>1, FS_CardinalityType DEF IInv, TypeOK
  <2>. QED  BY <2>1 DEF IInv, CountsInv
<1>5. client'.open => UNCHANGED <<watch, subs>>
  BY <1>1, <1>4 DEF Unwatch
<1>6. LinkInv'
  BY <1>1, <1>2, <1>3 DEF EventsInv, LinkInv
<1>. QED  BY <1>1, <1>3, <1>5, <1>6, StillStep

LEMMA NewEventMirror == ASSUME IInv, EventsInv, NEW n \in Names, EventCreate(n) PROVE EventsInv'
<1>1. PICK i \in 1..MaxEventId : event' = [event EXCEPT ![n] = i]
  BY DEF EventCreate
<1>2. event[n] = 0 /\ UNCHANGED <<link, aws, memos, cevents, down, client, watch, subs>>
  BY DEF EventCreate, clientVars
<1>3. event \in [Names -> 0..MaxEventId] /\ watch \in [Names -> Nat]
  BY DEF IInv, TypeOK
<1>4. ~(watch[n] > 0)
  BY <1>2 DEF IInv, WatchInv
<1>5. \A k \in Names : Served(k)' = Served(k)
  <2>1. \A k \in Names : k # n => event'[k] = event[k]
    BY <1>1, <1>3
  <2>. QED  BY <1>2, <1>4, <2>1 DEF Served
<1>7. \A k \in DOMAIN down, r \in Reqs : Pending(down[k].msgid, r)' <=> Pending(down[k].msgid, r)
  BY <1>2 DEF Pending
<1>8. MirrorInv'
  BY <1>2, <1>5, <1>7, MirrorKept DEF EventsInv
<1>9. SubsInv'
  BY <1>2, <1>7, SubsKept DEF EventsInv
<1>10. LinkInv'
  BY <1>2 DEF EventsInv, LinkInv
<1>. QED  BY <1>8, <1>9, <1>10 DEF EventsInv

LEMMA StutterMirror == ASSUME IInv, EventsInv, UNCHANGED vars PROVE EventsInv'
<1>1. UNCHANGED <<link, aws, memos, cevents, down, client, event, watch, subs>>
  BY DEF vars, clientVars, serverVars
<1>2. LinkInv'
  BY <1>1 DEF EventsInv, LinkInv
<1>. QED  BY <1>1, <1>2, StillStep

LEMMA InitMirror == Init => EventsInv
<1> SUFFICES ASSUME Init PROVE EventsInv
  OBVIOUS
<1>1. /\ down = <<>> /\ cevents = <<>>
      /\ \A n \in Names : watch[n] = 0 /\ \A c \in Clients : subs[c][n] = 0
  BY DEF Init
<1>2. SubsInv /\ MirrorInv
  BY <1>1, EmptyMirror
<1>3. LinkInv
  BY <1>1 DEF Init, LinkInv
<1>. QED  BY <1>2, <1>3 DEF EventsInv

LEMMA NextMirror == ASSUME IInv, IInv', EventsInv, [Next]_vars PROVE EventsInv'
<1>1. CASE Setup
  BY <1>1, SetupMirror
<1>2. CASE ClientReads
  BY <1>2, ReplyMirror, ClientHangupMirror, CreateMirror, DropMirror, SubscriptionMirror,
     PushReadMirror DEF ClientReads
<1>3. CASE ServerReads
  BY <1>3, CalledMirror, CalledUnknownMirror, HangupMirror DEF ServerReads
<1>4. ASSUME NEW r \in Reqs,
             \/ api_ws_client_call_sent(r) \/ api_ws_server_req_reply(r)
             \/ api_ws_server_req_unref(r)
      PROVE  EventsInv'
  BY <1>4, CallSentMirror, ReqReplyMirror, UnrefMirror
<1>5. CASE api_ws_client_call_failed
  BY <1>5, CallFailedMirror
<1>6. ASSUME NEW r \in Reqs, NEW n \in Names,
             api_ws_server_req_subscribe(r, n) \/ api_ws_server_req_unsubscribe(r, n)
      PROVE  EventsInv'
  BY <1>6, SubscribeMirror, UnsubscribeMirror
<1>7. ASSUME NEW n \in Names, Events(n) PROVE EventsInv'
  BY <1>7, NewEventMirror, EventEndMirror, PushMirror DEF Events
<1>8. CASE api_ws_server_event_broadcast
  BY <1>8, BroadcastMirror
<1>9. CASE UNCHANGED vars
  BY <1>9, StutterMirror
<1>. QED  BY <1>1, <1>2, <1>3, <1>4, <1>5, <1>6, <1>7, <1>8, <1>9 DEF Next

LEMMA MirrorIsExact == ASSUME IInv, EventsInv PROVE EventsAreMirrored
<1> SUFFICES ASSUME aws = "open" PROVE EventsAreMirrored
  BY DEF EventsAreMirrored
<1>1. /\ down \in Seq(DownMessages) /\ cevents \in Seq(KnownEvents)
      /\ memos \in Seq([msgid : 0..IdMod - 1, req : Reqs])
  BY DEF IInv, TypeOK, MessagesInv, KnownEvents
<1>2. CASE down # <<>>
  <2>1. PICK m : m = Head(down)
    OBVIOUS
  <2>2. 1 \in DOMAIN down /\ m = down[1] /\ m \in DownMessages
    BY <1>1, <1>2, <2>1, TailFacts
  <2>3. ASSUME m.op \in {"S", "U", "!", "-"} PROVE EventOf(m.id, m.name) # 0
    <3>1. m.id \in 1..MaxEventId /\ m.name \in Names
      BY <2>2, <2>3, MessageFacts
    <3>2. PICK v : Mirror(m.name, v)
      BY <3>1 DEF EventsInv, MirrorInv
    <3>3. v[1].id = m.id /\ Knows(m.name, v[1], cevents)
      BY <2>2, <2>3, <3>2 DEF Mirror, Along, Reads, About
    <3>4. PICK i \in DOMAIN cevents :
             cevents[i] = [id |-> v[1].id, name |-> m.name, refcount |-> 1, watch |-> v[1].subs]
      BY <3>1, <3>3 DEF Knows
    <3>5. cevents[i].id = m.id /\ cevents[i].name = m.name
      BY <3>3, <3>4
    <3>. QED  BY <1>1, <3>5, EventOfFacts
  <2>4. ASSUME m.op \in {"S", "U", "reply"} PROVE MemoOf(m.msgid) # 0
    <3>1. \E r : Pending(m.msgid, r)
      BY <2>2, <2>4 DEF EventsInv, SubsInv, IInv, DownInv, IsReply
    <3>. QED  BY <1>1, <3>1, MemoOfFacts DEF Pending
  <2>. QED  BY <1>2, <2>1, <2>3, <2>4 DEF EventsAreMirrored
<1>3. CASE down = <<>>
  <2> SUFFICES ASSUME client.open, link = "up"
               PROVE  /\ \A n \in Names :
                           Cardinality({i \in DOMAIN cevents : cevents[i].name = n})
                             = IF watch[n] > 0 THEN 1 ELSE 0
                      /\ \A i \in DOMAIN cevents :
                           /\ cevents[i].id = event[cevents[i].name]
                           /\ \A c \in Clients : cevents[i].watch[c] = subs[c][cevents[i].name]
    BY <1>3 DEF EventsAreMirrored
  <2>1. ASSUME NEW n \in Names PROVE Knows(n, Served(n), cevents)
    <3>1. PICK v : Mirror(n, v)
      BY DEF EventsInv, MirrorInv
    <3>2. Len(down) + 1 = 1
      BY <1>3
    <3>. QED  BY <3>1, <3>2 DEF Mirror
  <2>2. ASSUME NEW n \in Names
        PROVE  Cardinality({i \in DOMAIN cevents : cevents[i].name = n})
                 = IF watch[n] > 0 THEN 1 ELSE 0
    <3> DEFINE I == {i \in DOMAIN cevents : cevents[i].name = n}
    <3>1. watch[n] > 0 => Served(n).id # 0
      BY ServedFacts DEF IInv, WatchInv
    <3>2. ~(watch[n] > 0) => Served(n).id = 0
      BY ServedFacts DEF IInv
    <3>3. CASE watch[n] > 0
      <4>1. PICK i \in DOMAIN cevents :
               /\ cevents[i].name = n
               /\ \A k \in DOMAIN cevents : cevents[k].name = n => k = i
        BY <2>1, <3>1, <3>3 DEF Knows
      <4>2. I = {i}
        BY <4>1
      <4>3. Cardinality(I) = 1
        BY <4>2, FS_Singleton
      <4>. QED  BY <3>3, <4>3
    <3>4. CASE ~(watch[n] > 0)
      <4>1. I = {}
        BY <2>1, <3>2, <3>4 DEF Knows
      <4>2. Cardinality(I) = 0
        BY <4>1, FS_EmptySet
      <4>. QED  BY <3>4, <4>2
    <3>. QED  BY <3>3, <3>4
  <2>3. ASSUME NEW i \in DOMAIN cevents
        PROVE  /\ cevents[i].id = event[cevents[i].name]
               /\ \A c \in Clients : cevents[i].watch[c] = subs[c][cevents[i].name]
    <3>1. PICK n : n = cevents[i].name
      OBVIOUS
    <3>2. n \in Names
      <4>1. cevents[i] \in KnownEvents
        BY <1>1, ElementOfSeq, LenProperties
      <4>. QED  BY <3>1, <4>1 DEF KnownEvents
    <3>3. Served(n).id # 0 /\ Knows(n, Served(n), cevents)
      BY <2>1, <3>1, <3>2 DEF Knows
    <3>4. cevents[i] = [id |-> Served(n).id, name |-> n, refcount |-> 1, watch |-> Served(n).subs]
      BY <3>1, <3>3 DEF Knows
    <3>5. Served(n).id = event[n] /\ Served(n).subs = [c \in Clients |-> subs[c][n]]
      BY <3>2, <3>3, ServedFacts DEF IInv
    <3>. QED  BY <3>1, <3>4, <3>5
  <2>. QED  BY <2>2, <2>3
<1>. QED  BY <1>2, <1>3

(* The messages about events come in an order in which the client can read *)
(* them, and with the queue empty the two binders agree: "event not found" *)
(* (afb-api-ws.c:550) and "message not found" (:571) are never met while   *)
(* the link is up, whatever the bindings subscribe, push and drop while    *)
(* replies are under way and the msgids wrap.                              *)
THEOREM EventsMirrored == Spec => []EventsAreMirrored
<1>1. Init => EventsInv
  BY InitMirror
<1>2. IInv /\ IInv' /\ EventsInv /\ [Next]_vars => EventsInv'
  BY NextMirror
<1>3. IInv /\ EventsInv => EventsAreMirrored
  BY MirrorIsExact
<1>. QED  BY <1>1, <1>2, <1>3, InvHolds, PTL DEF Spec
====
