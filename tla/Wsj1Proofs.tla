----------------------------- MODULE Wsj1Proofs -----------------------------
(***************************************************************************)
(* Proofs about the calls of a websocket client, for every set of calls,   *)
(* every range of ids that is large enough and any number of messages      *)
(* under way.  IInv (module Wsj1) is inductive.                            *)
(***************************************************************************)
EXTENDS Wsj1, FiniteSetTheorems, SequenceTheorems, WellFoundedInduction, TLAPS

-----------------------------------------------------------------------------
(* Sequences: the queues of messages and the lists of calls.               *)

(* A message sent at the end of a queue.                                   *)
LEMMA AppendFacts ==
    ASSUME NEW S, NEW s \in Seq(S), NEW e \in S
    PROVE  /\ Append(s, e) \in Seq(S) /\ Len(Append(s, e)) = Len(s) + 1
           /\ DOMAIN Append(s, e) = 1..Len(s) + 1 /\ DOMAIN s = 1..Len(s) /\ Len(s) \in Nat
           /\ \A i \in 1..Len(s) : Append(s, e)[i] = s[i]
           /\ Append(s, e)[Len(s) + 1] = e
BY AppendProperties, LenProperties

(* The message read at the head of a queue.                                *)
LEMMA TailFacts ==
    ASSUME NEW S, NEW s \in Seq(S), s # <<>>
    PROVE  /\ Tail(s) \in Seq(S) /\ Head(s) = s[1] /\ Head(s) \in S
           /\ DOMAIN s = 1..Len(s) /\ Len(s) \in Nat \ {0} /\ 1 \in DOMAIN s
           /\ DOMAIN Tail(s) = 1..Len(s) - 1
           /\ \A i \in 1..Len(s) - 1 : Tail(s)[i] = s[i + 1]
<1>1. /\ Head(s) \in S /\ Tail(s) \in Seq(S) /\ Len(Tail(s)) = Len(s) - 1
      /\ \A i \in 1..Len(Tail(s)) : Tail(s)[i] = s[i + 1]
  BY HeadTailProperties
<1>2. Len(s) \in Nat /\ DOMAIN s = 1..Len(s) /\ DOMAIN Tail(s) = 1..Len(Tail(s))
  BY <1>1, LenProperties
<1>3. Len(s) # 0
  BY EmptySeq
<1>. QED  BY <1>1, <1>2, <1>3

(* What a lost link leaves of a queue.                                     *)
LEMMA PrefixFacts ==
    ASSUME NEW S, NEW s \in Seq(S), NEW n \in 0..Len(s)
    PROVE  /\ SubSeq(s, 1, n) \in Seq(S) /\ DOMAIN SubSeq(s, 1, n) = 1..n
           /\ DOMAIN s = 1..Len(s) /\ Len(s) \in Nat
           /\ \A i \in 1..n : SubSeq(s, 1, n)[i] = s[i]
<1>1. DOMAIN s = 1..Len(s) /\ Len(s) \in Nat
  BY LenProperties
<1>. QED  BY <1>1, SubSeqProperties, LenProperties

(* An element taken out of a list.                                         *)
LEMMA RemoveFacts ==
    ASSUME NEW S, NEW s \in Seq(S), NEW i \in 1..Len(s)
    PROVE  /\ RemoveAt(s, i) \in Seq(S) /\ DOMAIN RemoveAt(s, i) = 1..Len(s) - 1
           /\ DOMAIN s = 1..Len(s) /\ Len(s) \in Nat \ {0}
           /\ \A k \in 1..Len(s) - 1 : RemoveAt(s, i)[k] = IF k < i THEN s[k] ELSE s[k + 1]
<1>0. DOMAIN s = 1..Len(s) /\ Len(s) \in Nat \ {0}
  BY LenProperties
<1> DEFINE a == SubSeq(s, 1, i - 1)
           b == SubSeq(s, i + 1, Len(s))
<1>1. a \in Seq(S) /\ Len(a) = i - 1 /\ \A k \in 1..i - 1 : a[k] = s[k]
  BY <1>0
<1>2. b \in Seq(S) /\ Len(b) = Len(s) - i /\ \A k \in 1..Len(s) - i : b[k] = s[i + k]
  <2>1. \A k \in i + 1..Len(s) : s[k] \in S
    BY <1>0, ElementOfSeq
  <2>2. /\ b \in Seq(S) /\ Len(b) = IF i + 1 <= Len(s) THEN Len(s) - (i + 1) + 1 ELSE 0
        /\ \A k \in 1..Len(s) - (i + 1) + 1 : b[k] = s[i + 1 + k - 1]
    BY <1>0, <2>1, SubSeqProperties
  <2>3. i \in Nat /\ Len(s) \in Nat /\ 1 <= i /\ i <= Len(s)
    BY <1>0
  <2> HIDE DEF b
  <2>4. CASE i = Len(s)
    <3>1. ~(i + 1 <= Len(s)) /\ Len(s) - i = 0
      BY <2>3, <2>4
    <3>. QED  BY <2>2, <3>1
  <2>5. CASE i < Len(s)
    <3>1. i + 1 <= Len(s) /\ Len(s) - (i + 1) + 1 = Len(s) - i
      BY <2>3, <2>5
    <3>2. \A k \in 1..Len(s) - i : i + 1 + k - 1 = i + k
      BY <2>3
    <3>. QED  BY <2>2, <3>1, <3>2
  <2>. QED  BY <2>3, <2>4, <2>5
<1>3. RemoveAt(s, i) = a \o b
  BY DEF RemoveAt
<1> HIDE DEF a, b
<1>4. /\ a \o b \in Seq(S) /\ Len(a \o b) = Len(s) - 1
      /\ \A k \in 1..Len(s) - 1 : (a \o b)[k] = IF k <= i - 1 THEN a[k] ELSE b[k - (i - 1)]
  <2>1. /\ a \o b \in Seq(S) /\ Len(a \o b) = Len(a) + Len(b)
        /\ \A k \in 1..Len(a) + Len(b) : (a \o b)[k] = IF k <= Len(a) THEN a[k] ELSE b[k - Len(a)]
    BY <1>1, <1>2, ConcatProperties
  <2>2. Len(a) + Len(b) = Len(s) - 1
    BY <1>0, <1>1, <1>2
  <2>. QED  BY <1>1, <2>1, <2>2
<1>5. \A k \in 1..Len(s) - 1 : (a \o b)[k] = IF k < i THEN s[k] ELSE s[k + 1]
  BY <1>0, <1>1, <1>2, <1>4
<1>. QED  BY <1>0, <1>3, <1>4, <1>5, LenProperties

(* An element put at the head of a list.                                   *)
LEMMA ConsFacts ==
    ASSUME NEW S, NEW s \in Seq(S), NEW e \in S
    PROVE  /\ <<e>> \o s \in Seq(S) /\ DOMAIN (<<e>> \o s) = 1..Len(s) + 1
           /\ DOMAIN s = 1..Len(s) /\ Len(s) \in Nat
           /\ (<<e>> \o s)[1] = e
           /\ \A i \in 1..Len(s) : (<<e>> \o s)[i + 1] = s[i]
<1>1. <<e>> \in Seq(S) /\ Len(<<e>>) = 1 /\ <<e>>[1] = e
  OBVIOUS
<1>. QED  BY <1>1, ConcatProperties, LenProperties

(* A set of naturals that is not empty has a least element.                *)
LEMMA MinExists ==
    ASSUME NEW S \in SUBSET Nat, S # {}
    PROVE  \E x \in S : \A y \in S : x <= y
<1>1. PICK x \in S : \A y \in S : ~(<<y, x>> \in OpToRel(<, Nat))
  BY NatLessThanWellFounded, WFMin
<1>2. \A y \in S : y \in Nat /\ x \in Nat /\ ~(y < x)
  BY <1>1 DEF OpToRel
<1>3. \A y \in S : x <= y
  BY <1>2
<1>. QED  BY <1>3

(* A move by the same distance keeps places apart.                         *)
LEMMA SamePlace == ASSUME NEW i \in Int, NEW k \in Int, NEW a \in Nat, k + a = i + a PROVE k = i
OBVIOUS

-----------------------------------------------------------------------------
(* The ids of the calls.                                                   *)

(* wsj1_call_search finds the call that has the id, if there is one.       *)
LEMMA CallOfFacts ==
    ASSUME NEW S, calls \in Seq(S), NEW id
    PROVE  /\ CallOf(id) # 0 => CallOf(id) \in DOMAIN calls /\ calls[CallOf(id)].id = id
           /\ CallOf(id) = 0 => \A i \in DOMAIN calls : calls[i].id # id
<1> DEFINE I == {i \in 1..Len(calls) : calls[i].id = id}
<1>0. DOMAIN calls = 1..Len(calls) /\ Len(calls) \in Nat
  BY LenProperties
<1>1. CallOf(id) = IF I # {} THEN Min(I) ELSE 0
  BY DEF CallOf, SelectInSeq
<1>2. ASSUME I # {} PROVE Min(I) \in I
  <2>1. I \subseteq Nat
    BY <1>0
  <2>. QED  BY <1>2, <2>1, MinExists DEF Min
<1>3. 0 \notin I
  BY <1>0
<1>. QED  BY <1>0, <1>1, <1>2, <1>3

LEMMA IntervalCount ==
    ASSUME NEW n \in Nat
    PROVE  IsFiniteSet(1..n) /\ Cardinality(1..n) = n
BY FS_Interval

(* There are more ids than calls that wait.                                *)
LEMMA SomeIdIsFree ==
    ASSUME TypeOK, CallsInv, NEW c \in Calls, got[c].st # "called"
    PROVE  \E id \in 1..MaxGenId : CallOf(id) = 0
<1> SUFFICES ASSUME \A id \in 1..MaxGenId : CallOf(id) # 0 PROVE FALSE
  OBVIOUS
<1> DEFINE S == [id : 1..MaxGenId, of : Calls]
           T == Calls \ {c}
           g == [id \in 1..MaxGenId |-> calls[CallOf(id)].of]
<1>1. calls \in Seq(S)
  BY DEF TypeOK
<1>2. \A id \in 1..MaxGenId : CallOf(id) \in DOMAIN calls /\ calls[CallOf(id)].id = id
  BY <1>1, CallOfFacts
<1>3. \A i \in DOMAIN calls : calls[i] \in S
  BY <1>1, ElementOfSeq, LenProperties
<1>4. \A id \in 1..MaxGenId : calls[CallOf(id)].of \in T
  BY <1>2, <1>3 DEF CallsInv
<1>5. \A i, j \in 1..MaxGenId : i # j => calls[CallOf(i)].of # calls[CallOf(j)].of
  BY <1>2 DEF CallsInv
<1>6. g \in Injection(1..MaxGenId, T)
  BY <1>4, <1>5 DEF Injection, IsInjective
<1>7. IsFiniteSet(T) /\ Cardinality(T) = Cardinality(Calls) - 1
  BY BoundsAssumption, FS_RemoveElement
<1>8. Cardinality(1..MaxGenId) <= Cardinality(T)
  BY <1>6, <1>7, FS_Injection
<1>. QED  BY <1>7, <1>8, BoundsAssumption, IntervalCount, FS_CardinalityType

(* The id given to a call is one that no other call has.                   *)
LEMMA CreatedFacts ==
    ASSUME TypeOK, CallsInv, NEW c \in Calls, got[c].st # "called"
    PROVE  /\ CallCreate.id \in 1..MaxGenId /\ CallCreate.next \in 0..MaxGenId
           /\ \A i \in DOMAIN calls : calls[i].id # CallCreate.id
<1> DEFINE first == IF genid = 0 THEN MaxGenId ELSE genid
           free == {k \in 0..MaxGenId - 1 : CallOf(Tried(first, k)) = 0}
           k0 == CHOOSE k \in free : \A l \in free : k <= l
<1>1. PICK id \in 1..MaxGenId : CallOf(id) = 0
  BY SomeIdIsFree
<1>2. MaxGenId \in Nat /\ first \in 1..MaxGenId
  BY <1>1, BoundsAssumption DEF TypeOK
<1> HIDE DEF first
<1>3. \A k \in 0..MaxGenId - 1 : Tried(first, k) \in 1..MaxGenId
  BY <1>2 DEF Tried
<1>4. \E k \in 0..MaxGenId - 1 : Tried(first, k) = id
  <2>1. CASE id <= first
    <3>1. first - id \in 0..MaxGenId - 1 /\ Tried(first, first - id) = id
      BY <1>2, <2>1 DEF Tried
    <3>. QED  BY <3>1
  <2>2. CASE id > first
    <3>1. /\ first - id + MaxGenId \in 0..MaxGenId - 1
          /\ Tried(first, first - id + MaxGenId) = id
      BY <1>2, <2>2 DEF Tried
    <3>. QED  BY <3>1
  <2>. QED  BY <1>2, <2>1, <2>2
<1>5. free # {} /\ free \subseteq Nat
  BY <1>1, <1>2, <1>4
<1>6. k0 \in free
  <2>1. PICK x \in free : \A y \in free : ~(<<y, x>> \in OpToRel(<, Nat))
    BY <1>5, NatLessThanWellFounded, WFMin
  <2>2. \A y \in free : y \in Nat /\ x \in Nat /\ ~(y < x)
    BY <1>5, <2>1 DEF OpToRel
  <2>3. \A y \in free : x <= y
    BY <2>2
  <2> HIDE DEF free
  <2>. QED  BY <2>3
<1>7. CallCreate = [id |-> Tried(first, k0), next |-> Tried(first, k0) - 1]
  BY DEF CallCreate, first
<1> HIDE DEF k0
<1>8. Tried(first, k0) \in 1..MaxGenId /\ CallOf(Tried(first, k0)) = 0
  BY <1>3, <1>6
<1>9. \A i \in DOMAIN calls : calls[i].id # Tried(first, k0)
  BY <1>8, CallOfFacts DEF TypeOK
<1>. QED  BY <1>2, <1>7, <1>8, <1>9

-----------------------------------------------------------------------------
(* Calls that stay where they are: the calls of up' are calls of up, a     *)
(* places further, and the answers of down' are answers of down, b places  *)
(* further.                                                                *)
LEMMA PlacesKept ==
    ASSUME UpInv, ServedInv, DownInv, UNCHANGED calls,
           DOMAIN up \subseteq Int, DOMAIN up' \subseteq Int,
           DOMAIN down \subseteq Int, DOMAIN down' \subseteq Int,
           up \in Seq(UpMessages),
           NEW a \in Nat, \A i \in DOMAIN up' : IsCall(up'[i]) =>
                            i + a \in DOMAIN up /\ up'[i] = up[i + a],
           NEW b \in Nat, \A i \in DOMAIN down' : IsAnswer(down'[i]) =>
                            i + b \in DOMAIN down /\ down'[i] = down[i + b],
           \A c \in Calls : /\ wsreq'[c].st \in {"running", "kept"} =>
                                 /\ wsreq[c].st \in {"running", "kept"}
                                 /\ wsreq'[c].id = wsreq[c].id
                            /\ wsreq[c].st \in {"none", "ended"} =>
                                 wsreq'[c].st \in {"none", "ended"}
    PROVE  UpInv' /\ ServedInv' /\ DownInv'
<1>0. \A i \in DOMAIN up : IsCall(up[i]) => up[i].of \in Calls
  <2>1. \A i \in DOMAIN up : up[i] \in UpMessages
    BY ElementOfSeq, LenProperties
  <2>. QED  BY <2>1 DEF UpMessages, IsCall
<1>1. UpInv'
  <2> SUFFICES ASSUME NEW i \in DOMAIN up', IsCall(up'[i])
               PROVE  /\ Pending(up[i].id, up[i].of)'
                      /\ wsreq'[up'[i].of].st \in {"none", "ended"}
                      /\ \A k \in DOMAIN up' : IsCall(up'[k]) /\ up'[k].of = up'[i].of => k = i
                      /\ \A k \in DOMAIN down' : IsAnswer(down'[k]) => down'[k].of # up'[i].of
    BY DEF UpInv, IsCall, IsAnswer
  <2>1. i + a \in DOMAIN up /\ up'[i] = up[i + a] /\ IsCall(up[i + a])
    OBVIOUS
  <2>2. Pending(up[i].id, up[i].of)'
    BY <2>1 DEF UpInv, Pending
  <2>3. wsreq'[up'[i].of].st \in {"none", "ended"}
    BY <1>0, <2>1 DEF UpInv
  <2>4. ASSUME NEW k \in DOMAIN up', IsCall(up'[k]), up'[k].of = up'[i].of PROVE k = i
    <3>1. k + a = i + a
      BY <2>1, <2>4 DEF UpInv
    <3>. QED  BY <3>1
  <2>5. ASSUME NEW k \in DOMAIN down', IsAnswer(down'[k]) PROVE down'[k].of # up'[i].of
    BY <2>1, <2>5 DEF UpInv
  <2>. QED  BY <2>2, <2>3, <2>4, <2>5
<1>2. ServedInv'
  <2> SUFFICES ASSUME NEW c \in Calls, wsreq'[c].st \in {"running", "kept"}
               PROVE  /\ Pending(wsreq[c].id, c)'
                      /\ \A k \in DOMAIN down' : IsAnswer(down'[k]) => down'[k].of # c
    BY DEF ServedInv, IsAnswer
  <2>1. Pending(wsreq[c].id, c)'
    BY DEF ServedInv, Pending
  <2>2. ASSUME NEW k \in DOMAIN down', IsAnswer(down'[k]) PROVE down'[k].of # c
    BY <2>2 DEF ServedInv
  <2>. QED  BY <2>1, <2>2
<1>3. DownInv'
  <2> SUFFICES ASSUME NEW i \in DOMAIN down', IsAnswer(down'[i])
               PROVE  /\ Pending(down[i].id, down[i].of)'
                      /\ \A k \in DOMAIN down' : IsAnswer(down'[k]) /\ down'[k].of = down'[i].of
                           => k = i
    BY DEF DownInv, IsAnswer
  <2>1. i + b \in DOMAIN down /\ down'[i] = down[i + b] /\ IsAnswer(down[i + b])
    OBVIOUS
  <2>2. Pending(down[i].id, down[i].of)'
    BY <2>1 DEF DownInv, Pending
  <2>3. ASSUME NEW k \in DOMAIN down', IsAnswer(down'[k]), down'[k].of = down'[i].of PROVE k = i
    <3>1. k + b = i + b
      BY <2>1, <2>3 DEF DownInv
    <3>. QED  BY <3>1
  <2>. QED  BY <2>2, <2>3
<1>. QED  BY <1>1, <1>2, <1>3

(* The references, when no request begins or ends and the service stays.   *)
LEMMA CountsKept ==
    ASSUME CountsInv, UNCHANGED <<sws, wsj1, aws, msg>>, watching' => aws > 0,
           \A c \in Calls : wsreq'[c].st \in {"running", "kept", "replied"} <=>
                            wsreq[c].st \in {"running", "kept", "replied"}
    PROVE  CountsInv'
<1>1. Users' = Users
  BY DEF Users
<1>. QED  BY <1>1 DEF CountsInv

LEMMA UsersCount ==
    /\ IsFiniteSet(Users) /\ Cardinality(Users) \in Nat
    /\ Cardinality(Users) <= Cardinality(Calls) /\ Cardinality(Calls) \in Nat
<1>1. Users \in SUBSET Calls
  BY DEF Users
<1>. QED  BY <1>1, BoundsAssumption, FS_Subset, FS_CardinalityType

(* The first part of a sequence of messages.                               *)
LEMMA SeqDomains ==
    ASSUME MessagesInv
    PROVE  /\ DOMAIN up = 1..Len(up) /\ Len(up) \in Nat
           /\ DOMAIN down = 1..Len(down) /\ Len(down) \in Nat
           /\ \A i \in DOMAIN up : up[i] \in UpMessages
           /\ \A i \in DOMAIN down : down[i] \in DownMessages
BY ElementOfSeq, LenProperties DEF MessagesInv

LEMMA LoseStep == ASSUME IInv, Lose PROVE IInv'
<1>1. PICK n \in 0..Len(up) : up' = SubSeq(up, 1, n)
  BY DEF Lose
<1>2. PICK m \in 0..Len(down) : down' = SubSeq(down, 1, m)
  BY DEF Lose
<1>3. link' = "lost" /\ UNCHANGED <<clientVars, serviceVars>>
  BY DEF Lose
<1>4. /\ up' \in Seq(UpMessages) /\ DOMAIN up' = 1..n /\ DOMAIN up = 1..Len(up)
      /\ Len(up) \in Nat /\ \A i \in 1..n : up'[i] = up[i]
  BY <1>1, PrefixFacts DEF IInv, MessagesInv
<1>5. /\ down' \in Seq(DownMessages) /\ DOMAIN down' = 1..m /\ DOMAIN down = 1..Len(down)
      /\ Len(down) \in Nat /\ \A i \in 1..m : down'[i] = down[i]
  BY <1>2, PrefixFacts DEF IInv, MessagesInv
<1>6. TypeOK'
  BY <1>3 DEF IInv, TypeOK, clientVars, serviceVars
<1>7. MessagesInv'
  BY <1>4, <1>5 DEF MessagesInv
<1>8. CountsInv'
  BY <1>3, CountsKept DEF IInv, CountsInv, serviceVars
<1>9. CallsInv'
  BY <1>3 DEF IInv, CallsInv, clientVars
<1>10. UpInv' /\ ServedInv' /\ DownInv'
  <2>1. \A i \in DOMAIN up' : i + 0 \in DOMAIN up /\ up'[i] = up[i + 0]
    BY <1>4
  <2>2. \A i \in DOMAIN down' : i + 0 \in DOMAIN down /\ down'[i] = down[i + 0]
    BY <1>5
  <2>3. calls' = calls /\ wsreq' = wsreq
    BY <1>3 DEF clientVars, serviceVars
  <2>. QED  BY <1>4, <1>5, <2>1, <2>2, <2>3, PlacesKept DEF IInv, MessagesInv
<1>. QED  BY <1>6, <1>7, <1>8, <1>9, <1>10 DEF IInv

(* What is sent by the service comes last, if it is sent.                  *)
LEMMA SentFacts ==
    ASSUME MessagesInv, NEW m \in DownMessages, Send(m)
    PROVE  /\ down' \in Seq(DownMessages)
           /\ DOMAIN down = 1..Len(down) /\ Len(down) \in Nat
           /\ DOMAIN down' = 1..Len(down) \/ DOMAIN down' = 1..Len(down) + 1
           /\ \A i \in 1..Len(down) : down'[i] = down[i]
           /\ \A i \in DOMAIN down' : i \in DOMAIN down \/ (i = Len(down) + 1 /\ down'[i] = m)
<1>1. CASE sws = "open" /\ link = "up"
  <2>1. down' = Append(down, m)
    BY <1>1 DEF Send
  <2>. QED  BY <2>1, AppendFacts DEF MessagesInv
<1>2. CASE ~(sws = "open" /\ link = "up")
  <2>1. down' = down
    BY <1>2 DEF Send
  <2>. QED  BY <2>1, SeqDomains DEF MessagesInv
<1>. QED  BY <1>1, <1>2

LEMMA SendOtherStep == ASSUME IInv, SendOther PROVE IInv'
<1>0. PICK code \in {"bad", "event"} : up' = Append(up, [code |-> code, id |-> 0, of |-> "none"])
  BY DEF SendOther
<1> DEFINE m == [code |-> code, id |-> 0, of |-> "none"]
<1>1. m \in UpMessages /\ ~IsCall(m)
  BY DEF UpMessages, IsCall
<1>2. up' = Append(up, m) /\ down' = down /\ link' = link /\ UNCHANGED <<clientVars, serviceVars>>
  BY <1>0 DEF SendOther
<1> HIDE DEF m
<1>3. /\ up' \in Seq(UpMessages) /\ DOMAIN up' = 1..Len(up) + 1 /\ DOMAIN up = 1..Len(up)
      /\ Len(up) \in Nat /\ \A i \in 1..Len(up) : up'[i] = up[i]
      /\ up'[Len(up) + 1] = m
  BY <1>1, <1>2, AppendFacts DEF IInv, MessagesInv
<1>4. TypeOK'
  BY <1>2 DEF IInv, TypeOK, clientVars, serviceVars
<1>5. MessagesInv'
  BY <1>2, <1>3 DEF IInv, MessagesInv
<1>6. CountsInv'
  BY <1>2, CountsKept DEF IInv, CountsInv, serviceVars
<1>7. CallsInv'
  BY <1>2 DEF IInv, CallsInv, clientVars
<1>8. UpInv' /\ ServedInv' /\ DownInv'
  <2>1. \A i \in DOMAIN up' : IsCall(up'[i]) => i + 0 \in DOMAIN up /\ up'[i] = up[i + 0]
    BY <1>1, <1>3
  <2>2. /\ DOMAIN down \subseteq Int /\ DOMAIN down' \subseteq Int
        /\ \A i \in DOMAIN down' : i + 0 \in DOMAIN down /\ down'[i] = down[i + 0]
    BY <1>2, SeqDomains DEF IInv
  <2>3. calls' = calls /\ wsreq' = wsreq
    BY <1>2 DEF clientVars, serviceVars
  <2>4. DOMAIN up \subseteq Int /\ DOMAIN up' \subseteq Int
    BY <1>3
  <2>5. UpInv /\ ServedInv /\ DownInv /\ up \in Seq(UpMessages)
    BY DEF IInv, MessagesInv
  <2>6. 0 \in Nat
    OBVIOUS
  <2>. QED  BY ONLY <2>1, <2>2, <2>3, <2>4, <2>5, <2>6, PlacesKept
<1>. QED  BY <1>4, <1>5, <1>6, <1>7, <1>8 DEF IInv

LEMMA ClientHangupStep == ASSUME IInv, ClientHangup PROVE IInv'
<1>1. /\ cws' = FALSE /\ link' = "lost" /\ down' = <<>>
      /\ UNCHANGED <<up, genid, calls, got, serviceVars>>
  BY DEF ClientHangup
<1>2. TypeOK'
  BY <1>1 DEF IInv, TypeOK, serviceVars
<1>3. MessagesInv'
  BY <1>1 DEF IInv, MessagesInv
<1>4. CountsInv'
  BY <1>1, CountsKept DEF IInv, CountsInv, serviceVars
<1>5. CallsInv'
  BY <1>1 DEF IInv, CallsInv
<1>6. UpInv' /\ ServedInv' /\ DownInv'
  <2>1. /\ DOMAIN up \subseteq Int /\ DOMAIN up' \subseteq Int /\ DOMAIN down \subseteq Int
        /\ \A i \in DOMAIN up' : i + 0 \in DOMAIN up /\ up'[i] = up[i + 0]
    BY <1>1, SeqDomains DEF IInv
  <2>2. DOMAIN down' = {}
    BY <1>1
  <2>3. calls' = calls /\ wsreq' = wsreq
    BY <1>1 DEF serviceVars
  <2>4. \A i \in DOMAIN down' : i + 0 \in DOMAIN down /\ down'[i] = down[i + 0]
    BY <2>2
  <2>. QED  BY <2>1, <2>2, <2>3, <2>4, PlacesKept DEF IInv, MessagesInv
<1>. QED  BY <1>2, <1>3, <1>4, <1>5, <1>6 DEF IInv

LEMMA ClientEventStep == ASSUME IInv, ClientEvent PROVE IInv'
<1>1. /\ down # <<>> /\ down' = Tail(down) /\ UNCHANGED <<link, up, clientVars, serviceVars>>
  BY DEF ClientEvent
<1>2. /\ down' \in Seq(DownMessages) /\ DOMAIN down' = 1..Len(down) - 1
      /\ DOMAIN down = 1..Len(down) /\ Len(down) \in Nat \ {0}
      /\ \A i \in 1..Len(down) - 1 : down'[i] = down[i + 1]
  BY <1>1, TailFacts DEF IInv, MessagesInv
<1>3. TypeOK'
  BY <1>1 DEF IInv, TypeOK, clientVars, serviceVars
<1>4. MessagesInv'
  BY <1>1, <1>2 DEF IInv, MessagesInv
<1>5. CountsInv'
  BY <1>1, CountsKept DEF IInv, CountsInv, serviceVars
<1>6. CallsInv'
  BY <1>1 DEF IInv, CallsInv, clientVars
<1>7. UpInv' /\ ServedInv' /\ DownInv'
  <2>1. /\ DOMAIN up \subseteq Int /\ DOMAIN up' \subseteq Int
        /\ \A i \in DOMAIN up' : i + 0 \in DOMAIN up /\ up'[i] = up[i + 0]
    BY <1>1, SeqDomains DEF IInv
  <2>2. /\ DOMAIN down' \subseteq Int /\ DOMAIN down \subseteq Int
        /\ \A i \in DOMAIN down' : i + 1 \in DOMAIN down /\ down'[i] = down[i + 1]
    BY <1>2
  <2>3. calls' = calls /\ wsreq' = wsreq
    BY <1>1 DEF clientVars, serviceVars
  <2>. QED  BY <2>1, <2>2, <2>3, PlacesKept DEF IInv, MessagesInv
<1>. QED  BY <1>3, <1>4, <1>5, <1>6, <1>7 DEF IInv

LEMMA ServiceHangupStep == ASSUME IInv, ServiceHangup PROVE IInv'
<1>1. /\ sws = "open" /\ Release(1, 0) /\ sws' = (IF wsj1' = 0 THEN "destroyed" ELSE "closed")
      /\ link' = "lost" /\ up' = <<>> /\ UNCHANGED <<down, clientVars, wsreq, msg>>
  BY DEF ServiceHangup, Destroyed
<1> DEFINE n == Cardinality(Users)
<1>2. n \in Nat /\ n <= Cardinality(Calls) /\ Cardinality(Calls) \in Nat
  BY UsersCount
<1>3. aws = n + 1 /\ wsj1 = n + 1
  BY <1>1, <1>2 DEF IInv, CountsInv
<1>4. /\ aws' = n /\ wsj1' = n + (IF n = 0 THEN 0 ELSE 1)
      /\ watching' = (watching /\ n # 0)
      /\ cleaned' = IF n = 0 THEN cleaned + 1 ELSE cleaned
  BY <1>1, <1>2, <1>3 DEF Release
<1> HIDE DEF n
<1>5. TypeOK'
  <2>1. wsj1' \in 0..Cardinality(Calls) + 1 /\ aws' \in 0..Cardinality(Calls) + 1
    BY <1>2, <1>4
  <2>2. watching' \in BOOLEAN
    BY <1>4
  <2>3. cleaned' \in Nat /\ sws' \in {"open", "closed", "destroyed", "crashed"}
    BY <1>1, <1>4 DEF IInv, TypeOK
  <2>. QED  BY <1>1, <2>1, <2>2, <2>3 DEF IInv, TypeOK, clientVars
<1>6. MessagesInv'
  BY <1>1 DEF IInv, MessagesInv
<1>7. CountsInv'
  <2>1. Users' = Users
    BY <1>1 DEF Users
  <2>2. Cardinality(Users') = n
    BY <2>1 DEF n
  <2>3. /\ sws' # "open"
        /\ sws' \in {"destroyed", "crashed"} <=> wsj1' = 0
    BY <1>1
  <2>4. watching' => aws' > 0
    <3>1. watching' => n # 0
      BY <1>4, Zenon
    <3>. QED  BY <1>2, <1>4, <3>1
  <2>5. \A c \in Users' : msg'[c] = 1
    BY <1>1, <2>1 DEF IInv, CountsInv
  <2>. QED  BY <1>2, <1>4, <2>2, <2>3, <2>4, <2>5 DEF CountsInv
<1>8. CallsInv'
  BY <1>1 DEF IInv, CallsInv, clientVars
<1>9. UpInv' /\ ServedInv' /\ DownInv'
  <2>1. DOMAIN up' = {}
    BY <1>1
  <2>2. /\ DOMAIN up \subseteq Int /\ DOMAIN down' \subseteq Int /\ DOMAIN down \subseteq Int
        /\ \A i \in DOMAIN down' : i + 0 \in DOMAIN down /\ down'[i] = down[i + 0]
    BY <1>1, SeqDomains DEF IInv
  <2>3. calls' = calls /\ wsreq' = wsreq
    BY <1>1 DEF clientVars
  <2>4. \A i \in DOMAIN up' : i + 0 \in DOMAIN up /\ up'[i] = up[i + 0]
    BY <2>1
  <2>. QED  BY <2>1, <2>2, <2>3, <2>4, PlacesKept DEF IInv, MessagesInv
<1>. QED  BY <1>5, <1>6, <1>7, <1>8, <1>9 DEF IInv

LEMMA BadTextStep == ASSUME IInv, wsj1_on_text_bad PROVE IInv'
<1> DEFINE m == [code |-> "close", id |-> 0, of |-> "none"]
<1>1. m \in DownMessages /\ ~IsAnswer(m)
  BY DEF DownMessages, IsAnswer, Answers
<1>2. /\ up # <<>> /\ up' = Tail(up) /\ Send(m)
      /\ UNCHANGED <<link, clientVars, sws, watching, cleaned, wsreq, msg, wsj1, aws>>
  BY DEF wsj1_on_text_bad, ServiceRead
<1> HIDE DEF m
<1>3. /\ up' \in Seq(UpMessages) /\ DOMAIN up' = 1..Len(up) - 1
      /\ DOMAIN up = 1..Len(up) /\ Len(up) \in Nat \ {0}
      /\ \A i \in 1..Len(up) - 1 : up'[i] = up[i + 1]
  BY <1>2, TailFacts DEF IInv, MessagesInv
<1>4. /\ down' \in Seq(DownMessages)
      /\ DOMAIN down = 1..Len(down) /\ Len(down) \in Nat
      /\ DOMAIN down' = 1..Len(down) \/ DOMAIN down' = 1..Len(down) + 1
      /\ \A i \in 1..Len(down) : down'[i] = down[i]
      /\ \A i \in DOMAIN down' : i \in DOMAIN down \/ (i = Len(down) + 1 /\ down'[i] = m)
  BY <1>1, <1>2, SentFacts DEF IInv
<1>5. TypeOK'
  BY <1>2 DEF IInv, TypeOK, clientVars
<1>6. MessagesInv'
  BY <1>3, <1>4 DEF MessagesInv
<1>7. CountsInv'
  BY <1>2, CountsKept DEF IInv, CountsInv
<1>8. CallsInv'
  BY <1>2 DEF IInv, CallsInv, clientVars
<1>9. UpInv' /\ ServedInv' /\ DownInv'
  <2>1. /\ DOMAIN up \subseteq Int /\ DOMAIN up' \subseteq Int
        /\ \A i \in DOMAIN up' : i + 1 \in DOMAIN up /\ up'[i] = up[i + 1]
    BY <1>3
  <2>2. /\ DOMAIN down' \subseteq Int /\ DOMAIN down \subseteq Int
        /\ \A i \in DOMAIN down' : IsAnswer(down'[i]) =>
             i + 0 \in DOMAIN down /\ down'[i] = down[i + 0]
    BY <1>1, <1>4
  <2>3. calls' = calls /\ wsreq' = wsreq
    BY <1>2 DEF clientVars
  <2>. QED  BY <2>1, <2>2, <2>3, PlacesKept DEF IInv, MessagesInv
<1>. QED  BY <1>5, <1>6, <1>7, <1>8, <1>9 DEF IInv

(* The process of the service ends: only the client is left.               *)
LEMMA EventTextStep == ASSUME IInv, wsj1_on_text_event PROVE IInv'
<1>1. /\ sws' = "crashed" /\ link' = "lost" /\ up' = <<>>
      /\ wsreq' = [c \in Calls |-> [st |-> "ended", id |-> 0]]
      /\ msg' = [c \in Calls |-> 0]
      /\ wsj1' = 0 /\ aws' = 0 /\ watching' = FALSE
      /\ UNCHANGED <<clientVars, cleaned>>
  BY DEF wsj1_on_text_event
<1>2. PICK n \in 0..Len(down) : down' = SubSeq(down, 1, n)
  BY DEF wsj1_on_text_event
<1>3. /\ down' \in Seq(DownMessages) /\ DOMAIN down' = 1..n /\ DOMAIN down = 1..Len(down)
      /\ Len(down) \in Nat /\ \A i \in 1..n : down'[i] = down[i]
  BY <1>2, PrefixFacts DEF IInv, MessagesInv
<1>4. TypeOK'
  <2>1. Cardinality(Calls) \in Nat /\ MaxGenId \in Nat
    BY UsersCount, BoundsAssumption
  <2>2. 0 \in 0..Cardinality(Calls) + 1 /\ 0 \in 0..MaxGenId
    BY <2>1
  <2>3. wsreq' \in [Calls -> [st : {"none", "running", "kept", "replied", "ended"}, id : 0..MaxGenId]]
    BY <1>1, <2>2
  <2>4. msg' \in [Calls -> 0..1]
    BY <1>1
  <2>. QED  BY <1>1, <2>2, <2>3, <2>4 DEF IInv, TypeOK, clientVars
<1>5. MessagesInv'
  <2>1. up' \in Seq(UpMessages)
    BY <1>1, EmptySeq
  <2>. QED  BY <1>3, <2>1 DEF MessagesInv
<1>6. CountsInv'
  <2>1. Users' = {}
    BY <1>1 DEF Users
  <2>2. Cardinality(Users') = 0
    BY <2>1, FS_EmptySet
  <2>. QED  BY <1>1, <2>1, <2>2 DEF CountsInv
<1>7. CallsInv'
  BY <1>1 DEF IInv, CallsInv, clientVars
<1>8. UpInv' /\ ServedInv'
  BY <1>1 DEF UpInv, ServedInv
<1>9. DownInv'
  <2>1. \A i \in DOMAIN down' : i \in DOMAIN down /\ down'[i] = down[i]
    BY <1>3
  <2>2. calls' = calls
    BY <1>1 DEF clientVars
  <2>. QED  BY <2>1, <2>2 DEF IInv, DownInv, Pending, IsAnswer
<1>. QED  BY <1>4, <1>5, <1>6, <1>7, <1>8, <1>9 DEF IInv

LEMMA EventStep == ASSUME IInv, aws_on_event PROVE IInv'
<1> DEFINE m == [code |-> "event", id |-> 0, of |-> "none"]
<1>1. m \in DownMessages /\ ~IsAnswer(m)
  BY DEF DownMessages, IsAnswer, Answers
<1>2. Send(m) /\ UNCHANGED <<link, up, clientVars, serviceVars>>
  BY DEF aws_on_event
<1> HIDE DEF m
<1>3. /\ down' \in Seq(DownMessages)
      /\ DOMAIN down = 1..Len(down) /\ Len(down) \in Nat
      /\ DOMAIN down' = 1..Len(down) \/ DOMAIN down' = 1..Len(down) + 1
      /\ \A i \in 1..Len(down) : down'[i] = down[i]
      /\ \A i \in DOMAIN down' : i \in DOMAIN down \/ (i = Len(down) + 1 /\ down'[i] = m)
  BY <1>1, <1>2, SentFacts DEF IInv
<1>4. TypeOK'
  BY <1>2 DEF IInv, TypeOK, clientVars, serviceVars
<1>5. MessagesInv'
  BY <1>2, <1>3 DEF IInv, MessagesInv
<1>6. CountsInv'
  BY <1>2, CountsKept DEF IInv, CountsInv, serviceVars
<1>7. CallsInv'
  BY <1>2 DEF IInv, CallsInv, clientVars
<1>8. UpInv' /\ ServedInv' /\ DownInv'
  <2>1. /\ DOMAIN up \subseteq Int /\ DOMAIN up' \subseteq Int
        /\ \A i \in DOMAIN up' : i + 0 \in DOMAIN up /\ up'[i] = up[i + 0]
    BY <1>2, SeqDomains DEF IInv
  <2>2. /\ DOMAIN down' \subseteq Int /\ DOMAIN down \subseteq Int
        /\ \A i \in DOMAIN down' : IsAnswer(down'[i]) =>
             i + 0 \in DOMAIN down /\ down'[i] = down[i + 0]
    BY <1>1, <1>3
  <2>3. calls' = calls /\ wsreq' = wsreq
    BY <1>2 DEF clientVars, serviceVars
  <2>. QED  BY <2>1, <2>2, <2>3, PlacesKept DEF IInv, MessagesInv
<1>. QED  BY <1>4, <1>5, <1>6, <1>7, <1>8 DEF IInv

(* A step of a binding that neither begins, replies nor ends the request.  *)
LEMMA BindingStep ==
    ASSUME IInv, NEW c \in Calls, wsreq_addref(c) \/ wsreq_subscribe(c) \/ wsreq_unsubscribe(c)
    PROVE  IInv'
<1>1. /\ UNCHANGED <<link, up, down, clientVars, sws, wsj1, aws, msg, cleaned>>
      /\ wsreq[c].st \in {"running", "kept"} /\ watching' \in BOOLEAN
      /\ wsreq' = wsreq \/ wsreq' = [wsreq EXCEPT ![c].st = "kept"]
  <2>1. /\ UNCHANGED <<link, up, down, clientVars, sws, wsj1, aws, msg, cleaned>>
        /\ wsreq[c].st \in {"running", "kept"}
        /\ wsreq' = wsreq \/ wsreq' = [wsreq EXCEPT ![c].st = "kept"]
    BY DEF wsreq_addref, wsreq_subscribe, wsreq_unsubscribe
  <2>2. watching' \in BOOLEAN
    BY Zenon DEF wsreq_addref, wsreq_subscribe, wsreq_unsubscribe, IInv, TypeOK
  <2>. QED  BY <2>1, <2>2
<1>2. /\ wsreq' \in [Calls -> [st : {"none", "running", "kept", "replied", "ended"},
                               id : 0..MaxGenId]]
      /\ wsreq'[c].st \in {"running", "kept"} /\ wsreq'[c].id = wsreq[c].id
      /\ \A d \in Calls \ {c} : wsreq'[d] = wsreq[d]
  <2>1. wsreq \in [Calls -> [st : {"none", "running", "kept", "replied", "ended"},
                              id : 0..MaxGenId]]
    BY DEF IInv, TypeOK
  <2>2. wsreq' = wsreq \/ wsreq' = [wsreq EXCEPT ![c].st = "kept"]
    BY <1>1
  <2>3. wsreq[c].st \in {"running", "kept"}
    BY <1>1
  <2>. QED  BY ONLY <2>1, <2>2, <2>3, c \in Calls, SMTT(20)
<1>3. TypeOK'
  BY <1>1, <1>2 DEF IInv, TypeOK, clientVars
<1>4. MessagesInv'
  BY <1>1 DEF IInv, MessagesInv
<1>5. CountsInv'
  <2>1. aws > 0
    <3>1. c \in Users
      BY <1>1 DEF Users
    <3>2. Cardinality(Users) # 0
      BY <3>1, UsersCount, FS_EmptySet
    <3>. QED  BY <3>2, UsersCount DEF IInv, CountsInv
  <2>. QED  BY <1>1, <1>2, <2>1, CountsKept DEF IInv
<1>6. CallsInv'
  BY <1>1 DEF IInv, CallsInv, clientVars
<1>7. UpInv' /\ ServedInv' /\ DownInv'
  <2>1. /\ DOMAIN up \subseteq Int /\ DOMAIN up' \subseteq Int
        /\ \A i \in DOMAIN up' : i + 0 \in DOMAIN up /\ up'[i] = up[i + 0]
    BY <1>1, SeqDomains DEF IInv
  <2>2. /\ DOMAIN down' \subseteq Int /\ DOMAIN down \subseteq Int
        /\ \A i \in DOMAIN down' : i + 0 \in DOMAIN down /\ down'[i] = down[i + 0]
    BY <1>1, SeqDomains DEF IInv
  <2>3. /\ calls' = calls
        /\ \A d \in Calls : /\ wsreq'[d].st \in {"running", "kept"} =>
                                 /\ wsreq[d].st \in {"running", "kept"}
                                 /\ wsreq'[d].id = wsreq[d].id
                            /\ wsreq[d].st \in {"none", "ended"} =>
                                 wsreq'[d].st \in {"none", "ended"}
    BY <1>1, <1>2 DEF clientVars
  <2>. QED  BY <2>1, <2>2, <2>3, PlacesKept DEF IInv, MessagesInv
<1>. QED  BY <1>3, <1>4, <1>5, <1>6, <1>7 DEF IInv

LEMMA UnrefStep == ASSUME IInv, NEW c \in Calls, wsreq_unref(c) PROVE IInv'
<1>1. /\ wsreq[c].st = "replied" /\ Release(1, 1)
      /\ wsreq' = [wsreq EXCEPT ![c] = [st |-> "ended", id |-> 0]]
      /\ msg' = [msg EXCEPT ![c] = 0]
      /\ sws' = (IF wsj1' = 0 THEN "destroyed" ELSE sws)
      /\ UNCHANGED <<link, up, down, clientVars>>
  BY DEF wsreq_unref, Released, Destroyed
<1>2. /\ wsreq' \in [Calls -> [st : {"none", "running", "kept", "replied", "ended"},
                               id : 0..MaxGenId]]
      /\ wsreq'[c].st = "ended" /\ \A d \in Calls \ {c} : wsreq'[d] = wsreq[d]
      /\ msg' \in [Calls -> 0..1] /\ \A d \in Calls \ {c} : msg'[d] = msg[d]
  BY <1>1, BoundsAssumption DEF IInv, TypeOK
<1>3. c \in Users /\ Users' = Users \ {c}
  BY <1>1, <1>2 DEF Users
<1> DEFINE n == Cardinality(Users)
           o == IF sws = "open" THEN 1 ELSE 0
<1>4. n \in Nat \ {0} /\ n <= Cardinality(Calls) /\ Cardinality(Calls) \in Nat
  <2>1. n # 0
    BY <1>3, UsersCount, FS_EmptySet
  <2>. QED  BY <2>1, UsersCount
<1>5. Cardinality(Users') = n - 1
  BY <1>3, UsersCount, FS_RemoveElement
<1>6. aws = n + o /\ wsj1 = n + 1 /\ o \in 0..1
  BY <1>4 DEF IInv, CountsInv
<1>7. /\ aws' = n - 1 + o /\ wsj1' = n - (IF n + o = 1 THEN 1 ELSE 0)
      /\ watching' = (watching /\ n + o # 1)
      /\ cleaned' = IF n + o = 1 THEN cleaned + 1 ELSE cleaned
  BY <1>1, <1>4, <1>6 DEF Release
<1>8. sws \notin {"destroyed", "crashed"}
  BY <1>4, <1>6 DEF IInv, CountsInv
<1>9. sws' = "open" <=> sws = "open"
  BY <1>1, <1>4, <1>6, <1>7
<1> HIDE DEF n
<1>10. TypeOK'
  <2>1. wsj1' \in 0..Cardinality(Calls) + 1 /\ aws' \in 0..Cardinality(Calls) + 1
    BY <1>4, <1>6, <1>7
  <2>2. watching' \in BOOLEAN
    BY <1>7
  <2>3. cleaned' \in Nat /\ sws' \in {"open", "closed", "destroyed", "crashed"}
    BY <1>1, <1>7 DEF IInv, TypeOK
  <2>. QED  BY <1>1, <1>2, <2>1, <2>2, <2>3 DEF IInv, TypeOK, clientVars
<1>11. MessagesInv'
  BY <1>1 DEF IInv, MessagesInv
<1>12. CountsInv'
  <2>1. aws' = Cardinality(Users') + (IF sws' = "open" THEN 1 ELSE 0)
    BY <1>4, <1>5, <1>7, <1>9
  <2>2. wsj1' = Cardinality(Users') + (IF aws' = 0 THEN 0 ELSE 1)
    BY <1>4, <1>5, <1>6, <1>7
  <2>3. sws' \in {"destroyed", "crashed"} <=> wsj1' = 0
    BY <1>1, <1>8
  <2>4. watching' => aws' > 0
    <3>1. watching' => n + o # 1
      BY <1>7, Zenon
    <3>. QED  BY <1>4, <1>6, <1>7, <3>1
  <2>5. \A d \in Users' : msg'[d] = 1
    BY <1>2, <1>3 DEF IInv, CountsInv, Users
  <2>. QED  BY <2>1, <2>2, <2>3, <2>4, <2>5 DEF CountsInv
<1>13. CallsInv'
  BY <1>1 DEF IInv, CallsInv, clientVars
<1>14. UpInv' /\ ServedInv' /\ DownInv'
  <2>1. /\ DOMAIN up \subseteq Int /\ DOMAIN up' \subseteq Int
        /\ \A i \in DOMAIN up' : i + 0 \in DOMAIN up /\ up'[i] = up[i + 0]
    BY <1>1, SeqDomains DEF IInv
  <2>2. /\ DOMAIN down' \subseteq Int /\ DOMAIN down \subseteq Int
        /\ \A i \in DOMAIN down' : i + 0 \in DOMAIN down /\ down'[i] = down[i + 0]
    BY <1>1, SeqDomains DEF IInv
  <2>3. /\ calls' = calls
        /\ \A d \in Calls : /\ wsreq'[d].st \in {"running", "kept"} =>
                                 /\ wsreq[d].st \in {"running", "kept"}
                                 /\ wsreq'[d].id = wsreq[d].id
                            /\ wsreq[d].st \in {"none", "ended"} =>
                                 wsreq'[d].st \in {"none", "ended"}
    BY <1>1, <1>2 DEF clientVars
  <2>. QED  BY <2>1, <2>2, <2>3, PlacesKept DEF IInv, MessagesInv
<1>. QED  BY <1>10, <1>11, <1>12, <1>13, <1>14 DEF IInv

(* The service takes a call: it goes from under way to served.             *)
LEMMA OnCallStep == ASSUME IInv, aws_on_call PROVE IInv'
<1>1. /\ sws = "open" /\ up # <<>> /\ Head(up).code = "call" /\ up' = Tail(up)
      /\ UNCHANGED <<link, clientVars, sws, watching, cleaned, down>>
      /\ wsreq' = [wsreq EXCEPT ![Head(up).of] = [st |-> "running", id |-> Head(up).id]]
      /\ msg' = [msg EXCEPT ![Head(up).of] = 1]
      /\ wsj1' = wsj1 + 1 /\ aws' = aws + 1
  BY DEF aws_on_call, ServiceRead, Held
<1>2. /\ up' \in Seq(UpMessages) /\ Head(up) = up[1] /\ up[1] \in UpMessages
      /\ DOMAIN up = 1..Len(up) /\ Len(up) \in Nat \ {0} /\ 1 \in DOMAIN up
      /\ DOMAIN up' = 1..Len(up) - 1
      /\ \A i \in 1..Len(up) - 1 : up'[i] = up[i + 1]
  BY <1>1, TailFacts DEF IInv, MessagesInv
<1>3. IsCall(up[1]) /\ up[1].of \in Calls /\ up[1].id \in 1..MaxGenId
  BY <1>1, <1>2 DEF IsCall, UpMessages
<1>4. PICK c \in Calls : c = up[1].of
  BY <1>3
<1>5. /\ wsreq' \in [Calls -> [st : {"none", "running", "kept", "replied", "ended"},
                               id : 0..MaxGenId]]
      /\ wsreq'[c].st = "running" /\ wsreq'[c].id = up[1].id
      /\ \A d \in Calls \ {c} : wsreq'[d] = wsreq[d]
      /\ msg' \in [Calls -> 0..1] /\ msg'[c] = 1 /\ \A d \in Calls \ {c} : msg'[d] = msg[d]
  BY <1>1, <1>2, <1>3, <1>4 DEF IInv, TypeOK
<1>6. /\ Pending(up[1].id, c) /\ wsreq[c].st \in {"none", "ended"}
      /\ \A k \in DOMAIN up : IsCall(up[k]) /\ up[k].of = c => k = 1
      /\ \A k \in DOMAIN down : IsAnswer(down[k]) => down[k].of # c
  BY <1>2, <1>3, <1>4 DEF IInv, UpInv
<1>7. c \notin Users /\ Users' = Users \cup {c}
  BY <1>5, <1>6 DEF Users
<1>8. Cardinality(Users') = Cardinality(Users) + 1
  BY <1>7, UsersCount, FS_AddElement
<1>9. Cardinality(Users) + 1 <= Cardinality(Calls)
  <2>1. Users' \in SUBSET Calls
    BY DEF Users
  <2>. QED  BY <1>8, <2>1, BoundsAssumption, FS_Subset, UsersCount
<1>10. CountsInv'
  <2>1. /\ aws' = Cardinality(Users') + (IF sws' = "open" THEN 1 ELSE 0)
        /\ wsj1' = Cardinality(Users') + (IF aws' = 0 THEN 0 ELSE 1)
        /\ wsj1' # 0 /\ sws' = "open" /\ aws' > 0
    BY <1>1, <1>8, UsersCount DEF IInv, CountsInv
  <2>2. \A d \in Users' : msg'[d] = 1
    BY <1>5, <1>7 DEF IInv, CountsInv, Users
  <2>. QED  BY <2>1, <2>2 DEF CountsInv
<1>11. TypeOK'
  <2>1. wsj1' \in 0..Cardinality(Calls) + 1 /\ aws' \in 0..Cardinality(Calls) + 1
    BY <1>1, <1>9, UsersCount DEF IInv, CountsInv
  <2>. QED  BY <1>1, <1>5, <2>1 DEF IInv, TypeOK, clientVars
<1>12. MessagesInv'
  BY <1>1, <1>2 DEF IInv, MessagesInv
<1>13. CallsInv'
  BY <1>1 DEF IInv, CallsInv, clientVars
<1>14. UpInv'
  <2> SUFFICES ASSUME NEW i \in DOMAIN up', IsCall(up'[i])
               PROVE  /\ Pending(up[i].id, up[i].of)'
                      /\ wsreq'[up'[i].of].st \in {"none", "ended"}
                      /\ \A k \in DOMAIN up' : IsCall(up'[k]) /\ up'[k].of = up'[i].of => k = i
                      /\ \A k \in DOMAIN down' : IsAnswer(down'[k]) => down'[k].of # up'[i].of
    BY DEF UpInv, IsCall, IsAnswer
  <2>1. /\ i + 1 \in DOMAIN up /\ up'[i] = up[i + 1] /\ IsCall(up[i + 1])
        /\ i + 1 # 1 /\ i \in Int
    BY <1>2
  <2>2. up[i + 1].of # c /\ up[i + 1].of \in Calls
    BY <1>2, <1>6, <2>1, SeqDomains DEF IInv, UpMessages, IsCall
  <2>3. Pending(up[i].id, up[i].of)'
    BY <1>1, <2>1 DEF IInv, UpInv, Pending, clientVars
  <2>4. wsreq'[up'[i].of].st \in {"none", "ended"}
    BY <1>5, <2>1, <2>2 DEF IInv, UpInv
  <2>5. ASSUME NEW k \in DOMAIN up', IsCall(up'[k]), up'[k].of = up'[i].of PROVE k = i
    <3>1. k \in Int /\ k + 1 \in DOMAIN up /\ up'[k] = up[k + 1]
      BY <1>2
    <3>2. k + 1 = i + 1
      BY <2>1, <2>5, <3>1 DEF IInv, UpInv
    <3>. QED  BY <2>1, <3>1, <3>2
  <2>6. ASSUME NEW k \in DOMAIN down', IsAnswer(down'[k]) PROVE down'[k].of # up'[i].of
    BY <1>1, <2>1, <2>6 DEF IInv, UpInv
  <2>. QED  BY <2>3, <2>4, <2>5, <2>6
<1>15. ServedInv'
  <2> SUFFICES ASSUME NEW d \in Calls, wsreq'[d].st \in {"running", "kept"}
               PROVE  /\ Pending(wsreq[d].id, d)'
                      /\ \A k \in DOMAIN down' : IsAnswer(down'[k]) => down'[k].of # d
    BY DEF ServedInv, IsAnswer
  <2>1. CASE d = c
    BY <1>1, <1>5, <1>6, <2>1 DEF Pending, clientVars
  <2>2. CASE d # c
    BY <1>1, <1>5, <2>2 DEF IInv, ServedInv, Pending, clientVars
  <2>. QED  BY <2>1, <2>2
<1>16. DownInv'
  BY <1>1 DEF IInv, DownInv, Pending, clientVars
<1>. QED  BY <1>10, <1>11, <1>12, <1>13, <1>14, <1>15, <1>16 DEF IInv

(* The answer to call c is sent: it goes to the messages for the client,   *)
(* if these can be sent.                                                   *)
LEMMA AnswerSent ==
    ASSUME UpInv, ServedInv, DownInv, MessagesInv, UNCHANGED calls,
           NEW c \in Calls, NEW m \in DownMessages, IsAnswer(m), m.of = c, Pending(m.id, c),
           \A k \in DOMAIN down : IsAnswer(down[k]) => down[k].of # c, Send(m),
           DOMAIN up' \subseteq Int,
           NEW a \in Nat, \A i \in DOMAIN up' : IsCall(up'[i]) =>
                            /\ i + a \in DOMAIN up /\ up'[i] = up[i + a] /\ up'[i].of # c,
           wsreq'[c].st \notin {"running", "kept"},
           \A d \in Calls : /\ wsreq'[d].st \in {"running", "kept"} =>
                                 /\ wsreq[d].st \in {"running", "kept"}
                                 /\ wsreq'[d].id = wsreq[d].id
                            /\ wsreq[d].st \in {"none", "ended"} =>
                                 wsreq'[d].st \in {"none", "ended"}
    PROVE  UpInv' /\ ServedInv' /\ DownInv'
<1>0. \A i \in DOMAIN up : IsCall(up[i]) => up[i].of \in Calls
  BY SeqDomains DEF UpMessages, IsCall
<1>1. /\ DOMAIN down = 1..Len(down) /\ Len(down) \in Nat
      /\ DOMAIN down' = 1..Len(down) \/ DOMAIN down' = 1..Len(down) + 1
      /\ \A i \in 1..Len(down) : down'[i] = down[i]
      /\ \A i \in DOMAIN down' : i \in DOMAIN down \/ (i = Len(down) + 1 /\ down'[i] = m)
  BY SentFacts
<1>2. UpInv'
  <2> SUFFICES ASSUME NEW i \in DOMAIN up', IsCall(up'[i])
               PROVE  /\ Pending(up[i].id, up[i].of)'
                      /\ wsreq'[up'[i].of].st \in {"none", "ended"}
                      /\ \A k \in DOMAIN up' : IsCall(up'[k]) /\ up'[k].of = up'[i].of => k = i
                      /\ \A k \in DOMAIN down' : IsAnswer(down'[k]) => down'[k].of # up'[i].of
    BY DEF UpInv, IsCall, IsAnswer
  <2>1. i + a \in DOMAIN up /\ up'[i] = up[i + a] /\ IsCall(up[i + a]) /\ up'[i].of # c
    OBVIOUS
  <2>2. Pending(up[i].id, up[i].of)'
    BY <2>1 DEF UpInv, Pending
  <2>3. wsreq'[up'[i].of].st \in {"none", "ended"}
    BY <1>0, <2>1 DEF UpInv
  <2>4. ASSUME NEW k \in DOMAIN up', IsCall(up'[k]), up'[k].of = up'[i].of PROVE k = i
    <3>1. k + a = i + a
      BY <2>1, <2>4 DEF UpInv
    <3>2. k \in Int /\ i \in Int /\ a \in Nat
      BY <2>4
    <3>. QED  BY <3>1, <3>2, SamePlace
  <2>5. ASSUME NEW k \in DOMAIN down', IsAnswer(down'[k]) PROVE down'[k].of # up'[i].of
    BY <1>1, <2>1, <2>5 DEF UpInv
  <2>. QED  BY <2>2, <2>3, <2>4, <2>5
<1>3. ServedInv'
  <2> SUFFICES ASSUME NEW d \in Calls, wsreq'[d].st \in {"running", "kept"}
               PROVE  /\ Pending(wsreq[d].id, d)'
                      /\ \A k \in DOMAIN down' : IsAnswer(down'[k]) => down'[k].of # d
    BY DEF ServedInv, IsAnswer
  <2>1. Pending(wsreq[d].id, d)'
    BY DEF ServedInv, Pending
  <2>2. ASSUME NEW k \in DOMAIN down', IsAnswer(down'[k]) PROVE down'[k].of # d
    BY <1>1, <2>2 DEF ServedInv
  <2>. QED  BY <2>1, <2>2
<1>4. DownInv'
  <2> SUFFICES ASSUME NEW i \in DOMAIN down', IsAnswer(down'[i])
               PROVE  /\ Pending(down[i].id, down[i].of)'
                      /\ \A k \in DOMAIN down' : IsAnswer(down'[k]) /\ down'[k].of = down'[i].of
                           => k = i
    BY DEF DownInv, IsAnswer
  <2>1. CASE i \in DOMAIN down
    <3>1. down'[i] = down[i] /\ down[i].of # c
      BY <1>1, <2>1
    <3>2. Pending(down[i].id, down[i].of)'
      BY <2>1, <3>1 DEF DownInv, Pending
    <3>. QED  BY <1>1, <2>1, <3>1, <3>2 DEF DownInv
  <2>2. CASE i = Len(down) + 1 /\ down'[i] = m
    <3>1. Pending(down[i].id, down[i].of)'
      BY <2>2 DEF Pending
    <3>. QED  BY <1>1, <2>2, <3>1
  <2>. QED  BY <1>1, <2>1, <2>2
<1>. QED  BY <1>2, <1>3, <1>4

LEMMA UnknownStep == ASSUME IInv, aws_on_call_unknown PROVE IInv'
<1>1. /\ up # <<>> /\ Head(up).code = "call" /\ up' = Tail(up)
      /\ Send([code |-> "error", id |-> Head(up).id, of |-> Head(up).of])
      /\ UNCHANGED <<link, clientVars, sws, watching, cleaned, wsreq, msg, wsj1, aws>>
  BY DEF aws_on_call_unknown, ServiceRead
<1>2. /\ up' \in Seq(UpMessages) /\ Head(up) = up[1] /\ up[1] \in UpMessages
      /\ DOMAIN up = 1..Len(up) /\ Len(up) \in Nat \ {0} /\ 1 \in DOMAIN up
      /\ DOMAIN up' = 1..Len(up) - 1
      /\ \A i \in 1..Len(up) - 1 : up'[i] = up[i + 1]
  BY <1>1, TailFacts DEF IInv, MessagesInv
<1>3. IsCall(up[1]) /\ up[1].of \in Calls /\ up[1].id \in 1..MaxGenId
  BY <1>1, <1>2 DEF IsCall, UpMessages
<1>4. PICK m : m = [code |-> "error", id |-> up[1].id, of |-> up[1].of]
  OBVIOUS
<1>5. PICK c \in Calls : c = up[1].of
  BY <1>3
<1>6. m \in DownMessages /\ IsAnswer(m) /\ m.of = c /\ m.id = up[1].id /\ Send(m)
  BY <1>1, <1>2, <1>3, <1>4, <1>5 DEF DownMessages, IsAnswer, Answers
<1>7. /\ Pending(m.id, c) /\ wsreq[c].st \in {"none", "ended"}
      /\ \A k \in DOMAIN up : IsCall(up[k]) /\ up[k].of = c => k = 1
      /\ \A k \in DOMAIN down : IsAnswer(down[k]) => down[k].of # c
  BY <1>2, <1>3, <1>5, <1>6 DEF IInv, UpInv
<1>8. down' \in Seq(DownMessages)
  BY <1>6, SentFacts DEF IInv
<1>9. TypeOK'
  BY <1>1 DEF IInv, TypeOK, clientVars
<1>10. MessagesInv'
  BY <1>2, <1>8 DEF MessagesInv
<1>11. CountsInv'
  BY <1>1, CountsKept DEF IInv, CountsInv
<1>12. CallsInv'
  BY <1>1 DEF IInv, CallsInv, clientVars
<1>13. UpInv' /\ ServedInv' /\ DownInv'
  <2>1. /\ DOMAIN up' \subseteq Int
        /\ \A i \in DOMAIN up' : IsCall(up'[i]) =>
             i + 1 \in DOMAIN up /\ up'[i] = up[i + 1] /\ up'[i].of # c
    BY <1>2, <1>7
  <2>2. calls' = calls /\ wsreq' = wsreq
    BY <1>1 DEF clientVars
  <2>3. wsreq'[c].st \notin {"running", "kept"}
    BY <1>7, <2>2
  <2>. QED  BY <1>6, <1>7, <2>1, <2>2, <2>3, AnswerSent DEF IInv
<1>. QED  BY <1>9, <1>10, <1>11, <1>12, <1>13 DEF IInv

(* A request is answered by its binding.                                   *)
LEMMA ServeStep == ASSUME IInv, NEW c \in Calls, Serve(c) PROVE IInv'
<1>1. /\ wsreq[c].st \in {"running", "kept"}
      /\ wsreq' = [wsreq EXCEPT ![c].st = "replied"]
      /\ \E code \in Answers : Send([code |-> code, id |-> wsreq[c].id, of |-> c])
      /\ UNCHANGED <<link, up, clientVars, sws, wsj1, aws, msg, watching, cleaned>>
  BY DEF Serve, wsreq_reply, wsreq_late_reply, Answers
<1>2. PICK code \in Answers : Send([code |-> code, id |-> wsreq[c].id, of |-> c])
  BY <1>1
<1>3. PICK m : m = [code |-> code, id |-> wsreq[c].id, of |-> c]
  OBVIOUS
<1>4. /\ Pending(wsreq[c].id, c)
      /\ \A k \in DOMAIN down : IsAnswer(down[k]) => down[k].of # c
  BY <1>1 DEF IInv, ServedInv
<1>5. wsreq[c].id \in 1..MaxGenId
  <2>1. \A i \in DOMAIN calls : calls[i].id \in 1..MaxGenId
    <3>1. calls \in Seq([id : 1..MaxGenId, of : Calls])
      BY DEF IInv, TypeOK
    <3>2. \A i \in DOMAIN calls : calls[i] \in [id : 1..MaxGenId, of : Calls]
      BY <3>1, ElementOfSeq, LenProperties
    <3>. QED  BY <3>2
  <2>. QED  BY <1>4, <2>1 DEF Pending
<1>6. m \in DownMessages /\ IsAnswer(m) /\ m.of = c /\ Pending(m.id, c) /\ Send(m)
  BY <1>2, <1>3, <1>4, <1>5 DEF DownMessages, IsAnswer
<1>7. /\ wsreq' \in [Calls -> [st : {"none", "running", "kept", "replied", "ended"},
                               id : 0..MaxGenId]]
      /\ wsreq'[c].st = "replied" /\ \A d \in Calls \ {c} : wsreq'[d] = wsreq[d]
  BY <1>1 DEF IInv, TypeOK
<1>8. down' \in Seq(DownMessages)
  BY <1>6, SentFacts DEF IInv
<1>9. TypeOK'
  BY <1>1, <1>7 DEF IInv, TypeOK, clientVars
<1>10. MessagesInv'
  BY <1>1, <1>8 DEF IInv, MessagesInv
<1>11. CountsInv'
  BY <1>1, <1>7, CountsKept DEF IInv, CountsInv
<1>12. CallsInv'
  BY <1>1 DEF IInv, CallsInv, clientVars
<1>13. UpInv' /\ ServedInv' /\ DownInv'
  <2>1. /\ DOMAIN up' \subseteq Int
        /\ \A i \in DOMAIN up' : IsCall(up'[i]) =>
             i + 0 \in DOMAIN up /\ up'[i] = up[i + 0] /\ up'[i].of # c
    BY <1>1, SeqDomains DEF IInv, UpInv
  <2>2. /\ calls' = calls /\ wsreq'[c].st \notin {"running", "kept"}
        /\ \A d \in Calls : /\ wsreq'[d].st \in {"running", "kept"} =>
                                 /\ wsreq[d].st \in {"running", "kept"}
                                 /\ wsreq'[d].id = wsreq[d].id
                            /\ wsreq[d].st \in {"none", "ended"} =>
                                 wsreq'[d].st \in {"none", "ended"}
    BY <1>1, <1>7 DEF clientVars
  <2>. QED  BY <1>4, <1>6, <2>1, <2>2, AnswerSent DEF IInv
<1>. QED  BY <1>9, <1>10, <1>11, <1>12, <1>13 DEF IInv

(* One field of one call changed.                                          *)
LEMMA StateSet ==
    ASSUME NEW A, NEW B, NEW C, NEW g \in [A -> [st : B, replies : C]],
           NEW c \in A, NEW s \in B, NEW h, h = [g EXCEPT ![c].st = s]
    PROVE  /\ h \in [A -> [st : B, replies : C]]
           /\ h[c].replies = g[c].replies /\ h[c].st = s
           /\ \A d \in A \ {c} : h[d] = g[d]
<1>1. g[c] \in [st : B, replies : C]
  OBVIOUS
<1>2. h = [g EXCEPT ![c] = [g[c] EXCEPT !.st = s]]
  OBVIOUS
<1>3. /\ [g[c] EXCEPT !.st = s] \in [st : B, replies : C]
      /\ [g[c] EXCEPT !.st = s].replies = g[c].replies
      /\ [g[c] EXCEPT !.st = s].st = s
  BY <1>1
<1>. QED  BY <1>2, <1>3

(* The client makes a call: it gets an id of its own, and is nowhere else. *)
LEMMA CallStep == ASSUME IInv, NEW c \in Calls, afb_wsj1_call_s(c) PROVE IInv'
<1>1. /\ got[c].st \in {"idle", "replied"} /\ wsreq[c].st \in {"none", "ended"}
      /\ genid' = CallCreate.next /\ UNCHANGED <<link, down, cws, serviceVars>>
  BY DEF afb_wsj1_call_s
<1>2. /\ CallCreate.id \in 1..MaxGenId /\ CallCreate.next \in 0..MaxGenId
      /\ \A i \in DOMAIN calls : calls[i].id # CallCreate.id
  BY <1>1, CreatedFacts DEF IInv
<1>3. PICK id \in 1..MaxGenId : id = CallCreate.id
  BY <1>2
<1>4. CountsInv'
  BY <1>1, CountsKept DEF IInv, CountsInv, serviceVars
<1>5. /\ DOMAIN calls = 1..Len(calls) /\ Len(calls) \in Nat
      /\ \A i \in DOMAIN calls : calls[i] \in [id : 1..MaxGenId, of : Calls] /\ calls[i].of # c
  <2>1. calls \in Seq([id : 1..MaxGenId, of : Calls])
    BY DEF IInv, TypeOK
  <2>2. /\ DOMAIN calls = 1..Len(calls) /\ Len(calls) \in Nat
        /\ \A i \in DOMAIN calls : calls[i] \in [id : 1..MaxGenId, of : Calls]
    BY <2>1, ElementOfSeq, LenProperties
  <2>. QED  BY <1>1, <2>2 DEF IInv, CallsInv
<1>6. CASE ~cws /\ got' = [got EXCEPT ![c].st = "refused"] /\ UNCHANGED <<calls, up>>
  <2>1. /\ got' \in [Calls -> [st : {"idle", "called", "refused", "replied"},
                               replies : SUBSET Calls]]
        /\ got'[c].replies = got[c].replies /\ \A d \in Calls \ {c} : got'[d] = got[d]
    <3>1. got \in [Calls -> [st : {"idle", "called", "refused", "replied"}, replies : SUBSET Calls]]
      BY DEF IInv, TypeOK
    <3>. QED  BY <1>6, <3>1, StateSet
  <2>2. TypeOK'
    BY <1>1, <1>2, <1>6, <2>1 DEF IInv, TypeOK, serviceVars
  <2>3. MessagesInv'
    BY <1>1, <1>6 DEF IInv, MessagesInv
  <2>4. CallsInv'
    BY <1>5, <1>6, <2>1 DEF IInv, CallsInv
  <2>5. wsreq' = wsreq
    BY <1>1 DEF serviceVars
  <2>6. UpInv' /\ ServedInv' /\ DownInv'
    BY <1>1, <1>6, <2>5 DEF IInv, UpInv, ServedInv, DownInv, Pending
  <2>. QED  BY <1>4, <2>2, <2>3, <2>4, <2>6 DEF IInv
<1>7. ASSUME calls' = <<[id |-> CallCreate.id, of |-> c]>> \o calls,
             up' = IF link = "up"
                   THEN Append(up, [code |-> "call", id |-> CallCreate.id, of |-> c])
                   ELSE up,
             got' = [got EXCEPT ![c].st = "called"]
      PROVE  IInv'
  <2> DEFINE e == [id |-> id, of |-> c]
             m == [code |-> "call", id |-> id, of |-> c]
             S == [id : 1..MaxGenId, of : Calls]
  <2>1. e \in S /\ e.id = id /\ e.of = c
    OBVIOUS
  <2>2. m \in UpMessages /\ IsCall(m) /\ m.id = id /\ m.of = c
    BY DEF UpMessages, IsCall
  <2>3. calls' = <<e>> \o calls /\ calls \in Seq(S) /\ up' = IF link = "up" THEN Append(up, m) ELSE up
    BY <1>3, <1>7 DEF IInv, TypeOK
  <2> HIDE DEF e, m, S
  <2>4. /\ calls' \in Seq(S) /\ DOMAIN calls' = 1..Len(calls) + 1 /\ calls'[1] = e
        /\ \A i \in 1..Len(calls) : calls'[i + 1] = calls[i]
    BY <2>1, <2>3, ConsFacts
  <2>5. /\ got' \in [Calls -> [st : {"idle", "called", "refused", "replied"},
                               replies : SUBSET Calls]]
        /\ got'[c].replies = got[c].replies /\ got'[c].st = "called"
        /\ \A d \in Calls \ {c} : got'[d] = got[d]
    <3>1. got \in [Calls -> [st : {"idle", "called", "refused", "replied"}, replies : SUBSET Calls]]
      BY DEF IInv, TypeOK
    <3>2. got' = [got EXCEPT ![c].st = "called"]
      BY <1>7
    <3>3. "called" \in {"idle", "called", "refused", "replied"}
      OBVIOUS
    <3>. QED  BY ONLY <3>1, <3>2, <3>3, StateSet, c \in Calls
  <2>6. /\ up' \in Seq(UpMessages) /\ DOMAIN up = 1..Len(up) /\ Len(up) \in Nat
        /\ DOMAIN up' = 1..Len(up) \/ DOMAIN up' = 1..Len(up) + 1
        /\ \A i \in 1..Len(up) : up'[i] = up[i]
        /\ \A i \in DOMAIN up' : i \in DOMAIN up \/ (i = Len(up) + 1 /\ up'[i] = m)
    <3>1. CASE link = "up"
      <4>1. up' = Append(up, m)
        BY <2>3, <3>1
      <4>. QED  BY <2>2, <4>1, AppendFacts DEF IInv, MessagesInv
    <3>2. CASE link # "up"
      <4>1. up' = up
        BY <2>3, <3>2
      <4>. QED  BY <4>1, SeqDomains DEF IInv, MessagesInv
    <3>. QED  BY <3>1, <3>2
  <2>7. TypeOK'
    BY <1>1, <1>2, <2>4, <2>5 DEF IInv, TypeOK, serviceVars, S
  <2>8. MessagesInv'
    BY <1>1, <2>6 DEF IInv, MessagesInv
  <2>9. \A i \in DOMAIN calls' : i = 1 \/ (i - 1 \in DOMAIN calls /\ calls'[i] = calls[i - 1])
    <3>1. ASSUME NEW i \in DOMAIN calls', i # 1
          PROVE  i - 1 \in DOMAIN calls /\ calls'[i] = calls[i - 1]
      <4>1. i \in Int /\ i - 1 \in 1..Len(calls) /\ (i - 1) + 1 = i
        BY <1>5, <2>4, <3>1
      <4>. QED  BY <1>5, <2>4, <4>1
    <3>. QED  BY <3>1
  <2>10. CallsInv'
    <3>1. ASSUME NEW i \in DOMAIN calls', NEW k \in DOMAIN calls', i # k
          PROVE  calls'[i].id # calls'[k].id /\ calls'[i].of # calls'[k].of
      <4>1. CASE i = 1
        BY <1>2, <1>3, <1>5, <2>1, <2>4, <2>9, <3>1, <4>1
      <4>2. CASE k = 1
        BY <1>2, <1>3, <1>5, <2>1, <2>4, <2>9, <3>1, <4>2
      <4>3. CASE i # 1 /\ k # 1
        <5>1. /\ i - 1 \in DOMAIN calls /\ calls'[i] = calls[i - 1]
              /\ k - 1 \in DOMAIN calls /\ calls'[k] = calls[k - 1] /\ i - 1 # k - 1
          BY <2>4, <2>9, <3>1, <4>3, <1>5
        <5>. QED  BY <5>1 DEF IInv, CallsInv
      <4>. QED  BY <4>1, <4>2, <4>3
    <3>2. ASSUME NEW i \in DOMAIN calls' PROVE got'[calls'[i].of].st = "called"
      <4>1. CASE i = 1
        BY <2>1, <2>4, <2>5, <4>1
      <4>2. CASE i # 1
        BY <1>5, <2>5, <2>9, <4>2 DEF IInv, CallsInv
      <4>. QED  BY <4>1, <4>2
    <3>3. \A d \in Calls : got'[d].replies \subseteq {d}
      BY <2>5 DEF IInv, CallsInv
    <3>. QED  BY <3>1, <3>2, <3>3 DEF CallsInv
  <2>11. ASSUME NEW i, NEW d, Pending(i, d) PROVE Pending(i, d)' /\ d # c
    <3>1. PICK k \in DOMAIN calls : calls[k].id = i /\ calls[k].of = d
      BY <2>11 DEF Pending
    <3>2. k + 1 \in DOMAIN calls' /\ calls'[k + 1] = calls[k]
      BY <1>5, <2>4
    <3>. QED  BY <1>5, <3>1, <3>2 DEF Pending
  <2>12. Pending(id, c)'
    BY <1>5, <2>1, <2>4 DEF Pending
  <2>13. wsreq' = wsreq /\ down' = down
    BY <1>1 DEF serviceVars
  <2>14. UpInv'
    <3> SUFFICES ASSUME NEW i \in DOMAIN up', IsCall(up'[i])
                 PROVE  /\ Pending(up[i].id, up[i].of)'
                        /\ wsreq'[up'[i].of].st \in {"none", "ended"}
                        /\ \A k \in DOMAIN up' : IsCall(up'[k]) /\ up'[k].of = up'[i].of => k = i
                        /\ \A k \in DOMAIN down' : IsAnswer(down'[k]) => down'[k].of # up'[i].of
      BY DEF UpInv, IsCall, IsAnswer
    <3>0. \A k \in DOMAIN up : IsCall(up[k]) => up[k].of # c
      BY <2>11 DEF IInv, UpInv
    <3>1. CASE i \in DOMAIN up
      <4>1. up'[i] = up[i]
        BY <2>6, <3>1
      <4>2. Pending(up[i].id, up[i].of)
        BY <3>1, <4>1 DEF IInv, UpInv
      <4>3. Pending(up[i].id, up[i].of)'
        <5>1. PICK j, d : j = up[i].id /\ d = up[i].of
          OBVIOUS
        <5>2. Pending(j, d)'
          BY <2>11, <4>2, <5>1
        <5>. QED  BY <4>1, <5>1, <5>2 DEF Pending
      <4>4. /\ wsreq'[up'[i].of].st \in {"none", "ended"}
            /\ \A k \in DOMAIN down' : IsAnswer(down'[k]) => down'[k].of # up'[i].of
        BY <2>13, <3>1, <4>1 DEF IInv, UpInv
      <4>5. \A k \in DOMAIN up' : IsCall(up'[k]) /\ up'[k].of = up'[i].of => k = i
        BY <2>2, <2>6, <3>0, <3>1, <4>1 DEF IInv, UpInv
      <4>. QED  BY <4>3, <4>4, <4>5
    <3>2. CASE i = Len(up) + 1 /\ up'[i] = m
      <4>1. Pending(up[i].id, up[i].of)'
        BY <2>2, <2>12, <3>2 DEF Pending
      <4>2. wsreq'[up'[i].of].st \in {"none", "ended"}
        BY <1>1, <2>2, <2>13, <3>2
      <4>3. \A k \in DOMAIN down' : IsAnswer(down'[k]) => down'[k].of # up'[i].of
        BY <2>2, <2>11, <2>13, <3>2 DEF IInv, DownInv
      <4>4. \A k \in DOMAIN up' : IsCall(up'[k]) /\ up'[k].of = up'[i].of => k = i
        BY <2>2, <2>6, <3>0, <3>2
      <4>. QED  BY <4>1, <4>2, <4>3, <4>4
    <3>. QED  BY <2>6, <3>1, <3>2
  <2>15. ServedInv'
    <3> SUFFICES ASSUME NEW d \in Calls, wsreq'[d].st \in {"running", "kept"}
                 PROVE  /\ Pending(wsreq[d].id, d)'
                        /\ \A k \in DOMAIN down' : IsAnswer(down'[k]) => down'[k].of # d
      BY DEF ServedInv, IsAnswer
    <3>1. /\ Pending(wsreq[d].id, d)
          /\ \A k \in DOMAIN down' : IsAnswer(down'[k]) => down'[k].of # d
      BY <2>13 DEF IInv, ServedInv
    <3>2. PICK j : j = wsreq[d].id
      OBVIOUS
    <3>3. Pending(j, d)'
      BY <2>11, <3>1, <3>2
    <3>. QED  BY <2>13, <3>1, <3>2, <3>3 DEF Pending
  <2>16. DownInv'
    <3> SUFFICES ASSUME NEW i \in DOMAIN down', IsAnswer(down'[i])
                 PROVE  /\ Pending(down[i].id, down[i].of)'
                        /\ \A k \in DOMAIN down' : IsAnswer(down'[k]) /\ down'[k].of = down'[i].of
                             => k = i
      BY DEF DownInv, IsAnswer
    <3>1. /\ Pending(down[i].id, down[i].of)
          /\ \A k \in DOMAIN down' : IsAnswer(down'[k]) /\ down'[k].of = down'[i].of => k = i
      BY <2>13 DEF IInv, DownInv
    <3>2. PICK j, d : j = down[i].id /\ d = down[i].of
      OBVIOUS
    <3>3. Pending(j, d)'
      BY <2>11, <3>1, <3>2
    <3>. QED  BY <2>13, <3>1, <3>2, <3>3 DEF Pending
  <2>. QED  BY <1>4, <2>7, <2>8, <2>10, <2>14, <2>15, <2>16 DEF IInv
<1>. QED  BY <1>6, <1>7 DEF afb_wsj1_call_s

(* The client gets an answer: the call is found by its id, and is the one  *)
(* that the answer is for; it is nowhere else.                             *)
LEMMA ReplyStep == ASSUME IInv, ClientReply PROVE IInv'
<1>1. /\ down # <<>> /\ Head(down).code \in Answers /\ down' = Tail(down)
      /\ UNCHANGED <<link, cws, genid, serviceVars>>
  BY DEF ClientReply, Answers
<1>2. /\ down' \in Seq(DownMessages) /\ Head(down) = down[1] /\ down[1] \in DownMessages
      /\ DOMAIN down = 1..Len(down) /\ Len(down) \in Nat \ {0} /\ 1 \in DOMAIN down
      /\ DOMAIN down' = 1..Len(down) - 1
      /\ \A i \in 1..Len(down) - 1 : down'[i] = down[i + 1]
  BY <1>1, TailFacts DEF IInv, MessagesInv
<1>3. IsAnswer(down[1]) /\ down[1].of \in Calls /\ down[1].id \in 1..MaxGenId
  BY <1>1, <1>2 DEF IsAnswer, Answers, DownMessages
<1>4. PICK c \in Calls, id \in 1..MaxGenId : c = down[1].of /\ id = down[1].id
  BY <1>3
<1>5. /\ Pending(id, c)
      /\ \A k \in DOMAIN down : IsAnswer(down[k]) /\ down[k].of = c => k = 1
  BY <1>2, <1>3, <1>4 DEF IInv, DownInv
<1>6. calls \in Seq([id : 1..MaxGenId, of : Calls])
  BY DEF IInv, TypeOK
<1>7. PICK i \in DOMAIN calls : i = CallOf(id) /\ calls[i].id = id /\ calls[i].of = c
  <2>1. PICK k \in DOMAIN calls : calls[k].id = id /\ calls[k].of = c
    BY <1>5 DEF Pending
  <2>2. CallOf(id) \in DOMAIN calls /\ calls[CallOf(id)].id = id
    BY <1>6, <2>1, CallOfFacts
  <2>3. CallOf(id) = k
    BY <2>1, <2>2 DEF IInv, CallsInv
  <2>. QED  BY <2>1, <2>3
<1>8. DOMAIN calls = 1..Len(calls) /\ Len(calls) \in Nat
  BY <1>6, LenProperties
<1>9. /\ calls' = RemoveAt(calls, i) /\ up' = up
      /\ got' = [got EXCEPT ![c].replies = @ \cup {c}, ![c].st = "replied"]
  <2>1. i # 0
    BY <1>8
  <2>. QED  BY <1>2, <1>4, <1>7, <2>1 DEF ClientReply
<1>10. /\ calls' \in Seq([id : 1..MaxGenId, of : Calls]) /\ DOMAIN calls' = 1..Len(calls) - 1
       /\ \A k \in 1..Len(calls) - 1 : calls'[k] = IF k < i THEN calls[k] ELSE calls[k + 1]
  <2>1. i \in 1..Len(calls)
    BY <1>8
  <2>2. PICK S : S = [id : 1..MaxGenId, of : Calls]
    OBVIOUS
  <2>3. calls \in Seq(S)
    BY <1>6, <2>2
  <2>4. /\ RemoveAt(calls, i) \in Seq(S) /\ DOMAIN RemoveAt(calls, i) = 1..Len(calls) - 1
        /\ \A k \in 1..Len(calls) - 1 :
             RemoveAt(calls, i)[k] = IF k < i THEN calls[k] ELSE calls[k + 1]
    BY ONLY <2>1, <2>3, RemoveFacts
  <2>. QED  BY ONLY <1>9, <2>2, <2>4
<1> DEFINE f(k) == IF k < i THEN k ELSE k + 1
<1>11. \A k \in DOMAIN calls' : /\ f(k) \in DOMAIN calls /\ f(k) # i
                                /\ calls'[k] = calls[f(k)]
  BY <1>8, <1>10
<1>12. \A k, l \in DOMAIN calls' : k # l => f(k) # f(l)
  BY <1>8, <1>10
<1>13. ASSUME NEW j \in DOMAIN calls, j # i PROVE \E k \in DOMAIN calls' : calls'[k] = calls[j]
  <2>1. CASE j < i
    <3>1. j \in DOMAIN calls' /\ calls'[j] = calls[j]
      BY <1>8, <1>10, <2>1
    <3>. QED  BY <3>1
  <2>2. CASE j > i
    <3>1. j - 1 \in 1..Len(calls) - 1 /\ ~(j - 1 < i) /\ (j - 1) + 1 = j
      BY <1>8, <2>2
    <3>2. j - 1 \in DOMAIN calls' /\ calls'[j - 1] = calls[j]
      BY <1>10, <3>1
    <3>. QED  BY <3>2
  <2>. QED  BY <1>8, <1>13, <2>1, <2>2
<1> HIDE DEF f
<1>14. ASSUME NEW x, NEW d, Pending(x, d), d # c PROVE Pending(x, d)'
  <2>1. PICK j \in DOMAIN calls : calls[j].id = x /\ calls[j].of = d
    BY <1>14 DEF Pending
  <2>2. PICK k \in DOMAIN calls' : calls'[k] = calls[j]
    BY <1>7, <1>13, <1>14, <2>1
  <2>. QED  BY <2>1, <2>2 DEF Pending
<1>15. /\ got' \in [Calls -> [st : {"idle", "called", "refused", "replied"},
                              replies : SUBSET Calls]]
       /\ got'[c].replies = got[c].replies \cup {c}
       /\ \A d \in Calls \ {c} : got'[d] = got[d]
  <2>1. got \in [Calls -> [st : {"idle", "called", "refused", "replied"}, replies : SUBSET Calls]]
    BY DEF IInv, TypeOK
  <2>2. PICK r : r = [st |-> "replied", replies |-> got[c].replies \cup {c}]
    OBVIOUS
  <2>3. got[c] \in [st : {"idle", "called", "refused", "replied"}, replies : SUBSET Calls]
    BY <2>1
  <2>4. /\ r \in [st : {"idle", "called", "refused", "replied"}, replies : SUBSET Calls]
        /\ r.replies = got[c].replies \cup {c}
    BY <2>2, <2>3
  <2>5. got' = [got EXCEPT ![c] = r]
    <3>1. PICK g : g = [got EXCEPT ![c].replies = @ \cup {c}]
      OBVIOUS
    <3>2. got' = [g EXCEPT ![c].st = "replied"]
      BY ONLY <1>9, <3>1
    <3>3. /\ g \in [Calls -> [st : {"idle", "called", "refused", "replied"}, replies : SUBSET Calls]]
          /\ g[c].replies = got[c].replies \cup {c} /\ \A d \in Calls \ {c} : g[d] = got[d]
      BY <2>1, <2>3, <3>1
    <3>4. /\ got' \in [Calls -> [st : {"idle", "called", "refused", "replied"}, replies : SUBSET Calls]]
          /\ got'[c].replies = g[c].replies /\ got'[c].st = "replied"
          /\ \A d \in Calls \ {c} : got'[d] = g[d]
      BY <3>2, <3>3, StateSet
    <3>. QED  BY <2>1, <2>2, <3>3, <3>4
  <2>. QED  BY <2>1, <2>4, <2>5
<1>16. TypeOK'
  BY <1>1, <1>10, <1>15 DEF IInv, TypeOK, serviceVars
<1>17. MessagesInv'
  BY <1>2, <1>9 DEF IInv, MessagesInv
<1>18. CountsInv'
  BY <1>1, CountsKept DEF IInv, CountsInv, serviceVars
<1>19. CallsInv'
  <2>1. ASSUME NEW k \in DOMAIN calls', NEW l \in DOMAIN calls', k # l
        PROVE  calls'[k].id # calls'[l].id /\ calls'[k].of # calls'[l].of
    BY <1>11, <1>12, <2>1 DEF IInv, CallsInv
  <2>2. ASSUME NEW k \in DOMAIN calls' PROVE got'[calls'[k].of].st = "called"
    <3>1. calls[f(k)].of # c /\ calls[f(k)].of \in Calls
      <4>1. calls[f(k)] \in [id : 1..MaxGenId, of : Calls]
        BY <1>6, <1>8, <1>11, ElementOfSeq
      <4>2. calls[f(k)].of # c
        BY <1>7, <1>11 DEF IInv, CallsInv
      <4>. QED  BY <4>1, <4>2
    <3>. QED  BY <1>11, <1>15, <3>1 DEF IInv, CallsInv
  <2>3. \A d \in Calls : got'[d].replies \subseteq {d}
    BY <1>15 DEF IInv, CallsInv
  <2>. QED  BY <2>1, <2>2, <2>3 DEF CallsInv
<1>20. wsreq' = wsreq
  BY <1>1 DEF serviceVars
<1>21. \A k \in DOMAIN down' : /\ k \in Int /\ k + 1 \in DOMAIN down /\ k + 1 # 1
                               /\ down'[k] = down[k + 1]
  BY <1>2
<1>22. UpInv'
  <2> SUFFICES ASSUME NEW k \in DOMAIN up', IsCall(up'[k])
               PROVE  /\ Pending(up[k].id, up[k].of)'
                      /\ wsreq'[up'[k].of].st \in {"none", "ended"}
                      /\ \A l \in DOMAIN up' : IsCall(up'[l]) /\ up'[l].of = up'[k].of => l = k
                      /\ \A l \in DOMAIN down' : IsAnswer(down'[l]) => down'[l].of # up'[k].of
    BY DEF UpInv, IsCall, IsAnswer
  <2>1. /\ k \in DOMAIN up /\ up'[k] = up[k] /\ IsCall(up[k])
        /\ Pending(up[k].id, up[k].of) /\ up[k].of # c
    BY <1>2, <1>3, <1>4, <1>9 DEF IInv, UpInv
  <2>2. PICK x, d : x = up[k].id /\ d = up[k].of
    OBVIOUS
  <2>3. Pending(x, d)'
    BY <1>14, <2>1, <2>2
  <2>4. Pending(up[k].id, up[k].of)'
    BY <2>1, <2>2, <2>3 DEF Pending
  <2>5. /\ wsreq'[up'[k].of].st \in {"none", "ended"}
        /\ \A l \in DOMAIN up' : IsCall(up'[l]) /\ up'[l].of = up'[k].of => l = k
    BY <1>9, <1>20, <2>1 DEF IInv, UpInv
  <2>6. \A l \in DOMAIN down' : IsAnswer(down'[l]) => down'[l].of # up'[k].of
    BY <1>21, <2>1 DEF IInv, UpInv
  <2>. QED  BY <2>4, <2>5, <2>6
<1>23. ServedInv'
  <2> SUFFICES ASSUME NEW d \in Calls, wsreq'[d].st \in {"running", "kept"}
               PROVE  /\ Pending(wsreq[d].id, d)'
                      /\ \A k \in DOMAIN down' : IsAnswer(down'[k]) => down'[k].of # d
    BY DEF ServedInv, IsAnswer
  <2>1. /\ Pending(wsreq[d].id, d) /\ d # c
        /\ \A k \in DOMAIN down : IsAnswer(down[k]) => down[k].of # d
    BY <1>2, <1>3, <1>4, <1>20 DEF IInv, ServedInv
  <2>2. PICK x : x = wsreq[d].id
    OBVIOUS
  <2>3. Pending(x, d)'
    BY <1>14, <2>1, <2>2
  <2>4. Pending(wsreq[d].id, d)'
    BY <1>20, <2>2, <2>3 DEF Pending
  <2>. QED  BY <1>21, <2>1, <2>4
<1>24. DownInv'
  <2> SUFFICES ASSUME NEW k \in DOMAIN down', IsAnswer(down'[k])
               PROVE  /\ Pending(down[k].id, down[k].of)'
                      /\ \A l \in DOMAIN down' : IsAnswer(down'[l]) /\ down'[l].of = down'[k].of
                           => l = k
    BY DEF DownInv, IsAnswer
  <2>1. /\ k \in Int /\ k + 1 \in DOMAIN down /\ down'[k] = down[k + 1]
        /\ IsAnswer(down[k + 1]) /\ down[k + 1].of # c
        /\ Pending(down[k + 1].id, down[k + 1].of)
    BY <1>5, <1>21 DEF IInv, DownInv
  <2>2. PICK x, d : x = down[k + 1].id /\ d = down[k + 1].of
    OBVIOUS
  <2>3. Pending(x, d)'
    BY <1>14, <2>1, <2>2
  <2>4. Pending(down[k].id, down[k].of)'
    BY <2>1, <2>2, <2>3 DEF Pending
  <2>5. ASSUME NEW l \in DOMAIN down', IsAnswer(down'[l]), down'[l].of = down'[k].of PROVE l = k
    <3>1. l + 1 = k + 1 /\ l \in Int
      BY <1>21, <2>1, <2>5 DEF IInv, DownInv
    <3>. QED  BY <2>1, <3>1, SamePlace
  <2>. QED  BY <2>4, <2>5
<1>. QED  BY <1>16, <1>17, <1>18, <1>19, <1>22, <1>23, <1>24 DEF IInv

-----------------------------------------------------------------------------
LEMMA InitInv == Init => IInv
<1> SUFFICES ASSUME Init PROVE IInv
  OBVIOUS
<1>1. Users = {} /\ Cardinality(Users) = 0 /\ Cardinality(Calls) \in Nat
  <2>1. Users = {}
    BY DEF Init, Users
  <2>. QED  BY <2>1, FS_EmptySet, UsersCount
<1>2. TypeOK
  <2>1. /\ got \in [Calls -> [st : {"idle", "called", "refused", "replied"}, replies : SUBSET Calls]]
        /\ calls \in Seq([id : 1..MaxGenId, of : Calls])
    BY DEF Init
  <2>2. 0 \in 0..MaxGenId
    BY BoundsAssumption
  <2>3. wsreq \in [Calls -> [st : {"none", "running", "kept", "replied", "ended"}, id : 0..MaxGenId]]
    BY <2>2 DEF Init
  <2>4. wsj1 \in 0..Cardinality(Calls) + 1 /\ aws \in 0..Cardinality(Calls) + 1
    BY <1>1 DEF Init
  <2>5. /\ link \in {"up", "lost"} /\ sws \in {"open", "closed", "destroyed", "crashed"}
        /\ genid \in 0..MaxGenId /\ msg \in [Calls -> 0..1] /\ cleaned \in Nat
    BY <2>2 DEF Init
  <2>6. cws \in BOOLEAN /\ watching \in BOOLEAN
    BY DEF Init
  <2>. QED  BY <2>1, <2>3, <2>4, <2>5, <2>6 DEF TypeOK
<1>3. MessagesInv
  BY DEF Init, MessagesInv
<1>4. CountsInv
  BY <1>1 DEF Init, CountsInv
<1>5. DOMAIN calls = {} /\ DOMAIN up = {} /\ DOMAIN down = {}
  BY DEF Init
<1>6. CallsInv
  BY <1>5 DEF Init, CallsInv
<1>7. UpInv /\ ServedInv /\ DownInv
  BY <1>5 DEF Init, UpInv, ServedInv, DownInv
<1>. QED  BY <1>2, <1>3, <1>4, <1>6, <1>7 DEF IInv

LEMMA StutterStep == ASSUME IInv, UNCHANGED vars PROVE IInv'
<1>1. TypeOK'
  BY DEF IInv, TypeOK, vars, clientVars, serviceVars
<1>2. MessagesInv'
  BY DEF IInv, MessagesInv, vars
<1>3. CountsInv'
  BY CountsKept DEF IInv, CountsInv, vars, serviceVars
<1>4. CallsInv'
  BY DEF IInv, CallsInv, vars, clientVars
<1>5. UpInv' /\ ServedInv' /\ DownInv'
  BY DEF IInv, UpInv, ServedInv, DownInv, Pending, IsCall, IsAnswer, vars, clientVars, serviceVars
<1>. QED  BY <1>1, <1>2, <1>3, <1>4, <1>5 DEF IInv

LEMMA NextStep == ASSUME IInv, [Next]_vars PROVE IInv'
<1>1. CASE Lose
  BY <1>1, LoseStep
<1>2. CASE SendOther
  BY <1>2, SendOtherStep
<1>3. CASE ClientReads
  BY <1>3, ClientHangupStep, ReplyStep, ClientEventStep DEF ClientReads
<1>4. CASE ServiceReads
  BY <1>4, ServiceHangupStep, OnCallStep, UnknownStep, BadTextStep, EventTextStep DEF ServiceReads
<1>5. CASE aws_on_event
  BY <1>5, EventStep
<1>6. ASSUME NEW c \in Calls,
             \/ afb_wsj1_call_s(c) \/ Serve(c) \/ wsreq_unref(c)
             \/ wsreq_addref(c) \/ wsreq_subscribe(c) \/ wsreq_unsubscribe(c)
      PROVE  IInv'
  BY <1>6, CallStep, ServeStep, UnrefStep, BindingStep
<1>7. CASE UNCHANGED vars
  BY <1>7, StutterStep
<1>. QED  BY <1>1, <1>2, <1>3, <1>4, <1>5, <1>6, <1>7 DEF Next

(* IInv holds in every reachable state.                                    *)
THEOREM InvHolds == Spec => []IInv
<1>1. Init => IInv
  BY InitInv
<1>2. IInv /\ [Next]_vars => IInv'
  BY NextStep
<1>. QED  BY <1>1, <1>2, PTL DEF Spec

(* A request of the service, whenever it replies, subscribes or ends, and  *)
(* the hangup, whenever it comes, find the message, the protocol, its      *)
(* websocket and the service allocated (afb-ws-json1.c:174, aws_unref).    *)
THEOREM UsersHeld == Spec => []UsersAreHeld
<1>1. ASSUME IInv PROVE UsersAreHeld
  <2>1. ASSUME Users # {} PROVE Cardinality(Users) \in Nat \ {0}
    BY <2>1, UsersCount, FS_EmptySet
  <2>2. Users # {} => aws > 0 /\ wsj1 > 0 /\ sws \in {"open", "closed"}
    <3>1. ASSUME Users # {} PROVE aws > 0 /\ wsj1 > 0
      BY <1>1, <2>1, <3>1 DEF IInv, CountsInv
    <3>. QED  BY <1>1, <3>1 DEF IInv, CountsInv, TypeOK
  <2>3. sws = "open" => aws > 0
    BY <1>1, UsersCount DEF IInv, CountsInv
  <2>4. \A c \in Users : msg[c] > 0
    BY <1>1 DEF IInv, CountsInv
  <2>. QED  BY <1>1, <2>2, <2>3, <2>4 DEF IInv, CountsInv, UsersAreHeld
<1>. QED  BY <1>1, InvHolds, PTL

(* The ids of wsj1_call_create are used again when they have gone round,   *)
(* and yet every reply finds one call, the one that it is for              *)
(* (afb-wsj1.c:285, wsj1_on_text).                                         *)
THEOREM RepliesAreMatched == Spec => []RepliesMatch
<1>1. ASSUME IInv PROVE RepliesMatch
  <2>1. \A c \in Calls : got[c].replies \subseteq {c}
    BY <1>1 DEF IInv, CallsInv
  <2>2. ASSUME down # <<>>, Head(down).code \in {"ok", "error"} PROVE CallOf(Head(down).id) # 0
    <3>1. 1 \in DOMAIN down /\ Head(down) = down[1]
      BY <1>1, <2>2, TailFacts DEF IInv, MessagesInv
    <3>2. PICK i \in DOMAIN calls : calls[i].id = Head(down).id
      BY <1>1, <2>2, <3>1 DEF IInv, DownInv, Pending, IsAnswer, Answers
    <3>. QED  BY <1>1, <3>2, CallOfFacts DEF IInv, TypeOK
  <2>. QED  BY <2>1, <2>2 DEF RepliesMatch
<1>. QED  BY <1>1, InvHolds, PTL
=============================================================================
