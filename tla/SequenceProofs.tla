-------------------------- MODULE SequenceProofs --------------------------
(***************************************************************************)
(* Proofs about the two components whose correctness is a matter of        *)
(* sequences.                                                              *)
(*                                                                         *)
(* The event hub keeps the frames of every connection in order, for any    *)
(* number of hubs, clients and events and any bounds of its queues.        *)
(* FramesInOrder is not inductive: the monotonic skip compares with        *)
(* lastSentId, so every frame must be covered by it (Covered), and a local *)
(* delivery skips nothing, so no client or ring may hold a local id above  *)
(* its hub's counter (Within, Numbered).                                   *)
(*                                                                         *)
(* The paged index is a packed array with swap-removal, and so a set, for  *)
(* every set of ids and every page size.                                   *)
(***************************************************************************)
EXTENDS PagedIndex, RealtimeHub, SequenceTheorems, WellFoundedInduction, TLAPS

----------------------------------------------------------------------------
(* The event hub.                                                           *)

(* Messages: those with a stream id and those a hub numbered itself. *)
EventIds == [ms : {0, 1}, seq : Nat]
Messages == [id : EventIds, ev : Nat]
StreamMessages == {m \in Messages : ~IsLocal(m.id)}

ClientStates ==
  [hub : Hubs \cup {Null}, queue : Seq(Messages), out : Seq(Messages), writing : BOOLEAN,
   replaying : BOOLEAN, last : EventIds \cup {Null}, from : EventIds \cup {Null},
   reply : Seq(StreamMessages) \cup {Null}, slow : BOOLEAN]

(* m may be sent after f: a later id, unless they are of two families. *)
Follows(m, f) == IsLocal(f.id) = IsLocal(m.id) => IdLess(f.id, m.id)

FollowsAll(m, s) == \A i \in 1..Len(s) : Follows(m, s[i])

Ordered(s) == \A i, j \in 1..Len(s) : i < j => Follows(s[j], s[i])

(* What a client's frames were checked against: lastSentId is no lower than *)
(* any of them, and the hub's counter is no lower than the local ones.      *)
Within(f, k) == IsLocal(f.id) => f.id.seq <= k

Covered(f, last, k) == last # Null /\ ~IdLess(last, f.id) /\ Within(f, k)

Delivering(s, k) ==
  /\ s \in ClientStates
  /\ Ordered(s.out) /\ Ordered(s.queue)
  /\ \A i \in 1..Len(s.out), j \in 1..Len(s.queue) : Follows(s.queue[j], s.out[i])
  /\ \A i \in 1..Len(s.out) : Covered(s.out[i], s.last, k)
  /\ \A i \in 1..Len(s.queue) : Covered(s.queue[i], s.last, k)

Armed(s) == s.queue # <<>> => s.writing \/ s.replaying

ClientSound(s, k) == Delivering(s, k) /\ Armed(s)

(* EventIds are ordered within and across families. *)
LEMMA IdOrder ==
  ASSUME NEW a \in EventIds, NEW b \in EventIds, NEW c \in EventIds
  PROVE  /\ ~IdLess(a, b) /\ IdLess(a, c) => IdLess(b, c)
         /\ IdLess(a, b) /\ ~IdLess(c, b) => IdLess(a, c)
         /\ IdLess(a, b) => ~IdLess(b, a)
BY DEF EventIds, IdLess

(* The newest entries are a tail of the sequence. *)
LEMMA NewestIsTail ==
  ASSUME NEW M, NEW s \in Seq(M), NEW n \in Nat
  PROVE  /\ Newest(s, n) \in Seq(M)
         /\ Len(Newest(s, n)) <= Len(s)
         /\ \A i \in 1..Len(Newest(s, n)) :
              /\ i + (Len(s) - Len(Newest(s, n))) \in 1..Len(s)
              /\ Newest(s, n)[i] = s[i + (Len(s) - Len(Newest(s, n)))]
<1>1. Len(s) \in Nat /\ Len(s) \in Int
  OBVIOUS
<1>2. CASE Len(s) > n
  <2> DEFINE a == Len(s) - n + 1
             t == SubSeq(s, a, Len(s))
  <2>1. a \in Int /\ a \in 1..(Len(s) + 1) /\ a - 1 = Len(s) - n /\ Len(s) - a + 1 = n
    BY <1>1, <1>2
  <2>2. \A i \in a..Len(s) : s[i] \in M
    BY <1>1, <2>1
  <2> HIDE DEF a
  <2>3. /\ t \in Seq(M) /\ Len(t) = IF a <= Len(s) THEN Len(s) - a + 1 ELSE 0
        /\ \A i \in 1..(Len(s) - a + 1) : t[i] = s[a + i - 1]
    BY <1>1, <2>1, <2>2, SubSeqProperties
  <2> HIDE DEF t
  <2>4. /\ Len(t) = n /\ n <= Len(s)
        /\ \A i \in 1..n : i + (Len(s) - n) \in 1..Len(s) /\ t[i] = s[i + (Len(s) - n)]
    <3>1. Len(t) = n /\ n <= Len(s)
      BY <1>1, <1>2, <2>1, <2>3
    <3>2. ASSUME NEW i \in 1..n PROVE i + (Len(s) - n) \in 1..Len(s) /\ t[i] = s[i + (Len(s) - n)]
      <4>1. a + i - 1 = i + (Len(s) - n) /\ i + (Len(s) - n) \in 1..Len(s) /\ i \in 1..(Len(s) - a + 1)
        BY <1>1, <1>2, <2>1
      <4> QED
        BY <2>3, <4>1
    <3> QED
      BY <3>1, <3>2
  <2>5. Newest(s, n) = t
    BY <1>2 DEF Newest, t, a
  <2> QED
    BY <2>3, <2>4, <2>5, Zenon
<1>3. CASE ~(Len(s) > n)
  <2>1. Newest(s, n) = s
    BY <1>3, Zenon DEF Newest
  <2>2. Len(s) <= Len(s) /\ \A i \in 1..Len(s) : i + (Len(s) - Len(s)) = i
    BY <1>1
  <2> QED
    BY <2>1, <2>2, Zenon
<1> QED
  BY <1>2, <1>3

(* All entries of t are entries of s. *)
AllFrom(t, s) == \A i \in 1..Len(t) : \E j \in 1..Len(s) : t[i] = s[j]

LEMMA NewestMembers ==
  ASSUME NEW M, NEW s \in Seq(M), NEW n \in Nat
  PROVE  AllFrom(Newest(s, n), s)
<1>1. \A i \in 1..Len(Newest(s, n)) : /\ i + (Len(s) - Len(Newest(s, n))) \in 1..Len(s)
                                     /\ Newest(s, n)[i] = s[i + (Len(s) - Len(Newest(s, n)))]
  BY NewestIsTail, Zenon
<1> QED
  BY <1>1, Zenon DEF AllFrom

(* A sequence stays in order when its oldest entries go, and when one is     *)
(* appended that may follow all the others.                                  *)
LEMMA NewestOrdered ==
  ASSUME NEW s \in Seq(Messages), Ordered(s), NEW n \in Nat
  PROVE  Ordered(Newest(s, n))
<1> DEFINE t == Newest(s, n)
           d == Len(s) - Len(t)
<1>1. /\ t \in Seq(Messages) /\ d \in Int
      /\ \A i \in 1..Len(t) : i + d \in 1..Len(s) /\ t[i] = s[i + d]
  <2>1. t \in Seq(Messages)
    BY NewestIsTail, Zenon
  <2>2. Len(s) \in Nat /\ Len(t) \in Nat
    BY <2>1, LenProperties, Zenon
  <2>3. d \in Int
    BY <2>2
  <2> QED
    BY <2>1, <2>3, NewestIsTail, Zenon
<1> HIDE DEF t, d
<1>2. ASSUME NEW i \in 1..Len(t), NEW j \in 1..Len(t), i < j PROVE Follows(t[j], t[i])
  <2>1. i + d \in 1..Len(s) /\ j + d \in 1..Len(s) /\ i + d < j + d
    BY <1>1, <1>2
  <2>2. Follows(s[j + d], s[i + d])
    BY <2>1 DEF Ordered
  <2> QED
    BY <1>1, <2>2
<1> QED
  BY <1>2 DEF Ordered, t

LEMMA AppendOrdered ==
  ASSUME NEW s \in Seq(Messages), Ordered(s), NEW m \in Messages,
         FollowsAll(m, s)
  PROVE  Ordered(Append(s, m))
BY DEF Ordered, FollowsAll

LEMMA ConcatParts ==
  ASSUME NEW M, NEW u \in Seq(M), NEW v \in Seq(M)
  PROVE  /\ u \o v \in Seq(M)
         /\ \A i \in 1..Len(u \o v) :
              \/ i \in 1..Len(u) /\ (u \o v)[i] = u[i]
              \/ i > Len(u) /\ i - Len(u) \in 1..Len(v) /\ (u \o v)[i] = v[i - Len(u)]
<1> DEFINE w == u \o v
<1>1. /\ w \in Seq(M) /\ Len(w) = Len(u) + Len(v)
      /\ \A i \in 1..(Len(u) + Len(v)) : w[i] = IF i <= Len(u) THEN u[i] ELSE v[i - Len(u)]
  BY ConcatProperties, Zenon
<1>2. Len(u) \in Nat /\ Len(v) \in Nat
  OBVIOUS
<1> HIDE DEF w
<1>3. ASSUME NEW i \in 1..Len(w)
      PROVE  \/ i \in 1..Len(u) /\ w[i] = u[i]
             \/ i > Len(u) /\ i - Len(u) \in 1..Len(v) /\ w[i] = v[i - Len(u)]
  BY <1>1, <1>2
<1> QED
  BY <1>1, <1>3, Zenon DEF w

(* The frames of a client, sent and queued, are in order. *)
LEMMA FramesOrdered ==
  ASSUME NEW k, NEW s, Delivering(s, k)
  PROVE  Ordered(s.out \o s.queue)
<1> DEFINE sent == s.out \o s.queue
<1>2. s \in ClientStates /\ s.queue \in Seq(Messages) /\ s.out \in Seq(Messages)
  BY DEF Delivering, ClientStates
<1>3. /\ sent \in Seq(Messages)
      /\ \A i \in 1..Len(sent) :
           \/ i \in 1..Len(s.out) /\ sent[i] = s.out[i]
           \/ i > Len(s.out) /\ i - Len(s.out) \in 1..Len(s.queue) /\ sent[i] = s.queue[i - Len(s.out)]
  BY <1>2, ConcatParts, Zenon
<1>4. Len(s.out) \in Nat
  BY <1>2
<1> HIDE DEF sent
<1>5. Ordered(sent)
  <2>1. ASSUME NEW i \in 1..Len(sent), NEW j \in 1..Len(sent), i < j
        PROVE  Follows(sent[j], sent[i])
    <3>1. CASE j \in 1..Len(s.out) /\ sent[j] = s.out[j]
      <4>1. i \in 1..Len(s.out) /\ sent[i] = s.out[i]
        BY <1>3, <1>4, <2>1, <3>1
      <4> QED
        BY <2>1, <3>1, <4>1, Zenon DEF Delivering, Ordered
    <3>2. CASE j - Len(s.out) \in 1..Len(s.queue) /\ sent[j] = s.queue[j - Len(s.out)]
      <4>1. CASE i \in 1..Len(s.out) /\ sent[i] = s.out[i]
        BY <3>2, <4>1, Zenon DEF Delivering
      <4>2. CASE i - Len(s.out) \in 1..Len(s.queue) /\ sent[i] = s.queue[i - Len(s.out)]
        <5>1. i - Len(s.out) < j - Len(s.out)
          BY <1>4, <2>1
        <5> QED
          BY <3>2, <4>2, <5>1, Zenon DEF Delivering, Ordered
      <4> QED
        BY <1>3, <4>1, <4>2, Zenon
    <3> QED
      BY <1>3, <3>1, <3>2, Zenon
  <2> QED
    BY <2>1, Zenon DEF Ordered
<1> QED
  BY <1>5 DEF sent

(* What flush sends was first in the queue. *)
LEMMA FlushSound ==
  ASSUME NEW k \in Nat, NEW s, Delivering(s, k)
  PROVE  ClientSound(Flush(s), k) /\ Flush(s).hub = s.hub /\ Flush(s).replaying = s.replaying
<1>1. CASE s.writing \/ s.queue = <<>>
  BY <1>1 DEF Flush, ClientSound, Armed
<1>2. CASE ~(s.writing \/ s.queue = <<>>) /\ s.slow
  <2> DEFINE t == Flush(s)
  <2>1. /\ t = [s EXCEPT !.out = Append(@, Head(s.queue)), !.queue = Tail(@), !.writing = TRUE]
    BY <1>2 DEF Flush
  <2> DEFINE sent == Append(s.out, Head(s.queue))
             left == Tail(s.queue)
  <2>2. s \in ClientStates /\ s.queue \in Seq(Messages) /\ s.out \in Seq(Messages) /\ s.queue # <<>>
    BY <1>2 DEF Delivering, ClientStates
  <2>3. /\ 1 \in 1..Len(s.queue) /\ Head(s.queue) = s.queue[1] /\ s.queue[1] \in Messages
        /\ left \in Seq(Messages)
        /\ \A i \in 1..Len(left) : i + 1 \in 1..Len(s.queue) /\ left[i] = s.queue[i + 1]
    BY <2>2
  <2>4. /\ sent \in Seq(Messages)
        /\ \A i \in 1..Len(sent) : (i \in 1..Len(s.out) /\ sent[i] = s.out[i])
                                  \/ sent[i] = s.queue[1]
    BY <2>2, <2>3
  <2>5. FollowsAll(s.queue[1], s.out)
    BY <2>3, Zenon DEF Delivering, FollowsAll
  <2>6. Ordered(sent)
    BY <2>2, <2>3, <2>5, AppendOrdered, Zenon DEF Delivering
  <2>7. Ordered(left)
    <3>1. ASSUME NEW i \in 1..Len(left), NEW j \in 1..Len(left), i < j
          PROVE  Follows(left[j], left[i])
      <4>1. i + 1 < j + 1
        BY <2>3, <3>1
      <4> QED
        BY <2>3, <4>1, Zenon DEF Delivering, Ordered
    <3> QED
      BY <3>1, Zenon DEF Ordered
  <2>8. \A i \in 1..Len(sent), j \in 1..Len(left) : Follows(left[j], sent[i])
    <3>1. \A j \in 1..Len(left) : 1 < j + 1
      BY <2>3
    <3> QED
      BY <2>3, <2>4, <3>1, Zenon DEF Delivering, Ordered
  <2> HIDE DEF sent, left
  <2>9. /\ t \in ClientStates /\ t.last = s.last /\ t.hub = s.hub /\ t.writing
        /\ t.replaying = s.replaying /\ t.out = sent /\ t.queue = left
    <3>1. t = [s EXCEPT !.out = sent, !.queue = left, !.writing = TRUE]
      BY <2>1, <2>2 DEF ClientStates, sent, left
    <3> HIDE DEF t
    <3> QED
      BY <2>2, <2>3, <2>4, <3>1, Zenon DEF ClientStates
  <2> HIDE DEF t
  <2>10. \A i \in 1..Len(t.out) : Covered(t.out[i], t.last, k)
    BY <2>3, <2>4, <2>9, Zenon DEF Delivering
  <2>11. \A i \in 1..Len(t.queue) : Covered(t.queue[i], t.last, k)
    BY <2>3, <2>9, Zenon DEF Delivering
  <2> QED
    BY <2>6, <2>7, <2>8, <2>9, <2>10, <2>11, Zenon DEF ClientSound, Armed, Delivering, t
<1>3. CASE ~(s.writing \/ s.queue = <<>>) /\ ~s.slow
  <2> DEFINE t == Flush(s)
  <2>1. /\ t = [s EXCEPT !.out = @ \o s.queue, !.queue = <<>>]
    BY <1>3 DEF Flush
  <2> DEFINE sent == s.out \o s.queue
  <2>2. s \in ClientStates /\ s.queue \in Seq(Messages) /\ s.out \in Seq(Messages)
    BY DEF Delivering, ClientStates
  <2>3. /\ sent \in Seq(Messages)
        /\ \A i \in 1..Len(sent) :
             \/ i \in 1..Len(s.out) /\ sent[i] = s.out[i]
             \/ i > Len(s.out) /\ i - Len(s.out) \in 1..Len(s.queue) /\ sent[i] = s.queue[i - Len(s.out)]
    BY <2>2, ConcatParts, Zenon
  <2>5. Ordered(sent)
    BY FramesOrdered, Zenon
  <2> HIDE DEF sent
  <2>6. /\ t \in ClientStates /\ t.last = s.last /\ t.hub = s.hub
        /\ t.replaying = s.replaying /\ t.out = sent /\ t.queue = <<>>
    <3>1. t = [s EXCEPT !.out = sent, !.queue = <<>>]
      BY <2>1, <2>2 DEF ClientStates, sent
    <3>2. <<>> \in Seq(Messages)
      OBVIOUS
    <3> HIDE DEF t
    <3> QED
      BY <2>2, <2>3, <3>1, <3>2, Zenon DEF ClientStates
  <2> HIDE DEF t
  <2>7. \A i \in 1..Len(t.out) : Covered(t.out[i], t.last, k)
    BY <2>3, <2>6, Zenon DEF Delivering
  <2>8. Len(t.queue) = 0 /\ Ordered(t.queue) /\ (\A i \in 1..Len(t.queue) : FALSE)
    BY <2>6 DEF Ordered
  <2> QED
    BY <2>5, <2>6, <2>7, <2>8, Zenon DEF ClientSound, Armed, Delivering, t
<1> QED
  BY <1>1, <1>2, <1>3

(* A frame that may follow all the others is queued behind them. *)
LEMMA EnqueueDelivers ==
  ASSUME NEW k \in Nat, NEW l \in Nat, k <= l, NEW s, Delivering(s, k), NEW m \in Messages,
         FollowsAll(m, s.out), FollowsAll(m, s.queue), Within(m, l)
  PROVE  Delivering(Enqueue(s, m), l) /\ Enqueue(s, m).hub = s.hub
         /\ Enqueue(s, m).replaying = s.replaying
<1> DEFINE t == Enqueue(s, m)
           q == Append(s.queue, m)
<1>1. s.queue \in Seq(Messages) /\ s.out \in Seq(Messages) /\ s.last \in EventIds \cup {Null}
  BY DEF Delivering, ClientStates
<1>2. q \in Seq(Messages) /\ m.id \in EventIds
  BY <1>1 DEF Messages
<1>0. QueueMax \in Nat
  BY HubAssumption
<1>3. Newest(q, QueueMax) \in Seq(Messages)
  BY <1>0, <1>2, NewestIsTail, Zenon
<1>4. /\ t \in ClientStates /\ t.hub = s.hub /\ t.replaying = s.replaying /\ t.out = s.out
      /\ t.queue = Newest(q, QueueMax)
      /\ t.last = IF After(m.id, s.last) THEN m.id ELSE s.last
  BY <1>2, <1>3, Zenon DEF Enqueue, Delivering, ClientStates
<1>5. \A i \in 1..Len(t.queue) : \E j \in 1..Len(q) : t.queue[i] = q[j]
  <2>1. AllFrom(Newest(q, QueueMax), q)
    BY <1>0, <1>2, NewestMembers, Zenon
  <2> HIDE DEF t, q
  <2> QED
    BY <1>4, <2>1 DEF AllFrom
<1>6. Ordered(t.queue)
  BY <1>0, <1>1, <1>2, <1>4, AppendOrdered, NewestOrdered, Zenon DEF Delivering
<1>7. \A i \in 1..Len(q) : (i \in 1..Len(s.queue) /\ q[i] = s.queue[i]) \/ q[i] = m
  BY <1>1, <1>2
<1>8. /\ t.last \in EventIds /\ ~IdLess(t.last, m.id)
      /\ \A f \in Messages : Covered(f, s.last, k) => Covered(f, t.last, l)
  <2>1. \A f \in Messages : f.id \in EventIds /\ f.id.seq \in Nat
    BY DEF Messages, EventIds
  <2>2. Null \notin EventIds
    BY HubAssumption DEF EventIds
  <2>3. ~IdLess(m.id, m.id)
    BY <1>2 DEF EventIds, IdLess
  <2>4. CASE After(m.id, s.last)
    <3>1. t.last = m.id
      BY <1>4, <2>4
    <3>2. ASSUME NEW f \in Messages, Covered(f, s.last, k)
          PROVE  Covered(f, m.id, l)
      <4>1. s.last \in EventIds /\ IdLess(s.last, m.id) /\ ~IdLess(s.last, f.id)
        BY <1>1, <2>4, <3>2 DEF Covered, Within, After
      <4>2. ~IdLess(m.id, f.id)
        BY <1>2, <2>1, <4>1, IdOrder
      <4>3. Within(f, l)
        BY <2>1, <3>2 DEF Covered, Within
      <4> QED
        BY <1>2, <2>2, <4>2, <4>3 DEF Covered, Within
    <3> QED
      BY <1>2, <2>3, <3>1, <3>2
  <2>5. CASE ~After(m.id, s.last)
    <3>1. t.last = s.last /\ s.last \in EventIds /\ ~IdLess(s.last, m.id)
      BY <1>1, <1>4, <2>5 DEF After
    <3>2. ASSUME NEW f \in Messages, Covered(f, s.last, k)
          PROVE  Covered(f, s.last, l)
      BY <2>1, <3>2 DEF Covered, Within
    <3> QED
      BY <3>1, <3>2
  <2> QED
    BY <2>4, <2>5
<1> HIDE DEF t, q
<1>9. Covered(m, t.last, l)
  BY <1>8, HubAssumption DEF Covered, Within, EventIds
<1>10. \A i \in 1..Len(t.queue) :
         \/ t.queue[i] = m
         \/ \E j \in 1..Len(s.queue) : t.queue[i] = s.queue[j]
  BY <1>5, <1>7, Zenon
<1>11. /\ \A i \in 1..Len(s.out) : s.out[i] \in Messages
       /\ \A i \in 1..Len(s.queue) : s.queue[i] \in Messages
  BY <1>1
<1>12. \A i \in 1..Len(t.queue) : Covered(t.queue[i], t.last, l)
  BY <1>8, <1>9, <1>10, <1>11, Zenon DEF Delivering
<1>13. \A i \in 1..Len(t.out) : Covered(t.out[i], t.last, l)
  BY <1>4, <1>8, <1>11, Zenon DEF Delivering
<1>14. \A i \in 1..Len(t.out), j \in 1..Len(t.queue) : Follows(t.queue[j], t.out[i])
  BY <1>4, <1>10, Zenon DEF Delivering, FollowsAll
<1>15. Ordered(t.out)
  BY <1>4, Zenon DEF Delivering
<1> QED
  BY <1>4, <1>6, <1>12, <1>13, <1>14, <1>15, Zenon DEF Delivering, t

(* The counter may move on. *)
LEMMA LimitGrows ==
  ASSUME NEW k \in Nat, NEW l \in Nat, k <= l, NEW s, ClientSound(s, k)
  PROVE  ClientSound(s, l)
<1>1. /\ \A i \in 1..Len(s.out) : s.out[i] \in Messages
      /\ \A i \in 1..Len(s.queue) : s.queue[i] \in Messages
  BY DEF ClientSound, Delivering, ClientStates
<1>2. \A f \in Messages : Covered(f, s.last, k) => Covered(f, s.last, l)
  BY DEF Covered, Within, Messages, EventIds
<1> QED
  BY <1>1, <1>2, Zenon DEF ClientSound, Delivering

(* deliverTo, once the message has passed the filter and the skip. *)
Accept(s, m) == IF s.replaying THEN Enqueue(s, m) ELSE Flush(Enqueue(s, m))

(* m may follow whatever s can have been sent. *)
Newer(m, s, k) == \A f \in Messages : Covered(f, s.last, k) => Follows(m, f)

LEMMA AcceptedSound ==
  ASSUME NEW k \in Nat, NEW l \in Nat, k <= l, NEW s, ClientSound(s, k), NEW m \in Messages,
         Within(m, l), Newer(m, s, k)
  PROVE  ClientSound(Accept(s, m), l) /\ Accept(s, m).hub = s.hub
<1>1. /\ \A i \in 1..Len(s.out) : s.out[i] \in Messages
      /\ \A i \in 1..Len(s.queue) : s.queue[i] \in Messages
  BY DEF ClientSound, Delivering, ClientStates
<1>2. FollowsAll(m, s.out) /\ FollowsAll(m, s.queue)
  BY <1>1, Zenon DEF ClientSound, Delivering, Newer, FollowsAll
<1> DEFINE u == Enqueue(s, m)
<1>3. Delivering(u, l) /\ u.hub = s.hub /\ u.replaying = s.replaying
  BY <1>2, EnqueueDelivers, Zenon DEF ClientSound
<1> HIDE DEF u
<1>4. CASE s.replaying
  <2>1. Accept(s, m) = u
    BY <1>4, Zenon DEF u, Accept
  <2> QED
    BY <1>3, <1>4, <2>1, Zenon DEF ClientSound, Armed
<1>5. CASE ~s.replaying
  <2>1. Accept(s, m) = Flush(u)
    BY <1>5, Zenon DEF u, Accept
  <2> QED
    BY <1>3, <2>1, FlushSound, Zenon
<1> QED
  BY <1>4, <1>5

(* deliverTo for a broadcast or a replayed entry, and for a local message. *)
Later(c, s, m) == Deliver(c, s, m, TRUE)
Unskipped(c, s, m) == Deliver(c, s, m, FALSE)

Keeps(t, s, k) == ClientSound(t, k) /\ t.hub = s.hub

(* deliverTo keeps a client sound: with the monotonic skip for every message, *)
(* and without it for a local id above the hub's counter.                     *)
LEMMA DeliverLater ==
  ASSUME NEW k \in Nat, NEW c, NEW s, ClientSound(s, k), NEW m \in Messages,
         Within(m, k)
  PROVE  Keeps(Later(c, s, m), s, k)
<1> DEFINE t == Later(c, s, m)
<1>1. CASE t = s
  BY <1>1, Zenon DEF Keeps
<1>2. CASE After(m.id, s.last) /\ t = Accept(s, m)
  <2>1. ASSUME NEW f \in Messages, Covered(f, s.last, k) PROVE Follows(m, f)
    <3>1. m.id \in EventIds /\ f.id \in EventIds /\ s.last \in EventIds \cup {Null}
      BY DEF Messages, ClientSound, Delivering, ClientStates
    <3>2. s.last \in EventIds /\ IdLess(s.last, m.id) /\ ~IdLess(s.last, f.id)
      BY <1>2, <2>1, <3>1 DEF Covered, Within, After
    <3> QED
      BY <3>1, <3>2, IdOrder DEF Follows
  <2>2. k <= k
    OBVIOUS
  <2>3. Newer(m, s, k)
    BY <2>1, Zenon DEF Newer
  <2>4. ClientSound(Accept(s, m), k) /\ Accept(s, m).hub = s.hub
    BY <2>2, <2>3, AcceptedSound, Zenon
  <2> QED
    BY <1>2, <2>4, Zenon DEF Keeps
<1> QED
  BY <1>1, <1>2, Zenon DEF Later, Deliver, Accept

LEMMA DeliverNumbered ==
  ASSUME NEW k \in Nat, NEW c, NEW s, ClientSound(s, k), NEW m \in Messages,
         IsLocal(m.id), m.id.seq = k + 1
  PROVE  Keeps(Unskipped(c, s, m), s, k + 1)
<1> DEFINE t == Unskipped(c, s, m)
<1>1. k + 1 \in Nat /\ k <= k + 1 /\ m.id.seq <= k + 1
  OBVIOUS
<1>2. CASE t = s
  BY <1>1, <1>2, LimitGrows, Zenon DEF Keeps
<1>3. CASE t = Accept(s, m)
  <2>1. ASSUME NEW f \in Messages, Covered(f, s.last, k) PROVE Follows(m, f)
    BY <2>1 DEF Covered, Within, Follows, IdLess, IsLocal, EventIds, Messages
  <2>2. Newer(m, s, k) /\ Within(m, k + 1)
    BY <1>1, <2>1, Zenon DEF Newer, Within
  <2>3. ClientSound(Accept(s, m), k + 1) /\ Accept(s, m).hub = s.hub
    BY <1>1, <2>2, AcceptedSound, Zenon
  <2> QED
    BY <1>3, <2>3, Zenon DEF Keeps
<1> QED
  BY <1>2, <1>3, Zenon DEF Unskipped, Deliver, Accept

----------------------------------------------------------------------------
(* The replay loop.  Every nonempty set of naturals has a least element: the *)
(* form of induction used for it.                                            *)
LEMMA LeastNatural ==
  ASSUME NEW N \in SUBSET Nat, N # {}
  PROVE  \E n \in N : \A m \in N : n <= m
<1> DEFINE R == OpToRel(<, Nat)
<1>1. IsWellFoundedOn(R, Nat)
  BY NatLessThanWellFounded, Zenon
<1>2. \A m, n \in Nat : <<m, n>> \in R <=> m < n
  BY DEF OpToRel
<1> HIDE DEF R
<1>3. PICK n \in N : \A m \in N : ~(<<m, n>> \in R)
  BY <1>1, WFMin, Zenon
<1>4. ASSUME NEW m \in N PROVE n <= m
  <2>1. m \in Nat /\ n \in Nat /\ ~(<<m, n>> \in R)
    BY <1>3
  <2>2. ~(m < n)
    BY <1>2, <2>1
  <2> QED
    BY <2>1, <2>2
<1> QED
  BY <1>4

(* A property of numbers that holds of each one when it holds of the one *)
(* before it holds of all.                                               *)
LEMMA StepByStep ==
  ASSUME NEW D, 0 \in D, \A n \in Nat : n \in D => n + 1 \in D
  PROVE  \A n \in Nat : n \in D
<1> DEFINE Bad == {n \in Nat : n \notin D}
<1>1. SUFFICES ASSUME Bad # {} PROVE FALSE
  OBVIOUS
<1>2. PICK n \in Bad : \A m \in Bad : n <= m
  BY <1>1, LeastNatural, Zenon
<1>3. n \in Nat /\ n # 0 /\ n - 1 \in Nat /\ ~(n <= n - 1) /\ (n - 1) + 1 = n
  BY <1>2
<1>4. n - 1 \in D
  BY <1>2, <1>3
<1> QED
  BY <1>2, <1>3, <1>4

Entry(c, s, t, m) == IF After(m.id, s.from) THEN Later(c, t, m) ELSE t

IsLoop(g, n, c, s, entries) ==
  g = [k \in 0..n |-> IF k = 0 THEN s ELSE Entry(c, s, g[k - 1], entries[k])]

LEMMA ReplayedIsChosen ==
  ASSUME NEW c, NEW s, NEW entries
  PROVE  Replayed(c, s, entries, TRUE)
           = (CHOOSE g : IsLoop(g, Len(entries), c, s, entries))[Len(entries)]
BY Zenon DEF Replayed, IsLoop, Entry, Later

LEMMA LoopExists ==
  ASSUME NEW c, NEW s, NEW entries
  PROVE  \A n \in Nat : \E g : IsLoop(g, n, c, s, entries)
<1> DEFINE D == {n \in Nat : \E g : IsLoop(g, n, c, s, entries)}
<1>1. 0 \in D
  <2> DEFINE g == [k \in 0..0 |-> s]
  <2>1. g = [k \in 0..0 |-> IF k = 0 THEN s ELSE Entry(c, s, g[k - 1], entries[k])]
    OBVIOUS
  <2>2. IsLoop(g, 0, c, s, entries)
    BY <2>1, Zenon DEF IsLoop
  <2> QED
    BY <2>2
<1>2. ASSUME NEW n \in Nat, n \in D PROVE n + 1 \in D
  <2>1. PICK f : IsLoop(f, n, c, s, entries)
    BY <1>2
  <2> DEFINE last == Entry(c, s, f[n], entries[n + 1])
             g == [k \in 0..(n + 1) |-> IF k = n + 1 THEN last ELSE f[k]]
  <2>2. \A k \in 0..n : f[k] = IF k = 0 THEN s ELSE Entry(c, s, f[k - 1], entries[k])
    BY <2>1, Zenon DEF IsLoop
  <2>3. ASSUME NEW k \in 0..(n + 1)
        PROVE  g[k] = IF k = 0 THEN s ELSE Entry(c, s, g[k - 1], entries[k])
    <3>1. CASE k = n + 1
      <4>1. g[k] = last /\ k # 0 /\ g[k - 1] = f[n] /\ entries[k] = entries[n + 1]
        BY <3>1
      <4> QED
        BY <4>1, Zenon
    <3>2. CASE k \in 0..n
      <4>1. g[k] = f[k] /\ (k # 0 => g[k - 1] = f[k - 1])
        BY <3>2
      <4> QED
        BY <2>2, <3>2, <4>1, Zenon
    <3> QED
      BY <3>1, <3>2
  <2> HIDE DEF last
  <2>4. g = [k \in 0..(n + 1) |-> g[k]]
    OBVIOUS
  <2> HIDE DEF g
  <2>5. IsLoop(g, n + 1, c, s, entries)
    BY <2>3, <2>4, Zenon DEF IsLoop
  <2> QED
    BY <2>5
<1> HIDE DEF D
<1>3. \A n \in Nat : n \in D
  BY <1>1, <1>2, StepByStep, Zenon
<1> QED
  BY <1>3 DEF D

(* replay and the end of attachClient keep a client sound. *)
AllWithin(entries, k) == \A i \in 1..Len(entries) : Within(entries[i], k)

LEMMA ReplaySound ==
  ASSUME NEW k \in Nat, NEW c, NEW s, ClientSound(s, k), NEW entries \in Seq(Messages),
         AllWithin(entries, k)
  PROVE  Keeps(Replay(c, s, entries), s, k)
<1>1. Len(entries) \in Nat
  OBVIOUS
<1>2. PICK g : IsLoop(g, Len(entries), c, s, entries) /\ Replayed(c, s, entries, TRUE) = g[Len(entries)]
  <2>1. \E g : IsLoop(g, Len(entries), c, s, entries)
    BY <1>1, LoopExists, Zenon
  <2> QED
    BY <2>1, ReplayedIsChosen, Zenon
<1>3. \A n \in 0..Len(entries) :
        g[n] = IF n = 0 THEN s ELSE Entry(c, s, g[n - 1], entries[n])
  BY <1>2, Zenon DEF IsLoop
<1> DEFINE D == {n \in Nat : n <= Len(entries) => ClientSound(g[n], k) /\ g[n].hub = s.hub}
<1>4. 0 \in D
  BY <1>1, <1>3
<1>5. ASSUME NEW n \in Nat, n \in D PROVE n + 1 \in D
  <2> SUFFICES ASSUME n + 1 <= Len(entries)
               PROVE  ClientSound(g[n + 1], k) /\ g[n + 1].hub = s.hub
    OBVIOUS
  <2>0. ClientSound(g[n], k)
    BY <1>1, <1>5
  <2>1. g[n].hub = s.hub
    BY <1>1, <1>5
  <2>2. n + 1 \in 0..Len(entries) /\ n + 1 # 0 /\ (n + 1) - 1 = n /\ n + 1 \in 1..Len(entries)
    BY <1>1
  <2>3. g[n + 1] = Entry(c, s, g[n], entries[n + 1])
    BY <1>3, <2>2, Zenon
  <2>4. entries[n + 1] \in Messages /\ Within(entries[n + 1], k)
    BY <2>2 DEF AllWithin
  <2>5. Keeps(Later(c, g[n], entries[n + 1]), g[n], k)
    BY <2>0, <2>4, DeliverLater, Zenon
  <2> QED
    BY <2>0, <2>1, <2>3, <2>5, Zenon DEF Entry, Keeps
<1> HIDE DEF D
<1>6. \A n \in Nat : n \in D
  BY <1>4, <1>5, StepByStep, Zenon
<1> DEFINE t == Replayed(c, s, entries, TRUE)
           u == [t EXCEPT !.replaying = FALSE, !.reply = Null]
<1>7. ClientSound(t, k) /\ t.hub = s.hub
  <2>1. Len(entries) \in D /\ Len(entries) <= Len(entries)
    BY <1>1, <1>6
  <2> QED
    BY <1>2, <2>1, Zenon DEF D
<1> HIDE DEF t
<1>8. /\ u \in ClientStates /\ u.hub = t.hub /\ u.out = t.out /\ u.queue = t.queue
      /\ u.last = t.last
  BY <1>7, Zenon DEF ClientSound, Delivering, ClientStates
<1> HIDE DEF u
<1>9. Delivering(u, k)
  BY <1>7, <1>8, Zenon DEF ClientSound, Delivering
<1>10. Replay(c, s, entries) = Flush(u)
  BY Zenon DEF Replay, u, t
<1> QED
  BY <1>7, <1>8, <1>9, <1>10, FlushSound, Zenon DEF Keeps

----------------------------------------------------------------------------
(* The invariant. *)
HubStates ==
  [subs : Int, pending : Int, orphan : BOOLEAN, late : Seq(StreamMessages),
   ring : Seq(Messages), counter : Nat, closed : BOOLEAN]

(* A ring holds nothing numbered above its hub's counter. *)
HubsSound(hb) ==
  /\ hb \in [Hubs -> HubStates]
  /\ \A h \in Hubs : \A i \in 1..Len(hb[h].ring) : Within(hb[h].ring[i], hb[h].counter)

(* The counter that numbered a client's local frames. *)
Numbered(hb, s) == IF s.hub = Null THEN 0 ELSE hb[s.hub].counter

ClientsSound(cl, hb) ==
  /\ cl = [c \in Clients |-> cl[c]]
  /\ \A c \in Clients : ClientSound(cl[c], Numbered(hb, cl[c]))

HubInv ==
  /\ published \in Nat /\ issued \in Nat
  /\ stream \in Seq(StreamMessages)
  /\ inflight \in [Hubs -> Seq(StreamMessages)]
  /\ received \in [Clients -> EventIds \cup {Null}]
  /\ HubsSound(hub)
  /\ ClientsSound(client, hub)

LEMMA NumberedType ==
  ASSUME NEW hb, HubsSound(hb), NEW s, s.hub \in Hubs \cup {Null}
  PROVE  Numbered(hb, s) \in Nat
BY HubAssumption DEF HubsSound, HubStates, Numbered

(* A broadcast reaches clients in order whatever the hubs. *)
LEMMA RelaySound ==
  ASSUME NEW hb, HubsSound(hb), NEW cl, ClientsSound(cl, hb), NEW hs,
         NEW m \in StreamMessages
  PROVE  ClientsSound(FanOut(cl, hs, m, TRUE), hb)
<1> DEFINE new == FanOut(cl, hs, m, TRUE)
<1>1. m \in Messages /\ \A k : Within(m, k)
  BY DEF StreamMessages, Within
<1>2. ASSUME NEW c \in Clients PROVE ClientSound(new[c], Numbered(hb, new[c]))
  <2>1. new[c] = IF cl[c].hub \in hs THEN Later(c, cl[c], m) ELSE cl[c]
    BY DEF FanOut, Later
  <2>2. ClientSound(cl[c], Numbered(hb, cl[c]))
    BY DEF ClientsSound
  <2>3. Numbered(hb, cl[c]) \in Nat
    <3>1. cl[c].hub \in Hubs \cup {Null}
      BY <2>2 DEF ClientSound, Delivering, ClientStates
    <3> QED
      BY <3>1, NumberedType
  <2>5. Keeps(Later(c, cl[c], m), cl[c], Numbered(hb, cl[c]))
    <3>1. Within(m, Numbered(hb, cl[c])) /\ m \in Messages
      BY <1>1, Zenon
    <3> QED
      BY <2>2, <2>3, <3>1, DeliverLater, Zenon
  <2> HIDE DEF new
  <2>6. ClientSound(new[c], Numbered(hb, cl[c])) /\ new[c].hub = cl[c].hub
    BY <2>1, <2>2, <2>5, Zenon DEF Keeps
  <2> QED
    BY <2>6, Zenon DEF Numbered
<1>3. new = [c \in Clients |-> new[c]]
  BY DEF FanOut
<1> QED
  BY <1>2, <1>3, Zenon DEF ClientsSound

(* A message the hub numbers itself comes after all it numbered before. *)
LEMMA FallbackSound ==
  ASSUME NEW hb, HubsSound(hb), NEW cl, ClientsSound(cl, hb), NEW h \in Hubs,
         NEW ev \in Nat, hb[h].counter = hub[h].counter, Fallback(h, ev, hb, cl)
  PROVE  HubsSound(hub') /\ ClientsSound(client', hub')
<1> DEFINE m == [id |-> LocalId(hub[h].counter + 1), ev |-> ev]
           ring == Append(hb[h].ring, m)
           n == hub[h].counter
<1>1. n \in Nat /\ hb[h] \in HubStates
  BY DEF HubsSound, HubStates
<1>2. m \in Messages /\ IsLocal(m.id) /\ m.id.seq = n + 1
  BY <1>1 DEF Messages, EventIds, LocalId, IsLocal
<1>3. /\ hub' = [hb EXCEPT ![h].counter = @ + 1, ![h].ring = Newest(Append(@, m), LocalMax)]
      /\ client' = FanOut(cl, {h}, m, FALSE)
  BY Zenon DEF Fallback
<1> HIDE DEF m
<1>4. HubsSound(hub')
  <2>1. hb[h].ring \in Seq(Messages) /\ ring \in Seq(Messages)
    BY <1>1, <1>2 DEF HubStates
  <2>2. /\ Newest(ring, LocalMax) \in Seq(Messages)
        /\ AllFrom(Newest(ring, LocalMax), ring)
    <3>1. LocalMax \in Nat
      BY HubAssumption
    <3> HIDE DEF ring
    <3>2. Newest(ring, LocalMax) \in Seq(Messages)
      BY <2>1, <3>1, NewestIsTail, Zenon
    <3> QED
      BY <2>1, <3>1, <3>2, NewestMembers, Zenon
  <2>3. \A j \in 1..Len(ring) : Within(ring[j], n + 1)
    <3>1. \A j \in 1..Len(ring) : (j \in 1..Len(hb[h].ring) /\ ring[j] = hb[h].ring[j]) \/ ring[j] = m
      BY <1>2, <2>1
    <3>2. \A j \in 1..Len(hb[h].ring) : hb[h].ring[j] \in Messages
      BY <2>1
    <3>3. \A f \in Messages : Within(f, n) => Within(f, n + 1)
      BY <1>1 DEF Messages, EventIds, Within
    <3>4. Within(m, n + 1)
      BY <1>1, <1>2 DEF Within
    <3> HIDE DEF ring
    <3> QED
      BY <3>1, <3>2, <3>3, <3>4, Zenon DEF HubsSound
  <2>4. \A i \in 1..Len(Newest(ring, LocalMax)) : Within(Newest(ring, LocalMax)[i], n + 1)
    <3> HIDE DEF ring, n
    <3> QED
      BY <2>2, <2>3, Zenon DEF AllFrom
  <2>5. /\ hub' \in [Hubs -> HubStates]
        /\ hub'[h].ring = Newest(ring, LocalMax) /\ hub'[h].counter = n + 1
        /\ \A g \in Hubs : g # h => hub'[g] = hb[g]
    <3> DEFINE r == Newest(ring, LocalMax)
    <3>1. hub' = [hb EXCEPT ![h] = [hb[h] EXCEPT !.counter = n + 1, !.ring = r]]
      BY <1>1, <1>3, Zenon DEF HubsSound, HubStates
    <3>2. r \in Seq(Messages) /\ n + 1 \in Nat
      BY <1>1, <2>2
    <3> HIDE DEF r, n
    <3>3. [hb[h] EXCEPT !.counter = n + 1, !.ring = r] \in HubStates
      BY <1>1, <3>2, Zenon DEF HubStates
    <3> QED
      BY <1>1, <3>1, <3>3 DEF HubsSound, HubStates, r
  <2> HIDE DEF ring, n
  <2> QED
    BY <2>4, <2>5, Zenon DEF HubsSound
<1>5. hub'[h].counter = n + 1 /\ \A g \in Hubs : g # h => hub'[g].counter = hb[g].counter
  BY <1>1, <1>3 DEF HubsSound, HubStates
<1>6. ASSUME NEW c \in Clients PROVE ClientSound(client'[c], Numbered(hub', client'[c]))
  <2>1. client'[c] = IF cl[c].hub \in {h} THEN Unskipped(c, cl[c], m) ELSE cl[c]
    BY <1>3 DEF FanOut, Unskipped
  <2>2. ClientSound(cl[c], Numbered(hb, cl[c])) /\ cl[c].hub \in Hubs \cup {Null}
    BY DEF ClientsSound, ClientSound, Delivering, ClientStates
  <2>3. CASE cl[c].hub = h
    <3>1. Numbered(hb, cl[c]) = n
      BY <2>3, HubAssumption DEF Numbered
    <3>2. ClientSound(cl[c], n) /\ n \in Nat
      BY <1>1, <2>2, <3>1, Zenon
    <3> HIDE DEF n
    <3>3. Keeps(Unskipped(c, cl[c], m), cl[c], n + 1)
      BY <1>2, <3>2, DeliverNumbered, Zenon
    <3>4. client'[c] = Unskipped(c, cl[c], m)
      BY <2>1, <2>3
    <3>5. ClientSound(client'[c], n + 1) /\ client'[c].hub = h /\ h # Null
      BY <2>3, <3>3, <3>4, HubAssumption, Zenon DEF Keeps
    <3> QED
      BY <1>5, <3>5, Zenon DEF Numbered
  <2>4. CASE cl[c].hub # h
    <3>1. client'[c] = cl[c]
      BY <2>1, <2>4
    <3>2. Numbered(hub', cl[c]) = Numbered(hb, cl[c])
      BY <1>5, <2>2, <2>4, Zenon DEF Numbered
    <3> QED
      BY <2>2, <3>1, <3>2, Zenon
  <2> QED
    BY <2>3, <2>4
<1>7. client' = [c \in Clients |-> client'[c]]
  BY <1>3 DEF FanOut
<1> QED
  BY <1>4, <1>6, <1>7, Zenon DEF ClientsSound

----------------------------------------------------------------------------
(* What a step changes, client by client and hub by hub. *)

(* A client to whom nothing was written yet. *)
LEMMA EmptySound ==
  ASSUME NEW s \in ClientStates, s.out = <<>>, s.queue = <<>>, NEW k
  PROVE  ClientSound(s, k)
<1>1. Len(s.out) = 0 /\ Len(s.queue) = 0
  OBVIOUS
<1>2. (\A i \in 1..Len(s.out) : FALSE) /\ (\A i \in 1..Len(s.queue) : FALSE)
  BY <1>1
<1> QED
  BY <1>2, Zenon DEF ClientSound, Delivering, Armed, Ordered

LEMMA ClosedSound == Closed \in ClientStates /\ \A k : ClientSound(Closed, k)
<1>1. Closed \in ClientStates /\ Closed.out = <<>> /\ Closed.queue = <<>>
  BY DEF Closed, ClientStates
<1> QED
  BY <1>1, EmptySound, Zenon

(* Changes that leave the frames alone. *)
LEMMA SameFrames ==
  ASSUME NEW k, NEW s, ClientSound(s, k), NEW t \in ClientStates,
         t.out = s.out, t.queue = s.queue, t.last = s.last
  PROVE  Delivering(t, k)
BY Zenon DEF ClientSound, Delivering

LEMMA ClientFacts ==
  ASSUME HubInv, NEW c \in Clients
  PROVE  /\ client[c] \in ClientStates
         /\ Numbered(hub, client[c]) \in Nat
         /\ ClientSound(client[c], Numbered(hub, client[c]))
<1>1. ClientSound(client[c], Numbered(hub, client[c])) /\ HubsSound(hub)
  BY Zenon DEF HubInv, ClientsSound
<1>2. client[c] \in ClientStates
  BY <1>1, Zenon DEF ClientSound, Delivering
<1>3. client[c].hub \in Hubs \cup {Null}
  BY <1>2 DEF ClientStates
<1> QED
  BY <1>1, <1>2, <1>3, NumberedType, Zenon

(* One client changes. *)
LEMMA ClientMoves ==
  ASSUME HubInv, NEW c \in Clients, NEW s, ClientSound(s, Numbered(hub, s)),
         client' = [client EXCEPT ![c] = s], hub' = hub
  PROVE  ClientsSound(client', hub')
<1>1. client' = [d \in Clients |-> IF d = c THEN s ELSE client[d]]
  BY DEF HubInv, ClientsSound
<1>2. \A d \in Clients : client'[d] = IF d = c THEN s ELSE client[d]
  BY <1>1
<1>3. client' = [d \in Clients |-> client'[d]]
  BY <1>1, Zenon
<1>4. ASSUME NEW d \in Clients PROVE ClientSound(client'[d], Numbered(hub, client'[d]))
  <2>1. CASE d = c
    BY <1>2, <2>1, Zenon
  <2>2. CASE d # c
    <3>1. client'[d] = client[d]
      BY <1>2, <2>2, Zenon
    <3> QED
      BY <3>1, ClientFacts, Zenon
  <2> QED
    BY <2>1, <2>2
<1> QED
  BY <1>3, <1>4, Zenon DEF ClientsSound

(* The hubs change and no counter does. *)
SameCounters(new, hb) == \A h \in Hubs : new[h].counter = hb[h].counter

LEMMA CountersKept ==
  ASSUME NEW hb, NEW new, NEW cl, ClientsSound(cl, hb),
         SameCounters(new, hb)
  PROVE  ClientsSound(cl, new)
<1>1. ASSUME NEW c \in Clients PROVE ClientSound(cl[c], Numbered(new, cl[c]))
  <2>1. ClientSound(cl[c], Numbered(hb, cl[c]))
    BY Zenon DEF ClientsSound
  <2>2. cl[c].hub \in Hubs \cup {Null}
    BY <2>1 DEF ClientSound, Delivering, ClientStates
  <2>3. Numbered(new, cl[c]) = Numbered(hb, cl[c])
    BY <2>2, Zenon DEF Numbered, SameCounters
  <2> QED
    BY <2>1, <2>3, Zenon
<1> QED
  BY <1>1, Zenon DEF ClientsSound

(* A hub changes and keeps its ring and counter. *)
SameRing(r, old) == r \in HubStates /\ r.ring = old.ring /\ r.counter = old.counter

LEMMA HubMoves ==
  ASSUME NEW hb, HubsSound(hb), NEW h \in Hubs, NEW r, SameRing(r, hb[h])
  PROVE  HubsSound([hb EXCEPT ![h] = r]) /\ SameCounters([hb EXCEPT ![h] = r], hb)
<1> DEFINE new == [hb EXCEPT ![h] = r]
<1>1. new \in [Hubs -> HubStates]
  BY Zenon DEF HubsSound, SameRing
<1>2. \A g \in Hubs : new[g].ring = hb[g].ring /\ new[g].counter = hb[g].counter
  BY Zenon DEF HubsSound, SameRing
<1> HIDE DEF new
<1>3. HubsSound(new)
  BY <1>1, <1>2, Zenon DEF HubsSound
<1> QED
  BY <1>2, <1>3, Zenon DEF new, SameCounters

LEMMA LateCopiesSound ==
  ASSUME HubsSound(hub), NEW m \in StreamMessages
  PROVE  HubsSound(LateCopies(m)) /\ SameCounters(LateCopies(m), hub)
<1> DEFINE new == LateCopies(m)
<1>1. ASSUME NEW g \in Hubs
      PROVE  new[g] \in HubStates /\ new[g].ring = hub[g].ring /\ new[g].counter = hub[g].counter
  <2>1. hub[g] \in HubStates
    BY DEF HubsSound
  <2>2. Append(hub[g].late, m) \in Seq(StreamMessages)
    BY <2>1 DEF HubStates
  <2>3. new[g] = IF hub[g].subs > 1 THEN [hub[g] EXCEPT !.late = Append(hub[g].late, m)] ELSE hub[g]
    BY DEF LateCopies
  <2> DEFINE l == Append(hub[g].late, m)
  <2> HIDE DEF l, new
  <2>4. [hub[g] EXCEPT !.late = l] \in HubStates
    BY <2>1, <2>2, Zenon DEF HubStates, l
  <2>5. /\ [hub[g] EXCEPT !.late = l].ring = hub[g].ring
        /\ [hub[g] EXCEPT !.late = l].counter = hub[g].counter
    BY <2>1 DEF HubStates
  <2> QED
    BY <2>1, <2>3, <2>4, <2>5, Zenon DEF l
<1>2. new \in [Hubs -> HubStates]
  <2>1. new = [g \in Hubs |-> new[g]]
    BY DEF LateCopies
  <2> HIDE DEF new
  <2> QED
    BY <1>1, <2>1
<1> HIDE DEF new
<1>3. HubsSound(new)
  BY <1>1, <1>2, Zenon DEF HubsSound
<1> QED
  BY <1>1, <1>3, Zenon DEF new, SameCounters

----------------------------------------------------------------------------
(* The invariant is kept. *)
LEMMA HubInvInit == HInit => HubInv
<1> SUFFICES ASSUME HInit PROVE HubInv
  OBVIOUS
<1>1. /\ published \in Nat /\ issued \in Nat /\ stream \in Seq(StreamMessages)
      /\ inflight \in [Hubs -> Seq(StreamMessages)]
      /\ received \in [Clients -> EventIds \cup {Null}]
  BY DEF HInit
<1>2. HubsSound(hub)
  <2>1. hub \in [Hubs -> HubStates]
    BY DEF HInit, HubStates
  <2>2. \A h \in Hubs : hub[h].ring = <<>>
    BY Zenon DEF HInit
  <2>3. \A h \in Hubs : \A i \in 1..Len(hub[h].ring) : FALSE
    BY <2>2
  <2> QED
    BY <2>1, <2>3, Zenon DEF HubsSound
<1>3. ClientsSound(client, hub)
  BY ClosedSound, Zenon DEF HInit, ClientsSound
<1> QED
  BY <1>1, <1>2, <1>3, Zenon DEF HubInv

LEMMA PublishToStreamKeeps ==
  ASSUME HubInv, NEW h \in Hubs, PublishToStream(h)
  PROVE  HubInv'
<1> DEFINE m == [id |-> StreamId(issued + 1), ev |-> published + 1]
           grown == Append(stream, m)
<1>1. published' \in Nat /\ issued' \in Nat
  BY DEF HubInv, PublishToStream
<1>2. m \in StreamMessages
  BY DEF HubInv, StreamMessages, Messages, EventIds, StreamId, IsLocal
<1>3. stream' \in {grown, Newest(grown, StreamMax)}
  BY Zenon DEF PublishToStream
<1>4. inflight' = [inflight EXCEPT ![h] = Append(inflight[h], m)]
  BY Zenon DEF PublishToStream
<1> HIDE DEF m
<1>5. grown \in Seq(StreamMessages) /\ StreamMax \in Nat
  BY <1>2, HubAssumption DEF HubInv
<1>6. stream' \in Seq(StreamMessages)
  <2>1. Newest(grown, StreamMax) \in Seq(StreamMessages)
    BY <1>5, NewestIsTail, Zenon
  <2> QED
    BY <1>3, <1>5, <2>1, Zenon
<1>7. inflight' \in [Hubs -> Seq(StreamMessages)]
  BY <1>2, <1>4 DEF HubInv
<1> QED
  BY <1>1, <1>6, <1>7, Zenon DEF HubInv, PublishToStream

LEMMA PublishLocallyKeeps ==
  ASSUME HubInv, NEW h \in Hubs, PublishLocally(h)
  PROVE  HubInv'
<1>1. published' \in Nat /\ published + 1 \in Nat
  BY DEF HubInv, PublishLocally
<1>2. HubsSound(hub') /\ ClientsSound(client', hub')
  BY <1>1, FallbackSound, Zenon DEF HubInv, PublishLocally
<1> QED
  BY <1>1, <1>2, Zenon DEF HubInv, PublishLocally

(* What is about to be broadcast. *)
LEMMA InflightFacts ==
  ASSUME HubInv, NEW h \in Hubs, inflight[h] # <<>>
  PROVE  /\ Head(inflight[h]) \in StreamMessages /\ Head(inflight[h]).ev \in Nat
         /\ [inflight EXCEPT ![h] = Tail(@)] \in [Hubs -> Seq(StreamMessages)]
<1>1. inflight[h] \in Seq(StreamMessages)
  BY DEF HubInv
<1>2. Head(inflight[h]) \in StreamMessages /\ Tail(inflight[h]) \in Seq(StreamMessages)
  BY <1>1
<1>3. \A m \in StreamMessages : m.ev \in Nat
  BY DEF StreamMessages, Messages
<1> QED
  BY <1>2, <1>3, Zenon DEF HubInv

LEMMA BroadcastKeeps ==
  ASSUME HubInv, NEW h \in Hubs, Broadcast(h)
  PROVE  HubInv'
<1> DEFINE m == Head(inflight[h])
<1>1. m \in StreamMessages /\ inflight' \in [Hubs -> Seq(StreamMessages)]
  BY InflightFacts, Zenon DEF Broadcast
<1>2. client' = Relay(m) /\ hub' = LateCopies(m)
  BY Zenon DEF Broadcast
<1> HIDE DEF m
<1>3. ClientsSound(Relay(m), hub)
  BY <1>1, RelaySound, Zenon DEF HubInv, Relay
<1>4. HubsSound(hub') /\ ClientsSound(client', hub')
  BY <1>1, <1>2, <1>3, LateCopiesSound, CountersKept, Zenon DEF HubInv
<1> QED
  BY <1>1, <1>4, Zenon DEF HubInv, Broadcast

LEMMA BroadcastFailsKeeps ==
  ASSUME HubInv, NEW h \in Hubs, BroadcastFails(h)
  PROVE  HubInv'
<1> DEFINE m == Head(inflight[h])
<1>1. m \in StreamMessages /\ m.ev \in Nat /\ inflight' \in [Hubs -> Seq(StreamMessages)]
  BY InflightFacts, Zenon DEF BroadcastFails
<1>2. \/ Fallback(h, m.ev, hub, client)
      \/ Fallback(h, m.ev, LateCopies(m), Relay(m))
  BY Zenon DEF BroadcastFails
<1> HIDE DEF m
<1>3. CASE Fallback(h, m.ev, hub, client)
  <2>1. HubsSound(hub') /\ ClientsSound(client', hub')
    BY <1>1, <1>3, FallbackSound, Zenon DEF HubInv
  <2> QED
    BY <1>1, <2>1, Zenon DEF HubInv, BroadcastFails
<1>4. CASE Fallback(h, m.ev, LateCopies(m), Relay(m))
  <2>1. ClientsSound(Relay(m), hub)
    BY <1>1, RelaySound, Zenon DEF HubInv, Relay
  <2>2. /\ HubsSound(LateCopies(m)) /\ LateCopies(m)[h].counter = hub[h].counter
        /\ SameCounters(LateCopies(m), hub)
    BY <1>1, LateCopiesSound, Zenon DEF HubInv, SameCounters
  <2>3. ClientsSound(Relay(m), LateCopies(m))
    BY <2>1, <2>2, CountersKept, Zenon
  <2>4. HubsSound(hub') /\ ClientsSound(client', hub')
    BY <1>1, <1>4, <2>2, <2>3, FallbackSound, Zenon
  <2> QED
    BY <1>1, <2>4, Zenon DEF HubInv, BroadcastFails
<1> QED
  BY <1>2, <1>3, <1>4

LEMMA HearAgainKeeps ==
  ASSUME HubInv, NEW h \in Hubs, HearAgain(h)
  PROVE  HubInv'
<1> DEFINE m == Head(hub[h].late)
           r == [hub[h] EXCEPT !.late = Tail(hub[h].late)]
<1>1. hub[h] \in HubStates /\ HubsSound(hub)
  BY DEF HubInv, HubsSound
<1>2. hub[h].late \in Seq(StreamMessages) /\ hub[h].late # <<>>
  BY <1>1, Zenon DEF HubStates, HearAgain
<1>3. m \in StreamMessages /\ Tail(hub[h].late) \in Seq(StreamMessages)
  BY <1>2
<1>4. SameRing(r, hub[h])
  BY <1>1, <1>3, Zenon DEF HubStates, SameRing
<1>5. client' = FanOut(client, {h}, m, TRUE) /\ hub' = [hub EXCEPT ![h] = r]
  BY Zenon DEF HearAgain
<1> HIDE DEF m, r
<1>6. ClientsSound(client', hub)
  BY <1>3, <1>5, RelaySound, Zenon DEF HubInv
<1>7. HubsSound(hub') /\ SameCounters(hub', hub)
  <2>1. HubsSound([hub EXCEPT ![h] = r]) /\ SameCounters([hub EXCEPT ![h] = r], hub)
    BY <1>1, <1>4, HubMoves, Zenon
  <2> QED
    BY <1>5, <2>1, Zenon
<1>8. ClientsSound(client', hub')
  BY <1>6, <1>7, CountersKept, Zenon
<1> QED
  BY <1>7, <1>8, Zenon DEF HubInv, HearAgain

(* A hub's subscriptions or its attempts to subscribe change. *)
LEMMA SubscriberMoves ==
  ASSUME HubInv, NEW h \in Hubs, NEW r, SameRing(r, hub[h]), hub' = [hub EXCEPT ![h] = r],
         UNCHANGED <<published, issued, stream, inflight, client, received>>
  PROVE  HubInv'
<1>1. HubsSound([hub EXCEPT ![h] = r]) /\ SameCounters([hub EXCEPT ![h] = r], hub)
  BY HubMoves, Zenon DEF HubInv
<1>2. HubsSound(hub') /\ SameCounters(hub', hub)
  BY <1>1, Zenon
<1>3. ClientsSound(client, hub)
  BY DEF HubInv
<1>4. ClientsSound(client, hub')
  BY <1>2, <1>3, CountersKept, Zenon
<1> QED
  BY <1>2, <1>4, Zenon DEF HubInv

LEMMA ScheduleKeeps ==
  ASSUME NEW old, NEW r, SameRing(r, old), NEW x \in ScheduleResubscribe(r)
  PROVE  SameRing(x, old)
<1>1. r \in HubStates
  BY DEF SameRing
<1>2. CASE r.closed
  BY <1>2, Zenon DEF ScheduleResubscribe
<1>3. CASE ~r.closed
  <2>1. PICK n \in {r.pending, r.pending + 1} \ {0} : x = [r EXCEPT !.pending = n]
    BY <1>3, Zenon DEF ScheduleResubscribe
  <2>2. n \in Int
    BY <1>1 DEF HubStates
  <2>3. x \in HubStates /\ x.ring = r.ring /\ x.counter = r.counter
    BY <1>1, <2>1, <2>2, Zenon DEF HubStates
  <2> QED
    BY <2>3, Zenon DEF SameRing
<1> QED
  BY <1>2, <1>3

LEMMA SubscriberKeeps ==
  ASSUME HubInv, NEW h \in Hubs,
         SubscriberEnds(h) \/ Resubscribe(h) \/ ResubscribeFails(h) \/ OrphanEnds(h)
  PROVE  HubInv'
<1>1. hub[h] \in HubStates
  BY DEF HubInv, HubsSound
<1>2. UNCHANGED <<published, issued, stream, inflight, client, received>>
  BY Zenon DEF SubscriberEnds, Resubscribe, ResubscribeFails, OrphanEnds
<1>3. \E r : SameRing(r, hub[h]) /\ hub' = [hub EXCEPT ![h] = r]
  <2>1. CASE SubscriberEnds(h)
    <3> DEFINE r(late) == [hub[h] EXCEPT !.subs = hub[h].subs - 1, !.late = late]
    <3>1. hub[h].late \in Seq(StreamMessages) /\ <<>> \in Seq(StreamMessages) /\ hub[h].subs - 1 \in Int
      BY <1>1 DEF HubStates
    <3>2. \A late \in Seq(StreamMessages) : SameRing(r(late), hub[h])
      BY <1>1, <3>1, Zenon DEF HubStates, SameRing
    <3>3. PICK late \in {hub[h].late, <<>>} : \E x \in ScheduleResubscribe(r(late)) :
              hub' = [hub EXCEPT ![h] = x]
      BY <2>1, Zenon DEF SubscriberEnds
    <3> HIDE DEF r
    <3>4. SameRing(r(late), hub[h])
      BY <3>1, <3>2, Zenon
    <3> QED
      BY <3>3, <3>4, ScheduleKeeps, Zenon
  <2>2. CASE Resubscribe(h)
    <3> DEFINE r == [hub[h] EXCEPT !.pending = hub[h].pending - 1, !.subs = hub[h].subs + 1]
    <3>1. hub' = [hub EXCEPT ![h] = r]
      BY <1>1, <2>2, Zenon DEF Resubscribe, HubStates, HubInv, HubsSound
    <3>2. hub[h].subs + 1 \in Int /\ hub[h].pending - 1 \in Int
      BY <1>1 DEF HubStates
    <3>3. SameRing(r, hub[h])
      BY <1>1, <3>2, Zenon DEF HubStates, SameRing
    <3> HIDE DEF r
    <3> QED
      BY <3>1, <3>3, Zenon
  <2>3. CASE ResubscribeFails(h)
    <3> DEFINE r(left) ==
          [hub[h] EXCEPT !.pending = hub[h].pending - 1, !.orphan = hub[h].orphan \/ left]
    <3>1. PICK left \in {FALSE, TRUE} : \E x \in ScheduleResubscribe(r(left)) :
              hub' = [hub EXCEPT ![h] = x]
      BY <2>3, Zenon DEF ResubscribeFails
    <3>2. hub[h].pending - 1 \in Int
      BY <1>1 DEF HubStates
    <3>3. SameRing(r(FALSE), hub[h]) /\ SameRing(r(TRUE), hub[h])
      BY <1>1, <3>2, Zenon DEF HubStates, SameRing
    <3> HIDE DEF r
    <3>4. SameRing(r(left), hub[h])
      BY <3>3, Zenon
    <3> QED
      BY <3>1, <3>4, ScheduleKeeps, Zenon
  <2>4. CASE OrphanEnds(h)
    <3> DEFINE r == [hub[h] EXCEPT !.orphan = FALSE]
    <3>1. PICK x \in ScheduleResubscribe(r) : hub' = [hub EXCEPT ![h] = x]
      BY <2>4, Zenon DEF OrphanEnds
    <3>2. SameRing(r, hub[h])
      BY <1>1, Zenon DEF HubStates, SameRing
    <3> HIDE DEF r
    <3> QED
      BY <3>1, <3>2, ScheduleKeeps, Zenon
  <2> QED
    BY <2>1, <2>2, <2>3, <2>4
<1> QED
  BY <1>2, <1>3, SubscriberMoves, Zenon

(* What a browser may remember. *)
LEMMA ArrivedIds ==
  ASSUME HubInv, NEW c \in Clients
  PROVE  Arrived(c) \subseteq EventIds \cup {Null}
<1>1. client[c].out \in Seq(Messages)
  BY ClientFacts DEF ClientStates
<1>2. \A n \in 1..Len(client[c].out) : client[c].out[n].id \in EventIds
  <2>1. \A n \in 1..Len(client[c].out) : client[c].out[n] \in Messages
    BY <1>1
  <2> QED
    BY <2>1, Zenon DEF Messages
<1>3. received[c] \in EventIds \cup {Null}
  BY DEF HubInv
<1> QED
  BY <1>2, <1>3, Zenon DEF Arrived

LEMMA CloseKeeps ==
  ASSUME HubInv, NEW h \in Hubs, Close(h)
  PROVE  HubInv'
<1>1. hub[h] \in HubStates /\ HubsSound(hub)
  BY DEF HubInv, HubsSound
<1>2. PICK n \in {hub[h].subs, hub[h].subs - 1} :
        hub' = [hub EXCEPT ![h].closed = TRUE, ![h].pending = 0, ![h].subs = n]
  BY Zenon DEF Close
<1> DEFINE r == [hub[h] EXCEPT !.closed = TRUE, !.pending = 0, !.subs = n]
<1>3. hub' = [hub EXCEPT ![h] = r]
  BY <1>2, Zenon DEF HubInv, HubsSound
<1>4. n \in Int /\ 0 \in Int
  BY <1>1 DEF HubStates
<1>5. SameRing(r, hub[h])
  BY <1>1, <1>4, Zenon DEF HubStates, SameRing
<1> HIDE DEF r
<1>6. HubsSound(hub') /\ SameCounters(hub', hub)
  <2>1. HubsSound([hub EXCEPT ![h] = r]) /\ SameCounters([hub EXCEPT ![h] = r], hub)
    BY <1>1, <1>5, HubMoves, Zenon
  <2> QED
    BY <1>3, <2>1, Zenon
<1>7. ClientsSound(client', hub)
  <2>1. client' = [c \in Clients |-> IF client[c].hub = h THEN Closed ELSE client[c]]
    BY Zenon DEF Close
  <2>2. ASSUME NEW c \in Clients PROVE ClientSound(client'[c], Numbered(hub, client'[c]))
    <3>1. client'[c] = Closed \/ client'[c] = client[c]
      BY <2>1
    <3> QED
      BY <3>1, ClosedSound, ClientFacts, Zenon
  <2>3. client' = [c \in Clients |-> client'[c]]
    BY <2>1, Zenon
  <2> QED
    BY <2>2, <2>3, Zenon DEF ClientsSound
<1>8. received' \in [Clients -> EventIds \cup {Null}]
  <2>1. received' \in [Clients -> UNION {Arrived(c) : c \in Clients}]
    BY Zenon DEF Close
  <2>2. UNION {Arrived(c) : c \in Clients} \subseteq EventIds \cup {Null}
    BY ArrivedIds, Zenon
  <2> QED
    BY <2>1, <2>2, Zenon
<1>9. UNCHANGED <<published, issued, stream, inflight>>
  BY Zenon DEF Close
<1> QED
  BY <1>6, <1>7, <1>8, <1>9, CountersKept, Zenon DEF HubInv

(* A step of one client that keeps its frames in order keeps the invariant. *)
LEMMA ClientKeeps ==
  ASSUME HubInv, NEW c \in Clients, NEW s, ClientSound(s, Numbered(hub, s)),
         client' = [client EXCEPT ![c] = s],
         UNCHANGED <<published, issued, stream, inflight, hub>>,
         received' \in [Clients -> EventIds \cup {Null}]
  PROVE  HubInv'
<1>1. hub' = hub
  OBVIOUS
<1>2. ClientsSound(client', hub')
  BY <1>1, ClientMoves, Zenon
<1> QED
  BY <1>2, Zenon DEF HubInv

LEMMA AttachKeeps ==
  ASSUME HubInv, NEW c \in Clients, NEW h \in Hubs,
         Attach(c, h) \/ Resume(c, h) \/ ResumeFromRing(c, h)
  PROVE  HubInv'
<1> DEFINE fresh == [Closed EXCEPT !.hub = h]
           resumed == [Closed EXCEPT !.hub = h, !.from = received[c], !.replaying = TRUE]
<1>1. received[c] \in EventIds \cup {Null}
  BY DEF HubInv
<1>2. /\ fresh \in ClientStates /\ fresh.out = <<>> /\ fresh.queue = <<>>
      /\ resumed \in ClientStates /\ resumed.out = <<>> /\ resumed.queue = <<>>
      /\ resumed.hub = h
  <2>1. Closed \in ClientStates /\ Closed.out = <<>> /\ Closed.queue = <<>>
    BY ClosedSound DEF Closed
  <2> QED
    BY <1>1, <2>1, Zenon DEF ClientStates
<1>3. received' \in [Clients -> EventIds \cup {Null}]
  BY Zenon DEF Attach, Resume, ResumeFromRing, HubInv
<1>4. UNCHANGED <<published, issued, stream, inflight, hub>>
  BY Zenon DEF Attach, Resume, ResumeFromRing
<1>5. \/ client' = [client EXCEPT ![c] = fresh]
      \/ client' = [client EXCEPT ![c] = resumed]
      \/ client' = [client EXCEPT ![c] = Replay(c, resumed, hub[h].ring)]
  BY Zenon DEF Attach, Resume, ResumeFromRing
<1> HIDE DEF fresh, resumed
<1>6. (\A k : ClientSound(fresh, k)) /\ (\A k : ClientSound(resumed, k))
  BY <1>2, EmptySound, Zenon
<1>7. ClientSound(Replay(c, resumed, hub[h].ring), Numbered(hub, Replay(c, resumed, hub[h].ring)))
  <2>1. /\ hub[h].counter \in Nat /\ hub[h].ring \in Seq(Messages)
        /\ AllWithin(hub[h].ring, hub[h].counter)
    BY Zenon DEF HubInv, HubsSound, HubStates, AllWithin
  <2>2. Keeps(Replay(c, resumed, hub[h].ring), resumed, hub[h].counter)
    BY <1>6, <2>1, ReplaySound, Zenon
  <2>3. Numbered(hub, Replay(c, resumed, hub[h].ring)) = hub[h].counter
    BY <1>2, <2>2, HubAssumption, Zenon DEF Numbered, Keeps
  <2> QED
    BY <2>2, <2>3, Zenon DEF Keeps
<1> QED
  BY <1>3, <1>4, <1>5, <1>6, <1>7, ClientKeeps, Zenon

(* A client's state changes with its hub and frames kept in order. *)
LEMMA ReplacedKeeps ==
  ASSUME HubInv, NEW c \in Clients, NEW s, Keeps(s, client[c], Numbered(hub, client[c])),
         client' = [client EXCEPT ![c] = s],
         UNCHANGED <<published, issued, stream, inflight, hub, received>>
  PROVE  HubInv'
<1>1. ClientSound(s, Numbered(hub, s))
  <2>1. Numbered(hub, s) = Numbered(hub, client[c])
    BY Zenon DEF Keeps, Numbered
  <2> QED
    BY <2>1, Zenon DEF Keeps
<1>2. received' \in [Clients -> EventIds \cup {Null}]
  BY Zenon DEF HubInv
<1> QED
  BY <1>1, <1>2, ClientKeeps, Zenon

(* The reply to XRANGE is a part of the stream. *)
LEMMA RangeReply ==
  ASSUME stream \in Seq(StreamMessages), NEW first \in 1..(Len(stream) + 1)
  PROVE  Oldest(SubSeq(stream, first, Len(stream)), StreamMax) \in Seq(StreamMessages)
<1> DEFINE t == SubSeq(stream, first, Len(stream))
<1>1. StreamMax \in Nat /\ Len(stream) \in Nat
  BY HubAssumption
<1>2. t \in Seq(StreamMessages)
  <2>1. \A i \in first..Len(stream) : stream[i] \in StreamMessages
    BY <1>1
  <2>2. first \in Int /\ Len(stream) \in Int
    BY <1>1
  <2> QED
    BY <2>1, <2>2, SubSeqProperties, Zenon
<1> HIDE DEF t
<1>3. Oldest(t, StreamMax) \in Seq(StreamMessages)
  <2>1. CASE Len(t) > StreamMax
    <3>1. \A i \in 1..StreamMax : t[i] \in StreamMessages
      BY <1>1, <1>2, <2>1
    <3>2. 1 \in Int /\ StreamMax \in Int
      BY <1>1
    <3>3. SubSeq(t, 1, StreamMax) \in Seq(StreamMessages)
      BY <3>1, <3>2, SubSeqProperties, Zenon
    <3> QED
      BY <2>1, <3>3, Zenon DEF Oldest
  <2> QED
    BY <1>2, <2>1, Zenon DEF Oldest
<1> QED
  BY <1>3, Zenon DEF t

LEMMA ReadRangeKeeps ==
  ASSUME HubInv, NEW c \in Clients, ReadRange(c)
  PROVE  HubInv'
<1>1. PICK first \in 1..(Len(stream) + 1) :
        client' = [client EXCEPT ![c].reply = Oldest(SubSeq(stream, first, Len(stream)), StreamMax)]
  BY Zenon DEF ReadRange
<1> DEFINE reply == Oldest(SubSeq(stream, first, Len(stream)), StreamMax)
           s == [client[c] EXCEPT !.reply = reply]
<1>2. reply \in Seq(StreamMessages)
  BY RangeReply, Zenon DEF HubInv
<1>3. client' = [client EXCEPT ![c] = s]
  BY <1>1, Zenon
<1> HIDE DEF reply
<1>4. /\ s \in ClientStates /\ s.hub = client[c].hub /\ s.out = client[c].out
      /\ s.queue = client[c].queue /\ s.last = client[c].last
      /\ s.writing = client[c].writing /\ s.replaying = client[c].replaying
  BY <1>2, ClientFacts, Zenon DEF ClientStates
<1> HIDE DEF s
<1>5. Keeps(s, client[c], Numbered(hub, client[c]))
  BY <1>4, ClientFacts, SameFrames, Zenon DEF Keeps, ClientSound, Armed
<1>6. UNCHANGED <<published, issued, stream, inflight, hub, received>>
  BY Zenon DEF ReadRange
<1> QED
  BY <1>3, <1>5, <1>6, ReplacedKeeps, Zenon

LEMMA ReplayKeeps ==
  ASSUME HubInv, NEW c \in Clients, FinishReplay(c) \/ ReplayFails(c)
  PROVE  HubInv'
<1>1. client[c].reply \in Seq(StreamMessages) \cup {Null}
  BY ClientFacts, Zenon DEF ClientStates
<1>2. PICK entries \in Seq(StreamMessages) : client' = [client EXCEPT ![c] = Replay(c, client[c], entries)]
  <2>1. CASE FinishReplay(c)
    BY <1>1, <2>1, Zenon DEF FinishReplay
  <2>2. CASE ReplayFails(c)
    <3>1. <<>> \in Seq(StreamMessages)
      OBVIOUS
    <3> QED
      BY <2>2, <3>1, Zenon DEF ReplayFails
  <2> QED
    BY <2>1, <2>2
<1>3. entries \in Seq(Messages) /\ \A k : AllWithin(entries, k)
  <2>1. \A i \in 1..Len(entries) : entries[i] \in StreamMessages
    OBVIOUS
  <2>2. entries \in Seq(Messages)
    BY DEF StreamMessages
  <2> QED
    BY <2>1, <2>2, Zenon DEF AllWithin, Within, StreamMessages
<1>4. Keeps(Replay(c, client[c], entries), client[c], Numbered(hub, client[c]))
  BY <1>3, ClientFacts, ReplaySound, Zenon
<1>5. UNCHANGED <<published, issued, stream, inflight, hub, received>>
  BY Zenon DEF FinishReplay, ReplayFails
<1> QED
  BY <1>2, <1>4, <1>5, ReplacedKeeps, Zenon

LEMMA SocketKeeps ==
  ASSUME HubInv, NEW c \in Clients, Congest(c) \/ Drain(c)
  PROVE  HubInv'
<1>1. client[c] \in ClientStates
  BY ClientFacts, Zenon
<1>2. UNCHANGED <<published, issued, stream, inflight, hub, received>>
  BY Zenon DEF Congest, Drain
<1> DEFINE quiet(b) == [client[c] EXCEPT !.slow = b]
           awake(b) == [client[c] EXCEPT !.slow = b, !.writing = FALSE]
<1>3. \A b \in BOOLEAN : Keeps(quiet(b), client[c], Numbered(hub, client[c]))
  <2> SUFFICES ASSUME NEW b \in BOOLEAN
               PROVE  Keeps(quiet(b), client[c], Numbered(hub, client[c]))
    OBVIOUS
  <2> DEFINE s == quiet(b)
  <2>1. /\ s \in ClientStates /\ s.hub = client[c].hub /\ s.out = client[c].out
        /\ s.queue = client[c].queue /\ s.last = client[c].last
        /\ s.writing = client[c].writing /\ s.replaying = client[c].replaying
    BY <1>1, Zenon DEF ClientStates
  <2> HIDE DEF s, quiet
  <2>2. Keeps(s, client[c], Numbered(hub, client[c]))
    BY <2>1, ClientFacts, SameFrames, Zenon DEF Keeps, ClientSound, Armed
  <2> QED
    BY <2>2, Zenon DEF s
<1>4. \A b \in BOOLEAN : Keeps(Flush(awake(b)), client[c], Numbered(hub, client[c]))
  <2> SUFFICES ASSUME NEW b \in BOOLEAN
               PROVE  Keeps(Flush(awake(b)), client[c], Numbered(hub, client[c]))
    BY Zenon
  <2> DEFINE s == awake(b)
  <2>1. /\ s \in ClientStates /\ s.hub = client[c].hub /\ s.out = client[c].out
        /\ s.queue = client[c].queue /\ s.last = client[c].last
    BY <1>1, Zenon DEF ClientStates
  <2> HIDE DEF s, awake
  <2>2. Delivering(s, Numbered(hub, client[c]))
    BY <2>1, ClientFacts, SameFrames, Zenon
  <2>3. ClientSound(Flush(s), Numbered(hub, client[c])) /\ Flush(s).hub = s.hub
    BY <2>2, ClientFacts, FlushSound, Zenon
  <2>4. Keeps(Flush(s), client[c], Numbered(hub, client[c]))
    BY <2>1, <2>3, Zenon DEF Keeps
  <2> QED
    BY <2>4, Zenon DEF s
<1>5. \E b \in BOOLEAN : \/ client' = [client EXCEPT ![c] = quiet(b)]
                          \/ client' = [client EXCEPT ![c] = Flush(awake(b))]
  <2>1. CASE Congest(c)
    BY <2>1, Zenon DEF Congest
  <2>2. CASE Drain(c)
    BY <2>2, Zenon DEF Drain
  <2> QED
    BY <2>1, <2>2, Zenon
<1> HIDE DEF quiet, awake
<1> QED
  BY <1>2, <1>3, <1>4, <1>5, ReplacedKeeps, Zenon

LEMMA DetachKeeps ==
  ASSUME HubInv, NEW c \in Clients, Detach(c)
  PROVE  HubInv'
<1>1. PICK id \in Arrived(c) : received' = [received EXCEPT ![c] = id]
  BY Zenon DEF Detach
<1>2. id \in EventIds \cup {Null}
  BY ArrivedIds, Zenon
<1>3. received' \in [Clients -> EventIds \cup {Null}]
  BY <1>1, <1>2, Zenon DEF HubInv
<1>4. ClientSound(Closed, Numbered(hub, Closed))
  BY ClosedSound, Zenon
<1>5. client' = [client EXCEPT ![c] = Closed] /\ UNCHANGED <<published, issued, stream, inflight, hub>>
  BY Zenon DEF Detach
<1> QED
  BY <1>3, <1>4, <1>5, ClientKeeps, Zenon

LEMMA HubInvStep == HubInv /\ [HNext]_hvars => HubInv'
<1> SUFFICES ASSUME HubInv, [HNext]_hvars PROVE HubInv'
  OBVIOUS
<1>1. CASE UNCHANGED hvars
  BY <1>1, Zenon DEF hvars, HubInv
<1>2. ASSUME NEW h \in Hubs, HubStep(h) PROVE HubInv'
  BY <1>2, PublishToStreamKeeps, PublishLocallyKeeps, BroadcastKeeps, BroadcastFailsKeeps,
     HearAgainKeeps, SubscriberKeeps, CloseKeeps, Zenon DEF HubStep
<1>3. ASSUME NEW c \in Clients, ClientStep(c) PROVE HubInv'
  BY <1>3, AttachKeeps, ReadRangeKeeps, ReplayKeeps, SocketKeeps, DetachKeeps, Zenon DEF ClientStep
<1> QED
  BY <1>1, <1>2, <1>3, Zenon DEF HNext

LEMMA HubInvAlways == HSpec => []HubInv
BY HubInvInit, HubInvStep, PTL DEF HSpec

(* No connection sees an id twice or an id below an earlier one of its      *)
(* family, however the replayed window, live messages, second subscriptions *)
(* and local deliveries interleave, for any number of hubs, clients and     *)
(* events and any bounds of the queues (deliverTo's monotonic skip, the     *)
(* replay loop and the localCounter of publish).                            *)
THEOREM FramesInOrderCorrect == HSpec => []FramesInOrder
<1>1. ASSUME HubInv PROVE FramesInOrder
  <2>1. ASSUME NEW c \in Clients PROVE Ordered(Frames(c))
    BY <1>1, ClientFacts, FramesOrdered, Zenon DEF Frames, ClientSound
  <2> QED
    BY <2>1, Zenon DEF FramesInOrder, Ordered, Follows
<1> QED
  BY <1>1, HubInvAlways, PTL

(* A queued frame always has somebody who will send it: the socket's 'drain' *)
(* handler or the replay that is still to end (flush, deliverTo,             *)
(* attachClient).                                                            *)
THEOREM PumpArmedCorrect == HSpec => []PumpArmed
<1>1. ASSUME HubInv PROVE PumpArmed
  BY <1>1, ClientFacts, Zenon DEF PumpArmed, ClientSound, Armed
<1> QED
  BY <1>1, HubInvAlways, PTL

----------------------------------------------------------------------------
(* The paged index.                                                         *)

(* The inductive invariant: packed pages, and positions that are positions. *)
PInv == PagesPacked /\ pos \in [Ids -> Nat \cup {NoPos}]

(* Page and offset of a position. *)
LEMMA DivMod ==
  ASSUME NEW x \in Nat
  PROVE  /\ x \div PageSize \in Nat /\ x % PageSize \in 0..(PageSize - 1)
         /\ x = (x \div PageSize) * PageSize + (x % PageSize)
BY PagedIndexAssumption

(* Two positions on one page differ by their offsets. *)
LEMMA PageOrder ==
  ASSUME NEW a \in Nat, NEW b \in Nat, a < b
  PROVE  (a + 1) * PageSize <= b * PageSize
BY PagedIndexAssumption

(* A page that starts at or below x and ends above it is x's page. *)
LEMMA PageOf ==
  ASSUME NEW x \in Nat, NEW q \in Nat, q * PageSize <= x, x < (q + 1) * PageSize
  PROVE  q = x \div PageSize
<1> DEFINE d == x \div PageSize
           r == x % PageSize
<1>1. d \in Nat /\ r \in 0..(PageSize - 1) /\ x = d * PageSize + r
  BY DivMod
<1>2. PageSize \in Nat /\ (d + 1) * PageSize = d * PageSize + PageSize
  BY <1>1, PagedIndexAssumption
<1> HIDE DEF d, r
<1>3. ~(q < d)
  BY <1>1, PageOrder, PagedIndexAssumption
<1>4. ~(d < q)
  BY <1>1, <1>2, PageOrder, PagedIndexAssumption
<1> QED
  BY <1>1, <1>3, <1>4 DEF d

(* A page below the one of the length has a key and is full. *)
LEMMA FullPage ==
  ASSUME PagesPacked, NEW q \in Nat, NEW d \in Nat, q < d, d * PageSize <= len
  PROVE  /\ q \in DOMAIN pages /\ Len(pages[q]) = PageSize
         /\ pages[q] \in Seq(Ids) /\ (q + 1) * PageSize <= len
<1>1. (q + 1) * PageSize <= len
  <2>1. (q + 1) * PageSize <= d * PageSize
    BY PageOrder
  <2> QED
    BY <2>1, PagedIndexAssumption DEF PagesPacked
<1>2. q * PageSize < len /\ q <= len
  BY <1>1, PagedIndexAssumption DEF PagesPacked
<1>3. q \in DOMAIN pages
  BY <1>2 DEF PagesPacked
<1> QED
  BY <1>1, <1>3 DEF PagesPacked

(* Every position below the length has its slot. *)
LEMMA Placed ==
  ASSUME PagesPacked, NEW i \in 0..(len - 1)
  PROVE  /\ i \div PageSize \in DOMAIN pages
         /\ pages[i \div PageSize] \in Seq(Ids)
         /\ (i % PageSize) + 1 \in 1..Len(pages[i \div PageSize])
         /\ Slot(i) = pages[i \div PageSize][(i % PageSize) + 1]
         /\ Slot(i) \in Ids
<1> DEFINE q == i \div PageSize
           r == i % PageSize
<1>1. i \in Nat /\ len \in Nat /\ i < len
  BY DEF PagesPacked
<1>2. q \in Nat /\ r \in 0..(PageSize - 1) /\ i = q * PageSize + r
  BY <1>1, DivMod
<1> HIDE DEF q, r
<1>3. q * PageSize < len /\ q <= q * PageSize /\ q * PageSize \in Nat
  BY <1>1, <1>2, PagedIndexAssumption
<1>4. q \in DOMAIN pages
  BY <1>1, <1>2, <1>3 DEF PagesPacked
<1>5. pages[q] \in Seq(Ids) /\ r + 1 \in 1..Len(pages[q])
  BY <1>1, <1>2, <1>3, <1>4, PagedIndexAssumption DEF PagesPacked
<1>6. Slot(i) = pages[q][r + 1]
  BY <1>4 DEF Slot, LoadPage, q, r
<1>7. pages[q][r + 1] \in Ids
  BY <1>5
<1> QED
  BY <1>4, <1>5, <1>6, <1>7 DEF q, r

(* Readers see a sequence of ids. *)
LEMMA ContentType ==
  ASSUME PagesPacked
  PROVE  /\ Content \in Seq(Ids) /\ Len(Content) = len
         /\ \A i \in 1..len : Content[i] = Slot(i - 1)
<1>1. len \in Nat
  BY DEF PagesPacked
<1>2. \A i \in 1..len : Slot(i - 1) \in Ids
  <2> TAKE i \in 1..len
  <2>1. i - 1 \in 0..(len - 1)
    BY <1>1
  <2> QED
    BY <2>1, Placed
<1>3. Content \in [1..len -> Ids]
  BY <1>2 DEF Content
<1>4. Content \in Seq(Ids) /\ Len(Content) = len
  BY <1>1, <1>3
<1> QED
  BY <1>4, ZenonT(30) DEF Content

(* The page that the next append goes to holds len % PageSize ids. *)
LEMMA OpenPage ==
  ASSUME PagesPacked
  PROVE  LET q == len \div PageSize IN
         LoadPage(q) \in Seq(Ids) /\ Len(LoadPage(q)) = len % PageSize
<1> DEFINE q == len \div PageSize
           r == len % PageSize
<1>1. len \in Nat /\ q \in Nat /\ r \in 0..(PageSize - 1) /\ len = q * PageSize + r
  BY DivMod DEF PagesPacked
<1> HIDE DEF q, r
<1>2. q \in DOMAIN pages <=> r > 0
  BY <1>1, PagedIndexAssumption DEF PagesPacked
<1>3. CASE r > 0
  <2>1. ~((q + 1) * PageSize <= len) /\ len - q * PageSize = r
    BY <1>1, PagedIndexAssumption
  <2>2. pages[q] \in Seq(Ids) /\ Len(pages[q]) = r
    BY <1>2, <1>3, <2>1 DEF PagesPacked
  <2> QED
    BY <1>2, <1>3, <2>2 DEF LoadPage, q, r
<1>4. CASE r = 0
  <2>1. LoadPage(q) = <<>>
    BY <1>2, <1>4 DEF LoadPage
  <2>2. LoadPage(q) \in Seq(Ids) /\ Len(LoadPage(q)) = r
    BY <1>4, <2>1
  <2> QED
    BY <2>2 DEF q, r
<1> QED
  BY <1>1, <1>3, <1>4

(* What index_append does to the pages. *)
LEMMA AppendPages ==
  ASSUME PagesPacked, NEW v \in Ids, IndexAppend(v)
  PROVE  LET q == len \div PageSize IN
         /\ len' = len + 1
         /\ DOMAIN pages' = DOMAIN pages \cup {q}
         /\ \A x \in DOMAIN pages \ {q} : pages'[x] = pages[x]
         /\ pages'[q] = Append(LoadPage(q), v)
         /\ pages'[q] \in Seq(Ids)
         /\ Len(pages'[q]) = (len % PageSize) + 1
<1> DEFINE q == len \div PageSize
           new == Append(LoadPage(q), v)
<1>1. LoadPage(q) \in Seq(Ids) /\ Len(LoadPage(q)) = len % PageSize
  BY OpenPage
<1>2. new \in Seq(Ids) /\ Len(new) = (len % PageSize) + 1 /\ new # <<>>
  BY <1>1
<1>3. pages' = StorePage(pages, q, new) /\ len' = len + 1
  BY DEF IndexAppend
<1> HIDE DEF new, q
<1>4. pages' = [x \in DOMAIN pages \cup {q} |-> IF x = q THEN new ELSE pages[x]]
  BY <1>2, <1>3 DEF StorePage
<1>5. pages'[q] = new /\ DOMAIN pages' = DOMAIN pages \cup {q}
      /\ \A x \in DOMAIN pages \ {q} : pages'[x] = pages[x]
  BY <1>4
<1> QED
  BY <1>2, <1>3, <1>5 DEF new, q

(* Appending keeps the pages packed, also when it opens a page. *)
LEMMA AppendPacked ==
  ASSUME PagesPacked, NEW v \in Ids, IndexAppend(v)
  PROVE  PagesPacked'
<1> DEFINE d == len \div PageSize
           r == len % PageSize
<1>1. len \in Nat /\ d \in Nat /\ r \in 0..(PageSize - 1) /\ len = d * PageSize + r
  BY DivMod DEF PagesPacked
<1>2. /\ len' = len + 1
      /\ DOMAIN pages' = DOMAIN pages \cup {d}
      /\ \A x \in DOMAIN pages \ {d} : pages'[x] = pages[x]
      /\ pages'[d] \in Seq(Ids) /\ Len(pages'[d]) = r + 1
  BY AppendPages, ZenonT(30)
<1>3. PageSize \in Nat /\ PageSize >= 1 /\ (d + 1) * PageSize = d * PageSize + PageSize
  BY <1>1, PagedIndexAssumption
<1>4. DOMAIN pages = {q \in 0..len : q * PageSize < len}
  BY DEF PagesPacked
<1>d. d = len \div PageSize
  OBVIOUS
<1> HIDE DEF d, r
<1>5. ASSUME NEW q \in DOMAIN pages'
      PROVE  /\ q \in 0..(len + 1) /\ q * PageSize < len + 1
             /\ pages'[q] \in Seq(Ids)
             /\ Len(pages'[q]) = IF (q + 1) * PageSize <= len' THEN PageSize
                                ELSE len' - q * PageSize
  <2>1. CASE q = d
    <3>1. d <= d * PageSize /\ d * PageSize \in Nat
      BY <1>1, <1>3
    <3> QED
      BY <1>1, <1>2, <1>3, <2>1, <3>1
  <2>2. CASE q # d
    <3>1. q \in DOMAIN pages /\ pages'[q] = pages[q] /\ q \in 0..len /\ q * PageSize < len
      BY <1>2, <1>4, <1>5, <2>2
    <3>2. q < d
      <4>1. SUFFICES ASSUME d < q PROVE FALSE
        BY <1>1, <2>2, <3>1
      <4>2. (d + 1) * PageSize <= q * PageSize
        BY <1>1, <3>1, <4>1, PageOrder
      <4> QED
        BY <1>1, <1>3, <3>1, <4>2
    <3>3. d * PageSize <= len /\ d * PageSize \in Nat
      BY <1>1, <1>3
    <3>4. Len(pages[q]) = PageSize /\ pages[q] \in Seq(Ids) /\ (q + 1) * PageSize <= len
      BY <1>1, <3>1, <3>2, <3>3, FullPage
    <3>5. (q + 1) * PageSize <= len + 1 /\ q * PageSize < len + 1
      BY <1>1, <1>3, <3>1, <3>4
    <3> QED
      BY <1>1, <1>2, <3>1, <3>4, <3>5
  <2> QED
    BY <2>1, <2>2
<1>6. ASSUME NEW q \in 0..(len + 1), q * PageSize < len + 1
      PROVE  q \in DOMAIN pages'
  <2>1. q \in Nat /\ q <= q * PageSize /\ q * PageSize \in Nat
    BY <1>1, <1>3
  <2>2. CASE q * PageSize < len
    <3>1. q \in 0..len
      BY <1>1, <2>1, <2>2
    <3> QED
      BY <1>2, <1>4, <2>2, <3>1
  <2>3. CASE q * PageSize = len
    <3>1. len < (q + 1) * PageSize
      BY <1>3, <2>1, <2>3
    <3>2. q = d
      BY <1>1, <1>d, <2>1, <2>3, <3>1, PageOf
    <3> QED
      BY <1>2, <3>2
  <2> QED
    BY <1>1, <1>6, <2>1, <2>2, <2>3
<1>7. DOMAIN pages' = {q \in 0..len' : q * PageSize < len'}
  BY <1>2, <1>5, <1>6
<1>8. len' \in Nat
  BY <1>1, <1>2
<1>9. \A q \in DOMAIN pages' :
        /\ pages'[q] \in Seq(Ids)
        /\ Len(pages'[q]) = IF (q + 1) * PageSize <= len' THEN PageSize ELSE len' - q * PageSize
  BY <1>5
<1> QED
  BY <1>7, <1>8, <1>9 DEF PagesPacked

(* Appending, entry by entry. *)
LEMMA AppendAsFunction ==
  ASSUME NEW s \in Seq(Ids), NEW v \in Ids
  PROVE  Append(s, v) = [i \in 1..(Len(s) + 1) |-> IF i = Len(s) + 1 THEN v ELSE s[i]]
<1> DEFINE n == Len(s)
           t == [i \in 1..(n + 1) |-> IF i = n + 1 THEN v ELSE s[i]]
<1>1. n \in Nat /\ \A i \in 1..n : s[i] \in Ids
  OBVIOUS
<1>2. t \in [1..(n + 1) -> Ids]
  BY <1>1
<1>3. t \in Seq(Ids) /\ Len(t) = n + 1
  BY <1>1, <1>2
<1>4. Append(s, v) \in Seq(Ids) /\ Len(Append(s, v)) = n + 1
      /\ \A i \in 1..(n + 1) : Append(s, v)[i] = IF i = n + 1 THEN v ELSE s[i]
  OBVIOUS
<1>5. \A i \in 1..Len(Append(s, v)) : Append(s, v)[i] = t[i]
  BY <1>4
<1>6. Append(s, v) = t
  BY <1>3, <1>4, <1>5, SeqEqual, Zenon
<1> QED
  BY <1>6

(* Appending adds the value at the end of what readers see. *)
LEMMA AppendContent ==
  ASSUME PagesPacked, NEW v \in Ids, IndexAppend(v)
  PROVE  Content' = Append(Content, v)
<1> DEFINE d == len \div PageSize
<1>1. len \in Nat
  BY DEF PagesPacked
<1>2. /\ len' = len + 1
      /\ DOMAIN pages' = DOMAIN pages \cup {d}
      /\ \A x \in DOMAIN pages \ {d} : pages'[x] = pages[x]
      /\ pages'[d] = Append(LoadPage(d), v)
  BY AppendPages, ZenonT(30)
<1>3. LoadPage(d) \in Seq(Ids) /\ Len(LoadPage(d)) = len % PageSize
  BY OpenPage
<1>4. ASSUME NEW i \in Nat, i = len PROVE Slot(i)' = v
  <2> DEFINE r == len % PageSize
             s == LoadPage(d)
  <2>1. Slot(i)' = pages'[d][r + 1]
    BY <1>2, <1>4, ZenonT(30) DEF Slot, LoadPage
  <2>2. s \in Seq(Ids) /\ Len(s) = r /\ pages'[d] = Append(s, v)
    BY <1>2, <1>3
  <2> HIDE DEF r, s, d
  <2>3. Append(s, v)[Len(s) + 1] = v
    BY <2>2
  <2> QED
    BY <2>1, <2>2, <2>3
<1>5. ASSUME NEW i \in 0..(len - 1) PROVE Slot(i)' = Slot(i)
  <2> DEFINE q == i \div PageSize
             j == (i % PageSize) + 1
  <2>1. q \in DOMAIN pages /\ pages[q] \in Seq(Ids) /\ j \in 1..Len(pages[q])
        /\ Slot(i) = pages[q][j]
    BY Placed
  <2>2. Slot(i)' = pages'[q][j]
    BY <1>2, <2>1 DEF Slot, LoadPage
  <2> HIDE DEF j, q, d
  <2>3. CASE q = d
    <3>1. LoadPage(d) = pages[q]
      BY <2>1, <2>3 DEF LoadPage
    <3> QED
      BY <1>2, <2>1, <2>2, <2>3, <3>1
  <2>4. CASE q # d
    BY <1>2, <2>1, <2>2, <2>4
  <2> QED
    BY <2>3, <2>4
<1>6. Content \in Seq(Ids) /\ Len(Content) = len /\ \A i \in 1..len : Content[i] = Slot(i - 1)
  BY ContentType
<1>7. Content' = [i \in 1..(len + 1) |-> Slot(i - 1)']
  BY <1>2 DEF Content
<1>8. \A i \in 1..(len + 1) : Slot(i - 1)' = IF i = len + 1 THEN v ELSE Content[i]
  <2> TAKE i \in 1..(len + 1)
  <2>1. CASE i = len + 1
    <3>1. i - 1 = len /\ i - 1 \in Nat
      BY <1>1, <2>1
    <3> QED
      BY <1>4, <2>1, <3>1
  <2>2. CASE i # len + 1
    <3>1. i - 1 \in 0..(len - 1) /\ i \in 1..len
      BY <1>1, <2>2
    <3> QED
      BY <1>5, <1>6, <2>2, <3>1
  <2> QED
    BY <2>1, <2>2
<1>9. Content' = [i \in 1..(len + 1) |-> IF i = len + 1 THEN v ELSE Content[i]]
  BY <1>7, <1>8, Zenon
<1>10. Append(Content, v) = [i \in 1..(len + 1) |-> IF i = len + 1 THEN v ELSE Content[i]]
  <2> DEFINE s == Content
  <2>1. s \in Seq(Ids) /\ Len(s) = len
    BY <1>6
  <2> HIDE DEF s
  <2>2. Append(s, v) = [i \in 1..(Len(s) + 1) |-> IF i = Len(s) + 1 THEN v ELSE s[i]]
    BY <2>1, AppendAsFunction
  <2> QED
    BY <2>1, <2>2 DEF s
<1> QED
  BY <1>9, <1>10

(* The last page holds the ids up to the last offset. *)
LEMMA LastPage ==
  ASSUME PagesPacked, len > 0
  PROVE  LET q == (len - 1) \div PageSize IN
         Len(pages[q]) = ((len - 1) % PageSize) + 1
<1> DEFINE last == len - 1
           q == last \div PageSize
           r == last % PageSize
<1>1. last \in Nat /\ len \in Nat /\ last \in 0..(len - 1)
  BY DEF PagesPacked
<1>2. q \in Nat /\ r \in 0..(PageSize - 1) /\ last = q * PageSize + r
  BY <1>1, DivMod
<1>3. q \in DOMAIN pages
  BY <1>1, Placed
<1>4. len = q * PageSize + r + 1 /\ q * PageSize \in Nat
      /\ (q + 1) * PageSize = q * PageSize + PageSize
  BY <1>1, <1>2, PagedIndexAssumption
<1> HIDE DEF q, r, last
<1>5. Len(pages[q]) = IF (q + 1) * PageSize <= len THEN PageSize ELSE len - q * PageSize
  BY <1>3 DEF PagesPacked
<1>6. Len(pages[q]) = r + 1
  BY <1>2, <1>4, <1>5, PagedIndexAssumption
<1> QED
  BY <1>6 DEF q, r, last

(* Removing the last entry of a page. *)
LEMMA PoppedType ==
  ASSUME NEW s \in Seq(Ids), Len(s) >= 1
  PROVE  /\ Popped(s) \in Seq(Ids) /\ Len(Popped(s)) = Len(s) - 1
         /\ \A j \in 1..(Len(s) - 1) : Popped(s)[j] = s[j]
         /\ Popped(s) = <<>> <=> Len(s) = 1
<1> DEFINE n == Len(s)
<1>1. n \in Nat /\ n - 1 \in Nat
  OBVIOUS
<1>2. Popped(s) = [j \in 1..(n - 1) |-> s[j]]
  BY <1>1 DEF Popped
<1>3. [j \in 1..(n - 1) |-> s[j]] \in [1..(n - 1) -> Ids]
  BY <1>1
<1>4. Popped(s) \in Seq(Ids) /\ Len(Popped(s)) = n - 1
  BY <1>1, <1>2, <1>3
<1>5. Popped(s) = <<>> <=> n = 1
  BY <1>1, <1>4
<1> QED
  BY <1>2, <1>4, <1>5

(* Overwriting one entry of a page. *)
LEMMA Overwritten ==
  ASSUME NEW s \in Seq(Ids), NEW k \in 1..Len(s), NEW v \in Ids
  PROVE  LET t == [s EXCEPT ![k] = v] IN
         /\ t \in Seq(Ids) /\ Len(t) = Len(s)
         /\ \A j \in 1..Len(s) : t[j] = IF j = k THEN v ELSE s[j]
BY SMTT(30)

(* What index_swap_remove does to the pages, whichever of its branches runs: *)
(* the last page gets one entry shorter, or loses its key, and only the slot *)
(* at p gets another id.                                                     *)
LEMMA SwapPages ==
  ASSUME PagesPacked, NEW p \in 0..(len - 1), IndexSwapRemove(p)
  PROVE  LET last == len - 1
             q == last \div PageSize
         IN  /\ len' = last
             /\ DOMAIN pages' = IF last % PageSize = 0 THEN DOMAIN pages \ {q} ELSE DOMAIN pages
             /\ \A x \in DOMAIN pages' :
                  /\ pages'[x] \in Seq(Ids)
                  /\ Len(pages'[x]) = IF x = q THEN last % PageSize ELSE Len(pages[x])
                  /\ \A j \in 1..Len(pages'[x]) :
                       pages'[x][j] = IF x = p \div PageSize /\ j = (p % PageSize) + 1
                                        THEN Slot(last) ELSE pages[x][j]
<1> DEFINE last == len - 1
           q == last \div PageSize
           r == last % PageSize
           y == p \div PageSize
           k == (p % PageSize) + 1
           v == Slot(last)
<1>1. len \in Nat /\ len > 0 /\ last \in 0..(len - 1) /\ last \in Nat
  BY DEF PagesPacked
<1>2. r \in Nat
  BY <1>1, DivMod
<1>3. q \in DOMAIN pages /\ pages[q] \in Seq(Ids) /\ v \in Ids
  BY <1>1, Placed
<1>4. Len(pages[q]) = r + 1
  BY <1>1, LastPage
<1>5. y \in DOMAIN pages /\ pages[y] \in Seq(Ids) /\ k \in 1..Len(pages[y])
  BY <1>1, Placed
<1>6. \A x \in DOMAIN pages : pages[x] \in Seq(Ids)
  BY DEF PagesPacked
<1>7. LoadPage(q) = pages[q] /\ LoadPage(y) = pages[y]
  BY <1>3, <1>5 DEF LoadPage
<1>8. /\ len' = last
      /\ pages' = IF y = q
           THEN StorePage(pages, q, Popped([pages[q] EXCEPT ![k] = v]))
           ELSE StorePage(StorePage(pages, q, Popped(pages[q])), y, [pages[y] EXCEPT ![k] = v])
  BY <1>7, Zenon DEF IndexSwapRemove
<1> HIDE DEF last, q, r, y, k, v
<1>9. /\ DOMAIN pages' = IF r = 0 THEN DOMAIN pages \ {q} ELSE DOMAIN pages
      /\ \A x \in DOMAIN pages' :
           /\ pages'[x] \in Seq(Ids)
           /\ Len(pages'[x]) = IF x = q THEN r ELSE Len(pages[x])
           /\ \A j \in 1..Len(pages'[x]) :
                pages'[x][j] = IF x = y /\ j = k THEN v ELSE pages[x][j]
  <2>1. CASE y = q
    <3> DEFINE t == [pages[q] EXCEPT ![k] = v]
               e == Popped(t)
    <3>1. t \in Seq(Ids) /\ Len(t) = r + 1 /\ \A j \in 1..(r + 1) : t[j] = IF j = k THEN v ELSE pages[q][j]
      BY <1>3, <1>4, <1>5, <2>1, Overwritten
    <3> HIDE DEF t
    <3>2. e \in Seq(Ids) /\ Len(e) = r /\ (e = <<>> <=> r = 0)
          /\ \A j \in 1..r : e[j] = t[j]
      BY <1>2, <3>1, PoppedType
    <3> HIDE DEF e
    <3>3. pages' = StorePage(pages, q, e)
      BY <1>8, <2>1 DEF e, t
    <3>0. /\ e = <<>> => DOMAIN pages' = DOMAIN pages \ {q}
          /\ e # <<>> => DOMAIN pages' = DOMAIN pages \cup {q}
          /\ \A x \in DOMAIN pages' : (x = q => pages'[x] = e) /\ (x # q => pages'[x] = pages[x])
      BY <3>3 DEF StorePage
    <3>4. DOMAIN pages' = IF r = 0 THEN DOMAIN pages \ {q} ELSE DOMAIN pages
      BY <1>3, <3>2, <3>0, ZenonT(30)
    <3>5. \A x \in DOMAIN pages' : pages'[x] = IF x = q THEN e ELSE pages[x]
      BY <3>0
    <3>6. ASSUME NEW x \in DOMAIN pages'
          PROVE  /\ pages'[x] \in Seq(Ids)
                 /\ Len(pages'[x]) = IF x = q THEN r ELSE Len(pages[x])
                 /\ \A j \in 1..Len(pages'[x]) :
                      pages'[x][j] = IF x = y /\ j = k THEN v ELSE pages[x][j]
      <4>1. x \in DOMAIN pages
        BY <3>4, <3>6
      <4>2. CASE x = q
        BY <1>2, <2>1, <3>1, <3>2, <3>5, <4>2
      <4>3. CASE x # q
        BY <1>6, <2>1, <3>5, <4>1, <4>3
      <4> QED
        BY <4>2, <4>3
    <3> QED
      BY <3>4, <3>6
  <2>2. CASE y # q
    <3> DEFINE t == [pages[y] EXCEPT ![k] = v]
               e == Popped(pages[q])
               f == StorePage(pages, q, e)
    <3>1. t \in Seq(Ids) /\ Len(t) = Len(pages[y])
          /\ \A j \in 1..Len(pages[y]) : t[j] = IF j = k THEN v ELSE pages[y][j]
      BY <1>3, <1>5, Overwritten
    <3>2. e \in Seq(Ids) /\ Len(e) = r /\ (e = <<>> <=> r = 0)
          /\ \A j \in 1..r : e[j] = pages[q][j]
      <4> DEFINE s == pages[q]
      <4>1. s \in Seq(Ids) /\ Len(s) = r + 1
        BY <1>3, <1>4
      <4> HIDE DEF s
      <4>2. /\ Popped(s) \in Seq(Ids) /\ Len(Popped(s)) = r /\ (Popped(s) = <<>> <=> r = 0)
            /\ \A j \in 1..r : Popped(s)[j] = s[j]
        <5>1. Len(s) >= 1 /\ Len(s) - 1 = r /\ (Len(s) = 1 <=> r = 0)
          BY <1>2, <4>1
        <5> QED
          BY <4>1, <5>1, PoppedType, ZenonT(30)
      <4> QED
        BY <4>2 DEF s
    <3>3. t # <<>>
      BY <1>5, <3>1
    <3>4. pages' = StorePage(f, y, t)
      BY <1>8, <2>2
    <3> HIDE DEF t, e
    <3>a. /\ e = <<>> => DOMAIN f = DOMAIN pages \ {q}
          /\ e # <<>> => DOMAIN f = DOMAIN pages \cup {q}
          /\ \A x \in DOMAIN f : (x = q => f[x] = e) /\ (x # q => f[x] = pages[x])
      <4>1. f = StorePage(pages, q, e)
        OBVIOUS
      <4> HIDE DEF f
      <4> QED
        BY <4>1 DEF StorePage
    <3>5. DOMAIN f = (IF r = 0 THEN DOMAIN pages \ {q} ELSE DOMAIN pages)
          /\ \A x \in DOMAIN f : f[x] = IF x = q THEN e ELSE pages[x]
      BY <1>3, <3>2, <3>a, ZenonT(30)
    <3> HIDE DEF f
    <3>b. /\ t = <<>> => DOMAIN pages' = DOMAIN f \ {y}
          /\ t # <<>> => DOMAIN pages' = DOMAIN f \cup {y}
          /\ \A x \in DOMAIN pages' : (x = y => pages'[x] = t) /\ (x # y => pages'[x] = f[x])
      BY <3>4 DEF StorePage
    <3>6. DOMAIN pages' = DOMAIN f /\ \A x \in DOMAIN pages' : pages'[x] = IF x = y THEN t ELSE f[x]
      BY <1>5, <2>2, <3>3, <3>5, <3>b
    <3>7. ASSUME NEW x \in DOMAIN pages'
          PROVE  /\ pages'[x] \in Seq(Ids)
                 /\ Len(pages'[x]) = IF x = q THEN r ELSE Len(pages[x])
                 /\ \A j \in 1..Len(pages'[x]) :
                      pages'[x][j] = IF x = y /\ j = k THEN v ELSE pages[x][j]
      <4>1. x \in DOMAIN pages /\ x \in DOMAIN f
        BY <3>5, <3>6, <3>7
      <4>2. CASE x = y
        BY <2>2, <3>1, <3>6, <4>2
      <4>3. CASE x = q
        BY <1>2, <2>2, <3>2, <3>5, <3>6, <4>1, <4>3
      <4>4. CASE x # y /\ x # q
        BY <1>6, <3>5, <3>6, <4>1, <4>4
      <4> QED
        BY <4>2, <4>3, <4>4
    <3> QED
      BY <3>5, <3>6, <3>7
  <2> QED
    BY <2>1, <2>2
<1> QED
  BY <1>8, <1>9, ZenonT(30) DEF last, q, r, y, k, v

(* Swap-removal keeps the pages packed, also when it drops the last page. *)
LEMMA SwapPacked ==
  ASSUME PagesPacked, NEW p \in 0..(len - 1), IndexSwapRemove(p)
  PROVE  PagesPacked'
<1> DEFINE last == len - 1
           q == last \div PageSize
           r == last % PageSize
<1>1. len \in Nat /\ last \in Nat /\ len = last + 1
  BY DEF PagesPacked
<1>2. q \in Nat /\ r \in 0..(PageSize - 1) /\ last = q * PageSize + r
  BY <1>1, DivMod
<1>3. PageSize \in Nat /\ PageSize >= 1 /\ q * PageSize \in Nat
      /\ (q + 1) * PageSize = q * PageSize + PageSize
  BY <1>2, PagedIndexAssumption
<1>4. /\ len' = last
      /\ DOMAIN pages' = IF r = 0 THEN DOMAIN pages \ {q} ELSE DOMAIN pages
      /\ \A x \in DOMAIN pages' :
           /\ pages'[x] \in Seq(Ids)
           /\ Len(pages'[x]) = IF x = q THEN r ELSE Len(pages[x])
  BY SwapPages, ZenonT(30)
<1>5. DOMAIN pages = {x \in 0..len : x * PageSize < len}
  BY DEF PagesPacked
<1>6. \A x \in Nat : x * PageSize <= last /\ last < (x + 1) * PageSize => x = q
  BY <1>1, PageOf
<1> HIDE DEF last, q, r
<1>7. ASSUME NEW x \in DOMAIN pages'
      PROVE  x \in 0..last /\ x * PageSize < last /\ x \in DOMAIN pages
  <2>1. x \in DOMAIN pages /\ (r = 0 => x # q)
    BY <1>4, <1>7
  <2>2. x \in Nat /\ x * PageSize < len
    BY <1>1, <1>5, <2>1
  <2>3. x <= x * PageSize /\ x * PageSize \in Nat /\ (x + 1) * PageSize = x * PageSize + PageSize
    BY <1>3, <2>2
  <2>4. x * PageSize # last
    <3>1. SUFFICES ASSUME x * PageSize = last PROVE FALSE
      OBVIOUS
    <3>2. x = q
      BY <1>1, <1>3, <1>6, <2>2, <2>3, <3>1
    <3>3. r = 0
      BY <1>2, <1>3, <3>1, <3>2
    <3> QED
      BY <2>1, <3>2, <3>3
  <2> QED
    BY <1>1, <2>1, <2>2, <2>3, <2>4
<1>8. ASSUME NEW x \in 0..last, x * PageSize < last
      PROVE  x \in DOMAIN pages'
  <2>1. x \in DOMAIN pages
    <3>1. x \in 0..len /\ x * PageSize \in Int
      BY <1>1, <1>3
    <3> QED
      BY <1>1, <1>5, <1>8, <3>1
  <2>2. r = 0 => x # q
    BY <1>2, <1>3, <1>8
  <2> QED
    BY <1>4, <2>1, <2>2
<1>9. DOMAIN pages' = {x \in 0..len' : x * PageSize < len'}
  BY <1>4, <1>7, <1>8
<1>10. ASSUME NEW x \in DOMAIN pages'
       PROVE  Len(pages'[x]) = IF (x + 1) * PageSize <= len' THEN PageSize ELSE len' - x * PageSize
  <2>1. CASE x = q
    <3>1. ~((q + 1) * PageSize <= last) /\ last - q * PageSize = r
      BY <1>2, <1>3
    <3> QED
      BY <1>4, <1>10, <2>1, <3>1
  <2>2. CASE x # q
    <3>1. x \in 0..last /\ x * PageSize < last
      BY <1>7, <1>10
    <3>2. x < q
      <4>1. SUFFICES ASSUME q < x PROVE FALSE
        BY <1>1, <1>2, <2>2, <3>1
      <4>2. (q + 1) * PageSize <= x * PageSize
        BY <1>1, <1>2, <3>1, <4>1, PageOrder
      <4>3. x * PageSize \in Nat
        BY <1>1, <1>3, <3>1
      <4> QED
        BY <1>1, <1>2, <1>3, <3>1, <4>2, <4>3
    <3>3. q * PageSize <= len /\ q * PageSize <= last
      BY <1>1, <1>2, <1>3
    <3>4. Len(pages[x]) = PageSize
      BY <1>1, <1>2, <3>1, <3>2, <3>3, FullPage
    <3>5. (x + 1) * PageSize <= q * PageSize /\ (x + 1) * PageSize \in Nat
      BY <1>1, <1>2, <1>3, <3>1, <3>2, PageOrder
    <3>6. (x + 1) * PageSize <= last
      BY <1>1, <1>3, <3>3, <3>5
    <3> QED
      BY <1>4, <1>10, <2>2, <3>4, <3>6
  <2> QED
    BY <2>1, <2>2
<1>11. len' \in Nat /\ \A x \in DOMAIN pages' : pages'[x] \in Seq(Ids)
  BY <1>1, <1>4
<1> QED
  BY <1>9, <1>10, <1>11 DEF PagesPacked

(* Swap-removal is swap-removal on what readers see. *)
LEMMA SwapContent ==
  ASSUME PagesPacked, NEW p \in 0..(len - 1), IndexSwapRemove(p)
  PROVE  Content' = Flat!SwapRemove(Content, p)
<1> DEFINE last == len - 1
           q == last \div PageSize
           r == last % PageSize
           y == p \div PageSize
           k == p % PageSize
<1>1. len \in Nat /\ last \in Nat /\ len = last + 1 /\ p \in Nat
  BY DEF PagesPacked
<1>2. q \in Nat /\ r \in 0..(PageSize - 1) /\ last = q * PageSize + r
  BY <1>1, DivMod
<1>3. y \in Nat /\ k \in 0..(PageSize - 1) /\ p = y * PageSize + k
  BY <1>1, DivMod
<1>4. /\ len' = last
      /\ DOMAIN pages' = IF r = 0 THEN DOMAIN pages \ {q} ELSE DOMAIN pages
      /\ \A x \in DOMAIN pages' :
           /\ pages'[x] \in Seq(Ids)
           /\ Len(pages'[x]) = IF x = q THEN r ELSE Len(pages[x])
           /\ \A j \in 1..Len(pages'[x]) :
                pages'[x][j] = IF x = y /\ j = k + 1 THEN Slot(last) ELSE pages[x][j]
  BY SwapPages, ZenonT(30)
<1>d. y = p \div PageSize /\ k = p % PageSize
  OBVIOUS
<1>e. last = len - 1
  OBVIOUS
<1> HIDE DEF q, r, y, k, last
<1>5. ASSUME NEW i \in 0..(last - 1)
      PROVE  Slot(i)' = IF i = p THEN Slot(last) ELSE Slot(i)
  <2> DEFINE x == i \div PageSize
             m == i % PageSize
  <2>1. i \in Nat /\ i \in 0..(len - 1) /\ i < last
    BY <1>1
  <2>2. x \in Nat /\ m \in 0..(PageSize - 1) /\ i = x * PageSize + m
    BY <2>1, DivMod
  <2>3. x \in DOMAIN pages /\ m + 1 \in 1..Len(pages[x]) /\ Slot(i) = pages[x][m + 1]
    BY <2>1, Placed
  <2>4. Slot(i)' = (IF x \in DOMAIN pages' THEN pages'[x] ELSE <<>>)[m + 1]
    BY DEF Slot, LoadPage
  <2>m. x = y /\ m = k <=> i = p
    BY <1>3, <1>d, <2>2, PagedIndexAssumption
  <2> HIDE DEF x, m
  <2>5. x = q => m < r
    BY <1>2, <2>1, <2>2, PagedIndexAssumption
  <2>6. x \in DOMAIN pages'
    BY <1>2, <1>4, <2>2, <2>3, <2>5
  <2>7. m + 1 \in 1..Len(pages'[x])
    BY <1>2, <1>4, <2>2, <2>3, <2>5, <2>6
  <2>8. pages'[x][m + 1] = IF x = y /\ m + 1 = k + 1 THEN Slot(last) ELSE pages[x][m + 1]
    BY <1>4, <2>6, <2>7
  <2>9. m + 1 = k + 1 <=> m = k
    BY <1>3, <2>2
  <2> QED
    BY <2>3, <2>4, <2>6, <2>8, <2>9, <2>m
<1>6. Len(Content) = len /\ \A i \in 1..len : Content[i] = Slot(i - 1)
  BY ContentType
<1>7. Content' = [i \in 1..last |-> Slot(i - 1)']
  BY <1>4 DEF Content
<1>8. \A i \in 1..last : Slot(i - 1)' = IF i = p + 1 THEN Content[len] ELSE Content[i]
  <2> TAKE i \in 1..last
  <2>1. i - 1 \in 0..(last - 1) /\ i \in 1..len /\ len \in 1..len /\ (i - 1 = p <=> i = p + 1)
    BY <1>1
  <2>2. Content[len] = Slot(last) /\ Content[i] = Slot(i - 1)
    BY <1>6, <1>e, <2>1
  <2> QED
    BY <1>5, <2>1, <2>2
<1>9. Flat!SwapRemove(Content, p) = [i \in 1..last |-> IF i = p + 1 THEN Content[len] ELSE Content[i]]
  BY <1>6, <1>e DEF Flat!SwapRemove
<1> QED
  BY <1>7, <1>8, <1>9, Zenon

(* The empty index satisfies the invariant. *)
LEMMA PInvInit == Init => PInv
<1> SUFFICES ASSUME Init PROVE PInv
  OBVIOUS
<1>1. len = 0 /\ DOMAIN pages = {}
  BY DEF Init
<1>2. {q \in 0..len : q * PageSize < len} = {}
  BY <1>1, PagedIndexAssumption
<1>3. pos \in [Ids -> Nat \cup {NoPos}]
  BY DEF Init
<1> QED
  BY <1>1, <1>2, <1>3 DEF PInv, PagesPacked

(* A removal that does something removes a position of the index. *)
LEMMA RemovedPosition ==
  ASSUME PInv, NEW id \in Ids, RemoveFromActiveListings(id)
  PROVE  pos[id] \in 0..(len - 1) /\ Slot(len - 1) \in Ids
<1>1. pos[id] \in Nat /\ pos[id] < len /\ len \in Nat /\ PagesPacked
  BY DEF RemoveFromActiveListings, PInv, PagesPacked, NoPos
<1>2. len - 1 \in 0..(len - 1) /\ pos[id] \in 0..(len - 1)
  BY <1>1
<1> QED
  BY <1>1, <1>2, Placed

(* Adding and removing ids preserve the invariant. *)
LEMMA PInvNext == PInv /\ [Next]_vars => PInv'
<1> SUFFICES ASSUME PInv, [Next]_vars PROVE PInv'
  OBVIOUS
<1>1. ASSUME NEW id \in Ids, AddToActiveListings(id) PROVE PInv'
  <2>1. PagesPacked'
    BY <1>1, AppendPacked DEF AddToActiveListings, PInv
  <2>2. pos' \in [Ids -> Nat \cup {NoPos}]
    BY <1>1 DEF AddToActiveListings, PInv, PagesPacked
  <2> QED
    BY <2>1, <2>2 DEF PInv
<1>2. ASSUME NEW id \in Ids, RemoveFromActiveListings(id) PROVE PInv'
  <2>1. pos[id] \in 0..(len - 1) /\ Slot(len - 1) \in Ids
    BY <1>2, RemovedPosition
  <2>2. PagesPacked'
    BY <1>2, <2>1, SwapPacked DEF RemoveFromActiveListings, PInv
  <2>3. pos' = [pos EXCEPT ![Slot(len - 1)] = pos[id], ![id] = NoPos]
    BY <1>2 DEF RemoveFromActiveListings
  <2>4. pos \in [Ids -> Nat \cup {NoPos}] /\ pos[id] \in Nat
    BY <2>1 DEF PInv
  <2>5. pos' \in [Ids -> Nat \cup {NoPos}]
    BY <2>1, <2>3, <2>4
  <2> QED
    BY <2>2, <2>5 DEF PInv
<1>3. CASE UNCHANGED vars
  BY <1>3 DEF vars, PInv, PagesPacked
<1> QED
  BY <1>1, <1>2, <1>3 DEF Next

(* Pages are packed in every reachable state, for every page size: exactly   *)
(* the pages below the length have keys and only the last is not full, so    *)
(* index_append never writes past a gap and no emptied page keeps its key.   *)
THEOREM PagesCorrect == Spec => []PagesPacked
<1>1. PInv => PagesPacked
  BY DEF PInv
<1> QED
  BY <1>1, PInvInit, PInvNext, PTL DEF Spec

(* The paged engine implements the array with swap-removal: index_append and *)
(* index_swap_remove do to the pages what Append and SwapRemove do to an     *)
(* array, whichever pages they touch.                                        *)
THEOREM PagesImplementArray == Spec => ImplementsArray
<1>1. Init => Flat!Init
  <2> SUFFICES ASSUME Init PROVE Flat!Init
    OBVIOUS
  <2>1. PagesPacked /\ len = 0
    BY PInvInit DEF Init, PInv
  <2>2. Content = <<>>
    BY <2>1, ContentType
  <2> QED
    BY <2>2 DEF Init, Flat!Init, NoPos, Flat!NoPos
<1>2. PInv /\ [Next]_vars => [Flat!Next]_(Flat!vars)
  <2> SUFFICES ASSUME PInv, [Next]_vars PROVE [Flat!Next]_(Flat!vars)
    OBVIOUS
  <2>0. PagesPacked /\ Len(Content) = len /\ len \in Nat
        /\ \A i \in 1..len : Content[i] = Slot(i - 1)
    BY ContentType DEF PInv, PagesPacked
  <2>1. ASSUME NEW id \in Ids, AddToActiveListings(id) PROVE Flat!AddToActiveListings(id)
    <3>1. Content' = Append(Content, id)
      BY <2>0, <2>1, AppendContent DEF AddToActiveListings
    <3> QED
      BY <2>0, <2>1, <3>1, Zenon DEF AddToActiveListings, Flat!AddToActiveListings, NoPos, Flat!NoPos
  <2>2. ASSUME NEW id \in Ids, RemoveFromActiveListings(id) PROVE Flat!RemoveFromActiveListings(id)
    <3>1. pos[id] \in 0..(len - 1)
      BY <2>2, RemovedPosition
    <3>2. Content' = Flat!SwapRemove(Content, pos[id])
      BY <2>0, <2>2, <3>1, SwapContent DEF RemoveFromActiveListings
    <3>3. pos[id] + 1 \in 1..len /\ (pos[id] + 1) - 1 = pos[id] /\ len \in 1..len
      BY <2>0, <3>1
    <3>4. Content[pos[id] + 1] = id /\ Content[len] = Slot(len - 1) /\ pos[id] < Len(Content)
      BY <2>0, <2>2, <3>1, <3>3 DEF RemoveFromActiveListings
    <3>5. pos' = [pos EXCEPT ![Content[Len(Content)]] = pos[id], ![id] = NoPos]
      BY <2>0, <2>2, <3>4 DEF RemoveFromActiveListings
    <3> QED
      BY <2>2, <3>2, <3>4, <3>5, ZenonT(30) DEF RemoveFromActiveListings, Flat!RemoveFromActiveListings,
        Flat!SlotHolds, NoPos, Flat!NoPos
  <2>3. CASE UNCHANGED vars
    BY <2>3 DEF vars, Content, Slot, LoadPage, Flat!vars
  <2> QED
    BY <2>1, <2>2, <2>3 DEF Next, Flat!Next
<1> QED
  BY <1>1, <1>2, PInvInit, PInvNext, PTL DEF Spec, ImplementsArray, Flat!Spec

----------------------------------------------------------------------------
(* The array with its position keys, as the pages show it. *)

(* The loose types the induction needs; the tight ones follow from IInv. *)
IndexTypes == Content \in Seq(Ids) /\ pos \in [Ids -> Int]

(* The inductive invariant. *)
IInv == IndexTypes /\ Flat!PositionsMatchSlots

(* Swap-and-pop shortens the index by one and changes at most one slot. *)
LEMMA SwapRemoveType ==
  ASSUME NEW s \in Seq(Ids), NEW p \in 0..(Len(s) - 1)
  PROVE  /\ Flat!SwapRemove(s, p) \in Seq(Ids)
         /\ Len(Flat!SwapRemove(s, p)) = Len(s) - 1
         /\ \A i \in 1..(Len(s) - 1) :
              Flat!SwapRemove(s, p)[i] = IF i = p + 1 THEN s[Len(s)] ELSE s[i]
<1> DEFINE last == Len(s) - 1
           r == [i \in 1..last |-> IF i = p + 1 THEN s[Len(s)] ELSE s[i]]
<1>1. last \in Nat /\ Len(s) \in 1..Len(s) /\ 1..last \subseteq 1..Len(s)
  OBVIOUS
<1>2. r \in [1..last -> Ids]
  BY <1>1
<1>3. r \in Seq(Ids) /\ Len(r) = last
  BY <1>1, <1>2
<1>4. Flat!SwapRemove(s, p) = r
  BY DEF Flat!SwapRemove
<1> QED
  BY <1>3, <1>4

(* The empty index satisfies the invariant. *)
LEMMA IndInit == Flat!Init => IInv
BY DEF Flat!Init, IInv, IndexTypes, Flat!PositionsMatchSlots, Flat!NoPos

(* Adding and removing an id preserve the invariant. *)
LEMMA IndNext == IInv /\ [Flat!Next]_(Flat!vars) => IInv'
<1> SUFFICES ASSUME IInv, [Flat!Next]_(Flat!vars) PROVE IInv'
  OBVIOUS
<1> USE DEF IInv
<1>1. ASSUME NEW id \in Ids, Flat!AddToActiveListings(id) PROVE IInv'
  <2>1. Content' \in Seq(Ids) /\ Len(Content') = Len(Content) + 1 /\ pos' \in [Ids -> Int]
    BY <1>1 DEF Flat!AddToActiveListings, IndexTypes
  <2>2. \A i \in 1..Len(Content') : Content'[i] = IF i = Len(Content) + 1 THEN id ELSE Content[i]
    BY <1>1, <2>1 DEF Flat!AddToActiveListings, IndexTypes
  <2>3. ASSUME NEW j \in Ids, pos'[j] # Flat!NoPos
        PROVE  pos'[j] \in 0..(Len(Content') - 1) /\ Content'[pos'[j] + 1] = j
    BY <1>1, <2>1, <2>2, <2>3 DEF Flat!AddToActiveListings, IndexTypes, Flat!PositionsMatchSlots
  <2>4. ASSUME NEW i \in 1..Len(Content') PROVE pos'[Content'[i]] = i - 1
    <3>1. CASE i = Len(Content) + 1
      BY <1>1, <2>2, <3>1 DEF Flat!AddToActiveListings, IndexTypes
    <3>2. CASE i \in 1..Len(Content)
      <4>1. Content'[i] = Content[i] /\ Content[i] \in Ids /\ pos[Content[i]] = i - 1
        BY <2>2, <3>2 DEF IndexTypes, Flat!PositionsMatchSlots
      <4>2. Content[i] # id
        BY <1>1, <4>1, <3>2 DEF Flat!AddToActiveListings, Flat!NoPos
      <4> QED
        BY <1>1, <4>1, <4>2 DEF Flat!AddToActiveListings, IndexTypes
    <3> QED
      BY <2>1, <3>1, <3>2 DEF IndexTypes
  <2> QED
    BY <2>1, <2>3, <2>4 DEF IndexTypes, Flat!PositionsMatchSlots
<1>2. ASSUME NEW id \in Ids, Flat!RemoveFromActiveListings(id) PROVE IInv'
  <2> DEFINE p == pos[id]
             n == Len(Content)
             moved == Content[n]
  <2>1. p \in 0..(n - 1) /\ n \in Nat /\ n >= 1 /\ Content[p + 1] = id
    BY <1>2 DEF Flat!RemoveFromActiveListings, IndexTypes, Flat!PositionsMatchSlots
  <2>2. moved \in Ids /\ pos[moved] = n - 1
    BY SMTT(30), <2>1 DEF IndexTypes, Flat!PositionsMatchSlots
  <2>3. /\ Content' \in Seq(Ids)
        /\ Len(Content') = n - 1
        /\ \A i \in 1..(n - 1) : Content'[i] = IF i = p + 1 THEN moved ELSE Content[i]
    <3>1. Content \in Seq(Ids) /\ p \in 0..(Len(Content) - 1)
      BY <2>1 DEF IndexTypes
    <3>2. Content' = Flat!SwapRemove(Content, p)
      BY <1>2 DEF Flat!RemoveFromActiveListings
    <3> QED
      BY ZenonT(30), <3>1, <3>2, SwapRemoveType
  <2>4. pos' = [pos EXCEPT ![moved] = p, ![id] = Flat!NoPos]
    BY <1>2 DEF Flat!RemoveFromActiveListings
  <2>5. pos' \in [Ids -> Int] /\ pos'[id] = Flat!NoPos
        /\ \A j \in Ids \ {id} : pos'[j] = IF j = moved THEN p ELSE pos[j]
    BY <2>1, <2>2, <2>4 DEF IndexTypes, Flat!NoPos
  <2>6. ASSUME NEW j \in Ids, pos'[j] # Flat!NoPos
        PROVE  pos'[j] \in 0..(Len(Content') - 1) /\ Content'[pos'[j] + 1] = j
    <3>1. j # id
      BY <2>5, <2>6
    <3>2. CASE j = moved
      <4>1. p # n - 1
        BY <2>1, <3>1, <3>2
      <4> QED
        BY SMTT(30), <2>1, <2>3, <2>5, <3>1, <3>2, <4>1
    <3>3. CASE j # moved
      <4>1. pos'[j] = pos[j] /\ pos[j] \in 0..(n - 1) /\ Content[pos[j] + 1] = j
        BY <2>5, <2>6, <3>1, <3>3 DEF Flat!PositionsMatchSlots
      <4>2. pos[j] # n - 1 /\ pos[j] # p
        BY <2>1, <2>2, <3>1, <3>3, <4>1
      <4>3. pos[j] + 1 \in 1..(n - 1) /\ pos[j] + 1 # p + 1
        BY <2>1, <4>1, <4>2
      <4>4. Content'[pos[j] + 1] = Content[pos[j] + 1]
        BY <2>3, <4>3
      <4> QED
        BY <2>3, <4>1, <4>3, <4>4
    <3> QED
      BY <3>2, <3>3
  <2>7. ASSUME NEW i \in 1..Len(Content') PROVE pos'[Content'[i]] = i - 1
    <3>1. CASE i = p + 1
      <4>1. Content'[i] = moved /\ moved # id
        BY <2>1, <2>2, <2>3, <2>7, <3>1
      <4> QED
        BY <2>1, <2>2, <2>5, <3>1, <4>1
    <3>2. CASE i # p + 1
      <4>0. i \in 1..(n - 1) /\ i \in 1..n
        BY <2>1, <2>3
      <4>1. Content'[i] = Content[i] /\ Content[i] \in Ids /\ pos[Content[i]] = i - 1
        BY <2>3, <3>2, <4>0 DEF IndexTypes, Flat!PositionsMatchSlots
      <4>2. Content[i] # id /\ Content[i] # moved
        BY <2>1, <2>2, <2>3, <2>7, <3>2, <4>1
      <4> QED
        BY <2>5, <4>1, <4>2
    <3> QED
      BY <3>1, <3>2
  <2> QED
    BY <2>3, <2>5, <2>6, <2>7 DEF IndexTypes, Flat!PositionsMatchSlots
<1>3. CASE UNCHANGED Flat!vars
  BY <1>3 DEF Flat!vars, IndexTypes, Flat!PositionsMatchSlots
<1> QED
  BY <1>1, <1>2, <1>3 DEF Flat!Next

(* An id has a position key exactly when it is in the index. *)
LEMMA MembersHavePositions ==
  ASSUME IInv, NEW id \in Ids
  PROVE  id \in Flat!Members <=> pos[id] # Flat!NoPos
BY DEF IInv, IndexTypes, Flat!PositionsMatchSlots, Flat!Members, Flat!NoPos

(* Appending adds exactly the new id to the set. *)
LEMMA AddAddsOne ==
  ASSUME IInv, NEW id \in Ids, Flat!AddToActiveListings(id)
  PROVE  id \notin Flat!Members /\ Flat!Members' = Flat!Members \cup {id}
<1>1. id \notin Flat!Members
  BY MembersHavePositions DEF Flat!AddToActiveListings
<1>2. Content' = Append(Content, id) /\ Content \in Seq(Ids)
  BY DEF Flat!AddToActiveListings, IInv, IndexTypes
<1>3. /\ Len(Content') = Len(Content) + 1 /\ Len(Content) \in Nat
      /\ \A i \in 1..Len(Content) : Content'[i] = Content[i]
      /\ Content'[Len(Content) + 1] = id
  BY <1>2
<1>4. Flat!Members' = Flat!Members \cup {id}
  BY <1>3 DEF Flat!Members
<1> QED
  BY <1>1, <1>4

(* Swap-and-pop removes exactly its id from the set: the last element, which *)
(* loses its slot, is found in the vacated one.                              *)
LEMMA RemoveRemovesOne ==
  ASSUME IInv, NEW id \in Ids, Flat!RemoveFromActiveListings(id)
  PROVE  id \in Flat!Members /\ Flat!Members' = Flat!Members \ {id}
<1> DEFINE p == pos[id]
           n == Len(Content)
<1>1. id \in Flat!Members
  BY MembersHavePositions DEF Flat!RemoveFromActiveListings
<1>2. p \in 0..(n - 1) /\ n \in Nat /\ n >= 1 /\ Content[p + 1] = id /\ Content \in Seq(Ids)
  BY DEF Flat!RemoveFromActiveListings, IInv, IndexTypes, Flat!PositionsMatchSlots
<1>3. /\ Len(Content') = n - 1
      /\ \A i \in 1..(n - 1) : Content'[i] = IF i = p + 1 THEN Content[n] ELSE Content[i]
  BY <1>2, SwapRemoveType DEF Flat!RemoveFromActiveListings
<1>4. \A i, j \in 1..n : Content[i] = Content[j] => i = j
  BY <1>2 DEF IInv, IndexTypes, Flat!PositionsMatchSlots
<1> HIDE DEF p, n
<1>5. n = Len(Content) /\ n \in 1..n
  BY <1>2 DEF n
<1>6. ASSUME NEW x \in Flat!Members' PROVE x \in Flat!Members \ {id}
  <2>1. PICK i \in 1..(n - 1) : x = Content'[i]
    BY <1>3, <1>6 DEF Flat!Members
  <2>2. CASE i = p + 1
    BY <1>2, <1>3, <1>4, <1>5, <2>1, <2>2 DEF Flat!Members
  <2>3. CASE i # p + 1
    BY <1>2, <1>3, <1>4, <1>5, <2>1, <2>3 DEF Flat!Members
  <2> QED
    BY <2>2, <2>3
<1>7. ASSUME NEW x \in Flat!Members \ {id} PROVE x \in Flat!Members'
  <2>1. PICK i \in 1..n : x = Content[i]
    BY <1>5, <1>7 DEF Flat!Members
  <2>2. i # p + 1
    BY <1>2, <1>7, <2>1
  <2>3. CASE i = n
    <3>1. p + 1 \in 1..(n - 1) /\ Content'[p + 1] = x
      BY <1>2, <1>3, <2>1, <2>2, <2>3
    <3> QED
      BY <1>3, <3>1 DEF Flat!Members
  <2>4. CASE i # n
    <3>1. i \in 1..(n - 1) /\ Content'[i] = x
      BY <1>2, <1>3, <2>1, <2>2, <2>4
    <3> QED
      BY <1>3, <3>1 DEF Flat!Members
  <2> QED
    BY <2>3, <2>4
<1> QED
  BY <1>1, <1>6, <1>7

(* The array implements the set its callers rely on: each storage.rs update *)
(* of slots and position keys is one addition or one removal.               *)
LEMMA ArrayImplementsSet == Flat!Spec => ImplementsSet
<1>1. Flat!Init => Flat!AsSet!Init
  BY DEF Flat!Init, Flat!AsSet!Init, Flat!Members, Flat!Keyed
<1>2. IInv /\ [Flat!Next]_(Flat!vars) => [Flat!AsSet!Next]_(Flat!AsSet!vars)
  <2> SUFFICES ASSUME IInv, [Flat!Next]_(Flat!vars) PROVE [Flat!AsSet!Next]_(Flat!AsSet!vars)
    OBVIOUS
  <2>1. ASSUME NEW id \in Ids, Flat!AddToActiveListings(id) PROVE Flat!AsSet!Next
    <3>1. id \notin Flat!Keyed /\ Flat!Keyed' = Flat!Keyed \cup {id}
      BY <2>1 DEF Flat!AddToActiveListings, Flat!Keyed, IInv, IndexTypes, Flat!NoPos
    <3> QED
      BY <2>1, <3>1, AddAddsOne DEF Flat!AsSet!Next, Flat!AsSet!Add
  <2>2. ASSUME NEW id \in Ids, Flat!RemoveFromActiveListings(id) PROVE Flat!AsSet!Next
    <3>1. Content[Len(Content)] \in Ids /\ pos[Content[Len(Content)]] # Flat!NoPos
      BY <2>2 DEF Flat!RemoveFromActiveListings, Flat!SlotHolds, IInv, IndexTypes, Flat!PositionsMatchSlots, Flat!NoPos
    <3>2. id \in Flat!Keyed /\ Flat!Keyed' = Flat!Keyed \ {id}
      BY <2>2, <3>1 DEF Flat!RemoveFromActiveListings, Flat!Keyed, IInv, IndexTypes
    <3> QED
      BY <2>2, <3>2, RemoveRemovesOne DEF Flat!AsSet!Next, Flat!AsSet!Remove
  <2>3. CASE UNCHANGED Flat!vars
    BY <2>3 DEF Flat!vars, Flat!Members, Flat!Keyed, Flat!AsSet!vars
  <2> QED
    BY <2>1, <2>2, <2>3 DEF Flat!Next
<1> QED
  BY <1>1, <1>2, IndInit, IndNext, PTL DEF Flat!Spec, ImplementsSet, Flat!ImplementsSet, Flat!AsSet!Spec

(* Position keys name the slots of their ids, across pages: a removal always *)
(* finds its id, and never another listing's.                                *)
THEOREM PagedPositionsCorrect == Spec => []PositionsMatchSlots
<1>1. IInv => PositionsMatchSlots
  BY DEF IInv, PositionsMatchSlots
<1> QED
  BY <1>1, PagesImplementArray, IndInit, IndNext, PTL DEF ImplementsArray, Flat!Spec

(* The paged index with its position keys is the set of active listings its *)
(* callers take it for.                                                     *)
THEOREM PagesImplementSet == Spec => ImplementsSet
BY PagesImplementArray, ArrayImplementsSet, PTL DEF ImplementsArray

============================================================================
