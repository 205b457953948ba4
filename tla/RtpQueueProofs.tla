--------------------------- MODULE RtpQueueProofs ---------------------------
(***************************************************************************)
(* Proofs about RtpQueue for every window, channel size, stream length and *)
(* sequence space that the module's assumptions allow.                     *)
(***************************************************************************)
EXTENDS RtpQueue, SequenceTheorems, TLAPS

-----------------------------------------------------------------------------
(* Inductive invariants. *)

Newest == queue[Len(queue)]

\* Without protect mode slot i holds packet HeadNumber + i - 1 or nothing, and
\* FirstSeq is the number of the head.
QueueExact ==
    queue # <<>> =>
        /\ Newest # Nil
        /\ HeadNumber \in Nat
        /\ firstSeq = U16(HeadNumber)
        /\ \A i \in DOMAIN queue : queue[i] \in {HeadNumber + (i - 1), Nil}

\* What was played ends right before the head of the queue.
OutExact ==
    out # <<>> =>
        /\ queue # <<>>
        /\ \A i \in DOMAIN out :
              out[i] \in {HeadNumber - Len(out) + (i - 1), Nil}

\* A packet waiting in InChan is neither too old nor too new for what was
\* received before it.
ChanInReach ==
    \A k \in DOMAIN inChan :
        /\ queue # <<>> => Newest < inChan[k] + MaxDelay
        /\ \A j \in 1 .. k - 1 : inChan[j] < inChan[k] + MaxDelay
        /\ \/ queue = <<>> /\ k = 1
           \/ queue # <<>> /\ inChan[k] <= Newest + 1 + MaxSkip
           \/ \E j \in 1 .. k - 1 : inChan[k] <= inChan[j] + 1 + MaxSkip

\* next is one more than the highest packet received or waiting.
NextIsFrontier ==
    /\ queue # <<>> => Newest < next
    /\ \A k \in DOMAIN inChan : inChan[k] < next
    /\ \/ queue = <<>> /\ inChan = <<>> /\ next = FirstPacket
       \/ queue # <<>> /\ next = Newest + 1
       \/ \E k \in DOMAIN inChan : next = inChan[k] + 1

\* How long the queue is at each place of the goroutine.
LengthAtPc ==
    /\ Len(queue) <= PaddingWindowSize + MaxSkip + 1
    /\ pc \in {"recv", "play"} => Len(queue) <= PaddingWindowSize
    /\ pc \in {"quic", "take"} => Len(queue) > PaddingWindowSize
    /\ pc = "quic" => lostSeq = firstSeq

\* Without protect mode the queue, what was played and what is waiting fit
\* together: the reason why delivery is in order and without silent gaps.
OrderInv ==
    /\ QueueExact
    /\ OutExact
    /\ ChanInReach
    /\ NextIsFrontier
    /\ LengthAtPc

\* Let f be one more than the highest packet RecvPacket ever took from InChan.
\* The newest packet in the queue is not far behind f, even when the queue was
\* emptied and restarted at a late packet.
NotFarBehind(f) == queue # <<>> => Newest < f /\ f <= Newest + 1 + MaxDelay

\* How many slots behind its head the queue can reach.
Span == PaddingWindowSize + MaxSkip + MaxDelay

\* With and without protect mode the queue is exact and short, and the packet
\* that runQuic asks for is at most the length of the queue behind the newest.
SpanInv ==
    /\ QueueExact
    /\ \E f \in 0 .. next : NotFarBehind(f) /\ Waiting(f)
    /\ Len(queue) <= Span + 1
    /\ pc \in {"recv", "play"} => Len(queue) <= PaddingWindowSize
    /\ pc = "quic" => \E l \in 0 .. HeadNumber :
                         lostSeq = U16(l) /\ Newest <= l + Span

Slot == Packets \cup {Nil}

-----------------------------------------------------------------------------
(* The wrapping sequence numbers of RtpSeq, for every SeqSpace and Horizon
   that satisfy SeqAssumption. *)

\* A conversion to uint16 yields a sequence number.
LEMMA U16Type ==
  ASSUME NEW x \in Int
  PROVE  U16(x) \in SeqNo
BY SeqAssumption DEF U16, SeqNo

\* A number that is already a sequence number is converted to itself.
LEMMA U16Small ==
  ASSUME NEW x \in SeqNo
  PROVE  U16(x) = x
BY SeqAssumption DEF U16, SeqNo

\* One wrap around subtracts the size of the sequence space once.
LEMMA U16Once ==
  ASSUME NEW x \in Int, SeqSpace <= x, x < 2 * SeqSpace
  PROVE  U16(x) = x - SeqSpace
BY SeqAssumption DEF U16, SeqNo

\* Division with remainder by the size of the sequence space.
LEMMA DivMod ==
  ASSUME NEW x \in Int
  PROVE  /\ x \div SeqSpace \in Int
         /\ x = SeqSpace * (x \div SeqSpace) + U16(x)
BY SeqAssumption DEF U16, SeqNo

\* Two remainders that differ by a multiple of the divisor are equal.
LEMMA SameRemainder ==
  ASSUME NEW m \in Nat \ {0}, NEW k \in Int, NEW r \in Int, NEW s \in Int,
         0 <= r, r < m, 0 <= s, s < m, m * k = s - r
  PROVE  r = s
<1>1. CASE k = 0
  BY <1>1
<1>2. CASE k >= 1
  <2>1. m * k >= m
    BY <1>2
  <2> QED BY <2>1
<1>3. CASE k <= -1
  <2>1. m * k <= -m
    BY <1>3
  <2> QED BY <2>1
<1> QED BY <1>1, <1>2, <1>3

\* The remainder is the only sequence number congruent to x.
LEMMA U16Unique ==
  ASSUME NEW x \in Int, NEW q \in Int, NEW r \in SeqNo,
         x = SeqSpace * q + r
  PROVE  U16(x) = r
<1> DEFINE p == x \div SeqSpace
           s == U16(x)
           k == q - p
<1>1. p \in Int /\ x = SeqSpace * p + s /\ s \in SeqNo
  BY DivMod, U16Type
<1>2. SeqSpace \in Nat \ {0}
  BY SeqAssumption
<1> HIDE DEF p, s
<1>3. SeqSpace * k = s - r
  <2>1. SeqSpace * (q - p) = SeqSpace * q - SeqSpace * p
    BY <1>1, <1>2
  <2> QED BY <1>1, <1>2, <2>1 DEF SeqNo
<1>4. k \in Int
  BY <1>1
<1> HIDE DEF k
<1>5. /\ r \in Int /\ 0 <= r /\ r < SeqSpace
      /\ s \in Int /\ 0 <= s /\ s < SeqSpace
  BY <1>1, <1>2 DEF SeqNo
<1>6. r = s
  BY <1>2, <1>3, <1>4, <1>5, SameRemainder
<1> QED BY <1>6 DEF s

\* Moving d numbers on, with d less than the sequence space, wraps at most once.
LEMMA U16Add ==
  ASSUME NEW x \in Int, NEW d \in SeqNo
  PROVE  U16(x + d) = IF U16(x) + d < SeqSpace THEN U16(x) + d
                                               ELSE U16(x) + d - SeqSpace
<1> DEFINE q == x \div SeqSpace
           s == U16(x)
           y == x + d
<1>1. q \in Int /\ x = SeqSpace * q + s /\ s \in SeqNo
  BY DivMod, U16Type
<1>2. SeqSpace \in Nat \ {0} /\ d \in Nat /\ y \in Int
  BY SeqAssumption DEF SeqNo
<1> HIDE DEF q, s
<1>3. CASE s + d < SeqSpace
  <2> DEFINE r == s + d
  <2>1. r \in SeqNo /\ y = SeqSpace * q + r
    BY <1>1, <1>2, <1>3 DEF SeqNo
  <2> HIDE DEF r, y
  <2>2. U16(y) = r
    BY <1>1, <1>2, <2>1, U16Unique
  <2> QED BY <1>3, <2>2 DEF s, r, y
<1>4. CASE ~(s + d < SeqSpace)
  <2> DEFINE r == s + d - SeqSpace
             n == q + 1
  <2>1. n \in Int /\ SeqSpace * n = SeqSpace * q + SeqSpace
    BY <1>1, <1>2
  <2> HIDE DEF n
  <2>2. r \in SeqNo /\ y = SeqSpace * n + r
    BY <1>1, <1>2, <1>4, <2>1 DEF SeqNo
  <2> HIDE DEF r, y
  <2>3. U16(y) = r
    BY <1>2, <2>1, <2>2, U16Unique
  <2> QED BY <1>4, <2>3 DEF s, r, y
<1> QED BY <1>3, <1>4

\* The offset Enqueue computes is the one that leads from the head's number
\* to the packet's, for any two numbers and across a wrap.
LEMMA RelativeOffset ==
  ASSUME NEW seq \in SeqNo, NEW first \in SeqNo
  PROVE  /\ Relative(seq, first) \in SeqNo
         /\ U16(first + Relative(seq, first)) = seq
<1>1. CASE seq > first
  BY <1>1, SeqAssumption, U16Small DEF Relative, SeqNo
<1>2. CASE seq = first
  <2>1. U16(SeqSpace - 1 - first + seq + 1) = 0
    BY <1>2, SeqAssumption, U16Once DEF SeqNo
  <2> QED BY <1>2, <2>1, SeqAssumption, U16Small DEF Relative, SeqNo
<1>3. CASE seq < first
  <2> DEFINE r == SeqSpace - 1 - first + seq + 1
  <2>1. r \in SeqNo /\ first + r = seq + SeqSpace
    BY <1>3, SeqAssumption DEF SeqNo
  <2>2. Relative(seq, first) = r
    BY <1>3, <2>1, U16Small DEF Relative, SeqNo
  <2>3. U16(first + r) = seq
    <3>1. U16(seq + SeqSpace) = seq
      BY SeqAssumption, U16Once DEF SeqNo
    <3> QED BY <2>1, <3>1
  <2> QED BY <2>1, <2>2, <2>3
<1> QED BY <1>1, <1>2, <1>3 DEF SeqNo

\* For packets numbered without wrapping, b the head and b + d the packet, the
\* offset is d as long as d is less than the sequence space.
LEMMA RelativeAhead ==
  ASSUME NEW b \in Nat, NEW d \in SeqNo
  PROVE  Relative(U16(b + d), U16(b)) = d
<1>1. U16(b) \in SeqNo
  BY U16Type
<1>2. CASE U16(b) + d < SeqSpace
  <2>1. U16(b + d) = U16(b) + d
    BY <1>2, U16Add
  <2>2. CASE d = 0
    <3>1. U16(SeqSpace - 1 - U16(b) + U16(b) + 1) = 0
      BY <1>1, SeqAssumption, U16Once DEF SeqNo
    <3> QED BY <1>1, <2>1, <2>2, <3>1 DEF Relative, SeqNo
  <2>3. CASE d > 0
    BY <1>1, <2>1, <2>3, SeqAssumption DEF Relative, SeqNo
  <2> QED BY <2>2, <2>3 DEF SeqNo
<1>3. CASE ~(U16(b) + d < SeqSpace)
  <2>1. U16(b + d) = U16(b) + d - SeqSpace
    BY <1>3, U16Add
  <2>2. SeqSpace - 1 - U16(b) + U16(b + d) + 1 = d
    BY <1>1, <2>1, SeqAssumption DEF SeqNo
  <2>3. ~(U16(b + d) > U16(b))
    BY <1>1, <2>1, SeqAssumption DEF SeqNo
  <2> QED BY <2>2, <2>3, U16Small DEF Relative
<1> QED BY <1>2, <1>3

\* What FirstBeforeSecond guarantees: a packet less than Reach numbers behind
\* the head is recognised as old, one up to Reach numbers ahead is not, on
\* both sides of a wrap.  Farther away the answer depends on the wrap.
THEOREM CompareWithinReach ==
  ASSUME NEW b \in Nat, NEW d \in Nat, d <= Reach
  PROVE  /\ ~FirstBeforeSecond(U16(b + d), U16(b))
         /\ 0 < d /\ d < Reach => FirstBeforeSecond(U16(b), U16(b + d))
<1>1. U16(b) \in SeqNo
  BY U16Type
<1>2. d \in SeqNo
  BY SeqAssumption DEF SeqNo, Reach
<1>3. CASE U16(b) + d < SeqSpace
  <2>1. U16(b + d) = U16(b) + d
    BY <1>2, <1>3, U16Add
  <2> QED BY <1>1, <2>1, SeqAssumption DEF FirstBeforeSecond, Reach, SeqNo
<1>4. CASE ~(U16(b) + d < SeqSpace)
  <2>1. U16(b + d) = U16(b) + d - SeqSpace
    BY <1>2, <1>4, U16Add
  <2> QED BY <1>1, <2>1, SeqAssumption DEF FirstBeforeSecond, Reach, SeqNo
<1> QED BY <1>3, <1>4

\* Converting an intermediate sum to uint16 changes nothing.
LEMMA U16Nest ==
  ASSUME NEW x \in Int, NEW d \in Int
  PROVE  U16(U16(x) + d) = U16(x + d)
<1> DEFINE q == x \div SeqSpace
           s == U16(x)
           y == x + d
           q2 == y \div SeqSpace
           r == U16(y)
           z == s + d
           m == q2 - q
<1>1. q \in Int /\ x = SeqSpace * q + s /\ s \in SeqNo
  BY DivMod, U16Type
<1>2. y \in Int
  OBVIOUS
<1>3. q2 \in Int /\ y = SeqSpace * q2 + r /\ r \in SeqNo
  <2> HIDE DEF y
  <2> QED BY <1>2, DivMod, U16Type
<1>4. SeqSpace \in Nat \ {0}
  BY SeqAssumption
<1> HIDE DEF q, s, q2, r
<1>5. m \in Int /\ SeqSpace * m = SeqSpace * q2 - SeqSpace * q
  BY <1>1, <1>3, <1>4
<1>6. z \in Int /\ z = y - SeqSpace * q
  BY <1>1, <1>4 DEF SeqNo
<1> HIDE DEF m, y
<1>7. z = SeqSpace * m + r
  BY <1>1, <1>2, <1>3, <1>4, <1>5, <1>6 DEF SeqNo
<1> HIDE DEF z
<1>8. U16(z) = r
  BY <1>3, <1>5, <1>6, <1>7, U16Unique
<1> QED BY <1>8 DEF z, s, r, y

\* Two packets less than the sequence space apart that have the same number
\* are the same packet.
LEMMA U16Injective ==
  ASSUME NEW a \in Nat, NEW b \in Nat, U16(a) = U16(b),
         a < b + SeqSpace, b < a + SeqSpace
  PROVE  a = b
<1>1. SeqSpace \in Nat \ {0}
  BY SeqAssumption
<1>2. ASSUME NEW x \in Nat, NEW d \in SeqNo, U16(x) = U16(x + d)
      PROVE  d = 0
  <2> DEFINE s == U16(x)
  <2>0. s \in SeqNo
    BY U16Type
  <2>1. s \in SeqNo /\ d \in Nat /\ d < SeqSpace
    BY <1>1, <2>0 DEF SeqNo
  <2>2. s = IF s + d < SeqSpace THEN s + d ELSE s + d - SeqSpace
    BY <1>2, U16Add
  <2> HIDE DEF s
  <2> QED BY <1>1, <2>1, <2>2 DEF SeqNo
<1>3. CASE a <= b
  <2> DEFINE d == b - a
  <2>1. d \in SeqNo /\ a + d = b
    BY <1>1, <1>3 DEF SeqNo
  <2> HIDE DEF d
  <2>2. d = 0
    BY <1>2, <2>1
  <2> QED BY <2>1, <2>2
<1>4. CASE b <= a
  <2> DEFINE d == a - b
  <2>1. d \in SeqNo /\ b + d = a
    BY <1>1, <1>4 DEF SeqNo
  <2> HIDE DEF d
  <2>2. d = 0
    BY <1>2, <2>1
  <2> QED BY <2>1, <2>2
<1> QED BY <1>3, <1>4

-----------------------------------------------------------------------------
(* Sequences. *)

\* t is queue q with packet p in slot i: see Put.
IsPut(t, q, i, p) ==
    /\ t \in Seq(Slot)
    /\ Len(t) = IF i > Len(q) THEN i ELSE Len(q)
    /\ \A j \in 1 .. Len(t) : t[j] = IF j = i THEN p
                                    ELSE IF j <= Len(q) THEN q[j] ELSE Nil

\* What Put does to a list of slots.
LEMMA PutProperties ==
  ASSUME NEW q \in Seq(Slot), NEW i \in Nat \ {0}, NEW p \in Packets
  PROVE  IsPut(Put(q, i, p), q, i, p)
<1> DEFINE n == IF i > Len(q) THEN i ELSE Len(q)
           f == [j \in 1 .. n |-> IF j = i THEN p
                                  ELSE IF j <= Len(q) THEN q[j] ELSE Nil]
<1>1. n \in Nat
  OBVIOUS
<1>2. \A j \in 1 .. n : j <= Len(q) => q[j] \in Slot
  OBVIOUS
<1>3. f \in [1 .. n -> Slot]
  BY <1>2 DEF Slot
<1>4. f \in Seq(Slot) /\ Len(f) = n
  BY <1>1, <1>3
<1>5. Put(q, i, p) = f
  BY DEF Put
<1> HIDE DEF n
<1>6. \A j \in 1 .. n : f[j] = IF j = i THEN p
                               ELSE IF j <= Len(q) THEN q[j] ELSE Nil
  OBVIOUS
<1> HIDE DEF f
<1> QED BY <1>4, <1>5, <1>6 DEF n, IsPut

\* What is left of a sequence without its head.
LEMMA TailProperties ==
  ASSUME NEW S, NEW q \in Seq(S), q # <<>>
  PROVE  /\ Len(q) \in Nat \ {0}
         /\ Head(q) \in S /\ Head(q) = q[1]
         /\ Tail(q) \in Seq(S)
         /\ Len(Tail(q)) = Len(q) - 1
         /\ \A j \in 1 .. Len(q) - 1 : Tail(q)[j] = q[j + 1]
BY HeadTailProperties, EmptySeq

\* What is left of the queue from slot k on.
LEMMA SuffixProperties ==
  ASSUME NEW S, NEW q \in Seq(S), NEW k \in 1 .. Len(q)
  PROVE  /\ SubSeq(q, k, Len(q)) \in Seq(S)
         /\ Len(SubSeq(q, k, Len(q))) = Len(q) - k + 1
         /\ \A j \in 1 .. Len(q) - k + 1 :
              SubSeq(q, k, Len(q))[j] = q[k + j - 1]
BY SubSeqProperties

-----------------------------------------------------------------------------
(* Type correctness, with and without protect mode. *)

\* Enqueue drops the packet or puts it r slots behind the head, where the
\* number counted from FirstSeq is the packet's own.
LEMMA EnqueueEffect ==
  ASSUME TypeOK, NEW p \in Slot, Enqueue(p)
  PROVE  \/ queue' = queue /\ firstSeq' = firstSeq
         \/ \E r \in SeqNo :
              /\ p \in Packets
              /\ queue' = Put(queue, r + 1, p)
              /\ firstSeq' \in SeqNo
              /\ queue # <<>> => firstSeq' = firstSeq
              /\ queue = <<>> => r = 0
              /\ U16(firstSeq' + r) = SeqOf(p)
<1>1. CASE Useless(p)
  BY <1>1 DEF Enqueue
<1>2. CASE ~Useless(p)
  <2>1. p \in Packets /\ p \in Int
    BY <1>2, QueueAssumption DEF Useless, Slot, Packets
  <2>2. SeqOf(p) \in SeqNo
    BY <2>1, U16Type DEF SeqOf
  <2>3. firstSeq' \in SeqNo /\ (queue # <<>> => firstSeq' = firstSeq)
    BY <1>2, <2>2 DEF Enqueue, TypeOK
  <2> DEFINE r == Relative(SeqOf(p), firstSeq')
  <2>4. queue' = Put(queue, r + 1, p)
    BY <1>2 DEF Enqueue
  <2>5. r \in SeqNo /\ U16(firstSeq' + r) = SeqOf(p)
    BY <2>2, <2>3, RelativeOffset
  <2>6. queue = <<>> => r = 0
    <3> SUFFICES ASSUME queue = <<>> PROVE r = 0
      OBVIOUS
    <3>1. firstSeq' = SeqOf(p)
      BY <1>2 DEF Enqueue
    <3>2. U16(SeqSpace - 1 - SeqOf(p) + SeqOf(p) + 1) = 0
      BY <2>2, SeqAssumption, U16Once DEF SeqNo
    <3> QED BY <2>2, <3>1, <3>2 DEF Relative, SeqNo
  <2> HIDE DEF r
  <2> QED BY <2>1, <2>3, <2>4, <2>5, <2>6
<1> QED BY <1>1, <1>2

\* Enqueue keeps the types of what it changes, and empties no queue.
LEMMA EnqueueType ==
  ASSUME TypeOK, NEW p \in Slot, Enqueue(p)
  PROVE  /\ queue' \in Seq(Slot)
         /\ firstSeq' \in SeqNo
         /\ queue # <<>> => queue' # <<>>
<1>0. queue \in Seq(Slot) /\ firstSeq \in SeqNo
  BY DEF TypeOK, Slot
<1>1. CASE queue' = queue /\ firstSeq' = firstSeq
  BY <1>0, <1>1
<1>2. ASSUME NEW r \in SeqNo, p \in Packets, queue' = Put(queue, r + 1, p),
             firstSeq' \in SeqNo
      PROVE  queue' \in Seq(Slot) /\ queue' # <<>>
  <2>1. r + 1 \in Nat \ {0}
    BY DEF SeqNo
  <2>2. queue' \in Seq(Slot) /\ Len(queue') # 0
    BY <1>0, <1>2, <2>1, PutProperties DEF IsPut
  <2> QED BY <2>2
<1> QED BY <1>0, <1>1, <1>2, EnqueueEffect

\* The end of Dequeue keeps the types of what it changes.
LEMMA PopHeadType ==
  ASSUME TypeOK, PopHead
  PROVE  /\ queue' \in Seq(Slot)
         /\ firstSeq' \in SeqNo
         /\ out' \in Seq(Slot)
<1>1. /\ queue \in Seq(Slot) /\ queue # <<>> /\ out \in Seq(Slot)
      /\ firstSeq \in SeqNo
  BY DEF TypeOK, Slot, PopHead
<1>2. Head(queue) \in Slot /\ Tail(queue) \in Seq(Slot)
  BY <1>1, TailProperties
<1>3. U16(firstSeq + 1) \in SeqNo
  <2>1. firstSeq + 1 \in Int
    BY <1>1, SeqAssumption DEF SeqNo
  <2> QED BY <2>1, U16Type
<1> QED BY <1>1, <1>2, <1>3 DEF PopHead

\* reshape keeps the types of what it changes and empties no queue.
LEMMA ReshapeType ==
  ASSUME TypeOK, NEW k \in 2 .. Len(queue), Reshape(k)
  PROVE  /\ queue' \in Seq(Slot)
         /\ queue' # <<>>
         /\ firstSeq' \in SeqNo
<1>1. queue \in Seq(Slot) /\ firstSeq \in SeqNo /\ k \in 1 .. Len(queue)
  BY DEF TypeOK, Slot
<1>2. queue' \in Seq(Slot) /\ Len(queue') # 0
  BY <1>1, SuffixProperties DEF Reshape
<1>3. U16(firstSeq + (k - 1)) \in SeqNo
  <2>1. firstSeq + (k - 1) \in Int
    BY <1>1 DEF SeqNo
  <2> QED BY <2>1, U16Type
<1>4. queue' # <<>>
  BY <1>2
<1> QED BY <1>2, <1>3, <1>4 DEF Reshape

\* Initially every variable has its type.
LEMMA InitType == Init => TypeOK
BY QueueAssumption, SeqAssumption DEF Init, TypeOK, SeqNo

\* Every step keeps the types.
LEMMA NextType == TypeOK /\ [Next]_vars => TypeOK'
<1> SUFFICES ASSUME TypeOK, [Next]_vars PROVE TypeOK'
  OBVIOUS
<1> USE DEF Slot
<1>1. ASSUME NEW p \in Packets, Arrive(p) PROVE TypeOK'
  <2>1. p \in Nat /\ next' \in Nat
    BY <1>1, QueueAssumption DEF Arrive, TypeOK, Packets
  <2> QED BY <1>1, <2>1 DEF Arrive, TypeOK
<1>2. CASE Recv
  <2>1. inChan \in Seq(Packets) /\ inChan # <<>>
    BY <1>2 DEF TypeOK, Recv
  <2>2. Head(inChan) \in Slot /\ inChan' \in Seq(Packets)
    BY <1>2, <2>1, TailProperties DEF Recv
  <2>3. Enqueue(Head(inChan))
    BY <1>2 DEF Recv
  <2>4. queue' \in Seq(Slot) /\ firstSeq' \in SeqNo
    BY <2>2, <2>3, EnqueueType
  <2> QED BY <1>2, <2>2, <2>4 DEF Recv, TypeOK
<1>3. CASE DrainPop
  BY <1>3, PopHeadType DEF DrainPop, TypeOK
<1>4. CASE RequestLost
  BY <1>4 DEF RequestLost, TypeOK
<1>5. CASE RequestReshaped
  <2>1. queue' \in Seq(Slot) /\ firstSeq' \in SeqNo
    BY <1>5, ReshapeType DEF RequestReshaped
  <2>2. udpBufferSize' \in 0 .. MaxUdpBuffer
    BY <1>5, QueueAssumption DEF RequestReshaped, TypeOK, CanGrowBuffer
  <2> QED BY <1>5, <2>1, <2>2 DEF RequestReshaped, TypeOK
<1>6. CASE ReshapeBufferError
  <2>1. queue' \in Seq(Slot) /\ firstSeq' \in SeqNo
    BY <1>6, ReshapeType DEF ReshapeBufferError
  <2>2. udpBufferSize' \in 0 .. MaxUdpBuffer
    BY <1>6, QueueAssumption DEF ReshapeBufferError, TypeOK, CanGrowBuffer
  <2> QED BY <1>6, <2>1, <2>2 DEF ReshapeBufferError, TypeOK
<1>7. CASE QuicReply
  <2>1. PICK p \in Replies : Enqueue(p)
    BY <1>7 DEF QuicReply
  <2>2. p \in Slot
    BY DEF Replies
  <2>3. queue' \in Seq(Slot) /\ firstSeq' \in SeqNo
    BY <2>1, <2>2, EnqueueType
  <2> QED BY <1>7, <2>3 DEF QuicReply, TypeOK
<1>8. CASE TakeHead
  BY <1>8, PopHeadType DEF TakeHead, TypeOK
<1>9. CASE DrainDone
  BY <1>9 DEF DrainDone, TypeOK
<1>10. CASE PlayPop
  BY <1>10, PopHeadType DEF PlayPop, TypeOK
<1>11. CASE PlayDone
  BY <1>11 DEF PlayDone, TypeOK
<1>12. CASE UNCHANGED vars
  BY <1>12 DEF vars, TypeOK
<1> QED BY <1>1, <1>2, <1>3, <1>4, <1>5, <1>6, <1>7, <1>8, <1>9, <1>10,
           <1>11, <1>12 DEF Next, RecvPacket

\* The fields of Queue keep their types whatever arrives and whatever the
\* cloud answers; in particular FirstSeq stays a 16-bit number.
THEOREM TypeCorrect == Spec => []TypeOK
BY InitType, NextType, PTL DEF Spec

-----------------------------------------------------------------------------
(* The slots of the queue, with and without protect mode. *)

\* Enqueue puts a packet into its slot and leaves no empty slot at the end.
LEMMA EnqueueSlots ==
  ASSUME TypeOK, SlotsInPlace, LastPresent, NEW p \in Slot, Enqueue(p)
  PROVE  SlotsInPlace' /\ LastPresent'
<1>0. queue \in Seq(Slot) /\ Nil \notin Packets /\ Len(<<>>) = 0
  BY QueueAssumption DEF TypeOK, Slot, Packets
<1>1. CASE queue' = queue /\ firstSeq' = firstSeq
  BY <1>1 DEF SlotsInPlace, LastPresent
<1>2. ASSUME NEW r \in SeqNo, p \in Packets, queue' = Put(queue, r + 1, p),
             firstSeq' \in SeqNo, queue # <<>> => firstSeq' = firstSeq,
             queue = <<>> => r = 0, U16(firstSeq' + r) = SeqOf(p)
      PROVE  SlotsInPlace' /\ LastPresent'
  <2>1. r + 1 \in Nat \ {0} /\ r \in Nat
    BY DEF SeqNo
  <2>2. /\ queue' \in Seq(Slot)
        /\ Len(queue') = IF r + 1 > Len(queue) THEN r + 1 ELSE Len(queue)
        /\ \A j \in 1 .. Len(queue') :
             queue'[j] = IF j = r + 1 THEN p
                         ELSE IF j <= Len(queue) THEN queue[j] ELSE Nil
    <3> DEFINE i == r + 1
    <3>1. /\ i \in Nat \ {0} /\ queue' = Put(queue, i, p)
          /\ p \in Packets /\ queue \in Seq(Slot)
      BY <1>0, <1>2, <2>1
    <3> HIDE DEF i
    <3> DEFINE t == Put(queue, i, p)
    <3>2. IsPut(t, queue, i, p)
      BY <3>1, PutProperties
    <3>3. queue' = t
      BY <3>1
    <3> HIDE DEF t
    <3> QED BY <3>2, <3>3 DEF i, IsPut
  <2>3. SlotsInPlace'
    <3> SUFFICES ASSUME NEW i \in 1 .. Len(queue'), queue'[i] # Nil
                 PROVE  SeqOf(queue'[i]) = U16(firstSeq' + (i - 1))
      BY <2>2 DEF SlotsInPlace
    <3>1. CASE i = r + 1
      <4>1. queue'[i] = p /\ i - 1 = r
        BY <2>1, <2>2, <3>1
      <4> QED BY <1>2, <4>1
    <3>2. CASE i # r + 1
      <4>1. i <= Len(queue) /\ i \in 1 .. Len(queue) /\ queue'[i] = queue[i]
        BY <1>0, <2>1, <2>2, <3>2
      <4>2. queue # <<>>
        BY <1>0, <4>1
      <4> QED BY <1>0, <1>2, <4>1, <4>2 DEF SlotsInPlace
    <3> QED BY <3>1, <3>2
  <2>4. LastPresent'
    <3>1. CASE r + 1 > Len(queue)
      BY <1>0, <1>2, <2>1, <2>2, <3>1 DEF LastPresent
    <3>2. CASE ~(r + 1 > Len(queue))
      <4>1. Len(queue) \in Nat \ {0} /\ Len(queue') = Len(queue)
        BY <1>0, <2>1, <2>2, <3>2
      <4>2. queue # <<>> /\ queue[Len(queue)] # Nil
        BY <1>0, <4>1 DEF LastPresent
      <4> QED BY <1>0, <1>2, <2>1, <2>2, <4>1, <4>2 DEF LastPresent
    <3> QED BY <3>1, <3>2
  <2> QED BY <2>3, <2>4
<1> QED BY <1>1, <1>2, EnqueueEffect

\* Dropping d slots and counting FirstSeq on by as many keeps every packet
\* in its slot.  Dequeue is the case d = 1, reshape the others.
LEMMA DropSlots ==
  ASSUME TypeOK, SlotsInPlace, LastPresent,
         NEW d \in Nat \ {0},
         queue' \in Seq(Slot),
         Len(queue') = Len(queue) - d,
         \A j \in 1 .. Len(queue') : queue'[j] = queue[j + d],
         firstSeq' = U16(firstSeq + d)
  PROVE  SlotsInPlace' /\ LastPresent'
<1>0. queue \in Seq(Slot) /\ firstSeq \in Int /\ Len(queue) \in Nat
  BY DEF TypeOK, Slot, SeqNo
<1>1. SlotsInPlace'
  <2> SUFFICES ASSUME NEW i \in 1 .. Len(queue'), queue'[i] # Nil
               PROVE  SeqOf(queue'[i]) = U16(firstSeq' + (i - 1))
    BY DEF SlotsInPlace
  <2> DEFINE n == i + d
  <2>1. n \in 1 .. Len(queue) /\ queue'[i] = queue[n] /\ i \in Int
    BY <1>0
  <2> HIDE DEF n
  <2>2. SeqOf(queue[n]) = U16(firstSeq + (n - 1))
    BY <1>0, <2>1 DEF SlotsInPlace
  <2>3. firstSeq + (n - 1) = (firstSeq + d) + (i - 1)
    BY <1>0, <2>1 DEF n
  <2>4. U16(U16(firstSeq + d) + (i - 1))
          = U16((firstSeq + d) + (i - 1))
    <3>1. firstSeq + d \in Int /\ i - 1 \in Int
      BY <1>0, <2>1
    <3> QED BY <3>1, U16Nest
  <2> QED BY <2>1, <2>2, <2>3, <2>4
<1>2. LastPresent'
  <2> SUFFICES ASSUME queue' # <<>> PROVE queue'[Len(queue')] # Nil
    BY DEF LastPresent
  <2>1. Len(queue') \in Nat \ {0}
    BY EmptySeq
  <2>2. queue # <<>> /\ queue'[Len(queue')] = queue[Len(queue)]
    <3>1. Len(queue) # 0 /\ queue'[Len(queue')] = queue[Len(queue)]
      BY <1>0, <2>1
    <3> QED BY <3>1
  <2> QED BY <2>2 DEF LastPresent
<1> QED BY <1>1, <1>2

\* The end of Dequeue keeps every packet in its slot.
LEMMA PopHeadSlots ==
  ASSUME TypeOK, SlotsInPlace, LastPresent, PopHead
  PROVE  SlotsInPlace' /\ LastPresent'
<1>1. queue \in Seq(Slot) /\ queue # <<>> /\ queue' = Tail(queue)
  BY DEF TypeOK, Slot, PopHead
<1>2. /\ Len(queue) \in Nat
      /\ queue' \in Seq(Slot)
      /\ Len(queue') = Len(queue) - 1
      /\ \A j \in 1 .. Len(queue') : queue'[j] = queue[j + 1]
  BY <1>1, TailProperties
<1>3. firstSeq' = U16(firstSeq + 1)
  BY DEF PopHead
<1> QED BY <1>2, <1>3, DropSlots

\* reshape keeps every packet in its slot.
LEMMA ReshapeSlots ==
  ASSUME TypeOK, SlotsInPlace, LastPresent, NEW k \in 2 .. Len(queue),
         Reshape(k)
  PROVE  SlotsInPlace' /\ LastPresent'
<1>1. queue \in Seq(Slot) /\ k \in 1 .. Len(queue) /\ Len(queue) \in Nat
  BY DEF TypeOK, Slot
<1>2. /\ queue' \in Seq(Slot)
      /\ Len(queue') = Len(queue) - k + 1
      /\ \A j \in 1 .. Len(queue) - k + 1 : queue'[j] = queue[k + j - 1]
  BY <1>1, SuffixProperties DEF Reshape
<1> DEFINE d == k - 1
<1>3. /\ d \in Nat \ {0}
      /\ Len(queue') = Len(queue) - d
      /\ \A j \in 1 .. Len(queue') : queue'[j] = queue[j + d]
  BY <1>1, <1>2
<1>4. firstSeq' = U16(firstSeq + d)
  BY DEF Reshape
<1> HIDE DEF d
<1> QED BY <1>2, <1>3, <1>4, DropSlots

\* Every step keeps QueueInv.
LEMMA NextQueueInv == TypeOK /\ QueueInv /\ [Next]_vars => QueueInv'
<1> SUFFICES ASSUME TypeOK, QueueInv, [Next]_vars PROVE QueueInv'
  OBVIOUS
<1> USE DEF QueueInv, HeadExists
<1>1. ASSUME NEW p \in Packets, Arrive(p) PROVE QueueInv'
  BY <1>1 DEF Arrive, SlotsInPlace, LastPresent
<1>2. CASE Recv
  <2>1. inChan \in Seq(Packets) /\ inChan # <<>> /\ Enqueue(Head(inChan))
    BY <1>2 DEF TypeOK, Recv
  <2>2. Head(inChan) \in Slot
    BY <2>1, TailProperties DEF Slot
  <2>3. SlotsInPlace' /\ LastPresent'
    BY <2>1, <2>2, EnqueueSlots
  <2> QED BY <1>2, <2>3 DEF Recv
<1>3. CASE DrainPop
  BY <1>3, PopHeadSlots DEF DrainPop
<1>4. CASE RequestLost
  <2>1. Len(queue) > PaddingWindowSize /\ PaddingWindowSize \in Nat
    BY <1>4, QueueAssumption DEF RequestLost, HeadLost
  <2>2. queue # <<>>
    BY <2>1
  <2> QED BY <1>4, <2>2 DEF RequestLost, SlotsInPlace, LastPresent
<1>5. CASE RequestReshaped
  BY <1>5, ReshapeSlots, ReshapeType DEF RequestReshaped
<1>6. CASE ReshapeBufferError
  BY <1>6, ReshapeSlots, ReshapeType DEF ReshapeBufferError
<1>7. CASE QuicReply
  <2>1. PICK p \in Replies : Enqueue(p)
    BY <1>7 DEF QuicReply
  <2>2. p \in Slot
    BY DEF Replies, Slot
  <2>3. SlotsInPlace' /\ LastPresent' /\ (queue # <<>> => queue' # <<>>)
    BY <2>1, <2>2, EnqueueSlots, EnqueueType
  <2> QED BY <1>7, <2>3 DEF QuicReply
<1>8. CASE TakeHead
  BY <1>8, PopHeadSlots DEF TakeHead
<1>9. CASE DrainDone
  BY <1>9 DEF DrainDone, SlotsInPlace, LastPresent
<1>10. CASE PlayPop
  BY <1>10, PopHeadSlots DEF PlayPop
<1>11. CASE PlayDone
  BY <1>11 DEF PlayDone, SlotsInPlace, LastPresent
<1>12. CASE UNCHANGED vars
  BY <1>12 DEF vars, SlotsInPlace, LastPresent
<1> QED BY <1>1, <1>2, <1>3, <1>4, <1>5, <1>6, <1>7, <1>8, <1>9, <1>10,
           <1>11, <1>12 DEF Next, RecvPacket

\* Every packet is in the slot of its number and the last slot is never empty,
\* so Dequeue hands out the packet FirstSeq names and PrintInfo's conversion
\* of the last slot meets a packet.  Protect mode included.
THEOREM QueueConsistent == Spec => [](SlotsInPlace /\ LastPresent)
<1>1. Init => QueueInv
  BY DEF Init, QueueInv, SlotsInPlace, LastPresent, HeadExists
<1>2. QueueInv => SlotsInPlace /\ LastPresent
  BY DEF QueueInv
<1> QED BY <1>1, <1>2, TypeCorrect, NextQueueInv, PTL DEF Spec

-----------------------------------------------------------------------------
(* Order without protect mode. *)

\* The numbers of a queue that is not empty.
LEMMA QueueNumbers ==
  ASSUME TypeOK, QueueExact, queue # <<>>
  PROVE  /\ queue \in Seq(Slot)
         /\ Len(queue) \in Nat \ {0}
         /\ Newest \in Packets /\ Newest \in Nat
         /\ HeadNumber \in Nat
         /\ HeadNumber = Newest - Len(queue) + 1
         /\ firstSeq = U16(HeadNumber)
         /\ \A i \in 1 .. Len(queue) :
              queue[i] \in {HeadNumber + (i - 1), Nil}
<1>1. queue \in Seq(Slot) /\ Len(queue) \in Nat \ {0}
  BY EmptySeq DEF TypeOK, Slot
<1>2. Newest \in Slot /\ Newest # Nil
  BY <1>1 DEF Newest, QueueExact
<1>3. Newest \in Packets /\ Newest \in Nat
  BY <1>2, QueueAssumption DEF Slot, Packets
<1>4. HeadNumber = Newest - Len(queue) + 1
  BY DEF HeadNumber, Newest
<1>5. /\ HeadNumber \in Nat
      /\ firstSeq = U16(HeadNumber)
      /\ \A i \in 1 .. Len(queue) : queue[i] \in {HeadNumber + (i - 1), Nil}
  BY <1>1 DEF QueueExact
<1> QED BY <1>1, <1>3, <1>4, <1>5

\* The same numbers from the outside: a list of slots that ends with packet w,
\* has the packets from b on in their places, and starts at b.
LEMMA QueueExactIntro ==
  ASSUME NEW b \in Nat, NEW w \in Nat, NEW n \in Nat \ {0},
         w = b + n - 1,
         queue' \in Seq(Slot), Len(queue') = n, queue'[n] = w,
         firstSeq' = U16(b),
         \A i \in 1 .. n : queue'[i] \in {b + (i - 1), Nil}
  PROVE  /\ queue' # <<>>
         /\ Newest' = w
         /\ HeadNumber' = b
         /\ QueueExact'
<1>1. queue' # <<>>
  OBVIOUS
<1>2. Newest' = w
  BY DEF Newest
<1>3. HeadNumber' = b
  <2>1. HeadNumber' = queue'[Len(queue')] - Len(queue') + 1
    BY <1>1 DEF HeadNumber
  <2> QED BY <2>1
<1>4. w # Nil
  BY QueueAssumption
<1> QED BY <1>1, <1>2, <1>3, <1>4 DEF QueueExact

\* A queue that gives up its first d slots and keeps the others.
LEMMA DropExact ==
  ASSUME TypeOK, QueueExact, queue # <<>>,
         NEW d \in Nat \ {0}, d < Len(queue),
         queue' \in Seq(Slot), Len(queue') = Len(queue) - d,
         \A j \in 1 .. Len(queue) - d : queue'[j] = queue[j + d],
         firstSeq' = U16(firstSeq + d)
  PROVE  /\ queue' # <<>>
         /\ Newest' = Newest
         /\ HeadNumber' = HeadNumber + d
         /\ QueueExact'
<1> DEFINE b == HeadNumber
           n == Len(queue)
           m == n - d
           c == b + d
<1>1. /\ queue \in Seq(Slot) /\ n \in Nat \ {0}
      /\ Newest \in Nat /\ b \in Nat /\ Newest = b + n - 1
      /\ firstSeq = U16(b)
      /\ \A i \in 1 .. n : queue[i] \in {b + (i - 1), Nil}
  BY QueueNumbers
<1>2. firstSeq' = U16(c)
  <2>1. U16(U16(b) + d) = U16(b + d)
    BY <1>1, U16Nest
  <2> QED BY <1>1, <2>1
<1>3. queue[n] = Newest /\ Len(queue') = m /\ d < n
      /\ \A j \in 1 .. m : queue'[j] = queue[j + d]
  BY DEF Newest
<1> HIDE DEF b, n
<1>4. m \in Nat \ {0} /\ c \in Nat /\ Newest = c + m - 1
  BY <1>1, <1>3
<1>5. queue'[m] = Newest
  <2>1. m \in 1 .. m /\ m + d = n
    BY <1>1, <1>4
  <2> QED BY <1>3, <2>1
<1>6. \A i \in 1 .. m : queue'[i] \in {c + (i - 1), Nil}
  <2> TAKE i \in 1 .. m
  <2>1. i + d \in 1 .. n /\ b + ((i + d) - 1) = c + (i - 1)
    BY <1>1, <1>4
  <2>2. queue'[i] = queue[i + d]
    BY <1>3
  <2>3. queue[i + d] \in {b + ((i + d) - 1), Nil}
    BY <1>1, <2>1
  <2> QED BY <2>1, <2>2, <2>3
<1> HIDE DEF m, c
<1>7. queue' # <<>> /\ Newest' = Newest /\ HeadNumber' = c /\ QueueExact'
  BY <1>1, <1>2, <1>3, <1>4, <1>5, <1>6, QueueExactIntro
<1> QED BY <1>7 DEF b, c

\* Dequeue from a queue of two slots or more, as far as the queue goes.
LEMMA PopHeadExact ==
  ASSUME TypeOK, QueueExact, PopHead, Len(queue) > 1
  PROVE  /\ queue # <<>> /\ queue' # <<>>
         /\ Newest' = Newest
         /\ HeadNumber' = HeadNumber + 1
         /\ Len(queue') = Len(queue) - 1
         /\ QueueExact'
<1>1. queue # <<>> /\ queue' = Tail(queue) /\ firstSeq' = U16(firstSeq + 1)
      /\ queue \in Seq(Slot)
  BY DEF PopHead, TypeOK, Slot
<1>2. /\ queue' \in Seq(Slot) /\ Len(queue') = Len(queue) - 1
      /\ \A j \in 1 .. Len(queue) - 1 : queue'[j] = queue[j + 1]
  BY <1>1, TailProperties
<1>3. 1 \in Nat \ {0} /\ 1 < Len(queue)
  BY <1>1
<1> QED BY <1>1, <1>2, <1>3, DropExact

\* Dequeue from a queue of two slots or more.
LEMMA PopHeadOrder ==
  ASSUME TypeOK, QueueExact, OutExact, PopHead, Len(queue) > 1
  PROVE  /\ queue # <<>> /\ queue' # <<>>
         /\ Newest' = Newest
         /\ HeadNumber' = HeadNumber + 1
         /\ Len(queue') = Len(queue) - 1
         /\ QueueExact'
         /\ OutExact'
<1> DEFINE b == HeadNumber
           c == b + 1
<1>1. /\ queue # <<>> /\ queue' # <<>> /\ Newest' = Newest /\ HeadNumber' = c
      /\ Len(queue') = Len(queue) - 1 /\ QueueExact'
  BY PopHeadExact
<1>2. /\ queue \in Seq(Slot) /\ Len(queue) \in Nat \ {0} /\ b \in Nat
      /\ \A i \in 1 .. Len(queue) : queue[i] \in {b + (i - 1), Nil}
  BY <1>1, QueueNumbers
<1>3. Head(queue) = queue[1]
  BY <1>1, <1>2, TailProperties
<1> HIDE DEF b, c
<1>4. OutExact'
  <2>1. out \in Seq(Slot) /\ out' = Append(out, queue[1])
    BY <1>3 DEF TypeOK, Slot, PopHead
  <2>2. queue[1] \in Slot /\ queue[1] \in {b, Nil}
    BY <1>2
  <2> DEFINE e == Len(out)
  <2>3. /\ e \in Nat /\ Len(out') = e + 1
        /\ DOMAIN out' = 1 .. e + 1
        /\ out'[e + 1] = queue[1]
        /\ \A i \in 1 .. e : out'[i] = out[i]
    BY <2>1, <2>2
  <2>4. \A i \in 1 .. e : out[i] \in {b - e + (i - 1), Nil}
    <3> TAKE i \in 1 .. e
    <3>1. out # <<>>
      BY <2>1
    <3> QED BY <2>1, <3>1 DEF OutExact, b
  <2> HIDE DEF e
  <2>5. \A i \in 1 .. e + 1 : out'[i] \in {c - (e + 1) + (i - 1), Nil}
    <3> TAKE i \in 1 .. e + 1
    <3>1. i \in Int /\ b \in Int /\ e \in Int
          /\ c - (e + 1) + (i - 1) = b - e + (i - 1)
      BY <1>2, <2>3 DEF c
    <3>2. CASE i = e + 1
      <4>1. b - e + (i - 1) = b
        BY <3>1, <3>2
      <4> QED BY <2>2, <2>3, <3>1, <3>2, <4>1
    <3>3. CASE i \in 1 .. e
      BY <2>3, <2>4, <3>1, <3>3
    <3> QED BY <2>3, <3>2, <3>3
  <2> QED BY <1>1, <2>3, <2>5 DEF OutExact
<1> QED BY <1>1, <1>4 DEF b, c

\* Enqueue into a queue that is not empty, with a packet within the reach of
\* the comparison on either side of the head: an old packet is dropped, any
\* other goes to its own slot, the head stays what it is and so does what is
\* stored.
LEMMA EnqueueExact ==
  ASSUME TypeOK, QueueExact, queue # <<>>,
         NEW p \in Packets, Enqueue(p),
         HeadNumber < p + Reach, p <= HeadNumber + Reach
  PROVE  /\ queue' # <<>>
         /\ Newest' = IF p > Newest THEN p ELSE Newest
         /\ HeadNumber' = HeadNumber
         /\ Len(queue') = Newest' - HeadNumber + 1
         /\ QueueExact'
         /\ \A j \in DOMAIN queue :
              queue[j] # Nil => j \in DOMAIN queue' /\ queue'[j] = queue[j]
<1> DEFINE b == HeadNumber
           n == Len(queue)
<1>1. /\ queue \in Seq(Slot) /\ n \in Nat \ {0}
      /\ Newest \in Nat /\ b \in Nat /\ Newest = b + n - 1
      /\ firstSeq = U16(b)
      /\ \A i \in 1 .. n : queue[i] \in {b + (i - 1), Nil}
  BY QueueNumbers
<1>2. p \in Nat /\ p # Nil /\ queue[n] = Newest
  BY QueueAssumption DEF Packets, Newest
<1>3. Reach \in Nat /\ Reach < SeqSpace /\ SeqSpace \in Nat
  BY SeqAssumption DEF Reach
<1>4. SeqOf(p) = U16(p) /\ firstSeq' = firstSeq
  BY DEF SeqOf, Enqueue
<1>5. DOMAIN queue = 1 .. n
  BY <1>1
<1>6. b < p + Reach /\ p <= b + Reach
  OBVIOUS
<1> HIDE DEF b, n
<1>7. CASE p < b
  <2> DEFINE d == b - p
  <2>1. d \in Nat /\ d <= Reach /\ 0 < d /\ d < Reach /\ p + d = b
    BY <1>1, <1>2, <1>3, <1>6, <1>7
  <2> HIDE DEF d
  <2>2. FirstBeforeSecond(U16(p), U16(b))
    BY <1>2, <2>1, CompareWithinReach
  <2>3. queue' = queue
    BY <1>1, <1>4, <2>2 DEF Enqueue, Useless
  <2>4. QueueExact' /\ HeadNumber' = b /\ queue' # <<>> /\ Newest' = Newest
    BY <1>4, <2>3 DEF QueueExact, HeadNumber, Newest, b
  <2>5. Len(queue') = Newest' - b + 1
    BY <1>1, <2>3, <2>4 DEF n
  <2>6. ~(p > Newest)
    BY <1>1, <1>2, <1>7
  <2> QED BY <2>3, <2>4, <2>5, <2>6 DEF b
<1>8. CASE p >= b
  <2> DEFINE d == p - b
             i == d + 1
             k == IF i > n THEN i ELSE n
             w == IF p > Newest THEN p ELSE Newest
  <2>1. d \in Nat /\ d <= Reach /\ d \in SeqNo /\ b + d = p
    BY <1>1, <1>2, <1>3, <1>6, <1>8 DEF SeqNo
  <2> HIDE DEF d
  <2>2. ~FirstBeforeSecond(U16(p), U16(b))
    BY <1>1, <2>1, CompareWithinReach
  <2>3. Relative(U16(p), U16(b)) = d
    BY <1>1, <2>1, RelativeAhead
  <2>4. queue' = Put(queue, i, p)
    BY <1>1, <1>2, <1>4, <2>2, <2>3 DEF Enqueue, Useless
  <2>5. i \in Nat \ {0} /\ k \in Nat \ {0} /\ w \in Nat /\ w = b + k - 1
    BY <1>1, <1>2, <2>1
  <2> DEFINE t == Put(queue, i, p)
  <2>6. /\ t \in Seq(Slot)
        /\ Len(t) = k
        /\ \A j \in 1 .. k : t[j] = IF j = i THEN p
                                    ELSE IF j <= n THEN queue[j] ELSE Nil
    <3>1. queue \in Seq(Slot) /\ i \in Nat \ {0}
      BY <1>1, <2>5
    <3> HIDE DEF i
    <3>2. IsPut(t, queue, i, p)
      BY <3>1, PutProperties
    <3> HIDE DEF t
    <3> QED BY <3>2 DEF n, IsPut
  <2>7. t[k] = w
    BY <1>1, <1>2, <2>1, <2>5, <2>6
  <2>8. \A j \in 1 .. k : t[j] \in {b + (j - 1), Nil}
    <3> TAKE j \in 1 .. k
    <3>1. CASE j = i
      <4>1. t[j] = p /\ b + (j - 1) = p
        BY <1>1, <1>2, <2>1, <2>6, <3>1
      <4> QED BY <4>1
    <3>2. CASE j # i /\ j <= n
      BY <1>1, <2>5, <2>6, <3>2
    <3>3. CASE j # i /\ ~(j <= n)
      BY <2>6, <3>3
    <3> QED BY <3>1, <3>2, <3>3
  <2>9. queue' = t
    BY <2>4
  <2>10. firstSeq' = U16(b)
    BY <1>1, <1>4
  <2>a. ASSUME NEW j \in DOMAIN queue, queue[j] # Nil
        PROVE  j \in DOMAIN queue' /\ queue'[j] = queue[j]
    <3>1. j \in 1 .. n /\ j \in 1 .. k /\ queue[j] = b + (j - 1)
      BY <1>1, <1>5, <2>5, <2>a
    <3>2. DOMAIN t = 1 .. k
      <4> HIDE DEF t, k
      <4> QED BY <2>6, <2>5
    <3>3. CASE j = i
      <4>1. t[j] = p /\ b + (j - 1) = p
        BY <1>1, <1>2, <2>1, <2>6, <3>1, <3>3
      <4> QED BY <2>9, <3>1, <3>2, <4>1
    <3>4. CASE j # i
      <4>1. t[j] = queue[j]
        BY <1>1, <2>6, <3>1, <3>4
      <4> QED BY <2>9, <3>1, <3>2, <4>1
    <3> QED BY <3>3, <3>4
  <2> HIDE DEF t, k, i, w
  <2>11. queue' # <<>> /\ Newest' = w /\ HeadNumber' = b /\ QueueExact'
    BY <1>1, <2>5, <2>6, <2>7, <2>8, <2>9, <2>10, QueueExactIntro
  <2>12. Len(queue') = Newest' - b + 1
    BY <1>1, <2>5, <2>6, <2>9, <2>11
  <2> QED BY <2>11, <2>12, <2>a DEF b, w
<1> QED BY <1>1, <1>2, <1>7, <1>8

\* An empty queue restarts at the packet.
LEMMA EnqueueEmpty ==
  ASSUME TypeOK, queue = <<>>, NEW p \in Packets, Enqueue(p)
  PROVE  /\ queue' # <<>>
         /\ Newest' = p
         /\ Len(queue') = 1
         /\ QueueExact'
<1>1. p \in Nat /\ p # Nil
  BY QueueAssumption DEF Packets
<1>2. ~Useless(p) /\ firstSeq' = U16(p)
  BY <1>1 DEF Useless, Enqueue, SeqOf
<1>3. U16(p + 0) = U16(p) /\ 0 \in SeqNo
  BY <1>1, SeqAssumption DEF SeqNo
<1>4. Relative(U16(p), U16(p)) = 0
  BY <1>1, <1>3, RelativeAhead
<1>5. queue' = Put(queue, 1, p)
  BY <1>2, <1>4 DEF Enqueue, SeqOf
<1>6. queue \in Seq(Slot) /\ Len(queue) = 0
  OBVIOUS
<1>7. /\ queue' \in Seq(Slot) /\ Len(queue') = 1
      /\ queue'[1] = p
  <2> DEFINE i == 1
             t == Put(queue, i, p)
  <2>1. i \in Nat \ {0} /\ queue' = t
    BY <1>5
  <2> HIDE DEF i
  <2>2. IsPut(t, queue, i, p)
    BY <1>6, <2>1, PutProperties
  <2> HIDE DEF t
  <2> QED BY <1>6, <2>1, <2>2 DEF i, IsPut
<1>8. \A j \in 1 .. 1 : queue'[j] \in {p + (j - 1), Nil}
  BY <1>1, <1>7
<1>9. p = p + 1 - 1
  BY <1>1
<1>10. queue' # <<>> /\ Newest' = p /\ QueueExact'
  BY <1>1, <1>2, <1>7, <1>8, <1>9, QueueExactIntro
<1> QED BY <1>7, <1>10

\* The same with what was played before.
LEMMA EnqueueOrder ==
  ASSUME TypeOK, QueueExact, OutExact, queue # <<>>,
         NEW p \in Packets, Enqueue(p), UNCHANGED out,
         HeadNumber < p + Reach, p <= HeadNumber + Reach
  PROVE  /\ queue' # <<>>
         /\ Newest' = IF p > Newest THEN p ELSE Newest
         /\ HeadNumber' = HeadNumber
         /\ Len(queue') = Newest' - HeadNumber + 1
         /\ QueueExact'
         /\ OutExact'
<1>1. /\ queue' # <<>>
      /\ Newest' = IF p > Newest THEN p ELSE Newest
      /\ HeadNumber' = HeadNumber
      /\ Len(queue') = Newest' - HeadNumber + 1
      /\ QueueExact'
  BY EnqueueExact
<1>2. OutExact'
  BY <1>1 DEF OutExact
<1> QED BY <1>1, <1>2

\* A step that keeps the newest packet, InChan and next keeps what relates them.
LEMMA FrontierKept ==
  ASSUME ChanInReach, NextIsFrontier, UNCHANGED <<inChan, next>>,
         queue # <<>>, queue' # <<>>, Newest' = Newest
  PROVE  ChanInReach' /\ NextIsFrontier'
<1>1. inChan' = inChan /\ next' = next
  OBVIOUS
<1>2. ChanInReach'
  BY <1>1 DEF ChanInReach
<1>3. NextIsFrontier'
  BY <1>1 DEF NextIsFrontier
<1> QED BY <1>2, <1>3

\* A packet that arrives is within the reach of all that came before it.
LEMMA ArriveOrder ==
  ASSUME TypeOK, OrderInv, NEW p \in Packets, Arrive(p)
  PROVE  OrderInv'
<1>1. /\ queue' = queue /\ firstSeq' = firstSeq /\ pc' = pc /\ out' = out
      /\ lostSeq' = lostSeq
  BY DEF Arrive
<1>2. QueueExact' /\ OutExact' /\ LengthAtPc' /\ Newest' = Newest
  BY <1>1 DEF OrderInv, QueueExact, OutExact, LengthAtPc, HeadNumber, Newest
<1> DEFINE n == Len(inChan)
<1>3. inChan \in Seq(Packets) /\ inChan' = Append(inChan, p) /\ n \in Nat
  BY DEF TypeOK, Arrive
<1>4. /\ Len(inChan') = n + 1
      /\ DOMAIN inChan = 1 .. n
      /\ DOMAIN inChan' = 1 .. n + 1
      /\ inChan'[n + 1] = p
      /\ \A k \in 1 .. n : inChan'[k] = inChan[k]
  BY <1>3
<1>5. /\ p \in Nat /\ next \in Nat /\ FirstPacket <= p /\ FirstPacket \in Nat
      /\ MaxSkip \in Nat /\ MaxDelay \in Nat
      /\ \A k \in 1 .. n : inChan[k] \in Nat
  BY <1>3, QueueAssumption DEF TypeOK, Packets
<1>6. /\ p <= next + MaxSkip
      /\ next <= p + MaxDelay
      /\ next' = IF p < next THEN next ELSE p + 1
  BY DEF Arrive
<1>7. queue # <<>> => Newest \in Nat
  BY QueueNumbers DEF OrderInv
<1>8. /\ queue # <<>> => Newest < next
      /\ \A k \in 1 .. n : inChan[k] < next
      /\ \/ queue = <<>> /\ n = 0 /\ next = FirstPacket
         \/ queue # <<>> /\ next = Newest + 1
         \/ \E k \in 1 .. n : next = inChan[k] + 1
  BY <1>4 DEF OrderInv, NextIsFrontier
<1>9. ChanInReach'
  <2> SUFFICES ASSUME NEW k \in 1 .. n + 1
               PROVE  /\ queue # <<>> => Newest < inChan'[k] + MaxDelay
                      /\ \A j \in 1 .. k - 1 : inChan'[j] < inChan'[k] + MaxDelay
                      /\ \/ queue = <<>> /\ k = 1
                         \/ queue # <<>> /\ inChan'[k] <= Newest + 1 + MaxSkip
                         \/ \E j \in 1 .. k - 1 :
                              inChan'[k] <= inChan'[j] + 1 + MaxSkip
    BY <1>1, <1>2, <1>4 DEF ChanInReach
  <2>1. CASE k = n + 1
    <3>1. inChan'[k] = p /\ \A j \in 1 .. k - 1 : inChan'[j] = inChan[j]
      BY <1>3, <1>4, <2>1
    <3>2. \A j \in 1 .. k - 1 : inChan[j] < p + MaxDelay
      BY <1>3, <1>5, <1>6, <1>8, <2>1
    <3>3. queue # <<>> => Newest < p + MaxDelay
      BY <1>5, <1>6, <1>7, <1>8
    <3>4. \/ queue = <<>> /\ k = 1
          \/ queue # <<>> /\ p <= Newest + 1 + MaxSkip
          \/ \E j \in 1 .. k - 1 : p <= inChan[j] + 1 + MaxSkip
      <4>1. CASE queue = <<>> /\ n = 0
        BY <2>1, <4>1
      <4>2. CASE queue # <<>> /\ next = Newest + 1
        BY <1>5, <1>6, <1>7, <4>2
      <4>3. ASSUME NEW j \in 1 .. n, next = inChan[j] + 1
            PROVE  \E h \in 1 .. k - 1 : p <= inChan[h] + 1 + MaxSkip
        BY <1>3, <1>5, <1>6, <2>1, <4>3
      <4> QED BY <1>8, <4>1, <4>2, <4>3
    <3> QED BY <3>1, <3>2, <3>3, <3>4
  <2>2. CASE k \in 1 .. n
    <3>1. inChan'[k] = inChan[k] /\ \A j \in 1 .. k - 1 : inChan'[j] = inChan[j]
      BY <1>3, <1>4, <2>2
    <3> QED BY <1>4, <2>2, <3>1 DEF OrderInv, ChanInReach
  <2> QED BY <1>3, <2>1, <2>2
<1>10. NextIsFrontier'
  <2>1. next <= next' /\ p < next' /\ next' \in Nat
    BY <1>5, <1>6
  <2>2. queue # <<>> => Newest < next'
    BY <1>5, <1>7, <1>8, <2>1
  <2>3. \A k \in 1 .. n + 1 : inChan'[k] < next'
    BY <1>3, <1>4, <1>5, <1>8, <2>1
  <2>4. \/ queue # <<>> /\ next' = Newest + 1
        \/ \E k \in 1 .. n + 1 : next' = inChan'[k] + 1
    <3>1. CASE p < next
      BY <1>3, <1>4, <1>5, <1>6, <1>8, <3>1
    <3>2. CASE ~(p < next)
      BY <1>3, <1>4, <1>6, <3>2
    <3> QED BY <3>1, <3>2
  <2> QED BY <1>1, <1>2, <1>4, <2>2, <2>3, <2>4 DEF NextIsFrontier
<1> QED BY <1>2, <1>9, <1>10 DEF OrderInv

\* The packet RecvPacket takes from InChan restarts an empty queue, or is
\* within the reach of the comparison and becomes the newest if it is newer.
LEMMA RecvNewest ==
  ASSUME TypeOK, OrderInv, Recv
  PROVE  /\ QueueExact'
         /\ OutExact'
         /\ queue' # <<>>
         /\ Newest' = IF queue # <<>> /\ inChan[1] <= Newest
                      THEN Newest ELSE inChan[1]
         /\ queue # <<>> => HeadNumber' = HeadNumber
         /\ Len(queue') <= PaddingWindowSize + MaxSkip + 1
<1> DEFINE p == inChan[1]
<1>1. /\ inChan \in Seq(Packets) /\ inChan # <<>> /\ pc = "recv"
      /\ out' = out
  BY DEF TypeOK, Recv
<1>2. p \in Packets /\ Len(inChan) \in Nat \ {0} /\ Enqueue(p)
  BY <1>1, TailProperties DEF Recv
<1>3. p \in Nat /\ p # Nil
  BY <1>2, QueueAssumption DEF Packets
<1>4. PaddingWindowSize \in Nat \ {0} /\ MaxSkip \in Nat /\ MaxDelay \in Nat
  BY QueueAssumption
<1> HIDE DEF p
<1>5. CASE queue = <<>>
  <2>1. out = <<>>
    BY <1>5 DEF OrderInv, OutExact
  <2>2. queue' # <<>> /\ Newest' = p /\ Len(queue') = 1 /\ QueueExact'
    BY <1>2, <1>5, EnqueueEmpty
  <2>3. OutExact'
    BY <1>1, <2>1 DEF OutExact
  <2> QED BY <1>4, <1>5, <2>2, <2>3 DEF p
<1>6. CASE queue # <<>>
  <2>1. QueueExact /\ OutExact
    BY DEF OrderInv
  <2>2. /\ Newest \in Nat /\ HeadNumber \in Nat /\ Len(queue) \in Nat \ {0}
        /\ HeadNumber = Newest - Len(queue) + 1
    BY <1>6, <2>1, QueueNumbers
  <2>3. Newest < p + MaxDelay /\ p <= Newest + 1 + MaxSkip
    <3>1. 1 \in DOMAIN inChan /\ 1 .. 1 - 1 = {}
      BY <1>1, <1>2
    <3> QED BY <1>6, <3>1 DEF OrderInv, ChanInReach, p
  <2>4. Len(queue) <= PaddingWindowSize
    BY <1>1 DEF OrderInv, LengthAtPc
  <2>5. MaxDelay < Reach /\ PaddingWindowSize + MaxSkip <= Reach
        /\ Reach \in Nat
    BY NetworkAssumption, SeqAssumption DEF Reach
  <2>6. HeadNumber < p + Reach /\ p <= HeadNumber + Reach
    BY <1>3, <1>4, <2>2, <2>3, <2>4, <2>5
  <2>7. /\ queue' # <<>>
        /\ Newest' = IF p > Newest THEN p ELSE Newest
        /\ HeadNumber' = HeadNumber
        /\ Len(queue') = Newest' - HeadNumber + 1
        /\ QueueExact' /\ OutExact'
    BY <1>1, <1>2, <1>6, <2>1, <2>6, EnqueueOrder
  <2>8. Len(queue') <= PaddingWindowSize + MaxSkip + 1
    BY <1>3, <1>4, <2>2, <2>3, <2>4, <2>7
  <2>9. Newest' = IF p <= Newest THEN Newest ELSE p
    BY <1>3, <2>2, <2>7
  <2> QED BY <1>6, <2>7, <2>8, <2>9 DEF p
<1> QED BY <1>5, <1>6

\* Taking a packet from InChan keeps the order of the rest.
LEMMA RecvOrder ==
  ASSUME TypeOK, OrderInv, Recv
  PROVE  OrderInv'
<1> DEFINE p == inChan[1]
           n == Len(inChan)
           v == Newest'
<1>1. /\ QueueExact' /\ OutExact' /\ queue' # <<>>
      /\ v = IF queue # <<>> /\ p <= Newest THEN Newest ELSE p
      /\ Len(queue') <= PaddingWindowSize + MaxSkip + 1
  BY RecvNewest
<1>2. /\ inChan \in Seq(Packets) /\ inChan # <<>> /\ pc' = "drain"
      /\ inChan' = Tail(inChan) /\ next' = next
  BY DEF TypeOK, Recv
<1>3. /\ n \in Nat \ {0}
      /\ Len(inChan') = n - 1
      /\ DOMAIN inChan = 1 .. n
      /\ DOMAIN inChan' = 1 .. n - 1
      /\ \A k \in 1 .. n - 1 : inChan'[k] = inChan[k + 1]
  BY <1>2, TailProperties
<1>4. \A k \in 1 .. n : inChan[k] \in Nat
  BY <1>2, QueueAssumption DEF Packets
<1>5. queue # <<>> => Newest \in Nat
  BY QueueNumbers DEF OrderInv
<1>6. p \in Nat /\ v \in Nat /\ MaxDelay \in Nat /\ MaxSkip \in Nat
      /\ next \in Nat
  BY <1>1, <1>3, <1>4, <1>5, QueueAssumption DEF TypeOK
<1>7. \A k \in 1 .. n :
        /\ queue # <<>> => Newest < inChan[k] + MaxDelay
        /\ \A j \in 1 .. k - 1 : inChan[j] < inChan[k] + MaxDelay
        /\ \/ queue = <<>> /\ k = 1
           \/ queue # <<>> /\ inChan[k] <= Newest + 1 + MaxSkip
           \/ \E j \in 1 .. k - 1 : inChan[k] <= inChan[j] + 1 + MaxSkip
  BY <1>3 DEF OrderInv, ChanInReach
<1>8. /\ queue # <<>> => Newest < next
      /\ \A k \in 1 .. n : inChan[k] < next
      /\ \/ queue # <<>> /\ next = Newest + 1
         \/ \E k \in 1 .. n : next = inChan[k] + 1
  BY <1>2, <1>3 DEF OrderInv, NextIsFrontier
<1>9. p <= v /\ (queue # <<>> => Newest <= v)
  BY <1>1, <1>5, <1>6
<1>10. v = p \/ (queue # <<>> /\ v = Newest)
  BY <1>1
<1>11. queue = <<>> => v = p
  BY <1>1
<1> HIDE DEF p, v, n
<1>12. ChanInReach'
  <2> SUFFICES ASSUME NEW k \in 1 .. n - 1
               PROVE  /\ v < inChan'[k] + MaxDelay
                      /\ \A j \in 1 .. k - 1 : inChan'[j] < inChan'[k] + MaxDelay
                      /\ \/ inChan'[k] <= v + 1 + MaxSkip
                         \/ \E j \in 1 .. k - 1 :
                              inChan'[k] <= inChan'[j] + 1 + MaxSkip
    BY <1>1, <1>3 DEF ChanInReach, v
  <2>1. k + 1 \in 1 .. n /\ inChan'[k] = inChan[k + 1] /\ inChan'[k] \in Nat
        /\ k \in Nat \ {0}
    BY <1>3, <1>4
  <2>2. \A j \in 1 .. k - 1 : inChan'[j] = inChan[j + 1] /\ j + 1 \in 1 .. k
    BY <1>3, <2>1
  <2>3. v < inChan'[k] + MaxDelay
    <3>1. p < inChan[k + 1] + MaxDelay
      <4>1. 1 \in 1 .. (k + 1) - 1
        BY <2>1
      <4> QED BY <1>7, <2>1, <4>1 DEF p
    <3>2. queue # <<>> => Newest < inChan[k + 1] + MaxDelay
      BY <1>7, <2>1
    <3> QED BY <1>10, <2>1, <3>1, <3>2
  <2>4. \A j \in 1 .. k - 1 : inChan'[j] < inChan'[k] + MaxDelay
    <3> TAKE j \in 1 .. k - 1
    <3>1. j + 1 \in 1 .. (k + 1) - 1
      BY <2>1
    <3> QED BY <1>7, <2>1, <2>2, <3>1
  <2>5. \/ inChan'[k] <= v + 1 + MaxSkip
        \/ \E j \in 1 .. k - 1 : inChan'[k] <= inChan'[j] + 1 + MaxSkip
    <3>1. CASE queue # <<>> /\ inChan[k + 1] <= Newest + 1 + MaxSkip
      BY <1>5, <1>6, <1>9, <2>1, <3>1
    <3>2. ASSUME NEW j \in 1 .. (k + 1) - 1,
                 inChan[k + 1] <= inChan[j] + 1 + MaxSkip
          PROVE  <2>5
      <4>1. CASE j = 1
        BY <1>6, <1>9, <2>1, <3>2, <4>1 DEF p
      <4>2. CASE j # 1
        <5> DEFINE h == j - 1
        <5>1. h \in 1 .. k - 1 /\ h + 1 = j
          BY <2>1, <4>2
        <5>2. inChan'[h] = inChan[j]
          BY <2>2, <5>1
        <5> HIDE DEF h
        <5> QED BY <2>1, <3>2, <5>1, <5>2
      <4> QED BY <4>1, <4>2
    <3>3. k + 1 # 1
      BY <2>1
    <3> QED BY <1>7, <2>1, <3>1, <3>2, <3>3
  <2> QED BY <2>3, <2>4, <2>5
<1>13. NextIsFrontier'
  <2>1. v < next
    <3>1. p < next
      BY <1>3, <1>8 DEF p
    <3> QED BY <1>8, <1>10, <3>1
  <2>2. \A k \in 1 .. n - 1 : inChan'[k] < next
    <3> TAKE k \in 1 .. n - 1
    <3>1. k + 1 \in 1 .. n /\ inChan'[k] = inChan[k + 1]
      BY <1>3
    <3> QED BY <1>8, <3>1
  <2>3. \/ next = v + 1
        \/ \E k \in 1 .. n - 1 : next = inChan'[k] + 1
    <3>1. CASE queue # <<>> /\ next = Newest + 1
      BY <1>5, <1>6, <1>9, <2>1, <3>1
    <3>2. ASSUME NEW k \in 1 .. n, next = inChan[k] + 1
          PROVE  <2>3
      <4>1. CASE k = 1
        BY <1>6, <1>9, <2>1, <3>2, <4>1 DEF p
      <4>2. CASE k # 1
        <5> DEFINE h == k - 1
        <5>1. h \in 1 .. n - 1 /\ h + 1 = k
          BY <1>3, <4>2
        <5> HIDE DEF h
        <5>2. inChan'[h] = inChan[k]
          BY <1>3, <5>1
        <5> QED BY <3>2, <5>1, <5>2
      <4> QED BY <4>1, <4>2
    <3> QED BY <1>8, <3>1, <3>2
  <2> QED BY <1>1, <1>2, <1>3, <2>1, <2>2, <2>3 DEF NextIsFrontier, v
<1>14. LengthAtPc'
  BY <1>1, <1>2 DEF LengthAtPc
<1> QED BY <1>1, <1>12, <1>13, <1>14 DEF OrderInv

\* The packet a QUIC request brings is the missing head itself.
LEMMA QuicReplyOrder ==
  ASSUME TypeOK, OrderInv, HeadExists, QuicReply
  PROVE  /\ OrderInv'
         /\ queue' # <<>>
         /\ HeadNumber' = HeadNumber
<1>1. /\ pc = "quic" /\ queue # <<>> /\ UNCHANGED <<inChan, next>>
      /\ out' = out /\ pc' = "take"
  BY DEF QuicReply, HeadExists
<1>2. QueueExact /\ OutExact /\ ChanInReach /\ NextIsFrontier /\ LengthAtPc
  BY DEF OrderInv
<1>3. /\ Newest \in Nat /\ HeadNumber \in Nat /\ Len(queue) \in Nat \ {0}
      /\ HeadNumber = Newest - Len(queue) + 1
      /\ firstSeq = U16(HeadNumber)
  BY <1>1, <1>2, QueueNumbers
<1>4. PICK p \in Replies : Enqueue(p)
  BY DEF QuicReply
<1>5. CASE p = Nil
  <2>1. queue' = queue /\ firstSeq' = firstSeq
    BY <1>4, <1>5 DEF Enqueue, Useless
  <2>2. /\ QueueExact' /\ OutExact' /\ Newest' = Newest /\ LengthAtPc'
        /\ queue' # <<>> /\ HeadNumber' = HeadNumber
    BY <1>1, <1>2, <2>1
       DEF QueueExact, OutExact, HeadNumber, Newest, LengthAtPc
  <2>3. ChanInReach' /\ NextIsFrontier'
    BY <1>1, <1>2, <2>1, <2>2, FrontierKept
  <2> QED BY <2>2, <2>3 DEF OrderInv
<1>6. CASE p # Nil
  <2>1. /\ p \in Packets /\ p \in Nat /\ U16(p) = lostSeq
        /\ p <= Newest /\ Newest < p + SeqSpace
    BY <1>6, QueueAssumption DEF Replies, SeqOf, Newest, Packets
  <2>2. /\ lostSeq = firstSeq
        /\ Len(queue) > PaddingWindowSize
        /\ Len(queue) <= PaddingWindowSize + MaxSkip + 1
    BY <1>1, <1>2 DEF LengthAtPc
  <2>3. /\ PaddingWindowSize + MaxSkip <= Reach /\ Reach \in Nat \ {0}
        /\ Reach < SeqSpace /\ SeqSpace \in Nat
        /\ PaddingWindowSize \in Nat /\ MaxSkip \in Nat
    BY NetworkAssumption, QueueAssumption, SeqAssumption DEF Reach
  <2>4. Newest < HeadNumber + SeqSpace /\ HeadNumber <= Newest
    BY <1>3, <2>2, <2>3
  <2>5. p < HeadNumber + SeqSpace /\ HeadNumber < p + SeqSpace
    BY <1>3, <2>1, <2>3, <2>4
  <2>6. p = HeadNumber
    BY <1>3, <2>1, <2>2, <2>5, U16Injective
  <2>7. HeadNumber < p + Reach /\ p <= HeadNumber + Reach
    BY <2>1, <2>3, <2>6
  <2>8. /\ queue' # <<>>
        /\ Newest' = IF p > Newest THEN p ELSE Newest
        /\ HeadNumber' = HeadNumber
        /\ Len(queue') = Newest' - HeadNumber + 1
        /\ QueueExact' /\ OutExact'
    BY <1>1, <1>2, <1>4, <2>1, <2>7, EnqueueOrder
  <2>9. Newest' = Newest /\ Len(queue') = Len(queue)
    BY <1>3, <2>1, <2>8
  <2>10. ChanInReach' /\ NextIsFrontier'
    BY <1>1, <1>2, <2>8, <2>9, FrontierKept
  <2>11. LengthAtPc'
    BY <1>1, <2>2, <2>9 DEF LengthAtPc
  <2> QED BY <2>8, <2>10, <2>11 DEF OrderInv
<1> QED BY <1>5, <1>6

\* A Dequeue step that keeps InChan and leaves a queue of admissible length.
LEMMA PopStepOrder ==
  ASSUME TypeOK, OrderInv, PopHead, Len(queue) > 1,
         UNCHANGED <<next, inChan>>,
         pc' \in {"drain", "play"},
         pc' = "play" => pc = "play"
  PROVE  OrderInv'
<1>1. QueueExact /\ OutExact /\ ChanInReach /\ NextIsFrontier /\ LengthAtPc
  BY DEF OrderInv
<1>2. /\ queue # <<>> /\ queue' # <<>> /\ Newest' = Newest
      /\ Len(queue') = Len(queue) - 1
      /\ QueueExact' /\ OutExact'
  BY <1>1, PopHeadOrder
<1>3. ChanInReach' /\ NextIsFrontier'
  BY <1>1, <1>2, FrontierKept
<1>4. LengthAtPc'
  <2>1. /\ Len(queue) \in Nat /\ PaddingWindowSize \in Nat /\ MaxSkip \in Nat
        /\ Len(queue) <= PaddingWindowSize + MaxSkip + 1
        /\ pc = "play" => Len(queue) <= PaddingWindowSize
    BY <1>1, QueueAssumption DEF LengthAtPc, TypeOK
  <2>2. Len(queue') <= PaddingWindowSize + MaxSkip + 1
    BY <1>2, <2>1
  <2>3. pc' = "play" => Len(queue') <= PaddingWindowSize
    BY <1>2, <2>1
  <2> QED BY <2>2, <2>3 DEF LengthAtPc
<1> QED BY <1>2, <1>3, <1>4 DEF OrderInv

\* A step that moves only the goroutine on.
LEMMA MoveOrder ==
  ASSUME OrderInv, LengthAtPc', UNCHANGED <<next, inChan, queue, firstSeq, out>>
  PROVE  OrderInv'
BY DEF OrderInv, QueueExact, OutExact, ChanInReach, NextIsFrontier,
       HeadNumber, Newest

\* Without protect mode every step keeps OrderInv.
LEMMA NextOrderInv ==
  ASSUME Protect = FALSE
  PROVE  TypeOK /\ QueueInv /\ OrderInv /\ [Next]_vars => OrderInv'
<1> SUFFICES ASSUME TypeOK, QueueInv, OrderInv, [Next]_vars PROVE OrderInv'
  OBVIOUS
<1>0. /\ PaddingWindowSize \in Nat \ {0} /\ Len(queue) \in Nat
      /\ LengthAtPc /\ HeadExists
  BY QueueAssumption DEF TypeOK, OrderInv, QueueInv
<1>1. ASSUME NEW p \in Packets, Arrive(p) PROVE OrderInv'
  BY <1>1, ArriveOrder
<1>2. CASE Recv
  BY <1>2, RecvOrder
<1>3. CASE DrainPop
  <2>1. Len(queue) > 1 /\ PopHead /\ UNCHANGED <<next, inChan>> /\ pc' = "drain"
    BY <1>0, <1>3 DEF DrainPop
  <2> QED BY <2>1, PopStepOrder
<1>4. CASE RequestLost
  <2>1. LengthAtPc'
    BY <1>0, <1>4 DEF RequestLost, HeadLost, LengthAtPc
  <2> QED BY <1>4, <2>1, MoveOrder DEF RequestLost
<1>5. CASE RequestReshaped
  BY <1>5 DEF RequestReshaped, Congested
<1>6. CASE ReshapeBufferError
  BY <1>6 DEF ReshapeBufferError, Congested
<1>7. CASE QuicReply
  BY <1>0, <1>7, QuicReplyOrder
<1>8. CASE TakeHead
  <2>1. Len(queue) > PaddingWindowSize
    BY <1>0, <1>8 DEF TakeHead, LengthAtPc
  <2>2. Len(queue) > 1 /\ PopHead /\ UNCHANGED <<next, inChan>> /\ pc' = "drain"
    BY <1>0, <1>8, <2>1 DEF TakeHead
  <2> QED BY <2>2, PopStepOrder
<1>9. CASE DrainDone
  <2>1. LengthAtPc'
    BY <1>0, <1>9 DEF DrainDone, LengthAtPc
  <2> QED BY <1>9, <2>1, MoveOrder DEF DrainDone
<1>10. CASE PlayPop
  <2>1. Len(queue) > 1 /\ PopHead /\ UNCHANGED <<next, inChan>>
        /\ pc' = "play" /\ pc = "play"
    BY <1>10 DEF PlayPop
  <2> QED BY <2>1, PopStepOrder
<1>11. CASE PlayDone
  <2>1. LengthAtPc'
    BY <1>0, <1>11 DEF PlayDone, LengthAtPc
  <2> QED BY <1>11, <2>1, MoveOrder DEF PlayDone
<1>12. CASE UNCHANGED vars
  <2>1. LengthAtPc'
    BY <1>0, <1>12 DEF vars, LengthAtPc
  <2> QED BY <1>12, <2>1, MoveOrder DEF vars
<1> QED BY <1>1, <1>2, <1>3, <1>4, <1>5, <1>6, <1>7, <1>8, <1>9, <1>10,
           <1>11, <1>12 DEF Next, RecvPacket

\* The invariants hold initially.
LEMMA InitOrderInv == Init => TypeOK /\ QueueInv /\ OrderInv
<1> SUFFICES ASSUME Init PROVE TypeOK /\ QueueInv /\ OrderInv
  OBVIOUS
<1>1. /\ queue = <<>> /\ inChan = <<>> /\ out = <<>> /\ pc = "recv"
      /\ next = FirstPacket /\ Len(<<>>) = 0 /\ DOMAIN inChan = {}
  BY DEF Init
<1>2. QueueInv
  BY <1>1 DEF QueueInv, SlotsInPlace, LastPresent, HeadExists
<1>3. QueueExact /\ OutExact /\ ChanInReach /\ NextIsFrontier
  BY <1>1 DEF QueueExact, OutExact, ChanInReach, NextIsFrontier
<1>4. LengthAtPc
  BY <1>1, QueueAssumption DEF LengthAtPc
<1> QED BY <1>2, <1>3, <1>4, InitType DEF OrderInv

\* Without protect mode OrderInv holds throughout.
LEMMA OrderInvariant ==
  ASSUME Protect = FALSE
  PROVE  Spec => [](TypeOK /\ OrderInv)
<1>1. Init => TypeOK /\ QueueInv /\ OrderInv
  BY InitOrderInv
<1>2. TypeOK /\ QueueInv /\ OrderInv /\ [Next]_vars
        => (TypeOK /\ QueueInv /\ OrderInv)'
  BY NextType, NextQueueInv, NextOrderInv
<1> QED BY <1>1, <1>2, PTL DEF Spec

\* Without protect mode extractFlv gets the packets in the order the cloud
\* numbered them, each once, and every missing one as nil in its place, as
\* long as the network's disorder stays within the reach of FirstBeforeSecond.
THEOREM GapsAreReported ==
  ASSUME Protect = FALSE
  PROVE  Spec => []GapsReported
<1>1. TypeOK /\ OrderInv => GapsReported
  <2> SUFFICES ASSUME TypeOK, OrderInv,
                      NEW i \in 1 .. Len(out), NEW j \in 1 .. Len(out),
                      i < j, out[i] # Nil, out[j] # Nil
               PROVE  out[j] - out[i] = j - i
    BY DEF GapsReported, TypeOK
  <2> DEFINE b == HeadNumber
             e == Len(out)
  <2>1. out \in Seq(Slot) /\ e \in Nat /\ out # <<>>
    BY DEF TypeOK, Slot
  <2>2. /\ queue # <<>>
        /\ out[i] \in {b - e + (i - 1), Nil}
        /\ out[j] \in {b - e + (j - 1), Nil}
    BY <2>1 DEF OrderInv, OutExact
  <2>3. b \in Nat
    BY <2>2 DEF OrderInv, QueueExact
  <2> HIDE DEF b, e
  <2>4. out[i] = b - e + (i - 1) /\ out[j] = b - e + (j - 1)
    BY <2>2
  <2>5. i \in Int /\ j \in Int
    BY <2>1 DEF e
  <2> QED BY <2>1, <2>3, <2>4, <2>5
<1> QED BY <1>1, OrderInvariant, PTL

\* Without protect mode the queue is never emptied once packets were played.
THEOREM OnePacketIsKept ==
  ASSUME Protect = FALSE
  PROVE  Spec => []KeepsOnePacket
<1>1. OrderInv => KeepsOnePacket
  BY DEF OrderInv, OutExact, KeepsOnePacket
<1> QED BY <1>1, OrderInvariant, PTL

-----------------------------------------------------------------------------
(* The queue with and without protect mode.  A reshape can leave a queue of    *)
(* one packet, which the next Dequeue empties; the packet that restarts the    *)
(* queue may be a late one.  Distances stay within the reach of the comparison *)
(* when the window and all of the network's disorder together do.              *)

\* The distances.
LEMMA SpanType ==
  /\ PaddingWindowSize \in Nat \ {0} /\ MaxSkip \in Nat /\ MaxDelay \in Nat
  /\ Span \in Nat /\ Span = PaddingWindowSize + MaxSkip + MaxDelay
  /\ Reach \in Nat /\ SeqSpace \in Nat /\ Reach < SeqSpace
  BY QueueAssumption, SeqAssumption DEF Span, Reach

\* A step that leaves InChan and the newest packet alone, or empties the queue.
LEMMA WaitingKept ==
  ASSUME NEW f, NotFarBehind(f), Waiting(f), UNCHANGED <<inChan, next>>,
         queue # <<>>, queue' # <<>> => Newest' = Newest
  PROVE  NotFarBehind(f)' /\ Waiting(f)'
<1>1. inChan' = inChan /\ next' = next
  OBVIOUS
<1>2. NotFarBehind(f)'
  BY DEF NotFarBehind
<1>3. Waiting(f)'
  BY <1>1 DEF Waiting
<1> QED BY <1>2, <1>3

\* A packet that arrives is within the disorder of all that came before it.
LEMMA SpanArrive ==
  ASSUME TypeOK, SpanInv, NEW p \in Packets, Arrive(p)
  PROVE  SpanInv'
<1>1. /\ queue' = queue /\ firstSeq' = firstSeq /\ pc' = pc /\ lostSeq' = lostSeq
  BY DEF Arrive
<1>2. PICK f \in 0 .. next : NotFarBehind(f) /\ Waiting(f)
  BY DEF SpanInv
<1> DEFINE n == Len(inChan)
<1>3. inChan \in Seq(Packets) /\ inChan' = Append(inChan, p) /\ n \in Nat
  BY DEF TypeOK, Arrive
<1>4. /\ DOMAIN inChan = 1 .. n
      /\ DOMAIN inChan' = 1 .. n + 1
      /\ inChan'[n + 1] = p
      /\ \A k \in 1 .. n : inChan'[k] = inChan[k]
  BY <1>3
<1>5. /\ p \in Nat /\ next \in Nat /\ f \in Nat /\ f <= next
      /\ MaxSkip \in Nat /\ MaxDelay \in Nat
      /\ \A k \in 1 .. n : inChan[k] \in Nat
  BY <1>3, QueueAssumption DEF TypeOK, Packets
<1>6. /\ p <= next + MaxSkip
      /\ next <= p + MaxDelay
      /\ next' = IF p < next THEN next ELSE p + 1
  BY DEF Arrive
<1>7. /\ \A k \in 1 .. n : /\ f <= inChan[k] + MaxDelay
                           /\ inChan[k] < next
                           /\ \A j \in 1 .. k - 1 : inChan[j] < inChan[k] + MaxDelay
                           /\ \/ inChan[k] <= f + MaxSkip
                              \/ \E j \in 1 .. k - 1 : inChan[k] <= inChan[j] + 1 + MaxSkip
      /\ next = f \/ \E k \in 1 .. n : next = inChan[k] + 1
  BY <1>2, <1>4 DEF Waiting
<1> HIDE DEF n
<1>8. next <= next' /\ p < next' /\ next' \in Nat
  BY <1>5, <1>6
<1>9. ASSUME NEW k \in 1 .. n + 1
      PROVE  /\ f <= inChan'[k] + MaxDelay
             /\ inChan'[k] < next'
             /\ \A j \in 1 .. k - 1 : inChan'[j] < inChan'[k] + MaxDelay
             /\ \/ inChan'[k] <= f + MaxSkip
                \/ \E j \in 1 .. k - 1 : inChan'[k] <= inChan'[j] + 1 + MaxSkip
  <2>1. CASE k = n + 1
    <3>1. inChan'[k] = p /\ \A j \in 1 .. k - 1 : inChan'[j] = inChan[j] /\ j \in 1 .. n
      BY <1>3, <1>4, <2>1
    <3>2. f <= p + MaxDelay
      BY <1>5, <1>6
    <3>3. \A j \in 1 .. k - 1 : inChan[j] < p + MaxDelay
      BY <1>5, <1>6, <1>7, <3>1
    <3>4. p <= f + MaxSkip \/ \E j \in 1 .. k - 1 : p <= inChan[j] + 1 + MaxSkip
      <4>1. CASE next = f
        BY <1>6, <4>1
      <4>2. ASSUME NEW j \in 1 .. n, next = inChan[j] + 1
            PROVE  j \in 1 .. k - 1 /\ p <= inChan[j] + 1 + MaxSkip
        BY <1>3, <1>5, <1>6, <2>1, <4>2
      <4> QED BY <1>7, <4>1, <4>2
    <3> QED BY <1>8, <3>1, <3>2, <3>3, <3>4
  <2>2. CASE k \in 1 .. n
    <3>1. inChan'[k] = inChan[k] /\ \A j \in 1 .. k - 1 : inChan'[j] = inChan[j]
      BY <1>3, <1>4, <2>2
    <3>2. inChan[k] < next'
      BY <1>5, <1>7, <1>8, <2>2
    <3> QED BY <1>7, <2>2, <3>1, <3>2
  <2>3. k = n + 1 \/ k \in 1 .. n
    BY <1>3
  <2> QED BY <2>1, <2>2, <2>3
<1>10. next' = f \/ \E k \in 1 .. n + 1 : next' = inChan'[k] + 1
  <2>1. CASE p < next
    <3>1. next' = next
      BY <1>6, <2>1
    <3>2. ASSUME NEW k \in 1 .. n, next = inChan[k] + 1
          PROVE  k \in 1 .. n + 1 /\ next' = inChan'[k] + 1
      BY <1>3, <1>4, <3>1, <3>2
    <3> QED BY <1>7, <3>1, <3>2
  <2>2. CASE ~(p < next)
    <3>1. n + 1 \in 1 .. n + 1 /\ next' = inChan'[n + 1] + 1
      BY <1>3, <1>4, <1>6, <2>2
    <3> QED BY <3>1
  <2> QED BY <2>1, <2>2
<1>11. NotFarBehind(f)' /\ Waiting(f)'
  BY <1>1, <1>2, <1>4, <1>9, <1>10 DEF NotFarBehind, Waiting, Newest
<1>12. f \in 0 .. next'
  BY <1>5, <1>8
<1>13. QueueExact' /\ HeadNumber' = HeadNumber /\ Newest' = Newest
  BY <1>1 DEF SpanInv, QueueExact, HeadNumber, Newest
<1>14. \E g \in 0 .. next' : NotFarBehind(g)' /\ Waiting(g)'
  BY <1>11, <1>12
<1> QED BY <1>1, <1>13, <1>14 DEF SpanInv

\* The packet RecvPacket takes from InChan is within the reach of the comparison
\* on either side of the head.
LEMMA RecvInReach ==
  ASSUME TypeOK, SpanInv, Span < Reach, Recv, queue # <<>>
  PROVE  /\ inChan[1] \in Packets /\ Enqueue(inChan[1])
         /\ HeadNumber < inChan[1] + Reach
         /\ inChan[1] <= HeadNumber + Span
<1> DEFINE p == inChan[1]
<1>1. inChan \in Seq(Packets) /\ inChan # <<>> /\ pc = "recv"
  BY DEF TypeOK, Recv
<1>2. p \in Packets /\ 1 \in DOMAIN inChan /\ 1 .. 1 - 1 = {} /\ Enqueue(p)
  BY <1>1, TailProperties DEF Recv
<1>3. PICK f \in 0 .. next : NotFarBehind(f) /\ Waiting(f)
  BY DEF SpanInv
<1>4. f <= p + MaxDelay /\ p <= f + MaxSkip
  BY <1>2, <1>3 DEF Waiting
<1>5. Newest < f /\ f <= Newest + 1 + MaxDelay
  BY <1>3 DEF NotFarBehind
<1>6. /\ Newest \in Nat /\ HeadNumber \in Nat /\ Len(queue) \in Nat \ {0}
      /\ HeadNumber = Newest - Len(queue) + 1
  BY QueueNumbers DEF SpanInv
<1>7. Len(queue) <= PaddingWindowSize
  BY <1>1 DEF SpanInv
<1>8. p \in Nat /\ f \in Nat
  BY <1>2, QueueAssumption DEF Packets, TypeOK
<1> HIDE DEF p
<1>9. HeadNumber < p + Reach /\ p <= HeadNumber + Span
  BY <1>4, <1>5, <1>6, <1>7, <1>8, SpanType
<1> QED BY <1>2, <1>9 DEF p

\* It becomes the newest if it is newer or restarts the queue.
LEMMA RecvSpan ==
  ASSUME TypeOK, SpanInv, Span < Reach, Recv
  PROVE  /\ queue' # <<>>
         /\ QueueExact'
         /\ Newest' = IF queue # <<>> /\ inChan[1] <= Newest
                      THEN Newest ELSE inChan[1]
         /\ Len(queue') <= Span + 1
<1> DEFINE p == inChan[1]
<1>1. p \in Packets /\ Enqueue(p)
  BY TailProperties DEF TypeOK, Recv
<1>2. p \in Nat
  BY <1>1, QueueAssumption DEF Packets
<1>3. CASE queue = <<>>
  <2>1. queue' # <<>> /\ Newest' = p /\ Len(queue') = 1 /\ QueueExact'
    BY <1>1, <1>3, EnqueueEmpty
  <2> QED BY <1>3, <2>1, SpanType
<1>4. CASE queue # <<>>
  <2>1. HeadNumber < p + Reach /\ p <= HeadNumber + Span
    BY <1>4, RecvInReach
  <2>2. /\ Newest \in Nat /\ HeadNumber \in Nat /\ Len(queue) \in Nat \ {0}
        /\ HeadNumber = Newest - Len(queue) + 1 /\ QueueExact
        /\ Len(queue) <= Span + 1
    BY <1>4, QueueNumbers DEF SpanInv
  <2> HIDE DEF p
  <2>3. p <= HeadNumber + Reach
    BY <1>2, <2>1, <2>2, SpanType
  <2>4. /\ queue' # <<>>
        /\ Newest' = IF p > Newest THEN p ELSE Newest
        /\ Len(queue') = Newest' - HeadNumber + 1
        /\ QueueExact'
    BY <1>1, <1>4, <2>1, <2>2, <2>3, EnqueueExact
  <2>5. Newest' = IF p <= Newest THEN Newest ELSE p
    BY <1>2, <2>2, <2>4
  <2>6. Len(queue') <= Span + 1
    BY <1>2, <2>1, <2>2, <2>4, SpanType
  <2> QED BY <1>4, <2>4, <2>5, <2>6 DEF p
<1> QED BY <1>3, <1>4

\* Taking a packet from InChan.
LEMMA SpanRecv ==
  ASSUME TypeOK, SpanInv, Span < Reach, Recv
  PROVE  SpanInv'
<1> DEFINE p == inChan[1]
           n == Len(inChan)
           v == Newest'
<1>1. /\ queue' # <<>> /\ QueueExact' /\ Len(queue') <= Span + 1
      /\ v = IF queue # <<>> /\ p <= Newest THEN Newest ELSE p
  BY RecvSpan
<1>2. /\ inChan \in Seq(Packets) /\ inChan # <<>> /\ pc' = "drain"
      /\ inChan' = Tail(inChan) /\ next' = next
  BY DEF TypeOK, Recv
<1>3. /\ n \in Nat \ {0}
      /\ DOMAIN inChan = 1 .. n
      /\ DOMAIN inChan' = 1 .. n - 1
      /\ \A k \in 1 .. n - 1 : inChan'[k] = inChan[k + 1]
  <2>1. /\ Tail(inChan) \in Seq(Packets) /\ Len(Tail(inChan)) = n - 1
        /\ n \in Nat \ {0}
        /\ \A k \in 1 .. n - 1 : Tail(inChan)[k] = inChan[k + 1]
    BY <1>2, TailProperties
  <2> QED BY <1>2, <2>1
<1>4. PICK f \in 0 .. next : NotFarBehind(f) /\ Waiting(f)
  BY DEF SpanInv
<1>5. /\ next \in Nat /\ f \in Nat /\ f <= next
      /\ MaxSkip \in Nat /\ MaxDelay \in Nat
      /\ \A k \in 1 .. n : inChan[k] \in Nat
  BY <1>2, QueueAssumption DEF TypeOK, Packets
<1>6. /\ \A k \in 1 .. n : /\ f <= inChan[k] + MaxDelay
                           /\ inChan[k] < next
                           /\ \A j \in 1 .. k - 1 : inChan[j] < inChan[k] + MaxDelay
                           /\ \/ inChan[k] <= f + MaxSkip
                              \/ \E j \in 1 .. k - 1 : inChan[k] <= inChan[j] + 1 + MaxSkip
      /\ next = f \/ \E k \in 1 .. n : next = inChan[k] + 1
  BY <1>3, <1>4 DEF Waiting
<1>7. queue # <<>> => Newest \in Nat /\ Newest < f /\ f <= Newest + 1 + MaxDelay
  BY <1>4, QueueNumbers DEF SpanInv, NotFarBehind
<1>8. p \in Nat /\ p < next /\ f <= p + MaxDelay
      /\ \A k \in 2 .. n : p < inChan[k] + MaxDelay
  <2>1. 1 \in 1 .. n /\ \A k \in 2 .. n : k \in 1 .. n /\ 1 \in 1 .. k - 1
    BY <1>3
  <2> QED BY <1>5, <1>6, <2>1
<1> DEFINE g == IF p < f THEN f ELSE p + 1
<1> HIDE DEF n, v
<1>9. g \in 0 .. next /\ g \in Nat /\ f <= g /\ p < g /\ (g = f \/ g = p + 1)
  BY <1>5, <1>8
<1>10. v < g /\ g <= v + 1 + MaxDelay
  <2>1. CASE queue # <<>> /\ p <= Newest
    BY <1>1, <1>5, <1>7, <1>8, <2>1
  <2>2. CASE queue # <<>> /\ ~(p <= Newest)
    BY <1>1, <1>5, <1>7, <1>8, <2>2
  <2>3. CASE queue = <<>>
    BY <1>1, <1>5, <1>8, <2>3
  <2> QED BY <2>1, <2>2, <2>3
<1> HIDE DEF g, p
<1>11. ASSUME NEW k \in 1 .. n - 1
       PROVE  /\ g <= inChan'[k] + MaxDelay
              /\ inChan'[k] < next'
              /\ \A j \in 1 .. k - 1 : inChan'[j] < inChan'[k] + MaxDelay
              /\ \/ inChan'[k] <= g + MaxSkip
                 \/ \E j \in 1 .. k - 1 : inChan'[k] <= inChan'[j] + 1 + MaxSkip
  <2> DEFINE i == k + 1
  <2>1. /\ i \in 1 .. n /\ i \in 2 .. n /\ inChan'[k] = inChan[i]
        /\ \A j \in 1 .. k - 1 : /\ inChan'[j] = inChan[j + 1]
                                 /\ j + 1 \in 1 .. i - 1
    BY <1>3
  <2>2. inChan[i] \in Nat /\ f <= inChan[i] + MaxDelay /\ inChan[i] < next'
        /\ p < inChan[i] + MaxDelay
    BY <1>2, <1>5, <1>6, <1>8, <2>1
  <2>3. g <= inChan[i] + MaxDelay
    BY <1>5, <1>8, <1>9, <2>2
  <2>4. \A j \in 1 .. k - 1 : inChan'[j] < inChan'[k] + MaxDelay
    BY <1>6, <2>1
  <2>5. \/ inChan'[k] <= g + MaxSkip
        \/ \E j \in 1 .. k - 1 : inChan'[k] <= inChan'[j] + 1 + MaxSkip
    <3>1. CASE inChan[i] <= f + MaxSkip
      BY <1>5, <1>9, <2>1, <2>2, <3>1
    <3>2. ASSUME NEW h \in 1 .. i - 1, inChan[i] <= inChan[h] + 1 + MaxSkip
          PROVE  \/ inChan'[k] <= g + MaxSkip
                 \/ \E j \in 1 .. k - 1 : inChan'[k] <= inChan'[j] + 1 + MaxSkip
      <4>1. CASE h = 1
        <5>1. inChan[i] <= p + 1 + MaxSkip
          BY <3>2, <4>1 DEF p
        <5>2. p + 1 <= g
          BY <1>8, <1>9
        <5> QED BY <1>5, <1>8, <1>9, <2>1, <2>2, <5>1, <5>2
      <4>2. CASE h # 1
        <5>1. h - 1 \in 1 .. k - 1 /\ (h - 1) + 1 = h
          BY <1>3, <4>2
        <5>2. inChan'[h - 1] = inChan[h]
          BY <2>1, <5>1
        <5>3. inChan'[k] <= inChan'[h - 1] + 1 + MaxSkip
          BY <2>1, <3>2, <5>2
        <5> QED BY <5>1, <5>3
      <4> QED BY <4>1, <4>2
    <3> QED BY <1>6, <2>1, <3>1, <3>2
  <2> QED BY <2>1, <2>2, <2>3, <2>4, <2>5
<1>12. next' = g \/ \E k \in 1 .. n - 1 : next' = inChan'[k] + 1
  <2>1. CASE next = f
    BY <1>2, <1>5, <1>9, <2>1, <1>8
  <2>2. ASSUME NEW k \in 1 .. n, next = inChan[k] + 1
        PROVE  next' = g \/ \E j \in 1 .. n - 1 : next' = inChan'[j] + 1
    <3>1. CASE k = 1
      <4>1. next = p + 1
        BY <2>2, <3>1 DEF p
      <4> QED BY <1>2, <1>5, <1>8, <1>9, <4>1
    <3>2. CASE k # 1
      <4>1. k - 1 \in 1 .. n - 1 /\ (k - 1) + 1 = k
        BY <1>3, <3>2
      <4>2. inChan'[k - 1] = inChan[k]
        BY <1>3, <4>1
      <4> QED BY <1>2, <2>2, <4>1, <4>2
    <3> QED BY <3>1, <3>2
  <2> QED BY <1>6, <2>1, <2>2
<1>13. \E h \in 0 .. next' : NotFarBehind(h)' /\ Waiting(h)'
  <2>1. PICK h : h = g
    OBVIOUS
  <2>2. h \in 0 .. next' /\ NotFarBehind(h)'
    BY <1>2, <1>9, <1>10, <2>1 DEF NotFarBehind, v
  <2>3. Waiting(h)'
    BY <1>3, <1>11, <1>12, <2>1 DEF Waiting
  <2> QED BY <2>2, <2>3
<1> QED BY <1>1, <1>2, <1>13 DEF SpanInv

\* A step of runQuic or Dequeue that keeps InChan and drops d slots of the queue.
LEMMA SpanDrop ==
  ASSUME TypeOK, SpanInv, queue # <<>>, UNCHANGED <<next, inChan>>,
         NEW d \in Nat \ {0}, d <= Len(queue),
         queue' \in Seq(Slot), Len(queue') = Len(queue) - d,
         \A j \in 1 .. Len(queue) - d : queue'[j] = queue[j + d],
         firstSeq' = U16(firstSeq + d)
  PROVE  /\ QueueExact'
         /\ \E f \in 0 .. next' : NotFarBehind(f)' /\ Waiting(f)'
         /\ Len(queue') <= Span + 1
         /\ queue' # <<>> => Newest' = Newest /\ HeadNumber' = HeadNumber + d
<1>1. /\ Len(queue) \in Nat \ {0} /\ Len(queue) <= Span + 1 /\ QueueExact
  BY QueueNumbers DEF SpanInv
<1>2. Len(queue') \in Nat /\ Len(queue') <= Span + 1
  BY <1>1, SpanType
<1>3. QueueExact' /\ (queue' # <<>> => Newest' = Newest /\ HeadNumber' = HeadNumber + d)
  <2>1. CASE d < Len(queue)
    BY <1>1, <2>1, DropExact
  <2>2. CASE ~(d < Len(queue))
    <3>1. Len(queue') = 0
      BY <1>1, <2>2
    <3>2. queue' = <<>>
      BY <3>1, EmptySeq
    <3> QED BY <3>2 DEF QueueExact
  <2> QED BY <2>1, <2>2
<1>4. PICK f \in 0 .. next : NotFarBehind(f) /\ Waiting(f)
  BY DEF SpanInv
<1>5. NotFarBehind(f)' /\ Waiting(f)' /\ f \in 0 .. next'
  BY <1>3, <1>4, WaitingKept
<1> QED BY <1>2, <1>3, <1>5

\* Dequeue, which can empty the queue.
LEMMA SpanPop ==
  ASSUME TypeOK, SpanInv, PopHead, UNCHANGED <<next, inChan>>,
         pc' \in {"drain", "play"}, pc' = "play" => pc = "play"
  PROVE  SpanInv'
<1>1. queue # <<>> /\ queue' = Tail(queue) /\ firstSeq' = U16(firstSeq + 1)
      /\ queue \in Seq(Slot)
  BY DEF PopHead, TypeOK, Slot
<1>2. /\ queue' \in Seq(Slot) /\ Len(queue') = Len(queue) - 1
      /\ Len(queue) \in Nat \ {0}
      /\ \A j \in 1 .. Len(queue) - 1 : queue'[j] = queue[j + 1]
  BY <1>1, TailProperties
<1>3. 1 \in Nat \ {0} /\ 1 <= Len(queue)
  BY <1>2
<1>4. /\ QueueExact' /\ Len(queue') <= Span + 1
      /\ \E f \in 0 .. next' : NotFarBehind(f)' /\ Waiting(f)'
  BY <1>1, <1>2, <1>3, SpanDrop
<1>5. pc' = "play" => Len(queue') <= PaddingWindowSize
  <2>1. pc' = "play" => Len(queue) <= PaddingWindowSize
    BY DEF SpanInv
  <2> QED BY <1>2, <2>1, SpanType
<1> QED BY <1>4, <1>5 DEF SpanInv

\* reshape stops at a packet; the head it gave up is asked for all the same.
LEMMA SpanReshape ==
  ASSUME TypeOK, SpanInv, NEW k \in 2 .. Len(queue), Reshape(k),
         UNCHANGED <<next, inChan>>,
         pc' \in {"quic", "take"}, pc' = "quic" => lostSeq' = firstSeq
  PROVE  SpanInv'
<1> DEFINE d == k - 1
<1>1. queue \in Seq(Slot) /\ k \in 1 .. Len(queue) /\ Len(queue) \in Nat
      /\ queue # <<>>
  BY DEF TypeOK, Slot
<1>2. /\ queue' \in Seq(Slot)
      /\ Len(queue') = Len(queue) - k + 1
      /\ \A j \in 1 .. Len(queue) - k + 1 : queue'[j] = queue[k + j - 1]
      /\ firstSeq' = U16(firstSeq + d)
  BY <1>1, SuffixProperties DEF Reshape
<1>3. /\ d \in Nat \ {0} /\ d <= Len(queue) /\ d < Len(queue)
      /\ Len(queue') = Len(queue) - d
      /\ \A j \in 1 .. Len(queue) - d : queue'[j] = queue[j + d]
  BY <1>1, <1>2
<1> HIDE DEF d
<1>4. /\ QueueExact' /\ Len(queue') <= Span + 1
      /\ \E f \in 0 .. next' : NotFarBehind(f)' /\ Waiting(f)'
      /\ queue' # <<>> => Newest' = Newest /\ HeadNumber' = HeadNumber + d
  BY <1>1, <1>2, <1>3, SpanDrop
<1>5. /\ HeadNumber \in Nat /\ firstSeq = U16(HeadNumber) /\ Newest \in Nat
      /\ HeadNumber = Newest - Len(queue) + 1 /\ Len(queue) <= Span + 1
  BY <1>1, QueueNumbers DEF SpanInv
<1>6. queue' # <<>>
  BY <1>1, <1>2, <1>3
<1>7. pc' = "quic" => \E l \in 0 .. HeadNumber' :
                        lostSeq' = U16(l) /\ Newest' <= l + Span
  <2> SUFFICES ASSUME pc' = "quic"
               PROVE  \E l \in 0 .. HeadNumber' :
                        lostSeq' = U16(l) /\ Newest' <= l + Span
    OBVIOUS
  <2>1. /\ HeadNumber \in 0 .. HeadNumber'
        /\ lostSeq' = U16(HeadNumber)
        /\ Newest' <= HeadNumber + Span
    BY <1>1, <1>3, <1>4, <1>5, <1>6, SpanType
  <2> QED BY <2>1
<1> QED BY <1>4, <1>7 DEF SpanInv

\* The answer to runQuic is the head, or a packet that reshape gave up, which
\* Enqueue drops.
LEMMA QuicReplyInReach ==
  ASSUME TypeOK, SpanInv, Span < Reach, HeadExists, pc = "quic",
         NEW p \in Replies, p # Nil
  PROVE  /\ queue # <<>> /\ p \in Packets
         /\ p <= HeadNumber
         /\ HeadNumber < p + Reach
<1>1. queue # <<>>
  BY DEF HeadExists
<1>2. /\ Newest \in Nat /\ HeadNumber \in Nat /\ Len(queue) \in Nat \ {0}
      /\ HeadNumber = Newest - Len(queue) + 1
  BY <1>1, QueueNumbers DEF SpanInv
<1>3. /\ p \in Packets /\ p \in Nat /\ U16(p) = lostSeq
      /\ p <= Newest /\ Newest < p + SeqSpace
  BY QueueAssumption DEF Replies, SeqOf, Newest, Packets
<1>4. PICK l \in 0 .. HeadNumber : lostSeq = U16(l) /\ Newest <= l + Span
  BY DEF SpanInv
<1>5. l \in Nat /\ l <= HeadNumber /\ HeadNumber <= Newest /\ U16(p) = U16(l)
  BY <1>2, <1>3, <1>4
<1>6. p < l + SeqSpace /\ l < p + SeqSpace
  BY <1>2, <1>3, <1>4, <1>5, SpanType
<1>7. p = l
  BY <1>3, <1>5, <1>6, U16Injective
<1>8. HeadNumber < p + Reach
  BY <1>2, <1>4, <1>5, <1>7, SpanType
<1> QED BY <1>1, <1>3, <1>5, <1>7, <1>8

\* The end of runQuic.
LEMMA SpanQuic ==
  ASSUME TypeOK, SpanInv, Span < Reach, HeadExists, QuicReply
  PROVE  SpanInv'
<1>1. /\ pc = "quic" /\ queue # <<>> /\ UNCHANGED <<inChan, next>> /\ pc' = "take"
  BY DEF QuicReply, HeadExists
<1>2. /\ Newest \in Nat /\ HeadNumber \in Nat /\ Len(queue) \in Nat \ {0}
      /\ HeadNumber = Newest - Len(queue) + 1 /\ QueueExact
      /\ Len(queue) <= Span + 1
  BY <1>1, QueueNumbers DEF SpanInv
<1>3. PICK p \in Replies : Enqueue(p)
  BY DEF QuicReply
<1>4. QueueExact' /\ Len(queue') <= Span + 1 /\ Newest' = Newest
  <2>1. CASE p = Nil
    <3>1. queue' = queue /\ firstSeq' = firstSeq
      BY <1>3, <2>1 DEF Enqueue, Useless
    <3> QED BY <1>2, <3>1 DEF QueueExact, HeadNumber, Newest
  <2>2. CASE p # Nil
    <3>1. p \in Packets /\ p <= HeadNumber /\ HeadNumber < p + Reach
      BY <1>1, <2>2, QuicReplyInReach
    <3>2. p \in Nat /\ p <= HeadNumber + Reach /\ ~(p > Newest)
      BY <1>2, <3>1, SpanType, QueueAssumption DEF Packets
    <3>3. /\ Newest' = Newest /\ Len(queue') = Newest' - HeadNumber + 1
          /\ QueueExact'
      BY <1>1, <1>2, <1>3, <3>1, <3>2, EnqueueExact
    <3> QED BY <1>2, <3>3
  <2> QED BY <2>1, <2>2
<1>5. PICK f \in 0 .. next : NotFarBehind(f) /\ Waiting(f)
  BY DEF SpanInv
<1>6. NotFarBehind(f)' /\ Waiting(f)' /\ f \in 0 .. next'
  BY <1>1, <1>4, <1>5, WaitingKept
<1> QED BY <1>1, <1>4, <1>6 DEF SpanInv

\* A step that moves only the goroutine on.
LEMMA SpanMove ==
  ASSUME TypeOK, SpanInv, UNCHANGED <<next, inChan, queue, firstSeq>>,
         pc' \in {"recv", "play"} => Len(queue) <= PaddingWindowSize,
         pc' = "quic" => \/ queue # <<>> /\ lostSeq' = firstSeq
                         \/ pc = "quic" /\ lostSeq' = lostSeq
  PROVE  SpanInv'
<1>1. /\ queue' = queue /\ firstSeq' = firstSeq /\ inChan' = inChan /\ next' = next
      /\ Newest' = Newest /\ HeadNumber' = HeadNumber
  BY DEF Newest, HeadNumber
<1>2. QueueExact' /\ \E f \in 0 .. next' : NotFarBehind(f)' /\ Waiting(f)'
  BY <1>1 DEF SpanInv, QueueExact, NotFarBehind, Waiting
<1>3. pc' = "quic" => \E l \in 0 .. HeadNumber' :
                        lostSeq' = U16(l) /\ Newest' <= l + Span
  <2>1. CASE queue # <<>> /\ lostSeq' = firstSeq
    <3>1. /\ HeadNumber \in Nat /\ firstSeq = U16(HeadNumber) /\ Newest \in Nat
          /\ Len(queue) \in Nat
          /\ HeadNumber = Newest - Len(queue) + 1 /\ Len(queue) <= Span + 1
      BY <2>1, QueueNumbers DEF SpanInv
    <3>2. HeadNumber \in 0 .. HeadNumber /\ Newest <= HeadNumber + Span
      BY <3>1, SpanType
    <3> QED BY <1>1, <2>1, <3>1, <3>2
  <2>2. CASE pc = "quic" /\ lostSeq' = lostSeq
    BY <1>1, <2>2 DEF SpanInv
  <2> QED BY <2>1, <2>2
<1> QED BY <1>1, <1>2, <1>3 DEF SpanInv

\* Every step keeps SpanInv, in protect mode too.
LEMMA NextSpanInv ==
  ASSUME Span < Reach
  PROVE  TypeOK /\ QueueInv /\ SpanInv /\ [Next]_vars => SpanInv'
<1> SUFFICES ASSUME TypeOK, QueueInv, SpanInv, [Next]_vars PROVE SpanInv'
  OBVIOUS
<1>0. HeadExists /\ PaddingWindowSize \in Nat \ {0} /\ Len(queue) \in Nat
      /\ Len(<<>>) = 0
  BY QueueAssumption DEF QueueInv, TypeOK
<1>1. ASSUME NEW p \in Packets, Arrive(p) PROVE SpanInv'
  BY <1>1, SpanArrive
<1>2. CASE Recv
  BY <1>2, SpanRecv
<1>3. CASE DrainPop
  BY <1>3, SpanPop DEF DrainPop
<1>4. CASE RequestLost
  <2>1. queue # <<>>
    BY <1>0, <1>4 DEF RequestLost, HeadLost
  <2> QED BY <1>4, <2>1, SpanMove DEF RequestLost
<1>5. CASE RequestReshaped
  BY <1>5, SpanReshape DEF RequestReshaped
<1>6. CASE ReshapeBufferError
  BY <1>6, SpanReshape DEF ReshapeBufferError
<1>7. CASE QuicReply
  BY <1>0, <1>7, SpanQuic
<1>8. CASE TakeHead
  BY <1>8, SpanPop DEF TakeHead
<1>9. CASE DrainDone
  BY <1>9, SpanMove DEF DrainDone
<1>10. CASE PlayPop
  BY <1>10, SpanPop DEF PlayPop
<1>11. CASE PlayDone
  <2>1. Len(queue) <= PaddingWindowSize
    BY <1>11 DEF PlayDone, SpanInv
  <2> QED BY <1>11, <2>1, SpanMove DEF PlayDone
<1>12. CASE UNCHANGED vars
  <2>1. pc \in {"recv", "play"} => Len(queue) <= PaddingWindowSize
    BY DEF SpanInv
  <2> QED BY <1>12, <2>1, SpanMove DEF vars
<1> QED BY <1>1, <1>2, <1>3, <1>4, <1>5, <1>6, <1>7, <1>8, <1>9, <1>10,
           <1>11, <1>12 DEF Next, RecvPacket

\* What StoredPacketsPlayed says of a step.
KeptOrPlayed ==
    \A i \in DOMAIN queue :
        queue[i] # Nil =>
            \/ \E j \in DOMAIN queue' : queue'[j] = queue[i]
            \/ out' = Append(out, queue[i])

\* Dequeue plays the head and keeps the rest.
LEMMA PopKeepsOrPlays == TypeOK /\ PopHead => KeptOrPlayed
<1> SUFFICES ASSUME TypeOK, PopHead, NEW i \in DOMAIN queue
             PROVE  \/ \E j \in DOMAIN queue' : queue'[j] = queue[i]
                    \/ out' = Append(out, queue[i])
  BY DEF KeptOrPlayed
<1>1. queue # <<>> /\ queue' = Tail(queue) /\ out' = Append(out, Head(queue))
      /\ queue \in Seq(Slot)
  BY DEF PopHead, TypeOK, Slot
<1> DEFINE n == Len(queue)
<1>2. /\ queue' \in Seq(Slot) /\ Len(queue') = n - 1 /\ n \in Nat \ {0}
      /\ \A j \in 1 .. n - 1 : queue'[j] = queue[j + 1]
      /\ Head(queue) = queue[1]
  BY <1>1, TailProperties
<1>3. DOMAIN queue = 1 .. n /\ DOMAIN queue' = 1 .. n - 1
  BY <1>1, <1>2
<1>4. CASE i = 1
  BY <1>1, <1>2, <1>4
<1>5. CASE i # 1
  <2>1. i - 1 \in 1 .. n - 1 /\ (i - 1) + 1 = i
    BY <1>2, <1>3, <1>5
  <2>2. queue'[i - 1] = queue[i]
    BY <1>2, <2>1
  <2> QED BY <1>3, <2>1, <2>2
<1> QED BY <1>4, <1>5

\* reshape gives up empty slots only.
LEMMA ReshapeKeeps ==
  ASSUME TypeOK, HeadLost, NEW k \in 2 .. Len(queue), NextPresent(k), Reshape(k)
  PROVE  KeptOrPlayed
<1> SUFFICES ASSUME NEW i \in DOMAIN queue, queue[i] # Nil
             PROVE  \E j \in DOMAIN queue' : queue'[j] = queue[i]
  BY DEF KeptOrPlayed
<1> DEFINE n == Len(queue)
<1>1. queue \in Seq(Slot) /\ n \in Nat /\ DOMAIN queue = 1 .. n /\ k \in 1 .. n
      /\ queue # <<>>
  BY DEF TypeOK, Slot
<1>2. /\ queue' \in Seq(Slot) /\ Len(queue') = n - k + 1
      /\ \A j \in 1 .. n - k + 1 : queue'[j] = queue[k + j - 1]
  BY <1>1, SuffixProperties DEF Reshape
<1>3. queue[1] = Nil
  <2>1. Head(queue) = Nil
    BY <1>1 DEF HeadLost, IsFirstOk
  <2> QED BY <1>1, <2>1, TailProperties
<1>4. \A j \in 2 .. k - 1 : queue[j] = Nil
  BY DEF NextPresent
<1>5. i >= k
  BY <1>1, <1>3, <1>4
<1>6. /\ i - k + 1 \in 1 .. n - k + 1 /\ k + (i - k + 1) - 1 = i
      /\ DOMAIN queue' = 1 .. n - k + 1
  BY <1>1, <1>2, <1>5
<1>7. queue'[i - k + 1] = queue[i]
  BY <1>2, <1>6
<1> QED BY <1>6, <1>7

\* Enqueue writes over no packet but an equal one.
LEMMA EnqueueKeeps ==
  ASSUME TypeOK, SpanInv, NEW p \in Packets, Enqueue(p),
         queue # <<>> => HeadNumber < p + Reach /\ p <= HeadNumber + Reach
  PROVE  KeptOrPlayed
<1>1. CASE queue = <<>>
  BY <1>1 DEF KeptOrPlayed
<1>2. CASE queue # <<>>
  <2>1. \A j \in DOMAIN queue :
           queue[j] # Nil => j \in DOMAIN queue' /\ queue'[j] = queue[j]
    BY <1>2, EnqueueExact DEF SpanInv
  <2> QED BY <2>1 DEF KeptOrPlayed
<1> QED BY <1>1, <1>2

\* A step that leaves the queue alone.
LEMMA SameQueueKeeps == queue' = queue => KeptOrPlayed
  BY DEF KeptOrPlayed

\* Every step keeps or plays each stored packet.
LEMMA NextKeepsOrPlays ==
  ASSUME Span < Reach
  PROVE  TypeOK /\ QueueInv /\ SpanInv /\ Next => KeptOrPlayed
<1> SUFFICES ASSUME TypeOK, QueueInv, SpanInv, Next PROVE KeptOrPlayed
  OBVIOUS
<1>0. HeadExists
  BY DEF QueueInv
<1>1. ASSUME NEW p \in Packets, Arrive(p) PROVE KeptOrPlayed
  BY <1>1, SameQueueKeeps DEF Arrive
<1>2. CASE Recv
  <2>1. inChan[1] \in Packets /\ Enqueue(inChan[1])
    BY <1>2, TailProperties DEF TypeOK, Recv
  <2>2. queue # <<>> => /\ HeadNumber < inChan[1] + Reach
                        /\ inChan[1] <= HeadNumber + Reach
    <3> SUFFICES ASSUME queue # <<>>
                 PROVE  /\ HeadNumber < inChan[1] + Reach
                        /\ inChan[1] <= HeadNumber + Reach
      OBVIOUS
    <3>1. HeadNumber < inChan[1] + Reach /\ inChan[1] <= HeadNumber + Span
      BY <1>2, RecvInReach
    <3>2. HeadNumber \in Nat /\ inChan[1] \in Nat
      BY <2>1, QueueNumbers, QueueAssumption DEF SpanInv, Packets
    <3> QED BY <3>1, <3>2, SpanType
  <2> QED BY <2>1, <2>2, EnqueueKeeps
<1>3. CASE DrainPop \/ TakeHead \/ PlayPop
  BY <1>3, PopKeepsOrPlays DEF DrainPop, TakeHead, PlayPop
<1>4. CASE RequestLost \/ DrainDone \/ PlayDone
  BY <1>4, SameQueueKeeps DEF RequestLost, DrainDone, PlayDone
<1>5. CASE RequestReshaped \/ ReshapeBufferError
  <2>1. HeadLost /\ \E k \in 2 .. Len(queue) : NextPresent(k) /\ Reshape(k)
    BY <1>5 DEF RequestReshaped, ReshapeBufferError, Congested
  <2> QED BY <2>1, ReshapeKeeps
<1>6. CASE QuicReply
  <2>1. PICK p \in Replies : Enqueue(p)
    BY <1>6 DEF QuicReply
  <2>2. CASE p = Nil
    <3>1. queue' = queue
      BY <2>1, <2>2 DEF Enqueue, Useless
    <3> QED BY <3>1, SameQueueKeeps
  <2>3. CASE p # Nil
    <3>1. /\ queue # <<>> /\ p \in Packets /\ p <= HeadNumber
          /\ HeadNumber < p + Reach
      BY <1>0, <1>6, <2>3, QuicReplyInReach DEF QuicReply
    <3>2. HeadNumber \in Nat /\ p \in Nat
      BY <3>1, QueueNumbers, QueueAssumption DEF SpanInv, Packets
    <3>3. p <= HeadNumber + Reach
      BY <3>1, <3>2, SpanType
    <3> QED BY <2>1, <3>1, <3>3, EnqueueKeeps
  <2> QED BY <2>2, <2>3
<1> QED BY <1>1, <1>2, <1>3, <1>4, <1>5, <1>6 DEF Next, RecvPacket

\* The queue is exact and short in both modes.
LEMMA SpanInvariant ==
  ASSUME Span < Reach
  PROVE  Spec => [](TypeOK /\ QueueInv /\ SpanInv)
<1>1. Init => TypeOK /\ QueueInv /\ SpanInv
  <2> SUFFICES ASSUME Init PROVE SpanInv
    BY InitOrderInv
  <2>1. /\ queue = <<>> /\ inChan = <<>> /\ pc = "recv" /\ next = FirstPacket
        /\ Len(<<>>) = 0 /\ DOMAIN inChan = {} /\ FirstPacket \in 0 .. FirstPacket
    BY QueueAssumption DEF Init
  <2>2. QueueExact /\ NotFarBehind(FirstPacket) /\ Waiting(FirstPacket)
    BY <2>1 DEF QueueExact, NotFarBehind, Waiting
  <2>3. Len(queue) <= Span + 1 /\ Len(queue) <= PaddingWindowSize
    BY <2>1, SpanType
  <2> QED BY <2>1, <2>2, <2>3 DEF SpanInv
<1>2. TypeOK /\ QueueInv /\ SpanInv /\ [Next]_vars
        => (TypeOK /\ QueueInv /\ SpanInv)'
  BY NextType, NextQueueInv, NextSpanInv
<1> QED BY <1>1, <1>2, PTL DEF Spec

\* With and without protect mode a packet that was stored leaves the queue only
\* by being played, as long as the window and all of the network's disorder
\* together stay below the reach of FirstBeforeSecond (5536 numbers).
THEOREM StoredPacketsArePlayed ==
  ASSUME Span < Reach
  PROVE  Spec => StoredPacketsPlayed
<1>1. TypeOK /\ QueueInv /\ SpanInv /\ [Next]_vars
        => [\A i \in DOMAIN queue :
               queue[i] # Nil =>
                   \/ \E j \in DOMAIN queue' : queue'[j] = queue[i]
                   \/ out' = Append(out, queue[i])]_vars
  BY NextKeepsOrPlays DEF KeptOrPlayed
<1> QED BY <1>1, SpanInvariant, PTL DEF Spec, StoredPacketsPlayed

-----------------------------------------------------------------------------
(* RecvPacket's two loops are finite. *)

\* How far a goroutine at place l is from blocking on InChan.
Stage(l) == CASE l = "recv"  -> 0
              [] l = "take"  -> 1
              [] l = "play"  -> 2
              [] l = "quic"  -> 2
              [] l = "drain" -> 3

\* A bound on the steps RecvPacket has left before it blocks on InChan again.
Rounds == 4 * Len(queue) + Stage(pc)

\* Rounds is a number.
LEMMA RoundsType == TypeOK => Rounds \in Nat
BY DEF TypeOK, Rounds, Stage

\* A step of one of the loops.
LEMMA ShorterOrNearer ==
  ASSUME TypeOK, TypeOK',
         \/ Len(queue') < Len(queue) /\ Stage(pc') <= Stage(pc) + 2
         \/ Len(queue') <= Len(queue) /\ Stage(pc') < Stage(pc)
  PROVE  Rounds' < Rounds
<1>1. Len(queue) \in Nat /\ Len(queue') \in Nat
  BY DEF TypeOK
<1>2. Stage(pc) \in 0 .. 3 /\ Stage(pc') \in 0 .. 3
  BY DEF TypeOK, Stage
<1> QED BY <1>1, <1>2 DEF Rounds

\* Dequeue shortens the queue by one slot.
LEMMA PopHeadShortens == TypeOK /\ PopHead => Len(queue') < Len(queue)
<1> SUFFICES ASSUME TypeOK, PopHead PROVE Len(queue') < Len(queue)
  OBVIOUS
<1>1. queue \in Seq(Slot) /\ queue # <<>> /\ queue' = Tail(queue)
  BY DEF TypeOK, Slot, PopHead
<1>2. Len(queue) \in Nat \ {0} /\ Len(queue') = Len(queue) - 1
  BY <1>1, TailProperties
<1> QED BY <1>2

\* reshape leaves at most the slots it found.
LEMMA ReshapeShortens ==
  ASSUME TypeOK, NEW k \in 2 .. Len(queue), Reshape(k)
  PROVE  Len(queue') < Len(queue)
<1>1. queue \in Seq(Slot) /\ k \in 1 .. Len(queue) /\ Len(queue) \in Nat
  BY DEF TypeOK, Slot
<1>2. Len(queue') = Len(queue) - k + 1
  BY <1>1, SuffixProperties DEF Reshape
<1> QED BY <1>1, <1>2

\* The answer to runQuic fills the head or is dropped: it never makes the
\* queue longer.
LEMMA QuicReplyKeepsLength ==
  ASSUME TypeOK, SpanInv, Span < Reach, HeadExists, QuicReply
  PROVE  Len(queue') = Len(queue)
<1>1. pc = "quic" /\ queue # <<>>
  BY DEF QuicReply, HeadExists
<1>2. PICK p \in Replies : Enqueue(p)
  BY DEF QuicReply
<1>3. CASE p = Nil
  BY <1>2, <1>3 DEF Enqueue, Useless
<1>4. CASE p # Nil
  <2>1. p \in Packets /\ p <= HeadNumber /\ HeadNumber < p + Reach
    BY <1>1, <1>4, QuicReplyInReach
  <2>2. /\ Newest \in Nat /\ HeadNumber \in Nat /\ Len(queue) \in Nat \ {0}
        /\ HeadNumber = Newest - Len(queue) + 1 /\ QueueExact
    BY <1>1, QueueNumbers DEF SpanInv
  <2>3. p \in Nat /\ p <= HeadNumber + Reach /\ ~(p > Newest)
    BY <2>1, <2>2, SpanType, QueueAssumption DEF Packets
  <2>4. Newest' = Newest /\ Len(queue') = Newest' - HeadNumber + 1
    BY <1>1, <1>2, <2>1, <2>2, <2>3, EnqueueExact
  <2> QED BY <2>2, <2>4
<1> QED BY <1>3, <1>4

\* Inside its loops every step of RecvPacket lowers Rounds.
LEMMA StepLowersRounds ==
  ASSUME Span < Reach, TypeOK, TypeOK', QueueInv, SpanInv, pc # "recv",
         RecvPacket
  PROVE  Rounds' < Rounds
<1>1. Len(queue) \in Nat /\ HeadExists
  BY DEF TypeOK, QueueInv
<1>2. CASE DrainPop \/ PlayPop
  BY <1>2, PopHeadShortens, ShorterOrNearer DEF DrainPop, PlayPop, Stage
<1>3. CASE TakeHead
  <2>1. Len(queue') < Len(queue) /\ Stage(pc') <= Stage(pc) + 2
    BY <1>3, PopHeadShortens DEF TakeHead, Stage
  <2> QED BY <2>1, ShorterOrNearer
<1>4. CASE RequestLost \/ DrainDone \/ PlayDone
  <2>1. Len(queue') <= Len(queue) /\ Stage(pc') < Stage(pc)
    BY <1>1, <1>4 DEF RequestLost, HeadLost, DrainDone, PlayDone, Stage
  <2> QED BY <2>1, ShorterOrNearer
<1>5. CASE RequestReshaped \/ ReshapeBufferError
  <2>1. PICK k \in 2 .. Len(queue) : Reshape(k)
    BY <1>5 DEF RequestReshaped, ReshapeBufferError
  <2>2. Len(queue') < Len(queue)
    BY <2>1, ReshapeShortens
  <2>3. Stage(pc') <= Stage(pc) + 2
    BY <1>5 DEF RequestReshaped, ReshapeBufferError, HeadLost, Stage
  <2> QED BY <2>2, <2>3, ShorterOrNearer
<1>6. CASE QuicReply
  <2>1. Len(queue') = Len(queue)
    BY <1>1, <1>6, QuicReplyKeepsLength
  <2>2. Stage(pc') < Stage(pc)
    BY <1>6 DEF QuicReply, Stage
  <2> QED BY <1>1, <2>1, <2>2, ShorterOrNearer
<1> QED BY <1>2, <1>3, <1>4, <1>5, <1>6 DEF RecvPacket, Recv

\* RecvPacket's loops run only as long as the queue is: each of their steps
\* lowers Rounds, no arrival raises it, and it never falls below 0.  The
\* liveness property RecvPacketReturns adds only that the steps are taken.
THEOREM LoopsAreFinite ==
  ASSUME Span < Reach
  PROVE  Spec => /\ [](Rounds \in Nat)
                 /\ [][/\ RecvPacket /\ pc # "recv" => Rounds' < Rounds
                       /\ ~RecvPacket => Rounds' = Rounds]_vars
<1>1. TypeOK /\ QueueInv /\ SpanInv /\ TypeOK' /\ [Next]_vars
        => [/\ RecvPacket /\ pc # "recv" => Rounds' < Rounds
            /\ ~RecvPacket => Rounds' = Rounds]_vars
  <2> SUFFICES ASSUME TypeOK, QueueInv, SpanInv, TypeOK', Next
               PROVE  /\ RecvPacket /\ pc # "recv" => Rounds' < Rounds
                      /\ ~RecvPacket => Rounds' = Rounds
    OBVIOUS
  <2>1. ASSUME NEW p \in Packets, Arrive(p) PROVE Rounds' = Rounds
    BY <2>1 DEF Arrive, Rounds
  <2> QED BY <2>1, StepLowersRounds DEF Next
<1>2. TypeOK => Rounds \in Nat
  BY RoundsType
<1> QED BY <1>1, <1>2, SpanInvariant, PTL DEF Spec

-----------------------------------------------------------------------------
(* The queue without protect mode implements Playout. *)

\* A step that keeps the head and what was played is a stuttering step.
LEMMA PlayoutStutter ==
  ASSUME (queue' # <<>>) <=> (queue # <<>>), HeadNumber' = HeadNumber,
         out' = out
  PROVE  UNCHANGED PlayoutOf!vars
BY Zenon DEF PlayoutOf!vars

\* Dequeue from a queue of two slots or more is one Deliver.
LEMMA PopHeadDelivers ==
  ASSUME TypeOK, OrderInv, PopHead, Len(queue) > 1
  PROVE  PlayoutOf!Deliver
<1>1. /\ queue # <<>> /\ queue' # <<>> /\ HeadNumber' = HeadNumber + 1
  BY PopHeadOrder DEF OrderInv
<1>2. queue \in Seq(Slot) /\ Head(queue) = queue[1] /\ 1 \in 1 .. Len(queue)
  BY <1>1, TailProperties DEF TypeOK, Slot
<1>3. HeadNumber \in Nat /\ queue[1] \in {HeadNumber + (1 - 1), Nil}
  BY <1>1, <1>2 DEF OrderInv, QueueExact
<1>4. Head(queue) \in {HeadNumber, Nil}
  BY <1>2, <1>3
<1>5. out' = Append(out, Head(queue))
  BY DEF PopHead
<1>6. (queue' # <<>>) = (queue # <<>>)
  BY <1>1
<1>7. \E item \in {HeadNumber, Nil} : out' = Append(out, item)
  BY <1>4, <1>5
<1> QED BY <1>1, <1>6, <1>7 DEF PlayoutOf!Deliver

\* Every step of the queue is a step of Playout or a stuttering one.
LEMMA NextPlayout ==
  ASSUME Protect = FALSE
  PROVE  TypeOK /\ QueueInv /\ OrderInv /\ [Next]_vars
           => [PlayoutOf!Next]_(PlayoutOf!vars)
<1> SUFFICES ASSUME TypeOK, QueueInv, OrderInv, [Next]_vars
             PROVE  PlayoutOf!Next \/ UNCHANGED PlayoutOf!vars
  OBVIOUS
<1>0. PaddingWindowSize \in Nat \ {0} /\ Len(queue) \in Nat
      /\ LengthAtPc /\ HeadExists
  BY QueueAssumption DEF TypeOK, OrderInv, QueueInv
<1>1. ASSUME UNCHANGED <<queue, out>> PROVE UNCHANGED PlayoutOf!vars
  <2>1. HeadNumber' = HeadNumber /\ queue' = queue /\ out' = out
    BY <1>1 DEF HeadNumber
  <2> QED BY <2>1, PlayoutStutter
<1>2. ASSUME PopHead, Len(queue) > 1 PROVE PlayoutOf!Next
  BY <1>2, PopHeadDelivers DEF PlayoutOf!Next
<1>3. ASSUME NEW p \in Packets, Arrive(p) PROVE UNCHANGED PlayoutOf!vars
  BY <1>1, <1>3 DEF Arrive
<1>4. CASE Recv
  <2>1. /\ queue' # <<>> /\ QueueExact' /\ out' = out
        /\ queue # <<>> => HeadNumber' = HeadNumber
    BY <1>4, RecvNewest DEF Recv
  <2>2. CASE queue # <<>>
    BY <2>1, <2>2, PlayoutStutter
  <2>3. CASE queue = <<>>
    <3>1. HeadNumber' \in Nat
      BY <2>1 DEF QueueExact
    <3>2. (queue' # <<>>) = TRUE /\ ~(queue # <<>>)
      BY <2>1, <2>3
    <3>3. PlayoutOf!Start
      BY <2>1, <3>1, <3>2 DEF PlayoutOf!Start
    <3> QED BY <3>3 DEF PlayoutOf!Next
  <2> QED BY <2>2, <2>3
<1>5. CASE DrainPop
  <2>1. PopHead /\ Len(queue) > 1
    BY <1>0, <1>5 DEF DrainPop
  <2> QED BY <1>2, <2>1
<1>6. CASE RequestLost
  BY <1>1, <1>6 DEF RequestLost
<1>7. CASE RequestReshaped \/ ReshapeBufferError
  BY <1>7 DEF RequestReshaped, ReshapeBufferError, Congested
<1>8. CASE QuicReply
  <2>1. queue # <<>> /\ queue' # <<>> /\ HeadNumber' = HeadNumber /\ out' = out
    BY <1>0, <1>8, QuicReplyOrder DEF HeadExists, QuicReply
  <2> QED BY <2>1, PlayoutStutter
<1>9. CASE TakeHead
  <2>1. PopHead /\ Len(queue) > PaddingWindowSize
    BY <1>0, <1>9 DEF TakeHead, LengthAtPc
  <2>2. Len(queue) > 1
    BY <1>0, <2>1
  <2> QED BY <1>2, <2>1, <2>2
<1>10. CASE DrainDone
  BY <1>1, <1>10 DEF DrainDone
<1>11. CASE PlayPop
  BY <1>2, <1>11 DEF PlayPop
<1>12. CASE PlayDone
  BY <1>1, <1>12 DEF PlayDone
<1>13. CASE UNCHANGED vars
  BY <1>1, <1>13 DEF vars
<1> QED BY <1>3, <1>4, <1>5, <1>6, <1>7, <1>8, <1>9, <1>10, <1>11, <1>12,
           <1>13 DEF Next, RecvPacket

\* Without protect mode what Dequeue hands to extractFlv is a behaviour of
\* Playout: each packet number once, in order, as the packet or as nil.
THEOREM QueueImplementsPlayout ==
  ASSUME Protect = FALSE
  PROVE  Spec => ImplementsPlayout
<1>1. Init => PlayoutOf!Init
  <2> SUFFICES ASSUME Init PROVE PlayoutOf!Init
    OBVIOUS
  <2>1. queue = <<>> /\ out = <<>> /\ HeadNumber = 0
    BY DEF Init, HeadNumber
  <2> QED BY <2>1 DEF PlayoutOf!Init
<1>2. Init => TypeOK /\ QueueInv /\ OrderInv
  BY InitOrderInv
<1>3. TypeOK /\ QueueInv /\ OrderInv /\ [Next]_vars
        => (TypeOK /\ QueueInv /\ OrderInv)'
  BY NextType, NextQueueInv, NextOrderInv
<1> QED BY <1>1, <1>2, <1>3, NextPlayout, PTL
        DEF Spec, ImplementsPlayout, PlayoutOf!Spec

=============================================================================
