----------------------- MODULE SlotTransmissionProofs -----------------------
(***************************************************************************)
(* What a station sends in a slot, for slots, packets, FIs and queues of   *)
(* every size.  The argument is a budget: while a chain of events is       *)
(* active, the time at which its packet ends, in whole microseconds, and   *)
(* the time left in m_slotRemainTime never exceed the slot.  It holds as   *)
(* long as the FIs fit in the slot; the types and the queue do not need    *)
(* that.                                                                   *)
(***************************************************************************)
EXTENDS SlotTransmission, TLAPS, FiniteSetTheorems, SequenceTheorems

\* Through WifiMacLow a chain waits for StartTransmission, through TdmaMacLow
\* for SendFiDown or SendPacketDown.
Paths == \A ch \in Chain : Active(ch) =>
           pending[ch].what \in IF m_wifimaclow_flag THEN {"StartTransmission"}
                                ELSE {"SendFiDown", "SendPacketDown"}

Shape == TypeOK /\ Paths /\ SizeExact /\ OldestFirst

\* When the chain's next event runs.
End(ch) == clock + pending[ch].due

\* Through WifiMacLow the end of the chain's packet and the budget still to be
\* spent make at most a slot, and so they do for two chains together: of two
\* chains only one can come to the end of the slot.  What the end has beyond
\* whole microseconds comes from the FI that the chain began with.
WifiPath ==
  m_wifimaclow_flag =>
    /\ \A ch \in Chain : Active(ch) =>
         /\ GetMicroSeconds(End(ch)) + m_slotRemainTime <= SlotTime
         /\ \E f \in FiTimes : Cut(End(ch)) = Cut(f)
    /\ \A a, b \in Chain : Active(a) /\ Active(b) /\ a # b =>
         GetMicroSeconds(End(a)) + GetMicroSeconds(End(b)) + m_slotRemainTime
           <= SlotTime

\* Through TdmaMacLow a chain either has time left in its slot, no more than
\* m_slotRemainTime says, or it is left from the slot before, and then what it
\* has left is no microsecond; one at most is not left from the slot before.
Leftover(ch) == /\ pending[ch].what = "SendPacketDown"
                /\ pending[ch].total < Us
                /\ \E f \in FiTimes : End(ch) < Cut(f)
OnTime(ch) == /\ 0 < pending[ch].total /\ pending[ch].total <= m_slotRemainTime
              /\ \E f \in FiTimes : End(ch) + pending[ch].total <= SlotTime + Cut(f)
              /\ pending[ch].what = "SendFiDown" =>
                   End(ch) < SlotTime /\ pending[ch].total = m_slotRemainTime
LowPath ==
  ~m_wifimaclow_flag => \A ch \in Chain : Active(ch) =>
    /\ OnTime(ch) \/ Leftover(ch)
    /\ ~own => Leftover(ch)
    /\ \A b \in Chain : Active(b) /\ b # ch => Leftover(ch) \/ Leftover(b)

Timing == m_slotRemainTime <= SlotTime /\ WifiPath /\ LowPath

Inv == Shape /\ (fitted => Timing)

-----------------------------------------------------------------------------
(***************************************************************************)
(* Whole microseconds.                                                     *)
(***************************************************************************)
\* A remainder is known by its range.
LEMMA RemainderUnique ==
  ASSUME NEW x \in Nat, NEW q \in Int, NEW r \in Nat, r < Us, x = q * Us + r
  PROVE  x % Us = r
  BY TimeAssumption

\* Division with remainder.
LEMMA DivisionRemainder ==
  ASSUME NEW x \in Nat
  PROVE  /\ x \div Us \in Nat
         /\ x % Us \in 0 .. Us - 1
         /\ x = (x \div Us) * Us + (x % Us)
<1>1. x \div Us \in Nat
  BY TimeAssumption
<1>2. x % Us \in 0 .. Us - 1
  BY TimeAssumption
<1>3. x = (x \div Us) * Us + (x % Us)
  BY TimeAssumption
<1> QED
  BY <1>1, <1>2, <1>3

\* GetMicroSeconds loses less than a microsecond.
LEMMA WholeType ==
  ASSUME NEW t \in Nat
  PROVE  /\ GetMicroSeconds(t) \in Nat /\ GetMicroSeconds(t) <= t
         /\ Cut(t) \in Nat /\ Cut(t) < Us
         /\ t = GetMicroSeconds(t) + Cut(t)
<1> DEFINE k == t \div Us
           r == t % Us
<1>1. k \in Nat /\ r \in 0 .. Us - 1 /\ t = k * Us + r
  BY DivisionRemainder
<1>2. k * Us \in Nat
  BY <1>1, TimeAssumption
<1> HIDE DEF k, r
<1>3. r <= t
  BY <1>1, <1>2, TimeAssumption
<1>4. Cut(t) = r /\ GetMicroSeconds(t) = t - r
  BY DEF Cut, GetMicroSeconds, r
<1> QED
  BY <1>1, <1>3, <1>4, TimeAssumption

\* What it returns is whole.
LEMMA WholeIsWhole ==
  ASSUME NEW t \in Nat
  PROVE  Cut(GetMicroSeconds(t)) = 0
<1> DEFINE k == t \div Us
<1>1. k \in Nat /\ t % Us \in Nat /\ t = k * Us + (t % Us)
  BY DivisionRemainder
<1>2. GetMicroSeconds(t) = t - (t % Us)
  BY DEF GetMicroSeconds, Cut
<1> HIDE DEF k
<1>3. k * Us \in Nat
  BY <1>1, TimeAssumption
<1>4. GetMicroSeconds(t) = k * Us + 0 /\ GetMicroSeconds(t) \in Nat
  BY <1>1, <1>2, <1>3
<1> QED
  BY <1>1, <1>4, RemainderUnique, TimeAssumption DEF Cut

\* Whole microseconds may be added before or after the conversion.
LEMMA WholePlus ==
  ASSUME NEW t \in Nat, NEW w \in Nat, Cut(w) = 0
  PROVE  /\ GetMicroSeconds(t + w) = GetMicroSeconds(t) + w
         /\ Cut(t + w) = Cut(t)
<1> DEFINE k == w \div Us
           q == t \div Us
           r == t % Us
<1>1. w = k * Us /\ k \in Nat /\ Us \in Nat
  BY DivisionRemainder, TimeAssumption DEF Cut
<1>2. t = q * Us + r /\ q \in Nat /\ r \in Nat /\ r < Us
  BY DivisionRemainder, TimeAssumption
<1> HIDE DEF k, q, r
<1>3. t + w = (q + k) * Us + r /\ q + k \in Int
  BY <1>1, <1>2
<1>4. (t + w) % Us = r
  BY <1>2, <1>3, RemainderUnique
<1>5. Cut(t + w) = r /\ Cut(t) = r
  BY <1>4 DEF Cut, r
<1>6. GetMicroSeconds(t + w) = (t + w) - r /\ GetMicroSeconds(t) = t - r
  BY <1>5 DEF GetMicroSeconds
<1> QED
  BY <1>2, <1>5, <1>6

\* Less than a microsecond is none.
LEMMA WholeSmall ==
  ASSUME NEW t \in Nat, t < Us
  PROVE  GetMicroSeconds(t) = 0
<1>1. t = 0 * Us + t
  BY TimeAssumption
<1>2. t % Us = t
  BY <1>1, RemainderUnique
<1> QED
  BY <1>2 DEF GetMicroSeconds, Cut

\* The slot is whole.
LEMMA WholeSlot ==
  /\ SlotTime \in Nat /\ Cut(SlotTime) = 0 /\ Us \in Nat /\ 0 < Us
  /\ Us <= SlotTime /\ SlotTime < Wrap /\ Wrap \in Nat
<1>1. SlotTime \in Nat /\ 0 < SlotTime /\ SlotTime % Us = 0 /\ Us \in Nat
      /\ 0 < Us /\ SlotTime < Wrap /\ Wrap \in Nat
  BY TimeAssumption
<1>2. Us <= SlotTime
  <2> SUFFICES ASSUME SlotTime < Us PROVE FALSE
    BY <1>1
  <2>1. SlotTime = 0 * Us + SlotTime
    BY <1>1
  <2>2. SlotTime % Us = SlotTime
    BY <1>1, <2>1, RemainderUnique
  <2> QED
    BY <1>1, <2>2
<1> QED
  BY <1>1, <1>2 DEF Cut

\* m_slotRemainTime stays a uint32_t.
LEMMA ChargedType ==
  ASSUME NEW b \in Nat, NEW t \in Nat
  PROVE  Charged(b, t) \in 0 .. Wrap - 1
<1> DEFINE d == b - GetMicroSeconds(t)
<1>1. d \in Int
  BY WholeType
<1>2. Wrap \in Nat /\ 0 < Wrap
  BY WholeSlot
<1> HIDE DEF d
<1>3. d % Wrap \in 0 .. Wrap - 1
  BY <1>1, <1>2
<1> QED
  BY <1>3 DEF Charged, d

\* It does not wrap when the charge fits.
LEMMA ChargedFits ==
  ASSUME NEW b \in 0 .. Wrap - 1, NEW t \in Nat, GetMicroSeconds(t) <= b
  PROVE  Charged(b, t) = b - GetMicroSeconds(t)
<1> DEFINE d == b - GetMicroSeconds(t)
<1>1. d \in Nat /\ d < Wrap
  <2>1. GetMicroSeconds(t) \in Nat /\ Wrap \in Nat
    BY WholeType, WholeSlot
  <2> QED
    BY <2>1
<1>2. Wrap \in Nat /\ 0 < Wrap
  BY WholeSlot
<1> HIDE DEF d
<1>3. d % Wrap = d
  BY <1>1, <1>2
<1> QED
  BY <1>3 DEF Charged, d

-----------------------------------------------------------------------------
(***************************************************************************)
(* The queue.                                                              *)
(***************************************************************************)
\* A queue is in order when what Cleanup erases is a prefix.
InAgeOrder(q) == \A i, j \in 1 .. Len(q) : i < j => q[i].age >= q[j].age

\* Cleanup erases no more than there is.
LEMMA ExpiredType ==
  ASSUME NEW q \in Seq(Packet)
  PROVE  Expired(q) \in 0 .. Len(q)
<1> DEFINE E == {i \in 1 .. Len(q) : q[i].age >= MaxDelay}
<1>1. Len(q) \in Nat
  OBVIOUS
<1>2. IsFiniteSet(1 .. Len(q)) /\ Cardinality(1 .. Len(q)) = Len(q)
  BY <1>1, FS_Interval
<1>3. IsFiniteSet(E) /\ Cardinality(E) <= Len(q)
  BY <1>2, FS_Subset, E \in SUBSET (1 .. Len(q))
<1>4. Cardinality(E) \in Nat
  BY <1>3, FS_CardinalityType
<1> QED
  BY <1>1, <1>3, <1>4 DEF Expired

\* What Cleanup leaves is a queue, shorter by what it erased, in order.
LEMMA CleanupProperties ==
  ASSUME NEW q \in Seq(Packet), InAgeOrder(q)
  PROVE  /\ Cleanup(q) \in Seq(Packet)
         /\ Len(Cleanup(q)) = Len(q) - Expired(q)
         /\ InAgeOrder(Cleanup(q))
<1> DEFINE e == Expired(q)
<1>1. e \in 0 .. Len(q) /\ Len(q) \in Nat
  BY ExpiredType
<1>2. \A i \in e + 1 .. Len(q) : q[i] \in Packet
  BY <1>1, ElementOfSeq
<1> HIDE DEF e
<1>3. /\ SubSeq(q, e + 1, Len(q)) \in Seq(Packet)
      /\ Len(SubSeq(q, e + 1, Len(q))) = Len(q) - e
      /\ \A i \in 1 .. Len(q) - e : SubSeq(q, e + 1, Len(q))[i] = q[e + i]
  <2>1. e + 1 \in Int /\ Len(q) \in Int /\ Len(q) - (e + 1) + 1 = Len(q) - e
    BY <1>1
  <2>2. /\ SubSeq(q, e + 1, Len(q)) \in Seq(Packet)
        /\ Len(SubSeq(q, e + 1, Len(q))) =
             IF e + 1 <= Len(q) THEN Len(q) - (e + 1) + 1 ELSE 0
        /\ \A i \in 1 .. Len(q) - (e + 1) + 1 :
             SubSeq(q, e + 1, Len(q))[i] = q[(e + 1) + i - 1]
    BY <1>2, <2>1, SubSeqProperties
  <2>3. Len(SubSeq(q, e + 1, Len(q))) = Len(q) - e
    BY <1>1, <2>2
  <2>4. ASSUME NEW i \in 1 .. Len(q) - e
        PROVE  SubSeq(q, e + 1, Len(q))[i] = q[e + i]
    <3>1. i \in 1 .. Len(q) - (e + 1) + 1 /\ (e + 1) + i - 1 = e + i
      BY <1>1
    <3>2. SubSeq(q, e + 1, Len(q))[i] = q[(e + 1) + i - 1]
      BY <2>2, <3>1
    <3> QED
      BY <3>1, <3>2
  <2> QED
    BY <2>2, <2>3, <2>4
<1>4. \A i, j \in 1 .. Len(q) - e : i < j => q[e + i].age >= q[e + j].age
  BY <1>1 DEF InAgeOrder
<1> QED
  BY <1>1, <1>3, <1>4 DEF Cleanup, InAgeOrder, e

\* What Dequeue leaves is in order too.
LEMMA TailInOrder ==
  ASSUME NEW q \in Seq(Packet), InAgeOrder(q), q # <<>>
  PROVE  /\ Head(q) \in Packet
         /\ Tail(q) \in Seq(Packet)
         /\ Len(Tail(q)) = Len(q) - 1
         /\ InAgeOrder(Tail(q))
<1>1. /\ Head(q) \in Packet /\ Tail(q) \in Seq(Packet)
      /\ Len(Tail(q)) = Len(q) - 1
      /\ \A i \in 1 .. Len(Tail(q)) : Tail(q)[i] = q[i + 1]
  BY HeadTailProperties
<1>2. Len(q) \in Nat
  OBVIOUS
<1> QED
  BY <1>1, <1>2 DEF InAgeOrder

\* Enqueue appends a packet that is younger than all others.
LEMMA AppendInOrder ==
  ASSUME NEW q \in Seq(Packet), InAgeOrder(q), NEW d \in Durations
  PROVE  /\ Append(q, [time |-> d, age |-> 0]) \in Seq(Packet)
         /\ Len(Append(q, [time |-> d, age |-> 0])) = Len(q) + 1
         /\ InAgeOrder(Append(q, [time |-> d, age |-> 0]))
<1> DEFINE p == [time |-> d, age |-> 0]
<1>1. p \in Packet /\ p.age = 0
  BY QueueAssumption DEF Packet
<1>2. Len(q) \in Nat /\ \A i \in 1 .. Len(q) : q[i].age \in Nat
  <2>1. \A i \in 1 .. Len(q) : q[i] \in Packet
    BY ElementOfSeq
  <2> QED
    BY <2>1, QueueAssumption DEF Packet
<1> HIDE DEF p
<1>3. /\ Append(q, p) \in Seq(Packet)
      /\ Len(Append(q, p)) = Len(q) + 1
      /\ \A i \in 1 .. Len(q) : Append(q, p)[i] = q[i]
      /\ Append(q, p)[Len(q) + 1] = p
  BY <1>1, AppendProperties
<1>4. InAgeOrder(Append(q, p))
  BY <1>1, <1>2, <1>3 DEF InAgeOrder
<1> QED
  BY <1>3, <1>4 DEF p

\* Time passes for all packets alike.
LEMMA OlderInOrder ==
  ASSUME NEW q \in Seq(Packet), InAgeOrder(q)
  PROVE  LET r == [i \in 1 .. Len(q) |-> Older(q[i])]
         IN  r \in Seq(Packet) /\ Len(r) = Len(q) /\ InAgeOrder(r)
<1> DEFINE r == [i \in 1 .. Len(q) |-> Older(q[i])]
<1>1. Len(q) \in Nat /\ \A i \in 1 .. Len(q) : q[i] \in Packet
  BY ElementOfSeq
<1>2. \A i \in 1 .. Len(q) : Older(q[i]) \in Packet
  <2> SUFFICES ASSUME NEW p \in Packet PROVE Older(p) \in Packet
    BY <1>1
  <2>1. p.age \in 0..MaxDelay /\ p.time \in Durations
    BY DEF Packet
  <2>2. (IF p.age < MaxDelay THEN p.age + 1 ELSE p.age) \in 0..MaxDelay
    BY <2>1, QueueAssumption
  <2> QED
    BY <2>1, <2>2 DEF Older, Packet
<1>3. r \in Seq(Packet) /\ Len(r) = Len(q)
  BY <1>1, <1>2
<1>4. \A i \in 1 .. Len(q) : Older(q[i]).age = IF q[i].age < MaxDelay
                                               THEN q[i].age + 1 ELSE q[i].age
  BY <1>1 DEF Older, Packet
<1>5. \A i \in 1 .. Len(q) : q[i].age \in 0..MaxDelay
  BY <1>1 DEF Packet
<1>6. InAgeOrder(r)
  BY <1>1, <1>3, <1>4, <1>5, QueueAssumption DEF InAgeOrder
<1> QED
  BY <1>3, <1>6

-----------------------------------------------------------------------------
(***************************************************************************)
(* Types and the queue.                                                    *)
(***************************************************************************)
QueueOK(q, size) == /\ q \in Seq(Packet) /\ InAgeOrder(q)
                    /\ size = Len(q) /\ size <= MaxSize

\* The queue before and after Cleanup.
LEMMA QueueNow ==
  ASSUME Shape
  PROVE  /\ QueueOK(m_queue, m_size)
         /\ QueueOK(Cleaned, CleanedSize)
         /\ Cleaned # <<>> => QueueOK(Tail(Cleaned), CleanedSize - 1)
<1>1. /\ m_queue \in Seq(Packet) /\ InAgeOrder(m_queue)
      /\ m_size = Len(m_queue) /\ m_size <= MaxSize /\ Len(m_queue) \in Nat
  BY DEF Shape, TypeOK, SizeExact, OldestFirst, InAgeOrder
<1>2. Expired(m_queue) \in 0 .. Len(m_queue)
  BY <1>1, ExpiredType
<1>3. QueueOK(Cleaned, CleanedSize)
  <2>1. /\ Cleaned \in Seq(Packet) /\ InAgeOrder(Cleaned)
        /\ Len(Cleaned) = Len(m_queue) - Expired(m_queue)
    BY <1>1, CleanupProperties DEF Cleaned
  <2>2. CleanedSize = Len(m_queue) - Expired(m_queue)
    BY <1>1 DEF CleanedSize
  <2> QED
    BY <1>1, <1>2, <2>1, <2>2, QueueAssumption DEF QueueOK
<1>4. ASSUME Cleaned # <<>> PROVE QueueOK(Tail(Cleaned), CleanedSize - 1)
  <2>1. /\ Tail(Cleaned) \in Seq(Packet) /\ InAgeOrder(Tail(Cleaned))
        /\ Len(Tail(Cleaned)) = Len(Cleaned) - 1
    BY <1>3, <1>4, TailInOrder DEF QueueOK
  <2>2. Len(Cleaned) \in Nat /\ CleanedSize = Len(Cleaned) /\ CleanedSize <= MaxSize
    BY <1>3 DEF QueueOK
  <2> QED
    BY <2>1, <2>2, QueueAssumption DEF QueueOK
<1> QED
  BY <1>1, <1>3, <1>4 DEF QueueOK

\* A queue in order is what TypeOK, SizeExact and OldestFirst say of m_queue.
LEMMA QueueThen ==
  ASSUME QueueOK(m_queue', m_size')
  PROVE  /\ m_queue' \in Seq(Packet) /\ m_size' \in Nat
         /\ SizeExact' /\ OldestFirst'
  BY DEF QueueOK, InAgeOrder, SizeExact, OldestFirst

\* Packets take time.
LEMMA DurationPositive == \A d \in Durations : d \in Nat /\ 0 < d
  BY TimeAssumption

\* What stays when the queue and the chains are well formed.
LEMMA ShapeThen ==
  ASSUME Shape, m_slotRemainTime' \in 0 .. Wrap - 1,
         pending' \in [Chain -> Event], Paths', QueueOK(m_queue', m_size'),
         UNCHANGED <<m_wifimaclow_flag, own, clock, fitted>>,
         crashed' \in {"no", "null", "assert"}
  PROVE  Shape'
  BY QueueThen DEF Shape, TypeOK

\* A chain that stops.
LEMMA NothingSentShape ==
  ASSUME Shape, NEW ch \in Chain, NEW q, NEW size, QueueOK(q, size),
         NothingSent(ch, q, size),
         UNCHANGED <<m_wifimaclow_flag, own, clock, fitted>>,
         crashed' \in {"no", "null", "assert"}
  PROVE  Shape'
<1>1. /\ pending' = [pending EXCEPT ![ch] = NoEvent] /\ m_queue' = q
      /\ m_size' = size /\ m_slotRemainTime' = m_slotRemainTime
  BY DEF NothingSent
<1>2. NoEvent \in Event /\ NoEvent.what = "none"
  BY DEF NoEvent, Event, Events
<1>3. pending \in [Chain -> Event] /\ m_slotRemainTime \in 0 .. Wrap - 1
  BY DEF Shape, TypeOK
<1>4. pending' \in [Chain -> Event]
  BY <1>1, <1>2, <1>3
<1>5. \A c \in Chain : Active(c)' => Active(c) /\ pending'[c] = pending[c]
  BY <1>1, <1>2, <1>3 DEF Active
<1>6. Paths'
  BY <1>5 DEF Shape, Paths
<1> QED
  BY <1>1, <1>3, <1>4, <1>6, ShapeThen

\* A chain that sends a packet.
LEMMA SendsShape ==
  ASSUME Shape, NEW ch \in Chain, NEW ev \in Event,
         pending' = [pending EXCEPT ![ch] = ev],
         ev.what \in IF m_wifimaclow_flag THEN {"StartTransmission"}
                     ELSE {"SendFiDown", "SendPacketDown"},
         m_slotRemainTime' \in 0 .. Wrap - 1, QueueOK(m_queue', m_size'),
         UNCHANGED <<m_wifimaclow_flag, own, clock, fitted>>,
         crashed' \in {"no", "null", "assert"}
  PROVE  Shape'
<1>1. pending \in [Chain -> Event]
  BY DEF Shape, TypeOK
<1>2. pending' \in [Chain -> Event] /\ pending'[ch] = ev
  BY <1>1
<1>3. \A c \in Chain : c # ch => pending'[c] = pending[c]
  BY <1>1
<1>4. Paths'
  <2> SUFFICES ASSUME NEW c \in Chain, Active(c)'
               PROVE  pending'[c].what \in
                        IF m_wifimaclow_flag THEN {"StartTransmission"}
                        ELSE {"SendFiDown", "SendPacketDown"}
    BY DEF Paths
  <2>1. CASE c = ch
    BY <1>2, <2>1
  <2>2. CASE c # ch
    BY <1>3, <2>2 DEF Shape, Paths, Active
  <2> QED
    BY <2>1, <2>2
<1> QED
  BY <1>2, <1>4, ShapeThen

\* StartTransmission, on the queue q that Cleanup (and, after a packet,
\* Dequeue) has left.
LEMMA StartTransmissionShape ==
  ASSUME Shape, NEW ch \in Chain, NEW q, NEW size, QueueOK(q, size),
         NEW total \in Nat, StartTransmission(ch, q, size, total),
         UNCHANGED <<m_wifimaclow_flag, own, clock, crashed, fitted>>
  PROVE  Shape'
<1>0. /\ m_slotRemainTime \in Nat /\ crashed' \in {"no", "null", "assert"}
      /\ \A n \in 0 .. Wrap - 1 : n \in Nat
  BY WholeSlot DEF Shape, TypeOK
<1>1. CASE NothingSent(ch, q, size)
  BY <1>0, <1>1, NothingSentShape
<1> DEFINE t == Head(q).time
           m == Charged(m_slotRemainTime, t)
<1>2. ASSUME q # <<>>
      PROVE  /\ t \in Nat /\ m \in 0 .. Wrap - 1 /\ m \in Nat
             /\ GetMicroSeconds(t) \in Nat /\ QueueOK(Tail(q), size - 1)
  <2>1. /\ Head(q) \in Packet /\ Tail(q) \in Seq(Packet)
        /\ Len(Tail(q)) = Len(q) - 1 /\ InAgeOrder(Tail(q))
    BY <1>2, TailInOrder DEF QueueOK
  <2>2. Len(q) \in Nat /\ MaxSize \in Nat
    BY QueueAssumption DEF QueueOK
  <2>3. t \in Durations
    BY <2>1 DEF Packet
  <2> HIDE DEF t
  <2>4. t \in Nat
    BY <2>3, DurationPositive
  <2>5. m \in 0 .. Wrap - 1 /\ GetMicroSeconds(t) \in Nat
    BY <1>0, <2>4, ChargedType, WholeType
  <2>6. m \in Nat
    BY <1>0, <2>5
  <2> QED
    BY <2>1, <2>2, <2>4, <2>5, <2>6 DEF QueueOK
<1>3. CASE q # <<>> /\ m_wifimaclow_flag /\ SendsWifi(ch, q, size)
  <2> DEFINE ev == [what |-> "StartTransmission", due |-> GetMicroSeconds(t),
                    works |-> TRUE, total |-> m]
  <2>1. /\ pending' = [pending EXCEPT ![ch] = ev] /\ m_queue' = Tail(q)
        /\ m_size' = size - 1 /\ m_slotRemainTime' = m
    BY <1>3 DEF SendsWifi
  <2>2. ev \in Event /\ ev.what = "StartTransmission"
    BY <1>2, <1>3 DEF Event, Events
  <2> HIDE DEF ev, t, m
  <2> QED
    BY <1>0, <1>2, <1>3, <2>1, <2>2, SendsShape
<1>4. CASE q # <<>> /\ ~m_wifimaclow_flag /\ FitsLow(Head(q), total)
             /\ SendsLow(ch, q, size, total)
  <2> DEFINE ev == [what |-> "SendPacketDown", due |-> t,
                    works |-> TRUE, total |-> total - t]
  <2>1. /\ pending' = [pending EXCEPT ![ch] = ev] /\ m_queue' = q
        /\ m_size' = size /\ m_slotRemainTime' = m
    BY <1>4 DEF SendsLow
  <2>2. t < total
    BY <1>4 DEF FitsLow
  <2>3. total - t \in Nat
    BY <1>2, <1>4, <2>2
  <2>4. ev \in Event /\ ev.what = "SendPacketDown"
    BY <1>2, <1>4, <2>3 DEF Event, Events
  <2> HIDE DEF ev, t, m
  <2> QED
    BY <1>0, <1>2, <1>4, <2>1, <2>4, SendsShape
<1> QED
  BY <1>1, <1>3, <1>4 DEF StartTransmission

\* Every event keeps the types and the queue.
LEMMA ShapeNext == Shape /\ [Next]_vars => Shape'
<1> SUFFICES ASSUME Shape, [Next]_vars PROVE Shape'
  OBVIOUS
<1>0. /\ pending \in [Chain -> Event] /\ m_slotRemainTime \in 0 .. Wrap - 1
      /\ clock \in 0..SlotTime /\ m_slotRemainTime \in Nat
      /\ m_wifimaclow_flag \in BOOLEAN /\ own \in BOOLEAN /\ fitted \in BOOLEAN
      /\ crashed \in {"no", "null", "assert"}
  BY WholeSlot DEF Shape, TypeOK
<1>1. ASSUME NEW d \in Durations, Queue(d) PROVE Shape'
  <2> DEFINE new == Append(Cleaned, [time |-> d, age |-> 0])
  <2>1. QueueOK(m_queue', m_size')
    <3>1. QueueOK(Cleaned, CleanedSize) /\ Len(Cleaned) \in Nat
      BY QueueNow DEF QueueOK
    <3>2. CASE CleanedSize = MaxSize
      BY <1>1, <3>1, <3>2 DEF Queue, Cleaned, CleanedSize
    <3>3. CASE CleanedSize # MaxSize
      <4>1. m_queue' = new /\ m_size' = CleanedSize + 1
        BY <1>1, <3>3 DEF Queue, Cleaned, CleanedSize
      <4>2. new \in Seq(Packet) /\ Len(new) = Len(Cleaned) + 1 /\ InAgeOrder(new)
        BY <3>1, AppendInOrder DEF QueueOK
      <4>3. CleanedSize = Len(Cleaned) /\ CleanedSize <= MaxSize
        BY <3>1 DEF QueueOK
      <4> HIDE DEF new
      <4> QED
        BY <3>1, <3>3, <4>1, <4>2, <4>3, QueueAssumption DEF QueueOK
    <3> QED
      BY <3>2, <3>3
  <2>2. UNCHANGED <<m_wifimaclow_flag, own, clock, m_slotRemainTime, pending,
                    crashed, fitted>>
    BY <1>1 DEF Queue
  <2>3. Paths'
    BY <2>2 DEF Shape, Paths, Active
  <2> QED
    BY <1>0, <2>1, <2>2, <2>3, ShapeThen
<1>2. ASSUME NEW ch \in Chain, StartTransmissionEvent(ch) PROVE Shape'
  <2>1. pending[ch].total \in Nat
    BY <1>0 DEF Event
  <2>2. /\ StartTransmission(ch, Cleaned, CleanedSize, pending[ch].total)
        /\ UNCHANGED <<m_wifimaclow_flag, own, clock, crashed, fitted>>
    BY <1>2 DEF StartTransmissionEvent
  <2> QED
    BY <2>1, <2>2, QueueNow, StartTransmissionShape
<1>3. ASSUME NEW ch \in Chain, SendFiDownEvent(ch) PROVE Shape'
  <2>1. /\ UNCHANGED <<m_wifimaclow_flag, own, clock, crashed, fitted>>
        /\ \/ StartTransmission(ch, Cleaned, CleanedSize, m_slotRemainTime)
           \/ NothingSent(ch, m_queue, m_size)
    BY <1>3 DEF SendFiDownEvent
  <2> QED
    BY <1>0, <2>1, QueueNow, StartTransmissionShape, NothingSentShape
<1>4. ASSUME NEW ch \in Chain, SendPacketDownEvent(ch) PROVE Shape'
  <2> DEFINE total == GetMicroSeconds(pending[ch].total)
  <2>1. total \in Nat
    <3>1. pending[ch].total \in Nat
      BY <1>0 DEF Event
    <3> QED
      BY <3>1, WholeType
  <2>2. /\ UNCHANGED <<m_wifimaclow_flag, own, clock, fitted>>
        /\ \/ /\ Cleaned # <<>>
              /\ StartTransmission(ch, Tail(Cleaned), CleanedSize - 1, total)
              /\ crashed' = crashed
           \/ NothingSent(ch, Cleaned, CleanedSize) /\ crashed' = "null"
    BY <1>4 DEF SendPacketDownEvent
  <2> HIDE DEF total
  <2> QED
    BY <2>1, <2>2, QueueNow, StartTransmissionShape, NothingSentShape
<1>5. ASSUME SilentSlot PROVE Shape'
  <2>1. /\ clock' = 0 /\ own' \in BOOLEAN /\ m_slotRemainTime' = SlotTime
        /\ UNCHANGED <<m_wifimaclow_flag, pending, m_queue, m_size, crashed, fitted>>
    BY <1>5 DEF SilentSlot
  <2>2. clock' \in 0..SlotTime /\ m_slotRemainTime' \in 0 .. Wrap - 1
    BY <2>1, WholeSlot
  <2> QED
    BY <2>1, <2>2 DEF Shape, TypeOK, Paths, Active, SizeExact, OldestFirst
<1>6. ASSUME NEW ch \in Chain, NEW works \in BOOLEAN, NEW f \in FiTimes,
             FiSlot(ch, works, f)
      PROVE  Shape'
  <2> DEFINE remain == Charged(SlotTime, f)
             ev == [what |-> IF m_wifimaclow_flag THEN "StartTransmission"
                                                  ELSE "SendFiDown",
                    due |-> f, works |-> works, total |-> remain]
  <2>1. /\ clock' = 0 /\ own' = TRUE /\ m_slotRemainTime' = remain
        /\ pending' = IF m_wifimaclow_flag /\ ~works THEN pending
                      ELSE [pending EXCEPT ![ch] = ev]
        /\ fitted' = (fitted /\ FiFits(f))
        /\ UNCHANGED <<m_wifimaclow_flag, m_queue, m_size, crashed>>
    BY <1>6 DEF FiSlot
  <2>2. f \in Nat /\ remain \in 0 .. Wrap - 1 /\ clock' \in 0..SlotTime
    BY <2>1, ChargedType, WholeSlot, TimeAssumption
  <2>3. remain \in Nat
    BY <2>2, WholeSlot
  <2> HIDE DEF remain
  <2>4. ev \in Event
    BY <2>2, <2>3 DEF Event, Events
  <2>5. ev.what = IF m_wifimaclow_flag THEN "StartTransmission" ELSE "SendFiDown"
    OBVIOUS
  <2> HIDE DEF ev
  <2>6. fitted' \in BOOLEAN
    BY <1>0, <2>1
  <2>7. TypeOK'
    BY <1>0, <2>1, <2>2, <2>4, <2>6 DEF Shape, TypeOK
  <2>8. Paths'
    BY <1>0, <2>1, <2>5 DEF Shape, Paths, Active
  <2> QED
    BY <2>1, <2>7, <2>8 DEF Shape, SizeExact, OldestFirst
<1>7. ASSUME NEW f \in FiTimes, FiTooLong(f) PROVE Shape'
  <2>1. /\ clock' = 0 /\ own' = TRUE /\ m_slotRemainTime' = Charged(SlotTime, f)
        /\ crashed' = "assert" /\ fitted' = FALSE
        /\ UNCHANGED <<m_wifimaclow_flag, pending, m_queue, m_size>>
    BY <1>7 DEF FiTooLong
  <2>2. m_slotRemainTime' \in 0 .. Wrap - 1 /\ clock' \in 0..SlotTime
    BY <2>1, ChargedType, WholeSlot, TimeAssumption
  <2> QED
    BY <2>1, <2>2 DEF Shape, TypeOK, Paths, Active, SizeExact, OldestFirst
<1>8. ASSUME Tick PROVE Shape'
  <2>1. /\ clock < SlotTime /\ clock' = clock + 1
        /\ \A ch \in Chain : Active(ch) => pending[ch].due > 0
        /\ pending' = [ch \in Chain |->
             IF Active(ch) THEN [pending[ch] EXCEPT !.due = @ - 1]
                           ELSE pending[ch]]
        /\ m_queue' = [i \in 1 .. Len(m_queue) |-> Older(m_queue[i])]
        /\ UNCHANGED <<m_wifimaclow_flag, own, m_slotRemainTime, m_size, crashed,
                       fitted>>
    BY <1>8 DEF Tick
  <2>2. QueueOK(m_queue', m_size')
    BY <2>1, QueueNow, OlderInOrder DEF QueueOK
  <2>3. ASSUME NEW ch \in Chain
        PROVE  /\ pending'[ch] \in Event
               /\ pending'[ch].what = pending[ch].what
    <3>1. pending[ch] \in Event
      BY <1>0
    <3>2. CASE ~Active(ch)
      BY <2>1, <3>1, <3>2
    <3>3. CASE Active(ch)
      <4>1. pending'[ch] = [pending[ch] EXCEPT !.due = @ - 1]
        BY <2>1, <3>3
      <4>2. pending[ch].due - 1 \in Nat
        BY <2>1, <3>1, <3>3 DEF Event
      <4> QED
        BY <3>1, <4>1, <4>2 DEF Event
    <3> QED
      BY <3>2, <3>3
  <2>4. pending' \in [Chain -> Event] /\ clock' \in 0..SlotTime
    BY <1>0, <2>1, <2>3, WholeSlot
  <2>5. Paths'
    BY <2>1, <2>3 DEF Shape, Paths, Active
  <2> QED
    BY <1>0, <2>1, <2>2, <2>4, <2>5, QueueThen DEF Shape, TypeOK
<1>9. CASE UNCHANGED vars
  BY <1>9 DEF vars, Shape, TypeOK, Paths, Active, SizeExact, OldestFirst
<1> QED
  BY <1>1, <1>2, <1>3, <1>4, <1>5, <1>6, <1>7, <1>8, <1>9 DEF Next

-----------------------------------------------------------------------------
(***************************************************************************)
(* The budget.                                                             *)
(***************************************************************************)
\* The numbers of a state.
LEMMA Numbers ==
  ASSUME Shape
  PROVE  /\ clock \in Nat /\ clock <= SlotTime
         /\ m_slotRemainTime \in 0 .. Wrap - 1 /\ m_slotRemainTime \in Nat
         /\ pending \in [Chain -> Event]
         /\ \A ch \in Chain : /\ pending[ch].due \in Nat /\ End(ch) \in Nat
                              /\ pending[ch].total \in Nat
  BY WholeSlot DEF Shape, TypeOK, Event, End

\* A chain that stops.
LEMMA NothingSentTiming ==
  ASSUME Shape, Timing, NEW ch \in Chain, NEW q, NEW size,
         NothingSent(ch, q, size), UNCHANGED <<m_wifimaclow_flag, own, clock>>
  PROVE  Timing'
<1>1. /\ pending' = [pending EXCEPT ![ch] = NoEvent]
      /\ m_slotRemainTime' = m_slotRemainTime
  BY DEF NothingSent
<1>2. \A c \in Chain : Active(c)' => Active(c) /\ pending'[c] = pending[c]
  BY <1>1, Numbers DEF Active, NoEvent
<1>3. \A c \in Chain : Active(c)' => End(c)' = End(c)
  BY <1>2 DEF End
<1>4. WifiPath'
  BY <1>1, <1>2, <1>3 DEF Timing, WifiPath
<1>5. \A c \in Chain : Active(c)' => /\ Leftover(c) => Leftover(c)'
                                     /\ OnTime(c) => OnTime(c)'
  BY <1>1, <1>2, <1>3 DEF Leftover, OnTime
<1>6. LowPath'
  BY <1>2, <1>5 DEF Timing, LowPath
<1> QED
  BY <1>1, <1>4, <1>6 DEF Timing

\* A chain that sends through WifiMacLow pays with whole microseconds for the
\* whole microseconds it waits.
LEMMA SendsWifiTiming ==
  ASSUME Shape, Timing, NEW ch \in Chain, Active(ch), pending[ch].due = 0,
         NEW q, NEW size, Head(q).time \in Nat,
         m_wifimaclow_flag, FitsWifi(Head(q)), SendsWifi(ch, q, size),
         UNCHANGED <<m_wifimaclow_flag, own, clock>>
  PROVE  Timing'
<1> DEFINE w == GetMicroSeconds(Head(q).time)
           ev == [what |-> "StartTransmission", due |-> w, works |-> TRUE,
                  total |-> Charged(m_slotRemainTime, Head(q).time)]
<1>1. w \in Nat /\ Cut(w) = 0 /\ w <= m_slotRemainTime
  BY WholeType, WholeIsWhole DEF FitsWifi
<1>2. m_slotRemainTime' = m_slotRemainTime - w
  BY <1>1, Numbers, ChargedFits DEF SendsWifi
<1>3. pending' = [pending EXCEPT ![ch] = ev] /\ ev.due = w
  BY DEF SendsWifi
<1> HIDE DEF w, ev
<1>4. pending'[ch].due = w /\ \A c \in Chain : c # ch => pending'[c] = pending[c]
  BY <1>3, Numbers
<1>5. End(ch) = clock /\ End(ch)' = End(ch) + w
  BY <1>1, <1>4, Numbers DEF End
<1>6. \A c \in Chain : c # ch => End(c)' = End(c) /\ Active(c)' = Active(c)
  BY <1>4 DEF End, Active
<1>7. /\ GetMicroSeconds(End(ch)') = GetMicroSeconds(End(ch)) + w
      /\ Cut(End(ch)') = Cut(End(ch))
  BY <1>1, <1>5, Numbers, WholePlus
<1>8. \A c \in Chain : GetMicroSeconds(End(c)) \in Nat
  BY Numbers, WholeType
<1>9. /\ \A c \in Chain : Active(c) =>
            GetMicroSeconds(End(c)) + m_slotRemainTime <= SlotTime
      /\ \A c \in Chain : Active(c) => \E f \in FiTimes : Cut(End(c)) = Cut(f)
      /\ \A a, b \in Chain : Active(a) /\ Active(b) /\ a # b =>
           GetMicroSeconds(End(a)) + GetMicroSeconds(End(b)) + m_slotRemainTime
             <= SlotTime
  BY DEF Timing, WifiPath
<1>10. ASSUME NEW c \in Chain, Active(c)'
       PROVE  /\ GetMicroSeconds(End(c)') + m_slotRemainTime' <= SlotTime
              /\ \E f \in FiTimes : Cut(End(c)') = Cut(f)
  <2>1. CASE c = ch
    BY <1>1, <1>2, <1>7, <1>8, <1>9, <2>1, Numbers, WholeSlot
  <2>2. CASE c # ch
    BY <1>1, <1>2, <1>6, <1>8, <1>9, <1>10, <2>2, Numbers, WholeSlot
  <2> QED
    BY <2>1, <2>2
<1>11. ASSUME NEW a \in Chain, NEW b \in Chain, Active(a)', Active(b)', a # b
       PROVE  GetMicroSeconds(End(a)') + GetMicroSeconds(End(b)')
                + m_slotRemainTime' <= SlotTime
  <2>0. /\ Active(a) /\ Active(b)
        /\ GetMicroSeconds(End(a)) + GetMicroSeconds(End(b)) + m_slotRemainTime
             <= SlotTime
    BY <1>6, <1>9, <1>11
  <2>1. CASE a = ch
    BY <1>1, <1>2, <1>6, <1>7, <1>8, <1>11, <2>0, <2>1, Numbers, WholeSlot
  <2>2. CASE b = ch
    BY <1>1, <1>2, <1>6, <1>7, <1>8, <1>11, <2>0, <2>2, Numbers, WholeSlot
  <2>3. CASE a # ch /\ b # ch
    BY <1>1, <1>2, <1>6, <1>8, <2>0, <2>3, Numbers, WholeSlot
  <2> QED
    BY <2>1, <2>2, <2>3
<1>12. WifiPath'
  BY <1>10, <1>11 DEF WifiPath
<1>13. LowPath' /\ m_slotRemainTime' <= SlotTime
  BY <1>1, <1>2, Numbers, WholeSlot DEF LowPath, Timing
<1> QED
  BY <1>12, <1>13 DEF Timing

\* What a chain through TdmaMacLow may still use: nothing, or time that is
\* left both in m_slotRemainTime and in the slot.
Allowance(ch, total) ==
  \/ total = 0
  \/ /\ ~Leftover(ch)
     /\ total <= m_slotRemainTime
     /\ \E f \in FiTimes : clock + total <= SlotTime + Cut(f)

\* A chain that sends through TdmaMacLow.
LEMMA SendsLowTiming ==
  ASSUME Shape, Timing, NEW ch \in Chain, Active(ch),
         NEW q, NEW size, Head(q).time \in Nat, NEW total \in Nat,
         ~m_wifimaclow_flag, Allowance(ch, total), FitsLow(Head(q), total),
         SendsLow(ch, q, size, total), UNCHANGED <<m_wifimaclow_flag, own, clock>>
  PROVE  Timing'
<1> DEFINE t == Head(q).time
           ev == [what |-> "SendPacketDown", due |-> t, works |-> TRUE,
                  total |-> total - t]
<1>1. t \in Nat /\ t < total /\ ~Leftover(ch) /\ total <= m_slotRemainTime
  BY DEF FitsLow, Allowance
<1>2. GetMicroSeconds(t) \in Nat /\ GetMicroSeconds(t) <= t
  BY <1>1, WholeType
<1>3. m_slotRemainTime' = m_slotRemainTime - GetMicroSeconds(t)
  BY <1>1, <1>2, Numbers, ChargedFits DEF SendsLow
<1>4. /\ pending' = [pending EXCEPT ![ch] = ev]
      /\ ev.due = t /\ ev.total = total - t /\ ev.what = "SendPacketDown"
  BY DEF SendsLow
<1>5. PICK f \in FiTimes : clock + total <= SlotTime + Cut(f)
  BY <1>1 DEF Allowance
<1>6. Cut(f) \in Nat
  BY WholeType, TimeAssumption
<1> HIDE DEF t, ev
<1>7. pending'[ch] = ev /\ \A c \in Chain : c # ch => pending'[c] = pending[c]
  BY <1>4, Numbers
<1>8. End(ch)' = clock + t
  BY <1>4, <1>7 DEF End
<1>9. OnTime(ch)'
  <2>1. 0 < pending'[ch].total /\ pending'[ch].total <= m_slotRemainTime'
    BY <1>1, <1>2, <1>3, <1>4, <1>7, Numbers
  <2>2. End(ch)' + pending'[ch].total <= SlotTime + Cut(f)
    BY <1>1, <1>4, <1>5, <1>6, <1>7, <1>8, Numbers, WholeSlot
  <2> QED
    BY <1>4, <1>7, <2>1, <2>2 DEF OnTime
<1>10. ASSUME NEW c \in Chain, Active(c)', c # ch PROVE Leftover(c)'
  <2>1. Active(c) /\ pending'[c] = pending[c]
    BY <1>7, <1>10 DEF Active
  <2>2. Leftover(c)
    BY <1>1, <1>10, <2>1 DEF Timing, LowPath
  <2> QED
    BY <2>1, <2>2 DEF Leftover, End
<1>11. own
  BY <1>1 DEF Timing, LowPath
<1>12. LowPath'
  BY <1>9, <1>10, <1>11 DEF LowPath
<1>13. m_slotRemainTime' <= SlotTime
  BY <1>2, <1>3, Numbers, WholeSlot DEF Timing
<1> QED
  BY <1>12, <1>13 DEF Timing, WifiPath

\* StartTransmission keeps within the budget.
LEMMA StartTransmissionTiming ==
  ASSUME Shape, Timing, NEW ch \in Chain, Active(ch), pending[ch].due = 0,
         NEW q, NEW size, QueueOK(q, size), NEW total \in Nat,
         ~m_wifimaclow_flag => Allowance(ch, total),
         StartTransmission(ch, q, size, total),
         UNCHANGED <<m_wifimaclow_flag, own, clock>>
  PROVE  Timing'
<1>1. CASE NothingSent(ch, q, size)
  BY <1>1, NothingSentTiming
<1>2. ASSUME q # <<>> PROVE Head(q).time \in Nat
  <2>1. Head(q) \in Packet
    BY <1>2, TailInOrder DEF QueueOK
  <2>2. Head(q).time \in Durations
    BY <2>1 DEF Packet
  <2> QED
    BY <2>2, DurationPositive
<1>3. CASE q # <<>> /\ m_wifimaclow_flag /\ FitsWifi(Head(q)) /\ SendsWifi(ch, q, size)
  BY <1>2, <1>3, SendsWifiTiming
<1>4. CASE q # <<>> /\ ~m_wifimaclow_flag /\ FitsLow(Head(q), total)
             /\ SendsLow(ch, q, size, total)
  BY <1>2, <1>4, SendsLowTiming
<1> QED
  BY <1>1, <1>3, <1>4 DEF StartTransmission

\* At the end of a slot one chain at most is left, and it is due within the
\* part of a microsecond that an FI's time was cut by.
LEMMA SlotEnd ==
  ASSUME Shape, Timing, clock = SlotTime
  PROVE  /\ \A a, b \in Chain : Active(a) /\ Active(b) => a = b
         /\ \A ch \in Chain : Active(ch) /\ m_wifimaclow_flag =>
              /\ GetMicroSeconds(pending[ch].due) = 0
              /\ \E f \in FiTimes : Cut(pending[ch].due) = Cut(f)
         /\ \A ch \in Chain : Active(ch) /\ ~m_wifimaclow_flag =>
              /\ pending[ch].what = "SendPacketDown"
              /\ pending[ch].total < Us
              /\ \E f \in FiTimes : pending[ch].due < Cut(f)
<1>0. \A f \in FiTimes : Cut(f) \in Nat /\ Cut(f) < Us
  BY WholeType, TimeAssumption
<1>1. \A ch \in Chain : /\ End(ch) = pending[ch].due + SlotTime
                         /\ pending[ch].due \in Nat /\ pending[ch].total \in Nat
  BY Numbers, WholeSlot DEF End
<1>2. \A ch \in Chain : /\ GetMicroSeconds(End(ch)) =
                              GetMicroSeconds(pending[ch].due) + SlotTime
                         /\ Cut(End(ch)) = Cut(pending[ch].due)
                         /\ GetMicroSeconds(pending[ch].due) \in Nat
  BY <1>1, WholePlus, WholeSlot, WholeType
<1>3. ASSUME NEW ch \in Chain, Active(ch), m_wifimaclow_flag
      PROVE  /\ GetMicroSeconds(pending[ch].due) = 0
             /\ \E f \in FiTimes : Cut(pending[ch].due) = Cut(f)
  <2>1. /\ GetMicroSeconds(End(ch)) + m_slotRemainTime <= SlotTime
        /\ \E f \in FiTimes : Cut(End(ch)) = Cut(f)
    BY <1>3 DEF Timing, WifiPath
  <2> QED
    BY <1>2, <2>1, Numbers, WholeSlot
<1>4. ASSUME NEW ch \in Chain, Active(ch), ~m_wifimaclow_flag
      PROVE  /\ pending[ch].what = "SendPacketDown" /\ pending[ch].total < Us
             /\ \E f \in FiTimes : pending[ch].due < Cut(f)
             /\ ~Leftover(ch)
  <2>1. ~Leftover(ch)
    BY <1>0, <1>1, WholeSlot DEF Leftover
  <2>2. OnTime(ch)
    BY <1>4, <2>1 DEF Timing, LowPath
  <2>3. PICK f \in FiTimes : End(ch) + pending[ch].total <= SlotTime + Cut(f)
    BY <2>2 DEF OnTime
  <2>4. 0 < pending[ch].total
    BY <2>2 DEF OnTime
  <2>5. pending[ch].due < Cut(f) /\ pending[ch].total < Us
    BY <1>0, <1>1, <2>3, <2>4, WholeSlot
  <2>6. pending[ch].what # "SendFiDown"
    BY <1>1, <2>2, WholeSlot DEF OnTime
  <2>7. pending[ch].what \in {"SendFiDown", "SendPacketDown"}
    BY <1>4 DEF Shape, Paths
  <2> QED
    BY <2>1, <2>5, <2>6, <2>7
<1>5. ASSUME NEW a \in Chain, NEW b \in Chain, Active(a), Active(b), a # b
      PROVE  FALSE
  <2>1. CASE m_wifimaclow_flag
    <3>1. GetMicroSeconds(End(a)) + GetMicroSeconds(End(b)) + m_slotRemainTime
            <= SlotTime
      BY <1>5, <2>1 DEF Timing, WifiPath
    <3> QED
      BY <1>2, <3>1, Numbers, WholeSlot
  <2>2. CASE ~m_wifimaclow_flag
    BY <1>4, <1>5, <2>2 DEF Timing, LowPath
  <2> QED
    BY <2>1, <2>2
<1> QED
  BY <1>3, <1>4, <1>5

\* As long as the FIs fit every event keeps to the budget.
LEMMA TimingNext ==
  ASSUME Shape, Timing, [Next]_vars, fitted'
  PROVE  Timing'
<1>1. ASSUME NEW d \in Durations, Queue(d) PROVE Timing'
  <2>1. UNCHANGED <<m_wifimaclow_flag, own, clock, m_slotRemainTime, pending>>
    BY <1>1 DEF Queue
  <2> QED
    BY <2>1 DEF Timing, WifiPath, LowPath, Leftover, OnTime, End, Active
<1>2. ASSUME NEW ch \in Chain, StartTransmissionEvent(ch) PROVE Timing'
  <2>1. /\ Active(ch) /\ pending[ch].due = 0
        /\ pending[ch].what = "StartTransmission"
        /\ StartTransmission(ch, Cleaned, CleanedSize, pending[ch].total)
        /\ UNCHANGED <<m_wifimaclow_flag, own, clock>>
    BY <1>2 DEF StartTransmissionEvent, Due, Active
  <2>2. m_wifimaclow_flag
    BY <2>1 DEF Shape, Paths
  <2> QED
    BY <2>1, <2>2, Numbers, QueueNow, StartTransmissionTiming
<1>3. ASSUME NEW ch \in Chain, SendFiDownEvent(ch) PROVE Timing'
  <2>1. /\ Active(ch) /\ pending[ch].due = 0 /\ pending[ch].what = "SendFiDown"
        /\ UNCHANGED <<m_wifimaclow_flag, own, clock>>
        /\ \/ StartTransmission(ch, Cleaned, CleanedSize, m_slotRemainTime)
           \/ NothingSent(ch, m_queue, m_size)
    BY <1>3 DEF SendFiDownEvent, Due, Active
  <2>2. ~m_wifimaclow_flag => Allowance(ch, m_slotRemainTime)
    <3> SUFFICES ASSUME ~m_wifimaclow_flag
                 PROVE  Allowance(ch, m_slotRemainTime)
      OBVIOUS
    <3>1. ~Leftover(ch)
      BY <2>1 DEF Leftover
    <3>2. OnTime(ch)
      BY <2>1, <3>1 DEF Timing, LowPath
    <3> QED
      BY <2>1, <3>1, <3>2, Numbers DEF Allowance, OnTime, End
  <2> QED
    BY <2>1, <2>2, Numbers, QueueNow, StartTransmissionTiming, NothingSentTiming
<1>4. ASSUME NEW ch \in Chain, SendPacketDownEvent(ch) PROVE Timing'
  <2> DEFINE total == GetMicroSeconds(pending[ch].total)
  <2>0. total \in Nat /\ total <= pending[ch].total /\ pending[ch].total \in Nat
    BY Numbers, WholeType
  <2>1. /\ Active(ch) /\ pending[ch].due = 0
        /\ UNCHANGED <<m_wifimaclow_flag, own, clock>>
        /\ \/ /\ Cleaned # <<>>
              /\ StartTransmission(ch, Tail(Cleaned), CleanedSize - 1, total)
           \/ NothingSent(ch, Cleaned, CleanedSize)
    BY <1>4 DEF SendPacketDownEvent, Due, Active
  <2>2. ~m_wifimaclow_flag => Allowance(ch, total)
    <3> SUFFICES ASSUME ~m_wifimaclow_flag PROVE Allowance(ch, total)
      OBVIOUS
    <3>1. CASE Leftover(ch)
      BY <2>0, <3>1, WholeSmall DEF Leftover, Allowance
    <3>2. CASE ~Leftover(ch)
      <4>1. OnTime(ch)
        BY <2>1, <3>2 DEF Timing, LowPath
      <4>2. PICK f \in FiTimes : End(ch) + pending[ch].total <= SlotTime + Cut(f)
        BY <4>1 DEF OnTime
      <4>3. Cut(f) \in Nat
        BY WholeType, TimeAssumption
      <4>4. clock + total <= SlotTime + Cut(f)
        BY <2>0, <2>1, <4>2, <4>3, Numbers, WholeSlot DEF End
      <4>5. total <= m_slotRemainTime
        BY <2>0, <4>1, Numbers DEF OnTime
      <4> QED
        BY <3>2, <4>4, <4>5 DEF Allowance
    <3> QED
      BY <3>1, <3>2
  <2> HIDE DEF total
  <2> QED
    BY <2>0, <2>1, <2>2, QueueNow, StartTransmissionTiming, NothingSentTiming
<1>5. ASSUME SilentSlot PROVE Timing'
  <2>1. /\ clock = SlotTime /\ clock' = 0 /\ m_slotRemainTime' = SlotTime
        /\ UNCHANGED <<m_wifimaclow_flag, pending>>
    BY <1>5 DEF SilentSlot
  <2>2. \A c \in Chain : Active(c)' = Active(c) /\ End(c)' = pending[c].due
    BY <2>1, Numbers DEF Active, End
  <2>3. WifiPath'
    BY <2>1, <2>2, SlotEnd, WholeSlot DEF WifiPath
  <2>4. \A c \in Chain : Active(c) /\ ~m_wifimaclow_flag => Leftover(c)'
    BY <2>1, <2>2, SlotEnd DEF Leftover
  <2>5. LowPath'
    BY <2>1, <2>2, <2>4 DEF LowPath
  <2> QED
    BY <2>1, <2>3, <2>5, WholeSlot DEF Timing
<1>6. ASSUME NEW ch \in Chain, NEW works \in BOOLEAN, NEW f \in FiTimes,
             FiSlot(ch, works, f)
      PROVE  Timing'
  <2> DEFINE w == GetMicroSeconds(f)
             ev == [what |-> IF m_wifimaclow_flag THEN "StartTransmission"
                                                  ELSE "SendFiDown",
                    due |-> f, works |-> works, total |-> Charged(SlotTime, f)]
  <2>1. /\ clock = SlotTime /\ clock' = 0 /\ own' = TRUE /\ ~Active(ch)
        /\ m_slotRemainTime' = Charged(SlotTime, f)
        /\ pending' = IF m_wifimaclow_flag /\ ~works THEN pending
                      ELSE [pending EXCEPT ![ch] = ev]
        /\ m_wifimaclow_flag' = m_wifimaclow_flag
    BY <1>6 DEF FiSlot
  <2>2. ev.due = f /\ ev.total = Charged(SlotTime, f)
    OBVIOUS
  <2>3. /\ f \in Nat /\ w \in Nat /\ Cut(f) \in Nat /\ f = w + Cut(f)
        /\ w <= SlotTime /\ (~m_wifimaclow_flag => f < SlotTime)
    <3>1. f \in Nat /\ w \in Nat /\ Cut(f) \in Nat /\ f = w + Cut(f) /\ w <= f
      BY WholeType, TimeAssumption
    <3>2. FiFits(f)
      BY <1>6 DEF FiSlot
    <3>3. IF m_wifimaclow_flag THEN w <= SlotTime ELSE f < SlotTime
      BY <3>2 DEF FiFits
    <3> HIDE DEF w
    <3> QED
      BY <3>1, <3>3, WholeSlot
  <2>4. Charged(SlotTime, f) = SlotTime - w
    BY <2>3, ChargedFits, WholeSlot
  <2> HIDE DEF w, ev
  <2>5. \A c \in Chain : c # ch => pending'[c] = pending[c]
    BY <2>1, Numbers
  <2>6. Active(ch)' => pending'[ch] = ev
    BY <2>1, Numbers DEF Active
  <2>7. \A c \in Chain : c # ch => /\ Active(c)' = Active(c)
                                    /\ End(c)' = pending[c].due
    BY <2>1, <2>5, Numbers DEF Active, End
  <2>8. Active(ch)' => End(ch)' = f
    BY <2>1, <2>2, <2>3, <2>6 DEF End
  <2>9. CASE m_wifimaclow_flag
    <3>1. ASSUME NEW c \in Chain, Active(c)'
          PROVE  /\ GetMicroSeconds(End(c)') = IF c = ch THEN w ELSE 0
                 /\ \E g \in FiTimes : Cut(End(c)') = Cut(g)
      <4>1. CASE c = ch
        BY <2>8, <3>1, <4>1 DEF w
      <4>2. CASE c # ch
        BY <2>1, <2>7, <2>9, <3>1, <4>2, SlotEnd
      <4> QED
        BY <4>1, <4>2
    <3>2. ASSUME NEW c \in Chain, Active(c)'
          PROVE  GetMicroSeconds(End(c)') + m_slotRemainTime' <= SlotTime
      BY <2>1, <2>3, <2>4, <3>1, <3>2, WholeSlot
    <3>3. ASSUME NEW a \in Chain, NEW b \in Chain, Active(a)', Active(b)', a # b
          PROVE  GetMicroSeconds(End(a)') + GetMicroSeconds(End(b)')
                   + m_slotRemainTime' <= SlotTime
      BY <2>1, <2>3, <2>4, <3>1, <3>3, WholeSlot
    <3>4. WifiPath'
      BY <3>1, <3>2, <3>3 DEF WifiPath
    <3> QED
      BY <2>1, <2>3, <2>4, <2>9, <3>4, WholeSlot DEF Timing, LowPath
  <2>10. CASE ~m_wifimaclow_flag
    <3>1. ASSUME NEW c \in Chain, Active(c)', c # ch PROVE Leftover(c)'
      <4>1. Active(c) /\ End(c)' = pending[c].due /\ pending'[c] = pending[c]
        BY <2>5, <2>7, <3>1
      <4> QED
        BY <2>1, <2>10, <4>1, SlotEnd DEF Leftover
    <3>2. Active(ch)' => OnTime(ch)'
      <4> SUFFICES ASSUME Active(ch)' PROVE OnTime(ch)'
        OBVIOUS
      <4>1. /\ pending'[ch].total = SlotTime - w /\ End(ch)' = f
            /\ m_slotRemainTime' = SlotTime - w
        BY <2>1, <2>2, <2>4, <2>6, <2>8
      <4>2. 0 < SlotTime - w /\ f + (SlotTime - w) <= SlotTime + Cut(f) /\ f < SlotTime
        BY <2>3, <2>10, WholeSlot
      <4>3. SlotTime - w <= SlotTime - w
        BY <2>3, WholeSlot
      <4> QED
        BY <4>1, <4>2, <4>3 DEF OnTime
    <3>3. LowPath'
      BY <2>1, <3>1, <3>2 DEF LowPath
    <3> QED
      BY <2>1, <2>3, <2>4, <2>10, <3>3, WholeSlot DEF Timing, WifiPath
  <2> QED
    BY <2>9, <2>10
<1>7. ASSUME NEW f \in FiTimes, FiTooLong(f) PROVE Timing'
  BY <1>7 DEF FiTooLong
<1>8. ASSUME Tick PROVE Timing'
  <2>1. /\ clock' = clock + 1
        /\ \A ch \in Chain : Active(ch) => pending[ch].due > 0
        /\ pending' = [ch \in Chain |->
             IF Active(ch) THEN [pending[ch] EXCEPT !.due = @ - 1]
                           ELSE pending[ch]]
        /\ UNCHANGED <<m_wifimaclow_flag, own, m_slotRemainTime>>
    BY <1>8 DEF Tick
  <2>2. ASSUME NEW ch \in Chain
        PROVE  /\ pending'[ch].what = pending[ch].what
               /\ pending'[ch].total = pending[ch].total
               /\ Active(ch) => End(ch)' = End(ch)
    <3>1. pending[ch] \in Event /\ pending[ch].due \in Nat /\ clock \in Nat
      BY Numbers
    <3>2. CASE ~Active(ch)
      BY <2>1, <3>2
    <3>3. CASE Active(ch)
      <4>1. pending'[ch] = [pending[ch] EXCEPT !.due = @ - 1]
        BY <2>1, <3>3
      <4>2. /\ pending'[ch].due = pending[ch].due - 1
            /\ pending'[ch].what = pending[ch].what
            /\ pending'[ch].total = pending[ch].total
        BY <3>1, <4>1 DEF Event
      <4>3. End(ch)' = (clock + 1) + (pending[ch].due - 1)
        BY <2>1, <4>2 DEF End
      <4>4. End(ch)' = End(ch)
        BY <3>1, <4>3 DEF End
      <4> QED
        BY <4>2, <4>4
    <3> QED
      BY <3>2, <3>3
  <2>3. \A ch \in Chain : Active(ch)' = Active(ch)
    BY <2>2 DEF Active
  <2>4. WifiPath'
    BY <2>1, <2>2, <2>3 DEF Timing, WifiPath
  <2>5. \A ch \in Chain : Active(ch) => /\ Leftover(ch) => Leftover(ch)'
                                        /\ OnTime(ch) => OnTime(ch)'
    BY <2>1, <2>2 DEF Leftover, OnTime
  <2>6. LowPath'
    BY <2>1, <2>3, <2>5 DEF Timing, LowPath
  <2> QED
    BY <2>1, <2>4, <2>6 DEF Timing
<1>9. CASE UNCHANGED vars
  BY <1>9 DEF vars, Timing, WifiPath, LowPath, Leftover, OnTime, End, Active
<1> QED
  BY <1>1, <1>2, <1>3, <1>4, <1>5, <1>6, <1>7, <1>8, <1>9 DEF Next

\* An FI that does not fit is not forgotten.
LEMMA FittedBefore == [Next]_vars /\ fitted' => fitted
  BY DEF Next, vars, Queue, StartTransmissionEvent, SendFiDownEvent,
         SendPacketDownEvent, SilentSlot, FiSlot, FiTooLong, Tick

-----------------------------------------------------------------------------
(***************************************************************************)
(* The inductive invariant.                                                *)
(***************************************************************************)
\* The invariant holds at start.
LEMMA InitInv == Init => Inv
<1> SUFFICES ASSUME Init PROVE Inv
  OBVIOUS
<1>1. NoEvent \in Event /\ NoEvent.what = "none"
  BY DEF NoEvent, Event, Events
<1>2. m_queue \in Seq(Packet) /\ Len(m_queue) = 0
  BY DEF Init
<1>3. TypeOK
  <2>1. pending \in [Chain -> Event]
    BY <1>1 DEF Init
  <2>2. clock \in 0..SlotTime /\ m_slotRemainTime \in 0 .. Wrap - 1
    BY WholeSlot DEF Init
  <2> QED
    BY <1>2, <2>1, <2>2 DEF Init, TypeOK
<1>4. \A ch \in Chain : ~Active(ch)
  BY <1>1 DEF Init, Active
<1>5. Timing /\ Paths
  BY <1>4, WholeSlot DEF Init, Timing, WifiPath, LowPath, Paths
<1>6. SizeExact /\ OldestFirst
  BY <1>2, QueueAssumption DEF Init, SizeExact, OldestFirst
<1> QED
  BY <1>3, <1>5, <1>6 DEF Inv, Shape

\* Every event keeps it.
LEMMA NextInv == Inv /\ [Next]_vars => Inv'
  BY ShapeNext, TimingNext, FittedBefore DEF Inv

\* So it always holds.
LEMMA Invariance == Spec => []Inv
  BY InitInv, NextInv, PTL DEF Spec

-----------------------------------------------------------------------------
(***************************************************************************)
(* The theorems.                                                           *)
(***************************************************************************)
\* The types, for any slot and any times on the air, of FIs too long for the
\* slot as well: every event that StartTransmission and SendPacketDown
\* schedule is well formed, and none is due in the past.
THEOREM TypeCorrect == Spec => []TypeOK
<1>1. Inv => TypeOK
  BY DEF Inv, Shape
<1> QED
  BY <1>1, Invariance, PTL

\* m_slotRemainTime never wraps around, unless an FI was sent that is longer
\* than the slot: no data packet is charged that it does not cover.
THEOREM BudgetNeverWraps == Spec => []BudgetKept
<1>1. Inv => BudgetKept
  BY DEF Inv, Timing, BudgetKept
<1> QED
  BY <1>1, Invariance, PTL

\* No packet that StartTransmission sends runs over the end of its slot by more
\* than the part of a microsecond cut off from an FI's time.
THEOREM NoPacketStraddles == Spec => []NoStraddle
<1>1. Inv => NoStraddle
  <2> SUFFICES ASSUME Inv, fitted, NEW ch \in Chain, Active(ch)
               PROVE  \E f \in FiTimes : End(ch) <= SlotTime + Cut(f)
    BY DEF NoStraddle, End
  <2>0. Shape /\ Timing
    BY DEF Inv
  <2>1. /\ m_slotRemainTime \in Nat /\ End(ch) \in Nat /\ SlotTime \in Nat
        /\ pending[ch].total \in Nat /\ Us <= SlotTime /\ Us \in Nat
    BY <2>0, Numbers, WholeSlot
  <2>2. \A f \in FiTimes : Cut(f) \in Nat /\ Cut(f) < Us
    BY WholeType, TimeAssumption
  <2>3. CASE m_wifimaclow_flag
    <3>1. PICK f \in FiTimes : Cut(End(ch)) = Cut(f)
      BY <2>0, <2>3 DEF Timing, WifiPath
    <3>2. GetMicroSeconds(End(ch)) + m_slotRemainTime <= SlotTime
      BY <2>0, <2>3 DEF Timing, WifiPath
    <3>3. GetMicroSeconds(End(ch)) \in Nat /\ End(ch) = GetMicroSeconds(End(ch)) + Cut(f)
      BY <2>1, <3>1, WholeType
    <3> QED
      BY <2>1, <2>2, <3>2, <3>3
  <2>4. CASE ~m_wifimaclow_flag
    <3>1. OnTime(ch) \/ Leftover(ch)
      BY <2>0, <2>4 DEF Timing, LowPath
    <3> QED
      BY <2>1, <2>2, <3>1 DEF OnTime, Leftover
  <2> QED
    BY <2>3, <2>4
<1> QED
  BY <1>1, Invariance, PTL

\* The chains of scheduled transmissions do not multiply from slot to slot.
THEOREM NoPileUp == Spec => []ChainsDoNotPileUp
<1>1. Inv => ChainsDoNotPileUp
  BY SlotEnd DEF Inv, ChainsDoNotPileUp
<1> QED
  BY <1>1, Invariance, PTL

\* With TdmaMacLow nothing is pending when another station's slot begins but
\* what the cut-off part of a microsecond leaves, and no packet follows it.
THEOREM LowPathStaysInItsSlot == Spec => []LowPathKeepsItsSlot
<1>1. Inv => LowPathKeepsItsSlot
  <2> SUFFICES ASSUME Inv, fitted, ~m_wifimaclow_flag, ~own,
                      NEW ch \in Chain, Active(ch)
               PROVE  /\ \E f \in FiTimes : clock + pending[ch].due < Cut(f)
                      /\ GetMicroSeconds(pending[ch].total) = 0
    BY DEF LowPathKeepsItsSlot
  <2>1. Leftover(ch) /\ pending[ch].total \in Nat
    BY Numbers DEF Inv, Timing, LowPath
  <2> QED
    BY <2>1, WholeSmall DEF Leftover, End
<1> QED
  BY <1>1, Invariance, PTL

\* m_size of TdmaMacQueue is the length of its list and within m_maxSize.
THEOREM QueueCorrect == Spec => []SizeExact
<1>1. Inv => SizeExact
  BY DEF Inv, Shape
<1> QED
  BY <1>1, Invariance, PTL

\* The packets are in the order in which they came, whatever Enqueue, Dequeue and
\* Cleanup have done: Cleanup, which erases from the head, erases the oldest.
THEOREM OldestLeavesFirst == Spec => []OldestFirst
<1>1. Inv => OldestFirst
  BY DEF Inv, Shape
<1> QED
  BY <1>1, Invariance, PTL

=============================================================================
