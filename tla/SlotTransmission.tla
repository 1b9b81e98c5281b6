-------------------------- MODULE SlotTransmission --------------------------
(***************************************************************************)
(* What a station sends in its slot: the FI packet and then as many queued *)
(* data packets as fit (TdmaSatmac::generate_send_FI_packet, SendFiDown,   *)
(* StartTransmission, SendPacketDown), and the queue they come from        *)
(* (TdmaMacQueue).                                                         *)
(*                                                                         *)
(* Time is counted from the start of the slot, in ticks of which Us make a *)
(* microsecond: the simulator's Time is finer than the microseconds of     *)
(* m_slotTime and m_slotRemainTime.  A packet is its time on the air and   *)
(* the time it has been queued.  The station has simulator events pending: *)
(* the next slotHandler, at clock = SlotTime, and the chains of events     *)
(* that send packet after packet.  Of events at the same time the          *)
(* simulator takes the one scheduled first: that is the slotHandler, which *)
(* was scheduled a whole slot before.                                      *)
(*                                                                         *)
(* Which slots are the station's own is module Satmac's subject: here the  *)
(* slotHandler finds its own slot, or not, nondeterministically.           *)
(***************************************************************************)
EXTENDS Integers, Sequences, FiniteSets

CONSTANTS
  Us,         \* ticks in a microsecond
  Wrap,       \* 2^32 microseconds: m_slotRemainTime is a uint32_t
  SlotTime,   \* m_slotTime
  FiTimes,    \* times on the air of FI packets, which grow with the frame
  Durations,  \* times on the air of data packets
  MaxSize,    \* m_maxSize of the queue
  MaxDelay,   \* m_maxDelay of the queue
  Chain       \* names for chains of transmission events that overlap

\* A slot is a number of microseconds.  Nothing says that an FI fits in it.
ASSUME TimeAssumption ==
  /\ Us \in Nat \ {0}
  /\ Wrap \in Nat
  /\ SlotTime \in 1 .. Wrap - 1 /\ SlotTime % Us = 0
  /\ FiTimes \subseteq Nat \ {0}
  /\ Durations \subseteq Nat \ {0}
ASSUME QueueAssumption == MaxSize \in Nat /\ MaxDelay \in Nat

VARIABLES
  m_wifimaclow_flag,  \* sends through WifiMacLow (TRUE) or TdmaMacLow
  own,                \* is the current slot the station's own
  clock,              \* time since the slot began
  m_slotRemainTime,
  pending,            \* the next event of each chain
  m_queue, m_size,    \* TdmaMacQueue
  crashed,            \* "null": a null packet was sent; "assert": an FI is
                      \* too long for the slot, found by the assertion
  fitted              \* no FI sent so far was too long for the slot (only
                      \* the properties read it)

vars == <<m_wifimaclow_flag, own, clock, m_slotRemainTime, pending, m_queue,
          m_size, crashed, fitted>>

Packet == [time : Durations, age : 0..MaxDelay]

\* An event is due in some ticks.  works says whether node_state_ will
\* be NODE_WORK_FI or NODE_WORK_ADJ then; total is the argument of
\* SendPacketDown.
Events == {"none", "SendFiDown", "StartTransmission", "SendPacketDown"}
Event == [what : Events, due : Nat, works : BOOLEAN, total : Nat]
NoEvent == [what |-> "none", due |-> 0, works |-> FALSE, total |-> 0]
Active(ch) == pending[ch].what # "none"

\* Time::GetMicroSeconds cuts off what is not a whole microsecond.
Cut(t) == t % Us
GetMicroSeconds(t) == t - Cut(t)

\* What is left of a budget of whole microseconds, a uint32_t, when t has been
\* charged to it.
Charged(budget, t) == (budget - GetMicroSeconds(t)) % Wrap

-----------------------------------------------------------------------------
(***************************************************************************)
(* TdmaMacQueue.  Cleanup erases the packets whose time is up; they are at *)
(* the head, for packets are appended with the current time (invariant     *)
(* OldestFirst).  Every operation of the queue begins with Cleanup.        *)
(***************************************************************************)
Expired(q) == Cardinality({i \in 1 .. Len(q) : q[i].age >= MaxDelay})
Cleanup(q) == SubSeq(q, Expired(q) + 1, Len(q))

\* Mutant: the packet is pushed at the front.
QueueInFront(d) ==
  /\ crashed = "no"
  /\ m_size - Expired(m_queue) # MaxSize
  /\ m_queue' = <<[time |-> d, age |-> 0]>> \o Cleanup(m_queue)
  /\ m_size' = m_size - Expired(m_queue) + 1
  /\ UNCHANGED <<m_wifimaclow_flag, own, clock, m_slotRemainTime, pending,
                 crashed, fitted>>

\* Queue: Enqueue, and NotifyTxDrop when there is no room.
Queue(d) ==
  LET q == Cleanup(m_queue)
      size == m_size - Expired(m_queue)
  IN  /\ crashed = "no"
      /\ \/ /\ size = MaxSize
            /\ m_queue' = q
            /\ m_size' = size
         \/ /\ size # MaxSize
            /\ m_queue' = Append(q, [time |-> d, age |-> 0])
            /\ m_size' = size + 1
      /\ UNCHANGED <<m_wifimaclow_flag, own, clock, m_slotRemainTime,
                     pending, crashed, fitted>>

-----------------------------------------------------------------------------
(***************************************************************************)
(* StartTransmission(total), run by chain ch when q is what Cleanup has    *)
(* left of the queue and size its m_size.                                  *)
(***************************************************************************)
\* Mutant: one microsecond too much.
FitsWifiLoosely(p) == GetMicroSeconds(p.time) <= m_slotRemainTime + Us

\* Through WifiMacLow the packet must fit in m_slotRemainTime, in whole
\* microseconds.
FitsWifi(p) == GetMicroSeconds(p.time) <= m_slotRemainTime
\* Through TdmaMacLow it must be shorter than the argument.
FitsLow(p, total) == p.time < total

NothingSent(ch, q, size) ==
  /\ pending' = [pending EXCEPT ![ch] = NoEvent]
  /\ m_queue' = q
  /\ m_size' = size
  /\ UNCHANGED m_slotRemainTime

\* Mutant: the time spent is not taken off the budget.
SendsWifiUnpaid(ch, q, size) ==
  /\ pending' = [pending EXCEPT ![ch] =
       [what |-> "StartTransmission", due |-> GetMicroSeconds(Head(q).time),
        works |-> TRUE, total |-> Charged(m_slotRemainTime, Head(q).time)]]
  /\ m_queue' = Tail(q)
  /\ m_size' = size - 1
  /\ UNCHANGED m_slotRemainTime

\* Mutant: the wait is as long as the packet, the charge whole microseconds.
SendsWifiExactly(ch, q, size) ==
  /\ m_slotRemainTime' = Charged(m_slotRemainTime, Head(q).time)
  /\ pending' = [pending EXCEPT ![ch] =
       [what |-> "StartTransmission", due |-> Head(q).time, works |-> TRUE,
        total |-> Charged(m_slotRemainTime, Head(q).time)]]
  /\ m_queue' = Tail(q)
  /\ m_size' = size - 1

\* SendPacketDown dequeues and sends at once, then waits for the whole
\* microseconds that were charged (m_lastpktUsedTime).
SendsWifi(ch, q, size) ==
  /\ m_slotRemainTime' = Charged(m_slotRemainTime, Head(q).time)
  /\ pending' = [pending EXCEPT ![ch] =
       [what |-> "StartTransmission", due |-> GetMicroSeconds(Head(q).time),
        works |-> TRUE, total |-> Charged(m_slotRemainTime, Head(q).time)]]
  /\ m_queue' = Tail(q)
  /\ m_size' = size - 1

\* Mutant: the argument too is reduced by whole microseconds.
SendsLowCut(ch, q, size, total) ==
  /\ m_slotRemainTime' = Charged(m_slotRemainTime, Head(q).time)
  /\ pending' = [pending EXCEPT ![ch] =
       [what |-> "SendPacketDown", due |-> Head(q).time, works |-> TRUE,
        total |-> total - GetMicroSeconds(Head(q).time)]]
  /\ m_queue' = q
  /\ m_size' = size

\* The packet stays in the queue until its time on the air has passed, which
\* is also what the argument is reduced by; m_slotRemainTime is charged the
\* whole microseconds.
SendsLow(ch, q, size, total) ==
  /\ m_slotRemainTime' = Charged(m_slotRemainTime, Head(q).time)
  /\ pending' = [pending EXCEPT ![ch] =
       [what |-> "SendPacketDown", due |-> Head(q).time, works |-> TRUE,
        total |-> total - Head(q).time]]
  /\ m_queue' = q
  /\ m_size' = size

StartTransmission(ch, q, size, total) ==
  \/ q = <<>> /\ NothingSent(ch, q, size)
  \/ /\ q # <<>> /\ m_wifimaclow_flag
     /\ \/ FitsWifi(Head(q)) /\ SendsWifi(ch, q, size)
        \/ ~FitsWifi(Head(q)) /\ NothingSent(ch, q, size)
  \/ /\ q # <<>> /\ ~m_wifimaclow_flag
     /\ \/ FitsLow(Head(q), total) /\ SendsLow(ch, q, size, total)
        \/ ~FitsLow(Head(q), total) /\ NothingSent(ch, q, size)

-----------------------------------------------------------------------------
(***************************************************************************)
(* The events of a chain.                                                  *)
(***************************************************************************)
Due(ch, what) == /\ crashed = "no" /\ clock < SlotTime
                 /\ pending[ch].what = what /\ pending[ch].due = 0

\* Mutants: erased packets are still counted, or taken off twice.
UncleanedSize == m_size
CleanedTwice == m_size - 2 * Expired(m_queue)

Cleaned == Cleanup(m_queue)
CleanedSize == m_size - Expired(m_queue)

StartTransmissionEvent(ch) ==
  /\ Due(ch, "StartTransmission")
  /\ StartTransmission(ch, Cleaned, CleanedSize, pending[ch].total)
  /\ UNCHANGED <<m_wifimaclow_flag, own, clock, crashed, fitted>>

\* Only a station that works goes on with data.
SendFiDownEvent(ch) ==
  /\ Due(ch, "SendFiDown")
  /\ \/ /\ pending[ch].works
        /\ StartTransmission(ch, Cleaned, CleanedSize, m_slotRemainTime)
     \/ /\ ~pending[ch].works
        /\ NothingSent(ch, m_queue, m_size)
  /\ UNCHANGED <<m_wifimaclow_flag, own, clock, crashed, fitted>>

\* Dequeue may find that the packet has expired: it returns 0, and the
\* packet is used without a test.
SendPacketDownEvent(ch) ==
  /\ Due(ch, "SendPacketDown")
  /\ \/ /\ Cleaned # <<>>
        /\ StartTransmission(ch, Tail(Cleaned), CleanedSize - 1,
                             GetMicroSeconds(pending[ch].total))
        /\ UNCHANGED crashed
     \/ /\ Cleaned = <<>>
        /\ NothingSent(ch, Cleaned, CleanedSize)
        /\ crashed' = "null"
  /\ UNCHANGED <<m_wifimaclow_flag, own, clock, fitted>>

-----------------------------------------------------------------------------
(***************************************************************************)
(* slotHandler.                                                            *)
(***************************************************************************)
\* A slot in which the station sends nothing, its own or not.
SilentSlot ==
  /\ crashed = "no" /\ clock = SlotTime
  /\ clock' = 0
  /\ own' \in BOOLEAN
  /\ m_slotRemainTime' = SlotTime
  /\ UNCHANGED <<m_wifimaclow_flag, pending, m_queue, m_size, crashed, fitted>>

\* An FI fits when m_slotRemainTime bears its charge and, through TdmaMacLow,
\* the assertion "cannot transmit FI" holds.
FiFits(f) ==
  IF m_wifimaclow_flag THEN GetMicroSeconds(f) <= SlotTime ELSE f < SlotTime

\* generate_send_FI_packet.  Through WifiMacLow the FI is sent at once and
\* a station that works schedules StartTransmission for when it is over;
\* through TdmaMacLow SendFiDown is scheduled for then.  An FI that does not
\* fit is sent all the same: only the assertion of a debug build stops it.
FiSlot(ch, works, f) ==
  LET remain == Charged(SlotTime, f)
  IN  /\ crashed = "no" /\ clock = SlotTime
      /\ ~Active(ch)
      /\ clock' = 0
      /\ own' = TRUE
      /\ m_slotRemainTime' = remain
      /\ pending' = IF m_wifimaclow_flag /\ ~works THEN pending
           ELSE [pending EXCEPT ![ch] =
                   [what |-> IF m_wifimaclow_flag THEN "StartTransmission"
                                                  ELSE "SendFiDown",
                    due |-> f, works |-> works, total |-> remain]]
      /\ fitted' = (fitted /\ FiFits(f))
      /\ UNCHANGED <<m_wifimaclow_flag, m_queue, m_size, crashed>>

\* The assertion fails, after m_slotRemainTime has been charged.
FiTooLong(f) ==
  /\ crashed = "no" /\ clock = SlotTime
  /\ ~m_wifimaclow_flag /\ ~FiFits(f)
  /\ clock' = 0
  /\ own' = TRUE
  /\ m_slotRemainTime' = Charged(SlotTime, f)
  /\ crashed' = "assert"
  /\ fitted' = FALSE
  /\ UNCHANGED <<m_wifimaclow_flag, pending, m_queue, m_size>>

Older(p) == [p EXCEPT !.age = IF @ < MaxDelay THEN @ + 1 ELSE @]

\* A tick passes, when no event is due.
Tick ==
  /\ crashed = "no" /\ clock < SlotTime
  /\ \A ch \in Chain : Active(ch) => pending[ch].due > 0
  /\ clock' = clock + 1
  /\ pending' = [ch \in Chain |->
       IF Active(ch) THEN [pending[ch] EXCEPT !.due = @ - 1] ELSE pending[ch]]
  /\ m_queue' = [i \in 1 .. Len(m_queue) |-> Older(m_queue[i])]
  /\ UNCHANGED <<m_wifimaclow_flag, own, m_slotRemainTime, m_size, crashed,
                 fitted>>

-----------------------------------------------------------------------------
\* The first slotHandler runs right after Start.
Init ==
  /\ m_wifimaclow_flag \in BOOLEAN
  /\ own = FALSE
  /\ clock = SlotTime
  /\ m_slotRemainTime = SlotTime
  /\ pending = [ch \in Chain |-> NoEvent]
  /\ m_queue = <<>>
  /\ m_size = 0
  /\ crashed = "no"
  /\ fitted = TRUE

Next ==
  \/ \E d \in Durations : Queue(d)
  \/ \E ch \in Chain :
       \/ StartTransmissionEvent(ch)
       \/ SendFiDownEvent(ch)
       \/ SendPacketDownEvent(ch)
       \/ \E works \in BOOLEAN, f \in FiTimes : FiSlot(ch, works, f)
  \/ \E f \in FiTimes : FiTooLong(f)
  \/ SilentSlot
  \/ Tick

Spec == Init /\ [][Next]_vars

-----------------------------------------------------------------------------
\* Types: m_slotRemainTime is a uint32_t, whatever is charged to it.
TypeOK ==
  /\ m_wifimaclow_flag \in BOOLEAN
  /\ own \in BOOLEAN
  /\ clock \in 0..SlotTime
  /\ m_slotRemainTime \in 0 .. Wrap - 1
  /\ pending \in [Chain -> Event]
  /\ m_queue \in Seq(Packet)
  /\ m_size \in Nat
  /\ crashed \in {"no", "null", "assert"}
  /\ fitted \in BOOLEAN

\* The budget is never overdrawn: as long as the FIs fit in the slot, no
\* sequence of packets, of two chains that draw on it and of slots that
\* restore it makes m_slotRemainTime, which is unsigned, wrap around.
BudgetKept == fitted => m_slotRemainTime <= SlotTime

\* No transmission runs over the end of the slot it began in by more than
\* the conversion of the FI's time to microseconds has cut off: that part the
\* station waits for and does not charge.  This is what the budget
\* m_slotRemainTime is for, which every chain draws on and every slotHandler
\* restores, whoever the slot belongs to.
NoStraddle ==
  fitted => \A ch \in Chain : Active(ch) =>
    \E f \in FiTimes : clock + pending[ch].due <= SlotTime + Cut(f)

\* A chain that fills its slot exactly, or runs over its end, goes on in the
\* next slot, where another one may begin; still at most one is left at the
\* end of any slot, so chains of events do not pile up, however often it
\* happens.
ChainsDoNotPileUp ==
  fitted /\ clock = SlotTime =>
    \A a, b \in Chain : Active(a) /\ Active(b) => a = b

\* A station that sends through TdmaMacLow keeps to its own slot, save for
\* the part of a microsecond that the conversion of the FI's time cuts off: a
\* chain left when another station's slot begins is over before that part has
\* passed, and has no time for another packet.  When the FIs take whole
\* microseconds none is left.
LowPathKeepsItsSlot ==
  fitted /\ ~m_wifimaclow_flag /\ ~own => \A ch \in Chain : Active(ch) =>
    /\ \E f \in FiTimes : clock + pending[ch].due < Cut(f)
    /\ GetMicroSeconds(pending[ch].total) = 0

\* m_size, which Enqueue compares with m_maxSize and which Cleanup, Enqueue
\* and Dequeue adjust separately, is the length of the list, within bounds.
SizeExact == m_size = Len(m_queue) /\ m_size <= MaxSize

\* Packets leave in the order in which they came, and the oldest one, the
\* first to expire, is at the head: what Cleanup erases is a prefix.
OldestFirst ==
  \A i, j \in 1 .. Len(m_queue) : i < j => m_queue[i].age >= m_queue[j].age

\* A station is silent in the slots of others: nothing it has begun to send
\* is on the air there.  (GuardTime: "GuardTime between TDMA slots".)
OnlyOwnSlot ==
  ~own => \A ch \in Chain : Active(ch) => pending[ch].due = 0

\* TdmaMacLow::StartTransmission is given a packet to send.
PacketToSend == crashed # "null"

=============================================================================
