------------------------- MODULE SatmacClaimsProofs -------------------------
(***************************************************************************)
(* What a station's table says of its own slot, and what the station makes *)
(* of it: the invariants of Satmac about frames, claims and objections,    *)
(* for any number of stations, slots and frame lengths, any topology, and  *)
(* any number of losses and movements.                                     *)
(***************************************************************************)
EXTENDS SatmacProofs

(***************************************************************************)
(* The inductive invariant, beyond IInv.  In(n): the handler of n is       *)
(* halfway through.  It started in the station's slot, and merge_fi only   *)
(* lengthens the frame; so when it decides, the slot is within the frame,  *)
(* every objection to it was seen by the first loop of merge_fi, and what  *)
(* is claimed is not beyond the frame.                                     *)
(***************************************************************************)
In(n) == Running(n) /\ pc # "start"

HandlerSlot(n) == In(n) => slot_num[n] \in 0 .. m_frame_len[n] - 1
WaitInFrame(n) == ~Asked(n) => slot_num[n] \in 0 .. m_frame_len[n] - 1
Beyond(n) == \A c \in SlotIdx : c >= m_frame_len[n] => fi[n][c].sti = 0
Heeded(n) ==
  In(n) /\ Recorded(n) =>
    \A f \in received[n] \ merging :
      slot_num[n] < f.len => ~Against(f.tags[slot_num[n]], n)
CandidateSet(n) == node_state[n] = "WORK_ADJ" => slot_adj_candidate[n] # -1

NodeInv(n) == /\ HandlerSlot(n) /\ WaitInFrame(n) /\ Beyond(n) /\ Heeded(n)
              /\ CandidateSet(n)

PcInv == /\ pc # "start" => todo # {}
         /\ pc = "decide" => merging = {}
AirDone == \A m \in air : m.sti \notin todo

HInv == IInv /\ PcInv /\ AirDone /\ \A n \in Node : NodeInv(n)

-----------------------------------------------------------------------------
(***************************************************************************)
(* A handler changes nothing of the other stations.                        *)
(***************************************************************************)
\* The variables of station m do not change.
Untouched(m) ==
  /\ fi'[m] = fi[m] /\ slot_num'[m] = slot_num[m]
  /\ node_state'[m] = node_state[m] /\ m_frame_len'[m] = m_frame_len[m]
  /\ slot_adj_candidate'[m] = slot_adj_candidate[m]
  /\ received'[m] = received[m]

\* The states a station is in when it has asked for a slot.
LEMMA AskedStates ==
  ASSUME NEW n \in Node
  PROVE  Asked(n) <=> node_state[n] \in {"WORK_FI", "WORK_ADJ", "REQUEST"}
  BY DEF Asked, Working

\* One handler runs at a time.
LEMMA OneRuns ==
  ASSUME NEW n \in Node, NEW m \in Node, Running(n), Running(m)
  PROVE  n = m
<1>1. n \in Int /\ m \in Int
  BY NodeAssumption
<1>2. n <= m /\ m <= n
  BY DEF Running
<1> QED
  BY <1>1, <1>2

\* What a step of slotHandler leaves alone.
LEMMA HandlerTouches ==
  ASSUME IInv, NEW n \in Node, slotHandler(n), NEW m \in Node, m # n
  PROVE  Untouched(m)
<1>1. /\ fi \in [Node -> GoodTable] /\ slot_num \in [Node -> SlotIdx \cup {-1}]
      /\ node_state \in [Node -> NodeState] /\ m_frame_len \in [Node -> FrameLens]
      /\ slot_adj_candidate \in [Node -> SlotIdx \cup {-1}]
      /\ received \in [Node -> SUBSET GoodReceived]
  BY DEF IInv, TableInv, StateInv, FrameInv, ReceivedInv
<1>2. CASE OtherSlot(n) \/ InitSlot(n) \/ ListenBackoff(n)
  BY <1>1, <1>2 DEF OtherSlot, InitSlot, ListenBackoff, Fade, Untouched, local,
                    slots, frame
<1>3. CASE StartSynthesis(n) \/ MergeNext(n) \/ EndSynthesis(n)
  BY <1>1, <1>3 DEF StartSynthesis, MergeNext, EndSynthesis, Fade, Untouched,
                    slots, frame
<1>4. CASE ListenChoose(n)
  BY <1>1, <1>4 DEF ListenChoose, BacksOff, DecisionFrame, Untouched, frame
<1>5. CASE RequestSlot(n) \/ RequestGranted(n)
  BY <1>1, <1>5 DEF RequestSlot, RequestGranted, DecisionFrame, Untouched, slots, frame
<1>6. CASE SlotLost(n) \/ AdjLost(n)
  BY <1>1, <1>6 DEF SlotLost, AdjLost, Reselects, BacksOff, DecisionFrame,
                    Untouched, frame
<1>7. CASE WorkKeepSlot(n) \/ WorkAdjust(n)
  <2>1. \E tbl, len, threshold, bch : SendsThenMayMove(n, tbl, len, threshold, bch)
    BY <1>7 DEF WorkKeepSlot, WorkAdjust
  <2>2. fi'[m] = fi[m] /\ slot_num'[m] = slot_num[m]
    BY <1>1, <2>1 DEF SendsThenMayMove
  <2>3. /\ node_state'[m] = node_state[m] /\ m_frame_len'[m] = m_frame_len[m]
        /\ slot_adj_candidate'[m] = slot_adj_candidate[m]
        /\ received'[m] = received[m]
    BY <1>1, <1>7 DEF WorkKeepSlot, WorkAdjust, DecisionFrame, frame
  <2> QED
    BY <2>2, <2>3 DEF Untouched
<1>8. CASE AdjSettle(n) \/ AdjFallBack(n)
  BY <1>1, <1>8 DEF AdjSettle, AdjFallBack, DecisionFrame, Untouched, frame
<1> QED
  BY <1>2, <1>3, <1>4, <1>5, <1>6, <1>7, <1>8 DEF slotHandler, Synthesize, Decide

\* A handler either goes on or returns.
LEMMA HandlerGoes ==
  ASSUME NEW n \in Node, slotHandler(n)
  PROVE  /\ Running(n)
         /\ \/ Synthesize(n) /\ todo' = todo /\ pc' # "start"
            \/ Returns(n)
  BY DEF slotHandler, Synthesize, Decide, OtherSlot, InitSlot, ListenBackoff,
         StartSynthesis, MergeNext, EndSynthesis, ListenChoose, RequestSlot,
         RequestGranted, SlotLost, WorkKeepSlot, WorkAdjust, AdjSettle,
         AdjFallBack, AdjLost, Deciding

\* So no other station is ever halfway through, and nothing changes for it.
LEMMA OthersKeep ==
  ASSUME HInv, NEW n \in Node, slotHandler(n), NEW m \in Node, m # n
  PROVE  NodeInv(m)' /\ ~In(m)'
<1>1. Untouched(m)
  BY HandlerTouches DEF HInv
<1>2. ~In(m)'
  <2>1. CASE todo' = todo
    BY <2>1, HandlerGoes, OneRuns DEF In, Running
  <2>2. CASE Returns(n)
    BY <2>2 DEF In, Returns
  <2> QED
    BY <2>1, <2>2, HandlerGoes
<1>3. NodeInv(m)
  BY DEF HInv
<1>4. WaitInFrame(m)' /\ Beyond(m)' /\ CandidateSet(m)'
  BY <1>1, <1>3 DEF NodeInv, Untouched, WaitInFrame, Beyond, CandidateSet, Asked
<1> QED
  BY <1>2, <1>4 DEF NodeInv, HandlerSlot, Heeded

-----------------------------------------------------------------------------
(***************************************************************************)
(* Nothing is written beyond the frame.                                    *)
(***************************************************************************)
Within(tbl, l) == \A c \in SlotIdx : c >= l => tbl[c].sti = 0

\* The slots that determine_BCH may return.
LEMMA DetermineInFrame ==
  ASSUME NEW tbl, NEW l \in FrameLens, NEW threshold, NEW me,
         NEW strict \in BOOLEAN,
         NEW b \in determine_BCH(tbl, l, threshold, me, strict)
  PROVE  b = -1 \/ (b \in 0 .. l - 1 /\ b \in Candidates(tbl, l, me, strict))
<1> DEFINE s2c == Candidates(tbl, l, me, strict)
           s0c == {c \in s2c : tbl[c].c3 = 0}
<1>1. s2c \subseteq 0 .. l - 1
  BY DEF Candidates
<1>2. s0c \subseteq s2c
  OBVIOUS
<1>3. \A S : Pick(S) \subseteq S /\ LowerHalf(S, l) \subseteq S
  BY DEF Pick, LowerHalf
<1>4. \/ b = -1 \/ b \in s2c \/ b \in LowerHalf(s0c, l)
      \/ b \in Pick(s0c) \/ b \in Pick(s2c)
  BY DEF determine_BCH
<1> HIDE DEF s2c, s0c
<1> QED
  BY <1>1, <1>2, <1>3, <1>4 DEF s2c

\* slotHandler's writes.
LEMMA WriteWithin ==
  ASSUME NEW tbl \in GoodTable, NEW l \in FrameLens, Within(tbl, l),
         NEW n \in Node, NEW lock \in BOOLEAN, NEW b
  PROVE  /\ Within([tbl EXCEPT ![b] = Release(@, lock)], l)
         /\ b \in 0 .. l - 1 \/ b = -1 => Within([tbl EXCEPT ![b] = Claim(@, n)], l)
<1>1. \A c \in SlotIdx : c >= l => ~(b \in 0 .. l - 1 \/ b = -1) \/ c # b
  BY LenType DEF SlotIdx
<1>2. \A c \in SlotIdx : /\ c # b => [tbl EXCEPT ![b] = Claim(@, n)][c] = tbl[c]
                         /\ c # b => [tbl EXCEPT ![b] = Release(@, lock)][c] = tbl[c]
                         /\ c = b => [tbl EXCEPT ![b] = Release(@, lock)][c].sti = 0
  BY WriteClaims
<1>3. Within([tbl EXCEPT ![b] = Release(@, lock)], l)
  BY <1>2 DEF Within
<1>4. b \in 0 .. l - 1 \/ b = -1 => Within([tbl EXCEPT ![b] = Claim(@, n)], l)
  BY <1>1, <1>2 DEF Within
<1> QED
  BY <1>3, <1>4

\* What generate_send_FI_packet leaves behind.
LEMMA RestartWithin ==
  ASSUME NEW tbl \in GoodTable, NEW l, Within(tbl, l), NEW k, NEW n
  PROVE  Within(CountersRestarted(tbl, k, n), l)
  BY RestartClaims DEF Within

\* adjFrameLen halves a frame only when its upper half is free.
LEMMA AdjustedWithin ==
  ASSUME NEW tbl \in GoodTable, NEW l \in FrameLens, Within(tbl, l), NEW threshold
  PROVE  Within(tbl, adjFrameLen(tbl, l, threshold))
<1> DEFINE k == adjFrameLen(tbl, l, threshold)
<1>1. l \in Nat \ {0} /\ \A c \in SlotIdx : c \in Nat
  BY LenType DEF SlotIdx
<1>2. k = l \/ k = 2 * l \/ (k = l \div 2 /\ Roomy(tbl, l, threshold))
  BY DEF adjFrameLen
<1>3. \A c \in SlotIdx : tbl[c].busy = SLOT_FREE => tbl[c].sti = 0
  BY GoodIsTyped DEF Named
<1> HIDE DEF k
<1>4. CASE k = l \/ k = 2 * l
  BY <1>1, <1>4 DEF Within, k
<1>5. CASE k = l \div 2 /\ Roomy(tbl, l, threshold)
  <2>1. ASSUME NEW c \in SlotIdx, c >= l \div 2 PROVE tbl[c].sti = 0
    <3>1. CASE c >= l
      BY <3>1 DEF Within
    <3>2. CASE ~(c >= l)
      <4>1. c \in 0 .. l - 1
        BY <1>1, <3>2
      <4>2. tbl[c].busy = SLOT_FREE
        BY <1>5, <2>1, <4>1 DEF Roomy
      <4> QED
        BY <1>3, <4>2
    <3> QED
      BY <3>1, <3>2
  <2> QED
    BY <1>5, <2>1 DEF Within, k
<1> QED
  BY <1>2, <1>4, <1>5

\* Giving up a slot.
LEMMA ReleasedWithin ==
  ASSUME NEW n \in Node, NEW tbl \in GoodTable, NEW l \in FrameLens,
         Within(tbl, l), NEW c
  PROVE  Within(ReleasedIfMine(n, tbl, c), l)
  BY WriteWithin DEF ReleasedIfMine

\* The FI goes out, and a lonely station may move.
LEMMA SendsWithin ==
  ASSUME IInv, NEW n \in Node, NEW tbl \in GoodTable, NEW l \in FrameLens,
         Within(tbl, l), NEW threshold, NEW bch,
         SendsThenMayMove(n, tbl, l, threshold, bch)
  PROVE  Within(fi'[n], l)
<1> DEFINE sent == CountersRestarted(tbl, l, n)
           left == [sent EXCEPT ![slot_num[n]] = Release(@, TRUE)]
<1>1. sent \in GoodTable /\ Within(sent, l)
  BY CountersRestartedGood, RestartWithin
<1>2. \/ fi' = [fi EXCEPT ![n] = sent]
      \/ \E b \in determine_BCH(sent, l, threshold, n, FALSE) :
           fi' = [fi EXCEPT ![n] = [left EXCEPT ![b] = Claim(@, n)]]
  BY DEF SendsThenMayMove
<1> HIDE DEF sent
<1>3. left \in GoodTable /\ Within(left, l)
  BY <1>1, WriteGood, WriteWithin
<1> HIDE DEF left
<1>4. fi \in [Node -> GoodTable]
  BY DEF IInv, TableInv
<1>5. CASE fi' = [fi EXCEPT ![n] = sent]
  BY <1>1, <1>4, <1>5
<1>6. ASSUME NEW b \in determine_BCH(sent, l, threshold, n, FALSE),
             fi' = [fi EXCEPT ![n] = [left EXCEPT ![b] = Claim(@, n)]]
      PROVE  Within(fi'[n], l)
  <2>1. b \in 0 .. l - 1 \/ b = -1
    BY DetermineInFrame
  <2>2. Within([left EXCEPT ![b] = Claim(@, n)], l)
    BY <1>3, <2>1, WriteWithin
  <2> QED
    BY <1>4, <1>6, <2>2
<1> QED
  BY <1>2, <1>5, <1>6

-----------------------------------------------------------------------------
(***************************************************************************)
(* Every step keeps HInv.                                                  *)
(***************************************************************************)
\* What is known of a station at the start of its step.
LEMMA Known ==
  ASSUME HInv, NEW n \in Node
  PROVE  /\ IInv /\ NodeInv(n)
         /\ fi \in [Node -> GoodTable] /\ fi[n] \in GoodTable
         /\ m_frame_len \in [Node -> FrameLens] /\ m_frame_len[n] \in FrameLens
         /\ m_frame_len[n] \in 1..MaxLen
         /\ slot_num \in [Node -> SlotIdx \cup {-1}]
         /\ slot_num[n] \in SlotIdx \cup {-1} /\ slot_num[n] \in Int
         /\ node_state \in [Node -> NodeState]
         /\ slot_adj_candidate \in [Node -> SlotIdx \cup {-1}]
         /\ received \in [Node -> SUBSET GoodReceived]
         /\ Within(fi[n], m_frame_len[n])
<1>1. IInv /\ NodeInv(n)
  BY DEF HInv
<1>2. m_frame_len[n] \in 1..MaxLen
  BY <1>1, TableOf, LenType
<1>3. slot_num[n] \in SlotIdx \cup {-1} /\ slot_num[n] \in Int
  BY <1>1, TableOf DEF SlotIdx
<1>4. Within(fi[n], m_frame_len[n])
  BY <1>1 DEF NodeInv, Beyond, Within
<1>5. /\ fi \in [Node -> GoodTable] /\ m_frame_len \in [Node -> FrameLens]
      /\ slot_num \in [Node -> SlotIdx \cup {-1}]
      /\ node_state \in [Node -> NodeState]
      /\ slot_adj_candidate \in [Node -> SlotIdx \cup {-1}]
      /\ received \in [Node -> SUBSET GoodReceived]
  BY <1>1 DEF IInv, TableInv, FrameInv, StateInv, ReceivedInv
<1> QED
  BY <1>1, <1>2, <1>3, <1>4, <1>5, TableOf

\* A handler that returns leaves nothing half done.
LEMMA ReturnsQuiet ==
  ASSUME HInv, NEW n \in Node, Returns(n), WaitInFrame(n)', CandidateSet(n)',
         Within(fi'[n], m_frame_len'[n])
  PROVE  NodeInv(n)'
<1>1. ~In(n)'
  BY DEF In, Returns
<1>2. Beyond(n)'
  BY DEF Beyond, Within
<1> QED
  BY <1>1, <1>2 DEF NodeInv, HandlerSlot, Heeded

\* The slots in which a station decides nothing.
LEMMA QuietNode ==
  ASSUME HInv, NEW n \in Node, OtherSlot(n) \/ InitSlot(n) \/ ListenBackoff(n)
  PROVE  NodeInv(n)'
<1>0. /\ node_state \in [Node -> NodeState] /\ NodeInv(n)
      /\ Within(fi[n], m_frame_len[n])
  BY Known
<1>1. Returns(n) /\ UNCHANGED <<slots, frame, fi>>
  BY DEF OtherSlot, InitSlot, ListenBackoff, local
<1>2. \/ node_state' = node_state
      \/ node_state[n] = "INIT" /\ node_state'[n] = "LISTEN"
  BY <1>0 DEF OtherSlot, InitSlot, ListenBackoff, local
<1>3. WaitInFrame(n)' /\ CandidateSet(n)'
  BY <1>0, <1>1, <1>2
  DEF NodeInv, WaitInFrame, CandidateSet, Asked, Working, slots, frame
<1> QED
  BY <1>0, <1>1, <1>3, ReturnsQuiet DEF frame

\* Merging only lengthens the frame, and every FI merged is heeded.
LEMMA SynthesizeNode ==
  ASSUME HInv, NEW n \in Node, Synthesize(n)
  PROVE  NodeInv(n)'
<1> DEFINE len == m_frame_len[n]
           b == slot_num[n]
<1>0. /\ IInv /\ NodeInv(n) /\ fi \in [Node -> GoodTable] /\ fi[n] \in GoodTable
      /\ m_frame_len \in [Node -> FrameLens] /\ len \in FrameLens /\ len \in 1..MaxLen
      /\ received \in [Node -> SUBSET GoodReceived] /\ Within(fi[n], len)
  BY Known
<1>1. /\ Running(n) /\ UNCHANGED <<node_state, slots, todo>>
  BY DEF Synthesize, StartSynthesis, MergeNext, EndSynthesis
<1>2. CandidateSet(n)'
  BY <1>0, <1>1 DEF NodeInv, CandidateSet, slots
<1>a. ASSUME m_frame_len'[n] >= len, m_frame_len'[n] \in FrameLens, b \in 0 .. len - 1
      PROVE  HandlerSlot(n)' /\ WaitInFrame(n)'
  <2>1. m_frame_len'[n] \in 1..MaxLen
    BY <1>a, LenType
  <2>2. slot_num'[n] \in 0 .. m_frame_len'[n] - 1
    BY <1>0, <1>1, <1>a, <2>1 DEF slots
  <2> QED
    BY <2>2 DEF HandlerSlot, WaitInFrame
<1>3. CASE StartSynthesis(n)
  <2> DEFINE A == AgeTable(fi[n], len, n, {b, slot_adj_candidate[n]})
             C == ClearOthers(fi[n], len, n)
             E == [c \in SlotIdx |-> FreeTag]
  <2>1. /\ merging' = Faded(received[n]) /\ UNCHANGED frame
        /\ received' = [received EXCEPT ![n] = Faded(@)]
        /\ b = total_slot_count % len
    BY <1>3 DEF StartSynthesis, Fade, InOwnSlot
  <2>2. b \in 0 .. len - 1
    <3>1. total_slot_count \in Nat
      BY <1>0 DEF IInv, ChannelInv, SlotIdx
    <3> QED
      BY <1>0, <2>1, <3>1
  <2>3. Within(A, len) /\ Within(C, len) /\ Within(E, len)
    BY <1>0, AgeClaims, ClearClaims DEF Within, FreeTag
  <2>4. \/ fi' = [fi EXCEPT ![n] = A] \/ fi' = [fi EXCEPT ![n] = C]
        \/ fi' = [fi EXCEPT ![n] = E]
    BY <1>3 DEF StartSynthesis
  <2> HIDE DEF A, C, E
  <2>5. Within(fi'[n], len)
    BY <1>0, <2>3, <2>4
  <2>6. Beyond(n)'
    BY <2>1, <2>5 DEF Beyond, Within, frame
  <2>7. Heeded(n)'
    BY <1>0, <2>1 DEF Heeded
  <2>8. HandlerSlot(n)' /\ WaitInFrame(n)'
    BY <1>0, <1>a, <2>1, <2>2 DEF frame
  <2> QED
    BY <1>2, <2>6, <2>7, <2>8 DEF NodeInv
<1>4. CASE MergeNext(n)
  <2>0. pc = "merge" /\ UNCHANGED <<pc, received>>
    BY <1>4 DEF MergeNext
  <2>1. PICK f \in merging :
          /\ merging' = merging \ {f}
          /\ fi' = [fi EXCEPT ![n] = merge_fi(@, m_frame_len[n], f, n)]
          /\ m_frame_len' = [m_frame_len EXCEPT
                               ![n] = merged_len(fi[n], @, f, n)]
    BY <1>4 DEF MergeNext
  <2>2. GoodFi(f) /\ f.len \in FrameLens
    BY <1>0, ReceivedIsGood DEF IInv, HandlerInv, GoodFi
  <2>3. /\ fi'[n] = merge_fi(fi[n], len, f, n)
        /\ m_frame_len'[n] = merged_len(fi[n], len, f, n)
    BY <1>0, <2>1
  <2>4. /\ m_frame_len'[n] >= len /\ m_frame_len'[n] \in {len, f.len}
        /\ \A c \in SlotIdx : c >= m_frame_len'[n] => fi'[n][c].sti = 0
    BY <1>0, <2>2, <2>3, MergeBeyond DEF Within
  <2>5. In(n) /\ b \in 0 .. len - 1
    BY <1>0, <1>1, <2>0 DEF In, NodeInv, HandlerSlot
  <2>6. HandlerSlot(n)' /\ WaitInFrame(n)'
    BY <1>0, <1>a, <2>2, <2>4, <2>5
  <2>7. Beyond(n)'
    BY <2>4 DEF Beyond
  <2>8. Heeded(n)'
    <3> SUFFICES ASSUME Recorded(n)', NEW g \in received[n] \ merging', b < g.len
                 PROVE  ~Against(g.tags[b], n)
      BY <1>1, <2>0 DEF Heeded, slots
    <3>1. b \in SlotIdx
      BY <1>0, <2>5, LenType
    <3>2. merge_fi(fi[n], len, f, n)[b].sti = n
          /\ merge_fi(fi[n], len, f, n)[b].busy = SLOT_1HOP
      BY <1>1, <2>3 DEF Recorded, slots
    <3>3. /\ fi[n][b].sti = n /\ fi[n][b].busy = SLOT_1HOP
          /\ b < len /\ b < f.len => ~Against(f.tags[b], n)
      BY <1>0, <2>2, <3>1, <3>2, MergeClaims
    <3>4. Recorded(n)
      BY <2>5, <3>3 DEF Recorded
    <3>5. CASE g = f
      BY <1>0, <2>5, <3>3, <3>5
    <3>6. CASE g # f
      BY <1>0, <2>1, <2>5, <3>4, <3>6 DEF NodeInv, Heeded
    <3> QED
      BY <3>5, <3>6
  <2> QED
    BY <1>2, <2>6, <2>7, <2>8 DEF NodeInv
<1>5. CASE EndSynthesis(n)
  <2>1. pc = "merge" /\ UNCHANGED <<frame, merging, received>>
    BY <1>5 DEF EndSynthesis
  <2>2. In(n) /\ b \in 0 .. len - 1
    BY <1>0, <1>1, <2>1 DEF In, NodeInv, HandlerSlot
  <2>3. fi'[n] = fi[n] \/ fi'[n] = UnlockFree(fi[n], len)
    BY <1>0, <1>5 DEF EndSynthesis
  <2>4. \A c \in SlotIdx : fi'[n][c].sti = fi[n][c].sti /\ fi'[n][c].busy = fi[n][c].busy
    BY <1>0, <2>3, UnlockClaims
  <2>5. Beyond(n)'
    BY <1>0, <2>1, <2>4 DEF NodeInv, Beyond, frame
  <2>6. Recorded(n)' => Recorded(n)
    <3>1. b \in SlotIdx
      BY <1>0, <2>2, LenType
    <3> QED
      BY <1>1, <2>4, <3>1 DEF Recorded, slots
  <2>7. Heeded(n)'
    BY <1>0, <1>1, <2>1, <2>2, <2>6 DEF NodeInv, Heeded, slots
  <2>8. HandlerSlot(n)' /\ WaitInFrame(n)'
    BY <1>0, <1>a, <2>1, <2>2 DEF frame
  <2> QED
    BY <1>2, <2>5, <2>7, <2>8 DEF NodeInv
<1> QED
  BY <1>3, <1>4, <1>5 DEF Synthesize

\* A station that has lost its slot waits within the frame.
LEMMA ReselectsNode ==
  ASSUME HInv, NEW n \in Node, NEW tbl \in GoodTable, Reselects(n, tbl),
         Within(tbl, m_frame_len[n]), slot_num[n] \in 0 .. m_frame_len[n] - 1,
         m_frame_len'[n] = m_frame_len[n], Returns(n)
  PROVE  NodeInv(n)'
<1>0. /\ fi \in [Node -> GoodTable] /\ node_state \in [Node -> NodeState]
      /\ slot_num \in [Node -> SlotIdx \cup {-1}] /\ m_frame_len[n] \in FrameLens
  BY Known
<1>1. fi'[n] = tbl
  BY <1>0 DEF Reselects
<1>2. PICK b \in Choices(n, tbl, FALSE) :
        \/ /\ b # -1
           /\ node_state' = [node_state EXCEPT ![n] = "WAIT_REQUEST"]
           /\ slot_num' = [slot_num EXCEPT ![n] = b]
        \/ BacksOff(n)
  BY DEF Reselects
<1>3. b = -1 \/ b \in 0 .. m_frame_len[n] - 1
  BY <1>0, DetermineInFrame DEF Choices
<1>4. /\ node_state'[n] \in {"WAIT_REQUEST", "LISTEN"}
      /\ slot_num'[n] \in 0 .. m_frame_len[n] - 1
  BY <1>0, <1>2, <1>3 DEF BacksOff
<1>5. WaitInFrame(n)' /\ CandidateSet(n)'
  BY <1>4 DEF WaitInFrame, CandidateSet
<1> QED
  BY <1>1, <1>5, ReturnsQuiet

\* The decisions before a station works.
LEMMA AcquireNode ==
  ASSUME HInv, NEW n \in Node,
         ListenChoose(n) \/ RequestSlot(n) \/ RequestGranted(n) \/ SlotLost(n)
  PROVE  NodeInv(n)'
<1> DEFINE len == m_frame_len[n]
<1>0. /\ fi \in [Node -> GoodTable] /\ fi[n] \in GoodTable
      /\ node_state \in [Node -> NodeState] /\ NodeInv(n)
      /\ slot_num \in [Node -> SlotIdx \cup {-1}] /\ len \in FrameLens
      /\ Within(fi[n], len)
  BY Known
<1>1. /\ Returns(n) /\ m_frame_len' = m_frame_len
      /\ Running(n) /\ pc = "decide"
  BY DEF ListenChoose, RequestSlot, RequestGranted, SlotLost, Deciding, frame
<1>2. slot_num[n] \in 0 .. len - 1
  BY <1>0, <1>1 DEF NodeInv, HandlerSlot, In
<1>a. \A tbl \in GoodTable : Within(tbl, len) =>
        Within(CountersRestarted(tbl, len, n), len)
  BY RestartWithin
<1>3. CASE ListenChoose(n)
  <2>1. PICK b \in Choices(n, fi[n], FALSE) :
          \/ BacksOff(n) /\ fi' = fi
          \/ /\ b = slot_num[n]
             /\ fi' = [fi EXCEPT ![n] =
                  CountersRestarted([fi[n] EXCEPT ![b] = Claim(@, n)], len, n)]
             /\ node_state' = [node_state EXCEPT ![n] = "REQUEST"]
             /\ slot_num' = slot_num
          \/ /\ b # -1 /\ fi' = fi
             /\ node_state' = [node_state EXCEPT ![n] = "WAIT_REQUEST"]
             /\ slot_num' = [slot_num EXCEPT ![n] = b]
    BY <1>3 DEF ListenChoose
  <2>2. b = -1 \/ b \in 0 .. len - 1
    BY <1>0, DetermineInFrame DEF Choices
  <2>3. /\ node_state'[n] \in {"WAIT_REQUEST", "LISTEN", "REQUEST"}
        /\ slot_num'[n] \in 0 .. len - 1
    BY <1>0, <1>2, <2>1, <2>2 DEF BacksOff
  <2>4. Within([fi[n] EXCEPT ![b] = Claim(@, n)], len)
        /\ [fi[n] EXCEPT ![b] = Claim(@, n)] \in GoodTable
    BY <1>0, <2>2, WriteWithin, WriteGood
  <2>5. Within(fi'[n], len)
    BY <1>0, <1>a, <2>1, <2>4
  <2>6. WaitInFrame(n)' /\ CandidateSet(n)'
    BY <1>1, <2>3 DEF WaitInFrame, CandidateSet
  <2> QED
    BY <1>1, <2>5, <2>6, ReturnsQuiet
<1>4. CASE RequestSlot(n) \/ RequestGranted(n)
  <2> DEFINE tbl == [fi[n] EXCEPT ![slot_num[n]] = Claim(@, n)]
  <2>1. tbl \in GoodTable /\ Within(tbl, len)
    BY <1>0, <1>2, WriteGood, WriteWithin
  <2>2. /\ node_state'[n] \in {"REQUEST", "WORK_FI"} /\ slot_num' = slot_num
        /\ \/ fi' = [fi EXCEPT ![n] = CountersRestarted(tbl, len, n)]
           \/ fi' = [fi EXCEPT ![n] = CountersRestarted(fi[n], len, n)]
    BY <1>0, <1>4 DEF RequestSlot, RequestGranted, slots
  <2> HIDE DEF tbl
  <2>3. Within(fi'[n], len)
    BY <1>0, <1>a, <2>1, <2>2
  <2>4. WaitInFrame(n)' /\ CandidateSet(n)'
    BY <1>1, <1>2, <2>2 DEF WaitInFrame, CandidateSet
  <2> QED
    BY <1>1, <2>3, <2>4, ReturnsQuiet
<1>5. CASE SlotLost(n)
  <2>1. Reselects(n, ReleasedIfMine(n, fi[n], slot_num[n]))
    BY <1>5 DEF SlotLost
  <2> QED
    BY <1>0, <1>1, <1>2, <2>1, ReleasedIfMineGood, ReleasedWithin, ReselectsNode
<1> QED
  BY <1>3, <1>4, <1>5

\* The decisions of a station that works.
LEMMA WorkNode ==
  ASSUME HInv, NEW n \in Node, WorkKeepSlot(n) \/ WorkAdjust(n)
  PROVE  NodeInv(n)'
<1> DEFINE len == m_frame_len[n]
<1>0. /\ fi \in [Node -> GoodTable] /\ fi[n] \in GoodTable /\ IInv
      /\ node_state \in [Node -> NodeState] /\ NodeInv(n)
      /\ slot_num \in [Node -> SlotIdx \cup {-1}] /\ len \in FrameLens
      /\ slot_adj_candidate \in [Node -> SlotIdx \cup {-1}]
      /\ m_frame_len \in [Node -> FrameLens]
      /\ Within(fi[n], len)
  BY Known
<1>1. Returns(n) /\ node_state[n] = "WORK_FI"
  BY DEF WorkKeepSlot, WorkAdjust, Deciding
<1>2. CASE WorkKeepSlot(n)
  <2> DEFINE k == adjFrameLen(fi[n], len, adj_free_threshold[n])
             threshold == IF AdjFrameEna THEN ThresholdOf[k]
                                         ELSE adj_free_threshold[n]
  <2>1. /\ m_frame_len' = [m_frame_len EXCEPT ![n] = k]
        /\ SendsThenMayMove(n, fi[n], k, threshold, slot_num[n])
        /\ UNCHANGED <<node_state, slot_adj_candidate>>
    BY <1>2 DEF WorkKeepSlot
  <2>2. k \in FrameLens /\ Within(fi[n], k)
    BY <1>0, AdjustedWithin, AdjFrameLenType
  <2> HIDE DEF k, threshold
  <2>3. Within(fi'[n], k) /\ m_frame_len'[n] = k
    BY <1>0, <2>1, <2>2, SendsWithin
  <2>4. WaitInFrame(n)' /\ CandidateSet(n)'
    BY <1>1, <2>1 DEF WaitInFrame, CandidateSet, Asked, Working
  <2> QED
    BY <1>1, <2>3, <2>4, ReturnsQuiet
<1>3. CASE WorkAdjust(n)
  <2> DEFINE c == slot_num[n]
             both(b) == [fi[n] EXCEPT ![b] = Claim(@, n)]
             left == [fi[n] EXCEPT ![c] = Release(@, FALSE)]
             moved(b) == [left EXCEPT ![b] = Claim(@, n)]
             Goes(tbl, bch) == SendsThenMayMove(n, tbl, len,
                                                adj_free_threshold[n], bch)
  <2>1. PICK b \in Choices(n, fi[n], TRUE) :
          /\ slot_adj_candidate' = [slot_adj_candidate EXCEPT ![n] = b]
          /\ \/ Goes(fi[n], c) /\ node_state' = node_state
             \/ Goes(moved(b), b) /\ node_state' = node_state
             \/ /\ Goes(both(b), c) /\ b # -1
                /\ node_state' = [node_state EXCEPT ![n] = "WORK_ADJ"]
    BY <1>3 DEF WorkAdjust
  <2>2. m_frame_len' = m_frame_len
    BY <1>3 DEF WorkAdjust, frame
  <2>3. b = -1 \/ b \in 0 .. len - 1
    BY <1>0, DetermineInFrame DEF Choices
  <2>4. both(b) \in GoodTable /\ Within(both(b), len)
    BY <1>0, <2>3, WriteGood, WriteWithin
  <2>5. moved(b) \in GoodTable /\ Within(moved(b), len)
    <3>1. left \in GoodTable /\ Within(left, len)
      BY <1>0, WriteGood, WriteWithin
    <3> HIDE DEF left
    <3> QED
      BY <1>0, <2>3, <3>1, WriteGood, WriteWithin
  <2>6. \E tbl \in GoodTable : \E s : Within(tbl, len) /\ Goes(tbl, s)
    <3> HIDE DEF both, moved, Goes, c
    <3> QED
      BY <1>0, <2>1, <2>4, <2>5
  <2>7. Within(fi'[n], len)
    BY <1>0, <2>6, SendsWithin
  <2>8. WaitInFrame(n)' /\ CandidateSet(n)'
    <3> HIDE DEF both, moved, Goes, c
    <3>1. \/ node_state'[n] = "WORK_FI"
          \/ node_state'[n] = "WORK_ADJ" /\ slot_adj_candidate'[n] # -1
      BY <1>0, <1>1, <2>1
    <3> QED
      BY <3>1 DEF WaitInFrame, CandidateSet, Asked, Working
  <2> QED
    BY <1>1, <2>2, <2>7, <2>8, ReturnsQuiet
<1> QED
  BY <1>2, <1>3

\* NODE_WORK_ADJ.
LEMMA AdjNode ==
  ASSUME HInv, NEW n \in Node, AdjSettle(n) \/ AdjFallBack(n) \/ AdjLost(n)
  PROVE  NodeInv(n)'
<1> DEFINE len == m_frame_len[n]
<1>0. /\ fi \in [Node -> GoodTable] /\ fi[n] \in GoodTable
      /\ node_state \in [Node -> NodeState] /\ NodeInv(n)
      /\ len \in FrameLens /\ Within(fi[n], len)
  BY Known
<1>1. /\ Returns(n) /\ m_frame_len' = m_frame_len /\ Running(n) /\ pc = "decide"
  BY DEF AdjSettle, AdjFallBack, AdjLost, Deciding, frame
<1>2. CASE AdjSettle(n)
  <2> DEFINE tbl(g) == [fi[n] EXCEPT ![g] = Release(@, TRUE)]
  <2>1. \E g : fi' = [fi EXCEPT ![n] = CountersRestarted(tbl(g), len, n)]
    BY <1>2 DEF AdjSettle
  <2>2. ASSUME NEW g PROVE tbl(g) \in GoodTable /\ Within(tbl(g), len)
    BY <1>0, WriteGood, WriteWithin
  <2> HIDE DEF tbl
  <2>3. Within(fi'[n], len)
    BY <1>0, <2>1, <2>2, RestartWithin
  <2>4. node_state'[n] = "WORK_FI"
    BY <1>0, <1>2 DEF AdjSettle
  <2>5. WaitInFrame(n)' /\ CandidateSet(n)'
    BY <2>4 DEF WaitInFrame, CandidateSet, Asked, Working
  <2> QED
    BY <1>1, <2>3, <2>5, ReturnsQuiet
<1>3. CASE AdjFallBack(n)
  <2>1. node_state'[n] = "WORK_FI" /\ fi' = fi
    BY <1>0, <1>3 DEF AdjFallBack
  <2>2. WaitInFrame(n)' /\ CandidateSet(n)'
    BY <2>1 DEF WaitInFrame, CandidateSet, Asked, Working
  <2> QED
    BY <1>0, <1>1, <2>1, <2>2, ReturnsQuiet
<1>4. CASE AdjLost(n)
  <2>1. Reselects(n, ReleasedIfMine(n, fi[n], slot_adj_candidate[n]))
    BY <1>4 DEF AdjLost
  <2>2. slot_num[n] \in 0 .. len - 1
    BY <1>0, <1>1 DEF NodeInv, HandlerSlot, In
  <2> QED
    BY <1>0, <1>1, <2>1, <2>2, ReleasedIfMineGood, ReleasedWithin, ReselectsNode
<1> QED
  BY <1>2, <1>3, <1>4

\* A handler sends in the name of its own station.
LEMMA SendsForItself ==
  ASSUME NEW n \in Node, slotHandler(n)
  PROVE  air \subseteq air' /\ \A m \in air' \ air : m.sti = n
<1>1. CASE air' = air
  BY <1>1
<1>2. CASE \E tbl, l : Sends(n, tbl, l)
  BY <1>2 DEF Sends, FiOf
<1>3. OtherSlot(n) \/ InitSlot(n) \/ ListenBackoff(n) \/ Synthesize(n)
        => air' = air
  BY DEF OtherSlot, InitSlot, ListenBackoff, Synthesize, StartSynthesis,
         MergeNext, EndSynthesis
<1>4. Decide(n) => air' = air \/ \E tbl, l : Sends(n, tbl, l)
  BY DEF Decide, ListenChoose, RequestSlot, RequestGranted, SlotLost,
         WorkKeepSlot, WorkAdjust, AdjSettle, AdjFallBack, AdjLost,
         Reselects, SendsThenMayMove
<1> QED
  BY <1>1, <1>2, <1>3, <1>4 DEF slotHandler

\* Who runs, and who has sent.
LEMMA HandlerPc ==
  ASSUME HInv, NEW n \in Node, slotHandler(n)
  PROVE  PcInv' /\ AirDone'
<1>1. CASE Returns(n)
  BY <1>1, SendsForItself DEF HInv, PcInv, AirDone, Returns
<1>2. CASE Synthesize(n) /\ todo' = todo
  BY <1>2, HandlerGoes
  DEF HInv, PcInv, AirDone, Synthesize, StartSynthesis, MergeNext, EndSynthesis,
      Running
<1> QED
  BY <1>1, <1>2, HandlerGoes

\* No handler is halfway through when the channel delivers and time passes.
LEMMA ChannelNode ==
  ASSUME HInv, (\E r \in Node : Receive(r)) \/ EndSlot \/ Drive
  PROVE  PcInv' /\ AirDone' /\ \A n \in Node : NodeInv(n)' /\ ~In(n)'
<1>1. UNCHANGED <<node_state, slots, frame, fi, pc, merging>>
  BY DEF Receive, recvFI, LoseFI, EndSlot, Drive, handler, local
<1>2. pc = "start"
  BY DEF HInv, PcInv, Receive, recvFI, LoseFI, EndSlot, Drive
<1>3. PcInv'
  BY <1>1, <1>2 DEF PcInv
<1>4. AirDone'
  <2>1. CASE EndSlot
    BY <2>1 DEF EndSlot, AirDone
  <2>2. CASE (\E r \in Node : Receive(r)) \/ Drive
    BY <2>2 DEF HInv, AirDone, Receive, recvFI, LoseFI, Drive, handler
  <2> QED
    BY <2>1, <2>2
<1>5. ASSUME NEW n \in Node PROVE NodeInv(n)' /\ ~In(n)'
  <2>1. ~In(n)'
    BY <1>1, <1>2 DEF In
  <2>2. NodeInv(n)
    BY DEF HInv
  <2>3. WaitInFrame(n)' /\ Beyond(n)' /\ CandidateSet(n)'
    BY <1>1, <2>2
    DEF NodeInv, WaitInFrame, Beyond, CandidateSet, Asked, slots, frame
  <2> QED
    BY <2>1, <2>3 DEF NodeInv, HandlerSlot, Heeded
<1> QED
  BY <1>3, <1>4, <1>5

\* Start.
LEMMA InitHInv == Init => HInv
<1> SUFFICES ASSUME Init PROVE HInv
  OBVIOUS
<1>1. IInv
  BY InitIInv
<1>2. PcInv /\ AirDone
  BY DEF Init, PcInv, AirDone
<1>3. ASSUME NEW n \in Node PROVE NodeInv(n)
  <2>1. FrameLen \in 1..MaxLen
    BY FrameAssumption, LenType
  <2>2. 1 % FrameLen \in 0 .. FrameLen - 1
    BY <2>1
  <2>3. /\ node_state[n] = "INIT" /\ slot_num[n] = 1 % FrameLen
        /\ m_frame_len[n] = FrameLen /\ fi[n] = [c \in SlotIdx |-> FreeTag]
        /\ pc = "start"
    BY DEF Init
  <2>4. ~In(n)
    BY <2>3 DEF In
  <2>5. Beyond(n)
    BY <2>3 DEF Beyond, FreeTag
  <2>6. WaitInFrame(n) /\ CandidateSet(n)
    BY <2>2, <2>3 DEF WaitInFrame, CandidateSet
  <2> QED
    BY <2>4, <2>5, <2>6 DEF NodeInv, HandlerSlot, Heeded
<1> QED
  BY <1>1, <1>2, <1>3 DEF HInv

\* Every step keeps the invariant.
LEMMA NextHInv == HInv /\ [Next]_vars => HInv'
<1> SUFFICES ASSUME HInv, [Next]_vars PROVE HInv'
  OBVIOUS
<1>1. IInv'
  BY NextIInv DEF HInv
<1>2. ASSUME NEW n \in Node, slotHandler(n)
      PROVE  PcInv' /\ AirDone' /\ \A m \in Node : NodeInv(m)'
  <2>1. NodeInv(n)'
    BY <1>2, QuietNode, SynthesizeNode, AcquireNode, WorkNode, AdjNode
    DEF slotHandler, Decide
  <2> QED
    BY <1>2, <2>1, HandlerPc, OthersKeep
<1>3. CASE UNCHANGED vars
  BY <1>1, <1>3 DEF vars, handler, local, slots, frame, channel, HInv, PcInv,
     AirDone, NodeInv, HandlerSlot, WaitInFrame, Beyond, Heeded, CandidateSet,
     In, Running, Asked, Recorded
<1> QED
  BY <1>1, <1>2, <1>3, ChannelNode DEF HInv, Next

\* So it always holds.
LEMMA ClaimsInvariance == Spec => []HInv
  BY InitHInv, NextHInv, PTL DEF Spec

-----------------------------------------------------------------------------
(***************************************************************************)
(* The theorems for every setting of the switches.                         *)
(***************************************************************************)
\* Whatever merge_fi took over and adjFrameLen halved, no slot beyond a
\* station's frame is in use in its table.
THEOREM FrameHoldsAll == Spec => []NothingBeyondFrame
<1>1. HInv => NothingBeyondFrame
  <2> SUFFICES ASSUME HInv, NEW n \in Node, NEW c \in m_frame_len[n] .. MaxLen - 1
               PROVE  fi[n][c].sti = 0
    BY DEF NothingBeyondFrame
  <2>1. m_frame_len[n] \in 1..MaxLen /\ Within(fi[n], m_frame_len[n])
    BY Known
  <2>2. c \in SlotIdx /\ c >= m_frame_len[n]
    BY <2>1, MaxLenAssumption DEF SlotIdx
  <2> QED
    BY <2>1, <2>2 DEF Within
<1> QED
  BY <1>1, ClaimsInvariance, PTL

\* The slot of a station that waits, or that has itself down as its user, is
\* a slot of its frame, so the slot comes again.
THEOREM SlotComesAgain == Spec => []SlotInFrame
<1>1. HInv => SlotInFrame
  <2> SUFFICES ASSUME HInv, NEW n \in Node, Recorded(n) \/ ~Asked(n)
               PROVE  slot_num[n] \in 0 .. m_frame_len[n] - 1
    BY DEF SlotInFrame
  <2>0. /\ NodeInv(n) /\ m_frame_len[n] \in 1..MaxLen
        /\ slot_num[n] \in SlotIdx \cup {-1}
    BY Known
  <2>1. CASE ~Asked(n)
    BY <2>0, <2>1 DEF NodeInv, WaitInFrame
  <2>2. CASE Recorded(n)
    <3>1. slot_num[n] \in SlotIdx /\ fi[n][slot_num[n]].sti # 0
      BY <2>0, <2>2, NodeAssumption DEF Recorded
    <3>2. ~(slot_num[n] >= m_frame_len[n])
      BY <2>0, <3>1 DEF NodeInv, Beyond
    <3> QED
      BY <2>0, <3>1, <3>2, MaxLenAssumption DEF SlotIdx
  <2> QED
    BY <2>1, <2>2
<1> QED
  BY <1>1, ClaimsInvariance, PTL

\* A station that still has itself down as the user of its slot when it
\* decides has merged no FI that objects: neither the order in which merge_fi
\* takes the FIs nor a later FI makes up for an objection.
THEOREM EveryObjectionHeeded == Spec => []ObjectionsHeeded
<1>1. HInv => ObjectionsHeeded
  <2> SUFFICES ASSUME HInv, NEW n \in Node,
                      Deciding(n, Working \cup {"REQUEST"}), Recorded(n),
                      NEW f \in received[n], slot_num[n] < f.len
               PROVE  ~Objects(f.tags[slot_num[n]], n)
    BY DEF ObjectionsHeeded
  <2>1. In(n) /\ merging = {}
    BY DEF HInv, PcInv, Deciding, In
  <2>2. ~Against(f.tags[slot_num[n]], n)
    BY <2>1 DEF HInv, NodeInv, Heeded
  <2> QED
    BY <2>2 DEF Against, Objects
<1> QED
  BY <1>1, ClaimsInvariance, PTL
=============================================================================
