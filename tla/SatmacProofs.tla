---------------------------- MODULE SatmacProofs ----------------------------
(***************************************************************************)
(* Every reachable state of Satmac is well typed, and in it every tag in   *)
(* every table and in every FI names a station exactly when it is busy,    *)
(* for any number of stations, slots and frame lengths, any topology, and  *)
(* any number of losses and movements.                                     *)
(***************************************************************************)
EXTENDS Satmac, FrameInfoProofs, FiniteSetTheorems

GoodPacket == {m \in FiPacket : m.tags \in [SlotIdx -> GoodWire]}
GoodReceived == {f \in Frame_info : f.tags \in [SlotIdx -> GoodDecoded]}

(***************************************************************************)
(* The inductive invariant: TypeOK with good tags.  A table is only as     *)
(* good as the FIs merged into it, and an FI as the table it was coded     *)
(* from, so the claim about tables needs the one about FIs and conversely. *)
(***************************************************************************)
HandlerInv ==
  /\ todo \subseteq Node /\ pc \in {"start", "merge", "decide"}
  /\ merging \subseteq GoodReceived /\ unlock_flag \in BOOLEAN
StateInv ==
  /\ node_state \in [Node -> NodeState]
  /\ slot_num \in [Node -> SlotIdx \cup {-1}]
  /\ slot_adj_candidate \in [Node -> SlotIdx \cup {-1}]
CounterInv ==
  /\ bch_slot_lock \in [Node -> -1 .. BchLock]
  /\ backoff_frame_num \in [Node -> 0 .. MaxBackoff]
  /\ adj_single_slot_ena \in [Node -> BOOLEAN]
FrameInv ==
  /\ m_frame_len \in [Node -> FrameLens]
  /\ adj_free_threshold \in [Node -> Nat \ {0}]
TableInv == fi \in [Node -> GoodTable]
ReceivedInv == received \in [Node -> SUBSET GoodReceived]
AirInv == air \subseteq GoodPacket
ChannelInv ==
  /\ total_slot_count \in SlotIdx
  /\ handled \subseteq Node \X Node /\ link \subseteq Node \X Node
  /\ losses \in 0..MaxLoss /\ moves \in 0..MaxMoves

IInv == /\ HandlerInv /\ StateInv /\ CounterInv /\ FrameInv
        /\ TableInv /\ ReceivedInv /\ AirInv /\ ChannelInv

-----------------------------------------------------------------------------
(***************************************************************************)
(* Lengths, slots and FIs.                                                 *)
(***************************************************************************)
\* There are finitely many stations: an STI has 9 bits.
LEMMA NodeFinite == IsFiniteSet(Node)
<1>1. 1 \in Int /\ 511 \in Int
  OBVIOUS
<1>2. IsFiniteSet(1 .. 511)
  BY <1>1, FS_Interval, Zenon
<1> QED
  BY <1>2, NodeAssumption, FS_Subset

\* Every slot of a frame is a slot of the table.
LEMMA LenType ==
  ASSUME NEW l \in FrameLens
  PROVE  /\ l \in 1..MaxLen /\ 0 .. l - 1 \subseteq SlotIdx /\ MaxLen \in Nat \ {0}
  BY FrameLensAssumption, MaxLenAssumption DEF SlotIdx

\* The slot of a frame or of the longest frame that a count falls into.
LEMMA ModType ==
  ASSUME NEW x \in Nat, NEW l \in FrameLens
  PROVE  x % l \in SlotIdx /\ x % MaxLen \in SlotIdx
<1>1. l \in 1..MaxLen /\ MaxLen \in Nat \ {0}
  BY LenType
<1>2. x % l \in 0 .. l - 1 /\ x % MaxLen \in 0 .. MaxLen - 1
  BY <1>1
<1> QED
  BY <1>1, <1>2 DEF SlotIdx

\* determine_BCH returns a slot of the frame, or -1.
LEMMA DetermineType ==
  ASSUME NEW tbl, NEW l \in FrameLens, NEW threshold, NEW me,
         NEW strict \in BOOLEAN,
         NEW b \in determine_BCH(tbl, l, threshold, me, strict)
  PROVE  b \in SlotIdx \cup {-1}
<1> DEFINE s2c == Candidates(tbl, l, me, strict)
           s0c == {c \in s2c : tbl[c].c3 = 0}
<1>1. s2c \subseteq 0 .. l - 1
  BY DEF Candidates
<1>2. s0c \subseteq s2c
  OBVIOUS
<1>3. \A S : Pick(S) \subseteq S /\ LowerHalf(S, l) \subseteq S
  BY DEF Pick, LowerHalf
<1>4. \/ b = -1 \/ b \in s2c \/ b \in LowerHalf(s0c, l)
      \/ b \in Pick(s0c) \/ b \in Pick(s2c)
  BY DEF determine_BCH
<1> HIDE DEF s2c, s0c
<1>5. b = -1 \/ b \in 0 .. l - 1
  BY <1>1, <1>2, <1>3, <1>4
<1> QED
  BY <1>5, LenType

\* adjFrameLen halves or doubles within its bounds.
LEMMA AdjFrameLenType ==
  ASSUME NEW tbl, NEW l \in FrameLens, NEW threshold
  PROVE  adjFrameLen(tbl, l, threshold) \in FrameLens
<1>1. /\ AdjFrameEna /\ l < UpperBound => 2 * l \in FrameLens
      /\ AdjFrameEna /\ l > LowerBound => l \div 2 \in FrameLens
  BY FrameAssumption
<1> QED
  BY <1>1 DEF adjFrameLen

\* An FI coded from a good table is good.
LEMMA FiOfGood ==
  ASSUME NEW n \in Node, NEW tbl \in GoodTable, NEW l \in FrameLens
  PROVE  FiOf(n, tbl, l) \in GoodPacket
<1>1. CodedTable(tbl, l) \in [SlotIdx -> GoodWire]
  BY CodedTableGood
<1>2. CodedTable(tbl, l) \in [SlotIdx -> WireTag]
  BY <1>1, GoodIsTyped
<1> QED
  BY <1>1, <1>2 DEF FiOf, GoodPacket, FiPacket

\* What merge_fi needs to know of a received FI.
LEMMA ReceivedIsGood == \A f \in GoodReceived : GoodFi(f)
  BY DEF GoodReceived, GoodFi, Frame_info

\* fade_received_fi_list drops an FI before its remain_time reaches 0.
LEMMA FadedGood ==
  ASSUME NEW S \in SUBSET GoodReceived
  PROVE  Faded(S) \subseteq GoodReceived
<1> SUFFICES ASSUME NEW f \in S, f.remain > 1
             PROVE  [f EXCEPT !.remain = @ - 1] \in GoodReceived
  BY DEF Faded
<1>1. f \in Frame_info /\ f.tags \in [SlotIdx -> GoodDecoded]
  BY DEF GoodReceived
<1>2. f.remain - 1 \in 1..MaxLen
  <2>1. f.remain \in 1..MaxLen
    BY <1>1 DEF Frame_info
  <2> QED
    BY <2>1, MaxLenAssumption
<1>3. [f EXCEPT !.remain = @ - 1] \in Frame_info
  BY <1>1, <1>2 DEF Frame_info
<1>4. [f EXCEPT !.remain = @ - 1].tags = f.tags
  BY <1>1 DEF Frame_info
<1> QED
  BY <1>1, <1>3, <1>4 DEF GoodReceived

-----------------------------------------------------------------------------
(***************************************************************************)
(* Parts that several actions share.                                       *)
(***************************************************************************)
\* The end of slotHandler.
LEMMA ReturnsKeeps ==
  ASSUME IInv, NEW n \in Node, Returns(n)
  PROVE  HandlerInv'
  BY DEF IInv, HandlerInv, Returns

\* Its start, fade_received_fi_list.
LEMMA FadeKeeps ==
  ASSUME IInv, NEW n \in Node, Fade(n)
  PROVE  ReceivedInv'
<1>1. received \in [Node -> SUBSET GoodReceived]
  BY DEF IInv, ReceivedInv
<1>2. Faded(received[n]) \in SUBSET GoodReceived
  BY <1>1, FadedGood
<1> QED
  BY <1>1, <1>2 DEF Fade, ReceivedInv

\* What no decision touches.
LEMMA DecisionFrameKeeps ==
  ASSUME IInv, DecisionFrame
  PROVE  /\ ReceivedInv' /\ ChannelInv'
         /\ adj_single_slot_ena' \in [Node -> BOOLEAN]
  BY DEF IInv, DecisionFrame, ReceivedInv, ChannelInv, channel, CounterInv

\* generate_send_FI_packet sends a good FI.
LEMMA SendsKeeps ==
  ASSUME IInv, NEW n \in Node, NEW tbl \in GoodTable, NEW l \in FrameLens,
         Sends(n, tbl, l)
  PROVE  AirInv'
  BY FiOfGood DEF IInv, AirInv, Sends

\* The table and the frame of a station.
LEMMA TableOf ==
  ASSUME IInv, NEW n \in Node
  PROVE  /\ fi[n] \in GoodTable /\ m_frame_len[n] \in FrameLens
         /\ \A tbl \in GoodTable : [fi EXCEPT ![n] = tbl] \in [Node -> GoodTable]
         /\ slot_num[n] \in SlotIdx \cup {-1}
         /\ slot_adj_candidate[n] \in SlotIdx \cup {-1}
  BY DEF IInv, TableInv, FrameInv, StateInv

\* The states that slotHandler assigns.
LEMMA StatesAreStates ==
  /\ "LISTEN" \in NodeState /\ "WAIT_REQUEST" \in NodeState
  /\ "REQUEST" \in NodeState /\ "WORK_FI" \in NodeState /\ "WORK_ADJ" \in NodeState
  BY DEF NodeState

\* Going back to NODE_LISTEN.
LEMMA BacksOffKeeps ==
  ASSUME IInv, NEW n \in Node, BacksOff(n)
  PROVE  /\ node_state' \in [Node -> NodeState]
         /\ backoff_frame_num' \in [Node -> 0 .. MaxBackoff]
         /\ slot_num' = slot_num
  BY StatesAreStates DEF IInv, StateInv, CounterInv, BacksOff

\* Choosing another slot after losing one.
LEMMA ReselectsKeeps ==
  ASSUME IInv, NEW n \in Node, NEW tbl \in GoodTable, Reselects(n, tbl)
  PROVE  /\ StateInv' /\ TableInv' /\ AirInv'
         /\ bch_slot_lock' = bch_slot_lock
         /\ backoff_frame_num' \in [Node -> 0 .. MaxBackoff]
<1>1. /\ fi' = [fi EXCEPT ![n] = tbl] /\ air' = air
      /\ slot_adj_candidate' = slot_adj_candidate
      /\ bch_slot_lock' = bch_slot_lock
  BY DEF Reselects
<1>2. TableInv' /\ AirInv'
  BY <1>1, TableOf DEF IInv, TableInv, AirInv
<1>3. PICK b \in Choices(n, tbl, FALSE) :
        \/ /\ node_state' = [node_state EXCEPT ![n] = "WAIT_REQUEST"]
           /\ slot_num' = [slot_num EXCEPT ![n] = b]
           /\ backoff_frame_num' = backoff_frame_num
        \/ BacksOff(n)
  BY DEF Reselects
<1>4. b \in SlotIdx \cup {-1}
  BY DetermineType, TableOf DEF Choices
<1>5. /\ node_state \in [Node -> NodeState]
      /\ slot_num \in [Node -> SlotIdx \cup {-1}]
      /\ slot_adj_candidate \in [Node -> SlotIdx \cup {-1}]
      /\ backoff_frame_num \in [Node -> 0 .. MaxBackoff]
  BY DEF IInv, StateInv, CounterInv
<1>6. CASE BacksOff(n)
  BY <1>1, <1>2, <1>5, <1>6, BacksOffKeeps DEF StateInv
<1>7. CASE /\ node_state' = [node_state EXCEPT ![n] = "WAIT_REQUEST"]
           /\ slot_num' = [slot_num EXCEPT ![n] = b]
           /\ backoff_frame_num' = backoff_frame_num
  BY <1>1, <1>2, <1>4, <1>5, <1>7, StatesAreStates DEF StateInv
<1> QED
  BY <1>3, <1>6, <1>7

\* Giving up a slot before that keeps the table good.
LEMMA ReleasedIfMineGood ==
  ASSUME NEW n \in Node, NEW tbl \in GoodTable, NEW c
  PROVE  ReleasedIfMine(n, tbl, c) \in GoodTable
  BY WriteGood DEF ReleasedIfMine

\* The FI goes out, and a lonely station may move.
LEMMA SendsThenMayMoveKeeps ==
  ASSUME IInv, NEW n \in Node, NEW tbl \in GoodTable, NEW l \in FrameLens,
         NEW threshold, NEW bch \in SlotIdx \cup {-1},
         SendsThenMayMove(n, tbl, l, threshold, bch)
  PROVE  /\ AirInv' /\ TableInv'
         /\ slot_num' \in [Node -> SlotIdx \cup {-1}]
         /\ bch_slot_lock' \in [Node -> -1 .. BchLock]
<1> DEFINE sent == CountersRestarted(tbl, l, n)
           left == [sent EXCEPT ![slot_num[n]] = Release(@, TRUE)]
<1>1. sent \in GoodTable
  BY CountersRestartedGood
<1>2. \A b : [left EXCEPT ![b] = Claim(@, n)] \in GoodTable
  <2> HIDE DEF sent
  <2>1. left \in GoodTable
    BY <1>1, WriteGood
  <2> HIDE DEF left
  <2> QED
    BY <2>1, WriteGood
<1>3. /\ slot_num \in [Node -> SlotIdx \cup {-1}]
      /\ bch_slot_lock \in [Node -> -1 .. BchLock] /\ BchLock \in Nat
  BY NumberAssumption DEF IInv, StateInv, CounterInv
<1>4. AirInv'
  BY SendsKeeps DEF SendsThenMayMove
<1>5. \/ /\ bch_slot_lock' = [bch_slot_lock EXCEPT ![n] = BchLock]
         /\ fi' = [fi EXCEPT ![n] = sent]
         /\ slot_num' = [slot_num EXCEPT ![n] = bch]
      \/ /\ bch_slot_lock[n] # 0
         /\ bch_slot_lock' = [bch_slot_lock EXCEPT
                                ![n] = IF @ = -1 THEN -1 ELSE @ - 1]
         /\ fi' = [fi EXCEPT ![n] = sent]
         /\ slot_num' = [slot_num EXCEPT ![n] = bch]
      \/ /\ bch_slot_lock' = [bch_slot_lock EXCEPT ![n] = BchLock]
         /\ \E b \in determine_BCH(sent, l, threshold, n, FALSE) :
              /\ slot_num' = [slot_num EXCEPT ![n] = b]
              /\ fi' = [fi EXCEPT ![n] = [left EXCEPT ![b] = Claim(@, n)]]
  BY DEF SendsThenMayMove
<1>6. TableInv'
  <2> HIDE DEF sent, left
  <2>1. \E T \in GoodTable : fi' = [fi EXCEPT ![n] = T]
    BY <1>1, <1>2, <1>5
  <2> QED
    BY <2>1, TableOf DEF TableInv
<1>7. slot_num' \in [Node -> SlotIdx \cup {-1}]
  <2> HIDE DEF sent, left
  <2>1. \A b \in determine_BCH(sent, l, threshold, n, FALSE) : b \in SlotIdx \cup {-1}
    BY DetermineType
  <2> QED
    BY <1>3, <1>5, <2>1
<1>8. bch_slot_lock' \in [Node -> -1 .. BchLock]
  <2> DEFINE k == bch_slot_lock[n]
  <2>1. k \in -1 .. BchLock
    BY <1>3
  <2>2. BchLock \in -1 .. BchLock /\ -1 \in -1 .. BchLock
    BY <1>3
  <2>3. k # 0 => (IF k = -1 THEN -1 ELSE k - 1) \in -1 .. BchLock
    BY <1>3, <2>1
  <2>4. \/ bch_slot_lock' = [bch_slot_lock EXCEPT ![n] = BchLock]
        \/ k # 0 /\ bch_slot_lock' = [bch_slot_lock EXCEPT
                                         ![n] = IF k = -1 THEN -1 ELSE k - 1]
    <3> HIDE DEF sent, left
    <3> QED
      BY <1>5
  <2> HIDE DEF k
  <2> QED
    BY <1>3, <2>2, <2>3, <2>4
<1> QED
  BY <1>4, <1>6, <1>7, <1>8

-----------------------------------------------------------------------------
(***************************************************************************)
(* The invariant holds at start, and every action keeps it.                *)
(***************************************************************************)
\* Start establishes the invariant.
LEMMA InitIInv == Init => IInv
<1> SUFFICES ASSUME Init PROVE IInv
  OBVIOUS
<1>0. FrameLen \in FrameLens
  BY FrameAssumption
<1>1. HandlerInv /\ AirInv
  BY DEF Init, HandlerInv, AirInv
<1>2. StateInv
  <2>1. 1 % FrameLen \in SlotIdx
    BY <1>0, ModType
  <2>2. slot_num \in [Node -> SlotIdx \cup {-1}]
    BY <2>1 DEF Init
  <2>3. slot_adj_candidate \in [Node -> SlotIdx \cup {-1}]
    BY InitialValueAssumption DEF Init
  <2>4. node_state \in [Node -> NodeState]
    BY DEF Init, NodeState
  <2> QED
    BY <2>2, <2>3, <2>4 DEF StateInv
<1>3. CounterInv
  <2>1. bch_slot_lock \in [Node -> -1 .. BchLock]
    BY InitialValueAssumption DEF Init
  <2>2. adj_single_slot_ena \in [Node -> BOOLEAN]
    BY InitialValueAssumption DEF Init
  <2>3. backoff_frame_num \in [Node -> 0 .. MaxBackoff]
    BY NumberAssumption DEF Init
  <2> QED
    BY <2>1, <2>2, <2>3 DEF CounterInv
<1>4. FrameInv
  BY <1>0, NumberAssumption DEF Init, FrameInv
<1>5. TableInv
  BY FreeTableGood DEF Init, TableInv
<1>6. ReceivedInv
  BY DEF Init, ReceivedInv
<1>7. ChannelInv
  BY <1>0, ModType, TopologyAssumption, NumberAssumption DEF Init, ChannelInv
<1> QED
  BY <1>1, <1>2, <1>3, <1>4, <1>5, <1>6, <1>7 DEF IInv

\* The slots in which a station decides nothing.
LEMMA QuietKeeps ==
  ASSUME IInv, NEW n \in Node,
         OtherSlot(n) \/ InitSlot(n) \/ ListenBackoff(n)
  PROVE  IInv'
<1>1. Returns(n) /\ Fade(n) /\ UNCHANGED <<slots, bch_slot_lock, frame,
                                 adj_single_slot_ena, fi, air, channel>>
  BY DEF OtherSlot, InitSlot, ListenBackoff, local
<1>2. HandlerInv' /\ ReceivedInv'
  BY <1>1, ReturnsKeeps, FadeKeeps
<1>3. FrameInv' /\ TableInv' /\ AirInv' /\ ChannelInv'
  BY <1>1 DEF IInv, FrameInv, TableInv, AirInv, ChannelInv, frame, channel
<1>4. node_state' \in [Node -> NodeState]
  BY StatesAreStates DEF IInv, StateInv, OtherSlot, InitSlot, ListenBackoff, local
<1>5. backoff_frame_num' \in [Node -> 0 .. MaxBackoff]
  <2>1. backoff_frame_num \in [Node -> 0 .. MaxBackoff] /\ MaxBackoff \in Nat
    BY NumberAssumption DEF IInv, CounterInv
  <2>2. CASE OtherSlot(n)
    BY <2>1, <2>2 DEF OtherSlot, local
  <2>3. CASE InitSlot(n)
    BY <2>1, <2>3 DEF InitSlot
  <2>4. CASE ListenBackoff(n)
    <3>1. backoff_frame_num[n] - 1 \in 0 .. MaxBackoff
      BY <2>1, <2>4 DEF ListenBackoff
    <3> QED
      BY <2>1, <2>4, <3>1 DEF ListenBackoff
  <2> QED
    BY <2>2, <2>3, <2>4
<1>6. StateInv' /\ CounterInv'
  BY <1>1, <1>4, <1>5 DEF IInv, StateInv, CounterInv, slots
<1> QED
  BY <1>2, <1>3, <1>6 DEF IInv

\* synthesize_fi_list.
LEMMA SynthesizeKeeps ==
  ASSUME IInv, NEW n \in Node, Synthesize(n)
  PROVE  IInv'
<1>1. CASE StartSynthesis(n)
  <2>1. /\ Fade(n) /\ merging' = Faded(received[n]) /\ pc' = "merge"
        /\ unlock_flag' \in BOOLEAN
        /\ UNCHANGED <<todo, node_state, slots, bch_slot_lock,
                       backoff_frame_num, frame, adj_single_slot_ena, air,
                       channel>>
    BY <1>1 DEF StartSynthesis
  <2>2. ReceivedInv'
    BY <2>1, FadeKeeps
  <2>3. Faded(received[n]) \subseteq GoodReceived
    BY FadedGood DEF IInv, ReceivedInv
  <2>4. HandlerInv'
    BY <2>1, <2>3 DEF IInv, HandlerInv
  <2>5. \E T \in GoodTable : fi' = [fi EXCEPT ![n] = T]
    <3> DEFINE A == AgeTable(fi[n], m_frame_len[n], n,
                             {slot_num[n], slot_adj_candidate[n]})
               C == ClearOthers(fi[n], m_frame_len[n], n)
               E == [c \in SlotIdx |-> FreeTag]
    <3>1. A \in GoodTable /\ C \in GoodTable /\ E \in GoodTable
      BY TableOf, AgeTableGood, ClearOthersGood, FreeTableGood
    <3>2. \/ fi' = [fi EXCEPT ![n] = A] \/ fi' = [fi EXCEPT ![n] = C]
          \/ fi' = [fi EXCEPT ![n] = E]
      BY <1>1 DEF StartSynthesis
    <3> HIDE DEF A, C, E
    <3> QED
      BY <3>1, <3>2
  <2>6. TableInv'
    BY <2>5, TableOf DEF TableInv
  <2>7. StateInv' /\ CounterInv' /\ FrameInv' /\ AirInv' /\ ChannelInv'
    BY <2>1 DEF IInv, StateInv, CounterInv, FrameInv, AirInv, ChannelInv,
                slots, frame, channel
  <2> QED
    BY <2>2, <2>4, <2>6, <2>7 DEF IInv
<1>2. CASE MergeNext(n)
  <2>1. PICK f \in merging :
          /\ merging' = merging \ {f}
          /\ fi' = [fi EXCEPT ![n] = merge_fi(@, m_frame_len[n], f, n)]
          /\ m_frame_len' = [m_frame_len EXCEPT
                               ![n] = merged_len(fi[n], @, f, n)]
    BY <1>2 DEF MergeNext
  <2>2. UNCHANGED <<todo, pc, unlock_flag, node_state, slots, bch_slot_lock,
                    backoff_frame_num, adj_free_threshold,
                    adj_single_slot_ena, received, air, channel>>
    BY <1>2 DEF MergeNext
  <2>3. GoodFi(f) /\ f.len \in FrameLens
    BY ReceivedIsGood DEF IInv, HandlerInv, GoodFi
  <2>4. merge_fi(fi[n], m_frame_len[n], f, n) \in GoodTable
    BY <2>3, TableOf, MergeGood
  <2>5. merged_len(fi[n], m_frame_len[n], f, n) \in FrameLens
    BY <2>3, TableOf, MergedLenType
  <2>6. TableInv'
    BY <2>1, <2>4, TableOf DEF TableInv
  <2>7. FrameInv'
    BY <2>1, <2>2, <2>5 DEF IInv, FrameInv
  <2>8. HandlerInv'
    BY <2>1, <2>2 DEF IInv, HandlerInv
  <2>9. StateInv' /\ CounterInv' /\ ReceivedInv' /\ AirInv' /\ ChannelInv'
    BY <2>2 DEF IInv, StateInv, CounterInv, ReceivedInv, AirInv, ChannelInv,
                slots, channel
  <2> QED
    BY <2>6, <2>7, <2>8, <2>9 DEF IInv
<1>3. CASE EndSynthesis(n)
  <2>1. UNCHANGED <<todo, merging, unlock_flag, node_state, slots,
                    bch_slot_lock, backoff_frame_num, frame,
                    adj_single_slot_ena, received, air, channel>>
    BY <1>3 DEF EndSynthesis
  <2>2. HandlerInv'
    BY <1>3, <2>1 DEF EndSynthesis, IInv, HandlerInv
  <2>3. \E T \in GoodTable : fi' = [fi EXCEPT ![n] = T]
    <3>1. fi[n] \in GoodTable /\ UnlockFree(fi[n], m_frame_len[n]) \in GoodTable
      BY TableOf, UnlockFreeGood
    <3> QED
      BY <1>3, <3>1 DEF EndSynthesis
  <2>4. TableInv'
    BY <2>3, TableOf DEF TableInv
  <2>5. /\ StateInv' /\ CounterInv' /\ FrameInv' /\ ReceivedInv' /\ AirInv'
        /\ ChannelInv'
    BY <2>1 DEF IInv, StateInv, CounterInv, FrameInv, ReceivedInv, AirInv,
                ChannelInv, slots, frame, channel
  <2> QED
    BY <2>2, <2>4, <2>5 DEF IInv
<1> QED
  BY <1>1, <1>2, <1>3 DEF Synthesize

\* slotHandler's decisions before the station works.
LEMMA AcquireKeeps ==
  ASSUME IInv, NEW n \in Node,
         ListenChoose(n) \/ RequestSlot(n) \/ RequestGranted(n) \/ SlotLost(n)
  PROVE  IInv'
<1> DEFINE len == m_frame_len[n]
<1>0. /\ node_state \in [Node -> NodeState]
      /\ slot_num \in [Node -> SlotIdx \cup {-1}]
      /\ slot_adj_candidate \in [Node -> SlotIdx \cup {-1}]
      /\ bch_slot_lock \in [Node -> -1 .. BchLock]
      /\ backoff_frame_num \in [Node -> 0 .. MaxBackoff]
  BY DEF IInv, StateInv, CounterInv
<1>1. /\ HandlerInv' /\ ReceivedInv' /\ ChannelInv' /\ FrameInv'
      /\ adj_single_slot_ena' \in [Node -> BOOLEAN]
  <2>1. Returns(n) /\ DecisionFrame /\ UNCHANGED frame
    BY DEF ListenChoose, RequestSlot, RequestGranted, SlotLost
  <2> QED
    BY <2>1, ReturnsKeeps, DecisionFrameKeeps DEF IInv, FrameInv, frame
<1>a. ASSUME NEW tbl \in GoodTable, Sends(n, tbl, len),
             fi' = [fi EXCEPT ![n] = CountersRestarted(tbl, len, n)]
      PROVE  TableInv' /\ AirInv'
  <2>1. CountersRestarted(tbl, len, n) \in GoodTable
    BY CountersRestartedGood
  <2> QED
    BY <1>a, <2>1, TableOf, SendsKeeps DEF TableInv
<1>2. CASE ListenChoose(n)
  <2>1. PICK b \in Choices(n, fi[n], FALSE) :
          \/ BacksOff(n) /\ UNCHANGED <<fi, air>>
          \/ /\ Sends(n, [fi[n] EXCEPT ![b] = Claim(@, n)], len)
             /\ fi' = [fi EXCEPT ![n] =
                  CountersRestarted([fi[n] EXCEPT ![b] = Claim(@, n)], len, n)]
             /\ node_state' = [node_state EXCEPT ![n] = "REQUEST"]
             /\ UNCHANGED <<slot_num, backoff_frame_num>>
          \/ /\ node_state' = [node_state EXCEPT ![n] = "WAIT_REQUEST"]
             /\ slot_num' = [slot_num EXCEPT ![n] = b]
             /\ UNCHANGED <<backoff_frame_num, fi, air>>
    BY <1>2 DEF ListenChoose
  <2>2. /\ slot_adj_candidate' = slot_adj_candidate
        /\ bch_slot_lock' = bch_slot_lock
    BY <1>2 DEF ListenChoose
  <2>3. b \in SlotIdx \cup {-1}
    BY DetermineType, TableOf DEF Choices
  <2>4. [fi[n] EXCEPT ![b] = Claim(@, n)] \in GoodTable
    BY TableOf, WriteGood
  <2>5. TableInv' /\ AirInv'
    BY <1>a, <2>1, <2>4 DEF IInv, TableInv, AirInv
  <2>6. /\ node_state' \in [Node -> NodeState]
        /\ slot_num' \in [Node -> SlotIdx \cup {-1}]
        /\ backoff_frame_num' \in [Node -> 0 .. MaxBackoff]
    BY <1>0, <2>1, <2>3, StatesAreStates, BacksOffKeeps
  <2> QED
    BY <1>0, <1>1, <2>2, <2>5, <2>6 DEF IInv, StateInv, CounterInv
<1>3. CASE RequestSlot(n)
  <2> DEFINE tbl == [fi[n] EXCEPT ![slot_num[n]] = Claim(@, n)]
  <2>1. tbl \in GoodTable
    BY TableOf, WriteGood
  <2>2. /\ Sends(n, tbl, len)
        /\ fi' = [fi EXCEPT ![n] = CountersRestarted(tbl, len, n)]
        /\ node_state' = [node_state EXCEPT ![n] = "REQUEST"]
        /\ UNCHANGED <<slots, bch_slot_lock, backoff_frame_num>>
    BY <1>3 DEF RequestSlot
  <2> HIDE DEF tbl
  <2>3. TableInv' /\ AirInv'
    BY <1>a, <2>1, <2>2
  <2> QED
    BY <1>0, <1>1, <2>2, <2>3, StatesAreStates DEF IInv, StateInv, CounterInv, slots
<1>4. CASE RequestGranted(n)
  <2>1. /\ Sends(n, fi[n], len)
        /\ fi' = [fi EXCEPT ![n] = CountersRestarted(fi[n], len, n)]
        /\ node_state' = [node_state EXCEPT ![n] = "WORK_FI"]
        /\ UNCHANGED <<slots, bch_slot_lock, backoff_frame_num>>
    BY <1>4 DEF RequestGranted
  <2>2. TableInv' /\ AirInv'
    BY <1>a, <2>1, TableOf
  <2> QED
    BY <1>0, <1>1, <2>1, <2>2, StatesAreStates DEF IInv, StateInv, CounterInv, slots
<1>5. CASE SlotLost(n)
  <2>1. Reselects(n, ReleasedIfMine(n, fi[n], slot_num[n]))
    BY <1>5 DEF SlotLost
  <2>2. ReleasedIfMine(n, fi[n], slot_num[n]) \in GoodTable
    BY TableOf, ReleasedIfMineGood
  <2> QED
    BY <1>0, <1>1, <2>1, <2>2, ReselectsKeeps DEF IInv, CounterInv
<1> QED
  BY <1>2, <1>3, <1>4, <1>5

\* The decisions of a station that works.
LEMMA WorkKeeps ==
  ASSUME IInv, NEW n \in Node, WorkKeepSlot(n) \/ WorkAdjust(n)
  PROVE  IInv'
<1>0. /\ node_state \in [Node -> NodeState]
      /\ slot_adj_candidate \in [Node -> SlotIdx \cup {-1}]
      /\ backoff_frame_num \in [Node -> 0 .. MaxBackoff]
      /\ m_frame_len \in [Node -> FrameLens]
      /\ adj_free_threshold \in [Node -> Nat \ {0}]
  BY DEF IInv, StateInv, CounterInv, FrameInv
<1>1. /\ HandlerInv' /\ ReceivedInv' /\ ChannelInv'
      /\ adj_single_slot_ena' \in [Node -> BOOLEAN]
      /\ backoff_frame_num' = backoff_frame_num
  <2>1. Returns(n) /\ DecisionFrame /\ UNCHANGED backoff_frame_num
    BY DEF WorkKeepSlot, WorkAdjust
  <2> QED
    BY <2>1, ReturnsKeeps, DecisionFrameKeeps
<1>2. CASE WorkKeepSlot(n)
  <2> DEFINE len == adjFrameLen(fi[n], m_frame_len[n], adj_free_threshold[n])
             threshold == IF AdjFrameEna THEN ThresholdOf[len]
                                         ELSE adj_free_threshold[n]
  <2>1. len \in FrameLens
    BY TableOf, AdjFrameLenType
  <2>2. threshold \in Nat \ {0}
    <3> HIDE DEF len
    <3> QED
      BY <1>0, <2>1, NumberAssumption
  <2>3. /\ m_frame_len' = [m_frame_len EXCEPT ![n] = len]
        /\ adj_free_threshold' = [adj_free_threshold EXCEPT ![n] = threshold]
        /\ SendsThenMayMove(n, fi[n], len, threshold, slot_num[n])
        /\ UNCHANGED <<node_state, slot_adj_candidate>>
    BY <1>2 DEF WorkKeepSlot
  <2> HIDE DEF len, threshold
  <2>4. FrameInv'
    BY <1>0, <2>1, <2>2, <2>3 DEF FrameInv
  <2>5. /\ AirInv' /\ TableInv' /\ slot_num' \in [Node -> SlotIdx \cup {-1}]
        /\ bch_slot_lock' \in [Node -> -1 .. BchLock]
    BY <2>1, <2>3, TableOf, SendsThenMayMoveKeeps
  <2> QED
    BY <1>0, <1>1, <2>3, <2>4, <2>5 DEF IInv, StateInv, CounterInv
<1>3. CASE WorkAdjust(n)
  <2> DEFINE c == slot_num[n]
             both(b) == [fi[n] EXCEPT ![b] = Claim(@, n)]
             left == [fi[n] EXCEPT ![c] = Release(@, FALSE)]
             moved(b) == [left EXCEPT ![b] = Claim(@, n)]
             Goes(tbl, bch) == SendsThenMayMove(n, tbl, m_frame_len[n],
                                                adj_free_threshold[n], bch)
  <2>1. PICK b \in Choices(n, fi[n], TRUE) :
          /\ slot_adj_candidate' = [slot_adj_candidate EXCEPT ![n] = b]
          /\ \/ Goes(fi[n], c) /\ node_state' = node_state
             \/ Goes(moved(b), b) /\ node_state' = node_state
             \/ /\ Goes(both(b), c)
                /\ node_state' = [node_state EXCEPT ![n] = "WORK_ADJ"]
    BY <1>3 DEF WorkAdjust
  <2>2. FrameInv'
    BY <1>3 DEF WorkAdjust, IInv, FrameInv, frame
  <2>3. b \in SlotIdx \cup {-1} /\ c \in SlotIdx \cup {-1}
    BY DetermineType, TableOf DEF Choices
  <2>4. fi[n] \in GoodTable /\ both(b) \in GoodTable
    BY TableOf, WriteGood
  <2>5. moved(b) \in GoodTable
    <3>1. left \in GoodTable
      BY TableOf, WriteGood
    <3> HIDE DEF left
    <3> QED
      BY <3>1, WriteGood
  <2>6. \E tbl \in GoodTable, s \in SlotIdx \cup {-1} : Goes(tbl, s)
    <3> HIDE DEF both, moved, Goes, c
    <3> QED
      BY <2>1, <2>3, <2>4, <2>5
  <2>7. /\ AirInv' /\ TableInv' /\ slot_num' \in [Node -> SlotIdx \cup {-1}]
        /\ bch_slot_lock' \in [Node -> -1 .. BchLock]
    BY <2>6, TableOf, SendsThenMayMoveKeeps
  <2>8. node_state' \in [Node -> NodeState]
    <3> HIDE DEF both, moved, Goes, c
    <3> QED
      BY <1>0, <2>1, StatesAreStates
  <2>9. slot_adj_candidate' \in [Node -> SlotIdx \cup {-1}]
    BY <1>0, <2>1, <2>3
  <2> QED
    BY <1>0, <1>1, <2>2, <2>7, <2>8, <2>9 DEF IInv, StateInv, CounterInv
<1> QED
  BY <1>2, <1>3

\* NODE_WORK_ADJ.
LEMMA AdjKeeps ==
  ASSUME IInv, NEW n \in Node, AdjSettle(n) \/ AdjFallBack(n) \/ AdjLost(n)
  PROVE  IInv'
<1>0. /\ node_state \in [Node -> NodeState]
      /\ slot_num \in [Node -> SlotIdx \cup {-1}]
      /\ slot_adj_candidate \in [Node -> SlotIdx \cup {-1}]
      /\ bch_slot_lock \in [Node -> -1 .. BchLock]
      /\ backoff_frame_num \in [Node -> 0 .. MaxBackoff]
  BY DEF IInv, StateInv, CounterInv
<1>1. /\ HandlerInv' /\ ReceivedInv' /\ ChannelInv' /\ FrameInv'
      /\ adj_single_slot_ena' \in [Node -> BOOLEAN]
  <2>1. Returns(n) /\ DecisionFrame /\ UNCHANGED frame
    BY DEF AdjSettle, AdjFallBack, AdjLost
  <2> QED
    BY <2>1, ReturnsKeeps, DecisionFrameKeeps DEF IInv, FrameInv, frame
<1>2. CASE AdjSettle(n)
  <2> DEFINE a == slot_adj_candidate[n]
             takes == CandidateUsable(n) /\ fi[n][slot_num[n]].c3 >= fi[n][a].c3
             given == IF takes THEN slot_num[n] ELSE a
             tbl == [fi[n] EXCEPT ![given] = Release(@, TRUE)]
  <2>1. /\ slot_num' = [slot_num EXCEPT ![n] = IF takes THEN a ELSE slot_num[n]]
        /\ Sends(n, tbl, m_frame_len[n])
        /\ fi' = [fi EXCEPT ![n] = CountersRestarted(tbl, m_frame_len[n], n)]
        /\ node_state' = [node_state EXCEPT ![n] = "WORK_FI"]
        /\ UNCHANGED <<slot_adj_candidate, bch_slot_lock, backoff_frame_num>>
    BY <1>2 DEF AdjSettle
  <2> HIDE DEF takes
  <2>2. slot_num' \in [Node -> SlotIdx \cup {-1}]
    BY <1>0, <2>1, TableOf
  <2> HIDE DEF given
  <2>3. tbl \in GoodTable
    BY TableOf, WriteGood
  <2> HIDE DEF tbl
  <2>4. CountersRestarted(tbl, m_frame_len[n], n) \in GoodTable
    BY <2>3, CountersRestartedGood
  <2>5. TableInv' /\ AirInv'
    BY <2>1, <2>3, <2>4, TableOf, SendsKeeps DEF TableInv
  <2> QED
    BY <1>0, <1>1, <2>1, <2>2, <2>5, StatesAreStates DEF IInv, StateInv, CounterInv
<1>3. CASE AdjFallBack(n)
  <2>1. /\ slot_num' = [slot_num EXCEPT ![n] = slot_adj_candidate[n]]
        /\ node_state' = [node_state EXCEPT ![n] = "WORK_FI"]
        /\ UNCHANGED <<slot_adj_candidate, bch_slot_lock, backoff_frame_num,
                       fi, air>>
    BY <1>3 DEF AdjFallBack
  <2> QED
    BY <1>0, <1>1, <2>1, StatesAreStates
    DEF IInv, StateInv, CounterInv, TableInv, AirInv
<1>4. CASE AdjLost(n)
  <2>1. Reselects(n, ReleasedIfMine(n, fi[n], slot_adj_candidate[n]))
    BY <1>4 DEF AdjLost
  <2>2. ReleasedIfMine(n, fi[n], slot_adj_candidate[n]) \in GoodTable
    BY TableOf, ReleasedIfMineGood
  <2> QED
    BY <1>0, <1>1, <2>1, <2>2, ReselectsKeeps DEF IInv, CounterInv
<1> QED
  BY <1>2, <1>3, <1>4

\* The channel: recvFI, losses, the next slot, movement.
LEMMA ChannelKeeps ==
  ASSUME IInv, (\E n \in Node : Receive(n)) \/ EndSlot \/ Drive
  PROVE  IInv'
<1>0. /\ handled \subseteq Node \X Node /\ link \subseteq Node \X Node
      /\ total_slot_count \in SlotIdx
      /\ losses \in 0..MaxLoss /\ moves \in 0..MaxMoves
  BY DEF IInv, ChannelInv
<1>1. ASSUME NEW r \in Node, NEW m \in air, recvFI(r, m) PROVE IInv'
  <2> DEFINE len == IF AdjFrameEna THEN DecodedLen(m.len) ELSE m_frame_len[r]
             tags == [c \in SlotIdx |-> decode_slot_tag(m.tags[c], c)]
             f == [sti |-> m.sti, tags |-> tags, len |-> len,
                   valid |-> m_frame_len[r], remain |-> m_frame_len[r],
                   rank |-> Cardinality(HandledAt(r))]
  <2>1. /\ received' = [received EXCEPT ![r] = @ \cup {f}]
        /\ handled' = handled \cup {<<m.sti, r>>}
        /\ UNCHANGED <<handler, local, air, total_slot_count, link, losses, moves>>
    BY <1>1 DEF recvFI
  <2>2. /\ m.sti \in Node /\ m.len \in FrameLens
        /\ m.tags \in [SlotIdx -> GoodWire]
    BY DEF IInv, AirInv, GoodPacket, FiPacket
  <2>3. m_frame_len[r] \in 1..MaxLen
    BY TableOf, LenType
  <2>4. Cardinality(HandledAt(r)) \in Nat
    <3>1. HandledAt(r) \in SUBSET Node
      BY DEF HandledAt
    <3>2. IsFiniteSet(HandledAt(r))
      BY <3>1, NodeFinite, FS_Subset
    <3> QED
      BY <3>2, FS_CardinalityType
  <2>5. len \in FrameLens
    BY <2>2, TableOf, FrameAssumption
  <2>6. f \in GoodReceived
    <3>1. tags \in [SlotIdx -> GoodDecoded]
      BY <2>2, DecodedGood
    <3>2. tags \in [SlotIdx -> DecodedTag]
      BY <3>1, GoodIsTyped
    <3> HIDE DEF len, tags
    <3> QED
      BY <2>2, <2>3, <2>4, <2>5, <3>1, <3>2 DEF GoodReceived, Frame_info
  <2> HIDE DEF f
  <2>7. ReceivedInv'
    BY <2>1, <2>6 DEF IInv, ReceivedInv
  <2>8. ChannelInv'
    BY <1>0, <2>1, <2>2 DEF ChannelInv
  <2>9. /\ HandlerInv' /\ StateInv' /\ CounterInv' /\ FrameInv' /\ TableInv'
        /\ AirInv'
    BY <2>1 DEF IInv, HandlerInv, StateInv, CounterInv, FrameInv, TableInv,
                AirInv, handler, local, slots, frame
  <2> QED
    BY <2>7, <2>8, <2>9 DEF IInv
<1>2. ASSUME NEW r \in Node, NEW m \in air, LoseFI(r, m) PROVE IInv'
  <2>1. /\ losses < MaxLoss /\ losses' = losses + 1
        /\ handled' = handled \cup {<<m.sti, r>>}
        /\ UNCHANGED <<handler, local, received, air, total_slot_count, link, moves>>
    BY <1>2 DEF LoseFI
  <2>2. m.sti \in Node
    BY DEF IInv, AirInv, GoodPacket, FiPacket
  <2>3. ChannelInv'
    BY <1>0, <2>1, <2>2, NumberAssumption DEF ChannelInv
  <2> QED
    BY <2>1, <2>3 DEF IInv, HandlerInv, StateInv, CounterInv, FrameInv,
                      TableInv, ReceivedInv, AirInv, handler, local, slots, frame
<1>3. CASE EndSlot
  <2>1. /\ total_slot_count' = (total_slot_count + 1) % MaxLen
        /\ todo' = Node /\ air' = {} /\ handled' = {}
        /\ UNCHANGED <<pc, merging, unlock_flag, local, received, link, losses, moves>>
    BY <1>3 DEF EndSlot
  <2>2. (total_slot_count + 1) % MaxLen \in SlotIdx
    <3>1. total_slot_count + 1 \in Nat
      BY <1>0, MaxLenAssumption DEF SlotIdx
    <3> QED
      BY <3>1, ModType, FrameAssumption
  <2>3. ChannelInv'
    BY <1>0, <2>1, <2>2 DEF ChannelInv
  <2>4. HandlerInv' /\ AirInv'
    BY <2>1 DEF IInv, HandlerInv, AirInv
  <2> QED
    BY <2>1, <2>3, <2>4 DEF IInv, StateInv, CounterInv, FrameInv, TableInv,
                            ReceivedInv, local, slots, frame
<1>4. CASE Drive
  <2>1. /\ moves < MaxMoves /\ moves' = moves + 1 /\ link' \in Topologies
        /\ UNCHANGED <<handler, local, received, air, total_slot_count,
                       handled, losses>>
    BY <1>4 DEF Drive
  <2>2. ChannelInv'
    BY <1>0, <2>1, NumberAssumption, TopologyAssumption DEF ChannelInv
  <2> QED
    BY <2>1, <2>2 DEF IInv, HandlerInv, StateInv, CounterInv, FrameInv,
                      TableInv, ReceivedInv, AirInv, handler, local, slots, frame
<1> QED
  BY <1>1, <1>2, <1>3, <1>4 DEF Receive

\* Every step keeps it.
LEMMA NextIInv == IInv /\ [Next]_vars => IInv'
<1> SUFFICES ASSUME IInv, [Next]_vars PROVE IInv'
  OBVIOUS
<1>1. ASSUME NEW n \in Node, slotHandler(n) PROVE IInv'
  BY <1>1, QuietKeeps, SynthesizeKeeps, AcquireKeeps, WorkKeeps, AdjKeeps
  DEF slotHandler, Decide
<1>2. CASE UNCHANGED vars
  BY <1>2 DEF vars, handler, local, slots, frame, channel, IInv, HandlerInv,
     StateInv, CounterInv, FrameInv, TableInv, ReceivedInv, AirInv, ChannelInv
<1> QED
  BY <1>1, <1>2, ChannelKeeps DEF Next

\* So it always holds.
LEMMA Invariance == Spec => []IInv
  BY InitIInv, NextIInv, PTL DEF Spec

-----------------------------------------------------------------------------
(***************************************************************************)
(* The theorems.                                                           *)
(***************************************************************************)
\* Every state of slotHandler, merge_fi and recvFI is well typed: frames have
\* one of the lengths that adjFrameLen may give them, slot_num_ is a slot of
\* the longest frame or -1, lives stay within slot_lifetime_frame_ and a
\* received FI is dropped before its remain_time is used up.
THEOREM TypeCorrect == Spec => []TypeOK
<1>1. IInv => TypeOK
  <2> SUFFICES ASSUME IInv PROVE TypeOK
    OBVIOUS
  <2>1. fi \in [Node -> Table]
    BY GoodIsTyped DEF IInv, TableInv
  <2>2. merging \subseteq Frame_info /\ received \in [Node -> SUBSET Frame_info]
    BY DEF IInv, HandlerInv, ReceivedInv, GoodReceived
  <2>3. air \subseteq FiPacket
    BY DEF IInv, AirInv, GoodPacket
  <2> QED
    BY <2>1, <2>2, <2>3
    DEF IInv, TypeOK, HandlerInv, StateInv, CounterInv, FrameInv, ChannelInv
<1> QED
  BY <1>1, Invariance, PTL

\* A tag names a station exactly when it is busy, in every table, whatever
\* merge_fi, the ageing and slotHandler have written into it.
THEOREM TagsConsistent == Spec => []NamedIffBusy
<1>1. IInv => NamedIffBusy
  <2> SUFFICES ASSUME IInv, NEW n \in Node, NEW c \in SlotIdx
               PROVE  fi[n][c].sti = 0 <=> fi[n][c].busy = SLOT_FREE
    BY DEF NamedIffBusy
  <2>1. fi[n] \in GoodTable
    BY TableOf
  <2> QED
    BY <2>1, GoodIsTyped DEF Named
<1> QED
  BY <1>1, Invariance, PTL

=============================================================================
