------------------------- MODULE SatmacAccessProofs -------------------------
(***************************************************************************)
(* Every station implements SlotAccess, when lonely stations do not move   *)
(* at random (random_bch_if_single_switch_ off): such a move may end at no *)
(* slot, -1, which SlotAccess does not have.                               *)
(***************************************************************************)
EXTENDS SatmacClaimsProofs

(***************************************************************************)
(* A station always has a slot, and what it sent was a request or work.    *)
(***************************************************************************)
Somewhere(n) == slot_num[n] \in SlotIdx
Spoke(n) == n \in Senders => Asked(n)

AInv == HInv /\ \A n \in Node : Somewhere(n) /\ Spoke(n)

\* What one run of slotHandler makes of the station: where it goes from its
\* state, with which slot, and whether it sends.
Moved(n, from, to) == node_state[n] \in from /\ node_state'[n] \in to

HandlerStep(n) ==
  \/ /\ Moved(n, NodeState, {node_state[n]}) \/ Moved(n, {"INIT"}, {"LISTEN"})
     /\ slot_num'[n] = slot_num[n] /\ air' = air
  \/ /\ Moved(n, {"LISTEN"}, {"LISTEN", "WAIT_REQUEST"})
     /\ slot_num'[n] \in SlotIdx /\ air' = air
  \/ /\ Moved(n, {"LISTEN", "WAIT_REQUEST"}, {"REQUEST"})
     /\ slot_num'[n] = slot_num[n]
  \/ Moved(n, {"REQUEST"}, {"WORK_FI"}) /\ slot_num'[n] = slot_num[n]
  \/ Moved(n, Working, Working) /\ slot_num'[n] \in SlotIdx
  \/ /\ Moved(n, {"WAIT_REQUEST", "REQUEST", "WORK_FI", "WORK_ADJ"},
                 {"LISTEN", "WAIT_REQUEST"})
     /\ slot_num'[n] \in SlotIdx /\ air' = air

\* The slot of a station that sends and does not move at random.
LEMMA SendsStays ==
  ASSUME ~SingleMoves, IInv, NEW n \in Node, NEW tbl, NEW l, NEW threshold,
         NEW bch, SendsThenMayMove(n, tbl, l, threshold, bch)
  PROVE  slot_num'[n] = bch
  BY DEF SendsThenMayMove, Moves, IInv, StateInv

\* Every run of slotHandler is one of those.
LEMMA HandlerSteps ==
  ASSUME ~SingleMoves, AInv, NEW n \in Node, slotHandler(n)
  PROVE  HandlerStep(n)
<1> DEFINE len == m_frame_len[n]
           b == slot_num[n]
<1>0. /\ HInv /\ IInv /\ NodeInv(n) /\ node_state \in [Node -> NodeState]
      /\ slot_num \in [Node -> SlotIdx \cup {-1}] /\ len \in FrameLens
      /\ slot_adj_candidate \in [Node -> SlotIdx \cup {-1}]
      /\ node_state[n] \in NodeState /\ b \in SlotIdx
  BY Known DEF AInv, Somewhere
<1>1. \A strict \in BOOLEAN : \A tbl : \A d \in Choices(n, tbl, strict) :
        d # -1 => d \in SlotIdx
  BY <1>0, DetermineType DEF Choices
<1>2. CASE OtherSlot(n) \/ InitSlot(n) \/ ListenBackoff(n)
  <2>1. UNCHANGED <<slot_num, air>>
    BY <1>2 DEF OtherSlot, InitSlot, ListenBackoff, local, slots
  <2>2. node_state'[n] = node_state[n] \/ Moved(n, {"INIT"}, {"LISTEN"})
    BY <1>0, <1>2 DEF OtherSlot, InitSlot, ListenBackoff, local, Moved
  <2> QED
    BY <1>0, <2>1, <2>2 DEF HandlerStep, Moved
<1>3. CASE Synthesize(n)
  <2>1. UNCHANGED <<slot_num, air, node_state>>
    BY <1>3 DEF Synthesize, StartSynthesis, MergeNext, EndSynthesis, slots
  <2> QED
    BY <1>0, <2>1 DEF HandlerStep, Moved
<1>4. CASE ListenChoose(n)
  <2>1. PICK d \in Choices(n, fi[n], FALSE) :
          \/ BacksOff(n) /\ air' = air
          \/ /\ node_state' = [node_state EXCEPT ![n] = "REQUEST"]
             /\ slot_num' = slot_num
          \/ /\ node_state' = [node_state EXCEPT ![n] = "WAIT_REQUEST"]
             /\ slot_num' = [slot_num EXCEPT ![n] = d] /\ d # -1 /\ air' = air
    BY <1>4 DEF ListenChoose
  <2>2. node_state[n] = "LISTEN"
    BY <1>4 DEF ListenChoose, Deciding
  <2>3. d # -1 => d \in SlotIdx
    BY <1>1
  <2> QED
    BY <1>0, <2>1, <2>2, <2>3 DEF HandlerStep, Moved, BacksOff
<1>5. CASE RequestSlot(n) \/ RequestGranted(n)
  <2>1. /\ slot_num' = slot_num
        /\ \/ Moved(n, {"WAIT_REQUEST"}, {"REQUEST"})
           \/ Moved(n, {"REQUEST"}, {"WORK_FI"})
    BY <1>0, <1>5 DEF RequestSlot, RequestGranted, Deciding, Moved, slots
  <2> QED
    BY <1>0, <2>1 DEF HandlerStep, Moved
<1>6. CASE SlotLost(n) \/ AdjLost(n)
  <2>1. node_state[n] \in {"WAIT_REQUEST", "REQUEST", "WORK_FI", "WORK_ADJ"}
    BY <1>6 DEF SlotLost, AdjLost, Deciding
  <2>2. PICK tbl : Reselects(n, tbl)
    BY <1>6 DEF SlotLost, AdjLost
  <2>3. PICK d \in Choices(n, tbl, FALSE) :
          \/ /\ node_state' = [node_state EXCEPT ![n] = "WAIT_REQUEST"]
             /\ slot_num' = [slot_num EXCEPT ![n] = d] /\ d # -1
          \/ BacksOff(n)
    BY <2>2 DEF Reselects
  <2>4. d # -1 => d \in SlotIdx
    BY <1>1
  <2>5. air' = air
    BY <2>2 DEF Reselects
  <2>6. node_state'[n] \in {"LISTEN", "WAIT_REQUEST"} /\ slot_num'[n] \in SlotIdx
    BY <1>0, <2>3, <2>4 DEF BacksOff
  <2> QED
    BY <2>1, <2>5, <2>6 DEF HandlerStep, Moved
<1>7. CASE WorkKeepSlot(n)
  <2>1. slot_num'[n] = b
    BY <1>0, <1>7, SendsStays DEF WorkKeepSlot
  <2>2. node_state[n] = "WORK_FI" /\ node_state' = node_state
    BY <1>7 DEF WorkKeepSlot, Deciding
  <2> QED
    BY <1>0, <2>1, <2>2 DEF HandlerStep, Moved, Working
<1>8. CASE WorkAdjust(n)
  <2>1. PICK d \in Choices(n, fi[n], TRUE) :
          \E tbl, bch :
            /\ SendsThenMayMove(n, tbl, len, adj_free_threshold[n], bch)
            /\ bch = b \/ (bch = d /\ d # -1)
    BY <1>8 DEF WorkAdjust
  <2>2. d # -1 => d \in SlotIdx
    BY <1>1
  <2>3. slot_num'[n] \in SlotIdx
    BY <1>0, <2>1, <2>2, SendsStays
  <2>4. node_state[n] = "WORK_FI" /\ node_state'[n] \in Working
    BY <1>0, <1>8 DEF WorkAdjust, Deciding, Working
  <2> QED
    BY <2>3, <2>4 DEF HandlerStep, Moved, Working
<1>9. CASE AdjSettle(n) \/ AdjFallBack(n)
  <2>1. node_state[n] = "WORK_ADJ" /\ node_state'[n] = "WORK_FI"
    BY <1>0, <1>9 DEF AdjSettle, AdjFallBack, Deciding
  <2>2. slot_adj_candidate[n] \in SlotIdx
    BY <1>0, <2>1 DEF NodeInv, CandidateSet
  <2>3. slot_num'[n] \in {b, slot_adj_candidate[n]}
    BY <1>0, <1>9 DEF AdjSettle, AdjFallBack
  <2> QED
    BY <1>0, <2>1, <2>2, <2>3 DEF HandlerStep, Moved, Working
<1> QED
  BY <1>2, <1>3, <1>4, <1>5, <1>6, <1>7, <1>8, <1>9 DEF slotHandler, Decide

\* Who is among the senders.
LEMMA SendersOf ==
  ASSUME AInv, NEW n \in Node, slotHandler(n)
  PROVE  /\ n \notin Senders
         /\ \A m \in Node : m # n => (m \in Senders)' = (m \in Senders)
         /\ air' = air => Senders' = Senders
<1>1. n \in todo
  BY HandlerGoes DEF Running
<1>2. air \subseteq air' /\ \A m \in air' \ air : m.sti = n
  BY SendsForItself
<1>3. \A m \in air : m.sti # n
  BY <1>1 DEF AInv, HInv, AirDone
<1> QED
  BY <1>2, <1>3 DEF Senders

\* Every step keeps the invariant.
LEMMA NextAInv ==
  ASSUME ~SingleMoves
  PROVE  AInv /\ [Next]_vars => AInv'
<1> SUFFICES ASSUME AInv, [Next]_vars PROVE AInv'
  OBVIOUS
<1>1. HInv /\ HInv' /\ \A n \in Node : Somewhere(n) /\ Spoke(n)
  BY NextHInv DEF AInv
<1>2. ASSUME NEW n \in Node, slotHandler(n), NEW m \in Node
      PROVE  Somewhere(m)' /\ Spoke(m)'
  <2>1. CASE m = n
    <3>1. HandlerStep(n)
      BY <1>2, HandlerSteps
    <3>2. Somewhere(n)'
      BY <1>1, <3>1 DEF HandlerStep, Somewhere
    <3>3. CASE air' = air
      <4>1. n \notin Senders'
        BY <1>2, <3>3, SendersOf
      <4> QED
        BY <2>1, <3>2, <4>1 DEF Spoke
    <3>4. CASE air' # air
      <4>1. node_state'[n] \in {"REQUEST", "WORK_FI", "WORK_ADJ"}
        BY <3>1, <3>4 DEF HandlerStep, Moved, Working
      <4> QED
        BY <2>1, <3>2, <4>1 DEF Spoke, Asked, Working
    <3> QED
      BY <3>3, <3>4
  <2>2. CASE m # n
    BY <1>1, <1>2, <2>2, SendersOf, HandlerTouches
    DEF HInv, Untouched, Somewhere, Spoke, Asked
  <2> QED
    BY <2>1, <2>2
<1>3. CASE (\E r \in Node : Receive(r)) \/ EndSlot \/ Drive \/ UNCHANGED vars
  <2>1. UNCHANGED <<node_state, slot_num>> /\ Senders' \subseteq Senders
    BY <1>3 DEF Receive, recvFI, LoseFI, EndSlot, Drive, vars, local, slots, Senders
  <2> QED
    BY <1>1, <2>1 DEF AInv, Somewhere, Spoke, Asked
<1> QED
  BY <1>1, <1>2, <1>3 DEF AInv, Next

\* So it always holds.
LEMMA AccessInvariance ==
  ASSUME ~SingleMoves
  PROVE  Spec => []AInv
<1>1. Init => AInv
  <2> SUFFICES ASSUME Init PROVE AInv
    OBVIOUS
  <2>1. 1 % FrameLen \in SlotIdx
    BY FrameAssumption, ModType
  <2> QED
    BY <2>1, InitHInv DEF Init, AInv, Somewhere, Spoke, Senders
<1> QED
  BY <1>1, NextAInv, PTL DEF Spec

-----------------------------------------------------------------------------
(***************************************************************************)
(* The refinement.                                                         *)
(***************************************************************************)
\* The phases.
LEMMA PhaseOf ==
  ASSUME NEW n \in Node, node_state[n] \in NodeState
  PROVE  /\ node_state[n] \in {"INIT", "LISTEN"} <=> Phase(n) = "listening"
         /\ node_state[n] = "WAIT_REQUEST" <=> Phase(n) = "chosen"
         /\ node_state[n] = "REQUEST" <=> Phase(n) = "requested"
         /\ node_state[n] \in Working <=> Phase(n) = "working"
  BY DEF Phase, NodeState, Working

LEMMA PhaseOfPrime ==
  ASSUME NEW n \in Node, node_state'[n] \in NodeState
  PROVE  /\ node_state'[n] \in {"INIT", "LISTEN"} <=> Phase(n)' = "listening"
         /\ node_state'[n] = "WAIT_REQUEST" <=> Phase(n)' = "chosen"
         /\ node_state'[n] = "REQUEST" <=> Phase(n)' = "requested"
         /\ node_state'[n] \in Working <=> Phase(n)' = "working"
  BY DEF Phase, NodeState, Working

\* A station whose state and slot do not change, and which stops sending at the
\* end of the slot if it does.
LEMMA StationRests ==
  ASSUME AInv, NEW n \in Node, node_state'[n] = node_state[n],
         slot_num'[n] = slot_num[n],
         (n \in Senders)' = (n \in Senders) \/ ~(n \in Senders)'
  PROVE  [Access(n)!Next]_(Access(n)!vars)
<1>0. node_state[n] \in NodeState /\ slot_num[n] \in SlotIdx /\ Spoke(n)
  BY Known DEF AInv, Somewhere
<1>1. Phase(n)' = Phase(n)
  BY DEF Phase
<1>2. (n \in Senders)' \in BOOLEAN
  OBVIOUS
<1>3. CASE (n \in Senders)' = (n \in Senders)
  BY <1>1, <1>3 DEF Access!vars
<1>4. CASE (n \in Senders)' # (n \in Senders)
  <2>1. n \in Senders
    BY <1>4
  <2>2. Phase(n) \in {"requested", "working"}
    BY <1>0, <2>1, PhaseOf DEF Spoke, Asked
  <2>3. CASE Phase(n) = "requested"
    BY <1>1, <1>2, <2>3 DEF Access!Next, Access!Send
  <2>4. CASE Phase(n) = "working"
    BY <1>0, <1>1, <1>2, <2>4 DEF Access!Next, Access!Work
  <2> QED
    BY <2>2, <2>3, <2>4
<1> QED
  BY <1>3, <1>4

\* A station whose handler runs.
LEMMA StationRuns ==
  ASSUME ~SingleMoves, AInv, AInv', NEW n \in Node, slotHandler(n)
  PROVE  [Access(n)!Next]_(Access(n)!vars)
<1>0. /\ node_state[n] \in NodeState /\ slot_num[n] \in SlotIdx
      /\ node_state'[n] \in NodeState /\ slot_num'[n] \in SlotIdx
  BY DEF AInv, Somewhere, HInv, IInv, StateInv
<1>1. HandlerStep(n)
  BY HandlerSteps
<1>2. (n \in Senders)' \in BOOLEAN /\ ~(n \in Senders)
  BY SendersOf
<1>3. air' = air => (n \in Senders)' = (n \in Senders)
  BY SendersOf
<1>4. CASE node_state'[n] = node_state[n] /\ slot_num'[n] = slot_num[n] /\ air' = air
  BY <1>3, <1>4, StationRests
<1>5. CASE /\ node_state[n] \in {"INIT", "LISTEN"}
           /\ node_state'[n] \in {"INIT", "LISTEN"} /\ air' = air
  <2>1. Phase(n) = "listening" /\ Phase(n)' = "listening"
    BY <1>0, <1>5, PhaseOf, PhaseOfPrime
  <2> QED
    BY <1>3, <1>5, <2>1 DEF Access!vars
<1>6. CASE Moved(n, {"LISTEN"}, {"WAIT_REQUEST"}) /\ air' = air
  <2>1. Phase(n) = "listening" /\ Phase(n)' = "chosen"
    BY <1>0, <1>6, PhaseOf, PhaseOfPrime DEF Moved
  <2>2. Access(n)!Choose
    BY <1>0, <1>3, <1>6, <2>1 DEF Access!Choose
  <2> QED
    BY <2>2 DEF Access!Next
<1>7. CASE /\ Moved(n, {"LISTEN", "WAIT_REQUEST"}, {"REQUEST"})
           /\ slot_num'[n] = slot_num[n]
  <2>1. Phase(n) \in {"listening", "chosen"} /\ Phase(n)' = "requested"
    BY <1>0, <1>7, PhaseOf, PhaseOfPrime DEF Moved
  <2>2. Access(n)!Request
    BY <1>0, <1>2, <1>7, <2>1 DEF Access!Request
  <2> QED
    BY <2>2 DEF Access!Next
<1>8. CASE Moved(n, {"REQUEST"}, {"WORK_FI"}) /\ slot_num'[n] = slot_num[n]
  <2>1. Phase(n) = "requested" /\ Phase(n)' = "working"
    BY <1>0, <1>8, PhaseOf, PhaseOfPrime DEF Moved, Working
  <2>2. Access(n)!Grant
    BY <1>0, <1>2, <1>8, <2>1 DEF Access!Grant
  <2> QED
    BY <2>2 DEF Access!Next
<1>9. CASE Moved(n, Working, Working)
  <2>1. Phase(n) = "working" /\ Phase(n)' = "working"
    BY <1>0, <1>9, PhaseOf, PhaseOfPrime DEF Moved
  <2>2. Access(n)!Work
    BY <1>0, <1>2, <2>1 DEF Access!Work
  <2> QED
    BY <2>2 DEF Access!Next
<1>10. CASE /\ Moved(n, {"WAIT_REQUEST", "REQUEST", "WORK_FI", "WORK_ADJ"},
                        {"LISTEN", "WAIT_REQUEST"})
            /\ air' = air
  <2>1. Phase(n) # "listening" /\ Phase(n)' \in {"listening", "chosen"}
    BY <1>0, <1>10, PhaseOf, PhaseOfPrime DEF Moved
  <2>2. Access(n)!Lose
    BY <1>0, <1>2, <1>3, <1>10, <2>1 DEF Access!Lose
  <2> QED
    BY <2>2 DEF Access!Next
<1> QED
  BY <1>1, <1>4, <1>5, <1>6, <1>7, <1>8, <1>9, <1>10 DEF HandlerStep, Moved

\* What slotHandler does with a station's slot is what SlotAccess allows,
\* whatever FIs were merged, lost or faded, and with slots and frames adjusted.
THEOREM RefinesAccess ==
  ASSUME ~SingleMoves
  PROVE  Spec => ImplementsAccess
<1>1. Init => \A n \in Node : Access(n)!Init
  <2> SUFFICES ASSUME Init, NEW n \in Node PROVE Access(n)!Init
    OBVIOUS
  <2>0. node_state[n] = "INIT" /\ air = {}
    BY DEF Init
  <2>1. Phase(n) = "listening"
    BY <2>0, PhaseOf DEF NodeState
  <2>2. ~(n \in Senders)
    BY <2>0 DEF Senders
  <2> QED
    BY <2>1, <2>2 DEF Access!Init
<1>2. AInv /\ AInv' /\ [Next]_vars =>
        [\A n \in Node : [Access(n)!Next]_(Access(n)!vars)]_vars
  <2> SUFFICES ASSUME AInv, AInv', [Next]_vars, NEW n \in Node
               PROVE  [Access(n)!Next]_(Access(n)!vars)
    OBVIOUS
  <2>1. ASSUME NEW m \in Node, slotHandler(m), m # n
        PROVE  [Access(n)!Next]_(Access(n)!vars)
    BY <2>1, SendersOf, HandlerTouches, StationRests DEF AInv, HInv, Untouched
  <2>2. CASE (\E r \in Node : Receive(r)) \/ EndSlot \/ Drive \/ UNCHANGED vars
    <3>1. UNCHANGED <<node_state, slot_num>> /\ (Senders' = Senders \/ Senders' = {})
      BY <2>2
      DEF Receive, recvFI, LoseFI, EndSlot, Drive, vars, local, slots, Senders
    <3> QED
      BY <3>1, StationRests
  <2> QED
    BY <2>1, <2>2, StationRuns DEF Next
<1>3. Spec => []AInv /\ [][Next]_vars
  BY AccessInvariance, PTL DEF Spec
<1> QED
  BY <1>1, <1>2, <1>3, PTL DEF Spec, ImplementsAccess
=============================================================================
