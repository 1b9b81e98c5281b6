------------------------- MODULE SatmacFixedProofs --------------------------
(***************************************************************************)
(* What the table of a station says of its slot, and what its FIs say of   *)
(* the slot in which they are sent, when the switches that adjust slots    *)
(* and frames (adj_ena_ and adj_frame_ena_) are off.                       *)
(***************************************************************************)
EXTENDS SatmacClaimsProofs

NoAdjust == ~AdjEna /\ ~AdjFrameEna

(***************************************************************************)
(* Without adjustment a station never has a second slot, and starts every  *)
(* choice from a table in which it has none: so it claims its BCH or       *)
(* nothing.  The ageing takes the lock off the station's own slot, and     *)
(* merging does not put it back: so a lonely station that must move finds  *)
(* at least the slot it has.                                               *)
(***************************************************************************)
NoSecond(n) == node_state[n] # "WORK_ADJ"
Clear(n) == In(n) /\ node_state[n] = "LISTEN" => \A c \in SlotIdx : fi[n][c].sti # n
One(n) == \A c \in SlotIdx : fi[n][c].sti = n => c = slot_num[n]
Unlocked(n) == In(n) /\ n \in SlotMemory =>
                 \A c \in SlotIdx : fi[n][c].sti = n => ~fi[n][c].locker
OwnInv(n) == NoSecond(n) /\ Clear(n) /\ One(n) /\ Unlocked(n)

OInv == HInv /\ \A n \in Node : OwnInv(n)

\* AdjustNeeded is never true.
LEMMA NothingAdjusted ==
  ASSUME NoAdjust, NEW n \in Node, OInv
  PROVE  /\ ~AdjustNeeded(n) /\ ~WorkAdjust(n)
         /\ ~AdjSettle(n) /\ ~AdjFallBack(n) /\ ~AdjLost(n)
<1>1. ~AdjustNeeded(n)
  BY DEF NoAdjust, AdjustNeeded, adjust_is_needed
<1>2. node_state[n] # "WORK_ADJ"
  BY DEF OInv, OwnInv, NoSecond
<1> QED
  BY <1>1, <1>2 DEF WorkAdjust, AdjSettle, AdjFallBack, AdjLost, Deciding

\* Without adj_frame_ena_ the frame keeps its length.
LEMMA LenKept ==
  ASSUME ~AdjFrameEna, NEW tbl, NEW l, NEW threshold
  PROVE  adjFrameLen(tbl, l, threshold) = l
  BY DEF adjFrameLen

\* Nothing changes for the stations whose handler does not run.
LEMMA OthersKeepOwn ==
  ASSUME OInv, NEW n \in Node, slotHandler(n), NEW m \in Node, m # n
  PROVE  OwnInv(m)'
<1>1. ~In(m)' /\ Untouched(m)
  BY OthersKeep, HandlerTouches DEF OInv, HInv
<1> QED
  BY <1>1 DEF OInv, OwnInv, NoSecond, Clear, One, Unlocked, Untouched

\* Ageing and merging give the station no slot and lock none of its slots.
LEMMA SynthesizeOwn ==
  ASSUME OInv, NEW n \in Node, Synthesize(n)
  PROVE  OwnInv(n)'
<1> DEFINE len == m_frame_len[n]
<1>0. /\ HInv /\ OwnInv(n) /\ IInv /\ fi \in [Node -> GoodTable]
      /\ fi[n] \in GoodTable /\ len \in FrameLens /\ Within(fi[n], len)
      /\ len \in 1..MaxLen /\ n # 0
  BY Known, NodeAssumption DEF OInv
<1>1. Running(n) /\ UNCHANGED <<node_state, slots>>
  BY DEF Synthesize, StartSynthesis, MergeNext, EndSynthesis
<1>2. CASE StartSynthesis(n)
  <2> DEFINE A == AgeTable(fi[n], len, n, {slot_num[n], slot_adj_candidate[n]})
             C == ClearOthers(fi[n], len, n)
             E == [c \in SlotIdx |-> FreeTag]
             L == node_state[n] = "LISTEN"
             T == fi'[n]
  <2>1. T = IF L THEN E ELSE IF n \in SlotMemory THEN A ELSE C
    BY <1>0, <1>2 DEF StartSynthesis
  <2>2. \A c \in SlotIdx : /\ A[c].sti = n => fi[n][c].sti = n
                           /\ A[c].sti = n /\ c < len => ~A[c].locker
                           /\ fi[n][c].sti = 0 => A[c].sti = 0
    BY <1>0, AgeClaims
  <2>3. \A c \in SlotIdx : C[c].sti = n => fi[n][c].sti = n
    BY <1>0, ClearClaims
  <2>4. \A c \in SlotIdx : E[c].sti # n
    BY <1>0 DEF FreeTag
  <2>5. \A c \in SlotIdx : c < len \/ fi[n][c].sti = 0
    BY <1>0 DEF Within, SlotIdx
  <2> HIDE DEF A, C, E, L
  <2>6. /\ \A c \in SlotIdx : T[c].sti = n => fi[n][c].sti = n
        /\ L => \A c \in SlotIdx : T[c].sti # n
        /\ n \in SlotMemory => \A c \in SlotIdx : T[c].sti = n => ~T[c].locker
    BY <1>0, <2>1, <2>2, <2>3, <2>4, <2>5
  <2> HIDE DEF T
  <2> QED
    BY <1>0, <1>1, <2>6
    DEF OwnInv, NoSecond, Clear, One, Unlocked, slots, L, T
<1>3. CASE MergeNext(n) \/ EndSynthesis(n)
  <2>0. In(n)
    BY <1>1, <1>3 DEF MergeNext, EndSynthesis, In
  <2>1. \A c \in SlotIdx : fi'[n][c].sti = n =>
          fi[n][c].sti = n /\ fi'[n][c].locker = fi[n][c].locker
    <3>1. CASE MergeNext(n)
      <4>1. PICK f \in merging :
              fi' = [fi EXCEPT ![n] = merge_fi(@, m_frame_len[n], f, n)]
        BY <3>1 DEF MergeNext
      <4>2. GoodFi(f)
        BY <1>0, ReceivedIsGood DEF IInv, HandlerInv
      <4>3. fi'[n] = merge_fi(fi[n], len, f, n)
        BY <1>0, <4>1
      <4> QED
        BY <1>0, <4>2, <4>3, MergeClaims
    <3>2. CASE EndSynthesis(n)
      <4>1. fi'[n] = fi[n] \/ fi'[n] = UnlockFree(fi[n], len)
        BY <1>0, <3>2 DEF EndSynthesis
      <4> QED
        BY <1>0, <4>1, UnlockClaims
    <3> QED
      BY <1>3, <3>1, <3>2
  <2> QED
    BY <1>0, <1>1, <2>0, <2>1 DEF OwnInv, NoSecond, Clear, One, Unlocked, slots
<1> QED
  BY <1>2, <1>3 DEF Synthesize

\* A handler that returns.
LEMMA ReturnsOwn ==
  ASSUME NEW n \in Node, Returns(n), NoSecond(n)', One(n)'
  PROVE  OwnInv(n)'
  BY DEF OwnInv, Clear, Unlocked, In, Returns

\* No slot is claimed, or the station's slot is.
Only(tbl, n, b) == \A c \in SlotIdx : tbl[c].sti = n => c = b

\* Writes and claims.
LEMMA WriteOnly ==
  ASSUME NEW tbl \in GoodTable, NEW n \in Node, NEW b, Only(tbl, n, b)
  PROVE  /\ \A l : Only(CountersRestarted(tbl, l, n), n, b)
         /\ Only([tbl EXCEPT ![b] = Claim(@, n)], n, b)
         /\ \A lock \in BOOLEAN : \A d :
              Only([tbl EXCEPT ![b] = Release(@, lock)], n, d)
         /\ \A d : Only(ReleasedIfMine(n, tbl, b), n, d)
<1>0. n # 0
  BY NodeAssumption
<1>1. ASSUME NEW l PROVE Only(CountersRestarted(tbl, l, n), n, b)
  BY RestartClaims DEF Only
<1>2. Only([tbl EXCEPT ![b] = Claim(@, n)], n, b)
  BY WriteClaims DEF Only
<1>3. ASSUME NEW lock \in BOOLEAN, NEW c \in SlotIdx
      PROVE  [tbl EXCEPT ![b] = Release(@, lock)][c].sti # n
  BY <1>0, WriteClaims DEF Only
<1>4. ASSUME NEW c \in SlotIdx PROVE ReleasedIfMine(n, tbl, b)[c].sti # n
  <2>1. CASE tbl[b].sti = n
    BY <1>3, <2>1 DEF ReleasedIfMine
  <2>2. CASE tbl[b].sti # n
    BY <2>2 DEF ReleasedIfMine, Only
  <2> QED
    BY <2>1, <2>2
<1> QED
  BY <1>1, <1>2, <1>3, <1>4 DEF Only

\* Sending, and moving when nobody is around: the station still claims the slot
\* it is in, or none.  If its slot is unlocked it finds a slot to move to.
LEMMA SendsOwn ==
  ASSUME IInv, NEW n \in Node, NEW l \in FrameLens, NEW threshold,
         Only(fi[n], n, slot_num[n]),
         SendsThenMayMove(n, fi[n], l, threshold, slot_num[n])
  PROVE  /\ Only(fi'[n], n, slot_num'[n])
         /\ /\ NoAdjust /\ Recorded(n) /\ slot_num[n] \in 0 .. l - 1
            /\ SingleMoves => ~fi[n][slot_num[n]].locker
            => Recorded(n)'
<1> DEFINE sent == CountersRestarted(fi[n], l, n)
           left == [sent EXCEPT ![slot_num[n]] = Release(@, TRUE)]
           there(b) == [left EXCEPT ![b] = Claim(@, n)]
<1>0. fi \in [Node -> GoodTable] /\ slot_num \in [Node -> SlotIdx \cup {-1}]
  BY DEF IInv, TableInv, StateInv
<1>1. sent \in GoodTable /\ Only(sent, n, slot_num[n])
  BY <1>0, CountersRestartedGood, WriteOnly
<1>2. \A c \in SlotIdx : /\ sent[c].sti = fi[n][c].sti
                         /\ sent[c].busy = fi[n][c].busy
                         /\ sent[c].locker = fi[n][c].locker
  BY <1>0, RestartClaims
<1>3. \/ fi' = [fi EXCEPT ![n] = sent] /\ slot_num' = slot_num
      \/ /\ SingleMoves
         /\ \E b \in determine_BCH(sent, l, threshold, n, FALSE) :
              /\ slot_num' = [slot_num EXCEPT ![n] = b]
              /\ fi' = [fi EXCEPT ![n] = there(b)]
  BY <1>0 DEF SendsThenMayMove, Moves
<1> HIDE DEF sent
<1>4. left \in GoodTable /\ \A b : Only(left, n, b)
  BY <1>1, WriteGood, WriteOnly
<1> HIDE DEF left
<1>5. \A b : Only(there(b), n, b)
  BY <1>4, WriteOnly
<1>6. ASSUME NEW b \in SlotIdx
      PROVE  there(b)[b].sti = n /\ there(b)[b].busy = SLOT_1HOP
  <2>1. \A lock \in BOOLEAN : /\ there(b)[b].sti = n
                              /\ there(b)[b].busy = SLOT_1HOP
    BY <1>4, WriteClaims
  <2> HIDE DEF there
  <2> QED
    BY <2>1
<1> HIDE DEF there
<1>7. CASE fi' = [fi EXCEPT ![n] = sent] /\ slot_num' = slot_num
  <2>1. fi'[n] = sent /\ slot_num'[n] = slot_num[n] /\ slot_num[n] \in SlotIdx \cup {-1}
    BY <1>0, <1>7
  <2> QED
    BY <1>1, <1>2, <2>1 DEF Recorded
<1>8. ASSUME NEW b \in determine_BCH(sent, l, threshold, n, FALSE), SingleMoves,
             slot_num' = [slot_num EXCEPT ![n] = b],
             fi' = [fi EXCEPT ![n] = there(b)]
      PROVE  /\ Only(fi'[n], n, slot_num'[n])
             /\ /\ NoAdjust /\ Recorded(n) /\ slot_num[n] \in 0 .. l - 1
                /\ ~fi[n][slot_num[n]].locker
                => Recorded(n)'
  <2>1. fi'[n] = there(b) /\ slot_num'[n] = b
    BY <1>0, <1>8
  <2>2. ASSUME NoAdjust, Recorded(n), slot_num[n] \in 0 .. l - 1,
               ~fi[n][slot_num[n]].locker
        PROVE  Recorded(n)'
    <3>1. slot_num[n] \in SlotIdx
      BY <2>2, LenType
    <3>2. slot_num[n] \in Candidates(sent, l, n, FALSE)
      BY <1>2, <2>2, <3>1 DEF Candidates, Recorded
    <3>3. b \in Candidates(sent, l, n, FALSE)
      BY <2>2, <3>2 DEF determine_BCH, NoAdjust
    <3>4. b \in SlotIdx /\ b # -1
      BY <3>3, LenType DEF Candidates, SlotIdx
    <3> QED
      BY <1>6, <2>1, <3>4 DEF Recorded
  <2> QED
    BY <1>5, <2>1, <2>2
<1> QED
  BY <1>3, <1>7, <1>8

\* The decisions.
LEMMA DecideOwn ==
  ASSUME NoAdjust, OInv, NEW n \in Node, Decide(n)
  PROVE  OwnInv(n)'
<1> DEFINE len == m_frame_len[n]
<1>0. /\ fi \in [Node -> GoodTable] /\ fi[n] \in GoodTable /\ IInv
      /\ node_state \in [Node -> NodeState] /\ OwnInv(n) /\ HInv
      /\ slot_num \in [Node -> SlotIdx \cup {-1}] /\ len \in FrameLens
  BY Known DEF OInv
<1>1. Returns(n) /\ Running(n) /\ pc = "decide"
  BY DEF Decide, ListenChoose, RequestSlot, RequestGranted, SlotLost,
         WorkKeepSlot, WorkAdjust, AdjSettle, AdjFallBack, AdjLost, Deciding
<1>2. Only(fi[n], n, slot_num[n])
  BY <1>0 DEF OwnInv, One, Only
<1>3. SUFFICES NoSecond(n)' /\ Only(fi'[n], n, slot_num'[n])
  BY <1>1, ReturnsOwn DEF One, Only
<1>4. CASE ListenChoose(n)
  <2>1. \A b : Only(fi[n], n, b)
    BY <1>0, <1>1, <1>4 DEF OwnInv, Clear, In, Only, ListenChoose, Deciding
  <2>2. PICK b :
          \/ BacksOff(n) /\ fi' = fi
          \/ /\ b = slot_num[n]
             /\ fi' = [fi EXCEPT ![n] =
                  CountersRestarted([fi[n] EXCEPT ![b] = Claim(@, n)], len, n)]
             /\ node_state' = [node_state EXCEPT ![n] = "REQUEST"]
             /\ slot_num' = slot_num
          \/ /\ fi' = fi
             /\ node_state' = [node_state EXCEPT ![n] = "WAIT_REQUEST"]
    BY <1>4 DEF ListenChoose
  <2> DEFINE T == [fi[n] EXCEPT ![b] = Claim(@, n)]
  <2>3. T \in GoodTable /\ Only(T, n, b)
    BY <1>0, <2>1, WriteOnly, WriteGood
  <2> HIDE DEF T
  <2>4. Only(CountersRestarted(T, len, n), n, b)
    BY <2>3, WriteOnly
  <2>5. NoSecond(n)'
    BY <1>0, <2>2 DEF NoSecond, BacksOff
  <2> QED
    BY <1>0, <2>1, <2>2, <2>4, <2>5 DEF T
<1>5. CASE RequestSlot(n) \/ RequestGranted(n)
  <2> DEFINE tbl == [fi[n] EXCEPT ![slot_num[n]] = Claim(@, n)]
  <2>1. tbl \in GoodTable /\ Only(tbl, n, slot_num[n])
    BY <1>0, <1>2, WriteGood, WriteOnly
  <2>2. /\ node_state'[n] \in {"REQUEST", "WORK_FI"} /\ slot_num' = slot_num
        /\ \/ fi' = [fi EXCEPT ![n] = CountersRestarted(tbl, len, n)]
           \/ fi' = [fi EXCEPT ![n] = CountersRestarted(fi[n], len, n)]
    BY <1>0, <1>5 DEF RequestSlot, RequestGranted, slots
  <2> HIDE DEF tbl
  <2>3. /\ Only(CountersRestarted(tbl, len, n), n, slot_num[n])
        /\ Only(CountersRestarted(fi[n], len, n), n, slot_num[n])
    BY <1>0, <1>2, <2>1, WriteOnly
  <2>4. Only(fi'[n], n, slot_num[n])
    BY <1>0, <2>2, <2>3
  <2> QED
    BY <2>2, <2>4 DEF NoSecond
<1>6. CASE SlotLost(n)
  <2>1. Reselects(n, ReleasedIfMine(n, fi[n], slot_num[n]))
    BY <1>6 DEF SlotLost
  <2>2. \A d : Only(ReleasedIfMine(n, fi[n], slot_num[n]), n, d)
    BY <1>0, <1>2, WriteOnly
  <2>3. fi'[n] = ReleasedIfMine(n, fi[n], slot_num[n])
    BY <1>0, <2>1 DEF Reselects
  <2>4. node_state'[n] \in {"WAIT_REQUEST", "LISTEN"}
    BY <1>0, <2>1 DEF Reselects, BacksOff
  <2> QED
    BY <2>2, <2>3, <2>4 DEF NoSecond
<1>7. CASE WorkKeepSlot(n)
  <2>1. /\ node_state' = node_state
        /\ \E k \in FrameLens : \E threshold :
             SendsThenMayMove(n, fi[n], k, threshold, slot_num[n])
    BY <1>0, <1>7, AdjFrameLenType DEF WorkKeepSlot
  <2> QED
    BY <1>0, <1>2, <2>1, SendsOwn DEF OwnInv, NoSecond
<1> QED
  BY <1>4, <1>5, <1>6, <1>7, NothingAdjusted DEF Decide

\* Without adjustments every step keeps the invariant.
LEMMA NextOInv ==
  ASSUME NoAdjust
  PROVE  OInv /\ [Next]_vars => OInv'
<1> SUFFICES ASSUME OInv, [Next]_vars PROVE OInv'
  OBVIOUS
<1>1. HInv /\ HInv'
  BY NextHInv DEF OInv
<1>2. ASSUME NEW n \in Node, slotHandler(n)
      PROVE  \A m \in Node : OwnInv(m)'
  <2>1. OwnInv(n)'
    <3>1. CASE OtherSlot(n) \/ InitSlot(n) \/ ListenBackoff(n)
      <4>1. node_state \in [Node -> NodeState] /\ OwnInv(n)
        BY <1>1, Known DEF OInv
      <4>2. Returns(n) /\ UNCHANGED <<fi, slots>>
        BY <3>1 DEF OtherSlot, InitSlot, ListenBackoff, local
      <4>3. NoSecond(n)'
        BY <3>1, <4>1
        DEF OwnInv, NoSecond, OtherSlot, InitSlot, ListenBackoff, local
      <4> QED
        BY <4>1, <4>2, <4>3, ReturnsOwn DEF OwnInv, One, slots
    <3> QED
      BY <1>2, <3>1, SynthesizeOwn, DecideOwn DEF slotHandler
  <2> QED
    BY <1>2, <2>1, OthersKeepOwn
<1>3. CASE (\E r \in Node : Receive(r)) \/ EndSlot \/ Drive
  <2>1. UNCHANGED <<node_state, slots, fi>> /\ \A n \in Node : ~In(n)'
    BY <1>1, <1>3, ChannelNode DEF Receive, recvFI, LoseFI, EndSlot, Drive, local
  <2> QED
    BY <1>1, <2>1 DEF OInv, OwnInv, NoSecond, Clear, One, Unlocked, slots
<1>4. CASE UNCHANGED vars
  BY <1>1, <1>4 DEF vars, handler, local, slots, OInv, OwnInv, NoSecond, Clear,
     One, Unlocked, In, Running
<1> QED
  BY <1>1, <1>2, <1>3, <1>4 DEF OInv, Next

\* So it always holds.
LEMMA OwnInvariance ==
  ASSUME NoAdjust
  PROVE  Spec => []OInv
<1>1. Init => OInv
  BY InitHInv, NodeAssumption
  DEF Init, OInv, OwnInv, NoSecond, Clear, One, Unlocked, In, FreeTag
<1> QED
  BY <1>1, NextOInv, PTL DEF Spec

-----------------------------------------------------------------------------
\* A station claims no slot but its BCH: what slotHandler gives up, loses or
\* moves away from is released in its table.
THEOREM ClaimsOneSlot ==
  ASSUME NoAdjust
  PROVE  Spec => []OneClaim
<1>1. OInv => OneClaim
  BY DEF OInv, OwnInv, One, OneClaim
<1> QED
  BY <1>1, OwnInvariance, PTL

\* One step, for one station.
LEMMA KeepsItsRecord ==
  ASSUME NoAdjust, SingleMoves => SlotMemory = Node, OInv, [Next]_vars,
         NEW n \in Node, Asked(n), Recorded(n)
  PROVE  \/ Recorded(n)'
         \/ ~Asked(n)'
         \/ \E f \in merging \ merging' : /\ slot_num[n] < f.len
                                          /\ f.tags[slot_num[n]].sti # n
<1> DEFINE len == m_frame_len[n]
           b == slot_num[n]
<1>0. /\ HInv /\ OwnInv(n) /\ NodeInv(n) /\ IInv /\ fi \in [Node -> GoodTable]
      /\ fi[n] \in GoodTable /\ len \in FrameLens
      /\ node_state \in [Node -> NodeState]
      /\ slot_num \in [Node -> SlotIdx \cup {-1}]
  BY Known DEF OInv
<1>1. b \in SlotIdx /\ fi[n][b].sti = n /\ fi[n][b].busy = SLOT_1HOP
  BY <1>0 DEF Recorded
<1>a. ASSUME fi'[n][b].sti = n, fi'[n][b].busy = SLOT_1HOP, slot_num'[n] = b
      PROVE  Recorded(n)'
  BY <1>a, <1>1 DEF Recorded, SlotIdx
<1>b. ASSUME fi'[n] = fi[n], slot_num'[n] = b PROVE Recorded(n)'
  BY <1>1, <1>a, <1>b
<1>2. ASSUME NEW m \in Node, slotHandler(m), m # n PROVE Recorded(n)'
  <2>1. Untouched(n)
    BY <1>0, <1>2, HandlerTouches
  <2> QED
    BY <1>b, <2>1 DEF Untouched
<1>3. CASE (\E r \in Node : Receive(r)) \/ EndSlot \/ Drive \/ UNCHANGED vars
  BY <1>3, <1>b DEF Receive, recvFI, LoseFI, EndSlot, Drive, vars, local, slots
<1>4. CASE OtherSlot(n) \/ InitSlot(n) \/ ListenBackoff(n)
  BY <1>4, <1>b DEF OtherSlot, InitSlot, ListenBackoff, local, slots
<1>5. CASE StartSynthesis(n)
  <2> DEFINE A == AgeTable(fi[n], len, n, {b, slot_adj_candidate[n]})
             C == ClearOthers(fi[n], len, n)
  <2>1. fi'[n] = IF n \in SlotMemory THEN A ELSE C
    BY <1>0, <1>5 DEF StartSynthesis, Asked, Working
  <2>2. A[b].sti = n /\ A[b].busy = SLOT_1HOP
    BY <1>0, <1>1, AgeClaims
  <2>3. C[b].sti = n /\ C[b].busy = SLOT_1HOP
    BY <1>0, <1>1, ClearClaims
  <2>4. slot_num'[n] = b
    BY <1>5 DEF StartSynthesis, slots
  <2> HIDE DEF A, C
  <2> QED
    BY <1>a, <2>1, <2>2, <2>3, <2>4
<1>6. CASE MergeNext(n)
  <2>1. PICK f \in merging :
          /\ merging' = merging \ {f}
          /\ fi' = [fi EXCEPT ![n] = merge_fi(@, m_frame_len[n], f, n)]
    BY <1>6 DEF MergeNext
  <2>2. GoodFi(f)
    BY <1>0, ReceivedIsGood DEF IInv, HandlerInv
  <2>3. fi'[n] = merge_fi(fi[n], len, f, n) /\ slot_num'[n] = b
    BY <1>0, <1>6, <2>1 DEF MergeNext, slots
  <2>4. ~(b < f.len) \/ f.tags[b].sti = n => fi'[n][b] = fi[n][b]
    BY <1>0, <1>1, <2>2, <2>3, MergeClaims
  <2>5. f \in merging \ merging'
    BY <2>1
  <2> QED
    BY <1>1, <1>a, <2>3, <2>4, <2>5
<1>7. CASE EndSynthesis(n)
  <2>1. fi'[n] = fi[n] \/ fi'[n] = UnlockFree(fi[n], len)
    BY <1>0, <1>7 DEF EndSynthesis
  <2>2. fi'[n][b].sti = n /\ fi'[n][b].busy = SLOT_1HOP
    BY <1>0, <1>1, <2>1, UnlockClaims
  <2> QED
    BY <1>7, <1>a, <2>2 DEF EndSynthesis, slots
<1>8. CASE ListenChoose(n) \/ RequestSlot(n)
  BY <1>8 DEF ListenChoose, RequestSlot, Deciding, Asked, Working
<1>9. CASE RequestGranted(n)
  <2>1. fi'[n] = CountersRestarted(fi[n], len, n) /\ slot_num' = slot_num
    BY <1>0, <1>9 DEF RequestGranted, slots
  <2> QED
    BY <1>0, <1>1, <1>a, <2>1, RestartClaims
<1>10. CASE SlotLost(n)
  <2>1. node_state'[n] \in {"WAIT_REQUEST", "LISTEN"}
    BY <1>0, <1>10 DEF SlotLost, Reselects, BacksOff
  <2> QED
    BY <2>1 DEF Asked, Working
<1>11. CASE WorkKeepSlot(n)
  <2>1. In(n)
    BY <1>11 DEF WorkKeepSlot, Deciding, In
  <2>2. PICK threshold : SendsThenMayMove(n, fi[n], len, threshold, b)
    BY <1>11, LenKept DEF WorkKeepSlot, NoAdjust
  <2>3. b \in 0 .. len - 1
    BY <1>0, <2>1 DEF NodeInv, HandlerSlot
  <2>4. SingleMoves => ~fi[n][b].locker
    BY <1>0, <1>1, <2>1 DEF OwnInv, Unlocked
  <2>5. Only(fi[n], n, b)
    BY <1>0 DEF OwnInv, One, Only
  <2> QED
    BY <1>0, <2>2, <2>3, <2>4, <2>5, SendsOwn
<1>12. ~WorkAdjust(n) /\ ~AdjSettle(n) /\ ~AdjFallBack(n) /\ ~AdjLost(n)
  BY NothingAdjusted
<1>13. CASE slotHandler(n)
  BY <1>4, <1>5, <1>6, <1>7, <1>8, <1>9, <1>10, <1>11, <1>12, <1>13
  DEF slotHandler, Synthesize, Decide
<1> QED
  BY <1>2, <1>3, <1>13 DEF Next

\* The table keeps a station's slot to it until merge_fi merges an FI that says
\* otherwise or slotHandler gives the slot up.  A station that moves at random
\* must age its table for that (slot_memory_): clear_others_slot_status leaves
\* a lock on the station's own slot, and it might find no slot to move to.
THEOREM RecordIsKept ==
  ASSUME NoAdjust, SingleMoves => SlotMemory = Node
  PROVE  Spec => RecordKept
<1>1. OInv /\ [Next]_vars =>
        [\A n \in Node :
           Asked(n) /\ Recorded(n) =>
             \/ Recorded(n)'
             \/ ~Asked(n)'
             \/ \E f \in merging \ merging' :
                  /\ slot_num[n] < f.len
                  /\ f.tags[slot_num[n]].sti # n]_vars
  BY KeepsItsRecord
<1> QED
  BY <1>1, OwnInvariance, PTL DEF Spec, RecordKept

-----------------------------------------------------------------------------
(***************************************************************************)
(* What is on the air, without adj_frame_ena_: all frames have the length  *)
(* they start with, so a handler that runs in the station's slot sends in  *)
(* the slot that it has looked at in its table, and what it sends stays    *)
(* true of the station until the slot is over.                             *)
(***************************************************************************)
SameLen ==
  /\ \A n \in Node : m_frame_len[n] = FrameLen
  /\ \A n \in Node : \A f \in received[n] : f.len = FrameLen
  /\ \A f \in merging : f.len = FrameLen
InItsSlot(n) == In(n) => slot_num[n] = total_slot_count % FrameLen
Claims(m) ==
  LET t == m.tags[total_slot_count % FrameLen]
  IN  /\ m.len = FrameLen
      /\ \/ t.sti = m.sti /\ t.busy = SLOT_1HOP
         \/ t.sti = 0 /\ node_state[m.sti] \in Working
AirClaims == \A m \in air : Claims(m)

FInv == HInv /\ SameLen /\ AirClaims /\ \A n \in Node : InItsSlot(n)

\* The current slot.
LEMMA SlotNow ==
  ASSUME IInv
  PROVE  /\ total_slot_count % FrameLen \in SlotIdx
         /\ total_slot_count % FrameLen < FrameLen /\ FrameLen \in FrameLens
<1>1. total_slot_count \in Nat /\ FrameLen \in FrameLens /\ FrameLen \in 1..MaxLen
  BY FrameAssumption, LenType DEF IInv, ChannelInv, SlotIdx
<1> DEFINE c == total_slot_count % FrameLen
<1>2. c \in 0 .. FrameLen - 1
  BY <1>1
<1> HIDE DEF c
<1>3. c \in SlotIdx /\ c < FrameLen
  BY <1>1, <1>2, MaxLenAssumption DEF SlotIdx
<1> QED
  BY <1>1, <1>3 DEF c

\* What an FI says of the current slot.
LEMMA SaysOfSlot ==
  ASSUME FInv, NEW n \in Node, In(n), NEW tbl, Sends(n, tbl, FrameLen),
         total_slot_count' = total_slot_count,
         \/ tbl[slot_num[n]].sti = n /\ tbl[slot_num[n]].busy = SLOT_1HOP
         \/ tbl[slot_num[n]].sti = 0 /\ node_state'[n] \in Working
  PROVE  \A m \in air' \ air : Claims(m)'
<1> DEFINE c == total_slot_count % FrameLen
           m == FiOf(n, tbl, FrameLen)
<1>1. c = slot_num[n] /\ c \in SlotIdx /\ c < FrameLen
  BY SlotNow DEF FInv, HInv, InItsSlot
<1>2. /\ m.sti = n /\ m.len = FrameLen
      /\ m.tags[c].sti = tbl[c].sti /\ m.tags[c].busy = tbl[c].busy
  BY <1>1 DEF FiOf, CodedTable, Coded
<1>3. \A k \in air' \ air : k = m
  BY DEF Sends
<1> HIDE DEF m
<1> QED
  BY <1>1, <1>2, <1>3 DEF Claims

\* What slotHandler writes into a tag.
LEMMA WrittenTag ==
  ASSUME NEW t \in GoodTag, NEW n \in Node
  PROVE  /\ Claim(t, n).sti = n /\ Claim(t, n).busy = SLOT_1HOP
         /\ \A lock : Release(t, lock).sti = 0
  BY DEF GoodTag, slot_tag, Claim, Release

\* The decisions: what is sent in them, and that frames keep their length.
LEMMA DecideAir ==
  ASSUME ~AdjFrameEna, FInv, NEW n \in Node, Decide(n)
  PROVE  /\ \A m \in air' \ air : Claims(m)'
         /\ m_frame_len' = m_frame_len /\ received' = received
<1> DEFINE b == slot_num[n]
<1>0. /\ HInv /\ IInv /\ fi[n] \in GoodTable /\ m_frame_len[n] = FrameLen
      /\ m_frame_len \in [Node -> FrameLens] /\ node_state \in [Node -> NodeState]
  BY Known DEF FInv, SameLen
<1>1. /\ Running(n) /\ pc = "decide" /\ received' = received
      /\ total_slot_count' = total_slot_count
  BY DEF Decide, ListenChoose, RequestSlot, RequestGranted, SlotLost,
         WorkKeepSlot, WorkAdjust, AdjSettle, AdjFallBack, AdjLost, Deciding,
         DecisionFrame, channel
<1>2. In(n) /\ b \in SlotIdx
  BY <1>0, <1>1, SlotNow DEF In, FInv, InItsSlot
<1>3. m_frame_len' = m_frame_len
  <2>1. CASE WorkKeepSlot(n)
    BY <1>0, <2>1, LenKept DEF WorkKeepSlot
  <2> QED
    BY <2>1 DEF Decide, ListenChoose, RequestSlot, RequestGranted, SlotLost,
                WorkAdjust, AdjSettle, AdjFallBack, AdjLost, frame
<1>a. ASSUME NEW tbl, Sends(n, tbl, FrameLen),
             \/ tbl[b].sti = n /\ tbl[b].busy = SLOT_1HOP
             \/ tbl[b].sti = 0 /\ node_state'[n] \in Working
      PROVE  \A m \in air' \ air : Claims(m)'
  BY <1>1, <1>2, <1>a, SaysOfSlot
<1>b. LET tbl == [fi[n] EXCEPT ![b] = Claim(@, n)]
      IN  tbl[b].sti = n /\ tbl[b].busy = SLOT_1HOP
  BY <1>0, <1>2, WrittenTag DEF GoodTable
<1>c. BchUsable(n) => \/ fi[n][b].sti = n /\ fi[n][b].busy = SLOT_1HOP
                      \/ fi[n][b].sti = 0
  BY DEF BchUsable, Usable
<1>4. CASE ListenChoose(n)
  <2>1. air' = air \/ Sends(n, [fi[n] EXCEPT ![b] = Claim(@, n)], FrameLen)
    BY <1>0, <1>4 DEF ListenChoose
  <2> QED
    BY <1>1, <1>3, <1>a, <1>b, <2>1
<1>5. CASE RequestSlot(n)
  <2>1. Sends(n, [fi[n] EXCEPT ![b] = Claim(@, n)], FrameLen)
    BY <1>0, <1>5 DEF RequestSlot
  <2> QED
    BY <1>1, <1>3, <1>a, <1>b, <2>1
<1>6. CASE RequestGranted(n)
  <2>1. /\ Sends(n, fi[n], FrameLen) /\ BchUsable(n)
        /\ node_state'[n] = "WORK_FI"
    BY <1>0, <1>6 DEF RequestGranted
  <2> QED
    BY <1>1, <1>3, <1>a, <1>c, <2>1 DEF Working
<1>7. CASE SlotLost(n) \/ AdjFallBack(n) \/ AdjLost(n)
  <2>1. air' = air
    BY <1>7 DEF SlotLost, AdjFallBack, AdjLost, Reselects
  <2> QED
    BY <1>1, <1>3, <2>1
<1>8. CASE WorkKeepSlot(n)
  <2>1. /\ Sends(n, fi[n], FrameLen) /\ BchUsable(n)
        /\ node_state[n] = "WORK_FI" /\ node_state' = node_state
    BY <1>0, <1>8, LenKept DEF WorkKeepSlot, SendsThenMayMove, Deciding
  <2> QED
    BY <1>1, <1>3, <1>a, <1>c, <2>1 DEF Working
<1>9. CASE WorkAdjust(n)
  <2> DEFINE both(d) == [fi[n] EXCEPT ![d] = Claim(@, n)]
             left == [fi[n] EXCEPT ![b] = Release(@, FALSE)]
             moved(d) == [left EXCEPT ![d] = Claim(@, n)]
  <2>1. BchUsable(n) /\ node_state'[n] \in Working
    BY <1>0, <1>9 DEF WorkAdjust, Deciding, Working
  <2>2. \E d : \/ Sends(n, fi[n], FrameLen) \/ Sends(n, both(d), FrameLen)
               \/ Sends(n, moved(d), FrameLen)
    BY <1>0, <1>9 DEF WorkAdjust, SendsThenMayMove
  <2>3. ASSUME NEW d
        PROVE  \/ both(d)[b].sti = n /\ both(d)[b].busy = SLOT_1HOP
               \/ both(d)[b] = fi[n][b]
    BY <1>0, <1>2, WrittenTag DEF GoodTable
  <2>4. left \in GoodTable /\ left[b].sti = 0
    BY <1>0, <1>2, WriteGood, WrittenTag DEF GoodTable
  <2> HIDE DEF left
  <2>5. ASSUME NEW d
        PROVE  \/ moved(d)[b].sti = n /\ moved(d)[b].busy = SLOT_1HOP
               \/ moved(d)[b].sti = 0
    BY <1>2, <2>4, WrittenTag DEF GoodTable
  <2> HIDE DEF both, moved
  <2> QED
    BY <1>1, <1>3, <1>a, <1>c, <2>1, <2>2, <2>3, <2>5
<1>10. CASE AdjSettle(n)
  <2> DEFINE tbl(g) == [fi[n] EXCEPT ![g] = Release(@, TRUE)]
  <2>1. \E g : Sends(n, tbl(g), FrameLen)
    BY <1>0, <1>10 DEF AdjSettle
  <2>2. BchUsable(n) /\ node_state'[n] \in Working
    BY <1>0, <1>10 DEF AdjSettle, Working
  <2>3. ASSUME NEW g PROVE tbl(g)[b].sti = 0 \/ tbl(g)[b] = fi[n][b]
    BY <1>0, <1>2, WrittenTag DEF GoodTable
  <2> HIDE DEF tbl
  <2> QED
    BY <1>1, <1>3, <1>a, <1>c, <2>1, <2>2, <2>3
<1> QED
  BY <1>4, <1>5, <1>6, <1>7, <1>8, <1>9, <1>10 DEF Decide

\* The steps of a handler.
LEMMA HandlerAir ==
  ASSUME ~AdjFrameEna, FInv, NEW n \in Node, slotHandler(n)
  PROVE  SameLen' /\ AirClaims' /\ \A m \in Node : InItsSlot(m)'
<1>0. /\ HInv /\ IInv /\ fi[n] \in GoodTable /\ m_frame_len[n] = FrameLen
      /\ m_frame_len \in [Node -> FrameLens] /\ Within(fi[n], m_frame_len[n])
      /\ received \in [Node -> SUBSET GoodReceived] /\ InItsSlot(n)
      /\ SameLen /\ AirClaims
  BY Known DEF FInv, SameLen
<1>1. total_slot_count' = total_slot_count
  BY DEF slotHandler, OtherSlot, InitSlot, ListenBackoff, Synthesize,
         StartSynthesis, MergeNext, EndSynthesis, Decide, ListenChoose,
         RequestSlot, RequestGranted, SlotLost, WorkKeepSlot, WorkAdjust,
         AdjSettle, AdjFallBack, AdjLost, DecisionFrame, channel
<1>2. \A m \in air : Claims(m)'
  <2> SUFFICES ASSUME NEW m \in air PROVE Claims(m)'
    OBVIOUS
  <2>1. m.sti \in Node /\ m.sti # n
    BY <1>0, HandlerGoes
    DEF HInv, AirDone, Running, IInv, AirInv, GoodPacket, FiPacket
  <2>2. node_state'[m.sti] = node_state[m.sti]
    BY <1>0, <2>1, HandlerTouches DEF Untouched
  <2> QED
    BY <1>0, <1>1, <2>2 DEF AirClaims, Claims
<1>3. \A f \in Faded(received[n]) : f.len = FrameLen
  <2> TAKE g \in Faded(received[n])
  <2>1. PICK f \in received[n] : g = [f EXCEPT !.remain = @ - 1]
    BY DEF Faded
  <2>2. f \in Frame_info
    BY <1>0 DEF GoodReceived
  <2> QED
    BY <1>0, <2>1, <2>2 DEF SameLen, Frame_info
<1>4. \A m \in Node : m # n => InItsSlot(m)'
  BY <1>0, OthersKeep DEF InItsSlot
<1>5. CASE OtherSlot(n) \/ InitSlot(n) \/ ListenBackoff(n)
  <2>1. /\ Fade(n) /\ Returns(n) /\ UNCHANGED <<air, m_frame_len>>
    BY <1>5 DEF OtherSlot, InitSlot, ListenBackoff, local, frame
  <2>2. ~In(n)'
    BY <2>1 DEF In, Returns
  <2>3. SameLen'
    BY <1>0, <1>3, <2>1 DEF SameLen, Fade, Returns
  <2> QED
    BY <1>2, <1>4, <2>1, <2>2, <2>3 DEF AirClaims, InItsSlot
<1>6. CASE StartSynthesis(n)
  <2>1. /\ Fade(n) /\ merging' = Faded(received[n]) /\ InOwnSlot(n)
        /\ UNCHANGED <<air, m_frame_len, slot_num>>
    BY <1>6 DEF StartSynthesis, frame, slots
  <2>2. SameLen'
    BY <1>0, <1>3, <2>1 DEF SameLen, Fade
  <2>3. InItsSlot(n)'
    BY <1>0, <1>1, <2>1 DEF InItsSlot, InOwnSlot
  <2> QED
    BY <1>2, <1>4, <2>1, <2>2, <2>3 DEF AirClaims
<1>7. CASE MergeNext(n) \/ EndSynthesis(n)
  <2>1. In(n) /\ UNCHANGED <<air, slot_num, received>> /\ merging' \subseteq merging
    BY <1>7 DEF MergeNext, EndSynthesis, In, slots
  <2>2. InItsSlot(n)'
    BY <1>0, <1>1, <2>1 DEF InItsSlot
  <2>3. m_frame_len' = m_frame_len
    <3>1. CASE MergeNext(n)
      <4>1. PICK f \in merging : m_frame_len' = [m_frame_len EXCEPT
                                     ![n] = merged_len(fi[n], @, f, n)]
        BY <3>1 DEF MergeNext
      <4>2. GoodFi(f) /\ f.len = FrameLen
        BY <1>0, ReceivedIsGood DEF IInv, HandlerInv, SameLen
      <4>3. merged_len(fi[n], m_frame_len[n], f, n) = FrameLen
        BY <1>0, <4>2, MergeBeyond DEF Within
      <4> QED
        BY <1>0, <4>1, <4>3
    <3>2. CASE EndSynthesis(n)
      BY <3>2 DEF EndSynthesis, frame
    <3> QED
      BY <1>7, <3>1, <3>2
  <2> QED
    BY <1>0, <1>2, <1>4, <2>1, <2>2, <2>3 DEF AirClaims, SameLen
<1>8. CASE Decide(n)
  <2>1. /\ \A m \in air' \ air : Claims(m)'
        /\ m_frame_len' = m_frame_len /\ received' = received
    BY <1>8, DecideAir
  <2>2. Returns(n)
    BY <1>8 DEF Decide, ListenChoose, RequestSlot, RequestGranted, SlotLost,
                WorkKeepSlot, WorkAdjust, AdjSettle, AdjFallBack, AdjLost
  <2>3. ~In(n)' /\ merging' = {}
    BY <2>2 DEF In, Returns
  <2> QED
    BY <1>0, <1>2, <1>4, <2>1, <2>3 DEF AirClaims, SameLen, InItsSlot
<1> QED
  BY <1>5, <1>6, <1>7, <1>8 DEF slotHandler, Synthesize

\* Without adj_frame_ena_ every step keeps the invariant.
LEMMA NextFInv ==
  ASSUME ~AdjFrameEna
  PROVE  FInv /\ [Next]_vars => FInv'
<1> SUFFICES ASSUME FInv, [Next]_vars PROVE FInv'
  OBVIOUS
<1>1. HInv /\ HInv' /\ SameLen /\ AirClaims /\ received \in [Node -> SUBSET GoodReceived]
  BY NextHInv DEF FInv, HInv, IInv, ReceivedInv
<1>2. ASSUME NEW r \in Node, Receive(r) PROVE SameLen' /\ AirClaims'
  <2>1. /\ UNCHANGED <<node_state, m_frame_len, merging, air, total_slot_count>>
        /\ \/ received' = received
           \/ \E f : f.len = FrameLen /\ received' = [received EXCEPT ![r] = @ \cup {f}]
    BY <1>1, <1>2 DEF Receive, recvFI, LoseFI, handler, local, frame, SameLen
  <2> QED
    BY <1>1, <2>1 DEF SameLen, AirClaims, Claims
<1>3. ASSUME EndSlot PROVE SameLen' /\ AirClaims'
  BY <1>1, <1>3 DEF EndSlot, local, frame, SameLen, AirClaims
<1>4. ASSUME Drive PROVE SameLen' /\ AirClaims'
  BY <1>1, <1>4 DEF Drive, handler, local, frame, SameLen, AirClaims, Claims
<1>5. CASE (\E r \in Node : Receive(r)) \/ EndSlot \/ Drive
  BY <1>1, <1>2, <1>3, <1>4, <1>5, ChannelNode DEF FInv, InItsSlot
<1>6. CASE UNCHANGED vars
  BY <1>1, <1>6 DEF vars, handler, local, slots, frame, channel, FInv, SameLen,
     AirClaims, Claims, InItsSlot, In, Running
<1> QED
  BY <1>1, <1>5, <1>6, HandlerAir DEF FInv, Next

\* A request claims the slot in which it is sent, and so does every FI of a
\* station that works, unless the slot is free in the table that is sent: no FI
\* that slotHandler sends gives the current slot to another station.
THEOREM FiClaims ==
  ASSUME ~AdjFrameEna
  PROVE  Spec => []FiClaimsItsSlot
<1>1. Init => FInv
  BY InitHInv DEF Init, FInv, SameLen, AirClaims, InItsSlot, In
<1>2. FInv => FiClaimsItsSlot
  BY DEF FInv, AirClaims, Claims, FiClaimsItsSlot
<1> QED
  BY <1>1, <1>2, NextFInv, PTL DEF Spec
=============================================================================
