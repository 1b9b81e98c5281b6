------------------------------- MODULE Satmac -------------------------------
(***************************************************************************)
(* The SATMAC slot reservation protocol (class TdmaSatmac).                *)
(*                                                                         *)
(* Every station runs slotHandler at the start of each slot.  In the slot  *)
(* it holds (slot_num_, the BCH) it ages its table, merges the FI packets  *)
(* it received since, decides whether it may go on using the slot, and     *)
(* broadcasts its own FI.  Stations never talk about a slot in any other   *)
(* way: a conflict is only seen through the FIs of third stations.         *)
(*                                                                         *)
(* Handlers are simulator events, so one runs at a time and in a fixed     *)
(* order within a slot (todo, Running).  A handler that merges FIs takes   *)
(* several steps here (pc = "merge", then "decide") and no other station   *)
(* moves until it is done.  EndSlot is the channel: it delivers what was   *)
(* sent during the slot and starts the next one.                           *)
(***************************************************************************)
EXTENDS FrameInfo, FiniteSets

CONSTANTS
  FrameLen,         \* m_frame_len at start
  AdjEna,           \* adj_ena_
  AdjFrameEna,      \* adj_frame_ena_
  LowerBound,       \* adj_frame_lower_bound_
  UpperBound,       \* adj_frame_upper_bound_
  AdjThreshold,     \* adj_free_threshold_ at start
  ThresholdOf,      \* adj_free_threshold_ that adjFrameLen sets, by length
  C3HThreshold,     \* c3hop_threshold_
  SlotMemory,       \* the stations with slot_memory_
  RandomBch,        \* choose_bch_random_switch_
  SingleMoves,      \* random_bch_if_single_switch_
  BchLock,          \* bch_slot_lock_ after a reset (5 in the code)
  MaxBackoff,       \* largest backoff_frame_num_ drawn (20 in the code)
  InitCandidates,   \* slot_adj_candidate_ is not initialised: its values
  InitLocks,        \* bch_slot_lock_ is not initialised: its values
  InitSingleSlot,   \* adj_single_slot_ena_ is not initialised: its values
  PhyCollisions,    \* WifiPhy (TRUE) or SimpleWirelessChannel (FALSE)
  MaxLoss,          \* bound on the FIs lost other than by collision
  InitLink,         \* radio links at start: <<a, b>> when b hears a
  Topologies,       \* the links that mobility may lead to
  MaxMoves          \* bound on topology changes

\* Frames double and halve; every length divides the longest one.
ASSUME FrameAssumption ==
  /\ FrameLen \in FrameLens
  /\ \A l \in FrameLens :
       /\ MaxLen % l = 0
       /\ AdjFrameEna => DecodedLen(l) \in FrameLens
       /\ AdjFrameEna /\ l < UpperBound => 2 * l \in FrameLens
       /\ AdjFrameEna /\ l > LowerBound => l \div 2 \in FrameLens
  /\ LowerBound \in Nat /\ UpperBound \in Nat
ASSUME FlagAssumption ==
  /\ AdjEna \in BOOLEAN /\ AdjFrameEna \in BOOLEAN
  /\ SlotMemory \subseteq Node
  /\ RandomBch \in BOOLEAN /\ SingleMoves \in BOOLEAN
  /\ PhyCollisions \in BOOLEAN
  /\ (AdjEna \/ AdjFrameEna) => CountHops
ASSUME NumberAssumption ==
  /\ AdjThreshold \in Nat \ {0} /\ C3HThreshold \in Nat
  /\ ThresholdOf \in [FrameLens -> Nat \ {0}]
  /\ BchLock \in Nat /\ MaxBackoff \in Nat
  /\ MaxLoss \in Nat /\ MaxMoves \in Nat
ASSUME InitialValueAssumption ==
  /\ InitCandidates \subseteq SlotIdx \cup {-1}
  /\ InitLocks \subseteq -1 .. BchLock
  /\ InitSingleSlot \subseteq BOOLEAN
ASSUME TopologyAssumption ==
  /\ InitLink \subseteq Node \X Node
  /\ Topologies \subseteq SUBSET (Node \X Node)

NodeState == {"INIT", "LISTEN", "WAIT_REQUEST", "REQUEST", "WORK_FI", "WORK_ADJ"}
Working == {"WORK_FI", "WORK_ADJ"}

VARIABLES
  total_slot_count,     \* total_slot_count_ modulo MaxLen, in step everywhere
  todo,                 \* stations whose slotHandler has not run in this slot
  pc,                   \* where the running handler is
  merging,              \* the FIs it still has to merge
  unlock_flag,          \* local of synthesize_fi_list
  node_state,
  slot_num,             \* slot_num_, the BCH; -1 after a failed determine_BCH
  slot_adj_candidate,
  bch_slot_lock,        \* -1: a value that does not reach 0 by counting down
  backoff_frame_num,
  m_frame_len,
  adj_free_threshold,
  adj_single_slot_ena,
  fi,                   \* collected_fi_: the slot table of each station
  received,             \* received_fi_list_; InOrder gives the list's order
  air,                  \* FIs sent in this slot
  handled,              \* <<sender, receiver>> pairs already delivered or lost
  link, losses, moves

handler == <<todo, pc, merging, unlock_flag>>
slots == <<slot_num, slot_adj_candidate>>
frame == <<m_frame_len, adj_free_threshold>>
local == <<node_state, slots, bch_slot_lock, backoff_frame_num, frame,
           adj_single_slot_ena, fi>>
channel == <<total_slot_count, handled, link, losses, moves>>
vars == <<handler, local, received, air, channel>>

-----------------------------------------------------------------------------
(***************************************************************************)
(* determine_BCH(strict): the slots it may return, {-1} when it finds none.*)
(* The ratios are FRAMEADJ_CUT_RATIO_EHS = 0.6, FRAMEADJ_CUT_RATIO_THS =   *)
(* 0.4 and FRAMEADJ_EXP_RATIO = 0.9.                                       *)
(***************************************************************************)
UnderUsed(tbl, len) ==
  /\ 10 * (len - Cardinality(EmptySlots(tbl, len))) <= 6 * len
  /\ 10 * (len - Cardinality(FreeSlots(tbl, len))) <= 4 * len

LowerHalf(S, len) == {c \in S : c < len \div 2}

Candidates(tbl, len, me, strict) ==
  {c \in 0 .. len - 1 :
     /\ tbl[c].busy = SLOT_FREE \/ (~strict /\ tbl[c].sti = me)
     /\ ~tbl[c].locker}

\* Without choose_bch_random_switch_ the first slot of the list is taken.
Pick(S) == IF RandomBch THEN S ELSE {c \in S : \A d \in S : c <= d}

determine_BCH(tbl, len, threshold, me, strict) ==
  LET s2c == Candidates(tbl, len, me, strict)
      s0c == {c \in s2c : tbl[c].c3 = 0}
      mayCut == AdjFrameEna /\ len > LowerBound /\ UnderUsed(tbl, len)
  IN  IF s2c = {} THEN {-1}
      ELSE IF ~AdjEna THEN s2c
      ELSE IF mayCut /\ LowerHalf(s0c, len) # {} THEN LowerHalf(s0c, len)
      ELSE IF Cardinality(s0c) >= threshold THEN Pick(s0c)
      ELSE Pick(s2c)

(***************************************************************************)
(* adjust_is_needed and adjFrameLen.                                       *)
(***************************************************************************)
adjust_is_needed(tbl, len, threshold, slot) ==
  LET empty == EmptySlots(tbl, len)
  IN  \/ /\ AdjEna
         /\ tbl[slot].c3 >= C3HThreshold
         /\ Cardinality(empty) >= threshold
      \/ /\ AdjFrameEna
         /\ slot >= len \div 2
         /\ len > LowerBound
         /\ UnderUsed(tbl, len)
         /\ LowerHalf(empty, len) # {}

\* utilrate_ehs >= 0.9, the rate being 1 when few slots are left.
Crowded(tbl, len, threshold) ==
  LET empty == Cardinality(EmptySlots(tbl, len))
  IN  empty <= threshold \/ 10 * (len - empty) >= 9 * len

Roomy(tbl, len, threshold) ==
  /\ \A c \in 0 .. len - 1 : c >= len \div 2 => tbl[c].busy = SLOT_FREE
  /\ UnderUsed(tbl, len)
  /\ Cardinality(FreeSlots(tbl, len)) > threshold
  /\ Cardinality(EmptySlots(tbl, len)) > threshold

adjFrameLen(tbl, len, threshold) ==
  CASE AdjFrameEna /\ Crowded(tbl, len, threshold) /\ len < UpperBound -> 2 * len
    [] AdjFrameEna /\ ~(Crowded(tbl, len, threshold) /\ len < UpperBound)
         /\ Roomy(tbl, len, threshold) /\ len > LowerBound -> len \div 2
    [] OTHER -> len

-----------------------------------------------------------------------------
(***************************************************************************)
(* Start: every station is started at the same simulated time, and its     *)
(* first slot is the one after.                                            *)
(***************************************************************************)
Init ==
  /\ total_slot_count = 1 % MaxLen
  /\ todo = Node
  /\ pc = "start"
  /\ merging = {}
  /\ unlock_flag = FALSE
  /\ node_state = [n \in Node |-> "INIT"]
  /\ slot_num = [n \in Node |-> 1 % FrameLen]
  /\ slot_adj_candidate \in [Node -> InitCandidates]
  /\ bch_slot_lock \in [Node -> InitLocks]
  /\ backoff_frame_num = [n \in Node |-> 0]
  /\ m_frame_len = [n \in Node |-> FrameLen]
  /\ adj_free_threshold = [n \in Node |-> AdjThreshold]
  /\ adj_single_slot_ena \in [Node -> InitSingleSlot]
  /\ fi = [n \in Node |-> [c \in SlotIdx |-> FreeTag]]
  /\ received = [n \in Node |-> {}]
  /\ air = {}
  /\ handled = {}
  /\ link = InitLink
  /\ losses = 0
  /\ moves = 0

-----------------------------------------------------------------------------
(***************************************************************************)
(* slotHandler.  The handlers of a slot run one after the other.           *)
(***************************************************************************)
Running(n) == n \in todo /\ \A m \in todo : n <= m

Returns(n) == /\ todo' = todo \ {n}
              /\ pc' = "start"
              /\ merging' = {}
              /\ unlock_flag' = FALSE

\* slot_count_ = total_slot_count_ % m_frame_len, set on entry.
InOwnSlot(n) == slot_num[n] = total_slot_count % m_frame_len[n]

\* Mutant: an FI is kept one slot too long.
FadedLate(S) == {[f EXCEPT !.remain = @ - 1] : f \in {g \in S : g.remain > 0}}

\* fade_received_fi_list(1), called at the start of every slot.
Faded(S) == {[f EXCEPT !.remain = @ - 1] : f \in {g \in S : g.remain > 1}}
Fade(n) == received' = [received EXCEPT ![n] = Faded(@)]

\* Another station's slot.
OtherSlot(n) ==
  /\ Running(n) /\ pc = "start"
  /\ ~InOwnSlot(n)
  /\ Fade(n)
  /\ Returns(n)
  /\ UNCHANGED <<local, air, channel>>

\* NODE_INIT: begin to listen.
InitSlot(n) ==
  /\ Running(n) /\ pc = "start"
  /\ InOwnSlot(n) /\ node_state[n] = "INIT"
  /\ Fade(n)
  /\ node_state' = [node_state EXCEPT ![n] = "LISTEN"]
  /\ backoff_frame_num' = [backoff_frame_num EXCEPT ![n] = 0]
  /\ Returns(n)
  /\ UNCHANGED <<slots, bch_slot_lock, frame, adj_single_slot_ena, fi, air,
                 channel>>

\* Mutant: the back-off is not counted down.
ListenBackoffForever(n) ==
  /\ Running(n) /\ pc = "start"
  /\ InOwnSlot(n) /\ node_state[n] = "LISTEN"
  /\ backoff_frame_num[n] > 0
  /\ Fade(n)
  /\ Returns(n)
  /\ UNCHANGED <<local, air, channel>>

\* NODE_LISTEN with frames left to back off.
ListenBackoff(n) ==
  /\ Running(n) /\ pc = "start"
  /\ InOwnSlot(n) /\ node_state[n] = "LISTEN"
  /\ backoff_frame_num[n] > 0
  /\ Fade(n)
  /\ backoff_frame_num' = [backoff_frame_num EXCEPT ![n] = @ - 1]
  /\ Returns(n)
  /\ UNCHANGED <<node_state, slots, bch_slot_lock, frame, adj_single_slot_ena,
                 fi, air, channel>>

\* Every other state merges what was received: a listening station starts
\* from a new table (clear_FI), the others from their aged table.
StartSynthesis(n) ==
  LET len == m_frame_len[n]
      keep == {slot_num[n], slot_adj_candidate[n]}
      listening == node_state[n] = "LISTEN"
  IN  /\ Running(n) /\ pc = "start"
      /\ InOwnSlot(n) /\ node_state[n] # "INIT"
      /\ listening => backoff_frame_num[n] = 0
      /\ Fade(n)
      /\ merging' = Faded(received[n])
      /\ pc' = "merge"
      /\ fi' = [fi EXCEPT ![n] =
                  IF listening THEN [c \in SlotIdx |-> FreeTag]
                  ELSE IF n \in SlotMemory THEN AgeTable(@, len, n, keep)
                  ELSE ClearOthers(@, len, n)]
      /\ unlock_flag' = (/\ ~listening /\ n \in SlotMemory
                         /\ HasOldLock(fi[n], len))
      /\ UNCHANGED <<todo, node_state, slots, bch_slot_lock,
                     backoff_frame_num, frame, adj_single_slot_ena, air,
                     channel>>

\* received_fi_list_ is merged from its head: the oldest FI first.
Age(f) == f.valid - f.remain
InOrder(f, g) == Age(f) > Age(g) \/ (Age(f) = Age(g) /\ f.rank <= g.rank)

MergeNext(n) ==
  /\ Running(n) /\ pc = "merge"
  /\ \E f \in merging :
       /\ \A g \in merging : InOrder(f, g)
       /\ merging' = merging \ {f}
       /\ fi' = [fi EXCEPT ![n] = merge_fi(@, m_frame_len[n], f, n)]
       /\ m_frame_len' = [m_frame_len EXCEPT
                            ![n] = merged_len(fi[n], @, f, n)]
  /\ UNCHANGED <<todo, pc, unlock_flag, node_state, slots, bch_slot_lock,
                 backoff_frame_num, adj_free_threshold, adj_single_slot_ena,
                 received, air, channel>>

EndSynthesis(n) ==
  /\ Running(n) /\ pc = "merge" /\ merging = {}
  /\ pc' = "decide"
  /\ fi' = [fi EXCEPT ![n] = IF unlock_flag
                             THEN UnlockFree(@, m_frame_len[n]) ELSE @]
  /\ UNCHANGED <<todo, merging, unlock_flag, node_state, slots,
                 bch_slot_lock, backoff_frame_num, frame,
                 adj_single_slot_ena, received, air, channel>>

-----------------------------------------------------------------------------
(***************************************************************************)
(* slotHandler after the merge, one action per case of its switch.         *)
(* slot_count_ is slot_num[n] here: the handler runs in the node's slot.   *)
(***************************************************************************)
Deciding(n, S) == Running(n) /\ pc = "decide" /\ node_state[n] \in S

BchUsable(n) == Usable(fi[n][slot_num[n]], n)
CandidateUsable(n) == Usable(fi[n][slot_adj_candidate[n]], n)

\* The slots determine_BCH may return for the given table.
Choices(n, tbl, strict) ==
  determine_BCH(tbl, m_frame_len[n], adj_free_threshold[n], n, strict)

\* generate_send_FI_packet: the FI sent, and the table it leaves behind.
FiOf(n, tbl, len) == [sti |-> n, len |-> len, tags |-> CodedTable(tbl, len)]
Sends(n, tbl, len) == air' = air \cup {FiOf(n, tbl, len)}

\* Back to NODE_LISTEN for a random number of frames.
BacksOff(n) ==
  /\ node_state' = [node_state EXCEPT ![n] = "LISTEN"]
  /\ \E k \in 0..MaxBackoff :
       backoff_frame_num' = [backoff_frame_num EXCEPT ![n] = k]
  /\ UNCHANGED slot_num

\* Mutant: the new slot is taken without going back to WAIT_REQUEST.
ReselectsInPlace(n, tbl) ==
  /\ fi' = [fi EXCEPT ![n] = tbl]
  /\ \E b \in Choices(n, tbl, FALSE) :
       \/ /\ b \notin {-1, slot_num[n]}
          /\ slot_num' = [slot_num EXCEPT ![n] = b]
          /\ UNCHANGED <<node_state, backoff_frame_num>>
       \/ b \in {-1, slot_num[n]} /\ BacksOff(n)
  /\ UNCHANGED <<slot_adj_candidate, bch_slot_lock, air>>

\* A station that has lost its slot looks for another one in tbl.
Reselects(n, tbl) ==
  /\ fi' = [fi EXCEPT ![n] = tbl]
  /\ \E b \in Choices(n, tbl, FALSE) :
       \/ /\ b \notin {-1, slot_num[n]}
          /\ node_state' = [node_state EXCEPT ![n] = "WAIT_REQUEST"]
          /\ slot_num' = [slot_num EXCEPT ![n] = b]
          /\ UNCHANGED backoff_frame_num
       \/ b \in {-1, slot_num[n]} /\ BacksOff(n)
  /\ UNCHANGED <<slot_adj_candidate, bch_slot_lock, air>>

\* Mutant: the slot is not released.
NeverReleased(n, tbl, c) == tbl

\* if (sti == global_sti) { release the slot and lock it }
ReleasedIfMine(n, tbl, c) ==
  IF tbl[c].sti = n THEN [tbl EXCEPT ![c] = Release(@, TRUE)] ELSE tbl

\* What no decision changes.
DecisionFrame == UNCHANGED <<adj_single_slot_ena, received, channel>>

\* NODE_LISTEN: choose a slot; if it is this one, request it at once.
ListenChoose(n) ==
  /\ Deciding(n, {"LISTEN"})
  /\ \E b \in Choices(n, fi[n], FALSE) :
       LET tbl == [fi[n] EXCEPT ![b] = Claim(@, n)]
      IN  \/ b = -1 /\ BacksOff(n) /\ UNCHANGED <<fi, air>>
          \/ /\ b = slot_num[n]
             /\ Sends(n, tbl, m_frame_len[n])
             /\ fi' = [fi EXCEPT ![n] = CountersRestarted(tbl, m_frame_len[n], n)]
             /\ node_state' = [node_state EXCEPT ![n] = "REQUEST"]
             /\ UNCHANGED <<slot_num, backoff_frame_num>>
          \/ /\ b \notin {-1, slot_num[n]}
             /\ node_state' = [node_state EXCEPT ![n] = "WAIT_REQUEST"]
             /\ slot_num' = [slot_num EXCEPT ![n] = b]
             /\ UNCHANGED <<backoff_frame_num, fi, air>>
  /\ Returns(n)
  /\ DecisionFrame
  /\ UNCHANGED <<slot_adj_candidate, bch_slot_lock, frame>>

\* NODE_WAIT_REQUEST and the slot is still free: request it.
RequestSlot(n) ==
  LET len == m_frame_len[n]
      tbl == [fi[n] EXCEPT ![slot_num[n]] = Claim(@, n)]
  IN  /\ Deciding(n, {"WAIT_REQUEST"})
      /\ BchUsable(n)
      /\ Sends(n, tbl, len)
      /\ fi' = [fi EXCEPT ![n] = CountersRestarted(tbl, len, n)]
      /\ node_state' = [node_state EXCEPT ![n] = "REQUEST"]
      /\ Returns(n)
      /\ DecisionFrame
      /\ UNCHANGED <<slots, bch_slot_lock, backoff_frame_num, frame>>

\* NODE_REQUEST and nobody objected: the slot is ours.
RequestGranted(n) ==
  LET len == m_frame_len[n]
  IN  /\ Deciding(n, {"REQUEST"})
      /\ BchUsable(n)
      /\ Sends(n, fi[n], len)
      /\ fi' = [fi EXCEPT ![n] = CountersRestarted(@, len, n)]
      /\ node_state' = [node_state EXCEPT ![n] = "WORK_FI"]
      /\ Returns(n)
      /\ DecisionFrame
      /\ UNCHANGED <<slots, bch_slot_lock, backoff_frame_num, frame>>

\* The slot is no longer usable (the same code in three states).
SlotLost(n) ==
  /\ Deciding(n, {"WAIT_REQUEST", "REQUEST", "WORK_FI"})
  /\ ~BchUsable(n)
  /\ Reselects(n, ReleasedIfMine(n, fi[n], slot_num[n]))
  /\ Returns(n)
  /\ DecisionFrame
  /\ UNCHANGED frame

(***************************************************************************)
(* NODE_WORK_FI with a usable slot: adjust the slot or the frame, send the *)
(* FI, and move at random from time to time if nobody else is around.      *)
(***************************************************************************)
\* A station that hears nobody moves when bch_slot_lock_ reaches 0.
Moves(n, tbl, len) == SingleMoves /\ isSingle(tbl, len, n)

\* Mutant: the new slot is chosen in the frame as it was before adjFrameLen.
SendsThenMayMoveStale(n, tbl, len, threshold, bch) ==
  LET c == slot_num[n]
      sent == CountersRestarted(tbl, len, n)
      left == [sent EXCEPT ![c] = Release(@, TRUE)]
      due == Moves(n, sent, len) /\ bch_slot_lock[n] = 0
  IN  /\ Sends(n, tbl, len)
      /\ bch_slot_lock' = [bch_slot_lock EXCEPT
                             ![n] = IF due \/ ~Moves(n, sent, len)
                                    THEN BchLock ELSE @ - 1]
      /\ \E b \in determine_BCH(sent, m_frame_len[n], threshold, n, FALSE) :
           IF due
           THEN /\ slot_num' = [slot_num EXCEPT ![n] = b]
                /\ fi' = [fi EXCEPT ![n] = [left EXCEPT ![b] = Claim(@, n)]]
           ELSE /\ slot_num' = [slot_num EXCEPT ![n] = bch]
                /\ fi' = [fi EXCEPT ![n] = sent]

SendsThenMayMove(n, tbl, len, threshold, bch) ==
  LET c == slot_num[n]
      sent == CountersRestarted(tbl, len, n)
      left == [sent EXCEPT ![c] = Release(@, TRUE)]
  IN  /\ Sends(n, tbl, len)
      /\ \/ /\ ~Moves(n, sent, len)
            /\ bch_slot_lock' = [bch_slot_lock EXCEPT ![n] = BchLock]
            /\ fi' = [fi EXCEPT ![n] = sent]
            /\ slot_num' = [slot_num EXCEPT ![n] = bch]
         \/ /\ Moves(n, sent, len) /\ bch_slot_lock[n] # 0
            /\ bch_slot_lock' = [bch_slot_lock EXCEPT
                                   ![n] = IF @ = -1 THEN -1 ELSE @ - 1]
            /\ fi' = [fi EXCEPT ![n] = sent]
            /\ slot_num' = [slot_num EXCEPT ![n] = bch]
         \/ /\ Moves(n, sent, len) /\ bch_slot_lock[n] = 0
            /\ bch_slot_lock' = [bch_slot_lock EXCEPT ![n] = BchLock]
            /\ \E b \in determine_BCH(sent, len, threshold, n, FALSE) :
                 /\ slot_num' = [slot_num EXCEPT ![n] = b]
                 /\ fi' = [fi EXCEPT ![n] = [left EXCEPT ![b] = Claim(@, n)]]

AdjustNeeded(n) == adjust_is_needed(fi[n], m_frame_len[n],
                                    adj_free_threshold[n], slot_num[n])

\* No slot adjustment: adjFrameLen may change the length of the frame.
WorkKeepSlot(n) ==
  LET len == adjFrameLen(fi[n], m_frame_len[n], adj_free_threshold[n])
      threshold == IF AdjFrameEna THEN ThresholdOf[len]
                                  ELSE adj_free_threshold[n]
  IN  /\ Deciding(n, {"WORK_FI"})
      /\ BchUsable(n) /\ ~AdjustNeeded(n)
      /\ m_frame_len' = [m_frame_len EXCEPT ![n] = len]
      /\ adj_free_threshold' = [adj_free_threshold EXCEPT ![n] = threshold]
      /\ SendsThenMayMove(n, fi[n], len, threshold, slot_num[n])
      /\ Returns(n)
      /\ DecisionFrame
      /\ UNCHANGED <<node_state, slot_adj_candidate, backoff_frame_num>>

\* Slot adjustment: announce a second slot next to the first one, or (with
\* adj_single_slot_ena_) move to it at once.
WorkAdjust(n) ==
  LET c == slot_num[n]
  IN  /\ Deciding(n, {"WORK_FI"})
      /\ BchUsable(n) /\ AdjustNeeded(n)
      /\ \E b \in Choices(n, fi[n], TRUE) :
           LET both == [fi[n] EXCEPT ![b] = Claim(@, n)]
               moved == [[fi[n] EXCEPT ![c] = Release(@, FALSE)]
                           EXCEPT ![b] = Claim(@, n)]
               Continues(tbl, bch) ==
                 SendsThenMayMove(n, tbl, m_frame_len[n],
                                  adj_free_threshold[n], bch)
           IN  /\ slot_adj_candidate' = [slot_adj_candidate EXCEPT ![n] = b]
               /\ \/ b = -1 /\ Continues(fi[n], c) /\ UNCHANGED node_state
                  \/ /\ b # -1 /\ adj_single_slot_ena[n]
                     /\ Continues(moved, b)
                     /\ UNCHANGED node_state
                  \/ /\ b # -1 /\ ~adj_single_slot_ena[n]
                     /\ Continues(both, c)
                     /\ node_state' = [node_state EXCEPT ![n] = "WORK_ADJ"]
      /\ Returns(n)
      /\ DecisionFrame
      /\ UNCHANGED <<backoff_frame_num, frame>>

(***************************************************************************)
(* NODE_WORK_ADJ: settle on one of the two slots.                          *)
(***************************************************************************)
\* Both may be used: take the candidate if it is no more crowded.
AdjSettle(n) ==
  LET c == slot_num[n]
      a == slot_adj_candidate[n]
      takes == CandidateUsable(n) /\ fi[n][c].c3 >= fi[n][a].c3
      given == IF takes THEN c ELSE a
      tbl == [fi[n] EXCEPT ![given] = Release(@, TRUE)]
  IN  /\ Deciding(n, {"WORK_ADJ"})
      /\ BchUsable(n)
      /\ slot_num' = [slot_num EXCEPT ![n] = IF takes THEN a ELSE c]
      /\ Sends(n, tbl, m_frame_len[n])
      /\ fi' = [fi EXCEPT ![n] = CountersRestarted(tbl, m_frame_len[n], n)]
      /\ node_state' = [node_state EXCEPT ![n] = "WORK_FI"]
      /\ Returns(n)
      /\ DecisionFrame
      /\ UNCHANGED <<slot_adj_candidate, bch_slot_lock, backoff_frame_num, frame>>

\* The slot is lost but the candidate may be used: move there, in silence.
AdjFallBack(n) ==
  /\ Deciding(n, {"WORK_ADJ"})
  /\ ~BchUsable(n) /\ CandidateUsable(n)
  /\ slot_num' = [slot_num EXCEPT ![n] = slot_adj_candidate[n]]
  /\ node_state' = [node_state EXCEPT ![n] = "WORK_FI"]
  /\ Returns(n)
  /\ DecisionFrame
  /\ UNCHANGED <<slot_adj_candidate, bch_slot_lock, backoff_frame_num, frame,
                 fi, air>>

\* Both are lost.
AdjLost(n) ==
  /\ Deciding(n, {"WORK_ADJ"})
  /\ ~BchUsable(n) /\ ~CandidateUsable(n)
  /\ Reselects(n, ReleasedIfMine(n, fi[n], slot_adj_candidate[n]))
  /\ Returns(n)
  /\ DecisionFrame
  /\ UNCHANGED frame

-----------------------------------------------------------------------------
(***************************************************************************)
(* The channel.  With WifiPhy a station that sends hears nothing, and two  *)
(* frames in one slot destroy each other at whoever hears both; the        *)
(* SimpleWirelessChannel delivers everything within range.                 *)
(***************************************************************************)
Senders == {m.sti : m \in air}

Deliverable(m, r) ==
  /\ <<m.sti, r>> \in link \ handled
  /\ PhyCollisions => /\ r \notin Senders
                      /\ \A k \in Senders : <<k, r>> \in link => k = m.sti

\* The stations whose FI of this slot has got, or failed to get, to r.
HandledAt(r) == {s \in Node : <<s, r>> \in handled}

\* Without adj_frame_ena_ all frames are taken to have the receiver's length.
recvFI(r, m) ==
  /\ todo = {} /\ m \in air /\ Deliverable(m, r)
  /\ received' = [received EXCEPT ![r] = @ \cup
       {[sti |-> m.sti,
         tags |-> [c \in SlotIdx |-> decode_slot_tag(m.tags[c], c)],
         len |-> IF AdjFrameEna THEN DecodedLen(m.len) ELSE m_frame_len[r],
         valid |-> m_frame_len[r], remain |-> m_frame_len[r],
         rank |-> Cardinality(HandledAt(r))]}]
  /\ handled' = handled \cup {<<m.sti, r>>}
  /\ UNCHANGED <<handler, local, air, total_slot_count, link, losses, moves>>

LoseFI(r, m) ==
  /\ todo = {} /\ m \in air /\ Deliverable(m, r)
  /\ losses < MaxLoss
  /\ losses' = losses + 1
  /\ handled' = handled \cup {<<m.sti, r>>}
  /\ UNCHANGED <<handler, local, received, air, total_slot_count, link, moves>>

EndSlot ==
  /\ todo = {}
  /\ \A m \in air, r \in Node : ~Deliverable(m, r)
  /\ total_slot_count' = (total_slot_count + 1) % MaxLen
  /\ todo' = Node
  /\ air' = {}
  /\ handled' = {}
  /\ UNCHANGED <<pc, merging, unlock_flag, local, received, link, losses, moves>>

\* Vehicles drive into and out of range between slots.
Drive ==
  /\ todo = Node /\ pc = "start"
  /\ moves < MaxMoves
  /\ moves' = moves + 1
  /\ link' \in Topologies \ {link}
  /\ UNCHANGED <<handler, local, received, air, total_slot_count, handled, losses>>

-----------------------------------------------------------------------------
Synthesize(n) == StartSynthesis(n) \/ MergeNext(n) \/ EndSynthesis(n)

Decide(n) ==
  \/ ListenChoose(n) \/ RequestSlot(n) \/ RequestGranted(n) \/ SlotLost(n)
  \/ WorkKeepSlot(n) \/ WorkAdjust(n)
  \/ AdjSettle(n) \/ AdjFallBack(n) \/ AdjLost(n)

slotHandler(n) ==
  OtherSlot(n) \/ InitSlot(n) \/ ListenBackoff(n) \/ Synthesize(n) \/ Decide(n)

Receive(r) == \E m \in air : recvFI(r, m) \/ LoseFI(r, m)

Next ==
  \/ \E n \in Node : slotHandler(n)
  \/ \E n \in Node : Receive(n)
  \/ EndSlot
  \/ Drive

Spec == Init /\ [][Next]_vars

\* Simulator events do happen: handlers run, frames arrive, time passes.
Fairness ==
  /\ \A n \in Node : WF_vars(slotHandler(n)) /\ WF_vars(Receive(n))
  /\ WF_vars(EndSlot)

FairSpec == Spec /\ Fairness

-----------------------------------------------------------------------------
\* Types.
TypeOK ==
  /\ total_slot_count \in SlotIdx
  /\ todo \subseteq Node
  /\ pc \in {"start", "merge", "decide"}
  /\ merging \subseteq Frame_info
  /\ unlock_flag \in BOOLEAN
  /\ node_state \in [Node -> NodeState]
  /\ slot_num \in [Node -> SlotIdx \cup {-1}]
  /\ slot_adj_candidate \in [Node -> SlotIdx \cup {-1}]
  /\ bch_slot_lock \in [Node -> -1 .. BchLock]
  /\ backoff_frame_num \in [Node -> 0 .. MaxBackoff]
  /\ m_frame_len \in [Node -> FrameLens]
  /\ adj_free_threshold \in [Node -> Nat \ {0}]
  /\ adj_single_slot_ena \in [Node -> BOOLEAN]
  /\ fi \in [Node -> Table]
  /\ received \in [Node -> SUBSET Frame_info]
  /\ air \subseteq FiPacket
  /\ handled \subseteq Node \X Node
  /\ link \subseteq Node \X Node
  /\ losses \in 0..MaxLoss
  /\ moves \in 0..MaxMoves

-----------------------------------------------------------------------------
(***************************************************************************)
(* Safety.                                                                 *)
(***************************************************************************)
\* The handler of n is not halfway through.
Idle(n) == ~(Running(n) /\ pc # "start")

\* A station that has asked for a slot, and one that has itself down as the
\* user of its slot.
Asked(n) == node_state[n] \in Working \cup {"REQUEST"}
Recorded(n) == /\ slot_num[n] # -1
               /\ fi[n][slot_num[n]].sti = n
               /\ fi[n][slot_num[n]].busy = SLOT_1HOP

\* slot_num_ is a slot of the frame, however the frame was halved, doubled or
\* restored since the slot was chosen: otherwise the station's slot would
\* never come again.  (slotHandler asserts the weaker slot_num_ <= m_frame_len.)
\* It may not be when the station works with an entry that has become free:
\* adjFrameLen halves the frame if all entries in its upper half are.
SlotInFrame ==
  \A n \in Node : Recorded(n) \/ ~Asked(n) =>
    slot_num[n] \in 0 .. m_frame_len[n] - 1

\* A slot beyond the frame is free: merge_fi prints "Protocol ERROR" when it
\* finds one that is not, and halving a frame must not forget a claim.
NothingBeyondFrame ==
  \A n \in Node : Idle(n) =>
    \A c \in m_frame_len[n] .. MaxLen - 1 : fi[n][c].sti = 0

\* A tag names a station exactly when it is busy.  determine_BCH reads busy,
\* slotHandler and synthesize_fi_list read sti, and merge_fi, the ageing and
\* slotHandler write the two separately.
NamedIffBusy ==
  \A n \in Node : Idle(n) =>
    \A c \in SlotIdx : fi[n][c].sti = 0 <=> fi[n][c].busy = SLOT_FREE

\* A station that has asked for a slot has itself down as its user, wherever it
\* moves, until it gives the slot up or merges an FI that does not give it the
\* slot: neither the ageing nor clear_others_slot_status forget it, and nothing
\* is sent that would make others forget it.
RecordKept ==
  [][\A n \in Node :
       Asked(n) /\ Recorded(n) =>
         \/ Recorded(n)'
         \/ ~Asked(n)'
         \/ \E f \in merging \ merging' : /\ slot_num[n] < f.len
                                          /\ f.tags[slot_num[n]].sti # n]_vars

\* A station claims no slot but its BCH and, while it adjusts, its candidate:
\* a slot that is given up, lost or moved away from is not claimed any more.
OneClaim ==
  \A n \in Node : Idle(n) =>
    \A c \in SlotIdx : fi[n][c].sti = n =>
      \/ c = slot_num[n]
      \/ node_state[n] = "WORK_ADJ" /\ c = slot_adj_candidate[n]

\* A request claims for its sender the slot in which it is sent.  So does every
\* FI of a station that works, unless its table has the slot free by then (it
\* moves away, or the station named in a COLLISION report has given it up): no
\* FI gives the slot in which it is sent to anybody but its sender.
FiClaimsItsSlot ==
  \A m \in air : LET t == m.tags[total_slot_count % m.len]
                 IN  \/ t.sti = m.sti /\ t.busy = SLOT_1HOP
                     \/ t.sti = 0 /\ node_state[m.sti] \in Working

\* Every FI names its sender somewhere (generate_send_FI_packet "must be called
\* after the state of the BCH has been set").
FiNamesSender ==
  \A m \in air : \E c \in 0 .. m.len - 1 : m.tags[c].sti = m.sti

\* A received FI says the same as the one that was sent ("deserialise the FI
\* that was received", recvFI), whatever the slot: a neighbour's slots are the
\* ones it says it has, and an objection arrives as an objection.
ReceivedAsSent ==
  \A r \in Node : \A f \in received[r] :
    \A m \in air : m.sti = f.sti /\ f.remain = f.valid =>
      \A c \in 0 .. f.len - 1 : f.tags[c] = m.tags[c]

\* What a received tag for the station's slot says against its using it.
Objects(t, n) == \/ t.sti \notin {0, n} /\ t.busy \in Busy \ {SLOT_2HOP}
                 \/ t.sti = n /\ t.busy = SLOT_FREE

\* A station that still has itself down as the user of its slot when it decides
\* has merged no FI that objects, in whatever order they came: no later FI makes
\* up for an objection.  (It also goes on with a slot that is free by then: the
\* station named in a COLLISION report may have given the slot up since.)
ObjectionsHeeded ==
  \A n \in Node :
    Deciding(n, Working \cup {"REQUEST"}) /\ Recorded(n) =>
      \A f \in received[n] : slot_num[n] < f.len => ~Objects(f.tags[slot_num[n]], n)

(***************************************************************************)
(* The stations have settled: each has a slot of its own, is known with it *)
(* to all who hear it, and nothing received says otherwise.  What is known *)
(* of a neighbour was refreshed in the last frame, but for losses.         *)
(***************************************************************************)
Settled ==
  /\ \A n \in Node : node_state[n] = "WORK_FI"
  /\ \A n, m \in Node : n # m => slot_num[n] # slot_num[m]
  /\ \A n \in Node : \A f \in received[n] : f.tags[slot_num[n]].sti = n
  /\ \A l \in link :
       LET t == fi[l[2]][slot_num[l[1]]]
           full == IF Running(l[2]) /\ pc = "merge" THEN Life - 1 ELSE Life
       IN  /\ t.sti = l[1] /\ t.busy = SLOT_1HOP
           /\ t.life + losses >= full

\* Stations that have settled stay where they are, as long as fewer than
\* Life - 1 FIs are lost: the protocol comes to rest, and slot_lifetime_frame_
\* bridges losses (one frame less than its name says, for a table is aged
\* before it is refreshed).
SettledStays == [][Settled /\ link' = link => Settled']_vars

(***************************************************************************)
(* Liveness.                                                               *)
(***************************************************************************)
\* Two stations never stop getting slots to work in: locks are released and
\* back-offs end.
EveryoneWorks == \A n \in Node : []<>(node_state[n] \in Working)

\* A station out of earshot of everyone is forgotten by everyone: nobody keeps
\* its slots occupied by reporting to others what others have reported.
Isolated(m) == \A l \in link : l[1] # m
DepartedForgotten ==
  <>[](moves = MaxMoves =>
         \A n, m \in Node : n # m /\ Isolated(m) =>
           \A c \in SlotIdx : fi[n][c].sti # m)

-----------------------------------------------------------------------------
(***************************************************************************)
(* Each station implements SlotAccess.  slot_num_ is its slot, except while *)
(* it listens, when it is the slot in which it will choose one.             *)
(***************************************************************************)
Phase(n) == CASE node_state[n] \in {"INIT", "LISTEN"} -> "listening"
              [] node_state[n] = "WAIT_REQUEST" -> "chosen"
              [] node_state[n] = "REQUEST" -> "requested"
              [] node_state[n] \in Working -> "working"

Access(n) == INSTANCE SlotAccess WITH
               Slots <- SlotIdx,
               phase <- Phase(n),
               slot <- IF Phase(n) = "listening" THEN -1 ELSE slot_num[n],
               on_air <- n \in Senders

\* What slotHandler does in a slot is what SlotAccess allows, whatever FIs
\* were merged, lost or faded in between: a station that works has requested
\* that slot or moved to it from work, an FI is only sent with a request or
\* from work, and no slot is given up in the slot in which the FI was sent.
ImplementsAccess ==
  /\ \A n \in Node : Access(n)!Init
  /\ [][\A n \in Node : [Access(n)!Next]_(Access(n)!vars)]_vars
=============================================================================
