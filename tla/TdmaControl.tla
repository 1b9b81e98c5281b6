---------------------------- MODULE TdmaControl ----------------------------
(***************************************************************************)
(* The TDMA controller of the FPGA (tdma_control.v): the state machine that *)
(* acquires and keeps the broadcast slot (BCH), the one that builds the FI  *)
(* before the station's slot and looks for a candidate slot (FI, FCB), and  *)
(* the one that hands packets to the network card (MO).  They run in        *)
(* parallel and share one slot memory, into which the descriptor processor  *)
(* merges received FIs at the same time (STU, desc_processor.v).            *)
(*                                                                          *)
(* An action stands for the run of clock cycles a machine takes between two *)
(* waits.  A slot lasts some 100000 cycles and such a run a handful, so the *)
(* slot pointer only moves when all machines are waiting.  This is an       *)
(* assumption for FI, which gets the last 30 us of a slot: they are enough  *)
(* for frames of up to 32 slots.                                            *)
(***************************************************************************)
EXTENDS Naturals, FiniteSets

CONSTANTS
  MaxLen,         \* slots in the longest frame
  AddrSpace,      \* entries the 7 address bits of the walks can tell apart
  FrameLens,      \* the lengths of frame that have a curr_frame_len_log2
  FrameLen,       \* FRAME_SLOT_NUM_DEFAULT
  LowerBound,     \* adj_frame_lower_bound
  UpperBound,     \* adj_frame_upper_bound
  CutFree,        \* thres_cut_free_ehs, by frame length
  ExpandFree,     \* thres_exp_free_ehs, by frame length
  AdjFree,        \* thres_slot_adj, by frame length
  Settings,       \* what the driver may have enabled in slv_reg8
  SingleLock,     \* frames a lonely station stays in a slot
  SecondEnds,     \* slots of the longest frame a UTC second may end with
  MaxChanges,     \* bound on the entries one FI changes, by setting
  MaxEvents       \* bound on the FIs received, the UTC seconds that begin and
                  \* the pings asked for, by setting

SlotIdx == 0 .. MaxLen - 1

\* What a 64-bit entry of the slot memory says, as far as the controller can
\* tell: nobody's, nobody's but with the LOCKER bit, mine (busy 10), mine
\* with a collision (busy 11), somebody else's with a LIFE of three frames
\* (OCCUPIER_LIFE_FRAME), of two or of one, and the same once the neighbour
\* is only known from other neighbours' FIs (remote, last).
Others == {"new", "aging", "old", "remote", "last"}
Entry == {"free", "locked", "mine", "clash"} \cup Others

\* 16'hffff, the candidate before and after a search that finds none.
NoSlot == MaxLen + 1

Switches == {"slot_adj_ena", "frame_adj_ena", "randon_bch_if_single"}

ASSUME FrameAssumption ==
  /\ MaxLen \in Nat \ {0} /\ AddrSpace \in Nat \ {0}
  /\ FrameLens \subseteq 2 .. MaxLen /\ FrameLen \in FrameLens
  /\ LowerBound \in Nat /\ UpperBound \in Nat
  /\ \A len \in FrameLens :
       /\ MaxLen % len = 0
       /\ len < UpperBound => 2 * len \in FrameLens
       /\ len > LowerBound => len \div 2 \in FrameLens
       /\ \A longer \in FrameLens : len < longer => 2 * len \in FrameLens
  /\ SingleLock \in Nat \ {0} /\ SecondEnds \subseteq SlotIdx
  /\ Settings \subseteq SUBSET Switches

VARIABLES
  slv_reg8,          \* the switches that are on
  slot_counter,      \* slot_counter_1sec, modulo MaxLen after one such frame
  slot_pointer,      \* the current slot
  late,              \* its last 30 us have begun
  curr_frame_len,
  table,             \* blk_mem_slot_status
  bch_state,
  bch_work_pointer,
  bch_decide_adj,
  bch_adj_flag,
  bch_single_lock,
  accessible,        \* bch_accessible_flag
  we_bch,            \* slot_status_we_bch is left on, with a claim
  fi_state,
  fi_initialed,
  slot_need_adj,
  frame_need_slotadj,  \* frmae_len_need_slotadj
  adj_slot_win,
  is_single,
  fcb_strict,
  fcb_candidate,     \* fcb_bch_candidate, NoSlot with fcb_fail
  mo_state,
  rx,                \* an FI has been received in this slot
  events,            \* FIs, seconds and pings so far
  overruled          \* a neighbour's claim to the requested slot was undone

time == <<slot_counter, slot_pointer, late>>
bchVars == <<bch_state, bch_work_pointer, bch_decide_adj, bch_adj_flag,
             bch_single_lock, accessible, we_bch>>
adjVars == <<slot_need_adj, frame_need_slotadj, adj_slot_win, is_single,
             fcb_strict>>
fiVars == <<fi_state, fi_initialed, adjVars, fcb_candidate>>
rxVars == <<rx, events, overruled>>
vars == <<slv_reg8, time, curr_frame_len, table, bchVars, fiVars, mo_state,
          rxVars>>

SlotAdj == "slot_adj_ena" \in slv_reg8
FrameAdj == "frame_adj_ena" \in slv_reg8
SingleMoves == "randon_bch_if_single" \in slv_reg8

\* Mutant of After: the slot after the last one is not the first.
NoWrap(s) == s + 1

Frame == 0 .. curr_frame_len - 1
After(s) == IF s + 1 = curr_frame_len THEN 0 ELSE s + 1
Before(s) == IF s = 0 THEN curr_frame_len - 1 ELSE s - 1

(***************************************************************************)
(* The slot memory has one port for the controller, which FI and FCB take   *)
(* from their first to their last access: what BCH writes meanwhile is      *)
(* lost, and what it reads is the entry they are at.                        *)
(***************************************************************************)
PortFree == fi_state \in {"IDLE", "END"}

\* An address is the low bits of a slot number: with 16'hffff it is the last
\* one, of an entry that may be beyond the longest frame, where nothing reads
\* it.
Addr(s) == IF s = NoSlot THEN AddrSpace - 1 ELSE s

\* What BCH reads at the address of its slot, and the table after it has
\* written e to entry s: it does so when FI is waiting.
View == table[Addr(bch_work_pointer)]
Written(t, s, e) == [t EXCEPT ![Addr(s)] = e]

\* Mutant of Usable: the owner is not looked at.
UsableByBusy(e) == e # "clash"

\* The test in front of every use of the slot: mine with busy 10, or nobody's.
Usable(e) == e \in {"mine", "free", "locked"}

Init ==
  /\ slv_reg8 \in Settings
  /\ slot_counter = 0 /\ slot_pointer = 0 /\ late = FALSE
  /\ curr_frame_len = FrameLen
  /\ table = [s \in SlotIdx |-> "free"]
  /\ bch_state = "IDLE"
  /\ bch_work_pointer = NoSlot /\ bch_decide_adj = NoSlot
  /\ bch_adj_flag = FALSE /\ bch_single_lock = SingleLock
  /\ accessible = FALSE /\ we_bch = FALSE
  /\ fi_state = "IDLE" /\ fi_initialed = FALSE
  /\ slot_need_adj = FALSE /\ frame_need_slotadj = FALSE
  /\ adj_slot_win = FALSE /\ is_single = FALSE /\ fcb_strict = FALSE
  /\ fcb_candidate = NoSlot
  /\ mo_state = "IDLE"
  /\ rx = FALSE /\ events = 0 /\ overruled = FALSE

(***************************************************************************)
(* BCH: listening for a frame before a slot is chosen.                      *)
(***************************************************************************)
\* init_fi_start is on for one cycle: FI only sees it when it is idle.
InitFi ==
  IF fi_state = "IDLE"
  THEN fi_state' = "BUILD" /\ fi_initialed' = TRUE
  ELSE UNCHANGED <<fi_state, fi_initialed>>

\* BCH_IDLE, BCH_LIS_DECIDE_REQ (reached again after BCH_FCB_FAIL_COUNT).
DecideReq ==
  /\ bch_state = "IDLE"
  /\ bch_state' = "LIS_WAIT_NEXT_SLOT"
  /\ bch_work_pointer' = After(slot_pointer)
  /\ InitFi
  /\ UNCHANGED <<slv_reg8, time, curr_frame_len, table, bch_decide_adj,
                 bch_adj_flag, bch_single_lock, accessible, we_bch, adjVars,
                 fcb_candidate, mo_state, rxVars>>

ListenWaits(state) ==
  CASE state = "LIS_WAIT_NEXT_SLOT" -> bch_work_pointer = After(slot_pointer)
    [] state = "LIS_WAIT_NEXT_SLOT_2" -> bch_work_pointer = slot_pointer
    [] state = "LIS_WAIT_NEXT_FRAME" -> bch_work_pointer # slot_pointer

AfterListening(state) ==
  CASE state = "LIS_WAIT_NEXT_SLOT" -> "LIS_WAIT_NEXT_SLOT_2"
    [] state = "LIS_WAIT_NEXT_SLOT_2" -> "LIS_WAIT_NEXT_FRAME"
    [] state = "LIS_WAIT_NEXT_FRAME" -> "LIS_FCB"

Listening == {"LIS_WAIT_NEXT_SLOT", "LIS_WAIT_NEXT_SLOT_2",
              "LIS_WAIT_NEXT_FRAME"}

\* BCH has a slot in bch_work_pointer.
Holding == {"WAIT_REQ_FI_INIT_WAIT", "WAIT_REQ_WAIT",
            "WAIT_REQ_FI_SEND_WAIT", "WAIT_REQ_FI_SEND_DONE", "REQ_WAIT",
            "WORK_FI_WAIT", "IF_SINGLE", "WORK_FI_SEND_FI_WAIT",
            "WORK_ENA_TX", "WORK_ADJ_WAIT"}

Listen ==
  /\ bch_state \in Listening
  /\ ~ListenWaits(bch_state)
  /\ bch_state' = AfterListening(bch_state)
  /\ UNCHANGED <<slv_reg8, time, curr_frame_len, table, bch_work_pointer,
                 bch_decide_adj, bch_adj_flag, bch_single_lock, accessible,
                 we_bch, fiVars, mo_state, rxVars>>

\* Mutant of LisFcb: fcb_fail is not looked at.
LisFcbIgnoresFail ==
  /\ bch_state = "LIS_FCB"
  /\ bch_work_pointer' = fcb_candidate
  /\ bch_state' = "WAIT_REQ_FI_INIT_WAIT"
  /\ table' = Written(table, fcb_candidate, "mine")
  /\ InitFi
  /\ UNCHANGED <<slv_reg8, time, curr_frame_len, bch_decide_adj, bch_adj_flag,
                 bch_single_lock, accessible, we_bch, adjVars, fcb_candidate,
                 mo_state, rxVars>>

\* BCH_LIS_FCB and BCH_WAIT_REQ_FI_INIT_START: the candidate is claimed and
\* the first FI is asked for; without one BCH starts all over.
LisFcb ==
  /\ bch_state = "LIS_FCB"
  /\ bch_work_pointer' = fcb_candidate
  /\ IF fcb_candidate = NoSlot
     THEN /\ bch_state' = "IDLE"
          /\ UNCHANGED <<table, fi_state, fi_initialed>>
     ELSE /\ bch_state' = "WAIT_REQ_FI_INIT_WAIT"
          /\ table' = Written(table, fcb_candidate, "mine")
          /\ InitFi
  /\ UNCHANGED <<slv_reg8, time, curr_frame_len, bch_decide_adj,
                 bch_adj_flag, bch_single_lock, accessible, we_bch, adjVars,
                 fcb_candidate, mo_state, rxVars>>

\* init_fi_done is on while FI is in FI_END and in the cycle after it.
InitDone ==
  /\ bch_state = "WAIT_REQ_FI_INIT_WAIT"
  /\ fi_state = "END"
  /\ bch_state' = "WAIT_REQ_WAIT"
  /\ UNCHANGED <<slv_reg8, time, curr_frame_len, table, bch_work_pointer,
                 bch_decide_adj, bch_adj_flag, bch_single_lock, accessible,
                 we_bch, fiVars, mo_state, rxVars>>

(***************************************************************************)
(* BCH: requesting the slot, and the way back when it is taken.             *)
(***************************************************************************)
\* send_fi_start is on for one cycle: MO only sees it when it is idle.
AskForFi == mo_state' = IF mo_state = "IDLE" THEN "SEND_FI" ELSE mo_state

\* BCH_WAIT_REQ_WAIT in the chosen slot: the request is sent, or counted as
\* failed.
Request ==
  /\ bch_state = "WAIT_REQ_WAIT"
  /\ slot_pointer = bch_work_pointer
  /\ \/ /\ Usable(View)
        /\ bch_state' = "WAIT_REQ_FI_SEND_WAIT"
        /\ AskForFi
     \/ /\ ~Usable(View)
        /\ bch_state' = "WAIT_REQ_FCB_PRE"
        /\ UNCHANGED mo_state
  /\ UNCHANGED <<slv_reg8, time, curr_frame_len, table, bch_work_pointer,
                 bch_decide_adj, bch_adj_flag, bch_single_lock, accessible,
                 we_bch, fiVars, rxVars>>

\* Mutant of Retry: the lost slot is not given back.
RetryKeeps ==
  /\ bch_state = "WAIT_REQ_FCB_PRE"
  /\ fcb_candidate # NoSlot
  /\ bch_state' = "WAIT_REQ_WAIT"
  /\ table' = Written(table, fcb_candidate, "mine")
  /\ we_bch' = TRUE
  /\ bch_work_pointer' = fcb_candidate
  /\ overruled' = FALSE
  /\ UNCHANGED <<slv_reg8, time, curr_frame_len, bch_decide_adj, bch_adj_flag,
                 bch_single_lock, accessible, fiVars, mo_state, rx, events>>

\* BCH_REQ_FAIL_COUNT or BCH_COL_COUNT, then WAIT_REQ_FCB_PRE .. DONE: the
\* entry is given back with a lock if it still names the station, and the
\* candidate the last FI has found is claimed.  The write stays enabled.
Retry ==
  /\ bch_state = "WAIT_REQ_FCB_PRE"
  /\ LET released == IF View \in {"mine", "clash"}
                     THEN Written(table, bch_work_pointer, "locked")
                     ELSE table
     IN  \/ /\ fcb_candidate = NoSlot
            /\ bch_state' = "IDLE"
            /\ table' = released
            /\ we_bch' = FALSE
            /\ UNCHANGED bch_work_pointer
         \/ /\ fcb_candidate # NoSlot
            /\ bch_state' = "WAIT_REQ_WAIT"
            /\ table' = Written(released, fcb_candidate, "mine")
            /\ we_bch' = TRUE
            /\ bch_work_pointer' = fcb_candidate
  /\ overruled' = FALSE
  /\ UNCHANGED <<slv_reg8, time, curr_frame_len, bch_decide_adj,
                 bch_adj_flag, bch_single_lock, accessible, fiVars, mo_state,
                 rx, events>>

\* BCH_WAIT_REQ_FI_SEND_DONE: the slot is over, and so is the standing write.
RequestSent ==
  /\ bch_state = "WAIT_REQ_FI_SEND_DONE"
  /\ slot_pointer # bch_work_pointer
  /\ bch_state' = "REQ_WAIT"
  /\ we_bch' = FALSE
  /\ UNCHANGED <<slv_reg8, time, curr_frame_len, table, bch_work_pointer,
                 bch_decide_adj, bch_adj_flag, bch_single_lock, accessible,
                 fiVars, mo_state, rxVars>>

\* BCH_REQ_WAIT one frame later: nobody has objected, or somebody has.
Confirm ==
  /\ bch_state = "REQ_WAIT"
  /\ slot_pointer = bch_work_pointer
  /\ bch_state' = IF Usable(View) THEN "WORK_FI_WAIT" ELSE "WAIT_REQ_FCB_PRE"
  /\ UNCHANGED <<slv_reg8, time, curr_frame_len, table, bch_work_pointer,
                 bch_decide_adj, bch_adj_flag, bch_single_lock, accessible,
                 we_bch, fiVars, mo_state, rxVars>>

(***************************************************************************)
(* BCH: working in the slot.                                                *)
(***************************************************************************)
\* BCH_WORK_FI_WAIT: the slot has come.  If a move is wanted and there is a
\* candidate, it is claimed besides the slot (BCH_WORK_FI_FCB).
Work ==
  /\ bch_state = "WORK_FI_WAIT"
  /\ slot_pointer = bch_work_pointer
  /\ \/ /\ Usable(View)
        /\ bch_state' = "IF_SINGLE"
        /\ IF /\ fcb_candidate # NoSlot
              /\ slot_need_adj \/ frame_need_slotadj
           THEN /\ bch_decide_adj' = fcb_candidate
                /\ bch_adj_flag' = TRUE
                /\ table' = Written(table, fcb_candidate, "mine")
           ELSE UNCHANGED <<bch_decide_adj, bch_adj_flag, table>>
     \/ /\ ~Usable(View)
        /\ bch_state' = "WAIT_REQ_FCB_PRE"
        /\ UNCHANGED <<bch_decide_adj, bch_adj_flag, table>>
  /\ UNCHANGED <<slv_reg8, time, curr_frame_len, bch_work_pointer,
                 bch_single_lock, accessible, we_bch, fiVars, mo_state,
                 rxVars>>

\* BCH_IF_SINGLE: a station that sees nobody moves every few frames
\* (IF_SINGLE_SET_1, SET_2), so that stations that do not know of each other
\* do not collide for ever.  Then the FI is sent.
IfSingle ==
  /\ bch_state = "IF_SINGLE"
  /\ bch_state' = "WORK_FI_SEND_FI_WAIT"
  /\ AskForFi
  /\ \/ /\ SingleMoves /\ is_single /\ bch_single_lock = 1
        /\ table' = Written(Written(table, bch_work_pointer, "locked"),
                            fcb_candidate, "mine")
        /\ bch_work_pointer' = fcb_candidate
        /\ bch_single_lock' = SingleLock
     \/ /\ SingleMoves /\ is_single /\ bch_single_lock > 1
        /\ bch_single_lock' = bch_single_lock - 1
        /\ UNCHANGED <<table, bch_work_pointer>>
     \/ /\ ~(SingleMoves /\ is_single)
        /\ bch_single_lock' = SingleLock
        /\ UNCHANGED <<table, bch_work_pointer>>
  /\ UNCHANGED <<slv_reg8, time, curr_frame_len, bch_decide_adj,
                 bch_adj_flag, accessible, we_bch, fiVars, rxVars>>

\* Mutant of SlotOver: bch_accessible_flag is not reset.
SlotOverStaysOpen ==
  /\ bch_state = "WORK_ENA_TX"
  /\ slot_pointer # bch_work_pointer
  /\ bch_adj_flag' = FALSE
  /\ bch_state' = IF bch_adj_flag THEN "WORK_ADJ_WAIT" ELSE "WORK_FI_WAIT"
  /\ UNCHANGED <<slv_reg8, time, curr_frame_len, table, bch_work_pointer,
                 bch_decide_adj, bch_single_lock, accessible, we_bch, fiVars,
                 mo_state, rxVars>>

\* BCH_WORK_ENA_TX, DISA_TX: data may be sent until the slot ends.
SlotOver ==
  /\ bch_state = "WORK_ENA_TX"
  /\ slot_pointer # bch_work_pointer
  /\ accessible' = FALSE
  /\ bch_adj_flag' = FALSE
  /\ bch_state' = IF bch_adj_flag THEN "WORK_ADJ_WAIT" ELSE "WORK_FI_WAIT"
  /\ UNCHANGED <<slv_reg8, time, curr_frame_len, table, bch_work_pointer,
                 bch_decide_adj, bch_single_lock, we_bch, fiVars, mo_state,
                 rxVars>>

\* BCH_WORK_ADJ_WAIT, SET_STATUS: one frame later the station moves to the
\* candidate or gives it back, and sends its FI.
Adjust ==
  /\ bch_state = "WORK_ADJ_WAIT"
  /\ slot_pointer = bch_work_pointer
  /\ \/ /\ Usable(View)
        /\ bch_state' = "WORK_FI_SEND_FI_WAIT"
        /\ AskForFi
        /\ IF adj_slot_win
           THEN /\ table' = Written(table, bch_work_pointer, "locked")
                /\ bch_work_pointer' = bch_decide_adj
           ELSE /\ table' = Written(table, bch_decide_adj, "locked")
                /\ UNCHANGED bch_work_pointer
     \/ /\ ~Usable(View)
        /\ bch_state' = "WORK_ADJ_DECIDE_ADJ_BCH_INVALID"
        /\ UNCHANGED <<table, bch_work_pointer, mo_state>>
  /\ UNCHANGED <<slv_reg8, time, curr_frame_len, bch_decide_adj,
                 bch_adj_flag, bch_single_lock, accessible, we_bch, fiVars,
                 rxVars>>

\* BCH_WORK_ADJ_DECIDE_ADJ_BCH_INVALID: whether the candidate can replace the
\* slot that was lost is decided by the entry at the address BCH has set,
\* which is still the one of the lost slot.
AdjustInvalid ==
  /\ bch_state = "WORK_ADJ_DECIDE_ADJ_BCH_INVALID"
  /\ IF Usable(View)
     THEN /\ bch_state' = "WORK_FI_WAIT"
          /\ table' = Written(table, bch_work_pointer, "locked")
          /\ bch_work_pointer' = bch_decide_adj
     ELSE /\ bch_state' = "WAIT_REQ_FCB_PRE"
          /\ UNCHANGED <<table, bch_work_pointer>>
  /\ UNCHANGED <<slv_reg8, time, curr_frame_len, bch_decide_adj,
                 bch_adj_flag, bch_single_lock, accessible, we_bch, fiVars,
                 mo_state, rxVars>>

(***************************************************************************)
(* FI and FCB.                                                              *)
(***************************************************************************)
\* FI_IDLE: the last 30 us before the station's slot have begun.
FiDue ==
  /\ fi_state = "IDLE" /\ fi_initialed
  /\ late
  /\ slot_pointer = Before(bch_work_pointer)

FiStart ==
  /\ FiDue
  /\ fi_state' = "BUILD"
  /\ UNCHANGED <<slv_reg8, time, curr_frame_len, table, bchVars,
                 fi_initialed, adjVars, fcb_candidate, mo_state, rxVars>>

\* An entry after FI_LOOP_1_UNLOCK and _REFRESH: locks last until here, and
\* LIFE counts the frames of somebody else's entry.  At its end the entry of
\* a two-hop neighbour is free, and the one of a neighbour is locked, or goes
\* on as a two-hop entry if other neighbours have confirmed it (EXISTED).
Aged(e, end) == CASE e = "locked" -> "free"
                  [] e = "new" -> "aging"
                  [] e = "aging" -> "old"
                  [] e = "old" -> end
                  [] e = "remote" -> "last"
                  [] e = "last" -> "free"
                  [] OTHER -> e
Ends == {"free", "locked", "remote"}

FreeSlots == {s \in Frame : table[s] \in {"free", "locked"}}

\* curr_bch_state > BCH_WAIT_REQ_FI_INIT_WAIT
Acquired == bch_state \notin {"IDLE", "LIS_FCB", "WAIT_REQ_FI_INIT_WAIT"}
                              \cup Listening

\* No entry of the upper half is busy (frame_cut_flag).
HalfUnused ==
  \A s \in Frame : s >= curr_frame_len \div 2 => s \in FreeSlots

\* FI_ADJ_IS_NEEDED with ehs free slots nobody near the neighbours uses, and
\* the station's own slot used by many three hops away or not (crowded).
NeedsSlotAdj(ehs, crowded) == crowded /\ ehs >= AdjFree[curr_frame_len]
HalfEmpty(ehs) ==
  ehs >= CutFree[curr_frame_len] /\ curr_frame_len > LowerBound
MovesDown(ehs) ==
  HalfEmpty(ehs) /\ bch_work_pointer >= curr_frame_len \div 2
Crammed(ehs) ==
  ehs <= ExpandFree[curr_frame_len] /\ curr_frame_len < UpperBound

DecideAdj(ehs, crowded) ==
  \/ /\ NeedsSlotAdj(ehs, crowded)
     /\ slot_need_adj' = TRUE /\ fcb_strict' = TRUE
     /\ UNCHANGED frame_need_slotadj
  \/ /\ ~NeedsSlotAdj(ehs, crowded) /\ FrameAdj
     /\ slot_need_adj' = FALSE
     /\ frame_need_slotadj' = MovesDown(ehs)
     /\ fcb_strict' = frame_need_slotadj'
  \/ /\ ~NeedsSlotAdj(ehs, crowded) /\ ~FrameAdj
     /\ UNCHANGED <<slot_need_adj, frame_need_slotadj, fcb_strict>>

\* frame_len_exp_bch, frame_len_cut_bch.
AdjustedLen(ehs, crowded) ==
  LET expands == /\ FrameAdj /\ Crammed(ehs)
                 /\ ~NeedsSlotAdj(ehs, crowded)
                 /\ ~MovesDown(ehs)
      halves == FrameAdj /\ HalfUnused /\ HalfEmpty(ehs)
  IN  CASE expands -> 2 * curr_frame_len
        [] ~expands /\ halves -> curr_frame_len \div 2
        [] OTHER -> curr_frame_len

\* FI_ADJ_WINNER: the candidate is still the station's, and is not used more
\* than its slot (which is left open here).
Winner == IF bch_decide_adj \in SlotIdx /\ table[bch_decide_adj] = "mine"
          THEN BOOLEAN ELSE {FALSE}

\* Mutant of WalkEnds: the addresses of FI and FCB have one bit less.
WalkEndsOneBitLess == 2 * curr_frame_len < AddrSpace

\* A walk of FI or FCB ends when its address, of 7 bits, equals the frame
\* length, of 9 bits.
WalkEnds == curr_frame_len < AddrSpace

\* FI_START .. FI_ADJ_FRAME_LEN: one walk writes the FI, ages the table and
\* decides on adjustments.
FiBuild ==
  /\ fi_state = "BUILD"
  /\ WalkEnds
  /\ fi_state' = "BUS"
  /\ is_single' = (\A s \in Frame : table[s] \notin Others)
  /\ \E end \in [{s \in Frame : table[s] = "old"} -> Ends] :
       table' = [s \in SlotIdx |-> IF s \in Frame THEN Aged(table[s], end[s])
                                  ELSE table[s]]
  /\ IF SlotAdj /\ Acquired
     THEN /\ \E ehs \in 0 .. Cardinality(FreeSlots), crowded \in BOOLEAN :
               /\ DecideAdj(ehs, crowded)
               /\ curr_frame_len' = AdjustedLen(ehs, crowded)
          /\ adj_slot_win' \in Winner
     ELSE UNCHANGED <<slot_need_adj, frame_need_slotadj, fcb_strict,
                      adj_slot_win, curr_frame_len>>
  /\ UNCHANGED <<slv_reg8, time, bchVars, fi_initialed, fcb_candidate,
                 mo_state, rxVars>>

\* Entries FCB_RD_LOOP puts into its FIFOs: the one it takes from them is
\* random.
Candidates ==
  {s \in Frame : \/ table[s] = "free"
                 \/ ~fcb_strict /\ table[s] \in {"mine", "clash"}}

\* The FI is copied to the network card's buffer, FCB searches, and FI lets
\* go of the memory: a standing write of BCH gets through again.
FindCandidate ==
  /\ fi_state = "BUS"
  /\ WalkEnds
  /\ fi_state' = "END"
  /\ \/ Candidates = {} /\ fcb_candidate' = NoSlot
     \/ fcb_candidate' \in Candidates
  /\ IF we_bch
     THEN /\ table' = Written(table, bch_work_pointer, "mine")
          /\ overruled' = (overruled \/ View # "mine")
     ELSE UNCHANGED <<table, overruled>>
  /\ UNCHANGED <<slv_reg8, time, curr_frame_len, bchVars, fi_initialed,
                 adjVars, mo_state, rx, events>>

\* FI_END: FI rests until the slot has begun.
FiRests ==
  /\ fi_state = "END"
  /\ \/ slot_pointer = Before(bch_work_pointer)
     \/ bch_state = "WAIT_REQ_FI_INIT_WAIT"

FiRest ==
  /\ fi_state = "END" /\ ~FiRests
  /\ fi_state' = "IDLE"
  /\ UNCHANGED <<slv_reg8, time, curr_frame_len, table, bchVars,
                 fi_initialed, adjVars, fcb_candidate, mo_state, rxVars>>

(***************************************************************************)
(* MO: what is sent.                                                        *)
(***************************************************************************)
tdma_tx_enable == accessible /\ bch_work_pointer = slot_pointer

\* MO_SEND_FI, and send_fi_done seen by BCH.
SendFi ==
  /\ mo_state = "SEND_FI"
  /\ mo_state' = "IDLE"
  /\ \/ /\ bch_state = "WAIT_REQ_FI_SEND_WAIT"
        /\ bch_state' = "WAIT_REQ_FI_SEND_DONE"
        /\ UNCHANGED accessible
     \/ /\ bch_state = "WORK_FI_SEND_FI_WAIT"
        /\ bch_state' = "WORK_ENA_TX"
        /\ accessible' = TRUE
  /\ UNCHANGED <<slv_reg8, time, curr_frame_len, table, bch_work_pointer,
                 bch_decide_adj, bch_adj_flag, bch_single_lock, we_bch,
                 fiVars, rxVars>>

\* Something happens outside.
Event == events < MaxEvents[slv_reg8] /\ events' = events + 1

\* start_ping comes from a pin, at any time.
StartPing ==
  /\ mo_state = "IDLE"
  /\ Event
  /\ mo_state' = "WAIT_TXEN"
  /\ UNCHANGED <<slv_reg8, time, curr_frame_len, table, bchVars, fiVars, rx,
                 overruled>>

\* MO_WAIT_TXEN, SETPKT_*: the ping is sent when data may be sent.
SendPing ==
  /\ mo_state = "WAIT_TXEN"
  /\ tdma_tx_enable
  /\ mo_state' = "IDLE"
  /\ UNCHANGED <<slv_reg8, time, curr_frame_len, table, bchVars, fiVars,
                 rxVars>>

\* BCH waits for something other than the next clock cycle.
BchWaits ==
  CASE bch_state \in Listening -> ListenWaits(bch_state)
    [] bch_state = "WAIT_REQ_FI_INIT_WAIT" -> fi_state # "END"
    [] bch_state \in {"WAIT_REQ_WAIT", "REQ_WAIT", "WORK_FI_WAIT",
                      "WORK_ADJ_WAIT"} -> slot_pointer # bch_work_pointer
    [] bch_state \in {"WAIT_REQ_FI_SEND_WAIT", "WORK_FI_SEND_FI_WAIT"} ->
         mo_state # "SEND_FI"
    [] bch_state \in {"WAIT_REQ_FI_SEND_DONE", "WORK_ENA_TX"} ->
         slot_pointer = bch_work_pointer
    [] OTHER -> FALSE

(***************************************************************************)
(* STU: an FI is received.                                                  *)
(***************************************************************************)
\* What STU_FI_LOOP_2 and _4 make of the table t: entries that others claim
\* (the station's own too, if their priority is higher), own entries with a
\* collision (same priority), and entries the sender no longer uses.  Locked
\* entries are left alone.
Merged(t, taken, clashing, released) ==
  [s \in SlotIdx |-> CASE s \in taken -> "new"
                      [] s \in clashing -> "clash"
                      [] s \in released -> "locked"
                      [] OTHER -> t[s]]

\* What is merged into the requested slot, the standing write of BCH undoes in
\* the next cycle, unless FI has the port.
Undone == IF we_bch /\ PortFree THEN {Addr(bch_work_pointer)} ELSE {}

\* An FI, one in a slot.  It covers the sender's frame, whatever the station's
\* is; a longer one doubles the station's, once (STU_FI_LOOP_3).
Receive ==
  /\ ~rx /\ ~late /\ BchWaits
  /\ rx' = TRUE /\ Event
  /\ \E len \in FrameLens :
       LET Has(E) == {s \in 0 .. len - 1 : table[s] \in E}
       IN  /\ curr_frame_len' = IF FrameAdj /\ len > curr_frame_len
                                THEN 2 * curr_frame_len ELSE curr_frame_len
           /\ \E taken \in SUBSET Has(Entry \ {"locked", "new"}) :
              \E clashing \in SUBSET (Has({"mine"}) \ taken) :
              \E released \in SUBSET (Has(Others) \ taken) :
                /\ Cardinality(taken \cup clashing \cup released)
                     <= MaxChanges[slv_reg8]
                /\ table' = Merged(table, taken \ Undone,
                                   clashing \ Undone, released)
                /\ overruled' = (overruled
                                 \/ Undone \cap (taken \cup clashing) # {})
  /\ UNCHANGED <<slv_reg8, time, bchVars, fiVars, mo_state>>

(***************************************************************************)
(* Time.                                                                    *)
(***************************************************************************)
\* FI waits for time to pass, or walks on for ever.
FiWaits == \/ FiRests
           \/ fi_state = "IDLE" /\ ~FiDue
           \/ fi_state \in {"BUILD", "BUS"} /\ ~WalkEnds

MoWaits == mo_state = "IDLE" \/ (mo_state = "WAIT_TXEN" /\ ~tdma_tx_enable)

\* slot_pulse2_counter passes SLOT_US - 30.
Late ==
  /\ ~late /\ BchWaits /\ MoWaits /\ FiWaits
  /\ late' = TRUE
  /\ UNCHANGED <<slv_reg8, slot_counter, slot_pointer, curr_frame_len, table,
                 bchVars, fiVars, mo_state, rxVars>>

\* slot_counter_1sec counts on: a second is longer than the longest frame, and
\* how much longer makes no difference.
Counted(c) == IF c + 1 = 2 * MaxLen THEN MaxLen ELSE c + 1

\* The next slot of the frame, which the mask of the frame length selects, or
\* slot 0 because a UTC second begins, wherever the frame is.
NextSlot ==
  /\ late /\ BchWaits /\ MoWaits /\ FiWaits
  /\ late' = FALSE /\ rx' = FALSE
  /\ \/ /\ slot_counter' = Counted(slot_counter)
        /\ slot_pointer' = slot_counter' % curr_frame_len
        /\ UNCHANGED events
     \/ /\ \E s \in SecondEnds : slot_counter = MaxLen + s
        /\ Event
        /\ slot_counter' = 0 /\ slot_pointer' = 0
  /\ UNCHANGED <<slv_reg8, curr_frame_len, table, bchVars, fiVars, mo_state,
                 overruled>>

\* FI leaves FI_END in one cycle, before BCH gets from one wait to the next.
Bch ==
  /\ fi_state = "END" => FiRests
  /\ \/ DecideReq \/ Listen \/ LisFcb \/ InitDone
     \/ Request \/ Retry \/ RequestSent \/ Confirm
     \/ Work \/ IfSingle \/ SlotOver \/ Adjust \/ AdjustInvalid

Fi == FiStart \/ FiBuild \/ FindCandidate \/ FiRest

Mo == SendFi \/ SendPing

Next == Bch \/ Fi \/ Mo \/ StartPing \/ Receive \/ Late \/ NextSlot

Spec == Init /\ [][Next]_vars

\* The machines are clocked and time passes; pings and received FIs are not
\* to be counted on.
Fairness ==
  /\ WF_vars(Bch) /\ WF_vars(Fi) /\ WF_vars(Mo)
  /\ WF_vars(Late) /\ WF_vars(NextSlot)

FairSpec == Spec /\ Fairness

(***************************************************************************)
(* Properties.                                                              *)
(***************************************************************************)
BchStates == {"IDLE", "LIS_FCB", "WAIT_REQ_FCB_PRE", "IF_SINGLE",
              "WORK_ADJ_DECIDE_ADJ_BCH_INVALID"} \cup Listening \cup Holding

\* Every register has a value of its width, every slot number is one of the
\* table or 16'hffff, and entries and frame lengths are ones the machines know.
TypeOK ==
  /\ slv_reg8 \in Settings
  /\ slot_counter \in 0 .. 2 * MaxLen - 1 /\ slot_pointer \in SlotIdx
  /\ late \in BOOLEAN
  /\ curr_frame_len \in FrameLens
  /\ table \in [SlotIdx -> Entry]
  /\ bch_state \in BchStates
  /\ bch_work_pointer \in SlotIdx \cup {NoSlot}
  /\ bch_decide_adj \in SlotIdx \cup {NoSlot}
  /\ bch_adj_flag \in BOOLEAN /\ bch_single_lock \in 1 .. SingleLock
  /\ accessible \in BOOLEAN /\ we_bch \in BOOLEAN
  /\ fi_state \in {"IDLE", "BUILD", "BUS", "END"}
  /\ fi_initialed \in BOOLEAN
  /\ slot_need_adj \in BOOLEAN /\ frame_need_slotadj \in BOOLEAN
  /\ adj_slot_win \in BOOLEAN /\ is_single \in BOOLEAN
  /\ fcb_strict \in BOOLEAN
  /\ fcb_candidate \in SlotIdx \cup {NoSlot}
  /\ mo_state \in {"IDLE", "SEND_FI", "WAIT_TXEN"}
  /\ rx \in BOOLEAN /\ events \in Nat /\ overruled \in BOOLEAN

\* With a frame of fixed length, the slot BCH waits for always comes: neither
\* a search that finds nothing (fcb_fail, LIS_FCB and FCB_DONE) nor a move of
\* a lonely station (IF_SINGLE_SET_2, which does not look at fcb_fail) leaves
\* it with 16'hffff.  Not so when lonely stations move and slots are adjusted:
\* a strict search refuses the entries that earlier moves have left behind.
WorkInFrame ==
  ~FrameAdj /\ ~(SlotAdj /\ SingleMoves) /\ bch_state \in Holding
    => bch_work_pointer \in Frame

\* Without slot adjustment, the only entry of the slot memory that names the
\* station is the one of its slot: what it claims is given back on every way
\* out (WAIT_REQ_FCB_START, IF_SINGLE_SET_1), or its FIs would hold the slot
\* for ever, because entries of its own do not age.
Claims == {s \in Frame : table[s] \in {"mine", "clash"}}
ClaimsKnown ==
  ~SlotAdj /\ bch_state \in Holding => Claims \subseteq {Addr(bch_work_pointer)}

\* tdma_tx_enable never goes on in a slot that the slot memory gives to
\* somebody else, whatever has been merged since the slot was requested,
\* moved to or last used.
SendsUncontested ==
  [][~tdma_tx_enable /\ tdma_tx_enable'
       => table[slot_pointer] \notin Others]_vars

\* MO waits for tdma_tx_enable with a ping, and BCH for MO with its FI: they
\* wait for each other for ever.
PingDeadlock ==
  /\ mo_state = "WAIT_TXEN"
  /\ bch_state \in {"WAIT_REQ_FI_SEND_WAIT", "WORK_FI_SEND_FI_WAIT"}

\* When no more FIs arrive, a station with a frame of fixed length sends
\* data again and again: the three machines wait for each other's pulses and
\* for the slot pointer, a pulse is lost when its receiver is busy, and only a
\* ping asked for outside the slot may stop them.
QuietAirWorks == []<>(tdma_tx_enable \/ PingDeadlock \/ FrameAdj)

\* A slot is not requested after somebody else has claimed it: "unusable, we
\* should reset the status of this slot, and re-run the FCB process"
\* (tdma_control.v, BCH_WAIT_REQ_FCB_PRE).  The write enable that
\* WAIT_REQ_FCB_DONE leaves on undoes the claim before BCH reads it.
RequestHeedsClaims ==
  [][bch_state' = "WAIT_REQ_FI_SEND_WAIT" /\ bch_state' # bch_state
       => ~overruled]_vars

(***************************************************************************)
(* The controller implements SlotAccess: BCH listens until it has claimed a *)
(* candidate, and again when it has lost its slot (WAIT_REQ_FCB_PRE); the   *)
(* station is on the air while MO sends an FI and while data may be sent.   *)
(***************************************************************************)
Chosen == {"WAIT_REQ_FI_INIT_WAIT", "WAIT_REQ_WAIT"}
Requested == {"WAIT_REQ_FI_SEND_WAIT", "WAIT_REQ_FI_SEND_DONE", "REQ_WAIT"}
Phase == CASE bch_state \in Chosen -> "chosen"
           [] bch_state \in Requested -> "requested"
           [] bch_state \in BchStates \ (Listening \cup Chosen \cup Requested
                             \cup {"IDLE", "LIS_FCB", "WAIT_REQ_FCB_PRE"})
                -> "working"
           [] OTHER -> "listening"

Access == INSTANCE SlotAccess WITH
            Slots <- SlotIdx,
            phase <- Phase,
            slot <- IF Phase = "listening" THEN NoSlot ELSE bch_work_pointer,
            on_air <- mo_state = "SEND_FI" \/ tdma_tx_enable

\* Whatever the machines' interleaving, what the station does in its slots is
\* what SlotAccess allows: nothing is sent in a slot that is only chosen, no
\* path through the collision, adjustment and lonely-station states of BCH
\* reaches work without a request in that slot, and no slot is given up while
\* bch_accessible_flag is on.
ImplementsAccess == Access!Spec
=============================================================================
