------------------------- MODULE TdmaControlProofs -------------------------
(***************************************************************************)
(* What TdmaControl promises, for frames, thresholds and settings of every *)
(* size.  The invariant Known has one part for each resource that the      *)
(* machines share: the time of a slot, the air, the station's claims, slot *)
(* numbers, and the candidate a lonely station moves to.                   *)
(***************************************************************************)
EXTENDS TdmaControl, TLAPS

-----------------------------------------------------------------------------
(***************************************************************************)
(* Time.  The last 30 us of a slot belong to FI.  Nothing else starts then, *)
(* and the frame is halved at no other time: the pointer of a slot that has *)
(* begun is one of the frame, and so is the one after it (DecideReq).       *)
(***************************************************************************)
Walking == fi_state \in {"BUILD", "BUS"}

PointerInFrame == ~late => slot_pointer < curr_frame_len
LateBchWaits == late => BchWaits

\* Before those 30 us FI only walks for a station that has no slot yet.
WalksBeforeSlot == Walking /\ WalkEnds /\ ~late => ~Acquired

\* The init_fi pulse is not lost, and BCH is not woken by FI_END late.
FirstWalk ==
  bch_state = "WAIT_REQ_FI_INIT_WAIT" =>
    /\ fi_state # "IDLE"
    /\ late => Walking /\ ~WalkEnds

TimeInv == PointerInFrame /\ LateBchWaits /\ WalksBeforeSlot /\ FirstWalk

(***************************************************************************)
(* The air.  From the test of the slot to bch_accessible_flag nobody else   *)
(* can get the entry.                                                       *)
(***************************************************************************)
AirInv ==
  /\ mo_state = "SEND_FI" =>
       bch_state \in {"WAIT_REQ_FI_SEND_WAIT", "WORK_FI_SEND_FI_WAIT"}
  /\ bch_state = "IF_SINGLE" =>
       bch_work_pointer = slot_pointer /\ table[slot_pointer] \notin Others
  /\ /\ mo_state = "SEND_FI" /\ bch_state = "WORK_FI_SEND_FI_WAIT"
     /\ bch_work_pointer = slot_pointer
     => table[slot_pointer] \notin Others
  /\ accessible => bch_state = "WORK_ENA_TX"

(***************************************************************************)
(* Claims.  Without slot adjustment the station has one claim from LIS_FCB  *)
(* on, none before, and the write that is left on renews no other.          *)
(***************************************************************************)
Own == {s \in SlotIdx : table[s] \in {"mine", "clash"}}
Adjusting == {"WORK_ADJ_WAIT", "WORK_ADJ_DECIDE_ADJ_BCH_INVALID"}

ClaimInv ==
  ~SlotAdj =>
    /\ ~slot_need_adj /\ ~frame_need_slotadj /\ ~bch_adj_flag /\ ~fcb_strict
    /\ bch_state \notin Adjusting
    /\ bch_state \in Holding \cup {"WAIT_REQ_FCB_PRE"}
         => Own \subseteq {Addr(bch_work_pointer)}
    /\ bch_state \in Listening \cup {"IDLE", "LIS_FCB"} => Own = {}
    /\ we_bch => bch_state \in {"WAIT_REQ_WAIT", "WAIT_REQ_FI_SEND_WAIT",
                                "WAIT_REQ_FI_SEND_DONE", "WAIT_REQ_FCB_PRE"}

(***************************************************************************)
(* Slot numbers, unless lonely stations move and something else is enabled  *)
(* too.                                                                     *)
(***************************************************************************)
Separate == SingleMoves => slv_reg8 = {"randon_bch_if_single"}
Reach == IF FrameAdj THEN SlotIdx ELSE 0 .. FrameLen - 1

FixedLen == ~FrameAdj => curr_frame_len = FrameLen

SlotsInReach ==
  Separate =>
    /\ fcb_candidate \in Reach \cup {NoSlot}
    /\ bch_adj_flag \/ bch_state \in Adjusting => bch_decide_adj \in Reach
    /\ bch_state \in Holding \cup Adjusting => bch_work_pointer \in Reach

(***************************************************************************)
(* A lonely station.  IF_SINGLE_SET_2 moves to fcb_bch_candidate when       *)
(* is_single is on and does not ask whether there is a candidate.  The two  *)
(* come from one walk, but an FI may be received between them (NoRefuge):   *)
(* then is_single is on and no slot was free.  That walk was one for        *)
(* init_fi, so the slot must still be requested and confirmed, and before   *)
(* one of the two FI walks again, because a UTC second is too long to keep  *)
(* it from doing so twice.                                                  *)
(***************************************************************************)
LonelyOnly == slv_reg8 = {"randon_bch_if_single"}
NoRefuge == is_single /\ fcb_candidate = NoSlot

\* The fixed frame is one whose walks end, once FI has ended one.
LonelyFi ==
  /\ fi_state # "IDLE" => fi_initialed
  /\ Acquired \/ bch_state = "WAIT_REQ_FI_INIT_WAIT" => fi_initialed
  /\ fi_state \in {"BUS", "END"} \/ Acquired => WalkEnds

\* Since FI_START has seen nobody, one FI at most has been received.
Empties == {"free", "mine", "clash"}
LonelyWalk ==
  fi_state = "BUS" /\ is_single =>
    \A s \in Frame : \/ table[s] \in Empties
                     \/ table[s] = "new" /\ rx /\ ~late

LonelyCount == slot_pointer = slot_counter % curr_frame_len

\* That FI took the station's own slot too.
NoRefugeInit ==
  bch_state = "WAIT_REQ_FI_INIT_WAIT" /\ fi_state = "END" =>
    rx /\ View \in Others

\* The slot is requested without a new walk only when a second has just begun.
NoRefugeChosen ==
  bch_state = "WAIT_REQ_WAIT" =>
    /\ slot_pointer = bch_work_pointer /\ ~late /\ Usable(View) =>
         slot_counter = bch_work_pointer /\ bch_work_pointer <= 1
    /\ fi_state = "END" /\ slot_pointer = Before(bch_work_pointer) =>
         \/ rx /\ View \in Others
         \/ slot_counter = 0 /\ bch_work_pointer = 1

\* Its first frame is not over, and at its end FI is free to walk.
NoRefugeRequested ==
  bch_state \in Requested =>
    /\ bch_work_pointer <= 1
    /\ slot_counter \in bch_work_pointer
                          .. bch_work_pointer + curr_frame_len - 1
    /\ bch_state = "REQ_WAIT" => slot_counter # bch_work_pointer
    /\ slot_counter = bch_work_pointer + curr_frame_len - 1 =>
         fi_state # "END"

NoRefugeWorking ==
  bch_state \notin {"WORK_FI_WAIT", "IF_SINGLE", "WORK_FI_SEND_FI_WAIT",
                    "WORK_ENA_TX"}

LonelyInv ==
  LonelyOnly =>
    /\ LonelyFi /\ LonelyWalk /\ LonelyCount
    /\ NoRefuge /\ fi_state # "BUS" =>
         /\ NoRefugeInit /\ NoRefugeChosen
         /\ NoRefugeRequested /\ NoRefugeWorking

Known == /\ TypeOK /\ TimeInv /\ AirInv /\ ClaimInv
         /\ FixedLen /\ SlotsInReach /\ LonelyInv

-----------------------------------------------------------------------------
(***************************************************************************)
(* The slot counter and the slot memory.                                    *)
(***************************************************************************)
\* What a division leaves.
LEMMA Divided ==
  ASSUME NEW c \in Nat, NEW l \in Nat \ {0}
  PROVE  /\ c \div l \in Nat /\ c % l \in 0 .. l - 1
         /\ c = l * (c \div l) + (c % l)
OBVIOUS

\* It is determined by the multiple below.
LEMMA Remainder ==
  ASSUME NEW l \in Nat \ {0}, NEW q \in Nat, NEW r \in 0 .. l - 1
  PROVE  (l * q + r) % l = r
OBVIOUS

\* In its first frame the slot counter is the slot pointer.
LEMMA ModuloSmall ==
  ASSUME NEW l \in Nat \ {0}
  PROVE  /\ \A c \in 0 .. l - 1 : c % l = c
         /\ l % l = 0
OBVIOUS

\* The mask of the frame length makes the slot pointer go round.
LEMMA ModuloSucc ==
  ASSUME NEW c \in Nat, NEW l \in Nat \ {0}
  PROVE  (c + 1) % l = IF (c % l) + 1 = l THEN 0 ELSE (c % l) + 1
<1> DEFINE q == c \div l
           r == c % l
<1>1. q \in Nat /\ r \in 0 .. l - 1 /\ c = l * q + r
  BY Divided
<1> HIDE DEF q, r
<1>2. CASE r + 1 = l
  <2>1. c + 1 = l * (q + 1) + 0
    BY <1>1, <1>2
  <2>2. (l * (q + 1) + 0) % l = 0
    BY <1>1, Remainder
  <2> QED
    BY <1>2, <2>1, <2>2 DEF r
<1>3. CASE r + 1 # l
  <2>1. r + 1 \in 0 .. l - 1 /\ c + 1 = l * q + (r + 1)
    BY <1>1, <1>3
  <2>2. (l * q + (r + 1)) % l = r + 1
    BY <1>1, <2>1, Remainder
  <2> QED
    BY <1>3, <2>1, <2>2 DEF r
<1> QED
  BY <1>2, <1>3

\* Two longest frames are a whole number of frames.
LEMMA ModuloTwice ==
  ASSUME NEW m \in Nat, NEW l \in Nat \ {0}, m % l = 0
  PROVE  (2 * m) % l = 0
<1> DEFINE q == m \div l
<1>1. q \in Nat /\ m = l * q
  BY Divided
<1> HIDE DEF q
<1>2. 2 * m = l * (2 * q) + 0 /\ 2 * q \in Nat
  BY <1>1
<1>3. (l * (2 * q) + 0) % l = 0
  BY <1>2, Remainder
<1> QED
  BY <1>2, <1>3

\* Ageing gives no entry to anybody, and leaves no locks behind.
LEMMA AgedEntry ==
  ASSUME NEW e \in Entry, NEW end, e = "old" => end \in Ends
  PROVE  /\ Aged(e, end) \in Entry
         /\ Aged(e, end) \in Others => e \in Others
         /\ Aged(e, end) \in {"mine", "clash"} <=> e \in {"mine", "clash"}
         /\ e \notin Others => Aged(e, end) \in Empties
BY DEF Aged, Ends, Entry, Others, Empties

\* So does the walk of FI through the table.
LEMMA AgedTable ==
  ASSUME TypeOK, FiBuild
  PROVE  /\ table' \in [SlotIdx -> Entry]
         /\ \A s \in SlotIdx :
              /\ table'[s] \in Others => table[s] \in Others
              /\ table'[s] \in {"mine", "clash"} <=>
                   table[s] \in {"mine", "clash"}
              /\ s \in Frame /\ table[s] \notin Others =>
                   table'[s] \in Empties
<1>1. PICK end \in [{s \in Frame : table[s] = "old"} -> Ends] :
        table' = [s \in SlotIdx |-> IF s \in Frame THEN Aged(table[s], end[s])
                                   ELSE table[s]]
  BY DEF FiBuild
<1>2. table \in [SlotIdx -> Entry]
  BY DEF TypeOK
<1>3. \A s \in SlotIdx : s \in Frame /\ table[s] = "old" => end[s] \in Ends
  BY <1>1
<1>4. \A s \in SlotIdx : s \in Frame =>
        /\ Aged(table[s], end[s]) \in Entry
        /\ Aged(table[s], end[s]) \in Others => table[s] \in Others
        /\ Aged(table[s], end[s]) \in {"mine", "clash"} <=>
             table[s] \in {"mine", "clash"}
        /\ table[s] \notin Others => Aged(table[s], end[s]) \in Empties
  BY <1>2, <1>3, AgedEntry
<1>5. table' \in [SlotIdx -> Entry]
  BY <1>1, <1>2, <1>4
<1> QED
  BY <1>1, <1>2, <1>4, <1>5

-----------------------------------------------------------------------------
(***************************************************************************)
(* Types and time.                                                         *)
(***************************************************************************)
\* BCH only moves when it is not waiting, and leaves time, the frame and what
\* FI has found alone.
LEMMA BchRuns ==
  ASSUME TypeOK, Bch
  PROVE  /\ ~BchWaits
         /\ UNCHANGED <<slv_reg8, time, curr_frame_len, fcb_candidate,
              adjVars, rx, events>>
<1> USE DEF BchWaits, Listening
<1>1. CASE DecideReq
  BY <1>1 DEF DecideReq, rxVars
<1>2. CASE Listen
  BY <1>2 DEF Listen, fiVars, rxVars
<1>3. CASE LisFcb
  BY <1>3 DEF LisFcb, rxVars
<1>4. CASE InitDone
  BY <1>4 DEF InitDone, fiVars, rxVars
<1>5. CASE Request
  BY <1>5 DEF Request, fiVars, rxVars
<1>6. CASE Retry
  BY <1>6 DEF Retry, fiVars, rxVars
<1>7. CASE RequestSent
  BY <1>7 DEF RequestSent, fiVars, rxVars
<1>8. CASE Confirm
  BY <1>8 DEF Confirm, fiVars, rxVars
<1>9. CASE Work
  BY <1>9 DEF Work, fiVars, rxVars
<1>10. CASE IfSingle
  BY <1>10 DEF IfSingle, fiVars, rxVars
<1>11. CASE SlotOver
  BY <1>11 DEF SlotOver, fiVars, rxVars
<1>12. CASE Adjust
  BY <1>12 DEF Adjust, fiVars, rxVars
<1>13. CASE AdjustInvalid
  BY <1>13 DEF AdjustInvalid, fiVars, rxVars
<1> QED
  BY <1>1, <1>2, <1>3, <1>4, <1>5, <1>6, <1>7, <1>8, <1>9, <1>10, <1>11,
     <1>12, <1>13 DEF Bch

\* Every register keeps its width.
LEMMA TypeStep ==
  ASSUME TypeOK, TimeInv, [Next]_vars
  PROVE  TypeOK'
<1> USE FrameAssumption DEF TypeOK, SlotIdx, NoSlot, Entry, Others,
     BchStates, Listening, Holding, adjVars, bchVars, time, fiVars, rxVars,
     Frame
<1>1. CASE DecideReq
  <2>1. fi_initialed' \in BOOLEAN
    BY <1>1 DEF DecideReq, InitFi
  <2>2. ~late
    BY <1>1 DEF DecideReq, TimeInv, LateBchWaits, BchWaits
  <2>3. bch_work_pointer' \in SlotIdx
    BY <1>1, <2>2 DEF DecideReq, TimeInv, PointerInFrame, After
  <2> QED
    BY <1>1, <2>1, <2>3 DEF DecideReq, InitFi
<1>2. CASE Listen
  BY <1>2 DEF Listen, AfterListening
<1>3. CASE LisFcb
  <2>1. fi_initialed' \in BOOLEAN
    BY <1>3 DEF LisFcb, InitFi
  <2> QED
    BY <1>3, <2>1 DEF LisFcb, InitFi, Written
<1>4. CASE InitDone
  BY <1>4 DEF InitDone
<1>5. CASE Request
  BY <1>5 DEF Request, AskForFi
<1>6. CASE Retry
  <2>1. we_bch' \in BOOLEAN /\ overruled' \in BOOLEAN
    BY <1>6 DEF Retry
  <2> QED
    BY <1>6, <2>1 DEF Retry, Written
<1>7. CASE RequestSent
  <2>1. we_bch' \in BOOLEAN
    BY <1>7 DEF RequestSent
  <2> QED
    BY <1>7, <2>1 DEF RequestSent
<1>8. CASE Confirm
  BY <1>8 DEF Confirm
<1>9. CASE Work
  <2>1. bch_adj_flag' \in BOOLEAN
    BY <1>9 DEF Work
  <2> QED
    BY <1>9, <2>1 DEF Work, Written
<1>10. CASE IfSingle
  BY <1>10 DEF IfSingle, Written, AskForFi
<1>11. CASE SlotOver
  <2>1. accessible' \in BOOLEAN /\ bch_adj_flag' \in BOOLEAN
    BY <1>11 DEF SlotOver
  <2> QED
    BY <1>11, <2>1 DEF SlotOver
<1>12. CASE Adjust
  BY <1>12 DEF Adjust, Written, AskForFi
<1>13. CASE AdjustInvalid
  BY <1>13 DEF AdjustInvalid, Written
<1>14. CASE FiStart
  BY <1>14 DEF FiStart, FiDue
<1>15. CASE FiBuild
  <2>1. is_single' \in BOOLEAN
    BY <1>15 DEF FiBuild
  <2>2. table' \in [SlotIdx -> Entry]
    BY <1>15, AgedTable
  <2>3. curr_frame_len' \in FrameLens
    BY <1>15 DEF FiBuild, AdjustedLen, Crammed, HalfEmpty
  <2>4. /\ slot_need_adj' \in BOOLEAN /\ frame_need_slotadj' \in BOOLEAN
        /\ fcb_strict' \in BOOLEAN
    BY <1>15 DEF FiBuild, DecideAdj, MovesDown
  <2>5. adj_slot_win' \in BOOLEAN
    BY <1>15 DEF FiBuild, Winner
  <2> QED
    BY <1>15, <2>1, <2>2, <2>3, <2>4, <2>5 DEF FiBuild
<1>16. CASE FindCandidate
  BY <1>16 DEF FindCandidate, Candidates, Written
<1>17. CASE FiRest
  BY <1>17 DEF FiRest, FiRests
<1>18. CASE SendFi
  <2>1. accessible' \in BOOLEAN
    BY <1>18 DEF SendFi
  <2> QED
    BY <1>18, <2>1 DEF SendFi
<1>19. CASE SendPing
  BY <1>19 DEF SendPing
<1>20. CASE StartPing
  BY <1>20 DEF StartPing, Event
<1>21. CASE Receive
  <2>1. rx' \in BOOLEAN /\ overruled' \in BOOLEAN /\ events' \in Nat
    BY <1>21 DEF Receive, Event
  <2>2. curr_frame_len' \in FrameLens
    BY <1>21 DEF Receive
  <2>3. table' \in [SlotIdx -> Entry]
    BY <1>21 DEF Receive, Merged
  <2>4. UNCHANGED <<slv_reg8, time, bchVars, fiVars, mo_state>>
    BY <1>21 DEF Receive
  <2> QED
    BY <2>1, <2>2, <2>3, <2>4
<1>22. CASE Late
  BY <1>22 DEF Late
<1>23. CASE NextSlot
  <2>1. slot_counter' \in 0 .. 2 * MaxLen - 1 /\ events' \in Nat
    BY <1>23 DEF NextSlot, Counted, Event
  <2>2. slot_pointer' \in SlotIdx
    <3>1. slot_counter' \in Nat /\ curr_frame_len \in Nat \ {0}
      BY <2>1
    <3>2. slot_counter' % curr_frame_len \in 0 .. curr_frame_len - 1
      BY <3>1, Divided
    <3> QED
      BY <1>23, <3>2 DEF NextSlot
  <2>3. late' \in BOOLEAN /\ rx' \in BOOLEAN
    BY <1>23 DEF NextSlot
  <2> QED
    BY <1>23, <2>1, <2>2, <2>3 DEF NextSlot
<1>24. CASE UNCHANGED vars
  BY <1>24 DEF vars
<1> QED
  BY <1>1, <1>2, <1>3, <1>4, <1>5, <1>6, <1>7, <1>8, <1>9, <1>10, <1>11,
       <1>12, <1>13, <1>14, <1>15, <1>16, <1>17, <1>18, <1>19, <1>20, <1>21,
       <1>22, <1>23, <1>24 DEF Next, Bch, Fi, Mo

\* BCH, MO and STU do nothing in the last 30 us that would wake BCH.
LEMMA TimeStep ==
  ASSUME TypeOK, TypeOK', TimeInv, [Next]_vars
  PROVE  TimeInv'
<1> USE DEF TimeInv, Walking
<1>1. CASE Bch
  <2>1. /\ ~late
        /\ UNCHANGED <<late, slot_pointer, curr_frame_len>>
    BY <1>1, BchRuns DEF LateBchWaits, time
  <2>2. PointerInFrame' /\ LateBchWaits'
    BY <2>1 DEF PointerInFrame, LateBchWaits
  <2>3. WalksBeforeSlot' /\ FirstWalk'
    <3> USE DEF WalksBeforeSlot, FirstWalk, WalkEnds, Acquired, Listening
    <3>1. CASE DecideReq
      BY <2>1, <3>1 DEF DecideReq, InitFi
    <3>2. CASE Listen
      BY <2>1, <3>2 DEF Listen, AfterListening, fiVars
    <3>3. CASE LisFcb
      BY <2>1, <3>3 DEF LisFcb, InitFi
    <3>4. CASE InitDone
      BY <2>1, <3>4 DEF InitDone, fiVars
    <3>5. CASE Request \/ Retry \/ RequestSent \/ Confirm
      BY <2>1, <3>5 DEF Request, Retry, RequestSent, Confirm, fiVars
    <3>6. CASE Work \/ IfSingle \/ SlotOver \/ Adjust \/ AdjustInvalid
      BY <2>1, <3>6 DEF Work, IfSingle, SlotOver, Adjust, AdjustInvalid,
           fiVars
    <3> QED
      BY <1>1, <3>1, <3>2, <3>3, <3>4, <3>5, <3>6 DEF Bch
  <2> QED
    BY <2>2, <2>3
<1>2. CASE FiStart
  <2>1. late /\ late' = late
    BY <1>2 DEF FiStart, FiDue, time
  <2>2. BchWaits'
    BY <1>2, <2>1 DEF FiStart, FiDue, time, bchVars, LateBchWaits, BchWaits,
         ListenWaits, After, Listening
  <2> QED
    BY <1>2, <2>1, <2>2 DEF FiStart, FiDue, time, bchVars, PointerInFrame,
         LateBchWaits, WalksBeforeSlot, FirstWalk
<1>3. CASE FiBuild
  <2>1. /\ fi_state = "BUILD" /\ WalkEnds /\ fi_state' = "BUS"
        /\ UNCHANGED <<time, bchVars, mo_state>>
    BY <1>3 DEF FiBuild
  <2>2. ~Acquired => curr_frame_len' = curr_frame_len
    BY <1>3 DEF FiBuild
  <2>3. late => bch_state # "WAIT_REQ_FI_INIT_WAIT"
    BY <2>1 DEF FirstWalk
  <2>4. ~late => ~Acquired
    BY <2>1 DEF WalksBeforeSlot
  <2>5. LateBchWaits'
    BY <2>1, <2>2, <2>3 DEF LateBchWaits, BchWaits, ListenWaits, After,
         Listening, Acquired, time, bchVars
  <2> QED
    BY <2>1, <2>2, <2>3, <2>4, <2>5 DEF PointerInFrame, WalksBeforeSlot,
         FirstWalk, WalkEnds, Acquired, time, bchVars
<1>4. CASE FindCandidate
  <2>1. /\ fi_state = "BUS" /\ WalkEnds /\ fi_state' = "END"
        /\ UNCHANGED <<time, curr_frame_len, bchVars, mo_state>>
    BY <1>4 DEF FindCandidate
  <2>2. late => bch_state # "WAIT_REQ_FI_INIT_WAIT"
    BY <2>1 DEF FirstWalk
  <2>3. LateBchWaits'
    BY <2>1, <2>2 DEF LateBchWaits, BchWaits, ListenWaits, After, Listening,
         time, bchVars
  <2> QED
    BY <2>1, <2>2, <2>3 DEF PointerInFrame, WalksBeforeSlot, FirstWalk, time,
         bchVars
<1>5. CASE FiRest
  <2>1. /\ fi_state = "END" /\ fi_state' = "IDLE"
        /\ bch_state # "WAIT_REQ_FI_INIT_WAIT"
        /\ UNCHANGED <<time, curr_frame_len, bchVars, mo_state>>
    BY <1>5 DEF FiRest, FiRests
  <2>2. LateBchWaits'
    BY <2>1 DEF LateBchWaits, BchWaits, ListenWaits, After, Listening, time,
         bchVars
  <2> QED
    BY <2>1, <2>2 DEF PointerInFrame, WalksBeforeSlot, FirstWalk, time,
         bchVars
<1>6. CASE SendFi
  <2>1. ~late /\ late' = late
    BY <1>6 DEF SendFi, LateBchWaits, BchWaits, Listening, time
  <2> QED
    BY <1>6, <2>1 DEF SendFi, time, fiVars, PointerInFrame, LateBchWaits,
         WalksBeforeSlot, FirstWalk, WalkEnds, Acquired, Listening
<1>7. CASE SendPing \/ StartPing
  <2>1. /\ mo_state # "SEND_FI" /\ mo_state' # "SEND_FI"
        /\ UNCHANGED <<time, curr_frame_len, bchVars, fi_state>>
    BY <1>7 DEF SendPing, StartPing, fiVars
  <2>2. LateBchWaits'
    BY <2>1 DEF LateBchWaits, BchWaits, ListenWaits, After, Listening, time,
         bchVars
  <2> QED
    BY <2>1, <2>2 DEF PointerInFrame, WalksBeforeSlot, FirstWalk, WalkEnds,
         Acquired, time, bchVars
<1>8. CASE Receive
  <2>1. /\ ~late /\ curr_frame_len <= curr_frame_len'
        /\ UNCHANGED <<time, bchVars, fi_state, mo_state>>
    BY <1>8, FrameAssumption DEF Receive, fiVars, TypeOK
  <2> QED
    BY <2>1, FrameAssumption DEF PointerInFrame, LateBchWaits,
         WalksBeforeSlot, FirstWalk,
         WalkEnds, Acquired, time, bchVars, TypeOK, SlotIdx
<1>9. CASE Late
  <2>1. /\ late' /\ BchWaits /\ FiWaits
        /\ UNCHANGED <<slot_pointer, curr_frame_len, bchVars, fiVars,
             mo_state>>
    BY <1>9 DEF Late
  <2>2. BchWaits'
    BY <2>1 DEF BchWaits, ListenWaits, After, Listening, bchVars, fiVars
  <2>3. FirstWalk'
    BY <2>1 DEF FirstWalk, FiWaits, FiRests, FiDue, BchWaits, Listening,
         WalkEnds, bchVars, fiVars, TypeOK
  <2> QED
    BY <2>1, <2>2, <2>3 DEF PointerInFrame, LateBchWaits, WalksBeforeSlot
<1>10. CASE NextSlot
  <2>1. /\ ~late' /\ FiWaits
        /\ UNCHANGED <<curr_frame_len, bchVars, fiVars>>
    BY <1>10 DEF NextSlot
  <2>2. slot_pointer' < curr_frame_len
    <3>1. slot_counter' \in Nat /\ curr_frame_len \in Nat \ {0}
      BY FrameAssumption DEF TypeOK
    <3>2. slot_counter' % curr_frame_len \in 0 .. curr_frame_len - 1
      BY <3>1, Divided
    <3> QED
      BY <1>10, <3>1, <3>2 DEF NextSlot
  <2>3. Walking => ~WalkEnds
    BY <2>1 DEF FiWaits, FiRests
  <2> QED
    BY <2>1, <2>2, <2>3 DEF PointerInFrame, LateBchWaits, WalksBeforeSlot,
         FirstWalk, WalkEnds, bchVars, fiVars
<1>11. CASE UNCHANGED vars
  BY <1>11 DEF vars, time, bchVars, fiVars, PointerInFrame, LateBchWaits,
       WalksBeforeSlot, FirstWalk, BchWaits, ListenWaits, After, Listening,
       WalkEnds, Acquired
<1> QED
  BY <1>1, <1>2, <1>3, <1>4, <1>5, <1>6, <1>7, <1>8, <1>9, <1>10, <1>11
  DEF Next, Fi, Mo

-----------------------------------------------------------------------------
(***************************************************************************)
(* The air and the claims.                                                 *)
(***************************************************************************)
\* The address of a slot of the table is its number.
LEMMA AddrOfSlot == \A s \in SlotIdx : Addr(s) = s
  BY FrameAssumption DEF Addr, SlotIdx, NoSlot

\* No FI is received between the test of the slot and the end of sending.
LEMMA AirStep ==
  ASSUME TypeOK, TypeOK', TimeInv, AirInv, [Next]_vars
  PROVE  AirInv'
<1> USE DEF AirInv
<1>1. CASE Bch
  <2>1. /\ ~BchWaits
        /\ slot_pointer' = slot_pointer
    BY <1>1, BchRuns DEF time
  <2>3. CASE DecideReq \/ Listen \/ LisFcb \/ InitDone
    BY <2>1, <2>3 DEF DecideReq, Listen, LisFcb, InitDone, AfterListening,
         Listening
  <2>4. CASE Request \/ Retry \/ RequestSent \/ Confirm
    BY <2>1, <2>4 DEF Request, Retry, RequestSent, Confirm, AskForFi
  <2>5. CASE Work
    <3>1. slot_pointer = bch_work_pointer /\ slot_pointer \in SlotIdx
      BY <2>5 DEF Work, TypeOK
    <3>2. View = table[slot_pointer]
      BY <3>1, AddrOfSlot DEF View
    <3> QED
      BY <2>1, <2>5, <3>1, <3>2 DEF Work, Usable, Others, Written, TypeOK
  <2>6. CASE IfSingle
    BY <2>1, <2>6, FrameAssumption DEF IfSingle, AskForFi, Others, Written,
         TypeOK, SlotIdx, NoSlot
  <2>7. CASE SlotOver
    BY <2>1, <2>7 DEF SlotOver
  <2>8. CASE Adjust
    <3>1. slot_pointer = bch_work_pointer /\ slot_pointer \in SlotIdx
      BY <2>8 DEF Adjust, TypeOK
    <3>2. View = table[slot_pointer]
      BY <3>1, AddrOfSlot DEF View
    <3> QED
      BY <2>1, <2>8, <3>1, <3>2 DEF Adjust, Usable, AskForFi, Others, Written,
           TypeOK, SlotIdx
  <2>9. CASE AdjustInvalid
    BY <2>1, <2>9 DEF AdjustInvalid
  <2> QED
    BY <1>1, <2>3, <2>4, <2>5, <2>6, <2>7, <2>8, <2>9 DEF Bch
<1>2. CASE FiStart \/ FiRest
  BY <1>2 DEF FiStart, FiRest, time, bchVars
<1>3. CASE FiBuild
  <2>1. UNCHANGED <<time, bchVars, mo_state>>
    BY <1>3 DEF FiBuild
  <2>2. table[slot_pointer] \notin Others => table'[slot_pointer] \notin Others
    BY <1>3, <2>1, AgedTable DEF TypeOK, bchVars
  <2> QED
    BY <2>1, <2>2 DEF time, bchVars
<1>4. CASE FindCandidate
  BY <1>4 DEF FindCandidate, Written, time, bchVars, TypeOK, Others, SlotIdx
<1>5. CASE SendFi
  BY <1>5 DEF SendFi, time
<1>6. CASE SendPing \/ StartPing
  BY <1>6 DEF SendPing, StartPing, time, bchVars
<1>7. CASE Receive
  <2>1. /\ BchWaits
        /\ UNCHANGED <<time, bchVars, mo_state>>
    BY <1>7 DEF Receive
  <2> QED
    BY <2>1 DEF BchWaits, Listening, time, bchVars
<1>8. CASE Late
  BY <1>8 DEF Late, bchVars
<1>9. CASE NextSlot
  <2>1. /\ BchWaits
        /\ UNCHANGED <<bchVars, table, mo_state>>
    BY <1>9 DEF NextSlot
  <2> QED
    BY <2>1 DEF BchWaits, Listening, bchVars
<1>10. CASE UNCHANGED vars
  BY <1>10 DEF vars, time, bchVars
<1> QED
  BY <1>1, <1>2, <1>3, <1>4, <1>5, <1>6, <1>7, <1>8, <1>9, <1>10
  DEF Next, Fi, Mo

\* So tdma_tx_enable goes on in a slot that is nobody else's.
LEMMA SendStep ==
  ASSUME TypeOK, TypeOK', TimeInv, AirInv, [Next]_vars,
         ~tdma_tx_enable, tdma_tx_enable'
  PROVE  table[slot_pointer] \notin Others
<1> USE DEF tdma_tx_enable
<1>1. CASE Bch
  <2>1. /\ ~BchWaits
        /\ slot_pointer' = slot_pointer
    BY <1>1, BchRuns DEF time
  <2>2. ~accessible' \/ bch_state = "WORK_ENA_TX"
    BY <1>1 DEF Bch, DecideReq, Listen, LisFcb, InitDone, Request, Retry,
         RequestSent, Confirm, Work, IfSingle, SlotOver, Adjust,
         AdjustInvalid, AirInv
  <2>3. CASE SlotOver
    BY <2>3 DEF SlotOver
  <2> QED
    BY <1>1, <2>2, <2>3 DEF Bch, DecideReq, Listen, LisFcb, InitDone,
         Request, Retry, RequestSent, Confirm, Work, IfSingle, Adjust,
         AdjustInvalid, Listening
<1>2. CASE Fi \/ SendPing \/ StartPing \/ Receive \/ Late \/ UNCHANGED vars
  BY <1>2 DEF Fi, FiStart, FiBuild, FindCandidate, FiRest, SendPing,
       StartPing, Receive, Late, vars, time, bchVars
<1>3. CASE SendFi
  BY <1>3 DEF SendFi, AirInv, time
<1>4. CASE NextSlot
  BY <1>4 DEF NextSlot, AirInv, BchWaits, Listening, bchVars
<1> QED
  BY <1>1, <1>2, <1>3, <1>4 DEF Next, Mo

\* Every way out of a slot gives the claim back.
LEMMA ClaimStep ==
  ASSUME TypeOK, TypeOK', TimeInv, ClaimInv, [Next]_vars, ~SlotAdj
  PROVE  ClaimInv'
<1> USE DEF ClaimInv, Own
<1>1. CASE Bch
  <2>1. UNCHANGED <<slv_reg8, fcb_candidate, adjVars>>
    BY <1>1, BchRuns
  <2> USE <2>1 DEF adjVars, SlotAdj, Holding, Listening, Adjusting
  <2>2. CASE DecideReq
    BY <2>2 DEF DecideReq
  <2>3. CASE Listen
    BY <2>3 DEF Listen, AfterListening
  <2>4. CASE LisFcb
    BY <2>4 DEF LisFcb, Written, TypeOK
  <2>5. CASE InitDone \/ Request
    BY <2>5 DEF InitDone, Request
  <2>6. CASE Retry
    BY <2>6 DEF Retry, Written, View, TypeOK
  <2>7. CASE RequestSent \/ Confirm
    BY <2>7 DEF RequestSent, Confirm
  <2>8. CASE Work
    BY <2>8 DEF Work
  <2>9. CASE IfSingle
    BY <2>9 DEF IfSingle, Written, TypeOK
  <2>10. CASE SlotOver
    BY <2>10 DEF SlotOver
  <2>11. CASE Adjust \/ AdjustInvalid
    BY <2>11 DEF Adjust, AdjustInvalid
  <2> QED
    BY <1>1, <2>2, <2>3, <2>4, <2>5, <2>6, <2>7, <2>8, <2>9, <2>10, <2>11
    DEF Bch
<1>2. CASE FiStart \/ FiRest
  BY <1>2 DEF FiStart, FiRest, bchVars, adjVars, SlotAdj
<1>3. CASE FiBuild
  <2>1. UNCHANGED <<slv_reg8, bchVars, slot_need_adj, frame_need_slotadj,
       fcb_strict>>
    BY <1>3 DEF FiBuild, SlotAdj
  <2>2. Own' = Own
    BY <1>3, AgedTable
  <2> QED
    BY <2>1, <2>2 DEF bchVars, SlotAdj
<1>4. CASE FindCandidate
  <2>1. UNCHANGED <<slv_reg8, bchVars, adjVars>>
    BY <1>4 DEF FindCandidate
  <2>2. Own' \subseteq Own \cup (IF we_bch THEN {Addr(bch_work_pointer)} ELSE {})
    BY <1>4 DEF FindCandidate, Written, TypeOK
  <2> QED
    BY <2>1, <2>2 DEF bchVars, adjVars, SlotAdj, Listening
<1>5. CASE SendFi
  BY <1>5 DEF SendFi, fiVars, adjVars, SlotAdj, Holding, Listening, Adjusting
<1>6. CASE SendPing \/ StartPing
  BY <1>6 DEF SendPing, StartPing, bchVars, fiVars, adjVars, SlotAdj
<1>7. CASE Receive
  <2>1. UNCHANGED <<slv_reg8, bchVars, fiVars>>
    BY <1>7 DEF Receive
  <2>2. Own' \subseteq Own
    BY <1>7, FrameAssumption DEF Receive, Merged, TypeOK, SlotIdx
  <2> QED
    BY <2>1, <2>2 DEF bchVars, fiVars, adjVars, SlotAdj
<1>8. CASE Late \/ NextSlot
  BY <1>8 DEF Late, NextSlot, bchVars, fiVars, adjVars, SlotAdj
<1>9. CASE UNCHANGED vars
  BY <1>9 DEF vars, bchVars, fiVars, adjVars, SlotAdj
<1> QED
  BY <1>1, <1>2, <1>3, <1>4, <1>5, <1>6, <1>7, <1>8, <1>9
  DEF Next, Fi, Mo

-----------------------------------------------------------------------------
(***************************************************************************)
(* Slot numbers and the lonely station.                                    *)
(***************************************************************************)
\* The frame keeps its length unless frame_adj_ena is on.
LEMMA LenStep ==
  ASSUME TypeOK, TypeOK', TimeInv, FixedLen, [Next]_vars
  PROVE  FixedLen'
<1>1. UNCHANGED slv_reg8 /\ (~FrameAdj => UNCHANGED curr_frame_len)
  <2>1. CASE Bch
    BY <2>1, BchRuns
  <2>2. CASE FiBuild
    BY <2>2 DEF FiBuild, AdjustedLen
  <2>3. CASE Receive
    BY <2>3 DEF Receive
  <2>4. CASE \/ FiStart \/ FindCandidate \/ FiRest \/ Mo \/ StartPing
             \/ Late \/ NextSlot \/ UNCHANGED vars
    BY <2>4 DEF FiStart, FindCandidate, FiRest, Mo, SendFi, SendPing,
         StartPing, Late, NextSlot, vars
  <2> QED
    BY <2>1, <2>2, <2>3, <2>4 DEF Next, Fi
<1> QED
  BY <1>1 DEF FixedLen, FrameAdj

\* Every slot BCH takes is one FCB has found in the frame.
LEMMA SlotStep ==
  ASSUME TypeOK, TypeOK', TimeInv, FixedLen, SlotsInReach, LonelyInv,
       [Next]_vars, Separate
  PROVE  SlotsInReach'
<1> USE DEF SlotsInReach
<1>1. CASE Bch
  <2>1. UNCHANGED <<slv_reg8, fcb_candidate>>
    BY <1>1, BchRuns
  <2>2. Reach' = Reach
    BY <2>1 DEF Reach, FrameAdj
  <2> USE <2>1, <2>2 DEF Holding, Adjusting
  <2>3. CASE DecideReq \/ Listen
    BY <2>3 DEF DecideReq, Listen, AfterListening, Listening
  <2>4. CASE LisFcb
    BY <2>4 DEF LisFcb
  <2>5. CASE InitDone \/ Request \/ RequestSent \/ Confirm
    BY <2>5 DEF InitDone, Request, RequestSent, Confirm
  <2>6. CASE Retry
    BY <2>6 DEF Retry
  <2>7. CASE Work
    BY <2>7 DEF Work
  <2>8. CASE IfSingle
    <3>1. SingleMoves /\ is_single => fcb_candidate # NoSlot
      <4>1. ~BchWaits /\ ~late /\ Acquired
        BY <1>1, <2>8, BchRuns DEF TimeInv, LateBchWaits, IfSingle, Acquired,
             Listening
      <4> QED
        BY <2>8, <4>1 DEF IfSingle, Separate, LonelyInv, LonelyOnly,
             LonelyFi, NoRefugeWorking, NoRefuge,
             TimeInv, WalksBeforeSlot, Walking
    <3> QED
      BY <2>8, <3>1 DEF IfSingle
  <2>9. CASE SlotOver
    BY <2>9 DEF SlotOver
  <2>10. CASE Adjust \/ AdjustInvalid
    BY <2>10 DEF Adjust, AdjustInvalid
  <2> QED
    BY <1>1, <2>3, <2>4, <2>5, <2>6, <2>7, <2>8, <2>9, <2>10 DEF Bch
<1>2. CASE FindCandidate
  <2>1. UNCHANGED <<slv_reg8, bchVars>>
    BY <1>2 DEF FindCandidate
  <2>2. Frame \subseteq Reach
    BY FrameAssumption DEF Frame, Reach, SlotIdx, FixedLen, TypeOK
  <2>3. fcb_candidate' \in Frame \cup {NoSlot}
    BY <1>2 DEF FindCandidate, Candidates
  <2> QED
    BY <2>1, <2>2, <2>3 DEF Reach, FrameAdj, bchVars
<1>3. CASE SendFi
  BY <1>3 DEF SendFi, fiVars, Reach, FrameAdj, Holding, Adjusting
<1>4. CASE \/ FiStart \/ FiBuild \/ FiRest \/ SendPing \/ StartPing
           \/ Receive \/ Late \/ NextSlot \/ UNCHANGED vars
  <2>1. UNCHANGED <<slv_reg8, bchVars, fcb_candidate>>
    BY <1>4 DEF FiStart, FiBuild, FiRest, SendPing, StartPing, Receive, Late,
         NextSlot, vars, fiVars
  <2> QED
    BY <2>1 DEF Reach, FrameAdj, bchVars
<1> QED
  BY <1>1, <1>2, <1>3, <1>4 DEF Next, Fi, Mo

\* What the other parts of the invariant say of a lonely station.
LEMMA LonelyFacts ==
  ASSUME Known, LonelyOnly
  PROVE  /\ ~SlotAdj /\ ~FrameAdj /\ Separate /\ ~fcb_strict
         /\ ~slot_need_adj /\ ~frame_need_slotadj
         /\ curr_frame_len = FrameLen
         /\ curr_frame_len \in 2 .. MaxLen
         /\ slot_pointer \in Frame
         /\ bch_state \in Holding => bch_work_pointer \in Frame
         /\ bch_state \notin Adjusting
         /\ LonelyFi /\ LonelyWalk /\ LonelyCount
<1>1. ~SlotAdj /\ ~FrameAdj /\ Separate
  BY DEF LonelyOnly, SlotAdj, FrameAdj, Separate
<1>2. curr_frame_len = FrameLen /\ curr_frame_len \in 2 .. MaxLen
  BY <1>1, FrameAssumption DEF Known, FixedLen
<1>3. slot_pointer \in Frame
  <2>1. slot_pointer = slot_counter % curr_frame_len
    BY DEF Known, LonelyInv, LonelyCount
  <2>2. slot_counter \in Nat /\ curr_frame_len \in Nat \ {0}
    BY <1>2, FrameAssumption DEF Known, TypeOK
  <2> QED
    BY <2>1, <2>2, Divided DEF Frame
<1> QED
  BY <1>1, <1>2, <1>3 DEF Known, ClaimInv, SlotsInReach, Reach, Frame,
       LonelyInv

\* Neither the switches nor the frame change.
LEMMA LonelyStays ==
  ASSUME Known, LonelyOnly, [Next]_vars, TypeOK', FixedLen'
  PROVE  /\ LonelyOnly' /\ UNCHANGED curr_frame_len /\ Frame' = Frame
<1>1. UNCHANGED slv_reg8
  <2>1. CASE Bch
    BY <2>1, BchRuns DEF Known
  <2> QED
    BY <2>1 DEF Next, Fi, FiStart, FiBuild, FindCandidate, FiRest, Mo,
         SendFi, SendPing,
         StartPing, Receive, Late, NextSlot, vars
<1> QED
  BY <1>1, LonelyFacts DEF FixedLen, FrameAdj, LonelyOnly, Frame

\* The parts of LonelyInv, one by one.
LEMMA LonelyFiStep ==
  ASSUME Known, LonelyOnly, [Next]_vars, TypeOK', FixedLen'
  PROVE  LonelyFi'
<1>1. /\ curr_frame_len' = curr_frame_len /\ LonelyFi
  BY LonelyFacts, LonelyStays
<1> USE <1>1 DEF LonelyFi, Acquired, WalkEnds, Listening
<1>2. CASE Bch
  BY <1>2 DEF Bch, DecideReq, Listen, AfterListening, LisFcb, InitFi,
       InitDone, Request, Retry, RequestSent, Confirm, Work, IfSingle,
       SlotOver, Adjust, AdjustInvalid, fiVars
<1>3. CASE Fi
  BY <1>3 DEF Fi, FiStart, FiDue, FiBuild, FindCandidate, FiRest, bchVars
<1>4. CASE Mo
  BY <1>4 DEF Mo, SendFi, SendPing, bchVars, fiVars
<1>5. CASE StartPing \/ Receive \/ Late \/ NextSlot \/ UNCHANGED vars
  BY <1>5 DEF StartPing, Receive, Late, NextSlot, vars, bchVars, fiVars
<1> QED
  BY <1>2, <1>3, <1>4, <1>5 DEF Next

\* The slot pointer goes round the frame, or back to 0 with a new second.
LEMMA LonelyCountStep ==
  ASSUME Known, LonelyOnly, [Next]_vars, TypeOK', FixedLen'
  PROVE  /\ LonelyCount'
         /\ NextSlot /\ slot_counter' # 0 =>
              slot_pointer' = After(slot_pointer)
<1>1. /\ curr_frame_len' = curr_frame_len /\ curr_frame_len \in Nat \ {0}
      /\ LonelyCount
      /\ curr_frame_len \in FrameLens
  BY LonelyFacts, LonelyStays DEF Known, TypeOK
<1>2. CASE NextSlot /\ slot_counter' # 0
  <2>1. /\ slot_counter' = Counted(slot_counter)
        /\ slot_pointer' = slot_counter' % curr_frame_len
    BY <1>2 DEF NextSlot
  <2>2. slot_counter \in Nat /\ MaxLen \in Nat \ {0}
    BY FrameAssumption DEF Known, TypeOK
  <2>3. slot_counter' % curr_frame_len = (slot_counter + 1) % curr_frame_len
    <3>1. MaxLen % curr_frame_len = 0 /\ (2 * MaxLen) % curr_frame_len = 0
      BY <1>1, <2>2, FrameAssumption, ModuloTwice
    <3> QED
      BY <2>1, <2>2, <3>1 DEF Counted
  <2>4. slot_pointer' = After(slot_pointer)
    BY <1>1, <2>1, <2>2, <2>3, ModuloSucc DEF LonelyCount, After
  <2> QED
    BY <1>1, <2>1, <2>4 DEF LonelyCount
<1>3. CASE NextSlot /\ slot_counter' = 0
  <2>1. slot_pointer' = 0
    BY <1>1, <1>3, ModuloSmall, FrameAssumption DEF NextSlot, Counted, Known,
         TypeOK
  <2> QED
    BY <1>1, <1>3, <2>1, ModuloSmall DEF LonelyCount
<1>4. CASE ~NextSlot
  <2>1. UNCHANGED <<slot_counter, slot_pointer>>
    <3>1. CASE Bch
      BY <3>1, BchRuns DEF Known, time
    <3> QED
      BY <1>4, <3>1 DEF Next, Fi, FiStart, FiBuild, FindCandidate, FiRest,
           Mo, SendFi, SendPing,
         StartPing, Receive, Late, vars, time
  <2> QED
    BY <1>1, <1>4, <2>1 DEF LonelyCount
<1> QED
  BY <1>2, <1>3, <1>4

\* One FI is received in a slot, none in its last 30 us.
LEMMA LonelyWalkStep ==
  ASSUME Known, LonelyOnly, [Next]_vars, TypeOK', FixedLen'
  PROVE  LonelyWalk'
<1>1. /\ Frame' = Frame /\ curr_frame_len' = curr_frame_len
      /\ LonelyFi /\ LonelyWalk
      /\ Frame \subseteq SlotIdx /\ table \in [SlotIdx -> Entry] /\ ~FrameAdj
  <2>1. curr_frame_len \in 2 .. MaxLen
    BY LonelyFacts
  <2> QED
    BY <2>1, FrameAssumption, LonelyFacts, LonelyStays DEF Known, TypeOK,
         Frame, SlotIdx
<1>2. SUFFICES ASSUME fi_state' = "BUS", is_single', NEW s \in Frame
               PROVE  \/ table'[s] \in Empties
                      \/ table'[s] = "new" /\ rx' /\ ~late'
  BY <1>1 DEF LonelyWalk
<1>3. fi_state = "BUS" => WalkEnds /\ (late \/ ~Acquired)
  BY <1>1 DEF LonelyFi, Known, TimeInv, WalksBeforeSlot, Walking
<1>4. fi_state = "BUS" /\ is_single =>
        table[s] \in Empties \/ (table[s] = "new" /\ rx /\ ~late)
  BY <1>1 DEF LonelyWalk
<1>5. CASE Bch
  <2>1. /\ ~late /\ UNCHANGED <<late, rx, is_single>>
    BY <1>5, BchRuns DEF Known, TimeInv, LateBchWaits, time, adjVars
  <2>2. fi_state = "BUS"
    BY <1>2, <1>5 DEF Bch, DecideReq, Listen, LisFcb, InitFi, InitDone,
         Request, Retry, RequestSent, Confirm, Work, IfSingle, SlotOver,
         Adjust, AdjustInvalid, fiVars
  <2>3. table' = table \/ table' = Written(table, fcb_candidate, "mine")
    BY <1>3, <1>5, <2>1, <2>2 DEF Bch, DecideReq, Listen, LisFcb, InitDone,
         Request, Retry, RequestSent, Confirm, Work, IfSingle, SlotOver,
         Adjust, AdjustInvalid, Acquired, Listening
  <2> QED
    BY <1>1, <1>2, <1>4, <2>1, <2>2, <2>3 DEF Written, Empties
<1>6. CASE FiBuild
  BY <1>1, <1>2, <1>6, AgedTable DEF FiBuild, Known
<1>7. CASE Receive
  <2>1. /\ ~rx /\ ~late /\ rx' /\ UNCHANGED <<late, fi_state, is_single>>
    BY <1>7 DEF Receive, time, fiVars, adjVars
  <2>2. table[s] \in Empties
    BY <1>2, <1>4, <2>1
  <2>3. table'[s] \in Empties \cup {"new"}
    BY <1>1, <1>7, <2>2 DEF Receive, Merged, Empties, Others
  <2> QED
    BY <2>1, <2>3
<1>8. CASE FiStart \/ FindCandidate \/ FiRest
  BY <1>2, <1>8 DEF FiStart, FindCandidate, FiRest
<1>9. CASE Mo \/ StartPing \/ UNCHANGED vars
  <2>1. UNCHANGED <<late, rx, is_single, fi_state, table>>
    BY <1>9 DEF Mo, SendFi, SendPing, StartPing, vars, time, fiVars, adjVars,
         rxVars
  <2> QED
    BY <1>2, <1>4, <2>1
<1>10. CASE Late \/ NextSlot
  BY <1>2, <1>3, <1>10 DEF Late, NextSlot, FiWaits, FiRests, fiVars
<1> QED
  BY <1>5, <1>6, <1>7, <1>8, <1>9, <1>10 DEF Next, Fi

\* A candidate that is missing is found before the station works.
LEMMA NoRefugeStep ==
  ASSUME Known, LonelyOnly, [Next]_vars, TypeOK', FixedLen',
         NoRefuge', fi_state' # "BUS"
  PROVE  /\ NoRefugeInit' /\ NoRefugeChosen'
         /\ NoRefugeRequested' /\ NoRefugeWorking'
<1> DEFINE len == curr_frame_len
           wp == bch_work_pointer
<1>1. /\ len' = len /\ len \in 2 .. MaxLen /\ MaxLen \in Nat
      /\ slot_pointer \in 0 .. len - 1
      /\ bch_state \in Holding => wp \in 0 .. len - 1
      /\ slot_counter \in 0 .. 2 * MaxLen - 1
      /\ ~fcb_strict /\ bch_state \notin Adjusting
      /\ LonelyFi /\ LonelyWalk /\ LonelyCount
  BY LonelyFacts, LonelyStays, FrameAssumption DEF Known, Frame, TypeOK
<1>2. NoRefuge /\ fi_state # "BUS" =>
        NoRefugeInit /\ NoRefugeChosen /\ NoRefugeRequested /\ NoRefugeWorking
  BY DEF Known, LonelyInv
<1>3. /\ slot_counter < len => slot_pointer = slot_counter
      /\ slot_counter = len => slot_pointer = 0
  <2>1. slot_pointer = slot_counter % len
    BY <1>1 DEF LonelyCount
  <2>2. len \in Nat \ {0} /\ slot_counter \in Nat
    BY <1>1
  <2> QED
    BY <2>1, <2>2, ModuloSmall
<1> HIDE DEF len, wp
<1>4. CASE Bch
  <2>1. /\ ~late /\ NoRefuge
        /\ UNCHANGED <<late, slot_counter, slot_pointer, rx>>
    BY <1>4, BchRuns DEF Known, TimeInv, LateBchWaits, time, adjVars, NoRefuge
  <2>2. CASE DecideReq \/ Listen \/ LisFcb
    BY <2>1, <2>2 DEF DecideReq, Listen, AfterListening, LisFcb, Listening,
         NoRefuge, NoRefugeInit, NoRefugeChosen, NoRefugeRequested,
              NoRefugeWorking,
         Requested
  <2>3. fi_state # "BUS"
    BY <1>4 DEF Bch, DecideReq, Listen, LisFcb, InitFi, InitDone, Request,
         Retry, RequestSent, Confirm, Work, IfSingle, SlotOver, Adjust,
         AdjustInvalid, fiVars
  <2> USE <1>2, <2>1, <2>3 DEF NoRefugeInit, NoRefugeChosen,
       NoRefugeRequested, NoRefugeWorking, Requested
  <2>4. CASE InitDone
    BY <2>4 DEF InitDone, View, Usable, Others, Before, fiVars
  <2>5. CASE Request
    BY <1>1, <2>5 DEF Request, View, fiVars, wp, len
  <2>6. CASE Retry
    BY <2>6 DEF Retry, NoRefuge
  <2>7. CASE RequestSent
    BY <1>1, <1>3, <2>7 DEF RequestSent, fiVars, wp, len
  <2>8. CASE Confirm
    BY <1>1, <1>3, <2>8 DEF Confirm, wp, len
  <2>9. CASE Work \/ IfSingle \/ SlotOver \/ Adjust \/ AdjustInvalid
    BY <1>1, <2>9 DEF Work, IfSingle, SlotOver, Adjust, AdjustInvalid,
         Adjusting
  <2> QED
    BY <1>4, <2>2, <2>4, <2>5, <2>6, <2>7, <2>8, <2>9 DEF Bch
<1>5. CASE FiStart \/ FiRest
  <2>1. /\ fi_state # "BUS" /\ fi_state' # "END"
        /\ UNCHANGED <<late, slot_counter, slot_pointer, rx, bchVars, table,
                      NoRefuge>>
    BY <1>5 DEF FiStart, FiDue, FiRest, time, adjVars, rxVars, NoRefuge
  <2> QED
    BY <1>1, <1>2, <2>1 DEF NoRefugeInit, NoRefugeChosen, NoRefugeRequested,
         NoRefugeWorking,
         Requested, View, bchVars, len
<1>6. CASE FiBuild
  BY <1>6 DEF FiBuild
<1>7. CASE FindCandidate
  <2>1. /\ fi_state = "BUS" /\ is_single /\ Candidates = {}
        /\ UNCHANGED <<late, rx, bchVars>>
        /\ ~we_bch => table' = table
    <3>1. NoSlot \notin Candidates
      BY <1>1 DEF Candidates, Frame, NoSlot, len
    <3> QED
      BY <1>7, <3>1 DEF FindCandidate, NoRefuge, time, adjVars
  <2>2. \A s \in Frame : table[s] = "new" /\ rx /\ ~late
    BY <1>1, <2>1 DEF LonelyWalk, Candidates, Empties
  <2>3. 0 \in Frame
    BY <1>1 DEF Frame, len
  <2>4. ~late /\ rx /\ ~Acquired
    BY <1>1, <2>1, <2>2, <2>3 DEF LonelyFi, Known, TimeInv, WalksBeforeSlot,
         Walking
  <2>5. bch_state = "WAIT_REQ_FI_INIT_WAIT" => View = "new" /\ ~we_bch
    <3> SUFFICES ASSUME bch_state = "WAIT_REQ_FI_INIT_WAIT"
                 PROVE  View = "new" /\ ~we_bch
      OBVIOUS
    <3>1. bch_work_pointer \in Frame
      BY LonelyFacts DEF Holding
    <3>2. bch_work_pointer \in SlotIdx
      BY <1>1, <3>1, FrameAssumption DEF Frame, SlotIdx, len
    <3>3. View = table[bch_work_pointer]
      BY <3>2, AddrOfSlot DEF View
    <3> QED
      BY <2>2, <3>1, <3>3, LonelyFacts DEF Known, ClaimInv
  <2> QED
    BY <2>1, <2>4, <2>5 DEF NoRefugeInit, NoRefugeChosen, NoRefugeRequested,
         NoRefugeWorking, Requested, Acquired, Listening, View, Others,
              bchVars
<1>8. CASE SendFi
  <2>1. UNCHANGED <<late, slot_counter, slot_pointer, rx, wp, table, fi_state,
                    NoRefuge>>
    BY <1>8 DEF SendFi, time, fiVars, adjVars, rxVars, NoRefuge, wp
  <2> QED
    BY <1>1, <1>2, <1>8, <2>1 DEF SendFi, NoRefugeInit, NoRefugeChosen,
         NoRefugeRequested, NoRefugeWorking, Requested, len, wp
<1>9. CASE SendPing \/ StartPing \/ UNCHANGED vars
  <2>1. UNCHANGED <<late, slot_counter, slot_pointer, rx, bchVars, table,
                    fi_state, NoRefuge>>
    BY <1>9 DEF SendPing, StartPing, vars, time, fiVars, adjVars, rxVars,
         NoRefuge
  <2> QED
    BY <1>1, <1>2, <2>1 DEF NoRefugeInit, NoRefugeChosen, NoRefugeRequested,
         NoRefugeWorking,
         Requested, View, Before, bchVars, len
<1>10. CASE Receive
  <2>1. /\ ~rx /\ BchWaits
        /\ UNCHANGED <<late, slot_counter, slot_pointer, bchVars, fi_state,
                      NoRefuge>>
    BY <1>10 DEF Receive, time, fiVars, adjVars, NoRefuge
  <2> QED
    BY <1>1, <1>2, <2>1 DEF NoRefugeInit, NoRefugeChosen, NoRefugeRequested,
         NoRefugeWorking,
         Requested, Before, BchWaits, Listening, bchVars, len
<1>11. CASE Late
  <2>1. UNCHANGED <<slot_counter, slot_pointer, rx, bchVars, table, fi_state,
                    NoRefuge>> /\ late'
    BY <1>11 DEF Late, fiVars, adjVars, rxVars, NoRefuge
  <2> QED
    BY <1>1, <1>2, <2>1 DEF NoRefugeInit, NoRefugeChosen, NoRefugeRequested,
         NoRefugeWorking,
         Requested, View, Before, bchVars, len
<1>12. CASE NextSlot
  <2>1. /\ late /\ BchWaits /\ FiWaits
        /\ UNCHANGED <<bchVars, table, fi_state, fi_initialed, NoRefuge>>
    BY <1>12 DEF NextSlot, fiVars, adjVars, NoRefuge
  <2>2. Acquired =>
          \/ fi_state = "END" /\ slot_pointer = Before(wp)
          \/ fi_state = "IDLE" /\ slot_pointer # Before(wp)
    BY <1>1, <2>1 DEF FiWaits, FiRests, FiDue, LonelyFi, Acquired, wp
  <2>3. NoRefugeInit' /\ NoRefugeWorking'
    BY <1>2, <2>1 DEF NoRefugeInit, NoRefugeWorking, BchWaits, Listening,
         bchVars, FiWaits, FiRests
  <2>4. NoRefuge /\ fi_state # "BUS" /\ wp' = wp /\ bch_state' = bch_state
    BY <2>1 DEF bchVars, wp
  <2>5. CASE slot_counter' = 0
    <3>1. slot_pointer' = 0
      BY <1>1, <1>12, <2>5, LonelyCountStep, ModuloSmall DEF LonelyCount, len
    <3>2. NoRefugeChosen'
      <4> SUFFICES ASSUME bch_state = "WAIT_REQ_WAIT"
                   PROVE  NoRefugeChosen'
        BY <2>4 DEF NoRefugeChosen
      <4>1. wp \in 0 .. len - 1
        BY <1>1 DEF Holding
      <4>2. 0 = Before(wp)' => wp = 1
        BY <1>1, <2>4, <4>1 DEF Before, len
      <4> QED
        BY <1>1, <2>4, <2>5, <3>1, <4>1, <4>2 DEF NoRefugeChosen, wp
    <3>3. bch_state \notin Requested
      <4> SUFFICES ASSUME bch_state \in Requested
                   PROVE  FALSE
        OBVIOUS
      <4>1. /\ wp \in 0 .. 1 /\ slot_counter \in wp .. wp + len - 1
            /\ slot_counter = wp + len - 1 => fi_state # "END"
        BY <1>1, <1>2, <2>4 DEF NoRefugeRequested, Requested, Holding, wp, len
      <4>2. slot_counter >= MaxLen
        BY <1>1, <1>12, <2>5, FrameAssumption DEF NextSlot, Counted, SlotIdx
      <4>3. slot_counter = wp + len - 1 /\ slot_pointer = Before(wp)
        BY <1>1, <1>3, <4>1, <4>2 DEF Before, len
      <4> QED
        BY <2>2, <4>1, <4>3 DEF Acquired, Requested, Listening
    <3> QED
      BY <2>3, <2>4, <3>2, <3>3 DEF NoRefugeRequested
  <2>6. CASE slot_counter' # 0
    <3>1. /\ slot_counter' = Counted(slot_counter)
          /\ slot_pointer' = After(slot_pointer)
      BY <1>12, <2>6, LonelyCountStep DEF NextSlot
    <3>2. ASSUME wp \in 0 .. len - 1
          PROVE  /\ Before(wp)' = Before(wp)
                 /\ slot_pointer' = wp <=> slot_pointer = Before(wp)
                 /\ Before(wp) # wp
      BY <1>1, <2>4, <3>1, <3>2 DEF After, Before, len
    <3>3. NoRefugeChosen'
      <4> SUFFICES ASSUME bch_state = "WAIT_REQ_WAIT"
                   PROVE  NoRefugeChosen'
        BY <2>4 DEF NoRefugeChosen
      <4>1. wp \in 0 .. len - 1 /\ Acquired
        BY <1>1 DEF Holding, Acquired, Listening
      <4>2. ASSUME slot_pointer' = wp, Usable(View)'
            PROVE  slot_counter' = wp /\ wp <= 1
        <5>1. fi_state = "END" /\ slot_pointer = Before(wp)
          BY <2>2, <3>2, <4>1, <4>2
        <5>2. View \notin Others
          BY <2>1, <4>2 DEF View, Usable, Others, bchVars
        <5>3. slot_counter = 0 /\ wp = 1
          BY <1>2, <2>4, <5>1, <5>2 DEF NoRefugeChosen, wp
        <5> QED
          BY <1>1, <3>1, <5>3 DEF Counted
      <4>3. ~(fi_state' = "END" /\ slot_pointer' = Before(wp)')
        BY <2>1, <2>2, <3>2, <4>1
      <4> QED
        BY <2>4, <4>2, <4>3 DEF NoRefugeChosen, wp
    <3>4. NoRefugeRequested'
      <4> SUFFICES ASSUME bch_state \in Requested
                   PROVE  NoRefugeRequested'
        BY <2>4 DEF NoRefugeRequested
      <4>1. /\ wp \in 0 .. 1 /\ slot_counter \in wp .. wp + len - 1
            /\ slot_counter = wp + len - 1 => fi_state # "END"
            /\ wp \in 0 .. len - 1 /\ Acquired
        BY <1>1, <1>2, <2>4 DEF NoRefugeRequested, Requested, Holding,
             Acquired, Listening, wp, len
      <4>2. slot_counter # wp + len - 1
        <5> SUFFICES ASSUME slot_counter = wp + len - 1
                     PROVE  FALSE
          OBVIOUS
        <5>1. slot_pointer = Before(wp)
          BY <1>1, <1>3, <4>1 DEF Before, len
        <5> QED
          BY <2>2, <4>1, <5>1
      <4>3. slot_counter' = slot_counter + 1
        BY <1>1, <3>1, <4>1, <4>2 DEF Counted
      <4>4. slot_counter' = wp + len - 1 => fi_state' # "END"
        <5> SUFFICES ASSUME slot_counter' = wp + len - 1, fi_state = "END"
                     PROVE  FALSE
          BY <2>1
        <5>1. slot_pointer = Before(wp)
          BY <2>2, <4>1
        <5> QED
          BY <1>1, <1>3, <4>1, <4>3, <5>1 DEF Before, len
      <4> QED
        BY <1>1, <2>4, <4>1, <4>2, <4>3, <4>4 DEF NoRefugeRequested, wp, len
    <3> QED
      BY <2>3, <3>3, <3>4
  <2> QED
    BY <2>5, <2>6
<1> QED
  BY <1>4, <1>5, <1>6, <1>7, <1>8, <1>9, <1>10, <1>11, <1>12
  DEF Next, Fi, Mo

-----------------------------------------------------------------------------
(***************************************************************************)
(* The invariant and the theorems.                                         *)
(***************************************************************************)
\* The invariant holds after a reset,
LEMMA InitKnown ==
  ASSUME Init
  PROVE  Known
<1>1. TypeOK
  <2>1. /\ late \in BOOLEAN /\ bch_adj_flag \in BOOLEAN
        /\ accessible \in BOOLEAN /\ we_bch \in BOOLEAN
        /\ fi_initialed \in BOOLEAN /\ slot_need_adj \in BOOLEAN
        /\ frame_need_slotadj \in BOOLEAN /\ adj_slot_win \in BOOLEAN
        /\ is_single \in BOOLEAN /\ fcb_strict \in BOOLEAN
        /\ rx \in BOOLEAN /\ overruled \in BOOLEAN
    BY DEF Init
  <2> QED
    BY <2>1, FrameAssumption DEF Init, TypeOK, SlotIdx, NoSlot, Entry,
         BchStates
<1>2. TimeInv
  BY FrameAssumption DEF Init, TimeInv, PointerInFrame, LateBchWaits,
       WalksBeforeSlot, FirstWalk, Walking
<1>3. AirInv
  BY DEF Init, AirInv
<1>4. ClaimInv
  BY DEF Init, ClaimInv, Own, Adjusting, Holding
<1>5. FixedLen /\ SlotsInReach
  BY DEF Init, FixedLen, SlotsInReach, Adjusting, Holding
<1>6. LonelyInv
  <2>1. 0 % FrameLen = 0
    BY FrameAssumption, ModuloSmall
  <2> QED
    BY <2>1 DEF Init, LonelyInv, LonelyFi, LonelyWalk, LonelyCount, NoRefuge,
         Acquired
<1> QED
  BY <1>1, <1>2, <1>3, <1>4, <1>5, <1>6 DEF Known

\* is kept by every step,
LEMMA NextKnown ==
  ASSUME Known, [Next]_vars
  PROVE  Known'
<1>1. TypeOK'
  BY TypeStep DEF Known
<1>2. TimeInv'
  BY <1>1, TimeStep DEF Known
<1>3. AirInv'
  BY <1>1, AirStep DEF Known
<1>4. FixedLen'
  BY <1>1, LenStep DEF Known
<1>5. slv_reg8' = slv_reg8
  <2>1. CASE Bch
    BY <2>1, BchRuns DEF Known
  <2> QED
    BY <2>1 DEF Next, Fi, FiStart, FiBuild, FindCandidate, FiRest, Mo, SendFi,
         SendPing, StartPing, Receive, Late, NextSlot, vars
<1>6. ClaimInv'
  BY <1>1, <1>5, ClaimStep DEF Known, ClaimInv, SlotAdj
<1>7. SlotsInReach'
  BY <1>1, <1>5, SlotStep DEF Known, SlotsInReach, Separate, SingleMoves
<1>8. LonelyInv'
  <2> SUFFICES ASSUME LonelyOnly
               PROVE  LonelyInv'
    BY <1>5 DEF LonelyInv, LonelyOnly
  <2>1. LonelyFi' /\ LonelyWalk' /\ LonelyCount'
    BY <1>1, <1>4, LonelyFiStep, LonelyWalkStep, LonelyCountStep
  <2> QED
    BY <1>1, <1>4, <2>1, NoRefugeStep DEF LonelyInv
<1> QED
  BY <1>1, <1>2, <1>3, <1>4, <1>6, <1>7, <1>8 DEF Known

\* and so holds always.
LEMMA Invariance == Spec => []Known
<1>1. Init => Known
  BY InitKnown
<1>2. Known /\ [Next]_vars => Known'
  BY NextKnown
<1> QED
  BY <1>1, <1>2, PTL DEF Spec

\* The registers of tdma_control.v have values of their width: whatever FIs the
\* slot memory has merged and however the frame has been doubled and halved,
\* the frame length is one that has a logarithm and the slot pointer is one of
\* the table, and so is every slot number that is not 16'hffff.
THEOREM TypeCorrect == Spec => []TypeOK
<1>1. Known => TypeOK
  BY DEF Known
<1> QED
  BY <1>1, Invariance, PTL

\* The slot BCH waits for is one of the frame: the search for a candidate, the
\* moves and the lonely station's moves never leave it with 16'hffff.
THEOREM WorksInFrame == Spec => []WorkInFrame
<1>1. Known => WorkInFrame
  <2> SUFFICES ASSUME Known, ~FrameAdj, ~(SlotAdj /\ SingleMoves),
                      bch_state \in Holding
               PROVE  bch_work_pointer \in Frame
    BY DEF WorkInFrame
  <2>1. Separate
    <3>1. slv_reg8 \subseteq Switches
      BY FrameAssumption DEF Known, TypeOK
    <3> QED
      BY <3>1 DEF Switches, Separate, SingleMoves, SlotAdj, FrameAdj
  <2> QED
    BY <2>1 DEF Known, FixedLen, SlotsInReach, Reach, Frame
<1> QED
  BY <1>1, Invariance, PTL

\* Without slot adjustment the station claims one slot, the one it uses, and
\* no claim survives a collision or a restart of BCH.
THEOREM ClaimsItsSlot == Spec => []ClaimsKnown
<1>1. Known => ClaimsKnown
  BY FrameAssumption DEF Known, TypeOK, ClaimInv, Own, ClaimsKnown, Claims,
       Frame, SlotIdx
<1> QED
  BY <1>1, Invariance, PTL

\* tdma_tx_enable goes on in no slot that the slot memory gives to somebody
\* else, however FIs, ageing and the machines interleave.
THEOREM SendsInItsSlot == Spec => SendsUncontested
<1>1. Known /\ Known' /\ [Next]_vars =>
        [~tdma_tx_enable /\ tdma_tx_enable'
           => table[slot_pointer] \notin Others]_vars
  BY SendStep DEF Known
<1>2. Spec => []Known /\ [][Next]_vars
  BY Invariance, PTL DEF Spec
<1> QED
  BY <1>1, <1>2, PTL DEF SendsUncontested

-----------------------------------------------------------------------------
(***************************************************************************)
(* The controller implements SlotAccess, for drivers that enable the moves *)
(* of lonely stations alone or not at all.                                 *)
(***************************************************************************)
Apart ==
  \A s \in Settings :
    "randon_bch_if_single" \in s => s = {"randon_bch_if_single"}

\* How BCH gets from phase to phase.
LEMMA PhaseStep ==
  ASSUME TypeOK, [Next]_vars
  PROVE  \/ /\ Phase' = Phase
            /\ Phase \in {"chosen", "requested"} =>
                 bch_work_pointer' = bch_work_pointer
         \/ Phase = "listening" /\ Phase' = "chosen"
         \/ /\ Phase = "chosen" /\ Phase' = "requested"
            /\ bch_work_pointer' = bch_work_pointer
         \/ /\ Phase = "requested" /\ Phase' = "working"
            /\ bch_work_pointer' = bch_work_pointer
            /\ bch_state = "REQ_WAIT"
         \/ /\ Phase # "listening" /\ Phase' = "listening"
            /\ bch_state \notin {"WAIT_REQ_FI_SEND_WAIT",
                                 "WORK_FI_SEND_FI_WAIT", "WORK_ENA_TX"}
<1> USE DEF Phase, Chosen, Requested, BchStates, Listening, Holding, TypeOK
<1>1. CASE DecideReq \/ Listen \/ LisFcb \/ InitDone
  BY <1>1 DEF DecideReq, Listen, AfterListening, LisFcb, InitDone
<1>2. CASE Request \/ Retry \/ RequestSent \/ Confirm
  BY <1>2 DEF Request, Retry, RequestSent, Confirm
<1>3. CASE Work \/ IfSingle \/ SlotOver \/ Adjust \/ AdjustInvalid
  BY <1>3 DEF Work, IfSingle, SlotOver, Adjust, AdjustInvalid
<1>4. CASE SendFi
  BY <1>4 DEF SendFi
<1>5. CASE Fi \/ SendPing \/ StartPing \/ Receive \/ Late \/ NextSlot
           \/ UNCHANGED vars
  BY <1>5 DEF Fi, FiStart, FiBuild, FindCandidate, FiRest, SendPing,
       StartPing, Receive, Late, NextSlot, vars, bchVars
<1> QED
  BY <1>1, <1>2, <1>3, <1>4, <1>5 DEF Next, Bch, Mo

\* Every step of the controller is one of SlotAccess or changes nothing there.
LEMMA AccessStep ==
  ASSUME Known, Known', Separate, Separate', [Next]_vars
  PROVE  [Access!Next]_(Access!vars)
<1> DEFINE air == mo_state = "SEND_FI" \/ tdma_tx_enable
           slot == IF Phase = "listening" THEN NoSlot ELSE bch_work_pointer
<1>1. /\ Phase \in {"listening", "chosen", "requested", "working"}
      /\ Phase' \in {"listening", "chosen", "requested", "working"}
  BY DEF Phase
<1>2. /\ Phase # "listening" => bch_work_pointer \in SlotIdx
      /\ Phase' # "listening" => bch_work_pointer' \in SlotIdx
  <2>1. Reach \subseteq SlotIdx /\ Reach' \subseteq SlotIdx
    BY FrameAssumption DEF Reach, SlotIdx
  <2> QED
    BY <2>1 DEF Known, TypeOK, SlotsInReach, Phase, BchStates, Holding,
         Adjusting,
         Chosen, Requested
<1>3. /\ Phase \in {"listening", "chosen"} => ~air
      /\ Phase' \in {"listening", "chosen"} => ~air'
      /\ bch_state \notin {"WAIT_REQ_FI_SEND_WAIT", "WORK_FI_SEND_FI_WAIT",
                           "WORK_ENA_TX"} => ~air
  BY DEF Known, AirInv, Phase, Chosen, Requested, Listening, TypeOK,
       BchStates, Holding, tdma_tx_enable
<1> QED
  BY <1>1, <1>2, <1>3, PhaseStep DEF Known, Access!Next, Access!vars,
       Access!Choose,
       Access!Request, Access!Grant, Access!Work, Access!Send, Access!Lose

\* The controller implements SlotAccess.
THEOREM RefinesAccess ==
  ASSUME Apart
  PROVE  Spec => ImplementsAccess
<1>1. Init => Access!Init
  BY DEF Init, Access!Init, Phase, Chosen, Requested, tdma_tx_enable,
       BchStates, Listening
<1>2. Known => Separate
  BY DEF Known, TypeOK, Apart, Separate, SingleMoves
<1>3. Known /\ Known' /\ [Next]_vars => [Access!Next]_(Access!vars)
  <2> SUFFICES ASSUME Known, Known', [Next]_vars
               PROVE  [Access!Next]_(Access!vars)
    OBVIOUS
  <2>1. Separate /\ Separate'
    BY <1>2 DEF Known, TypeOK, Apart, Separate, SingleMoves
  <2> QED
    BY <2>1, AccessStep
<1> QED
  BY <1>1, <1>3, Invariance, PTL DEF Spec, ImplementsAccess, Access!Spec
=============================================================================
