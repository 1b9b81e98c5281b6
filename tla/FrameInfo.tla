----------------------------- MODULE FrameInfo -----------------------------
(***************************************************************************)
(* The slot table of a SATMAC node and the Frame Information (FI) packet.  *)
(*                                                                         *)
(* A node keeps one slot_tag per slot of the frame (collected_fi_), sends  *)
(* a coded copy of the table in its own slot (FiHeader), and merges the    *)
(* tables it receives into its own (merge_fi).  This module has the pure   *)
(* operators on tags and tables; module Satmac has the state machine.      *)
(*                                                                         *)
(* The psf field is not modelled: it has 0 bits on the air                 *)
(* (BIT_LENGTH_PSF), every assignment to it stores 0, so psf comparisons   *)
(* always find equality.  The hop counters are only read when slot or      *)
(* frame adjustment is enabled; with CountHops = FALSE they stay 0.        *)
(***************************************************************************)
EXTENDS Integers

CONSTANTS
  Node,      \* the stations, identified by their STI (global_sti)
  MaxLen,    \* slots in a table: the longest frame (the code allocates 512)
  FrameLens, \* the lengths a frame may have
  Life,      \* slot_lifetime_frame_: frames a silent neighbour is remembered
  CountHops, \* are count_2hop / count_3hop / c3hop_flag tracked
  CountCap   \* bound on the hop counters

\* The STI has BIT_LENGTH_STI = 9 bits on the air, and 0 means "nobody".
ASSUME NodeAssumption == Node \subseteq 1..511
ASSUME MaxLenAssumption == MaxLen \in Nat \ {0}
ASSUME FrameLensAssumption == FrameLens \subseteq 1..MaxLen
ASSUME LifeAssumption == Life \in Nat \ {0}
ASSUME CountAssumption == CountHops \in BOOLEAN /\ CountCap \in Nat

SLOT_FREE      == 0
SLOT_2HOP      == 1
SLOT_1HOP      == 2
SLOT_COLLISION == 3
Busy == {SLOT_FREE, SLOT_2HOP, SLOT_1HOP, SLOT_COLLISION}

Sti == Node \cup {0}
SlotIdx == 0 .. MaxLen - 1

slot_tag == [busy : Busy, sti : Sti, c2 : 0..CountCap, c3 : 0..CountCap,
             life : 0..Life, existed : BOOLEAN, c3f : BOOLEAN,
             locker : BOOLEAN]

\* One slot of an FI packet: what FiHeader puts on the air, and what the
\* receiver makes of it (decode_value may read 128 or 129 for 2 or 3).
WireTag == [busy : Busy, sti : Sti, c2 : 0..3]
DecodedBits == 0..3 \cup {128, 129}
DecodedTag == [busy : DecodedBits, sti : Sti, c2 : DecodedBits]

\* An FI packet, and a received one: valid_time and remain_time count slots,
\* rank orders the ones received in the same slot.
FiPacket == [sti : Node, len : FrameLens, tags : [SlotIdx -> WireTag]]
Frame_info == [sti : Node, len : FrameLens, tags : [SlotIdx -> DecodedTag],
               valid : 1..MaxLen, remain : 1..MaxLen, rank : Nat]

Table == [SlotIdx -> slot_tag]

\* The constructor of slot_tag.
FreeTag == [busy |-> SLOT_FREE, sti |-> 0, c2 |-> 0, c3 |-> 0, life |-> 0,
            existed |-> FALSE, c3f |-> FALSE, locker |-> FALSE]

\* Hop counters saturate at CountCap (the code has unbounded ints).
Count(x) == IF ~CountHops THEN 0 ELSE IF x < CountCap THEN x ELSE CountCap

(***************************************************************************)
(* What slotHandler writes into a tag when it takes or gives up a slot,    *)
(* and its test that a slot may be used.                                   *)
(***************************************************************************)
Claim(t, me) == [t EXCEPT !.busy = SLOT_1HOP, !.sti = me,
                          !.c2 = Count(1), !.c3 = Count(1)]

\* Mutant: busy is not reset.
ReleaseStaysBusy(t, lock) == [t EXCEPT !.sti = 0, !.c2 = 0, !.c3 = 0,
                                       !.locker = lock]

Release(t, lock) == [t EXCEPT !.busy = SLOT_FREE, !.sti = 0, !.c2 = 0,
                              !.c3 = 0, !.locker = lock]

Usable(t, me) == \/ t.sti = me /\ t.busy = SLOT_1HOP
                 \/ t.sti = 0

-----------------------------------------------------------------------------
(***************************************************************************)
(* merge_fi, one slot at a time.  t is the local tag, r the received one.  *)
(***************************************************************************)

\* Both counters of t grow by one report r.
Counted(t, r) == [t EXCEPT !.c2 = Count(@ + 1), !.c3 = Count(@ + r.c2)]

\* The counters grow once per frame: c3hop_flag remembers the first report.
CountedOnce(t, r) ==
  IF t.c3f THEN t ELSE [Counted(t, r) EXCEPT !.c3f = CountHops]

\* A report of a collision hands the slot to the station it names.
TakenAfterCollision(t, r) ==
  [t EXCEPT !.life = Life, !.sti = r.sti, !.c2 = Count(1), !.c3 = Count(1),
            !.busy = SLOT_2HOP]

\* The owner itself says that the slot is free: free it and lock it.
GivenUpByOwner(t) == [t EXCEPT !.life = 0, !.sti = 0, !.c2 = 0, !.c3 = 0,
                               !.busy = SLOT_FREE, !.locker = TRUE]

\* Mutant: another one-hop user of the slot is no collision.
MergeOwnDeaf(t, r, me, known) ==
  CASE r.sti \notin {0, me} /\ r.busy = SLOT_2HOP ->
         [t EXCEPT !.c3 = Count(@ + r.c2)]
    [] r.sti \notin {0, me} /\ r.busy = SLOT_COLLISION ->
         TakenAfterCollision(t, r)
    [] r.busy = SLOT_FREE /\ (r.sti = me \/ (r.sti = 0 /\ known)) ->
         [t EXCEPT !.busy = SLOT_COLLISION]
    [] OTHER -> t

\* First loop of merge_fi: a slot the node holds (t.sti = me).  known says
\* whether the sender is already in the table (isNewNeighbor is false).
MergeOwn(t, r, me, known) ==
  CASE r.sti \notin {0, me} /\ r.busy \in {SLOT_1HOP, SLOT_FREE} ->
         [t EXCEPT !.busy = SLOT_COLLISION]
    [] r.sti \notin {0, me} /\ r.busy = SLOT_2HOP ->
         [t EXCEPT !.c3 = Count(@ + r.c2)]
    [] r.sti \notin {0, me} /\ r.busy = SLOT_COLLISION ->
         TakenAfterCollision(t, r)
    [] r.busy = SLOT_FREE /\ (r.sti = me \/ (r.sti = 0 /\ known)) ->
         [t EXCEPT !.busy = SLOT_COLLISION]
    [] OTHER -> t

\* Second loop, a slot held by a one-hop neighbour.
MergeOneHop(t, r, sender) ==
  CASE r.sti \notin {0, t.sti} /\ r.busy = SLOT_1HOP /\ r.sti = sender ->
         [t EXCEPT !.life = Life, !.busy = SLOT_COLLISION]
    [] r.sti \notin {0, t.sti} /\ r.busy = SLOT_1HOP /\ r.sti # sender ->
         Counted(t, r)
    [] r.sti \notin {0, t.sti} /\ r.busy = SLOT_2HOP ->
         [t EXCEPT !.c3 = Count(@ + r.c2)]
    [] r.sti \notin {0, t.sti} /\ r.busy = SLOT_COLLISION ->
         TakenAfterCollision(t, r)
    [] r.sti = t.sti /\ r.busy = SLOT_1HOP /\ r.sti = sender ->
         [CountedOnce(t, r) EXCEPT !.life = Life]
    [] r.sti = t.sti /\ r.busy = SLOT_1HOP /\ r.sti # sender ->
         [t EXCEPT !.existed = TRUE]
    [] r.sti = 0 /\ sender = t.sti -> GivenUpByOwner(t)
    [] OTHER -> t

\* Mutant: hearsay of a two-hop neighbour refreshes it.
MergeTwoHopHearsay(t, r, sender) ==
  CASE r.sti \notin {0, t.sti} /\ r.busy = SLOT_1HOP -> Counted(t, r)
    [] r.sti \notin {0, t.sti} /\ r.busy = SLOT_COLLISION ->
         TakenAfterCollision(t, r)
    [] r.sti = t.sti ->
         [CountedOnce(t, r) EXCEPT
            !.life = Life,
            !.busy = IF r.sti = sender THEN SLOT_1HOP ELSE SLOT_2HOP]
    [] r.sti = 0 /\ sender = t.sti -> GivenUpByOwner(t)
    [] OTHER -> t

\* Second loop, a slot held by a two-hop neighbour.
MergeTwoHop(t, r, sender) ==
  CASE r.sti \notin {0, t.sti} /\ r.busy = SLOT_1HOP -> Counted(t, r)
    [] r.sti \notin {0, t.sti} /\ r.busy = SLOT_COLLISION ->
         TakenAfterCollision(t, r)
    [] r.sti = t.sti /\ r.busy = SLOT_1HOP ->
         [CountedOnce(t, r) EXCEPT
            !.life = Life,
            !.busy = IF r.sti = sender THEN SLOT_1HOP ELSE SLOT_2HOP]
    [] r.sti = 0 /\ sender = t.sti -> GivenUpByOwner(t)
    [] OTHER -> t

\* Second loop, a free slot.
MergeFree(t, r, sender) ==
  CASE r.sti # 0 /\ r.busy = SLOT_1HOP ->
         [t EXCEPT !.life = Life, !.sti = r.sti, !.c2 = Count(1),
                   !.c3 = Count(r.c2), !.c3f = CountHops,
                   !.busy = IF r.sti = sender THEN SLOT_1HOP ELSE SLOT_2HOP]
    [] r.sti # 0 /\ r.busy = SLOT_2HOP -> [t EXCEPT !.c3 = Count(@ + r.c2)]
    [] r.sti # 0 /\ r.busy = SLOT_COLLISION -> TakenAfterCollision(t, r)
    [] OTHER -> t

\* Second loop: slots that are locked, or that either side gives to this
\* node, are skipped; a slot marked as a collision is left to age.
SkipsSlot(t, r, me) == t.locker \/ t.sti = me \/ r.sti = me

MergeOther(t, r, sender, me) ==
  CASE SkipsSlot(t, r, me)               -> t
    [] ~SkipsSlot(t, r, me) /\ t.busy = SLOT_1HOP -> MergeOneHop(t, r, sender)
    [] ~SkipsSlot(t, r, me) /\ t.busy = SLOT_2HOP -> MergeTwoHop(t, r, sender)
    [] ~SkipsSlot(t, r, me) /\ t.busy = SLOT_FREE /\ t.sti = 0 ->
         MergeFree(t, r, sender)
    [] OTHER -> t

\* isNewNeighbor(append->sti) as merge_fi's first loop sees it at slot c:
\* the slots before c have been merged already.
KnownAt(tbl, len, f, me, c) ==
  \E k \in 0 .. len - 1 :
    f.sti = IF k < c /\ k < f.len /\ tbl[k].sti = me
            THEN MergeOwn(tbl[k], f.tags[k], me, FALSE).sti
            ELSE tbl[k].sti

\* The table after the first loop, and after both.
OwnSlotsMerged(tbl, len, f, me) ==
  [c \in SlotIdx |->
     IF c < len /\ c < f.len /\ tbl[c].sti = me
     THEN MergeOwn(tbl[c], f.tags[c], me, KnownAt(tbl, len, f, me, c))
     ELSE tbl[c]]

OtherSlotsMerged(tbl, f, me) ==
  [c \in SlotIdx |-> IF c < f.len
                     THEN MergeOther(tbl[c], f.tags[c], f.sti, me)
                     ELSE tbl[c]]

merge_fi(tbl, len, f, me) ==
  OtherSlotsMerged(OwnSlotsMerged(tbl, len, f, me), f, me)

\* Mutant: the longer frame is not restored.
MergedLenKept(tbl, len, f, me) == len

\* merge_fi restores the sender's longer frame when one of the slots beyond
\* the local frame turns out to be in use.
merged_len(tbl, len, f, me) ==
  LET own == OwnSlotsMerged(tbl, len, f, me)
      all == merge_fi(tbl, len, f, me)
  IN  IF \E c \in len .. f.len - 1 :
           ~SkipsSlot(own[c], f.tags[c], me) /\ all[c].sti # 0
      THEN f.len ELSE len

-----------------------------------------------------------------------------
(***************************************************************************)
(* Ageing, in synthesize_fi_list before the merge.  keep holds the slot    *)
(* numbers that the node uses itself: slot_num_ and slot_adj_candidate_.   *)
(***************************************************************************)
\* Mutant: a neighbour is forgotten a frame early.
ExpiresEarly(t) == t.life <= 2

Expires(t) == t.life <= 1

\* Mutant: the node's own slots age like the others.
AgeTagOwnToo(t, me, kept) ==
  CASE t.sti = 0 -> t
    [] t.sti # 0 /\ ~Expires(t) -> [t EXCEPT !.life = @ - 1, !.existed = FALSE,
                                             !.locker = FALSE]
    [] OTHER -> [FreeTag EXCEPT !.locker = TRUE]

AgeTag(t, me, kept) ==
  LET u == IF t.sti # 0 THEN [t EXCEPT !.locker = FALSE] ELSE t
  IN  CASE t.sti = 0 \/ (t.sti = me /\ kept) -> u
        [] t.sti # 0 /\ ~(t.sti = me /\ kept) /\ ~Expires(t) ->
             [u EXCEPT !.life = @ - 1, !.existed = FALSE]
        [] OTHER ->
             CASE t.busy = SLOT_2HOP -> FreeTag
               [] t.busy = SLOT_1HOP /\ t.existed ->
                    [u EXCEPT !.busy = SLOT_2HOP, !.life = Life - 1,
                              !.existed = FALSE]
               [] OTHER -> [FreeTag EXCEPT !.locker = TRUE]

AgeTable(tbl, len, me, keep) ==
  [c \in SlotIdx |-> IF c < len THEN AgeTag(tbl[c], me, c \in keep)
                                ELSE tbl[c]]

\* unlock_flag: some free slot was locked in an earlier frame.
HasOldLock(tbl, len) == \E c \in 0 .. len - 1 : tbl[c].locker /\ tbl[c].sti = 0

\* The last loop of synthesize_fi_list.
UnlockFree(tbl, len) ==
  [c \in SlotIdx |-> IF c < len /\ tbl[c].sti = 0
                     THEN [tbl[c] EXCEPT !.locker = FALSE] ELSE tbl[c]]

\* Mutant: all slots are cleared, the node's own included.
ClearAll(tbl, len, me) ==
  [c \in SlotIdx |-> IF c < len THEN Release(tbl[c], FALSE) ELSE tbl[c]]

\* clear_others_slot_status, used when slot_memory_ is off.
ClearOthers(tbl, len, me) ==
  [c \in SlotIdx |-> IF c < len /\ tbl[c].sti # me
                     THEN Release(tbl[c], FALSE) ELSE tbl[c]]

-----------------------------------------------------------------------------
(***************************************************************************)
(* The constructor of FiHeader codes the table (count_2hop saturates at    *)
(* the 2 bits of BIT_LENGTH_COUNT) and, as a side effect, restarts the     *)
(* counters of the table it codes.                                         *)
(***************************************************************************)
Coded(t) == [busy |-> t.busy, sti |-> t.sti,
             c2 |-> IF t.c2 > 3 THEN 3 ELSE t.c2]

\* Mutant: the last slot of the frame is left out.
CodedTableShort(tbl, len) ==
  [c \in SlotIdx |-> Coded(IF c < len - 1 THEN tbl[c] ELSE FreeTag)]

CodedTable(tbl, len) ==
  [c \in SlotIdx |-> Coded(IF c < len THEN tbl[c] ELSE FreeTag)]

\* The length of the frame goes on the air as its logarithm, rounded down
\* (BIT_LENGTH_FRAMELEN = 4 bits), and the receiver raises 2 to it.
DecodedLen(l) == 2 ^ (CHOOSE k \in 0..15 : 2 ^ k <= l /\ l < 2 ^ (k + 1))

(***************************************************************************)
(* decode_value, for a field of two bits that starts at bit pos.  When the *)
(* field straddles two bytes its first bit is shifted as if a whole byte   *)
(* were read.  (A char holds the result as -128 or -127 where it is        *)
(* signed: no SLOT_ code either way.)  The STI is read correctly, for the  *)
(* one bit it has beyond a byte cannot straddle.                           *)
(***************************************************************************)
decode_value(v, pos) == IF pos % 8 = 7 THEN 128 * (v \div 2) + (v % 2) ELSE v

\* The first bit of slot c: BIT_LENGTH_STI + BIT_LENGTH_FRAMELEN bits of
\* header, then BIT_LENGTH_SLOT_TAG bits per slot.
SlotBit(c) == 13 + 13 * c

\* decode_slot_tag: busy (2 bits), sti (9 bits), count_2hop (2 bits).
decode_slot_tag(t, c) ==
  [busy |-> decode_value(t.busy, SlotBit(c)), sti |-> t.sti,
   c2 |-> decode_value(t.c2, SlotBit(c) + 11)]

CountersRestarted(tbl, len, me) ==
  [c \in SlotIdx |->
     CASE c >= len -> tbl[c]
       [] c < len /\ tbl[c].sti = me ->
            [tbl[c] EXCEPT !.c2 = Count(1), !.c3 = Count(1)]
       [] OTHER -> [tbl[c] EXCEPT !.c3f = FALSE, !.c2 = 0, !.c3 = 0]]

-----------------------------------------------------------------------------
(***************************************************************************)
(* Queries on a table.                                                     *)
(***************************************************************************)
isSingle(tbl, len, me) == \A c \in 0 .. len - 1 : tbl[c].sti \in {0, me}

FreeSlots(tbl, len) == {c \in 0 .. len - 1 : tbl[c].busy = SLOT_FREE}
EmptySlots(tbl, len) == {c \in FreeSlots(tbl, len) : tbl[c].c3 = 0}

=============================================================================
