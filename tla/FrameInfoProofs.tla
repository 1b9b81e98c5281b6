-------------------------- MODULE FrameInfoProofs --------------------------
(***************************************************************************)
(* What the operators of FrameInfo keep true of a tag, for every number of *)
(* stations and slots: it is well typed, and it names a station exactly    *)
(* when it is busy.  All lemmas are about one tag or one table.            *)
(***************************************************************************)
EXTENDS FrameInfo, TLAPS

Named(t) == t.sti = 0 <=> t.busy = SLOT_FREE

GoodTag == {t \in slot_tag : Named(t)}
GoodWire == {w \in WireTag : Named(w)}
GoodDecoded == {w \in DecodedTag : Named(w)}
GoodTable == [SlotIdx -> GoodTag]

\* A received FI whose tags are good.
GoodFi(f) == f.sti \in Node /\ f.len \in FrameLens /\ f.tags \in [SlotIdx -> GoodDecoded]

-----------------------------------------------------------------------------
\* No station has STI 0, which means "nobody".
LEMMA NoNodeIsZero == 0 \notin Node
  BY NodeAssumption

\* A counter stays within its bound.
LEMMA CountType ==
  ASSUME NEW x \in Nat
  PROVE  Count(x) \in 0..CountCap
  BY CountAssumption DEF Count

\* So do the counts that slotHandler and merge_fi start from.
LEMMA CountOne == Count(1) \in 0..CountCap /\ 0 \in 0..CountCap
  BY CountType, CountAssumption

\* The four states of a slot, of which one is free.
LEMMA Codes ==
  /\ SLOT_FREE \in Busy /\ SLOT_2HOP \in Busy /\ SLOT_1HOP \in Busy
  /\ SLOT_COLLISION \in Busy
  /\ SLOT_2HOP # SLOT_FREE /\ SLOT_1HOP # SLOT_FREE /\ SLOT_COLLISION # SLOT_FREE
  BY DEF Busy, SLOT_FREE, SLOT_2HOP, SLOT_1HOP, SLOT_COLLISION

\* The lives that merge_fi and the ageing assign.
LEMMA Lives == 0 \in 0..Life /\ Life \in 0..Life /\ Life - 1 \in 0..Life
  BY LifeAssumption

\* What an STI field may hold.
LEMMA Names == 0 \in Sti /\ Node \subseteq Sti /\ 0 \notin Node
  BY NoNodeIsZero DEF Sti

\* A new tag, and one freed by ageing, is good.
LEMMA FreeTagGood == FreeTag \in GoodTag /\ [FreeTag EXCEPT !.locker = TRUE] \in GoodTag
<1>1. FreeTag \in slot_tag
  BY CountOne, Lives, Names, Codes DEF FreeTag, slot_tag
<1>2. Named(FreeTag)
  BY DEF FreeTag, Named
<1>3. [FreeTag EXCEPT !.locker = TRUE] \in slot_tag
  BY <1>1 DEF slot_tag
<1>4. Named([FreeTag EXCEPT !.locker = TRUE])
  BY DEF FreeTag, Named
<1> QED
  BY <1>1, <1>2, <1>3, <1>4 DEF GoodTag

\* Claiming a slot leaves a good tag.
LEMMA ClaimGood ==
  ASSUME NEW t \in GoodTag, NEW me \in Node
  PROVE  Claim(t, me) \in GoodTag
<1>1. Claim(t, me) \in slot_tag
  BY CountOne, Names, Codes DEF Claim, GoodTag, slot_tag
<1>2. Claim(t, me).sti = me /\ Claim(t, me).busy = SLOT_1HOP
  BY DEF Claim, GoodTag, slot_tag
<1> QED
  BY <1>1, <1>2, Names, Codes DEF GoodTag, Named

\* So does releasing it.
LEMMA ReleaseGood ==
  ASSUME NEW t \in GoodTag, NEW lock \in BOOLEAN
  PROVE  Release(t, lock) \in GoodTag
<1>1. Release(t, lock) \in slot_tag
  BY CountOne, Names, Codes DEF Release, GoodTag, slot_tag
<1>2. Release(t, lock).sti = 0 /\ Release(t, lock).busy = SLOT_FREE
  BY DEF Release, GoodTag, slot_tag
<1> QED
  BY <1>1, <1>2 DEF GoodTag, Named

\* A collision report leaves a good tag: it names a station.
LEMMA TakenGood ==
  ASSUME NEW t \in GoodTag, NEW r \in GoodDecoded, r.sti # 0
  PROVE  TakenAfterCollision(t, r) \in GoodTag
<1>1. r.sti \in Sti
  BY DEF GoodDecoded, DecodedTag, DecodedBits
<1>2. TakenAfterCollision(t, r) \in slot_tag
  BY <1>1, CountOne, Lives, Codes DEF TakenAfterCollision, GoodTag, slot_tag
<1>3. /\ TakenAfterCollision(t, r).sti = r.sti
      /\ TakenAfterCollision(t, r).busy = SLOT_2HOP
  BY DEF TakenAfterCollision, GoodTag, slot_tag
<1> QED
  BY <1>2, <1>3, Codes DEF GoodTag, Named

\* So does an owner who gives its slot up.
LEMMA GivenUpGood ==
  ASSUME NEW t \in GoodTag
  PROVE  GivenUpByOwner(t) \in GoodTag
<1>1. GivenUpByOwner(t) \in slot_tag
  BY CountOne, Lives, Names, Codes DEF GivenUpByOwner, GoodTag, slot_tag
<1>2. GivenUpByOwner(t).sti = 0 /\ GivenUpByOwner(t).busy = SLOT_FREE
  BY DEF GivenUpByOwner, GoodTag, slot_tag
<1> QED
  BY <1>1, <1>2 DEF GoodTag, Named

\* The counters of a tag do not matter to GoodTag as long as they are counters.
LEMMA CountersGood ==
  ASSUME NEW t \in GoodTag, NEW r \in GoodDecoded
  PROVE  /\ Counted(t, r) \in GoodTag
         /\ CountedOnce(t, r) \in GoodTag
         /\ CountedOnce(t, r).sti = t.sti
         /\ CountedOnce(t, r).busy = t.busy
         /\ [t EXCEPT !.c3 = Count(@ + r.c2)] \in GoodTag
<1>1. t.c2 + 1 \in Nat /\ t.c3 + r.c2 \in Nat
  BY CountAssumption DEF GoodTag, GoodDecoded, DecodedTag, DecodedBits, slot_tag
<1>2. Count(t.c2 + 1) \in 0..CountCap /\ Count(t.c3 + r.c2) \in 0..CountCap
  BY <1>1, CountType
<1>3. /\ Counted(t, r) \in GoodTag /\ [t EXCEPT !.c3 = Count(@ + r.c2)] \in GoodTag
      /\ Counted(t, r).sti = t.sti /\ Counted(t, r).busy = t.busy
  BY <1>2 DEF Counted, GoodTag, slot_tag, Named
<1>4. [Counted(t, r) EXCEPT !.c3f = CountHops] \in GoodTag
  BY <1>3, CountAssumption DEF GoodTag, slot_tag, Named
<1> QED
  BY <1>3, <1>4 DEF CountedOnce, GoodTag, slot_tag

\* Neither do the other fields, nor which kind of busy a busy tag is.
LEMMA FieldsGood ==
  ASSUME NEW t \in GoodTag, NEW l \in 0..Life, NEW b \in BOOLEAN
  PROVE  /\ [t EXCEPT !.life = l] \in GoodTag
         /\ [t EXCEPT !.existed = b] \in GoodTag
         /\ [t EXCEPT !.locker = b] \in GoodTag
         /\ [t EXCEPT !.life = l, !.existed = b] \in GoodTag
         /\ [t EXCEPT !.locker = b].sti = t.sti
         /\ [t EXCEPT !.locker = b].busy = t.busy
         /\ [t EXCEPT !.locker = b].life = t.life
  BY DEF GoodTag, slot_tag, Named

\* A busy tag may change from one kind of busy to another.
LEMMA BusyGood ==
  ASSUME NEW t \in GoodTag, NEW l \in 0..Life, NEW b \in Busy \ {SLOT_FREE},
         NEW x \in BOOLEAN, t.sti # 0
  PROVE  /\ [t EXCEPT !.busy = b] \in GoodTag
         /\ [t EXCEPT !.life = l, !.busy = b] \in GoodTag
         /\ [t EXCEPT !.busy = b, !.life = l, !.existed = x] \in GoodTag
<1>1. t \in slot_tag
  BY DEF GoodTag
<1>2. /\ [t EXCEPT !.busy = b] \in slot_tag
      /\ [t EXCEPT !.life = l, !.busy = b] \in slot_tag
      /\ [t EXCEPT !.busy = b, !.life = l, !.existed = x] \in slot_tag
  BY <1>1 DEF slot_tag
<1>3. /\ Named([t EXCEPT !.busy = b]) /\ Named([t EXCEPT !.life = l, !.busy = b])
      /\ Named([t EXCEPT !.busy = b, !.life = l, !.existed = x])
  BY <1>1 DEF slot_tag, Named
<1> QED
  BY <1>2, <1>3 DEF GoodTag

-----------------------------------------------------------------------------
(***************************************************************************)
(* merge_fi, tag by tag.                                                   *)
(***************************************************************************)
\* The first loop of merge_fi keeps a tag good.
LEMMA MergeOwnGood ==
  ASSUME NEW t \in GoodTag, NEW r \in GoodDecoded, NEW me \in Node,
         NEW known \in BOOLEAN, t.sti = me
  PROVE  MergeOwn(t, r, me, known) \in GoodTag
<1>1. t.sti # 0
  BY Names
<1>2. [t EXCEPT !.busy = SLOT_COLLISION] \in GoodTag
  BY <1>1, BusyGood, Codes, Lives
<1>3. [t EXCEPT !.c3 = Count(@ + r.c2)] \in GoodTag
  BY CountersGood
<1>4. r.sti # 0 => TakenAfterCollision(t, r) \in GoodTag
  BY TakenGood
<1> QED
  BY <1>2, <1>3, <1>4 DEF MergeOwn

\* The second loop does, for a slot of a one-hop neighbour,
LEMMA MergeOneHopGood ==
  ASSUME NEW t \in GoodTag, NEW r \in GoodDecoded, NEW sender \in Node,
         t.busy = SLOT_1HOP
  PROVE  MergeOneHop(t, r, sender) \in GoodTag
<1>1. t.sti # 0
  BY Codes DEF GoodTag, Named
<1>2. [t EXCEPT !.life = Life, !.busy = SLOT_COLLISION] \in GoodTag
  BY <1>1, BusyGood, Codes, Lives
<1>3. /\ [t EXCEPT !.c3 = Count(@ + r.c2)] \in GoodTag
      /\ Counted(t, r) \in GoodTag
      /\ [CountedOnce(t, r) EXCEPT !.life = Life] \in GoodTag
  BY CountersGood, FieldsGood, Lives
<1>4. r.sti # 0 => TakenAfterCollision(t, r) \in GoodTag
  BY TakenGood
<1>5. [t EXCEPT !.existed = TRUE] \in GoodTag /\ GivenUpByOwner(t) \in GoodTag
  BY FieldsGood, GivenUpGood, Lives
<1> QED
  BY <1>2, <1>3, <1>4, <1>5 DEF MergeOneHop

\* for a slot of a two-hop neighbour,
LEMMA MergeTwoHopGood ==
  ASSUME NEW t \in GoodTag, NEW r \in GoodDecoded, NEW sender \in Node,
         t.busy = SLOT_2HOP
  PROVE  MergeTwoHop(t, r, sender) \in GoodTag
<1>1. t.sti # 0
  BY Codes DEF GoodTag, Named
<1>2. CountedOnce(t, r) \in GoodTag /\ CountedOnce(t, r).sti # 0
  BY <1>1, CountersGood
<1>3. [CountedOnce(t, r) EXCEPT
         !.life = Life,
         !.busy = IF r.sti = sender THEN SLOT_1HOP ELSE SLOT_2HOP] \in GoodTag
  BY <1>2, BusyGood, Codes, Lives
<1>4. Counted(t, r) \in GoodTag /\ GivenUpByOwner(t) \in GoodTag
  BY CountersGood, GivenUpGood
<1>5. r.sti # 0 => TakenAfterCollision(t, r) \in GoodTag
  BY TakenGood
<1> QED
  BY <1>3, <1>4, <1>5 DEF MergeTwoHop

\* for a free slot,
LEMMA MergeFreeGood ==
  ASSUME NEW t \in GoodTag, NEW r \in GoodDecoded, NEW sender \in Node
  PROVE  MergeFree(t, r, sender) \in GoodTag
<1> DEFINE b == IF r.sti = sender THEN SLOT_1HOP ELSE SLOT_2HOP
           u == [t EXCEPT !.life = Life, !.sti = r.sti, !.c2 = Count(1),
                          !.c3 = Count(r.c2), !.c3f = CountHops, !.busy = b]
<1>1. b \in Busy /\ b # SLOT_FREE /\ r.sti \in Sti /\ r.c2 \in Nat
  BY Codes DEF GoodDecoded, DecodedTag, DecodedBits
<1>2. Count(r.c2) \in 0..CountCap
  BY <1>1, CountType
<1> HIDE DEF b
<1>3. t \in slot_tag
  BY DEF GoodTag
<1>4. u \in slot_tag /\ u.sti = r.sti /\ u.busy = b
  BY <1>1, <1>2, <1>3, CountOne, Lives, CountAssumption DEF slot_tag
<1>5. r.sti # 0 => u \in GoodTag
  BY <1>1, <1>4 DEF GoodTag, Named
<1>6. [t EXCEPT !.c3 = Count(@ + r.c2)] \in GoodTag
  BY CountersGood
<1>7. r.sti # 0 => TakenAfterCollision(t, r) \in GoodTag
  BY TakenGood
<1> QED
  BY <1>5, <1>6, <1>7 DEF MergeFree, b

\* and so for every slot.
LEMMA MergeOtherGood ==
  ASSUME NEW t \in GoodTag, NEW r \in GoodDecoded, NEW sender \in Node, NEW me
  PROVE  MergeOther(t, r, sender, me) \in GoodTag
  BY MergeOneHopGood, MergeTwoHopGood, MergeFreeGood DEF MergeOther

\* Ageing a tag.
LEMMA AgeTagGood ==
  ASSUME NEW t \in GoodTag, NEW me, NEW kept \in BOOLEAN
  PROVE  AgeTag(t, me, kept) \in GoodTag
<1> DEFINE u == IF t.sti # 0 THEN [t EXCEPT !.locker = FALSE] ELSE t
<1>1. u \in GoodTag /\ u.sti = t.sti /\ u.life = t.life
  BY FieldsGood, Lives
<1>2. t.life \in 0..Life
  BY DEF GoodTag, slot_tag
<1> HIDE DEF u
<1>3. ~Expires(t) => u.life - 1 \in 0..Life
  BY <1>1, <1>2, LifeAssumption DEF Expires
<1>4. ~Expires(t) => [u EXCEPT !.life = @ - 1, !.existed = FALSE] \in GoodTag
  BY <1>1, <1>3, FieldsGood
<1>5. t.sti # 0 =>
        [u EXCEPT !.busy = SLOT_2HOP, !.life = Life - 1, !.existed = FALSE] \in GoodTag
  BY <1>1, BusyGood, Codes, Lives
<1>6. FreeTag \in GoodTag /\ [FreeTag EXCEPT !.locker = TRUE] \in GoodTag
  BY FreeTagGood
<1>7. AgeTag(t, me, kept) =
        CASE t.sti = 0 \/ (t.sti = me /\ kept) -> u
          [] t.sti # 0 /\ ~(t.sti = me /\ kept) /\ ~Expires(t) ->
               [u EXCEPT !.life = @ - 1, !.existed = FALSE]
          [] OTHER ->
               CASE t.busy = SLOT_2HOP -> FreeTag
                 [] t.busy = SLOT_1HOP /\ t.existed ->
                      [u EXCEPT !.busy = SLOT_2HOP, !.life = Life - 1,
                                !.existed = FALSE]
                 [] OTHER -> [FreeTag EXCEPT !.locker = TRUE]
  BY DEF AgeTag, u
<1> QED
  BY <1>1, <1>4, <1>5, <1>6, <1>7

-----------------------------------------------------------------------------
(***************************************************************************)
(* Tables.                                                                 *)
(***************************************************************************)
\* clear_FI.
LEMMA FreeTableGood == [c \in SlotIdx |-> FreeTag] \in GoodTable
  BY FreeTagGood DEF GoodTable

\* slotHandler's writes; an index outside the table changes nothing here.
LEMMA WriteGood ==
  ASSUME NEW tbl \in GoodTable, NEW c, NEW me \in Node, NEW lock \in BOOLEAN
  PROVE  /\ [tbl EXCEPT ![c] = Claim(@, me)] \in GoodTable
         /\ [tbl EXCEPT ![c] = Release(@, lock)] \in GoodTable
<1>1. \A k \in SlotIdx : tbl[k] \in GoodTag
  BY DEF GoodTable
<1>2. \A k \in SlotIdx : /\ Claim(tbl[k], me) \in GoodTag
                         /\ Release(tbl[k], lock) \in GoodTag
  BY <1>1, ClaimGood, ReleaseGood
<1> QED
  BY <1>2 DEF GoodTable

\* merge_fi.
LEMMA MergeGood ==
  ASSUME NEW tbl \in GoodTable, NEW len, NEW f, GoodFi(f), NEW me \in Node
  PROVE  merge_fi(tbl, len, f, me) \in GoodTable
<1>1. f.sti \in Node /\ \A c \in SlotIdx : f.tags[c] \in GoodDecoded
  BY DEF GoodFi
<1>2. \A t \in GoodTable : \A c \in SlotIdx : t[c] \in GoodTag
  BY DEF GoodTable
<1>3. \A c : KnownAt(tbl, len, f, me, c) \in BOOLEAN
  BY DEF KnownAt
<1>4. OwnSlotsMerged(tbl, len, f, me) \in GoodTable
  <2>1. \A c \in SlotIdx : tbl[c].sti = me =>
          MergeOwn(tbl[c], f.tags[c], me, KnownAt(tbl, len, f, me, c)) \in GoodTag
    BY <1>1, <1>2, <1>3, MergeOwnGood
  <2> QED
    BY <1>2, <2>1 DEF OwnSlotsMerged, GoodTable
<1>5. ASSUME NEW t \in GoodTable PROVE OtherSlotsMerged(t, f, me) \in GoodTable
  <2>1. \A c \in SlotIdx : MergeOther(t[c], f.tags[c], f.sti, me) \in GoodTag
    BY <1>1, <1>2, MergeOtherGood
  <2> QED
    BY <1>2, <2>1 DEF OtherSlotsMerged, GoodTable
<1> QED
  BY <1>4, <1>5 DEF merge_fi

\* The frame length merge_fi restores is one a frame may have.
LEMMA MergedLenType ==
  ASSUME NEW tbl, NEW len \in FrameLens, NEW f, f.len \in FrameLens, NEW me
  PROVE  merged_len(tbl, len, f, me) \in FrameLens
  BY DEF merged_len

\* synthesize_fi_list: ageing, clearing, unlocking.
LEMMA AgeTableGood ==
  ASSUME NEW tbl \in GoodTable, NEW len, NEW me, NEW keep
  PROVE  AgeTable(tbl, len, me, keep) \in GoodTable
<1>1. \A c \in SlotIdx : tbl[c] \in GoodTag
  BY DEF GoodTable
<1>2. \A c \in SlotIdx : AgeTag(tbl[c], me, c \in keep) \in GoodTag
  <2>1. \A c : (c \in keep) \in BOOLEAN
    OBVIOUS
  <2> QED
    BY <1>1, <2>1, AgeTagGood
<1> QED
  BY <1>1, <1>2 DEF AgeTable, GoodTable

\* clear_others_slot_status keeps a table good.
LEMMA ClearOthersGood ==
  ASSUME NEW tbl \in GoodTable, NEW len, NEW me
  PROVE  ClearOthers(tbl, len, me) \in GoodTable
<1>1. \A c \in SlotIdx : tbl[c] \in GoodTag /\ Release(tbl[c], FALSE) \in GoodTag
  BY ReleaseGood DEF GoodTable
<1> QED
  BY <1>1 DEF ClearOthers, GoodTable

\* Unlocking free slots keeps a table good.
LEMMA UnlockFreeGood ==
  ASSUME NEW tbl \in GoodTable, NEW len
  PROVE  UnlockFree(tbl, len) \in GoodTable
<1>1. \A c \in SlotIdx : /\ tbl[c] \in GoodTag
                         /\ [tbl[c] EXCEPT !.locker = FALSE] \in GoodTag
  BY FieldsGood, Lives DEF GoodTable
<1> QED
  BY <1>1 DEF UnlockFree, GoodTable

\* FiHeader: what goes on the air, and the counters it restarts.
LEMMA CodedTableGood ==
  ASSUME NEW tbl \in GoodTable, NEW len
  PROVE  CodedTable(tbl, len) \in [SlotIdx -> GoodWire]
<1>1. ASSUME NEW t \in GoodTag PROVE Coded(t) \in GoodWire
  <2>1. t.busy \in Busy /\ t.sti \in Sti /\ t.c2 \in Nat /\ Named(t)
    BY CountAssumption DEF GoodTag, slot_tag
  <2>2. (IF t.c2 > 3 THEN 3 ELSE t.c2) \in 0..3
    BY <2>1
  <2>3. Coded(t) \in WireTag
    BY <2>1, <2>2 DEF Coded, WireTag
  <2>4. Named(Coded(t))
    BY <2>1 DEF Coded, Named
  <2> QED
    BY <2>3, <2>4 DEF GoodWire
<1>2. \A c \in SlotIdx : tbl[c] \in GoodTag
  BY DEF GoodTable
<1> QED
  BY <1>1, <1>2, FreeTagGood DEF CodedTable

\* recvFI decodes a good tag into a good tag, even where it misreads a field:
\* a free slot is read as free and a busy one as busy.
LEMMA DecodedGood ==
  ASSUME NEW t \in GoodWire, NEW c \in SlotIdx
  PROVE  decode_slot_tag(t, c) \in GoodDecoded
<1>1. t.busy \in 0..3 /\ t.c2 \in 0..3 /\ t.sti \in Sti /\ Named(t)
  BY DEF GoodWire, WireTag, Busy, SLOT_FREE, SLOT_2HOP, SLOT_1HOP, SLOT_COLLISION
<1>2. ASSUME NEW v \in 0..3, NEW pos
      PROVE  /\ decode_value(v, pos) \in DecodedBits
             /\ decode_value(v, pos) = 0 <=> v = 0
  <2>1. v \in {0, 1, 2, 3}
    BY <1>2
  <2> QED
    BY <2>1 DEF decode_value, DecodedBits
<1> QED
  BY <1>1, <1>2 DEF decode_slot_tag, GoodDecoded, DecodedTag, Named, SLOT_FREE

\* Restarting the counters keeps a table good.
LEMMA CountersRestartedGood ==
  ASSUME NEW tbl \in GoodTable, NEW len, NEW me
  PROVE  CountersRestarted(tbl, len, me) \in GoodTable
<1>1. \A c \in SlotIdx : tbl[c] \in GoodTag
  BY DEF GoodTable
<1>2. ASSUME NEW t \in GoodTag
      PROVE  /\ [t EXCEPT !.c2 = Count(1), !.c3 = Count(1)] \in GoodTag
             /\ [t EXCEPT !.c3f = FALSE, !.c2 = 0, !.c3 = 0] \in GoodTag
  BY CountOne DEF GoodTag, slot_tag, Named
<1> QED
  BY <1>1, <1>2 DEF CountersRestarted, GoodTable

\* A good table is a table.
LEMMA GoodIsTyped ==
  /\ GoodTable \subseteq Table
  /\ \A tbl \in GoodTable, c \in SlotIdx : Named(tbl[c])
  /\ [SlotIdx -> GoodWire] \subseteq [SlotIdx -> WireTag]
  /\ [SlotIdx -> GoodDecoded] \subseteq [SlotIdx -> DecodedTag]
<1>1. /\ GoodTag \subseteq slot_tag /\ GoodWire \subseteq WireTag
      /\ GoodDecoded \subseteq DecodedTag
  BY DEF GoodTag, GoodWire, GoodDecoded
<1>2. \A t \in GoodTag : Named(t)
  BY DEF GoodTag
<1> QED
  BY <1>1, <1>2 DEF GoodTable, Table

-----------------------------------------------------------------------------
(***************************************************************************)
(* Whose slot it is: what the operators make of the claims in a table.     *)
(***************************************************************************)
\* A received tag speaks against me using the slot.
Against(r, me) == \/ r.sti \notin {0, me} /\ r.busy \in Busy \ {SLOT_2HOP}
                  \/ r.sti = me /\ r.busy = SLOT_FREE

\* The first loop of merge_fi gives no slot to the node and locks none, leaves
\* an uncontested slot alone, and marks or hands over a contested one.
LEMMA MergeOwnClaims ==
  ASSUME NEW t \in GoodTag, NEW r \in GoodDecoded, NEW me \in Node,
         NEW known \in BOOLEAN, t.sti = me
  PROVE  LET u == MergeOwn(t, r, me, known)
         IN  /\ u.sti = me => u.locker = t.locker
             /\ u.sti = me /\ u.busy = SLOT_1HOP =>
                  t.busy = SLOT_1HOP /\ ~Against(r, me)
             /\ r.sti = me => u = t
<1> DEFINE u == MergeOwn(t, r, me, known)
<1>1. t \in slot_tag /\ (r.sti = 0 <=> r.busy = SLOT_FREE) /\ me # 0
  BY Names DEF GoodTag, GoodDecoded, Named
<1>2. CASE r.sti = me
  <2>1. u = t
    BY <1>1, <1>2 DEF MergeOwn
  <2> QED
    BY <1>1, <1>2, <2>1 DEF Against
<1>3. CASE r.sti = 0
  <2>1. u = t \/ u = [t EXCEPT !.busy = SLOT_COLLISION]
    BY <1>1, <1>3 DEF MergeOwn
  <2> QED
    BY <1>1, <1>3, <2>1 DEF Against, slot_tag, SLOT_COLLISION, SLOT_1HOP
<1>4. CASE r.sti \notin {0, me}
  <2>1. CASE r.busy \in {SLOT_1HOP, SLOT_FREE}
    <3>1. u = [t EXCEPT !.busy = SLOT_COLLISION]
      BY <1>1, <1>4, <2>1
      DEF MergeOwn, SLOT_2HOP, SLOT_FREE, SLOT_1HOP, SLOT_COLLISION
    <3> QED
      BY <1>1, <1>4, <3>1 DEF slot_tag, SLOT_COLLISION, SLOT_1HOP
  <2>2. CASE r.busy = SLOT_2HOP
    <3>1. u = [t EXCEPT !.c3 = Count(@ + r.c2)]
      BY <1>1, <1>4, <2>2
      DEF MergeOwn, SLOT_2HOP, SLOT_FREE, SLOT_1HOP, SLOT_COLLISION
    <3> QED
      BY <1>1, <1>4, <2>2, <3>1 DEF slot_tag, Against
  <2>3. CASE r.busy = SLOT_COLLISION
    <3>1. u = TakenAfterCollision(t, r)
      BY <1>1, <1>4, <2>3
      DEF MergeOwn, SLOT_2HOP, SLOT_FREE, SLOT_1HOP, SLOT_COLLISION
    <3>2. u.sti = r.sti
      BY <1>1, <3>1 DEF slot_tag, TakenAfterCollision
    <3> QED
      BY <1>4, <3>2
  <2>4. CASE r.busy \notin Busy
    <3>1. u = t
      BY <1>1, <1>4, <2>4 DEF MergeOwn, Busy
    <3> QED
      BY <1>1, <1>4, <2>4, <3>1 DEF Against
  <2> QED
    BY <2>1, <2>2, <2>3, <2>4 DEF Busy
<1> QED
  BY <1>2, <1>3, <1>4

\* The second loop leaves the node's slots alone and gives it no other one.
LEMMA MergeOtherClaims ==
  ASSUME NEW t \in GoodTag, NEW r \in GoodDecoded, NEW sender \in Node,
         NEW me \in Node
  PROVE  /\ t.sti = me => MergeOther(t, r, sender, me) = t
         /\ t.sti # me => MergeOther(t, r, sender, me).sti # me
<1> DEFINE u == MergeOther(t, r, sender, me)
<1>1. t \in slot_tag /\ me # 0
  BY Names DEF GoodTag
<1>2. SkipsSlot(t, r, me) => u = t
  BY DEF MergeOther
<1>3. ASSUME ~SkipsSlot(t, r, me) PROVE u.sti \in {0, t.sti, r.sti}
  <2>1. /\ TakenAfterCollision(t, r).sti = r.sti
        /\ GivenUpByOwner(t).sti = 0
        /\ Counted(t, r).sti = t.sti
    BY <1>1 DEF slot_tag, TakenAfterCollision, GivenUpByOwner, Counted
  <2>2. CountedOnce(t, r) \in slot_tag /\ CountedOnce(t, r).sti = t.sti
    BY CountersGood DEF GoodTag
  <2>3. MergeOneHop(t, r, sender).sti \in {0, t.sti, r.sti}
    <3>1. /\ [t EXCEPT !.life = Life, !.busy = SLOT_COLLISION].sti = t.sti
          /\ [t EXCEPT !.c3 = Count(@ + r.c2)].sti = t.sti
          /\ [CountedOnce(t, r) EXCEPT !.life = Life].sti = t.sti
          /\ [t EXCEPT !.existed = TRUE].sti = t.sti
      BY <1>1, <2>2 DEF slot_tag
    <3> QED
      BY <2>1, <3>1 DEF MergeOneHop
  <2>4. MergeTwoHop(t, r, sender).sti \in {0, t.sti, r.sti}
    <3>1. [CountedOnce(t, r) EXCEPT
             !.life = Life,
             !.busy = IF r.sti = sender THEN SLOT_1HOP ELSE SLOT_2HOP].sti = t.sti
      BY <2>2 DEF slot_tag
    <3> QED
      BY <2>1, <3>1 DEF MergeTwoHop
  <2>5. MergeFree(t, r, sender).sti \in {0, t.sti, r.sti}
    <3>1. /\ [t EXCEPT !.life = Life, !.sti = r.sti, !.c2 = Count(1),
                !.c3 = Count(r.c2), !.c3f = CountHops,
                !.busy = IF r.sti = sender THEN SLOT_1HOP ELSE SLOT_2HOP].sti = r.sti
          /\ [t EXCEPT !.c3 = Count(@ + r.c2)].sti = t.sti
      BY <1>1 DEF slot_tag
    <3> QED
      BY <2>1, <3>1 DEF MergeFree
  <2> QED
    BY <1>3, <2>3, <2>4, <2>5 DEF MergeOther
<1> QED
  BY <1>1, <1>2, <1>3 DEF SkipsSlot

\* merge_fi gives the node no slot and locks none of its slots; a slot that is
\* still the node's, unmarked, was so before and the FI does not object; and a
\* slot that the FI gives to the node, or says nothing of, is left alone.
LEMMA MergeClaims ==
  ASSUME NEW tbl \in GoodTable, NEW len, NEW f, GoodFi(f), NEW me \in Node,
         NEW c \in SlotIdx
  PROVE  LET u == merge_fi(tbl, len, f, me)[c]
         IN  /\ u.sti = me => tbl[c].sti = me /\ u.locker = tbl[c].locker
             /\ u.sti = me /\ u.busy = SLOT_1HOP =>
                  /\ tbl[c].busy = SLOT_1HOP
                  /\ c < len /\ c < f.len => ~Against(f.tags[c], me)
             /\ tbl[c].sti = me /\ (~(c < f.len) \/ f.tags[c].sti = me) =>
                  u = tbl[c]
<1> DEFINE own == OwnSlotsMerged(tbl, len, f, me)[c]
           known == KnownAt(tbl, len, f, me, c)
           r == f.tags[c]
           u == merge_fi(tbl, len, f, me)[c]
           hit == c < len /\ c < f.len /\ tbl[c].sti = me
<1>1. tbl[c] \in GoodTag /\ r \in GoodDecoded /\ f.sti \in Node
  BY DEF GoodTable, GoodFi
<1>2. known \in BOOLEAN
  BY DEF KnownAt
<1>3. own = IF hit THEN MergeOwn(tbl[c], r, me, known) ELSE tbl[c]
  BY DEF OwnSlotsMerged
<1>4. u = IF c < f.len THEN MergeOther(own, r, f.sti, me) ELSE own
  BY DEF merge_fi, OtherSlotsMerged
<1>5. own \in GoodTag
  BY <1>1, <1>2, <1>3, MergeOwnGood
<1> HIDE DEF own, u, known, r
<1>6. u.sti = me => u = own
  BY <1>1, <1>4, <1>5, MergeOtherClaims
<1>7. own.sti = me => u = own
  BY <1>1, <1>4, <1>5, MergeOtherClaims
<1>8. CASE hit
  <2> DEFINE o == MergeOwn(tbl[c], r, me, known)
  <2>1. /\ o.sti = me => o.locker = tbl[c].locker
        /\ o.sti = me /\ o.busy = SLOT_1HOP =>
             tbl[c].busy = SLOT_1HOP /\ ~Against(r, me)
        /\ r.sti = me => o = tbl[c]
    BY <1>1, <1>2, <1>8, MergeOwnClaims
  <2>2. own = o
    BY <1>3, <1>8
  <2> HIDE DEF o
  <2> QED
    BY <1>6, <1>7, <1>8, <2>1, <2>2 DEF u, r
<1>9. CASE ~hit
  <2>1. own = tbl[c]
    BY <1>3, <1>9
  <2>2. u.sti = me => ~(c < len /\ c < f.len)
    BY <1>6, <1>9, <2>1
  <2> QED
    BY <1>6, <1>7, <2>1, <2>2 DEF u, r
<1> QED
  BY <1>8, <1>9

\* merge_fi never shortens the frame, and leaves nothing beyond it: when it
\* takes over an entry there it takes over the length as well.
LEMMA MergeBeyond ==
  ASSUME NEW tbl \in GoodTable, NEW len \in FrameLens, NEW f, GoodFi(f),
         NEW me \in Node, \A c \in SlotIdx : c >= len => tbl[c].sti = 0
  PROVE  LET l == merged_len(tbl, len, f, me)
         IN  /\ l >= len /\ l \in {len, f.len}
             /\ \A c \in SlotIdx : c >= l => merge_fi(tbl, len, f, me)[c].sti = 0
<1> DEFINE own == OwnSlotsMerged(tbl, len, f, me)
           all == merge_fi(tbl, len, f, me)
           l == merged_len(tbl, len, f, me)
           grows == \E c \in len .. f.len - 1 :
                      ~SkipsSlot(own[c], f.tags[c], me) /\ all[c].sti # 0
<1>1. /\ len \in 1..MaxLen /\ f.len \in 1..MaxLen /\ MaxLen \in Nat
      /\ len .. f.len - 1 \subseteq SlotIdx
  BY FrameLensAssumption, MaxLenAssumption DEF GoodFi, SlotIdx
<1>2. l = IF grows THEN f.len ELSE len
  BY DEF merged_len
<1>3. grows => f.len > len
  BY <1>1
<1>4. ASSUME NEW c \in SlotIdx, c >= len PROVE own[c] = tbl[c]
  <2>1. c \in Int /\ ~(c < len)
    BY <1>1, <1>4 DEF SlotIdx
  <2> QED
    BY <2>1 DEF OwnSlotsMerged
<1>5. ASSUME NEW c \in SlotIdx
      PROVE  all[c] = IF c < f.len THEN MergeOther(own[c], f.tags[c], f.sti, me)
                                   ELSE own[c]
  BY DEF merge_fi, OtherSlotsMerged
<1> HIDE DEF own, all, l, grows
<1>6. ASSUME NEW c \in SlotIdx, c >= l PROVE all[c].sti = 0
  <2>1. c \in Int /\ c >= len
    BY <1>1, <1>2, <1>3, <1>6 DEF SlotIdx
  <2>2. own[c].sti = 0
    BY <1>4, <2>1
  <2>3. CASE c < f.len
    <3>1. ~grows /\ c \in len .. f.len - 1
      BY <1>1, <1>2, <1>6, <2>1, <2>3
    <3>2. SkipsSlot(own[c], f.tags[c], me) \/ all[c].sti = 0
      BY <3>1 DEF grows
    <3>3. SkipsSlot(own[c], f.tags[c], me) => all[c] = own[c]
      BY <1>5, <2>3 DEF MergeOther
    <3> QED
      BY <2>2, <3>2, <3>3
  <2>4. CASE ~(c < f.len)
    BY <1>5, <2>2, <2>4
  <2> QED
    BY <2>3, <2>4
<1>7. l >= len /\ l \in {len, f.len}
  BY <1>1, <1>2, <1>3
<1> QED
  BY <1>6, <1>7 DEF l, all

\* Ageing gives the node no slot and leaves the slots it uses to it, unlocked.
LEMMA AgeClaims ==
  ASSUME NEW tbl \in GoodTable, NEW len, NEW me \in Node, NEW keep,
         NEW c \in SlotIdx
  PROVE  LET u == AgeTable(tbl, len, me, keep)[c]
         IN  /\ u.sti = me => tbl[c].sti = me
             /\ u.sti = me /\ c < len => ~u.locker
             /\ tbl[c].sti = 0 => u.sti = 0
             /\ tbl[c].sti = me /\ c \in keep => u.sti = me /\ u.busy = tbl[c].busy
<1> DEFINE t == tbl[c]
           kept == c \in keep
           v == IF t.sti # 0 THEN [t EXCEPT !.locker = FALSE] ELSE t
           a == AgeTag(t, me, kept)
<1>1. t \in slot_tag /\ me # 0
  BY Names DEF GoodTable, GoodTag
<1>2. /\ v \in slot_tag /\ v.sti = t.sti /\ v.busy = t.busy
      /\ t.sti # 0 => v.locker = FALSE
  BY <1>1 DEF slot_tag
<1>3. a = CASE t.sti = 0 \/ (t.sti = me /\ kept) -> v
            [] t.sti # 0 /\ ~(t.sti = me /\ kept) /\ ~Expires(t) ->
                 [v EXCEPT !.life = @ - 1, !.existed = FALSE]
            [] OTHER ->
                 CASE t.busy = SLOT_2HOP -> FreeTag
                   [] t.busy = SLOT_1HOP /\ t.existed ->
                        [v EXCEPT !.busy = SLOT_2HOP, !.life = Life - 1,
                                  !.existed = FALSE]
                   [] OTHER -> [FreeTag EXCEPT !.locker = TRUE]
  BY DEF AgeTag
<1>4. AgeTable(tbl, len, me, keep)[c] = IF c < len THEN a ELSE t
  BY DEF AgeTable
<1> HIDE DEF t, kept, v, a
<1>5. CASE t.sti = 0 \/ (t.sti = me /\ kept)
  <2>1. a = v
    BY <1>3, <1>5
  <2> QED
    BY <1>1, <1>2, <1>4, <1>5, <2>1 DEF t, kept
<1>6. CASE ~(t.sti = 0 \/ (t.sti = me /\ kept))
  <2>1. a \in {[v EXCEPT !.life = @ - 1, !.existed = FALSE],
               [v EXCEPT !.busy = SLOT_2HOP, !.life = Life - 1, !.existed = FALSE],
               FreeTag, [FreeTag EXCEPT !.locker = TRUE]}
    BY <1>3, <1>6
  <2>2. FreeTag.sti = 0 /\ [FreeTag EXCEPT !.locker = TRUE].sti = 0
    BY DEF FreeTag
  <2>3. /\ [v EXCEPT !.life = @ - 1, !.existed = FALSE].sti = v.sti
        /\ [v EXCEPT !.life = @ - 1, !.existed = FALSE].locker = v.locker
        /\ [v EXCEPT !.busy = SLOT_2HOP, !.life = Life - 1,
                     !.existed = FALSE].sti = v.sti
        /\ [v EXCEPT !.busy = SLOT_2HOP, !.life = Life - 1,
                     !.existed = FALSE].locker = v.locker
    BY <1>2 DEF slot_tag
  <2>4. a.sti = 0 \/ (a.sti = v.sti /\ a.locker = v.locker)
    BY <2>1, <2>2, <2>3
  <2> QED
    BY <1>1, <1>2, <1>4, <1>6, <2>4 DEF t, kept
<1> QED
  BY <1>5, <1>6

\* clear_others_slot_status leaves the node's slots alone and frees the others.
LEMMA ClearClaims ==
  ASSUME NEW tbl \in GoodTable, NEW len, NEW me \in Node, NEW c \in SlotIdx
  PROVE  LET u == ClearOthers(tbl, len, me)[c]
         IN  /\ tbl[c].sti = me => u = tbl[c]
             /\ tbl[c].sti # me => u.sti # me
             /\ tbl[c].sti = 0 => u.sti = 0
<1>1. tbl[c] \in slot_tag /\ me # 0
  BY Names DEF GoodTable, GoodTag
<1>2. Release(tbl[c], FALSE).sti = 0
  BY <1>1 DEF slot_tag, Release
<1> QED
  BY <1>1, <1>2 DEF ClearOthers

\* Unlocking free slots changes nobody's slot.
LEMMA UnlockClaims ==
  ASSUME NEW tbl \in GoodTable, NEW len, NEW c \in SlotIdx
  PROVE  LET u == UnlockFree(tbl, len)[c]
         IN  /\ u.sti = tbl[c].sti /\ u.busy = tbl[c].busy
             /\ tbl[c].sti # 0 => u = tbl[c]
<1>1. tbl[c] \in slot_tag
  BY DEF GoodTable, GoodTag
<1> QED
  BY <1>1 DEF UnlockFree, slot_tag

\* Neither does restarting the counters.
LEMMA RestartClaims ==
  ASSUME NEW tbl \in GoodTable, NEW len, NEW me, NEW c \in SlotIdx
  PROVE  LET u == CountersRestarted(tbl, len, me)[c]
         IN  u.sti = tbl[c].sti /\ u.busy = tbl[c].busy /\ u.locker = tbl[c].locker
<1> DEFINE t == tbl[c]
           x == [t EXCEPT !.c2 = Count(1), !.c3 = Count(1)]
           y == [t EXCEPT !.c3f = FALSE, !.c2 = 0, !.c3 = 0]
<1>1. t \in slot_tag
  BY DEF GoodTable, GoodTag
<1>2. /\ x.sti = t.sti /\ x.busy = t.busy /\ x.locker = t.locker
      /\ y.sti = t.sti /\ y.busy = t.busy /\ y.locker = t.locker
  BY <1>1 DEF slot_tag
<1>3. CountersRestarted(tbl, len, me)[c] \in {t, x, y}
  <2>1. CountersRestarted(tbl, len, me)[c] =
          CASE c >= len -> t
            [] c < len /\ t.sti = me -> x
            [] OTHER -> y
    BY DEF CountersRestarted
  <2> HIDE DEF t, x, y
  <2> QED
    BY <2>1
<1> HIDE DEF t, x, y
<1> QED
  BY <1>2, <1>3 DEF t

\* Claiming and releasing a slot of the table changes that slot only.
LEMMA WriteClaims ==
  ASSUME NEW tbl \in GoodTable, NEW b, NEW me \in Node, NEW lock \in BOOLEAN,
         NEW c \in SlotIdx
  PROVE  /\ c # b => /\ [tbl EXCEPT ![b] = Claim(@, me)][c] = tbl[c]
                     /\ [tbl EXCEPT ![b] = Release(@, lock)][c] = tbl[c]
         /\ c = b => /\ [tbl EXCEPT ![b] = Claim(@, me)][c].sti = me
                     /\ [tbl EXCEPT ![b] = Claim(@, me)][c].busy = SLOT_1HOP
                     /\ [tbl EXCEPT ![b] = Release(@, lock)][c].sti = 0
                     /\ [tbl EXCEPT ![b] = Release(@, lock)][c].busy = SLOT_FREE
<1>1. tbl[c] \in slot_tag /\ tbl \in [SlotIdx -> GoodTag]
  BY DEF GoodTable, GoodTag
<1>2. /\ Claim(tbl[c], me).sti = me /\ Claim(tbl[c], me).busy = SLOT_1HOP
      /\ Release(tbl[c], lock).sti = 0 /\ Release(tbl[c], lock).busy = SLOT_FREE
  BY <1>1 DEF slot_tag, Claim, Release
<1> QED
  BY <1>1, <1>2
=============================================================================
