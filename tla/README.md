# SATMAC: TLA+ models, checks and proofs

vanet-tdma2017 is a medium access protocol for vehicles, SATMAC, in which every
station reserves a slot of a TDMA frame and tells its neighbours, in a *frame
information* (FI) packet sent in that slot, how it sees all the slots of the
frame. The repository has the protocol three times: for the simulators ns-3
(`src/ns3`) and ns-2 (`src/ns2`), and in an FPGA beside an ath9k card
(`src/real`). This directory models two of them: the ns-3 implementation (the
reservation protocol among several stations, the FI format, what a station sends
in its slot, and the packet queue) and the controller of the FPGA (one station,
its concurrent state machines and the memory they share). Both are shown to
implement one abstract specification of how a station gets and uses a slot.

## 1. Inventory

| Component | State | Operations | Interacts with |
|---|---|---|---|
| SATMAC reservation, `tdma-satmac.cc` | `node_state_`, `slot_num_`, `slot_adj_candidate_`, the slot table `collected_fi_`, `received_fi_list_`, `m_frame_len`, `bch_slot_lock_`, `backoff_frame_num_` | `slotHandler`, `recvFI`, `synthesize_fi_list`, `merge_fi`, `determine_BCH`, `adjust_is_needed`, `adjFrameLen` | other stations, only by FI packets; the simulator's timer |
| FI format, `satmac-packet.cc` | a bit buffer | the constructor of `FiHeader`, `setvalue`, `decode_value`, `decode_slot_tag` | coded from the table (and restarts its hop counters), decoded by `recvFI` |
| Slot transmission, `tdma-satmac.cc` | `m_slotRemainTime`, scheduled events | `generate_send_FI_packet`, `SendFiDown`, `StartTransmission`, `SendPacketDown` | the MAC below, the queue, `slotHandler` |
| Packet queue, `tdma-mac-queue.cc` | `m_queue`, `m_size` | `Enqueue`, `Dequeue`, `Peek`, `IsEmpty`, `Cleanup` | called by the slot transmission and the network device |
| Channel, `simple-wireless-channel.cc`, WifiPhy | frames on the air | `Send`, `Receive` | all stations in range |
| Net device, MAC base class, OCB/WAVE patches | pointers, attributes | forwarding of calls | layers above and below |
| Neighbour service, `mbr-neighbor` | neighbour table with expiry | `Update`, `Purge`, hello messages | routing |
| ns-2 SATMAC, ns-2 RR-ALOHA | as the first row | as the first row | |
| FPGA controller, `tdma_control.v`, `desc_processor.v` | the states of BCH, FI, FCB, MO and STU, `bch_work_pointer`, `bch_decide_adj`, `fcb_bch_candidate`, `curr_frame_len`, the slot memory | one transition per clock in each machine; start and done pulses between them | the shared slot memory, GPS time pulses, the bus machine, the driver's registers |
| FPGA bus and FIFO machines, `ipic_state_machine.v` | dispatch state | requests from several users | the controller |
| ath9k driver, GPS and console tools, experiments | | input and output | |

What is hard in the core, and so what the properties are about:

* A station that sends in a slot cannot hear what else is sent in it. Whether a
  reservation has succeeded is only known from the FIs of third stations, a
  frame later, merged one after the other into a single table.
* Entries are aged, locked, and quoted by stations to each other. An entry must
  live long enough to bridge lost FIs and must not live for ever.
* Each station changes the length of its frame by itself, in the middle of a
  merge as well.
* The time left in a slot is one unsigned counter of whole microseconds that
  several chains of simulator events draw on and every `slotHandler` restores,
  while the events themselves are scheduled in the simulator's finer time.
* In the FPGA the same protocol runs as machines in parallel. They start each
  other by pulses of one clock cycle, which are lost on a machine that is not
  idle, share one port of the slot memory without arbitration, and wait without
  timeouts; received FIs are merged through the other port meanwhile, and a GPS
  second may cut a frame short.

`PROJECT.json` has the list of hazards, each with its line and its properties.

## 2. Modules

```
FrameInfo ---- Satmac ---- SatmacLocks ---- MCSatmacLocks     SlotTransmission
    |          |   |  \--- MCSatmac                                  |
FrameInfoProofs|   |                                      SlotTransmissionProofs
        \      |   |
         SatmacProofs --- SatmacClaimsProofs --- SatmacFixedProofs
                   |                         \-- SatmacAccessProofs
                   |
              SlotAccess                (implemented by Satmac and TdmaControl)
                   |
              TdmaControl --- MCTdmaControl
                         \--- TdmaControlProofs
```

**FrameInfo** has no state. It has the slot tag, the table, the FI packet, and
the operators on them: `merge_fi` slot by slot (`MergeOwn` is its first loop,
`MergeOneHop`, `MergeTwoHop` and `MergeFree` are the three parts of its second),
the ageing and locking of `synthesize_fi_list`, what `FiHeader` codes and what
`decode_value` makes of it.

**Satmac** is the protocol. A station's `slotHandler` is one event of the
simulator, so handlers never overlap; a handler that merges FIs takes several
steps (`StartSynthesis`, one `MergeNext` per FI, `EndSynthesis`) followed by one
decision, and nothing else can happen in between. One action stands for each
outcome of the `switch` in `slotHandler`:

| action | code |
|---|---|
| `OtherSlot` | not the station's slot: only `fade_received_fi_list` |
| `InitSlot`, `ListenBackoff` | `NODE_INIT`; `NODE_LISTEN` while it backs off |
| `StartSynthesis`, `MergeNext`, `EndSynthesis` | `synthesize_fi_list` (after `clear_FI` when listening) |
| `ListenChoose` | `NODE_LISTEN`: choose a slot, request it at once if it is this one |
| `RequestSlot`, `RequestGranted` | `NODE_WAIT_REQUEST`, `NODE_REQUEST` with a usable slot |
| `SlotLost` | the same three states' branch for a slot that is not usable |
| `WorkKeepSlot`, `WorkAdjust` | `NODE_WORK_FI`: adjust the frame, or announce a second slot; send; move if alone |
| `AdjSettle`, `AdjFallBack`, `AdjLost` | `NODE_WORK_ADJ` |
| `recvFI`, `LoseFI`, `EndSlot` | the channel and `TdmaSatmac::recvFI` |
| `Drive` | mobility (outside the code) |

With `PhyCollisions` (WifiPhy) a sender hears nothing and frames that overlap
at a receiver are lost; without it (`SimpleWirelessChannel`) all frames in range
arrive. Data that no property tells apart is abstracted: `psf` has no bits on
the air and is always 0; hop counters saturate at `CountCap`, and stay 0 where
neither adjustment is on, for then nothing reads them; the slot count is kept
modulo the longest frame; statistics and printing are left out. Members that the
constructor leaves uninitialised (`slot_adj_candidate_`, `bch_slot_lock_`,
`adj_single_slot_ena_`) start with any value of a set that each configuration
gives. `NodeAssumption` restricts STIs to the 9 bits they have on the air.

**SatmacLocks** adds a history variable, the slots that the running
`synthesize_fi_list` has locked.

**SlotTransmission** has one station's slots: `FiSlot`, `FiTooLong` and
`SilentSlot` are `slotHandler`, the other events are `SendFiDown`,
`StartTransmission` and `SendPacketDown`, `Queue` is `Enqueue`. Time is in ticks,
`Us` to the microsecond. `GetMicroSeconds` cuts a time to whole microseconds
exactly where the code does: in every charge to `m_slotRemainTime` (`Charged`,
modulo `Wrap`, for it is a `uint32_t`), in the comparison and the wait on the path
through WifiMacLow, and in the argument that `SendPacketDown` passes on. The FI is
waited for exactly, and so is a packet on the path through TdmaMacLow. An FI is
any of `FiTimes`, for it grows with the frame, and nothing says that it fits in
the slot: on the path through TdmaMacLow an assertion does (`tdma-satmac.cc:1467`),
which stops a debug build (`FiTooLong`) and is absent from an optimised one, on
the other path nothing (line 1507). `fitted` is a history variable that says that no FI
so far was too long; no action reads it. Of two events
due at the same time the one that was scheduled first runs first, as in ns-3:
the next `slotHandler` was scheduled a whole slot before and always wins. The
path through WifiMacLow and the one through TdmaMacLow are both there. Which
slots are the station's own is left open.

**TdmaControl** is the controller of the FPGA, one station. An action stands for
the run of clock cycles that a machine takes from one wait to the next; a slot
lasts some 100,000 cycles and such a run a handful, so time (`Late`, the last 30
microseconds of a slot, and `NextSlot`) only passes when every machine waits.

| actions | code |
|---|---|
| `DecideReq`, `Listen`, `LisFcb`, `InitDone` | BCH from `BCH_IDLE` to `BCH_WAIT_REQ_FI_INIT_WAIT`: listen for a frame, claim the candidate |
| `Request`, `RequestSent`, `Confirm` | `BCH_WAIT_REQ_WAIT` to `BCH_REQ_WAIT` |
| `Retry` | `BCH_REQ_FAIL_COUNT`, `BCH_COL_COUNT`, `BCH_WAIT_REQ_FCB_*`: give the slot back, claim the next candidate |
| `Work`, `IfSingle`, `SlotOver` | `BCH_WORK_FI_WAIT` to `BCH_WORK_DISA_TX` |
| `Adjust`, `AdjustInvalid` | `BCH_WORK_ADJ_*` |
| `FiStart`, `FiBuild` | FI: the walk that codes the FI, ages the table and decides on adjustments |
| `FindCandidate`, `FiRest` | the copy over the bus, FCB, `FI_END` |
| `SendFi`, `StartPing`, `SendPing` | MO |
| `Receive` | STU in `desc_processor.v`: an FI is merged into the slot memory |
| `Late`, `NextSlot` | GPS pulses, `slot_pointer` |

An entry of the memory is abstracted to what the controller can tell apart:
free, locked, mine, mine with a collision, or somebody else's with the frames it
has left to live. Hop counts and priorities are choices: an FI covers the frame
of its sender, of any length, and may take any entries of it that are not locked,
mark the station's own, and release those of others; the counts
that decide on adjustments are any that the table allows. The memory has 7
address bits: the entry at `16'hffff`, the slot number that stands for none, is
the last one (`Addr`). `Settings` are the
switches of `slv_reg8`. `slot_counter` is `slot_counter_1sec`, kept modulo the
longest frame after one such frame: a UTC second, which may end after any of
`SecondEnds`, lasts at least that long (1000 slots against 128). That FI is done within its 30 microseconds is an
assumption, true for frames of up to 32 slots.

**SlotAccess** is what both implementations promise: a station listens, chooses
a slot, requests it by sending in it once, and works in it when the slot has
come again; on any loss it stops sending and starts from a request. The mapping
takes `node_state_` or the state of BCH to the four phases (`Phase`), and
`slot_num_` or `bch_work_pointer` to the slot; on the air is a station with an
FI in the current slot (`Satmac`), or one whose MO sends an FI or whose
`tdma_tx_enable` is on (`TdmaControl`).

**MCSatmac**, **MCSatmacLocks** and **MCTdmaControl** have topologies, thresholds and
other constants for TLC.

## 3. Runs

Each passing configuration is explored completely, without state constraints; a
violated property ends its run at the first counterexample.

| run | instance | states | result |
|---|---|---|---|
| `Line3` | three stations in a line, frame of 4, no adjustment, lone stations move | 442,000 | `TypeOK`, `OneClaim`, `FiClaimsItsSlot`, `ObjectionsHeeded`, `ImplementsAccess`, `RecordKept` hold |
| `FrameLine` | the same line, frames of 2 or 4 slots, slot and frame adjustment on | 126,000 | `SlotInFrame`, `NamedIffBusy`, `NothingBeyondFrame`, `ImplementsAccess` hold |
| `Live2` | two stations for two slots, one without slot memory, channel without collisions, any initial value of the uninitialised members, one loss, they drive apart | 459,000 | `EveryoneWorks` holds under fairness; `RecordKept` holds |
| `Forget` | three stations in range of each other, one loss, one leaves the others or one of them | 589,000 | `DepartedForgotten` holds under fairness; `SettledStays` holds |
| `Slot` | 3 ticks to the microsecond; a slot of 9 ticks, FIs of 3, 4, 5 and 13, packets of 2, 3 and 5, queue of 2, delay 10, counter modulo 30 | 1,432,000 | `TypeOK`, `BudgetKept`, `NoStraddle`, `ChainsDoNotPileUp`, `LowPathKeepsItsSlot`, `SizeExact`, `OldestFirst` hold |
| `Control` | FPGA controller, frame of 4 (2 or 4 when adaptive), four settings, one or two events each | 1,546,000 | `TypeOK`, `WorkInFrame`, `ClaimsKnown`, `SendsUncontested`, `ImplementsAccess` hold; `QuietAirWorks` holds under fairness |
| `Wire` | as `Line3` | | `ReceivedAsSent` is violated |
| `FrameMesh` | three stations in range of each other, adjusting | | `FiNamesSender` is violated |
| `Locks` | line of three | | `FreshLocksKept` is violated |
| `SlotWifi`, `SlotLow` | whole microseconds, a slot of 4, FI of 1, packets of 1 to 3 | | `OnlyOwnSlot`, `PacketToSend` are violated |
| `ControlRequest` | FPGA controller, no switch on, two events | | `RequestHeedsClaims` is violated |

*Why these bounds.* Three stations in a line is the least topology with a hidden
station and with somebody to object; a mesh of three is the least in which two
stations can quote a third one to each other. Four slots for three stations
leave one spare slot to move to and are enough for every outcome of
`determine_BCH`, and four is the first length whose decoding has a slot (2) with
a misread state and one (3) with a misread hop count. A life of 2 is the least
with which a neighbour survives one ageing; `Forget` has 3, one loss more than
the ageing before a refresh takes. Back-offs of 0 or 1 frames
and a `bch_slot_lock_` of 0 to 2 stand for 0 to 20 and 5: they are only counted
down. A slot of three microseconds has room for an FI and a packet that fills the
slot exactly, one that does not, or two; of the FIs one takes whole
microseconds, two do not, and one is longer than the slot; packets take less
than a microsecond, one, or more. Two names for chains are all that is needed
while the FIs fit, which is what `ChainsDoNotPileUp` says; after one that does
not, `FiSlot` waits for a name to be free, so from there on the run covers
slots with at most two chains.

The frame of the controller has 4 slots, the shortest it has thresholds for (2
when it is halved, with the thresholds scaled). What happens outside is bounded
by `MaxEvents`, FIs, UTC seconds and pings together, and `MaxChanges`, the
entries one FI changes: two events of two entries each with no switch on, so
that two FIs may fill the table and the second take back what the first has
claimed, two of one entry with lonely or moving stations, one with an adaptive
frame. One FI is
enough to take a slot at any step of its acquisition, two to take it and to
release it again, or to combine a loss with a second that cuts the frame
(after slot 1, in the runs). After the last event the machines
run for ever, and return to work is then to be shown. `SingleLock` 2 stands for
5, and `AddrSpace` 5 for 128, one more than the longest frame.

`Slot` switches the deadlock check off, for the model stops after a null packet
was sent and at the failed assertion.

*Fairness* (`FairSpec`): every `slotHandler` that can take a step does, every FI
that can be delivered or lost is, and time passes. These are events in the
simulator's list, which always run. Nothing is assumed of losses, of mobility,
or of the random choices of slots and back-offs; the two liveness properties
hold for every sequence of those. In `TdmaControl` the machines are clocked, so
each takes a step when it can, and time passes; nothing is assumed of FIs, pings
and UTC seconds.

*What the properties say.* `RecordKept`, `OneClaim`, `FiClaimsItsSlot` together:
a station's belief about its own slot, its table and its FI agree, after any
sequence of collisions, stale reports and moves. A station that has asked for a
slot stays down as its user until it gives it up or merges an FI that gives it
to somebody else or to nobody; it claims nothing else; and no FI gives the slot
in which it is sent to anybody but its sender. The FI of a working station may
have that slot as free, though (section 4). `SlotInFrame`: the slot a station
waits for, or has itself down for, comes again, whatever became of the frame.
`ObjectionsHeeded`: a
station still has itself down for its slot only if none of the FIs merged in that
frame spoke against it, whatever their order. `SettledStays`: once every station has a slot
of its own and is known with it, nobody ever moves, as long as fewer than
`Life - 1` FIs are lost. `DepartedForgotten`: two stations do not keep a third
one's slot occupied by quoting each other.

`BudgetKept`, `NoStraddle`, `ChainsDoNotPileUp`, `LowPathKeepsItsSlot`: as long as
the FIs fit in the slot, `m_slotRemainTime` does not wrap, a transmission ends
with its slot, no slot ends with two chains pending, and a station that sends
through TdmaMacLow sends in its own slots only, each up to the part of a
microsecond that the FI is not charged for (section 4). When FIs take whole
microseconds the bounds are exact.

`SendsUncontested`: data is enabled only in a slot that the memory gives to
nobody else, whatever was merged since the slot was chosen. `ClaimsKnown`: what
the controller has claimed and no longer uses it has given back, on every way
out. `WorkInFrame`: the slot BCH waits for always comes. `QuietAirWorks`: after
the last FI, UTC second and ping the machines get back to sending data again and
again; the one exception is named, a ping asked for outside the slot.
`ImplementsAccess`, of both implementations: however a slot is lost, moved or
reselected, nothing is sent in a slot that was only chosen, and no way leads to
work but a request in that slot that was over before the slot came again.

`ClaimsKnown` is stated for controllers without slot adjustment, `WorkInFrame`
and `QuietAirWorks` for frames of fixed length, `WorkInFrame` also not for
controllers that both adjust slots and move when lonely, because they are false
otherwise (section 4).

## 4. Findings

1. **A field that straddles two bytes is misread** (`satmac-packet.cc:278`, run
   `Wire`). Its first bits are shifted left by `8 - bit_remain` instead of by
   the number of bits still to read. With 13 bits of header and 13 per slot this
   hits `busy` in slots 2, 10, 18, ... and `count_2hop` in slots 3, 11, 19, ...:
   a value of 2 or 3 arrives as 128 or 129. A neighbour that holds slot 2 is
   thus never recorded, and a station that already knows it from another slot
   reports slot 2 as free, which its holder takes for a collision. All runs
   include this; the passing properties hold in spite of it.
2. **A station may settle on a candidate it no longer holds**
   (`tdma-satmac.cc:1940`, run `FrameMesh`). In `NODE_WORK_ADJ` a candidate that
   is free, because it was handed to another station and given up again, is
   accepted, and the slot held is released: the FI then names its sender nowhere.
   `NODE_REQUEST` and `NODE_WORK_FI` have the same test (lines 1798 and 1845), see
   below.
3. **A lock of one frame may last no time** (`tdma-satmac.cc:1333`, run `Locks`).
   One `unlock_flag` stands for the whole table, so an old lock makes
   `synthesize_fi_list` remove the locks it has just set.
4. **Sending in somebody else's slot** (`tdma-satmac.cc:1553`, run `SlotWifi`).
   Through WifiMacLow, a packet that fills the slot exactly is followed by
   another one in the next slot; `GuardTime` is not used.
5. **A packet that is none** (`tdma-satmac.cc:1582`, run `SlotLow`). Through
   TdmaMacLow a packet is dequeued only after its time on the air, when it may
   have expired; the null pointer is passed on.

6. **A neighbour's claim is overwritten before it is read**
   (`tdma_control.v:781`, run `ControlRequest`). After a slot was lost the next
   candidate is claimed with a write enable that stays on until the request has
   been sent, because the line that ends it is commented out. A claim that
   arrives meanwhile is lost, and the slot is requested all the same.

Further observations. A working station may lose the entry of its slot and not
its work, without any adjustment: a COLLISION report hands the entry to another
station, the FI of that station, merged in the same frame, gives it up, and a
free entry counts as usable (`tdma-satmac.cc:1798`, `1845`). From then on its FIs
do not claim the slot they are sent in; with frame adjustment the station may
then halve its frame below the slot, which never comes again. `SlotInFrame`,
`FiClaimsItsSlot` and `ObjectionsHeeded` are therefore about stations that have
themselves down for their slot. TLC shows it for `Line3` with `Life` 3, no locks
and back-offs, two losses and the links 3 to 1, 3 to 2, and 1 and 2 both ways.
It came up as the step at which a proof without this exception fails.

The FI is charged in whole microseconds and waited for exactly
(`tdma-satmac.cc:1464`, `1469`), so a packet that fits in the budget may end after
the slot. Through TdmaMacLow at the default 12 Mb/s an FI of 106 bytes takes
70.667 us and is charged 70; with a slot of 1001 us a packet of 1396 bytes,
930.667 < 931, is handed down at 1001.33 us, in the next slot. With the default
slot of 1000 us and an FI of 104 bytes it is handed down at its very end, after
the next `slotHandler`, and no later, since all times are multiples of 2/3 us; at
54 Mb/s, with several packets, later too. `NoStraddle` and `LowPathKeepsItsSlot` bound the overrun
by what was cut off the FI, less than a microsecond, and say that nothing more
is sent after it. Through WifiMacLow `CalculateTxDuration` yields whole
microseconds for the rates of 802.11p, where nothing is cut off. And an FI that is
longer than the slot is sent on that path without a test and makes
`m_slotRemainTime` wrap (line 1507): at 3 Mb/s an FI of 128 slots takes more than
600 us, and the attribute `SlotTime` has no lower bound.

With adjustment a station may go on claiming a slot it has given up, so `OneClaim`
is neither checked nor proved there: the slot is marked COLLISION, and neither `AdjLost` nor
`AdjFallBack` clears it. A lone station that moves when all free slots are locked
takes slot -1 (`tdma-satmac.cc:1884`) and never sends again, which `SlotAccess`
does not allow: TLC shows it for two stations in range of each other with
`bch_slot_lock_` restarting at 0, frames of 2 or 4 slots and `adj_ena_` off.
And two stations that
share a slot never merge each other's FIs on the channel without collisions
either, for an FI received in the station's own slot is faded just before the
merge one frame later.

In the FPGA, where no text of the repository says otherwise: a ping outside the
slot and the FI of the station wait for each other for ever (`PingDeadlock`);
with slot adjustment, the claim to the candidate is never given back when the
slot is lost while both are announced (`tdma_control.v:703`), and a move may
rest on an `adj_slot_win` that is a frame old, because FI is not built before
slot 0 when a UTC second cuts the frame; with frame adjustment, a station whose
entry was taken and released may halve the frame below its own slot and is then
silent; with slot adjustment in a controller that also moves when lonely, a
strict search refuses the entries that adjustments have left behind, finds no
candidate, and `IF_SINGLE_SET_2` moves to `16'hffff` and claims entry 127; an entry that was taken and
released passes the test `sid == 0`, and the
station sends data in a slot that its FIs no longer claim. Each was found by TLC
as a counterexample to a stronger property; `PROJECT.json` lists them as
hazards.

## 5. Proofs

All theorems are for any number of stations and slots, any lengths of frames,
topologies, losses and movements (or numbers of events) allowed by the named
assumptions of the modules, and for every setting of the switches, unless a
hypothesis says otherwise.

| theorem | states | hypothesis |
|---|---|---|
| `SatmacProofs!TypeCorrect` | `[]TypeOK` | |
| `SatmacProofs!TagsConsistent` | `[]NamedIffBusy` | |
| `SatmacClaimsProofs!FrameHoldsAll` | `[]NothingBeyondFrame` | |
| `SatmacClaimsProofs!SlotComesAgain` | `[]SlotInFrame` | |
| `SatmacClaimsProofs!EveryObjectionHeeded` | `[]ObjectionsHeeded` | |
| `SatmacFixedProofs!ClaimsOneSlot` | `[]OneClaim` | slots and frames not adjusted |
| `SatmacFixedProofs!RecordIsKept` | `RecordKept` | the same; if lonely stations move, all have slot memory |
| `SatmacFixedProofs!FiClaims` | `[]FiClaimsItsSlot` | frames not adjusted |
| `SatmacAccessProofs!RefinesAccess` | `ImplementsAccess` | lonely stations do not move |
| `SlotTransmissionProofs!TypeCorrect` | `[]TypeOK` | |
| `SlotTransmissionProofs!BudgetNeverWraps` | `[]BudgetKept` | |
| `SlotTransmissionProofs!NoPacketStraddles` | `[]NoStraddle` | |
| `SlotTransmissionProofs!NoPileUp` | `[]ChainsDoNotPileUp` | |
| `SlotTransmissionProofs!LowPathStaysInItsSlot` | `[]LowPathKeepsItsSlot` | |
| `SlotTransmissionProofs!QueueCorrect` | `[]SizeExact` | |
| `SlotTransmissionProofs!OldestLeavesFirst` | `[]OldestFirst` | |
| `TdmaControlProofs!TypeCorrect` | `[]TypeOK` | |
| `TdmaControlProofs!WorksInFrame` | `[]WorkInFrame` | |
| `TdmaControlProofs!ClaimsItsSlot` | `[]ClaimsKnown` | |
| `TdmaControlProofs!SendsInItsSlot` | `SendsUncontested` | |
| `TdmaControlProofs!RefinesAccess` | `ImplementsAccess` | lonely stations move only where no other switch is on |

The hypotheses are settings of the program's own switches. The attributes
`AdjEnable`, `AdjFrameEnable` and `RandomBchIfSingle` of `TdmaSatmac` are on by
default, so the theorems of `SatmacFixedProofs` and `SatmacAccessProofs` are
about configurations that switch them off; the ones without a hypothesis cover
the default configuration. Section 4 has the counterexamples that made the
hypotheses necessary.

**Tables and tags** (`IInv`). `NamedIffBusy` is not inductive: a table is only as
good as the FIs merged into it, and those only as good as the tables they were
coded from. `IInv` makes the same claim of the tables (in the middle of a
handler too), of the FIs on the air, of those received and of those being
merged, together with the types. `FrameInfoProofs` has one lemma per operator
saying that it keeps a tag good (`MergeOwnGood`, `AgeTagGood`, `ReleaseGood`,
...); `DecodedGood` shows that the misreading of finding 1 never turns a busy
slot into a free one or conversely.

**Frames and objections** (`HInv`). The three properties of `SatmacClaimsProofs`
are kept up by the order of steps within one handler, so the invariant speaks of
the handler that is halfway through. `HandlerSlot`: it started in the station's
slot, and merging only lengthens the frame, so the slot is within it at the
decision. `Heeded`: every FI merged so far that covers the slot says nothing
against it, as long as the station is down for it; the lemmas of
`FrameInfoProofs` under "Whose slot it is" show that the first loop of `merge_fi`
takes the record away at the first objection and that no later step puts it
back. `WaitInFrame` and `Beyond` tie the slot and the table to the frame, which
needs that `adjFrameLen` halves a frame only over free entries and that `merge_fi`
restores it for what it takes over. `CandidateSet`, `PcInv` and `AirDone` say
what a handler finds when it starts.

**Claims** (`OInv`). Without adjustment, `NoSecond`: there is no `NODE_WORK_ADJ`;
`Clear`: a choice starts from a table without claims; so `One`: a station claims
its slot or nothing. `Unlocked`: ageing takes the lock off the station's own
slot, and merging does not put it back, so a lonely station finds at least the
slot it has. `RecordIsKept` is an action property over `OInv`: for each action,
the record stays, the station gives the slot up, or the FI just merged is the
one that does not give it the slot. `FInv` (for `FiClaims`) adds that all frames
have the same length, that a handler runs in the slot `slot_num_` counts, and
that the FIs on the air claim the slot or come from a working station whose
entry is free.

**Refinement** (`AInv`). `Somewhere`: a station always has a slot; `Spoke`: who
is on the air has asked for one. `HandlerStep` lists the six ways in which a run
of `slotHandler` changes the state, the slot and the air; each maps to a step of
`SlotAccess` or a stutter, and so do the steps of the channel.

**One slot's time** (`Inv` of `SlotTransmissionProofs`) is `Shape`, which always
holds (types, which path a chain's events are of, the queue's size and order),
and `Timing`, which holds as long as the FIs have fitted. Nothing is assumed of
the FIs: an FI that does not fit ends `Timing`, and all the properties but those
of `Shape` are stated under `fitted`. With `End` for the time at which the event
of a chain is due, counted from the start of the slot (clock + due), `WifiPath`
says that the whole microseconds of `End` and what is left in `m_slotRemainTime`
do not exceed the slot, for two chains even their sum; what `End` has beyond
whole microseconds is what was cut off an FI, because every later wait on this
path is one of whole microseconds. `LowPath` says that a chain is on time (`End`
and the rest of its argument within the slot and the part cut off an FI) or left
over from the slot before (due before that part has passed, with no whole
microsecond left), that only leftovers are there in the slots of others, and that
at most one chain is not a leftover.
The lemmas on `Cut` and `GetMicroSeconds` at the head of the module are the
arithmetic this rests on. All four timing theorems follow from `Timing`.

**The controller** (`Known` of `TdmaControlProofs`) has one part for each resource
that the machines share. `TimeInv`: the last 30 microseconds of a slot belong to
FI, BCH waits then, and the pulse that asks for the first FI is not lost.
`AirInv`: from the test of the slot to `bch_accessible_flag` nobody else can get
the entry.
`ClaimInv`: without slot adjustment there is one claim from `LIS_FCB` on and none
before, and the write enable that is left on (finding 6) renews no other.
`SlotsInReach`: slot numbers are of the table, and of the frame when its length
is fixed (`FixedLen`). `LonelyInv` is the argument why
`IF_SINGLE_SET_2` may ignore `fcb_fail`: `is_single` and the candidate come from
one walk of FI, but an FI may be received between the two, and then the station
counts as alone and no slot was free. That walk was the one for `init_fi`; the
slot must still be requested and confirmed, and before one of the two FI walks
again, because a UTC second is too long to cut the frame twice. This is why
`slot_counter` is kept, and it is what `WorksInFrame` and `RefinesAccess` rest on.

Only model-checked: liveness (`EveryoneWorks`, `DepartedForgotten`,
`QuietAirWorks`), which is outside what the proof system handles; the action
property `SettledStays`; `ImplementsAccess` of `Satmac` with random moves, as the
runs `Line3` and `FrameLine` have them; and `RecordKept` where lonely stations
move without slot memory (`Live2`).

## 6. Not modelled

* `choose_bch_random_switch_ = 2`, a test setting with fixed first slots;
  statistics, printing and traces; `WaitWifiState`, which nothing calls.
* STIs above 511.
* Propagation delays, which are shorter than a slot, and data packets on the
  channel: they do not carry FIs.
* `SetMaxSize`, `SetMaxDelay` and `Flush` of the queue.
* In the controller: `tdma_function_enable` off, a slot fixed by the user, the
  ping answers that `desc_processor.v` never raises, and races of a few cycles
  between the two ports of the slot memory. An FI that is not built in its 30
  microseconds (frames of 64 slots and more): the properties of `Control` do
  not hold then.
* The bus machine `ipic_state_machine.v` and the descriptor machines: transfers
  of data between buffers, which the FI machine waits for.
* The neighbour service, which runs above the MAC; ns-2's SATMAC, whose
  `slotHandler` and `merge_fi` were the model for the ns-3 code, and ns-2's
  RR-ALOHA, which it is compared with; the net device and the OCB patches, which
  forward calls; the ath9k driver and the wifi module, vendored code that makes
  up nearly all of the repository's lines; tools and experiments.

## 7. Plan

Done: FrameInfo, Satmac, SlotTransmission, TdmaControl and SlotAccess, their
runs, the two refinements, and the proofs above. Next, in this order:

1. `SettledStays` for any number of stations: it needs that a settled station's
   entry outlives `Life - 1` losses, through the FIs of two-hop neighbours too.
2. `ImplementsAccess` of `Satmac` with random moves, for the settings in which a
   lone station finds a slot.
3. The users of `ipic_state_machine.v`: no request lost, every request served.
