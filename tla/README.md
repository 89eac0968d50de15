# A verification of if_re-win

`if_re-win` is a Windows driver for Realtek Ethernet controllers. Its core is new
C++ code on NetAdapterCx and WDF (`*.cpp`, about 2,600 lines). The hardware layer is
`if_re.c`, the BSD driver with its BSD half switched off by `#ifndef _WIN32` (39,000
lines, most of them PHY programs and tuning values), and `import/` is an unmodified copy
of that BSD driver, which is not compiled.

## 1. The system

| component | state | operations | interacts with |
|---|---|---|---|
| Transmit queue (`txqueue.cpp`) | descriptor ring, `TxDescIndex`, one `RT_TCB` per packet; the packet and fragment rings' indices | `EvtTxQueueAdvance` = `RtTransmitPackets`, `RtCompleteTransmitPackets`; `RtProgramOffloadDescriptor`; start, stop, cancel, notification | operating system (rings), NIC (descriptors, doorbell), link reset |
| Receive queue (`rxqueue.cpp`) | descriptor ring, `DescStartIdx`; ring indices | `EvtRxQueueAdvance` = `RxIndicateReceives`, `RxPostBuffers`; `RxSlideBuffers`; `RtFillRxChecksumInfo`; start, stop, cancel, notification | the same |
| Interrupt (`interrupt.cpp`) | four soft flags, `TxNotifyArmed`, `RxNotifyArmed`; the NIC's status and mask | `EvtInterruptIsr`, `EvtInterruptDpc`, `RtRxNotify` | NIC, queues' handles, link |
| Link (`link.cpp`) | none of its own | `RtlResetLink`, `RtlFirstStart`, `RtlCheckLinkStatus` | queues, NIC, PHY, interrupt lock |
| Adapter (`adapter.cpp`) | queue handles, filter flags and multicast list, offload switches, `Lock` | `RtResetQueues`, `EvtSetReceiveFilter`, offload callbacks, capabilities | everything |
| Device, power (`device.cpp`, `power.cpp`) | resources, `isRTL8125`, `prohibit_access_reg` | prepare, release, D0 entry and exit | NIC, link |
| Configuration (`configuration.cpp`) | advanced properties, address override | `RtAdapterReadConfiguration` | device |
| Multicast (`mcast.cpp`) | none | `ComputeCrc`, `GetMulticastBit` | receive filter |
| Hardware layer (`if_re.c`) | `re_softc`, the chip, the PHY | identify, take over, reset, start, stop; receive filter; PHY registers and programs; advertisement | registers |

Who runs when. NetAdapterCx serialises the callbacks of one queue, but the two queues,
the ISR and the DPC run at the same time, and the DPC on several processors at once. The
ISR and `RtlResetLink` exclude each other by the interrupt lock; `adapter->Lock` guards
the queue handles and the receive queue's cancel. The advance callbacks and
`EvtSetReceiveFilter` take no lock, so a link reset can fall between any two of their
steps. The NIC shares the descriptor rings with the driver without a lock; OWN decides
whose a descriptor is. PHY registers are reached through one window and one cached page
that the DPC and the thread that starts a queue share without a lock.

What each part must keep right:

* Transmit: each packet on the wire once, whole, in order and with the checksums and the
  tag it asks for; handed back after that and only then; nothing overwritten that the
  NIC owns; no doorbell lost.
* Receive: driver and NIC agree which buffer is in which descriptor, though the ring
  starts anywhere; frames indicated in order, none twice, made up or lost; nothing said
  of a frame that the chip did not find.
* Interrupt: no wake-up lost, none given late, twice or to a queue that is gone; a mask
  that was closed is opened again.
* Link and reset: what is reported becomes what is; what a reset breaks and what not.
* Device: registers accessed only when they are there; a sleeping chip at rest; engines
  only on rings that exist; a teardown that ends.
* Filter, settings, media: the chip accepts, listens to and advertises what was asked.
* Hardware: after a start everything the start closed is open, on every chip version;
  the PHY runs the program its version register says.

PROJECT.json lists the hazards, each at its line with the properties that cover it.

## 2. The modules

| module | of | models |
|---|---|---|
| `NetRing` | `netringiterator.h` | index arithmetic of a NET_RING (`% n` for the mask) |
| `TxQueue`, `TxService` | `txqueue.cpp` | the transmit queue; what it promises |
| `RxQueue` | `rxqueue.cpp` | the receive queue |
| `Interrupt`, `MCInterrupt` | `interrupt.cpp` | ISR, DPC, arming and disarming |
| `Lifecycle` | `device.cpp`, `power.cpp`, `link.cpp`, the queues' callbacks | all threads over starts, stops and low power |
| `ChipStart`, `MCChipStart` | `if_re.c`, `link.cpp`, `device.cpp` | the register sequences of every chip version |
| `LinkReport` | `link.cpp` | what the operating system is told of the link |
| `Media` | `if_re.c`, `link.cpp`, `device.cpp` | advertisement, negotiation, reported speed |
| `RxFilter` | `adapter.cpp`, `if_re.c` | a filter request against a reset |
| `MulticastHash` | `mcast.cpp` | the CRC and the bit it selects |
| `TxOffload`, `RxOffload` | `txqueue.cpp`, `rxqueue.cpp`, `adapter.cpp` | the words of a descriptor, both ways |
| `Config` | `configuration.cpp`, `device.cpp`, `power.cpp` | settings and station addresses |
| `PhyPatch` | `if_re.c` | loading a program into the PHY |
| `PhyAccess` | `if_re.c` | PHYOCPACCESS or PHYAR and the page, shared by two threads |
| `EriWindow` | `if_re.c` | bytes through the word windows ERIAR and OCPAR |
| `Eeprom` | `if_re.c` | reading the station address from a serial EEPROM |
| `Components`, `MCComponents` | | the eleven from `LinkReport` on, as one; values of its constants |
| `NetRingProofs` | `NetRing` | lemmas about the ring's index arithmetic |
| `TxQueueProofs`, `RxQueueProofs`, `InterruptProofs`, `LifecycleProofs`, `ChipStartProofs` | the module of that name | theorems of it |
| `PhyAccessProofs`, `ComponentProofs` | `PhyAccess`; `Components` | theorems of the components |

`TxQueue`. `EvtTxQueueAdvance` begins a call; `TransmitPacket`, `PostDescriptorBody`,
`PostDescriptorOwn`, `PacketPosted` and `TransmitEnd` are `RtTransmitPackets` and
`RtPostTxDescriptor`, split where the NIC or a reset can come in between: a descriptor's
words are written with OWN clear, then its first word. (FS, LS and EOR are in that first
word too; that they are shown one step early makes no difference, for the NIC looks at
nothing until OWN is set.) `CompletePacket` and `CompleteEnd` are
`RtCompleteTransmitPackets`. `NicFetch` and `NicIdle` are the transmitter: it works from
descriptor to descriptor while it finds OWN set, then stops until the next doorbell.
`ResetStop`, `ResetQueues` and `ResetStart` are `RtlResetLink`. `Submit` is the operating
system. `TxService` is a queue of packets that are `waiting`, `sent` or `ignored`;
`TxQueue` implements it under the mapping at its end.

`RxQueue`. `EvtRxQueueAdvance`, then `IndicateTest`, `IndicateFrame` and `IndicateEnd`
for `RxIndicateReceives`; `PostBuffer`, `PostOwnAlone`, `PostComplete` and `PostEnd` for
`RxPostBuffers`. `RtPostRxDescriptor` stores OWN and EOR through bit fields that are not
volatile, so a build may store them together (`PostComplete` from "zeroed") or in turn
(`PostOwnAlone` first). `EvtRxQueueCancel` and `CancelEnd` are the cancel; `ResetStop`,
`SlideStart`, `SlideBuffer` and `ResetStart` are `RtlResetLink` with `RxSlideBuffers`,
one descriptor at a time. Of a frame only its place in the order of arrival is kept
(`arrived`, a history variable), and `mishap` records that since the last reset the NIC
took a descriptor of a buffer that is not posted ("overrun") or one half-written
("half"), or the reset ran during a call into the driver ("overlap"). The code excludes
none of them; the safety properties say what holds until one happens, and
`OverrunOnlyWhenFull` and `LeavesRingByHalfPost` say when they can.

`Interrupt`. A step is one interlocked exchange, one register access or one call. The
DPC has a program counter per processor; WDF queues it once at a time, but it may be
queued again, on another processor, while it runs. `Flush` and `Flushed` are
`KeFlushQueuedDpcs`: it waits for the runs of the DPC that are under way or queued on
each processor when it is called. The ISR holds the interrupt lock whenever its program
counter is not "idle". The thread of each queue is NetAdapterCx: poll until nothing is
found, arm, poll once more, sleep until notified, disarm. `environment`, chosen in the
beginning, says which causes there are besides the queues' and whether the line is shared.

`Lifecycle` composes them at a coarser grain: where the PnP thread, the thread of each
queue and the DPC are; what the chip's engines and ring addresses are. The order in which
WDF and NetAdapterCx call is external and said at the head of the module. `late` is a
history variable: since the last start the link changed, or had not been dealt with,
while the queues were not both running. `touched` records an access to a register that
was not mapped, or while `prohibit_access_reg` would drop it.

`ChipStart`. Each function of `if_re.c` is the sequence of those of its accesses that
open, close, enable or lock something, chosen by the chip type as the code's tables do
(`re_type` from TXCFG, `isRTL8125` from `device.cpp`, the versions of PHY programs). A
cancel and a filter request may come between any two accesses of a reset. A
low-power state may take the chip's registers.

`LinkReport`. `RtlCheckLinkStatus` asks `re_link_ok`, resets the chip, reads the speed and
reports; a reset acknowledges every cause. `missed` says that a change between question
and reset was acknowledged, `crossed` that two processors were in there at once.

`PhyAccess`. Each thread has the script of its operations; a step is one access to
PHYOCPACCESS, PHYAR or `cur_page`. With PHYOCPACCESS the page is a variable of the
driver; with PHYAR the PHY has it, and keeps one that was told to it too late for the
driver's poll. What a register holds is named by its address, so a value that is written
back elsewhere shows. `alone` says that the two threads were
never in there together: with PHYOCPACCESS since this operation began, with PHYAR since
the PHY was powered, as it may have kept page 6 of the DPC's script from an earlier
meeting and then serves the next start of a queue from there.

`PhyPatch` keeps what is left to do as a sequence of steps; a step that turns out to be a
routine, such as a patch of the program (`NextPatch`), is replaced by the steps of that.
The driver may stop between any two accesses; the PHY keeps its state over that and loses
it with its power. `late` there says that a limited poll gave up.

`EriWindow`. A step is one write of the address register or one poll; the chip may answer
before, between or after the polls. `timely` is false once a poll gave up. A byte is a
set of bits, as the code only masks, shifts and merges whole bytes. `Eeprom`. A step is
one write of EECMD; the EEPROM takes a bit when the clock rises and puts one out.

`Components` is the disjoint sum of the eleven components that share no variable. `part`
never changes; a behaviour with `part = "hash"` is one of `MulticastHash` with the others
in an initial state. It keeps eleven small state spaces in one run without changing any.
Each of its ten properties is a conjunction of those of one component, or of two that
belong together, with their types; the comments in the component's module say what they
mean:

| property | of | conjuncts |
|---|---|---|
| `PatchSound` | `PhyPatch` | `CodeComplete`, `PatchWithdrawn` |
| `SettledIsActual` | `LinkReport` | `FlagHasCheck`, `SettledIsActual` |
| `ReportConverges` | `LinkReport` | the same of a run to come, with fairness |
| `FilterRight` | `RxFilter` | `FilterSettled`, `AcceptsOnlyRecent` |
| `FrameAsAsked` | `TxOffload` | `FrameAsAsked`, `TagAsAsked`, `SameAsUpstream` |
| `VerdictIsTheChips` | `RxOffload` | `VerdictIsTheChips`, `EvaluatedAsSwitched`, `TagAsReceived` |
| `SettingsRight` | `Config`, `Media` | `FieldsAsConfigured`, `ListensToGiven`, `PermanentIsOwn`; `AdvertisesSetting`, `ReportsTrueSpeed` |
| `AccessSound` | `PhyAccess` | `WritesHitMeant`, `WritesOwnContents`, `AutonegReadsOwn` |
| `WindowsExact` | `EriWindow` | `ReadIsExact`, `WriteIsExact`, `UpdateIsLocal`, `LateStaysInWords` |
| `AddressesExact` | `Eeprom`, `MulticastHash` | the words that were read; the CRC and its bit |

Definitions headed "Faulty variant" are not used by the specifications. Each is a
plausible mistake in the definition that follows it, with which the property it is paired
with in PROJECT.json ("mutants") fails.

## 3. What is checked

Passing runs:

| run | states | instance | shows |
|---|---|---|---|
| `tx_drain` | 251,888 | 4 packets of up to 3 fragments, rings of 4, `UShortMax` 3, no reset | the queue's safety, and `ServiceSpec` with liveness |
| `tx_reset` | 812,280 | 3 packets, 4 fragments, 1 reset | driver and NIC in step after a reset that finds the queue quiet, with a reset between any two steps |
| `rx_queue` | 501,817 | rings of 4, 1 reset, cancel | the queue's safety, and `FrameIndicated` |
| `irq_dpcs` | 1,820,077 | 2 processors, Rx queue, link changes, shared line, stop and start | the safety of notifications |
| `irq_live` | 58,799 | 2 processors, Tx queue; a shared line, or one of its own with system errors and FIFO overflow | `WorkIsPolled`, also when the ISR opens the mask under a running DPC; `MaskReopened` |
| `life` | 23,710 | 3 starts, 3 events | accesses, low power, rings, first start, end of a teardown |
| `start` | 161,271 | every version of the tables and an unknown one; cancel and filter in a reset of one chip per generation | the tables agree; functions return |
| `components` | 456,256 | as below | ten properties of eleven components |

In `components`: for `PhyPatch` all kinds of chip, two requests of two words, slow PHY;
`LinkReport` two processors, two changes, one start, system errors; `RxFilter` two
requests of five, two addresses; `MulticastHash` all values of one byte, and addresses that differ in one or
two; `TxOffload` the oldest and the newest descriptors, the header offsets 54, 254 and 255,
which lie on both sides of both limits (127 of the older descriptors, 255 of the
assertion), every combination of switches and extensions; `RxOffload` the same; `Config`
all three sources of an address, two settings that the registry has with values in range
and out of it, or does not have; `Media` all settings, chips of seven kinds, three
partners; `PhyAccess` a chip with PHYAR and one with PHYOCPACCESS, one poll
before giving up, one run of each thread; `EriWindow` two words, every call, two polls;
`Eeprom` both sizes, two addresses and an EEPROM without one.

Runs that find a violation of what a comment of the code says:

* `tx_cancel`: "the queue will continue to be drained like normal" (`txqueue.cpp:641`).
  A packet is posted; a link change resets the chip and `RtResetQueues` sets
  `TxDescIndex` to 0; the NIC begins at descriptor 0, and the packet's descriptors keep
  OWN for ever. The queue is not drained, cancelled or not.
* `rx_cancel`: "anything that may have been indicated during rx disable"
  (`rxqueue.cpp:516`). A link change handled after the cancel's `re_stop` posts every
  buffer and starts the receiver. The two hold different locks.
* `start_d25`: "Enable interrupts." (`if_re.c:7802`). MACFG_84 to 87 are not in the
  switch that sets `isRTL8125` (`device.cpp:220`); the start function for older chips
  writes the mask where these have their status.
* `network_address`: "Read NetworkAddress registry value", "Use it as the current address
  if any" (`configuration.cpp:141`). A valid one is read into `CurrentAddress` and sets
  `OverrideAddress`, for which `device.cpp:193` copies the permanent address over it. The
  run fails for all three sources of a permanent address; `ListensToGiven` says only that
  the chip listens to what the start made of it.

Disagreements met while modelling that have no run of their own:

* The `re_stop` of `EvtRxQueueCancel` resets the transmitter too, so packets still posted
  are not sent; and a late DPC starts the chip again on rings about to be freed, which D0
  exit to D3Final does not stop (`power.cpp:73`). `EnginesHaveRings` says when that
  cannot be.
* Without a `NetworkAddress` the current address stays as it was, zero at first
  (`device.cpp:193`), and one that is not valid stays in it (`configuration.cpp:149`).
  `*RegVlanid` (`configuration.cpp:38`) is not the keyword `if_re.inx:150` offers,
  `RegVlanid`, so no value of it is ever read.
* The checksum of received TCP goes by `TxTcpHwChkSum` (`rxqueue.cpp:175`). The assertion
  at `txqueue.cpp:293` allows offsets below 255, the capability (`adapter.h:25`) 1023.
  IPv6 checksums are offered for chips that have none (`adapter.cpp:199`); segmentation
  and an IPv6 checksum at once share bits. The properties leave these packets out:
  checksums of TCP or UDP at offsets of 255 and above (`Asserted`), IPv6 checksums on such
  chips (`Incapable`) and the two at once (`Clash`).
* A D-Link 4300 is told to the system with 100 Mbit/s (`device.cpp:215`); on MACFG_84 to
  87 a speed above 1000 is not seen in the status byte. Device ids that `re_ifmedia_upd`
  does not list get no gigabit modes written, and pause bits only on MACFG_36.
* The DMA parameters of RXCFG are not written after a low-power state (`power.cpp:29`).
  A filter request between "no frames" and the reset in `re_stop` lets frames in.
* On six chips the `re_stop` of a cancel waits for a transmitter that a reset which comes
  in between has started again, with nothing left that stops it (`if_re.c:8376`).
  `ResetReturns` says that every other call returns.
* A system error makes the ISR drop completions it has acknowledged (`interrupt.cpp:77`).

Bounds. Rings of 4 hold 3 elements: enough to be empty, partly full and full, for a
packet to wrap in the middle, and for packets ahead of and behind another; indices wrap
any number of times, as nothing counts packets. One reset falls between any two steps of
one call, and finds a ring that has moved. Two processors are the fewest on which DPCs
overlap. The proofs of section 4 cover all sizes and any number of resets, processors
and starts. `MaxResets`, `MaxFrags`, `MaxEvents`, `MaxStarts`, `MaxRuns`, `MaxChanges`
and `MaxRequests` are the bounds that cut behaviours off; `Raced` limits which versions
are also raced. Three starts in `life` are one that fails, one that is put to sleep and
one that wakes. `CHECK_DEADLOCK FALSE` is set because all systems may stop: the
operating system need not offer anything, and a device at rest is quiet.

Fairness. A call into the driver returns (its loops are bounded by ring indices) and a
reset that began is completed: weak fairness of their steps. NetAdapterCx polls a queue
while packets are outstanding: weak fairness of `EvtTxQueueAdvance` and
`EvtRxQueueAdvance`. The receive side needs packets to be offered in the end, and they are
offered only between calls: strong fairness of `OfferPacket`. The NIC works through what a
doorbell told it of; nothing makes frames arrive. A line that is asserted and open
interrupts a processor; code that runs goes on; a spin lock that is free again and again
is got in the end (strong fairness of the steps that take the interrupt lock, which ISRs
on a shared line can keep busy, in `Interrupt`, `LinkReport` and `Lifecycle`). A thread is
woken if it was notified; waking without cause is allowed, never required. In `Lifecycle`
what has begun is carried on, and a packet posted since the last stop is sent; nothing
says a device is ever taken down or that what was posted before a stop is ever sent, so
`TeardownEnds` is about teardowns with nothing posted. In `ChipStart` accesses go on and a
transmitter that was told to stop drains. Starting and stopping is never required.

`WorkIsPolled` speaks of behaviours in which no system error and no link change is ever
pending (its antecedent, not the run, leaves the others out): the ISR drops the bits it
has acknowledged on the path of an error, and `re_stop` clears the status register, so
that a completion then waits for the next interrupt of its kind. `MaskReopened` has no
such antecedent. Link changes are left out of the run for its size, as are both queues at
once.

## 4. What is proved

Every safety invariant and action property of a passing run is a theorem, but for three
named below; so is the safety part of the refinement of `TxService`. All theorems hold
for every value of the constants that satisfies the module's ASSUME: `RxSizeAssumption`
(at least two fragments, no more than packets, and no more than USHRT_MAX),
`SizeAssumption` (at least two elements per ring, at most one fragment more than
USHRT_MAX), `CpuAssumption` (some processors, some queues), `LifecycleAssumption` (the
bounds are natural numbers), `ChipAssumption` (versions are 12-bit numbers, those raced
are among them) and `ComponentsAssumption` (each component's own: lists, settings and
contents of the right kind, natural numbers as bounds, at least one poll). Each rests on
an inductive invariant; the invariants the runs check are consequences, hardly one of
them inductive itself.

* `NetRingProofs` has the lemmas about rings that both queues need. `Off`, the distance
  of an element from the oldest one, numbers the ring: `SpanDistinct`, `SpanNext`,
  `SpanAdvance`, `SpanOnto`.
* `RxQueueProofs` proves all safety properties of the receive queue. `IndInv` adds to
  the types: `RingOrdered` (the ring's indices are in order until a cancel), `EndMarked`
  (every descriptor the NIC owns has EOR exactly at the end of the ring, except the one
  being half-written), `SlideInv` (what a reset nothing overlaps has posted so far) and,
  while nothing has gone wrong, `Agreement`: the frames that arrived lie in the
  fragments at distances 0, 1, ..., in order; the NIC is at the fragment after them; the
  fragments from there to `next` are the NIC's. `Agreement` is why the loop that stops
  at the first descriptor the NIC owns misses nothing, and why a descriptor about to be
  posted never holds a frame. A reset establishes `Agreement` anew because then distance
  and descriptor index are the same.
* `TxQueueProofs` proves all six safety properties of the transmit queue and the
  refinement, in three steps. The types are not a formality: `nic.at` stays inside the
  ring only because `RingEndMarked` holds. `OrderInv`: the indices of both rings are in
  order, the packets' fragments follow one another without a gap, and the fragment
  ring's begin and next are those of the packets the driver has got to. `LockInv` adds,
  as long as no reset has met work (`~torn`), that the driver and the NIC agree
  (`Lockstep`): the descriptors the NIC owns are those from `nic.at` to `TxDescIndex`
  and hold the fragments still to be sent, in order; each TCB names its packet's first
  descriptor; the NIC has gathered the beginning of the packet it is in; and it either
  polls or is still to be told (`Rung`). `Serves` maps each step of the queue and the
  NIC to a step or a stutter of `TxService`; `[]~torn` is its hypothesis because
  `tx_cancel` shows that a torn queue does not serve, and `ServesWithoutReset` says that
  without resets there is none.
* `InterruptProofs` proves the four safety properties of notifications for any number of
  processors. `ArmedOnce` is the argument: a DPC past the exchange is alone with an
  arming that has been taken, and its thread is asleep or in the flush; `FlushWaits`
  says that a flush in progress still counts every run of the DPC that might notify.
* `LifecycleProofs` proves the three invariants of `Lifecycle` for any number of starts
  and events. `AccessibleInD0`: queues exist, and a DPC is queued or runs, only between
  D0 entry and the end of a teardown, where the mapping is there and access allowed; so
  no access is lost, and the last `re_stop` before a sleep takes effect. `RingInv`, of
  four parts, is why engines run on rings: a queue that may reset the chip has its ring
  and its neighbour's handle; the DPC resets it only for a change of the link, of which
  none is left outside of running queues unless `late`; and the receive queue's cancel
  stops both engines while both rings are there.
* `ChipStartProofs` proves the four invariants of the register sequences for every
  version, by saying what holds of the steps left to do and showing it of each sequence
  from the parts it is put together from. `GuardInv`: what is left opens the
  configuration registers before it writes one and closes them in the end; two such
  sequences in a row are one. `QuietInv`: on the way to sleep, what is still on is still
  to be switched off. `ProgramInv`: the PHY has the driver's version only with its
  program, and where the program is not there, loading it is left to do. `ReadyInv`:
  what is left to do leaves each switch a running queue needs as it should be; a cancel
  and a filter request that come in between do not close one that nothing opens again.
* `PhyAccessProofs` proves `AccessSound`. Each thread's script is followed with the page
  the PHY must have at each operation (`PagesAt`), and `AccessInv` says that it has it,
  that the driver's copy says so, and that what was read came from the register meant,
  as long as the threads did not meet and the PHY was not late.
* `ComponentProofs` proves the rest of `Components`, a component at a time, and then
  that each keeps its invariant while another one moves. `LinkInv`: a change that was
  not reported has a flag, a DPC or a check to come. `FilterInv`: a request or reset
  that was not disturbed has written what it has got to, and everything in the chip is
  from a recent request. `SettingsInv` and `MediaInv`: what was read is in range, and
  the address, the advertisement and the reported speed follow from it. `WindowInv`: the
  word being read or written lies within the call, and the words before it are done.
  `PatchInv` is about what is left to do again, which here branches: a claim (`Claim`)
  says that each step of one kind comes after one that makes something so, with none
  between that undoes it, or while it is so now. There are nine: the PHY was asked for
  the patch before it is written and answered (`Asked`, `Ready`), the key is there when
  needed (`Keyed`), the code is in before the version says so (`Brought`), request and
  key are withdrawn before the start is over (`Withdrawn`, `Unlocked`), and power saving
  is off when it must be (`NotOn`, `IsOff`); where the version is written after all
  patches, nothing of a patch is left when it is there (`Over`). `ClaimPop` keeps them
  over a step that is done, `ClaimPush` over one that is replaced by its routine's
  steps, and a crash empties the sequence. They hold unless a poll gave up (`late`), of
  which the properties say nothing.

Only model-checked: what needs fairness, which is out of the prover's reach
(`ServiceSpec` as a whole, `FrameIndicated`, `WorkIsPolled`, `MaskReopened`,
`LastQueueStartsChip`, `TeardownEnds`, `ResetReturns`, `ReportConverges`); and
`FrameAsAsked`, `VerdictIsTheChips` and `AddressesExact`, which compare recursive
functions (powers of two, a CRC, words shifted in bit by bit) with what they should
give: that takes induction over data, which the provers here cannot do.

## 5. What is not modelled

* Contents of frames, and of buffers beyond which fragment they are.
* The PHY programs, some 20,000 lines of register writes, and tuning values of the
  register sequences: data without control. Together with the copy in `import/`, half of
  all lines, they are why most lines of the repository have no definition here.
* The mutex shared with the chip's firmware: dead code, as `re_dash` is forced to 0
  (`if_re.c:4045`).
* The PHY access of MACFG_63, which goes through OCPDR and OCPAR
  (`if_re.c:37943`); Giga Lite speeds.
* Polls that give up, outside `PhyAccess`, `PhyPatch` and `EriWindow`: what follows does not look at
  how they ended.
* Failures while a queue or the device's objects are created: the frameworks delete what
  there is, and no handle is kept. `Lifecycle` has the failures of prepare.
* A fragment ring longer than the packet ring, for which the array of receive descriptors
  would be too short (`rxqueue.cpp:352`): NetAdapterCx chooses both lengths.
* 0xFFFF from a NIC that was removed; like 0 it makes the ISR do nothing.
* Weak memory beyond the points above where the code has no barrier: on x64 stores are
  seen in order, and the barriers the code has are taken at their word.
* `KeFlushQueuedDpcs` under a spin lock (`txqueue.cpp:591`) breaks a rule about IRQLs; no
  wait in the models stands for it.
* RSS and more than one queue of a kind: the adapter asks for one of each.
* The components marked `not_modelled` in PROJECT.json, for the reasons given there.

Where the models speak with a qualification: a reset that stops a chip with work in its
link code overlaps a D0 exit only in `Lifecycle`, not in `ChipStart`; the chip keeps
RXCFG's DMA bits over a soft reset; NetAdapterCx clears a packet's checksum information
before it hands the packet to the driver; a device whose second prepare fails early may
still have its engines on from the first (`Lifecycle` keeps them, and `late`).

## 6. Plan

Done: all modules above, and the theorems of section 4. What is left, in the order of
what matters most:

1. `FrameAsAsked` and `VerdictIsTheChips` as theorems: the bit fields of the descriptors
   as explicit sums in place of powers of two, so that arithmetic alone decides them.
2. Of `AddressesExact`, what needs no induction: that the EEPROM's words are stored at
   the places they were read from, and the rest of its registers left alone.
3. `Serves` over torn resets: that a torn queue loses packets but never sends a frame
   that was not posted.
