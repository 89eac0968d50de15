------------------------------ MODULE Lifecycle ------------------------------
(* device.cpp, power.cpp, link.cpp and the create, start, cancel, stop and       *)
(* destroy callbacks of both queues, composed: what the PnP thread, the thread   *)
(* of each queue, the DPC and the chip do to each other while the device is      *)
(* started, put to sleep, woken, stopped and released.                           *)
(*                                                                               *)
(* The order in which WDF and NetAdapterCx make the calls is external: queues    *)
(* are created after D0 entry; both are cancelled before either is stopped; a    *)
(* queue is stopped when its packets have come back; and before D0 exit the      *)
(* queues are destroyed, the interrupt is disconnected and its DPC has ended.    *)
EXTENDS Naturals

CONSTANTS
    MaxEvents,   \* bound: changes of the link and other interrupts; a queue that is
                 \* cancelled has only so many descriptors left to be filled
    MaxStarts    \* bound: prepares and D0 entries

ASSUME LifecycleAssumption == MaxEvents \in Nat /\ MaxStarts \in Nat

Queues == {"tx", "rx"}
Actors == Queues \cup {"dpc"}

VARIABLES
    pnp,         \* where the PnP thread is
    mapped,      \* MMIOAddress is not NULL
    prohibited,  \* prohibit_access_reg: writes are dropped, reads return ones
    touched,     \* a register was accessed without a mapping or while prohibited
    pc,          \* where each queue's thread and the DPC are
    handle,      \* RxQueues[0] and TxQueues[0] are not NULL
    ilock,       \* who holds the interrupt lock, or "free"
    on,          \* the NIC's receiver and transmitter are enabled
    addr,        \* RXADDR and TXADDR: no ring, a ring, or a ring that was freed
    imr,         \* the interrupt mask is open
    cause,       \* the link cause is set in the status register
    linkChg,     \* the soft flag of that name
    queued,      \* the DPC is queued
    posted,      \* a packet given to the NIC: none, since its last stop, or before
    late,        \* since the last start the link changed, or had not been dealt with,
                 \* while the queues were not both running
    events, starts

chip == <<on, addr, imr, cause>>
vars == <<pnp, mapped, prohibited, touched, pc, handle, ilock, on, addr, imr, cause,
          linkChg, queued, posted, events, late, starts>>

Init ==
    /\ pnp = "removed" /\ mapped = FALSE /\ prohibited = FALSE /\ touched = FALSE
    /\ pc = [a \in Actors |-> IF a = "dpc" THEN "idle" ELSE "none"]
    /\ handle = [q \in Queues |-> FALSE]
    /\ ilock = "free"
    /\ on = [q \in Queues |-> FALSE] /\ addr = [q \in Queues |-> "none"]
    /\ imr = FALSE /\ cause = FALSE /\ linkChg = FALSE /\ queued = FALSE
    /\ posted = "none" /\ late = FALSE /\ events = 0 /\ starts = 0

-----------------------------------------------------------------------------
(* Registers.                                                                    *)

Access == mapped /\ ~prohibited

\* Every action that reads or writes a register says so.
Touch == touched' = (touched \/ ~Access)

At(a, l)   == pc[a] = l
Goto(a, l) == pc' = [pc EXCEPT ![a] = l]

\* re_stop, or the re_reset of a chip that has just got its power back: packets
\* that were posted lie before the descriptor the NIC goes on with.
Stopped ==
    /\ on' = [q \in Queues |-> FALSE] /\ imr' = FALSE /\ cause' = FALSE
    /\ posted' = IF posted = "none" THEN "none" ELSE "before"

re_stop == IF Access THEN Stopped ELSE UNCHANGED <<on, imr, cause, posted>>

\* re_hw_start_unlock after RtResetQueues: the ring addresses are left alone.
re_hw_start ==
    IF Access THEN on' = [q \in Queues |-> TRUE] /\ imr' = TRUE
              ELSE UNCHANGED <<on, imr>>

Up == pnp = "D0"
Connected == pnp \in {"D0", "teardown"}
BothRunning == \A q \in Queues : At(q, "running")
LinkQuiet == ~cause /\ ~linkChg /\ ~queued /\ At("dpc", "idle")

-----------------------------------------------------------------------------
(* device.cpp and power.cpp.                                                     *)

\* RtInitializeHardware up to RtAdapterStart; the RtlFirstStart at its end finds
\* no queue.  It fails before the registers are mapped, after that, or after the
\* chip has been reset, and WDF then releases the hardware.
Prepare ==
    /\ pnp = "removed" /\ starts < MaxStarts /\ starts' = starts + 1
    /\ prohibited' = FALSE                       \* bsdData is zeroed
    /\ \/ /\ pnp' = "release" /\ mapped' \in {mapped, TRUE}
          /\ UNCHANGED <<on, imr, cause, posted, late>>
       \/ /\ pnp' \in {"prepared", "release"} /\ mapped' = TRUE
          /\ Stopped /\ late' = FALSE
    /\ UNCHANGED <<touched, pc, handle, ilock, addr, linkChg, queued, events>>

\* EvtDeviceD0Entry from D3Final does nothing: prepare has been through it all.
D0EntryFirst ==
    /\ pnp = "prepared" /\ pnp' = "D0"
    /\ UNCHANGED <<mapped, prohibited, touched, pc, handle, ilock, chip, linkChg,
                   queued, posted, events, late, starts>>

\* Faulty variant: D0 entry does not allow register access again.
D0EntryProhibited ==
    /\ pnp = "D3" /\ pnp' = "D0" /\ starts < MaxStarts /\ starts' = starts + 1
    /\ Touch /\ re_stop
    /\ UNCHANGED <<mapped, prohibited, pc, handle, ilock, addr, linkChg, queued, late,
                   events>>

\* EvtDeviceD0Entry from D3: the chip may have lost its registers.
D0Entry ==
    /\ pnp = "D3" /\ pnp' = "D0" /\ starts < MaxStarts /\ starts' = starts + 1
    /\ prohibited' = FALSE /\ late' = FALSE /\ Stopped
    /\ addr' \in {addr, [q \in Queues |-> "none"]}
    /\ UNCHANGED <<mapped, touched, pc, handle, ilock, linkChg, queued, events>>

\* External: NetAdapterCx begins to take down the queues it has started.
Teardown ==
    /\ Up /\ \E l \in {"none", "running"} : \A q \in Queues : At(q, l)
    /\ late' = (late \/ ~LinkQuiet)
    /\ pnp' = "teardown"
    /\ UNCHANGED <<mapped, prohibited, touched, pc, handle, ilock, chip, linkChg,
                   queued, posted, events, starts>>

\* External: the interrupt is disconnected and its DPC has ended.
Disconnect ==
    /\ pnp = "teardown" /\ \A q \in Queues : At(q, "none")
    /\ ~queued /\ At("dpc", "idle")
    /\ pnp' = "exit"
    /\ UNCHANGED <<mapped, prohibited, touched, pc, handle, ilock, chip, linkChg,
                   queued, posted, events, late, starts>>

\* Faulty variant: register access is prohibited before the chip is stopped.
D0ExitProhibitsFirst ==
    /\ pnp = "exit" /\ pnp' = "D3" /\ prohibited' = TRUE
    /\ UNCHANGED <<mapped, touched, pc, handle, ilock, chip, linkChg, queued, posted,
                   events, late, starts>>

\* EvtDeviceD0Exit to D3: re_stop, re_hw_d3_para, prohibit.
D0ExitSleep ==
    /\ pnp = "exit" /\ pnp' = "D3"
    /\ Touch /\ re_stop /\ prohibited' = TRUE
    /\ UNCHANGED <<mapped, pc, handle, ilock, addr, linkChg, queued, events, late, starts>>

\* EvtDeviceD0Exit to D3Final only puts the permanent address back.
D0ExitFinal ==
    /\ pnp = "exit" /\ pnp' = "release"
    /\ Touch
    /\ UNCHANGED <<mapped, prohibited, pc, handle, ilock, chip, linkChg, queued,
                   posted, events, late, starts>>

\* A device that is removed while it sleeps gets no second D0 exit.
RemoveAsleep ==
    /\ pnp = "D3" /\ pnp' = "release"
    /\ UNCHANGED <<mapped, prohibited, touched, pc, handle, ilock, chip, linkChg,
                   queued, posted, events, late, starts>>

Release ==
    /\ pnp = "release" /\ pnp' = "removed" /\ mapped' = FALSE
    /\ UNCHANGED <<prohibited, touched, pc, handle, ilock, chip, linkChg, queued,
                   posted, events, late, starts>>

-----------------------------------------------------------------------------
(* RtlResetLink, by the DPC or by a queue's thread, holding the interrupt lock.  *)

\* Faulty variant: the interrupt lock is not released.
ResetKeepsLock(a, next) ==
    \/ /\ At(a, "reset") /\ ilock = "free" /\ ilock' = a
       /\ Touch /\ re_stop /\ Goto(a, "start")
       /\ UNCHANGED <<pnp, mapped, prohibited, handle, addr, linkChg, queued, events,
                      late, starts>>
    \/ /\ At(a, "start")
       /\ Touch /\ re_hw_start /\ Goto(a, next)
       /\ UNCHANGED <<pnp, mapped, prohibited, handle, ilock, addr, cause, linkChg,
                      queued, posted, events, late, starts>>

Reset(a, next) ==
    \/ /\ At(a, "reset") /\ ilock = "free" /\ ilock' = a
       /\ Touch /\ re_stop /\ Goto(a, "start")
       /\ UNCHANGED <<pnp, mapped, prohibited, handle, addr, linkChg, queued, events,
                      late, starts>>
    \/ /\ At(a, "start") /\ ilock' = "free"
       /\ Touch /\ re_hw_start /\ Goto(a, next)
       /\ UNCHANGED <<pnp, mapped, prohibited, handle, addr, cause, linkChg, queued,
                      posted, events, late, starts>>

-----------------------------------------------------------------------------
(* The queues.                                                                   *)

\* EvtAdapterCreateTxQueue and EvtAdapterCreateRxQueue.  One that fails has no effect:
\* the descriptors are the last thing it allocates, and what it allocated before is the
\* queue object's, which goes with it.
Create(q) ==
    /\ Up /\ At(q, "none") /\ Goto(q, "created")
    /\ UNCHANGED <<pnp, mapped, prohibited, touched, handle, ilock, chip, linkChg,
                   queued, posted, events, late, starts>>

\* EvtRxQueueStart and EvtTxQueueStart up to RtlFirstStart.
Start(q) ==
    /\ At(q, "created") /\ Goto(q, "firstStart")
    /\ Touch
    /\ addr' = IF Access THEN [addr EXCEPT ![q] = "ring"] ELSE addr
    /\ handle' = [handle EXCEPT ![q] = TRUE]
    /\ UNCHANGED <<pnp, mapped, prohibited, ilock, on, imr, cause, linkChg, queued,
                   posted, events, late, starts>>

\* Faulty variant: only the receive queue starts the chip.
RxStartsChip(q) ==
    /\ At(q, "firstStart")
    /\ Goto(q, IF q = "rx" /\ \A r \in Queues : handle[r] THEN "reset" ELSE "running")
    /\ UNCHANGED <<pnp, mapped, prohibited, touched, handle, ilock, chip, linkChg,
                   queued, posted, events, late, starts>>

\* RtlFirstStart: without both queues there is nothing to start.
FirstStart(q) ==
    /\ At(q, "firstStart")
    /\ Goto(q, IF \A r \in Queues : handle[r] THEN "reset" ELSE "running")
    /\ UNCHANGED <<pnp, mapped, prohibited, touched, handle, ilock, chip, linkChg,
                   queued, posted, events, late, starts>>

QueueReset(q) == Reset(q, "running")

\* Faulty variant: a cancelled receive queue leaves the chip running.
RxCancelIgnored ==
    /\ pnp = "teardown" /\ At("rx", "running") /\ Goto("rx", "cancelled")
    /\ UNCHANGED <<pnp, mapped, prohibited, touched, handle, ilock, chip, linkChg,
                   queued, posted, events, late, starts>>

\* EvtRxQueueCancel: re_stop under adapter->Lock, which no reset takes.
RxCancel ==
    /\ pnp = "teardown" /\ At("rx", "running") /\ Goto("rx", "cancelled")
    /\ Touch /\ re_stop
    /\ UNCHANGED <<pnp, mapped, prohibited, handle, ilock, addr, linkChg, queued,
                   events, late, starts>>

\* EvtTxQueueCancel does nothing: the queue is drained.
TxCancel ==
    /\ pnp = "teardown" /\ At("tx", "running") /\ Goto("tx", "cancelled")
    /\ UNCHANGED <<pnp, mapped, prohibited, touched, handle, ilock, chip, linkChg,
                   queued, posted, events, late, starts>>

BothCancelled == \A q \in Queues : pc[q] \in {"none", "cancelled", "flushed", "stopped"}

\* The stop callbacks wait in KeFlushQueuedDpcs and then drop the handle.
StopFlush(q) ==
    /\ At(q, "cancelled") /\ BothCancelled
    /\ q = "tx" => posted = "none"
    /\ ~queued /\ At("dpc", "idle")
    /\ Goto(q, "flushed")
    /\ UNCHANGED <<pnp, mapped, prohibited, touched, handle, ilock, chip, linkChg,
                   queued, posted, events, late, starts>>

Stop(q) ==
    /\ At(q, "flushed") /\ Goto(q, "stopped")
    /\ handle' = [handle EXCEPT ![q] = FALSE]
    /\ UNCHANGED <<pnp, mapped, prohibited, touched, ilock, chip, linkChg, queued,
                   posted, events, late, starts>>

\* The ring's memory is given back; the chip is not told.
Destroy(q) ==
    /\ At(q, "stopped") /\ Goto(q, "none")
    /\ addr' = [addr EXCEPT ![q] = IF @ = "ring" THEN "freed" ELSE @]
    /\ UNCHANGED <<pnp, mapped, prohibited, touched, handle, ilock, on, imr, cause,
                   linkChg, queued, posted, events, late, starts>>

TxPost ==
    /\ At("tx", "running") /\ Up /\ posted = "none"
    /\ posted' = "since"
    /\ UNCHANGED <<pnp, mapped, prohibited, touched, pc, handle, ilock, chip, linkChg,
                   queued, events, late, starts>>

-----------------------------------------------------------------------------
(* The NIC, the ISR and the DPC.                                                 *)

\* A packet posted since the last stop is sent; what was posted before may be.
NicSend ==
    /\ on["tx"] /\ posted # "none" /\ posted' = "none"
    /\ UNCHANGED <<pnp, mapped, prohibited, touched, pc, handle, ilock, chip, linkChg,
                   queued, events, late, starts>>

LinkChange ==
    /\ pnp \in {"D0", "teardown", "exit"} /\ events < MaxEvents
    /\ late' = (late \/ ~(Up /\ BothRunning))
    /\ events' = events + 1 /\ cause' = TRUE
    /\ UNCHANGED <<pnp, mapped, prohibited, touched, pc, handle, ilock, on, addr, imr,
                   linkChg, queued, posted, starts>>

\* EvtInterruptIsr; Interrupt takes it apart.  It runs holding the interrupt lock, and
\* on a shared line without a cause, too.
Isr ==
    /\ Connected /\ ilock = "free"
    /\ Touch
    /\ cause' = FALSE
    /\ linkChg' = (linkChg \/ cause)
    /\ queued' = (queued \/ (cause /\ ~linkChg))
    /\ imr' = ~(cause /\ ~linkChg)
    /\ UNCHANGED <<pnp, mapped, prohibited, pc, handle, ilock, on, addr, posted, events,
                   late, starts>>

\* Any other cause brings the DPC, too.
OtherInterrupt ==
    /\ Connected /\ ilock = "free" /\ imr /\ ~queued /\ on["rx"]
    /\ events < MaxEvents /\ events' = events + 1
    /\ Touch /\ queued' = TRUE /\ imr' = FALSE
    /\ UNCHANGED <<pnp, mapped, prohibited, pc, handle, ilock, on, addr, cause, linkChg,
                   posted, late, starts>>

DpcBegin ==
    /\ queued /\ At("dpc", "idle") /\ queued' = FALSE
    /\ linkChg' = FALSE
    /\ Goto("dpc", IF linkChg THEN "reset" ELSE "imr")
    /\ UNCHANGED <<pnp, mapped, prohibited, touched, handle, ilock, chip, posted, events,
                   late, starts>>

\* RtlCheckLinkStatus resets the link whether it is up or down.
DpcReset == Reset("dpc", "imr")

DpcEnd ==
    /\ At("dpc", "imr") /\ ilock = "free" /\ Goto("dpc", "idle")
    /\ Touch /\ imr' = IF Access THEN TRUE ELSE imr
    /\ UNCHANGED <<pnp, mapped, prohibited, handle, ilock, on, addr, cause, linkChg,
                   queued, posted, events, late, starts>>

-----------------------------------------------------------------------------

Pnp == Prepare \/ D0EntryFirst \/ D0Entry \/ Teardown \/ Disconnect \/ D0ExitSleep
       \/ D0ExitFinal \/ RemoveAsleep \/ Release

QueueStep(q) == Create(q) \/ Start(q) \/ FirstStart(q) \/ QueueReset(q)
                \/ StopFlush(q) \/ Stop(q) \/ Destroy(q)

Dpc == DpcBegin \/ DpcReset \/ DpcEnd

Next ==
    \/ Pnp \/ Dpc \/ Isr \/ OtherInterrupt \/ LinkChange
    \/ \E q \in Queues : QueueStep(q)
    \/ RxCancel \/ TxCancel \/ TxPost \/ NicSend

\* What has begun is carried on; nothing says the device is ever taken down, the
\* link ever changes, or what was posted before a stop is ever sent.
Fairness ==
    /\ WF_vars(Disconnect) /\ WF_vars(D0ExitSleep \/ D0ExitFinal) /\ WF_vars(Dpc)
    /\ WF_vars(RxCancel) /\ WF_vars(TxCancel)
    /\ \A q \in Queues : WF_vars(Start(q)) /\ WF_vars(FirstStart(q))
                         /\ SF_vars(QueueReset(q)) /\ SF_vars(StopFlush(q))
                         /\ WF_vars(Stop(q)) /\ WF_vars(Destroy(q))
    /\ WF_vars(NicSend /\ posted = "since")
    /\ SF_vars(DpcReset) /\ SF_vars(DpcEnd)

Spec == Init /\ [][Next]_vars
FairSpec == Spec /\ Fairness

-----------------------------------------------------------------------------
(* Properties.                                                                   *)

PnpStates == {"removed", "prepared", "D0", "teardown", "exit", "D3", "release"}
QueuePcs == {"none", "created", "firstStart", "reset", "start", "running",
             "cancelled", "flushed", "stopped"}
DpcPcs == {"idle", "reset", "start", "imr"}

\* Types; the interrupt lock is held exactly between the two halves of a reset.
TypeOK ==
    /\ pnp \in PnpStates
    /\ mapped \in BOOLEAN /\ prohibited \in BOOLEAN /\ touched \in BOOLEAN
    /\ pc \in [Actors -> QueuePcs \cup DpcPcs]
    /\ handle \in [Queues -> BOOLEAN]
    /\ ilock \in Actors \cup {"free"}
    /\ \A a \in Actors : At(a, "start") <=> ilock = a
    /\ on \in [Queues -> BOOLEAN] /\ addr \in [Queues -> {"none", "ring", "freed"}]
    /\ imr \in BOOLEAN /\ cause \in BOOLEAN /\ linkChg \in BOOLEAN /\ queued \in BOOLEAN
    /\ posted \in {"none", "since", "before"} /\ late \in BOOLEAN
    /\ events \in 0..MaxEvents /\ starts \in 0..MaxStarts

\* The chip receives and transmits only while RXADDR and TXADDR are the addresses of
\* rings that exist (if_re.c:8657-8662: otherwise the controller can DMA a frame to
\* freed memory), unless a change of the link had to be dealt with while the queues were
\* started or taken down: the reset that brings starts the chip again.
EnginesHaveRings == ~late => \A q \in Queues : on[q] => addr[q] = "ring"

\* A sleeping chip has been stopped, whatever a late DPC did after the queues were
\* cancelled: D0 exit stops it again before it gives up the registers.
StoppedInLowPower == pnp = "D3" => ~on["rx"] /\ ~on["tx"] /\ ~imr

\* No DPC, ISR or queue callback accesses a register while there is no mapping or
\* while prohibit_access_reg would make the access disappear.
AccessedOnlyInD0 == ~touched

\* Of two queues that start in any order the one that comes last starts the chip.
LastQueueStartsChip ==
    (\A q \in Queues : handle[q]) ~> (on["rx"] /\ on["tx"]) \/ pnp # "D0"

\* A teardown with nothing left to transmit comes to an end: no callback waits for
\* another that waits for it.
TeardownEnds == pnp = "teardown" /\ posted = "none" ~> pnp \in {"D3", "release"}

=============================================================================
