------------------------------ MODULE Interrupt ------------------------------
(* interrupt.cpp and the callbacks that arm and disarm notifications: the ISR    *)
(* and the DPC of EvtInterruptIsr and EvtInterruptDpc, the DPC running on any    *)
(* number of processors at once, the NIC raising interrupt causes, and one       *)
(* thread of the operating system per queue, which polls its queue, arms its     *)
(* notification, sleeps, and starts and stops the queue.                         *)
(*                                                                               *)
(* A step is one interlocked exchange, one register access or one call.          *)
EXTENDS Integers, FiniteSets

CONSTANTS
    Cpus,       \* processors
    Queues,     \* the queues in this instance; one left out is always started
    NoCpu,      \* the DPC is not queued
    Environments,   \* what a NIC may find: which causes besides "tx" and "rx" it raises,
                    \* and whether another device shares its interrupt line
    MayStop     \* queues are cancelled and stopped in this instance

BothQueues == {"tx", "rx"}

ASSUME CpuAssumption ==
    /\ Queues # {} /\ Queues \subseteq BothQueues
    /\ Cpus # {} /\ NoCpu \notin Cpus
    /\ Environments \subseteq [extra : SUBSET {"link", "sys", "oflow"}, shared : BOOLEAN]
    /\ MayStop \in BOOLEAN

Causes  == Queues \cup {"link", "sys", "oflow"}
Flags   == {"tx", "rx", "link", "pci"}      \* txInterrupt, rxInterrupt, ...
RE_INTRS == Causes \ {"oflow"}              \* FIFO_OFLOW raises no interrupt

VARIABLES
    environment,    \* the one of this behaviour
    on,             \* the NIC has been started and not stopped since
    isr, imr,       \* its status register; its interrupt mask is open
    isrPc,          \* where the ISR is; it holds the interrupt lock unless "idle"
    status,         \* the status the ISR read
    queueDPC,       \* the ISR's local of that name
    dpcOn,          \* the processor whose DPC queue holds the DPC, or NoCpu
    pc,             \* where the DPC is on each processor
    flag,           \* the soft flags the ISR leaves for the DPC
    NotifyArmed,    \* TxNotifyArmed and RxNotifyArmed[0]
    handle,         \* TxQueues[0] and RxQueues[0] are not NULL
    lock,           \* who holds adapter->Lock
    thread,         \* what the operating system's thread of each queue does
    due,            \* how many runs of the DPC KeFlushQueuedDpcs still waits for
    work,           \* the NIC completed something its queue has not polled yet
    notified        \* NetAdapterCx was told that it did

nicVars == <<on, isr, imr>>
isrVars == <<environment, isrPc, status, queueDPC>>
osVars  == <<handle, lock, thread, due>>
vars    == <<environment, on, isr, imr, isrPc, status, queueDPC, dpcOn, pc, flag,
             NotifyArmed, handle, lock, thread, due, work, notified>>

ArmedPc(q)  == IF q = "tx" THEN "txArmed" ELSE "rxArmed"
NotifyPc(q) == IF q = "tx" THEN "txNotify" ELSE "rxNotify"
AfterPc(q)  == IF q = "tx" THEN "rx" ELSE "link"

DpcPcs == {"idle", "pci", "tx", "txArmed", "txNotify", "rx", "rxArmed", "rxNotify",
           "link", "reset", "imr"}
IsrPcs == {"idle", "ack", "rx", "tx", "link", "pci", "done"}
ThreadStates == {"stopped", "starting", "polling", "armed", "waiting", "disarm",
                 "flush", "flushing", "cancelled", "stop", "stopflush", "stopflushing"}

NoneDue == [c \in Cpus |-> 0]

\* Prepare has stopped the chip: its mask is closed until RtlFirstStart.
Init ==
    /\ environment \in Environments
    /\ on = FALSE /\ isr = {} /\ imr = FALSE
    /\ isrPc = "idle" /\ status = {} /\ queueDPC = FALSE
    /\ dpcOn = NoCpu /\ pc = [c \in Cpus |-> "idle"]
    /\ flag = [f \in Flags |-> FALSE]
    /\ NotifyArmed = [q \in BothQueues |-> FALSE]
    /\ handle = [q \in Queues |-> FALSE]
    /\ lock = "free"
    /\ thread = [q \in Queues |-> "stopped"]
    /\ due = [q \in Queues |-> NoneDue]
    /\ work = [q \in Queues |-> FALSE]
    /\ notified = [q \in BothQueues |-> FALSE]

-----------------------------------------------------------------------------
(* The NIC.  A queue's work is in memory before its cause is raised.             *)

NicWork(q) ==
    /\ on
    /\ work' = [work EXCEPT ![q] = TRUE]
    /\ isr' = isr \cup {q}
    /\ UNCHANGED <<on, imr, isrVars, dpcOn, pc, flag, NotifyArmed, osVars, notified>>

NicCause(b) ==
    /\ b \in environment.extra /\ isr' = isr \cup {b}
    /\ UNCHANGED <<on, imr, isrVars, dpcOn, pc, flag, NotifyArmed, osVars, work,
                   notified>>

-----------------------------------------------------------------------------
(* EvtInterruptIsr.                                                              *)

\* With no cause set the ISR only opens the mask.
IsrRead ==
    /\ isrPc = "idle"
    /\ environment.shared \/ (imr /\ isr \cap RE_INTRS # {})
    /\ status' = isr
    /\ IF isr = {} THEN imr' = TRUE /\ UNCHANGED isrPc
                   ELSE isrPc' = "ack" /\ UNCHANGED imr
    /\ UNCHANGED <<environment, on, isr, queueDPC, dpcOn, pc, flag, NotifyArmed, osVars,
                   work, notified>>

\* FIFO_OFLOW is never acknowledged.
Acknowledged == status \ {"oflow"}

IsrAck ==
    /\ isrPc = "ack"
    /\ imr' = FALSE /\ isr' = isr \ Acknowledged
    /\ isrPc' = IF "sys" \in status THEN "pci" ELSE "rx"
    /\ UNCHANGED <<environment, on, status, queueDPC, dpcOn, pc, flag, NotifyArmed, osVars,
                   work, notified>>

\* Faulty variant: no DPC is wanted while one is queued or running.
NoDpcYet(f) == ~flag[f] /\ dpcOn = NoCpu /\ \A c \in Cpus : pc[c] = "idle"

\* InterlockedExchange8 returned FALSE.
WasClear(f) == ~flag[f]

\* Set a flag; the DPC is wanted if the flag was not already set.
Raise(f, seen, next) ==
    /\ flag' = [flag EXCEPT ![f] = @ \/ seen]
    /\ queueDPC' = (queueDPC \/ (seen /\ WasClear(f)))
    /\ isrPc' = next
    /\ UNCHANGED <<environment, nicVars, status, dpcOn, pc, NotifyArmed, osVars, work,
                   notified>>

\* A system error is the only thing the ISR reports of the status it is in.
IsrSystemError == isrPc = "pci" /\ Raise("pci", TRUE, "done")
IsrRx   == isrPc = "rx"   /\ Raise("rx", status \cap {"rx", "oflow"} # {}, "tx")
IsrTx   == isrPc = "tx"   /\ Raise("tx", "tx" \in status, "link")
IsrLink == isrPc = "link" /\ Raise("link", "link" \in status, "done")

\* A queued DPC is not queued twice; without one the mask is opened again.
IsrDone ==
    /\ isrPc = "done"
    /\ IF queueDPC
       THEN /\ \E c \in Cpus : dpcOn' = IF dpcOn = NoCpu THEN c ELSE dpcOn
            /\ UNCHANGED imr
       ELSE imr' = TRUE /\ UNCHANGED dpcOn
    /\ isrPc' = "idle" /\ status' = {} /\ queueDPC' = FALSE
    /\ UNCHANGED <<environment, on, isr, pc, flag, NotifyArmed, osVars, work, notified>>

-----------------------------------------------------------------------------
(* EvtInterruptDpc on processor c.                                               *)

DpcStep(c, to) == pc' = [pc EXCEPT ![c] = to]

\* How many runs of the DPC each processor has before it, the current one included.
RunsPending == [c \in Cpus |-> (IF pc[c] # "idle" THEN 1 ELSE 0)
                                 + (IF dpcOn = c THEN 1 ELSE 0)]

OneRunLess(c) ==
    due' = [q \in Queues |-> [due[q] EXCEPT ![c] = IF @ = 0 THEN 0 ELSE @ - 1]]

DpcStart(c) ==
    /\ dpcOn = c /\ pc[c] = "idle"
    /\ dpcOn' = NoCpu /\ DpcStep(c, "pci")
    /\ UNCHANGED <<nicVars, isrVars, flag, NotifyArmed, osVars, work, notified>>

DpcPci(c) ==
    /\ pc[c] = "pci"
    /\ flag' = [flag EXCEPT !["pci"] = FALSE]
    /\ DpcStep(c, "tx")
    /\ UNCHANGED <<nicVars, isrVars, dpcOn, NotifyArmed, osVars, work, notified>>

DpcFlag(c, q) ==
    /\ pc[c] = q
    /\ flag' = [flag EXCEPT ![q] = FALSE]
    /\ DpcStep(c, IF flag[q] THEN ArmedPc(q) ELSE AfterPc(q))
    /\ UNCHANGED <<nicVars, isrVars, dpcOn, NotifyArmed, osVars, work, notified>>

\* Faulty variant: the arming is tested and left as it is.
ArmingKept(q) == NotifyArmed[q]

ArmingTaken(q) == FALSE

\* The exchange that decides whether this DPC notifies.
DpcArmed(c, q) ==
    /\ pc[c] = ArmedPc(q)
    /\ NotifyArmed' = [NotifyArmed EXCEPT ![q] = ArmingTaken(q)]
    /\ DpcStep(c, IF NotifyArmed[q] THEN NotifyPc(q) ELSE AfterPc(q))
    /\ UNCHANGED <<nicVars, isrVars, dpcOn, flag, osVars, work, notified>>

\* NetTxQueueNotify... or NetRxQueueNotify..., with the handle in the adapter.
DpcNotify(c, q) ==
    /\ pc[c] = NotifyPc(q)
    /\ notified' = [notified EXCEPT ![q] = TRUE]
    /\ DpcStep(c, AfterPc(q))
    /\ UNCHANGED <<nicVars, isrVars, dpcOn, flag, NotifyArmed, osVars, work>>

DpcLink(c) ==
    /\ pc[c] = "link"
    /\ flag' = [flag EXCEPT !["link"] = FALSE]
    /\ DpcStep(c, IF flag["link"] THEN "reset" ELSE "imr")
    /\ UNCHANGED <<nicVars, isrVars, dpcOn, NotifyArmed, osVars, work, notified>>

\* RtlResetLink under the interrupt lock: re_stop clears the status register
\* and re_hw_start_unlock opens the mask.
ResetLink == isrPc = "idle" /\ on' = TRUE /\ isr' = {} /\ imr' = TRUE

\* RtlCheckLinkStatus resets the link whether it went up or down.
DpcReset(c) ==
    /\ pc[c] = "reset" /\ ResetLink
    /\ DpcStep(c, "imr")
    /\ UNCHANGED <<isrVars, dpcOn, flag, NotifyArmed, osVars, work, notified>>

\* Faulty variant: the DPC leaves the mask as the ISR left it.
MaskKept == imr

MaskAfterDpc == TRUE

DpcImr(c) ==
    /\ pc[c] = "imr" /\ isrPc = "idle"
    /\ imr' = MaskAfterDpc
    /\ DpcStep(c, "idle") /\ OneRunLess(c)
    /\ UNCHANGED <<on, isr, isrVars, dpcOn, flag, NotifyArmed, handle, lock, thread,
                   work, notified>>

-----------------------------------------------------------------------------
(* The operating system's thread of queue q.  NetAdapterCx serialises the        *)
(* callbacks of one queue and starts one queue after the other; it arms a        *)
(* notification when a poll found nothing and polls once more before it sleeps.  *)

Go(q, to) == thread' = [thread EXCEPT ![q] = to]

\* EvtTxQueueStart and EvtRxQueueStart publish the queue under adapter->Lock ...
QueueStart(q) ==
    /\ thread[q] = "stopped" /\ lock = "free"
    /\ \A r \in Queues : thread[r] # "starting"
    /\ handle' = [handle EXCEPT ![q] = TRUE]
    /\ work' = [work EXCEPT ![q] = FALSE]
    /\ notified' = [notified EXCEPT ![q] = FALSE]
    /\ Go(q, "starting")
    /\ UNCHANGED <<nicVars, isrVars, dpcOn, pc, flag, NotifyArmed, lock, due>>

\* ... and RtlFirstStart starts the NIC if the other one is there too.
FirstStart(q) ==
    /\ thread[q] = "starting"
    /\ IF \A r \in Queues : handle[r] THEN ResetLink ELSE UNCHANGED nicVars
    /\ Go(q, "polling")
    /\ UNCHANGED <<isrVars, dpcOn, pc, flag, NotifyArmed, handle, lock, due,
                   work, notified>>

\* EvtTxQueueAdvance or EvtRxQueueAdvance sees what the NIC has completed.
Advance(q) ==
    /\ thread[q] \in {"polling", "armed"} /\ work[q]
    /\ work' = [work EXCEPT ![q] = FALSE]
    /\ Go(q, IF thread[q] = "armed" THEN "disarm" ELSE "polling")
    /\ UNCHANGED <<nicVars, isrVars, dpcOn, pc, flag, NotifyArmed, handle, lock,
                   due, notified>>

\* SetNotificationEnabled(true).
Arm(q) ==
    /\ thread[q] = "polling" /\ ~work[q]
    /\ NotifyArmed' = [NotifyArmed EXCEPT ![q] = TRUE]
    /\ notified' = [notified EXCEPT ![q] = FALSE]
    /\ Go(q, "armed")
    /\ UNCHANGED <<nicVars, isrVars, dpcOn, pc, flag, handle, lock, due, work>>

Sleep(q) ==
    /\ thread[q] = "armed" /\ ~work[q]
    /\ Go(q, "waiting")
    /\ UNCHANGED <<nicVars, isrVars, dpcOn, pc, flag, NotifyArmed, handle, lock,
                   due, work, notified>>

\* Woken by the notification, or for a reason of the operating system's own.
Wake(q) ==
    /\ thread[q] = "waiting"
    /\ Go(q, "disarm")
    /\ UNCHANGED <<nicVars, isrVars, dpcOn, pc, flag, NotifyArmed, handle, lock,
                   due, work, notified>>

\* Faulty variant: KeFlushQueuedDpcs is not called.
AfterDisarmUnflushed(q) == IF thread[q] = "stop" THEN "stopflushing" ELSE "flushing"

AfterDisarm(q) == IF thread[q] = "stop" THEN "stopflush" ELSE "flush"

\* SetNotificationEnabled(false): RtTxQueueSetInterrupt, RtRxQueueSetInterrupt.
Disarm(q) ==
    /\ thread[q] \in {"disarm", "stop"}
    /\ NotifyArmed' = [NotifyArmed EXCEPT ![q] = FALSE]
    /\ Go(q, AfterDisarm(q))
    /\ UNCHANGED <<nicVars, isrVars, dpcOn, pc, flag, handle, lock, due, work,
                   notified>>

\* KeFlushQueuedDpcs is called: the runs of the DPC that are under way or queued
\* on each processor have to end before it returns.
Flush(q) ==
    /\ thread[q] \in {"flush", "stopflush"}
    /\ due' = [due EXCEPT ![q] = RunsPending]
    /\ Go(q, IF thread[q] = "flush" THEN "flushing" ELSE "stopflushing")
    /\ UNCHANGED <<nicVars, isrVars, dpcOn, pc, flag, NotifyArmed, handle, lock, work,
                   notified>>

\* KeFlushQueuedDpcs returns.
Flushed(q) == due[q] = NoneDue

Disarmed(q) ==
    /\ thread[q] = "flushing" /\ Flushed(q)
    /\ Go(q, "polling")
    /\ UNCHANGED <<nicVars, isrVars, dpcOn, pc, flag, NotifyArmed, handle, lock, due,
                   work, notified>>

\* EvtTxQueueCancel does nothing; EvtRxQueueCancel calls re_stop, which closes the
\* mask, under adapter->Lock: the ISR and the DPC hold the interrupt lock.
QueueCancel(q) ==
    /\ MayStop /\ thread[q] = "polling" /\ lock = "free"
    /\ IF q = "rx" THEN on' = FALSE /\ isr' = {} /\ imr' = FALSE
                   ELSE UNCHANGED nicVars
    /\ Go(q, "cancelled")
    /\ UNCHANGED <<isrVars, dpcOn, pc, flag, NotifyArmed, handle, lock, due, work,
                   notified>>

\* EvtTxQueueStop and EvtRxQueueStop hold adapter->Lock throughout.
QueueStop(q) ==
    /\ thread[q] = "cancelled" /\ lock = "free"
    /\ lock' = q
    /\ Go(q, "stop")
    /\ UNCHANGED <<nicVars, isrVars, dpcOn, pc, flag, NotifyArmed, handle, due,
                   work, notified>>

QueueStopped(q) ==
    /\ thread[q] = "stopflushing" /\ Flushed(q)
    /\ handle' = [handle EXCEPT ![q] = FALSE]
    /\ lock' = "free"
    /\ Go(q, "stopped")
    /\ UNCHANGED <<nicVars, isrVars, dpcOn, pc, flag, NotifyArmed, due, work,
                   notified>>

-----------------------------------------------------------------------------
Nic == (\E q \in Queues : NicWork(q)) \/ (\E b \in environment.extra : NicCause(b))

Isr == IsrRead \/ IsrAck \/ IsrSystemError \/ IsrRx \/ IsrTx \/ IsrLink \/ IsrDone

Dpc(c) == \/ DpcStart(c) \/ DpcPci(c) \/ DpcLink(c) \/ DpcReset(c) \/ DpcImr(c)
          \/ \E q \in BothQueues : DpcFlag(c, q) \/ DpcArmed(c, q) \/ DpcNotify(c, q)

Os(q) == \/ QueueStart(q) \/ FirstStart(q) \/ Advance(q) \/ Arm(q) \/ Sleep(q)
         \/ Wake(q) \/ Disarm(q) \/ Flush(q) \/ Disarmed(q) \/ QueueCancel(q) \/ QueueStop(q) \/ QueueStopped(q)

Next == Nic \/ Isr \/ (\E c \in Cpus : Dpc(c)) \/ (\E q \in Queues : Os(q))

\* The line interrupts a processor, code that runs goes on, and a
\* lock that is free again and again is got in the end.
Spec ==
    /\ Init /\ [][Next]_vars
    /\ WF_vars(IsrRead /\ imr /\ isr \cap RE_INTRS # {})
    /\ WF_vars(IsrAck \/ IsrSystemError \/ IsrRx \/ IsrTx \/ IsrLink \/ IsrDone)
    /\ \A c \in Cpus : /\ WF_vars(Dpc(c))
                       /\ SF_vars(DpcReset(c)) /\ SF_vars(DpcImr(c))
    /\ \A q \in Queues :
          /\ WF_vars(FirstStart(q) \/ Advance(q) \/ Arm(q) \/ Sleep(q) \/ Disarm(q)
                     \/ Flush(q) \/ Disarmed(q))
          /\ WF_vars(Wake(q) /\ notified[q])

-----------------------------------------------------------------------------
(* Properties. *)

TypeOK ==
    /\ environment \in Environments
    /\ on \in BOOLEAN /\ isr \subseteq Causes /\ imr \in BOOLEAN
    /\ isrPc \in IsrPcs /\ status \subseteq Causes /\ queueDPC \in BOOLEAN
    /\ dpcOn \in Cpus \cup {NoCpu} /\ pc \in [Cpus -> DpcPcs]
    /\ flag \in [Flags -> BOOLEAN] /\ NotifyArmed \in [BothQueues -> BOOLEAN]
    /\ handle \in [Queues -> BOOLEAN] /\ lock \in Queues \cup {"free"}
    /\ thread \in [Queues -> ThreadStates] /\ due \in [Queues -> [Cpus -> 0 .. 2]]
    /\ work \in [Queues -> BOOLEAN] /\ notified \in [BothQueues -> BOOLEAN]

\* The comment at txqueue.cpp:514 and rxqueue.cpp:375: once the call that disarms
\* a notification has returned, no DPC is about to deliver one.
NoLateNotification ==
    \A q \in Queues : thread[q] \in {"stopped", "starting", "polling"} =>
                         \A c \in Cpus : pc[c] # NotifyPc(q)

\* A notification is never delivered through a queue handle that is NULL.
NotifiesLiveQueue ==
    \A q \in Queues, c \in Cpus : pc[c] = NotifyPc(q) => handle[q]

\* One arming is answered by one notification, however many DPCs run: two of them
\* never deliver it together, and not while it is armed anew.
OneNotificationPerArming ==
    \A q \in Queues, c \in Cpus :
       pc[c] = NotifyPc(q) => /\ ~NotifyArmed[q] /\ ~notified[q]
                              /\ \A e \in Cpus : pc[e] = NotifyPc(q) => e = c

\* A flag the ISR set is never stranded: the ISR queues the DPC only for a flag
\* that was clear, so a set flag must have a DPC that has still to look at it.
Before(f) == {"pci"} \cup (IF f = "pci" THEN {} ELSE {"tx"})
                     \cup (IF f \in {"pci", "tx"} THEN {} ELSE {"txArmed", "txNotify", "rx"})
                     \cup (IF f = "link" THEN {"rxArmed", "rxNotify", "link"} ELSE {})

FlagHasDpc ==
    \A f \in Flags : flag[f] => \/ dpcOn # NoCpu \/ queueDPC
                                \/ \E c \in Cpus : pc[c] \in Before(f)

\* What the NIC completed is polled, though the queue may be about to sleep: if the ISR
\* never reads a system error, with which it drops every other cause, and never a change
\* of the link, after which the reset clears the status.
WorkIsPolled ==
    [](status \cap {"sys", "link"} = {}) => \A q \in Queues : work[q] ~> ~work[q]

\* An interrupt mask the ISR closed is opened again.
MaskReopened == ~imr /\ on ~> imr \/ ~on
=============================================================================
