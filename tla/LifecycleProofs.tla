---------------------------- MODULE LifecycleProofs ----------------------------
(* Proofs about Lifecycle, whatever the link and the other interrupts do and      *)
(* however often the device is started and put to sleep: registers are accessed   *)
(* only while they are mapped and allowed, a sleeping chip is stopped, and the    *)
(* engines run on rings that exist unless a change of the link came too late.     *)
EXTENDS Lifecycle, TLAPS

(* The registers are mapped and allowed from the end of prepare to D0 exit; the  *)
(* queues exist, and a DPC is due or runs, only inside that.                     *)
AccessibleInD0 ==
    /\ pnp \in {"prepared", "D0", "teardown", "exit"} => mapped /\ ~prohibited
    /\ pnp = "D3" => mapped
    /\ \A q \in Queues : pc[q] # "none" => Connected
    /\ queued \/ pc["dpc"] # "idle" => Connected

\* Each thread is where it can be.
OwnPc == pc["dpc"] \in DpcPcs /\ \A q \in Queues : pc[q] \in QueuePcs

IndInv ==
    /\ TypeOK /\ OwnPc /\ AccessibleInD0
    /\ StoppedInLowPower /\ AccessedOnlyInD0

-----------------------------------------------------------------------------
\* The initial state satisfies the invariant.
LEMMA InitIndInv == Init => IndInv
  <1> SUFFICES ASSUME Init PROVE IndInv
    OBVIOUS
  <1>1. pc["dpc"] = "idle" /\ \A q \in Queues : pc[q] = "none"
    BY DEF Init, Actors, Queues
  <1>2. pc \in [Actors -> QueuePcs \cup DpcPcs]
    BY DEF Init, QueuePcs, DpcPcs
  <1>3. \A a \in Actors : ~At(a, "start") /\ ilock # a
    BY <1>1 DEF Init, Actors, Queues, At
  <1>4. /\ on \in [Queues -> BOOLEAN] /\ handle \in [Queues -> BOOLEAN]
        /\ addr \in [Queues -> {"none", "ring", "freed"}]
    BY DEF Init
  <1>5. events \in 0..MaxEvents /\ starts \in 0..MaxStarts
    BY LifecycleAssumption DEF Init
  <1>6. /\ pnp \in PnpStates /\ ilock \in Actors \cup {"free"}
        /\ mapped \in BOOLEAN /\ prohibited \in BOOLEAN /\ touched \in BOOLEAN
        /\ imr \in BOOLEAN /\ cause \in BOOLEAN /\ linkChg \in BOOLEAN /\ queued \in BOOLEAN
        /\ posted \in {"none", "since", "before"} /\ late \in BOOLEAN
    BY DEF Init, PnpStates
  <1>7. TypeOK
    BY <1>2, <1>3, <1>4, <1>5, <1>6 DEF TypeOK
  <1>8. OwnPc
    BY <1>1 DEF OwnPc, DpcPcs, QueuePcs
  <1>9. AccessibleInD0
    BY <1>1 DEF Init, AccessibleInD0
  <1> QED
    BY <1>7, <1>8, <1>9 DEF Init, IndInv, StoppedInLowPower, AccessedOnlyInD0

\* What stopping the chip leaves has the types.
LEMMA Stops ==
    ASSUME TypeOK, Stopped
    PROVE  /\ on' \in [Queues -> BOOLEAN] /\ ~on'["rx"] /\ ~on'["tx"]
           /\ imr' = FALSE /\ cause' = FALSE /\ posted' \in {"none", "since", "before"}
  BY DEF Stopped, TypeOK, Queues

\* One more start is within the bound, and so is one more event.
LEMMA Counts ==
    ASSUME TypeOK
    PROVE  /\ starts < MaxStarts => starts + 1 \in 0..MaxStarts
           /\ events < MaxEvents => events + 1 \in 0..MaxEvents
  BY LifecycleAssumption DEF TypeOK

\* The steps of the PnP thread keep it.
LEMMA PnpKeeps == ASSUME IndInv, Pnp PROVE IndInv'
  <1> USE LifecycleAssumption
      DEF IndInv, TypeOK, OwnPc, AccessibleInD0, StoppedInLowPower, AccessedOnlyInD0,
          PnpStates, QueuePcs, DpcPcs, Actors, Queues, At, Connected, Up, Access, Touch,
          Stopped, re_stop, chip
  <1>1. CASE Prepare
    <2>1. starts' \in 0..MaxStarts
      BY <1>1, Counts DEF Prepare
    <2>2. TypeOK'
      <3>1. CASE Stopped
        BY <1>1, <2>1, <3>1, Stops DEF Prepare
      <3>2. CASE UNCHANGED <<on, imr, cause, posted, late>>
        BY <1>1, <2>1, <3>2 DEF Prepare
      <3> QED
        BY <1>1, <3>1, <3>2 DEF Prepare
    <2>3. pnp' \in {"prepared", "release"} /\ (pnp' = "prepared" => mapped')
      BY <1>1 DEF Prepare
    <2>4. OwnPc' /\ AccessibleInD0' /\ StoppedInLowPower' /\ AccessedOnlyInD0'
      BY <1>1, <2>3 DEF Prepare
    <2> QED
      BY <2>2, <2>4
  <1>2. CASE D0EntryFirst
    BY <1>2 DEF D0EntryFirst
  <1>3. CASE D0Entry
    <2>1. starts' \in 0..MaxStarts
      BY <1>3, Counts DEF D0Entry
    <2>2. addr' \in [Queues -> {"none", "ring", "freed"}]
      BY <1>3 DEF D0Entry
    <2>3. TypeOK'
      BY <1>3, <2>1, <2>2, Stops DEF D0Entry
    <2>4. OwnPc' /\ AccessibleInD0' /\ StoppedInLowPower' /\ AccessedOnlyInD0'
      BY <1>3 DEF D0Entry
    <2> QED
      BY <2>3, <2>4
  <1>4. CASE Teardown
    BY <1>4 DEF Teardown
  <1>5. CASE Disconnect
    BY <1>5 DEF Disconnect
  <1>6. CASE D0ExitSleep
    BY <1>6 DEF D0ExitSleep
  <1>7. CASE D0ExitFinal
    BY <1>7 DEF D0ExitFinal
  <1>8. CASE RemoveAsleep
    BY <1>8 DEF RemoveAsleep
  <1>9. CASE Release
    BY <1>9 DEF Release
  <1> QED
    BY <1>1, <1>2, <1>3, <1>4, <1>5, <1>6, <1>7, <1>8, <1>9 DEF Pnp

\* A thread that moves within its own places leaves the others where they are.
LEMMA Moves ==
    ASSUME TypeOK, OwnPc, NEW a \in Actors, NEW l \in QueuePcs \cup DpcPcs, Goto(a, l),
           a = "dpc" => l \in DpcPcs, a \in Queues => l \in QueuePcs
    PROVE  /\ pc' \in [Actors -> QueuePcs \cup DpcPcs] /\ OwnPc'
           /\ pc'[a] = l /\ \A b \in Actors \ {a} : pc'[b] = pc[b]
  <1>1. pc' = [pc EXCEPT ![a] = l] /\ pc \in [Actors -> QueuePcs \cup DpcPcs]
    BY DEF TypeOK, Goto
  <1>2. pc' \in [Actors -> QueuePcs \cup DpcPcs]
    BY <1>1
  <1>3. pc'[a] = l /\ \A b \in Actors \ {a} : pc'[b] = pc[b]
    BY <1>1
  <1>4. "dpc" \in Actors /\ \A q \in Queues : q \in Actors /\ q # "dpc"
    BY DEF Actors, Queues
  <1>5. pc'["dpc"] \in DpcPcs
    BY <1>3, <1>4 DEF OwnPc
  <1>6. \A q \in Queues : pc'[q] \in QueuePcs
    BY <1>3, <1>4 DEF OwnPc
  <1> QED
    BY <1>2, <1>3, <1>5, <1>6 DEF OwnPc

\* A reset of the link, by whoever makes it, keeps it.
LEMMA ResetKeeps ==
    ASSUME NEW a \in Actors, NEW next \in {"running", "imr"}, IndInv, Reset(a, next),
           a = "dpc" <=> next = "imr"
    PROVE  IndInv'
  <1>1. TypeOK /\ OwnPc /\ AccessibleInD0 /\ StoppedInLowPower /\ AccessedOnlyInD0
    BY DEF IndInv
  <1>2. pc[a] \in {"reset", "start"} /\ Connected
    BY <1>1 DEF Reset, At, AccessibleInD0, Actors
  <1>3. Access /\ touched' = FALSE
    BY <1>1, <1>2 DEF Reset, Touch, Access, AccessibleInD0, Connected, AccessedOnlyInD0,
                      TypeOK
  <1>4. UNCHANGED <<pnp, mapped, prohibited, handle, addr, linkChg, queued, events, late,
                    starts>>
    BY DEF Reset
  <1>5. PICK l \in {"start", next} :
            /\ Goto(a, l) /\ ilock' = IF l = "start" THEN a ELSE "free"
            /\ l = "start" => ilock = "free" /\ pc[a] = "reset"
            /\ l = next => pc[a] = "start"
    BY DEF Reset, At
  <1>6. /\ pc' \in [Actors -> QueuePcs \cup DpcPcs] /\ OwnPc'
        /\ pc'[a] = l /\ \A b \in Actors \ {a} : pc'[b] = pc[b]
    <2>1. l \in QueuePcs \cup DpcPcs /\ (a = "dpc" => l \in DpcPcs)
          /\ (a \in Queues => l \in QueuePcs)
      BY <1>5 DEF QueuePcs, DpcPcs, Queues
    <2> QED
      BY <1>1, <1>5, <2>1, Moves
  <1>7. ilock' \in Actors \cup {"free"} /\ \A b \in Actors : At(b, "start")' <=> ilock' = b
    BY <1>1, <1>5, <1>6 DEF TypeOK, At, Actors, Queues
  <1>8. /\ on' \in [Queues -> BOOLEAN] /\ imr' \in BOOLEAN /\ cause' \in BOOLEAN
        /\ posted' \in {"none", "since", "before"}
    <2>1. CASE re_stop
      BY <1>1, <1>3, <2>1, Stops DEF re_stop
    <2>2. CASE re_hw_start /\ UNCHANGED <<cause, posted>>
      BY <1>1, <1>3, <2>2 DEF re_hw_start, TypeOK
    <2> QED
      BY <2>1, <2>2 DEF Reset
  <1>9. TypeOK'
    BY <1>1, <1>3, <1>4, <1>6, <1>7, <1>8 DEF TypeOK
  <1>10. AccessibleInD0'
    <2>1. pnp' = pnp /\ Connected' = Connected
      BY <1>4 DEF Connected
    <2> QED
      BY <1>1, <1>2, <1>4, <2>1 DEF AccessibleInD0
  <1>11. StoppedInLowPower' /\ AccessedOnlyInD0'
    BY <1>2, <1>3, <1>4 DEF StoppedInLowPower, AccessedOnlyInD0, Connected
  <1> QED
    BY <1>6, <1>9, <1>10, <1>11 DEF IndInv

\* The steps of a queue keep it.
LEMMA QueueKeeps ==
    ASSUME NEW q \in Queues, IndInv, QueueStep(q) PROVE IndInv'
  <1>1. CASE QueueReset(q)
    BY <1>1, ResetKeeps DEF QueueReset, Queues, Actors
  <1> USE LifecycleAssumption
      DEF IndInv, TypeOK, OwnPc, AccessibleInD0, StoppedInLowPower, AccessedOnlyInD0,
          PnpStates, QueuePcs, DpcPcs, Actors, Queues, At, Connected, Up, Access, Touch,
          Goto, chip
  <1>2. CASE Create(q)
    BY <1>2 DEF Create
  <1>3. CASE Start(q)
    BY <1>3 DEF Start
  <1>4. CASE FirstStart(q)
    BY <1>4 DEF FirstStart
  <1>5. CASE StopFlush(q)
    BY <1>5 DEF StopFlush
  <1>6. CASE Stop(q)
    BY <1>6 DEF Stop
  <1>7. CASE Destroy(q)
    BY <1>7 DEF Destroy
  <1> QED
    BY <1>1, <1>2, <1>3, <1>4, <1>5, <1>6, <1>7 DEF QueueStep

\* So do cancels, the NIC and the transmission of packets ...
LEMMA EnvironmentKeeps ==
    ASSUME IndInv, RxCancel \/ TxCancel \/ TxPost \/ NicSend \/ LinkChange PROVE IndInv'
  <1> USE LifecycleAssumption
      DEF IndInv, TypeOK, OwnPc, AccessibleInD0, StoppedInLowPower, AccessedOnlyInD0,
          PnpStates, QueuePcs, DpcPcs, Actors, Queues, At, Connected, Up, Access, Touch,
          Goto, chip
  <1>1. CASE RxCancel
    BY <1>1 DEF RxCancel, re_stop, Stopped
  <1>2. CASE TxCancel
    BY <1>2 DEF TxCancel
  <1>3. CASE TxPost
    BY <1>3 DEF TxPost
  <1>4. CASE NicSend
    BY <1>4 DEF NicSend
  <1>5. CASE LinkChange
    BY <1>5 DEF LinkChange
  <1> QED
    BY <1>1, <1>2, <1>3, <1>4, <1>5

\* ... the ISR and the DPC, which run only while the interrupt is connected.
LEMMA InterruptKeeps ==
    ASSUME IndInv, Isr \/ OtherInterrupt \/ Dpc PROVE IndInv'
  <1>1. CASE DpcReset
    BY <1>1, ResetKeeps DEF DpcReset, Actors
  <1> USE LifecycleAssumption
      DEF IndInv, TypeOK, OwnPc, AccessibleInD0, StoppedInLowPower, AccessedOnlyInD0,
          PnpStates, QueuePcs, DpcPcs, Actors, Queues, At, Connected, Up, Access, Touch,
          Goto
  <1>2. CASE Isr
    BY <1>2 DEF Isr
  <1>3. CASE OtherInterrupt
    <2>1. events' \in 0..MaxEvents
      BY <1>3, Counts DEF OtherInterrupt
    <2>2. TypeOK'
      BY <1>3, <2>1 DEF OtherInterrupt
    <2>3. OwnPc' /\ AccessibleInD0' /\ StoppedInLowPower' /\ AccessedOnlyInD0'
      BY <1>3 DEF OtherInterrupt
    <2> QED
      BY <2>2, <2>3
  <1>4. CASE DpcBegin
    BY <1>4 DEF DpcBegin, chip
  <1>5. CASE DpcEnd
    BY <1>5 DEF DpcEnd
  <1> QED
    BY <1>1, <1>2, <1>3, <1>4, <1>5 DEF Dpc

\* The invariant holds in every reachable state.
LEMMA Inductive == Spec => []IndInv
  <1>1. IndInv /\ [Next]_vars => IndInv'
    <2> SUFFICES ASSUME IndInv, [Next]_vars PROVE IndInv'
      OBVIOUS
    <2>1. CASE UNCHANGED vars
      BY <2>1 DEF vars, chip, IndInv, TypeOK, OwnPc, AccessibleInD0, StoppedInLowPower,
                  AccessedOnlyInD0, At, Connected
    <2>2. CASE Next
      BY <2>2, PnpKeeps, QueueKeeps, EnvironmentKeeps, InterruptKeeps DEF Next
    <2> QED
      BY <2>1, <2>2
  <1> QED
    BY <1>1, InitIndInv, PTL DEF Spec

-----------------------------------------------------------------------------
(* Why the engines run on rings.  A queue is started and cancelled only where    *)
(* the PnP thread lets it be ...                                                 *)
Started == {"firstStart", "reset", "start", "running"}

QueuesInD0 ==
    \A q \in Queues :
        /\ pc[q] \in {"created", "firstStart", "reset", "start"} => Up
        /\ pc[q] \in {"cancelled", "flushed", "stopped"} => pnp = "teardown"
        /\ pnp = "teardown" /\ pc[q] = "running" =>
               \A r \in Queues : pc[r] \in {"running", "cancelled"}

\* ... its handle and the address of its ring are there from its start to its stop, and
\* it resets the chip only when the other queue has its own ...
StartedHasRing ==
    \A q \in Queues :
        /\ handle[q] <=> pc[q] \in Started \cup {"cancelled", "flushed"}
        /\ pc[q] \in Started \cup {"cancelled", "flushed", "stopped"} => addr[q] = "ring"
        /\ pc[q] \in {"reset", "start"} => \A r \in Queues : handle[r]

\* ... the DPC resets it only for a change of the link, of which there is none left to
\* deal with unless both queues run ...
LinkQuietUnlessRunning ==
    /\ linkChg => queued
    /\ ~late /\ ~(Up /\ BothRunning) =>
           ~cause /\ ~linkChg /\ pc["dpc"] \notin {"reset", "start"}

\* ... and the cancel of the receive queue stops both engines before either ring goes.
EnginesStartedLast ==
    ~late => \A q \in Queues : on[q] =>
        (\A r \in Queues : handle[r]) /\ pc["rx"] \in Started

RingInv == QueuesInD0 /\ StartedHasRing /\ LinkQuietUnlessRunning /\ EnginesStartedLast

\* At first no queue and no engine is there.
LEMMA InitRingInv == Init => RingInv
  BY DEF Init, RingInv, QueuesInD0, StartedHasRing, LinkQuietUnlessRunning,
         EnginesStartedLast, Started, Queues, Actors

\* Every step keeps this, given the invariant above.
LEMMA RingsKept == ASSUME IndInv, RingInv, Next PROVE RingInv'
  <1> USE DEF IndInv, TypeOK, OwnPc, AccessibleInD0, RingInv, QueuesInD0, StartedHasRing,
          LinkQuietUnlessRunning, EnginesStartedLast, Started, Actors, Queues, At, Goto,
          Connected, Up, Access, Touch, Stopped, re_stop, re_hw_start, BothRunning,
          LinkQuiet, BothCancelled, chip
  <1>1. ASSUME Prepare PROVE RingInv'
    <2>1. (\A q \in Queues : (pc[q] = "none" /\ ~handle[q] /\ ~on[q]) \/ late)
          /\ ~linkChg /\ pc["dpc"] = "idle" /\ (\A q \in Queues : pc[q] = "none")
      BY <1>1 DEF Prepare
    <2>2. CASE Stopped
      BY <1>1, <2>1, <2>2 DEF Prepare
    <2>3. CASE UNCHANGED <<on, imr, cause, posted, late>>
      BY <1>1, <2>1, <2>3 DEF Prepare
    <2> QED
      BY <1>1, <2>2, <2>3 DEF Prepare
  <1>2. ASSUME D0EntryFirst PROVE RingInv'
    BY <1>2 DEF D0EntryFirst
  <1>3. ASSUME D0Entry PROVE RingInv'
    BY <1>3 DEF D0Entry
  <1>4. ASSUME Teardown PROVE RingInv'
    BY <1>4 DEF Teardown
  <1>5. ASSUME Disconnect PROVE RingInv'
    BY <1>5 DEF Disconnect
  <1>6. ASSUME D0ExitSleep PROVE RingInv'
    BY <1>6 DEF D0ExitSleep
  <1>7. ASSUME D0ExitFinal PROVE RingInv'
    BY <1>7 DEF D0ExitFinal
  <1>8. ASSUME RemoveAsleep PROVE RingInv'
    BY <1>8 DEF RemoveAsleep
  <1>9. ASSUME Release PROVE RingInv'
    BY <1>9 DEF Release
  <1>10. ASSUME RxCancel PROVE RingInv'
    BY <1>10 DEF RxCancel
  <1>11. ASSUME TxCancel PROVE RingInv'
    BY <1>11 DEF TxCancel
  <1>12. ASSUME TxPost PROVE RingInv'
    BY <1>12 DEF TxPost
  <1>13. ASSUME NicSend PROVE RingInv'
    BY <1>13 DEF NicSend
  <1>14. ASSUME LinkChange PROVE RingInv'
    BY <1>14 DEF LinkChange
  <1>15. ASSUME Isr PROVE RingInv'
    BY <1>15 DEF Isr
  <1>16. ASSUME OtherInterrupt PROVE RingInv'
    BY <1>16 DEF OtherInterrupt
  <1>17. ASSUME DpcBegin PROVE RingInv'
    BY <1>17 DEF DpcBegin
  <1>18. ASSUME DpcEnd PROVE RingInv'
    BY <1>18 DEF DpcEnd
  <1>19. ASSUME NEW q \in Queues, Create(q) PROVE RingInv'
    BY <1>19 DEF Create
  <1>20. ASSUME NEW q \in Queues, Start(q) PROVE RingInv'
    BY <1>20 DEF Start
  <1>21. ASSUME NEW q \in Queues, FirstStart(q) PROVE RingInv'
    BY <1>21 DEF FirstStart
  <1>22. ASSUME NEW q \in Queues, StopFlush(q) PROVE RingInv'
    BY <1>22 DEF StopFlush
  <1>23. ASSUME NEW q \in Queues, Stop(q) PROVE RingInv'
    BY <1>23 DEF Stop
  <1>24. ASSUME NEW q \in Queues, Destroy(q) PROVE RingInv'
    BY <1>24 DEF Destroy
  <1>25. ASSUME NEW q \in Queues, QueueReset(q) PROVE RingInv'
    <2>1. CASE At(q, "reset")
      BY <1>25, <2>1 DEF QueueReset, Reset
    <2>2. CASE At(q, "start")
      BY <1>25, <2>2 DEF QueueReset, Reset
    <2> QED
      BY <1>25, <2>1, <2>2 DEF QueueReset, Reset
  <1>26. ASSUME DpcReset PROVE RingInv'
    <2>1. CASE At("dpc", "reset")
      BY <1>26, <2>1 DEF DpcReset, Reset
    <2>2. CASE At("dpc", "start")
      BY <1>26, <2>2 DEF DpcReset, Reset
    <2> QED
      BY <1>26, <2>1, <2>2 DEF DpcReset, Reset
  <1> HIDE DEF IndInv, RingInv
  <1> QED
    BY <1>1, <1>2, <1>3, <1>4, <1>5, <1>6, <1>7, <1>8, <1>9, <1>10, <1>11, <1>12,
       <1>13, <1>14, <1>15, <1>16, <1>17, <1>18, <1>19, <1>20, <1>21, <1>22, <1>23,
       <1>24, <1>25, <1>26
       DEF Next, Pnp, QueueStep, Dpc

\* So it holds in every reachable state.
LEMMA RingsInductive == Spec => []RingInv
  <1>1. IndInv /\ RingInv /\ [Next]_vars => RingInv'
    <2> SUFFICES ASSUME IndInv, RingInv, [Next]_vars PROVE RingInv'
      OBVIOUS
    <2>1. CASE UNCHANGED vars
      BY <2>1 DEF vars, chip, RingInv, QueuesInD0, StartedHasRing, LinkQuietUnlessRunning,
                  EnginesStartedLast, At, Up, BothRunning
    <2> QED
      BY <2>1, RingsKept
  <1> QED
    BY <1>1, InitRingInv, Inductive, PTL DEF Spec

-----------------------------------------------------------------------------
\* All variables keep their types, and the interrupt lock is held exactly between
\* the two halves of a reset.
THEOREM TypeCorrect == Spec => []TypeOK
  BY Inductive, PTL DEF IndInv

\* No DPC, ISR, queue or PnP callback accesses a register that is not mapped, or
\* while access is prohibited: link.cpp, power.cpp and the queues' callbacks.
THEOREM AccessesAllowed == Spec => []AccessedOnlyInD0
  BY Inductive, PTL DEF IndInv

\* A chip in a low-power state neither transfers nor interrupts, whatever a late
\* DPC did between the cancel of its queues and D0 exit (power.cpp:56-62).
THEOREM SleepsStopped == Spec => []StoppedInLowPower
  BY Inductive, PTL DEF IndInv

\* The NIC receives and transmits only while RXADDR and TXADDR hold the addresses of
\* rings that exist (if_re.c:8657-8662), over any number of starts and stops of the
\* queues, unless a change of the link was still to be dealt with when the queues were
\* not both running.
THEOREM EnginesUseRings == Spec => []EnginesHaveRings
  <1>1. RingInv => EnginesHaveRings
    BY DEF RingInv, EnginesStartedLast, StartedHasRing, EnginesHaveRings
  <1> QED
    BY <1>1, RingsInductive, PTL

=============================================================================
