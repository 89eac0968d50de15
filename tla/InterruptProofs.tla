--------------------------- MODULE InterruptProofs ---------------------------
(* Proofs about Interrupt for any number of processors and either set of queues: *)
(* the safety properties of notifications, and that no soft flag is stranded.    *)
EXTENDS Interrupt, TLAPS

(* Who may be about to notify.  An arming is taken by one exchange, so that it   *)
(* and a DPC about to notify exclude one another ...                             *)
ArmedOnce ==
    \A q \in BothQueues :
       /\ NotifyArmed[q] => ~notified[q]
       /\ \A c \in Cpus :
             pc[c] = NotifyPc(q) =>
                /\ ~NotifyArmed[q] /\ ~notified[q]
                /\ \A e \in Cpus : pc[e] = NotifyPc(q) => e = c

Unarmed == {"stopped", "starting", "polling", "cancelled", "stop"}
Disarming == {"flush", "stopflush", "flushing", "stopflushing"}

(* ... a thread that has disarmed stays so, the flush waits for every DPC that   *)
(* may still be about to notify, and after it there is none.                     *)
FlushWaits ==
    \A q \in Queues :
       /\ thread[q] \in Unarmed \cup Disarming => ~NotifyArmed[q]
       /\ thread[q] \in Unarmed => \A c \in Cpus : pc[c] # NotifyPc(q)
       /\ thread[q] \in {"flushing", "stopflushing"}
             => \A c \in Cpus : pc[c] = NotifyPc(q) => due[q][c] # 0
       /\ handle[q] <=> thread[q] # "stopped"

IndInv == TypeOK /\ ArmedOnce /\ FlushWaits

-----------------------------------------------------------------------------
\* The initial state has the types.
LEMMA InitTyping == Init => TypeOK
  <1> SUFFICES ASSUME Init PROVE TypeOK
    OBVIOUS
  <1>1. pc \in [Cpus -> DpcPcs] /\ flag \in [Flags -> BOOLEAN]
    BY DEF Init, DpcPcs
  <1>2. /\ NotifyArmed \in [BothQueues -> BOOLEAN]
        /\ notified \in [BothQueues -> BOOLEAN]
        /\ handle \in [Queues -> BOOLEAN] /\ work \in [Queues -> BOOLEAN]
    BY DEF Init
  <1>3. thread \in [Queues -> ThreadStates] /\ due \in [Queues -> [Cpus -> 0 .. 2]]
    BY DEF Init, ThreadStates, NoneDue
  <1>4. /\ environment \in Environments
        /\ on \in BOOLEAN /\ isr \subseteq Causes /\ imr \in BOOLEAN
        /\ isrPc \in IsrPcs /\ status \subseteq Causes /\ queueDPC \in BOOLEAN
        /\ dpcOn \in Cpus \cup {NoCpu} /\ lock \in Queues \cup {"free"}
    BY DEF Init, IsrPcs
  <1> QED
    BY <1>1, <1>2, <1>3, <1>4 DEF TypeOK

\* The initial state satisfies the invariant: nothing is armed, no DPC runs.
LEMMA InitIndInv == Init => IndInv /\ FlagHasDpc
  <1> SUFFICES ASSUME Init PROVE IndInv /\ FlagHasDpc
    OBVIOUS
  <1>1. ArmedOnce
    BY DEF Init, ArmedOnce, NotifyPc
  <1>2. FlushWaits
    BY CpuAssumption DEF Init, FlushWaits, NotifyPc, Unarmed, Disarming
  <1>3. FlagHasDpc
    BY DEF Init, FlagHasDpc
  <1> QED
    BY <1>1, <1>2, <1>3, InitTyping DEF IndInv

\* Changing one value of a function keeps its type.
LEMMA Update ==
    ASSUME NEW S, NEW T, NEW f \in [S -> T], NEW x, NEW v \in T
    PROVE  [f EXCEPT ![x] = v] \in [S -> T]
  OBVIOUS

\* The steps of the NIC and of the ISR keep the types.
LEMMA NicTyping == ASSUME TypeOK, Nic \/ Isr PROVE TypeOK'
  <1> USE CpuAssumption DEF TypeOK, isrVars, nicVars, osVars
  <1>1. CASE Nic
    <2>1. ASSUME NEW q \in Queues, NicWork(q) PROVE TypeOK'
      <3>1. work' \in [Queues -> BOOLEAN]
        BY <2>1, Update DEF NicWork
      <3> QED
        BY <2>1, <3>1 DEF NicWork, Causes
    <2> QED
      BY <1>1, <2>1 DEF Nic, NicCause, Causes
  <1>2. CASE IsrRead
    BY <1>2 DEF IsrRead, IsrPcs
  <1>3. CASE IsrAck
    BY <1>3 DEF IsrAck, IsrPcs, Acknowledged
  <1>4. ASSUME NEW f \in Flags, NEW seen \in BOOLEAN, NEW to \in IsrPcs,
               Raise(f, seen, to)
        PROVE  TypeOK'
    <2>1. flag[f] \in BOOLEAN
      OBVIOUS
    <2>2. flag' \in [Flags -> BOOLEAN] /\ queueDPC' \in BOOLEAN
      BY <1>4, <2>1, Update DEF Raise, WasClear
    <2> QED
      BY <1>4, <2>2 DEF Raise
  <1>5. CASE IsrSystemError
    BY <1>5, <1>4 DEF IsrSystemError, Flags, IsrPcs
  <1>6. CASE IsrRx
    BY <1>6, <1>4 DEF IsrRx, Flags, IsrPcs
  <1>7. CASE IsrTx
    <2>1. Raise("tx", "tx" \in status, "link")
      BY <1>7 DEF IsrTx
    <2>2. "tx" \in Flags /\ ("tx" \in status) \in BOOLEAN /\ "link" \in IsrPcs
      BY DEF Flags, IsrPcs
    <2> QED
      BY <1>4, <2>1, <2>2
  <1>8. CASE IsrLink
    <2>1. Raise("link", "link" \in status, "done")
      BY <1>8 DEF IsrLink
    <2>2. "link" \in Flags /\ ("link" \in status) \in BOOLEAN /\ "done" \in IsrPcs
      BY DEF Flags, IsrPcs
    <2> QED
      BY <1>4, <2>1, <2>2
  <1>9. CASE IsrDone
    BY <1>9 DEF IsrDone, IsrPcs
  <1> QED
    BY <1>1, <1>2, <1>3, <1>5, <1>6, <1>7, <1>8, <1>9 DEF Isr

\* The steps of the DPC keep the types.
LEMMA DpcTyping == ASSUME NEW c \in Cpus, TypeOK, Dpc(c) PROVE TypeOK'
  <1> USE CpuAssumption DEF TypeOK, isrVars, nicVars, osVars
  <1>1. ASSUME NEW to \in DpcPcs, DpcStep(c, to) PROVE pc' \in [Cpus -> DpcPcs]
    BY <1>1, Update DEF DpcStep
  <1>2. CASE DpcStart(c)
    BY <1>1, <1>2 DEF DpcStart, DpcPcs
  <1>3. CASE DpcPci(c)
    BY <1>1, <1>3, Update DEF DpcPci, DpcPcs
  <1>4. CASE DpcLink(c)
    <2>1. pc' \in [Cpus -> DpcPcs]
      BY <1>1, <1>4 DEF DpcLink, DpcPcs
    <2>2. flag' \in [Flags -> BOOLEAN]
      BY <1>4, Update DEF DpcLink
    <2> QED
      BY <1>4, <2>1, <2>2 DEF DpcLink
  <1>5. CASE DpcReset(c)
    BY <1>1, <1>5 DEF DpcReset, ResetLink, DpcPcs
  <1>6. CASE DpcImr(c)
    <2>1. pc' \in [Cpus -> DpcPcs]
      BY <1>1, <1>6 DEF DpcImr, DpcPcs
    <2>2. due' \in [Queues -> [Cpus -> 0 .. 2]]
      BY <1>6 DEF DpcImr, OneRunLess
    <2> QED
      BY <1>6, <2>1, <2>2 DEF DpcImr, MaskAfterDpc
  <1>7. ASSUME NEW q \in BothQueues, DpcFlag(c, q) \/ DpcArmed(c, q) \/ DpcNotify(c, q)
        PROVE  TypeOK'
    <2>1. /\ ArmedPc(q) \in DpcPcs /\ NotifyPc(q) \in DpcPcs /\ AfterPc(q) \in DpcPcs
      BY DEF ArmedPc, NotifyPc, AfterPc, DpcPcs
    <2>2. pc' \in [Cpus -> DpcPcs]
      <3>1. CASE DpcFlag(c, q)
        BY <1>1, <2>1, <3>1 DEF DpcFlag
      <3>2. CASE DpcArmed(c, q)
        BY <1>1, <2>1, <3>2 DEF DpcArmed
      <3>3. CASE DpcNotify(c, q)
        BY <1>1, <2>1, <3>3 DEF DpcNotify
      <3> QED
        BY <1>7, <3>1, <3>2, <3>3
    <2>3. /\ flag' \in [Flags -> BOOLEAN]
          /\ NotifyArmed' \in [BothQueues -> BOOLEAN]
          /\ notified' \in [BothQueues -> BOOLEAN]
      BY <1>7, Update DEF DpcFlag, DpcArmed, DpcNotify, ArmingTaken
    <2> QED
      BY <1>7, <2>2, <2>3 DEF DpcFlag, DpcArmed, DpcNotify
  <1> QED
    BY <1>2, <1>3, <1>4, <1>5, <1>6, <1>7 DEF Dpc

\* The steps of the operating system's threads keep the types.
LEMMA OsTyping == ASSUME NEW q \in Queues, TypeOK, Os(q) PROVE TypeOK'
  <1> USE CpuAssumption DEF TypeOK, isrVars, nicVars
  <1>1. ASSUME NEW to \in ThreadStates, Go(q, to)
        PROVE  thread' \in [Queues -> ThreadStates]
    BY <1>1, Update DEF Go
  <1>2. CASE QueueStart(q)
    <2>1. /\ handle' \in [Queues -> BOOLEAN] /\ work' \in [Queues -> BOOLEAN]
          /\ notified' \in [BothQueues -> BOOLEAN]
      BY <1>2, Update DEF QueueStart
    <2>2. thread' \in [Queues -> ThreadStates]
      BY <1>1, <1>2 DEF QueueStart, ThreadStates
    <2> QED
      BY <1>2, <2>1, <2>2 DEF QueueStart
  <1>3. CASE FirstStart(q)
    <2>1. thread' \in [Queues -> ThreadStates]
      BY <1>1, <1>3 DEF FirstStart, ThreadStates
    <2> QED
      BY <1>3, <2>1 DEF FirstStart, ResetLink
  <1>4. CASE Advance(q)
    <2>1. thread' \in [Queues -> ThreadStates]
      BY <1>1, <1>4 DEF Advance, ThreadStates
    <2>2. work' \in [Queues -> BOOLEAN]
      BY <1>4, Update DEF Advance
    <2> QED
      BY <1>4, <2>1, <2>2 DEF Advance
  <1>5. CASE Sleep(q) \/ Wake(q) \/ Disarmed(q)
    <2>1. thread' \in [Queues -> ThreadStates]
      BY <1>1, <1>5 DEF Sleep, Wake, Disarmed, ThreadStates
    <2> QED
      BY <1>5, <2>1 DEF Sleep, Wake, Disarmed
  <1>6. CASE Arm(q) \/ Disarm(q)
    <2>1. thread' \in [Queues -> ThreadStates]
      BY <1>1, <1>6 DEF Arm, Disarm, AfterDisarm, ThreadStates
    <2>2. /\ NotifyArmed' \in [BothQueues -> BOOLEAN]
          /\ notified' \in [BothQueues -> BOOLEAN]
      BY <1>6, Update DEF Arm, Disarm, AfterDisarm
    <2> QED
      BY <1>6, <2>1, <2>2 DEF Arm, Disarm, AfterDisarm
  <1>7. CASE Flush(q)
    <2>1. thread' \in [Queues -> ThreadStates]
      BY <1>1, <1>7 DEF Flush, ThreadStates
    <2>2. RunsPending \in [Cpus -> 0 .. 2]
      BY DEF RunsPending
    <2>3. due' \in [Queues -> [Cpus -> 0 .. 2]]
      BY <1>7, <2>2, Update DEF Flush
    <2> QED
      BY <1>7, <2>1, <2>3 DEF Flush
  <1>8. CASE QueueCancel(q) \/ QueueStop(q) \/ QueueStopped(q)
    <2>1. thread' \in [Queues -> ThreadStates]
      BY <1>1, <1>8 DEF QueueCancel, QueueStop, QueueStopped, ThreadStates
    <2>2. handle' \in [Queues -> BOOLEAN]
      BY <1>8, Update DEF QueueCancel, QueueStop, QueueStopped
    <2> QED
      BY <1>8, <2>1, <2>2 DEF QueueCancel, QueueStop, QueueStopped
  <1> QED
    BY <1>2, <1>3, <1>4, <1>5, <1>6, <1>7, <1>8 DEF Os

\* Every step keeps the types.
LEMMA Typing == ASSUME TypeOK, [Next]_vars PROVE TypeOK'
  <1>1. CASE UNCHANGED vars
    BY <1>1 DEF TypeOK, vars
  <1> QED
    BY <1>1, NicTyping, DpcTyping, OsTyping DEF Next
-----------------------------------------------------------------------------
\* The two queues are notified from different places of the DPC.
LEMMA NotifyPcs ==
    /\ \A q \in BothQueues : NotifyPc(q) \in {"txNotify", "rxNotify"}
    /\ \A q, r \in BothQueues : NotifyPc(q) = NotifyPc(r) => q = r
    /\ \A q \in BothQueues : AfterPc(q) \notin {"txNotify", "rxNotify"}
    /\ \A q \in BothQueues : ArmedPc(q) \notin {"txNotify", "rxNotify"}
  BY DEF BothQueues, NotifyPc, AfterPc, ArmedPc

\* A step of a DPC that is not about to notify, before or after it.
LEMMA QuietDpcStep ==
    ASSUME IndInv, NEW c \in Cpus, NEW to, DpcStep(c, to),
           to \notin {"txNotify", "rxNotify"},
           UNCHANGED <<NotifyArmed, notified, thread, handle>>,
           \A q \in Queues, e \in Cpus \ {c} : due'[q][e] = due[q][e]
    PROVE  ArmedOnce' /\ FlushWaits'
  <1>1. \A e \in Cpus, q \in BothQueues :
           pc'[e] = NotifyPc(q) => e # c /\ pc[e] = NotifyPc(q)
    BY NotifyPcs DEF IndInv, TypeOK, DpcStep
  <1>2. ArmedOnce'
    BY <1>1 DEF IndInv, ArmedOnce, NotifyPc
  <1>3. FlushWaits'
    BY <1>1, CpuAssumption DEF IndInv, FlushWaits, NotifyPc, Unarmed, Disarming
  <1> QED
    BY <1>2, <1>3

\* The step that takes the arming, if there is one to take.
LEMMA ArmedDpcStep ==
    ASSUME IndInv, NEW c \in Cpus, NEW q \in BothQueues, DpcArmed(c, q)
    PROVE  ArmedOnce' /\ FlushWaits'
  <1>1. /\ pc' = [pc EXCEPT ![c] = IF NotifyArmed[q] THEN NotifyPc(q) ELSE AfterPc(q)]
        /\ NotifyArmed' = [NotifyArmed EXCEPT ![q] = FALSE]
        /\ UNCHANGED <<notified, thread, handle, due>>
    BY DEF DpcArmed, DpcStep, ArmingTaken, osVars
  <1>2. pc \in [Cpus -> DpcPcs] /\ NotifyArmed \in [BothQueues -> BOOLEAN]
    BY DEF IndInv, TypeOK
  <1>3. \A r \in BothQueues : NotifyArmed'[r] => NotifyArmed[r] /\ r # q
    BY <1>1, <1>2
  <1>4. ~NotifyArmed'[q]
    BY <1>1, <1>2
  <1>5. \A e \in Cpus, r \in BothQueues :
           pc'[e] = NotifyPc(r) => \/ pc[e] = NotifyPc(r) /\ e # c
                                   \/ e = c /\ r = q /\ NotifyArmed[q]
    <2> SUFFICES ASSUME NEW e \in Cpus, NEW r \in BothQueues, pc'[e] = NotifyPc(r)
                 PROVE  \/ pc[e] = NotifyPc(r) /\ e # c
                        \/ e = c /\ r = q /\ NotifyArmed[q]
      OBVIOUS
    <2>1. CASE e # c
      BY <1>1, <1>2, <2>1
    <2>2. CASE e = c /\ NotifyArmed[q]
      BY <1>1, <1>2, <2>2, NotifyPcs
    <2>3. CASE e = c /\ ~NotifyArmed[q]
      BY <1>1, <1>2, <2>3, NotifyPcs
    <2> QED
      BY <2>1, <2>2, <2>3
  <1>6. ArmedOnce'
    <2> SUFFICES ASSUME NEW r \in BothQueues
                 PROVE  /\ NotifyArmed'[r] => ~notified'[r]
                        /\ \A d \in Cpus : pc'[d] = NotifyPc(r) =>
                              /\ ~NotifyArmed'[r] /\ ~notified'[r]
                              /\ \A e \in Cpus : pc'[e] = NotifyPc(r) => e = d
      BY DEF ArmedOnce, NotifyPc
    <2>1. /\ NotifyArmed[r] => ~notified[r]
          /\ \A d \in Cpus : pc[d] = NotifyPc(r) =>
                /\ ~NotifyArmed[r] /\ ~notified[r]
                /\ \A e \in Cpus : pc[e] = NotifyPc(r) => e = d
      BY DEF IndInv, ArmedOnce
    <2>2. notified' = notified
      BY <1>1
    <2> QED
      BY <1>3, <1>4, <1>5, <2>1, <2>2
  <1>7. FlushWaits'
    <2> SUFFICES ASSUME NEW r \in Queues
                 PROVE  /\ thread[r] \in Unarmed \cup Disarming => ~NotifyArmed'[r]
                        /\ thread[r] \in Unarmed => \A e \in Cpus : pc'[e] # NotifyPc(r)
                        /\ thread[r] \in {"flushing", "stopflushing"}
                              => \A e \in Cpus : pc'[e] = NotifyPc(r) => due[r][e] # 0
                        /\ handle[r] <=> thread[r] # "stopped"
      BY <1>1 DEF FlushWaits, NotifyPc, Unarmed, Disarming
    <2>1. /\ thread[r] \in Unarmed \cup Disarming => ~NotifyArmed[r]
          /\ thread[r] \in Unarmed => \A e \in Cpus : pc[e] # NotifyPc(r)
          /\ thread[r] \in {"flushing", "stopflushing"}
                => \A e \in Cpus : pc[e] = NotifyPc(r) => due[r][e] # 0
          /\ handle[r] <=> thread[r] # "stopped"
      BY DEF IndInv, FlushWaits
    <2>2. r \in BothQueues
      BY CpuAssumption
    <2>3. thread[r] \in {"flushing", "stopflushing"} => thread[r] \in Disarming
      BY DEF Disarming
    <2> QED
      BY <1>3, <1>5, <2>1, <2>2, <2>3
  <1> QED
    BY <1>6, <1>7

\* The step that notifies.
LEMMA NotifyDpcStep ==
    ASSUME IndInv, NEW c \in Cpus, NEW q \in BothQueues, DpcNotify(c, q)
    PROVE  ArmedOnce' /\ FlushWaits'
  <1>1. /\ pc[c] = NotifyPc(q)
        /\ pc' = [pc EXCEPT ![c] = AfterPc(q)]
        /\ notified' = [notified EXCEPT ![q] = TRUE]
        /\ UNCHANGED <<NotifyArmed, thread, handle, due>>
    BY DEF DpcNotify, DpcStep, osVars
  <1>2. pc \in [Cpus -> DpcPcs] /\ notified \in [BothQueues -> BOOLEAN]
    BY DEF IndInv, TypeOK
  <1>3. \A e \in Cpus, r \in BothQueues :
           pc'[e] = NotifyPc(r) => e # c /\ pc[e] = NotifyPc(r)
    BY <1>1, <1>2, NotifyPcs
  <1>4. \A r \in BothQueues : r # q => notified'[r] = notified[r]
    BY <1>1, <1>2
  <1>5. ArmedOnce'
    <2> SUFFICES ASSUME NEW r \in BothQueues
                 PROVE  /\ NotifyArmed[r] => ~notified'[r]
                        /\ \A d \in Cpus : pc'[d] = NotifyPc(r) =>
                              /\ ~NotifyArmed[r] /\ ~notified'[r]
                              /\ \A e \in Cpus : pc'[e] = NotifyPc(r) => e = d
      BY <1>1 DEF ArmedOnce, NotifyPc
    <2>1. /\ NotifyArmed[r] => ~notified[r]
          /\ \A d \in Cpus : pc[d] = NotifyPc(r) =>
                /\ ~NotifyArmed[r] /\ ~notified[r]
                /\ \A e \in Cpus : pc[e] = NotifyPc(r) => e = d
      BY DEF IndInv, ArmedOnce
    <2> QED
      BY <1>1, <1>3, <1>4, <2>1
  <1>6. FlushWaits'
    BY <1>1, <1>3, CpuAssumption DEF IndInv, FlushWaits, NotifyPc, Unarmed, Disarming
  <1> QED
    BY <1>5, <1>6

\* A step of the DPC keeps the two parts of the invariant about armings.
LEMMA DpcKeepsIndInv ==
    ASSUME IndInv, NEW c \in Cpus, Dpc(c) PROVE ArmedOnce' /\ FlushWaits'
  <1> USE DEF osVars
  <1>1. CASE DpcStart(c)
    BY <1>1, QuietDpcStep DEF DpcStart
  <1>2. CASE DpcPci(c)
    BY <1>2, QuietDpcStep DEF DpcPci
  <1>3. CASE DpcLink(c)
    BY <1>3, QuietDpcStep DEF DpcLink
  <1>4. CASE DpcReset(c)
    BY <1>4, QuietDpcStep DEF DpcReset
  <1>5. CASE DpcImr(c)
    <2>1. \A q \in Queues, e \in Cpus \ {c} : due'[q][e] = due[q][e]
      BY <1>5 DEF DpcImr, OneRunLess, IndInv, TypeOK
    <2> QED
      BY <1>5, <2>1, QuietDpcStep DEF DpcImr
  <1>6. ASSUME NEW q \in BothQueues, DpcFlag(c, q) PROVE ArmedOnce' /\ FlushWaits'
    BY <1>6, QuietDpcStep, NotifyPcs DEF DpcFlag
  <1> QED
    BY <1>1, <1>2, <1>3, <1>4, <1>5, <1>6, ArmedDpcStep, NotifyDpcStep DEF Dpc

\* A thread of the operating system: where it goes, and what that place requires.
LEMMA ThreadStep ==
    ASSUME IndInv, NEW q \in Queues, NEW to \in ThreadStates, Go(q, to), pc' = pc,
           \A r \in Queues \ {q} : /\ NotifyArmed'[r] = NotifyArmed[r]
                                   /\ due'[r] = due[r] /\ handle'[r] = handle[r],
           to \in Unarmed \cup Disarming => ~NotifyArmed'[q],
           to \in Unarmed => \A c \in Cpus : pc[c] # NotifyPc(q),
           to \in {"flushing", "stopflushing"}
              => \A c \in Cpus : pc[c] = NotifyPc(q) => due'[q][c] # 0,
           handle'[q] <=> to # "stopped"
    PROVE  FlushWaits'
  <1> SUFFICES ASSUME NEW r \in Queues
               PROVE  /\ thread'[r] \in Unarmed \cup Disarming => ~NotifyArmed'[r]
                      /\ thread'[r] \in Unarmed => \A c \in Cpus : pc[c] # NotifyPc(r)
                      /\ thread'[r] \in {"flushing", "stopflushing"}
                            => \A c \in Cpus : pc[c] = NotifyPc(r) => due'[r][c] # 0
                      /\ handle'[r] <=> thread'[r] # "stopped"
    BY DEF FlushWaits, NotifyPc, Unarmed, Disarming
  <1>1. thread' = [thread EXCEPT ![q] = to] /\ thread \in [Queues -> ThreadStates]
    BY DEF Go, IndInv, TypeOK
  <1>2. CASE r = q
    BY <1>1, <1>2
  <1>3. CASE r # q
    <2>1. thread'[r] = thread[r]
      BY <1>1, <1>3
    <2> QED
      BY <1>3, <2>1 DEF IndInv, FlushWaits
  <1> QED
    BY <1>2, <1>3

\* So does a step of a queue's thread, the flush and the stop among them.
LEMMA OsKeepsIndInv ==
    ASSUME IndInv, NEW q \in Queues, Os(q) PROVE ArmedOnce' /\ FlushWaits'
  <1>0. /\ q \in BothQueues /\ TypeOK /\ ArmedOnce /\ FlushWaits
        /\ NotifyArmed \in [BothQueues -> BOOLEAN]
        /\ notified \in [BothQueues -> BOOLEAN]
        /\ handle \in [Queues -> BOOLEAN] /\ due \in [Queues -> [Cpus -> 0 .. 2]]
    BY CpuAssumption DEF IndInv, TypeOK
  <1>1. /\ thread[q] \in Unarmed \cup Disarming => ~NotifyArmed[q]
        /\ thread[q] \in Unarmed => \A c \in Cpus : pc[c] # NotifyPc(q)
        /\ thread[q] \in {"flushing", "stopflushing"}
              => \A c \in Cpus : pc[c] = NotifyPc(q) => due[q][c] # 0
        /\ handle[q] <=> thread[q] # "stopped"
    BY DEF IndInv, FlushWaits
  <1>2. ASSUME UNCHANGED <<pc, NotifyArmed, notified>> PROVE ArmedOnce'
    BY <1>0, <1>2 DEF ArmedOnce, NotifyPc
  <1>3. CASE QueueStart(q)
    <2>1. handle' = [handle EXCEPT ![q] = TRUE]
      BY <1>3 DEF QueueStart
    <2>2. FlushWaits'
      BY <1>0, <1>1, <1>3, <2>1, ThreadStep
         DEF QueueStart, ThreadStates, Unarmed, Disarming
    <2>3. ArmedOnce'
      BY <1>0, <1>3 DEF QueueStart, ArmedOnce, NotifyPc
    <2> QED
      BY <2>2, <2>3
  <1>4. CASE FirstStart(q)
    BY <1>1, <1>2, <1>4, ThreadStep
       DEF FirstStart, ThreadStates, Unarmed, Disarming
  <1>5. CASE Advance(q) \/ Sleep(q) \/ Wake(q)
    BY <1>1, <1>2, <1>5, ThreadStep
       DEF Advance, Sleep, Wake, ThreadStates, Unarmed, Disarming
  <1>6. CASE Arm(q)
    <2>1. NotifyArmed' = [NotifyArmed EXCEPT ![q] = TRUE]
          /\ notified' = [notified EXCEPT ![q] = FALSE] /\ pc' = pc
          /\ \A c \in Cpus : pc[c] # NotifyPc(q)
      BY <1>1, <1>6 DEF Arm, Unarmed
    <2>2. \A r \in BothQueues \ {q} : /\ NotifyArmed'[r] = NotifyArmed[r]
                                      /\ notified'[r] = notified[r]
      BY <1>0, <2>1
    <2>3. FlushWaits'
      BY <1>0, <1>1, <1>6, <2>2, ThreadStep, CpuAssumption
         DEF Arm, ThreadStates, Unarmed, Disarming
    <2>4. ArmedOnce'
      BY <1>0, <2>1, <2>2 DEF ArmedOnce, NotifyPc
    <2> QED
      BY <2>3, <2>4
  <1>7. CASE Disarm(q)
    <2>1. /\ NotifyArmed' = [NotifyArmed EXCEPT ![q] = FALSE]
          /\ UNCHANGED <<pc, notified, due, handle>>
      BY <1>7 DEF Disarm, AfterDisarm
    <2>2. /\ ~NotifyArmed'[q]
          /\ \A r \in BothQueues \ {q} : NotifyArmed'[r] = NotifyArmed[r]
      BY <1>0, <2>1
    <2>3. FlushWaits'
      BY <1>1, <1>7, <2>1, <2>2, ThreadStep, CpuAssumption
         DEF Disarm, AfterDisarm, ThreadStates, Unarmed, Disarming
    <2>4. ArmedOnce'
      BY <1>0, <2>1, <2>2 DEF ArmedOnce, NotifyPc
    <2> QED
      BY <2>3, <2>4
  <1>8. CASE Flush(q)
    <2>1. due' = [due EXCEPT ![q] = RunsPending]
      BY <1>8 DEF Flush
    <2>2. \A c \in Cpus : pc[c] = NotifyPc(q) => RunsPending[c] # 0
      BY <1>0, NotifyPcs DEF RunsPending
    <2>3. /\ \A c \in Cpus : pc[c] = NotifyPc(q) => due'[q][c] # 0
          /\ \A r \in Queues \ {q} : due'[r] = due[r]
      BY <1>0, <2>1, <2>2
    <2>4. FlushWaits'
      BY <1>1, <1>8, <2>3, ThreadStep DEF Flush, ThreadStates, Unarmed, Disarming
    <2> QED
      BY <1>2, <1>8, <2>4 DEF Flush
  <1>9. CASE Disarmed(q)
    <2>1. \A c \in Cpus : pc[c] # NotifyPc(q)
      BY <1>1, <1>9 DEF Disarmed, Flushed, NoneDue
    <2>2. FlushWaits'
      BY <1>1, <1>9, <2>1, ThreadStep DEF Disarmed, ThreadStates, Unarmed, Disarming
    <2> QED
      BY <1>2, <1>9, <2>2 DEF Disarmed
  <1>10. CASE QueueCancel(q) \/ QueueStop(q)
    BY <1>1, <1>2, <1>10, ThreadStep
       DEF QueueCancel, QueueStop, ThreadStates, Unarmed, Disarming
  <1>11. CASE QueueStopped(q)
    <2>1. \A c \in Cpus : pc[c] # NotifyPc(q)
      BY <1>1, <1>11 DEF QueueStopped, Flushed, NoneDue
    <2>2. handle' = [handle EXCEPT ![q] = FALSE]
      BY <1>11 DEF QueueStopped
    <2>3. FlushWaits'
      BY <1>0, <1>1, <1>11, <2>1, <2>2, ThreadStep
         DEF QueueStopped, ThreadStates, Unarmed, Disarming
    <2> QED
      BY <1>2, <1>11, <2>3 DEF QueueStopped
  <1> QED
    BY <1>3, <1>4, <1>5, <1>6, <1>7, <1>8, <1>9, <1>10, <1>11 DEF Os

\* The inductive invariant holds in every state.
LEMMA Invariance == Spec => []IndInv
  <1>1. ASSUME IndInv, [Next]_vars PROVE IndInv'
    <2>1. TypeOK'
      BY <1>1, Typing DEF IndInv
    <2>2. CASE Nic \/ Isr
      <3>1. UNCHANGED <<pc, NotifyArmed, notified, thread, due, handle>>
        BY <2>2 DEF Nic, NicWork, NicCause, Isr, IsrRead, IsrAck, IsrSystemError,
           IsrRx, IsrTx, IsrLink, IsrDone, Raise, osVars
      <3> QED
        BY <1>1, <2>1, <3>1
           DEF IndInv, ArmedOnce, FlushWaits, NotifyPc, Unarmed, Disarming
    <2>3. CASE UNCHANGED vars
      BY <1>1, <2>1, <2>3
         DEF vars, IndInv, ArmedOnce, FlushWaits, NotifyPc, Unarmed, Disarming
    <2> QED
      BY <1>1, <2>1, <2>2, <2>3, DpcKeepsIndInv, OsKeepsIndInv DEF Next, IndInv
  <1> QED
    BY InitIndInv, <1>1, PTL DEF Spec

-----------------------------------------------------------------------------
\* The variables have their types, for every set of processors and both queues.
THEOREM TypeCorrect == Spec => []TypeOK
  <1>1. IndInv => TypeOK
    BY DEF IndInv
  <1> QED
    BY Invariance, <1>1, PTL

\* Once the call that disarms a notification (txqueue.cpp:505, rxqueue.cpp:366) has
\* returned, no processor is about to deliver one.
THEOREM DisarmIsFinal == Spec => []NoLateNotification
  <1>1. IndInv => NoLateNotification
    BY DEF IndInv, FlushWaits, NoLateNotification, Unarmed
  <1> QED
    BY Invariance, <1>1, PTL

\* EvtInterruptDpc never passes a NULL queue handle to a notification
\* (interrupt.cpp:122, 145), however the queues are stopped and started around it.
THEOREM HandleIsLive == Spec => []NotifiesLiveQueue
  <1>1. IndInv => NotifiesLiveQueue
    BY DEF IndInv, FlushWaits, NotifiesLiveQueue, Unarmed
  <1> QED
    BY Invariance, <1>1, PTL

\* The exchange at interrupt.cpp:120 and 144 lets one DPC answer one arming.
THEOREM OneAnswer == Spec => []OneNotificationPerArming
  <1>1. IndInv => OneNotificationPerArming
    BY CpuAssumption DEF IndInv, ArmedOnce, OneNotificationPerArming
  <1> QED
    BY Invariance, <1>1, PTL

-----------------------------------------------------------------------------
\* A step of the DPC on processor c: any flag that stays set has either another
\* run to look at it, or this one, which has not come to it yet.
LEMMA DpcKeepsFlag ==
    ASSUME TypeOK, FlagHasDpc, NEW c \in Cpus, Dpc(c) PROVE FlagHasDpc'
  <1> SUFFICES ASSUME NEW f \in Flags, flag'[f]
               PROVE  \/ dpcOn' # NoCpu \/ queueDPC'
                      \/ \E e \in Cpus : pc'[e] \in Before(f)
    BY DEF FlagHasDpc, Before
  <1>1. /\ pc \in [Cpus -> DpcPcs] /\ flag \in [Flags -> BOOLEAN] /\ c \in Cpus
        /\ flag[f] => \/ dpcOn # NoCpu \/ queueDPC
                      \/ \E e \in Cpus : pc[e] \in Before(f)
    BY DEF TypeOK, FlagHasDpc
  <1>2. ASSUME NEW to, DpcStep(c, to)
        PROVE  pc'[c] = to /\ \A e \in Cpus \ {c} : pc'[e] = pc[e]
    BY <1>1, <1>2 DEF DpcStep
  <1>3. CASE DpcStart(c)
    BY <1>2, <1>3 DEF DpcStart, Before
  <1>4. CASE DpcPci(c)
    BY <1>1, <1>2, <1>4 DEF DpcPci, Before, isrVars
  <1>5. CASE DpcLink(c)
    BY <1>1, <1>2, <1>5 DEF DpcLink, Before, isrVars, Flags
  <1>6. CASE DpcReset(c)
    BY <1>1, <1>2, <1>6 DEF DpcReset, Before, isrVars
  <1>7. CASE DpcImr(c)
    BY <1>1, <1>2, <1>7 DEF DpcImr, Before, isrVars
  <1>8. ASSUME NEW q \in BothQueues, DpcFlag(c, q) PROVE
               \/ dpcOn' # NoCpu \/ queueDPC' \/ \E e \in Cpus : pc'[e] \in Before(f)
    BY <1>1, <1>2, <1>8
       DEF DpcFlag, Before, isrVars, Flags, BothQueues, ArmedPc, AfterPc
  <1>9. ASSUME NEW q \in BothQueues, DpcArmed(c, q) PROVE
               \/ dpcOn' # NoCpu \/ queueDPC' \/ \E e \in Cpus : pc'[e] \in Before(f)
    BY <1>1, <1>2, <1>9
       DEF DpcArmed, Before, isrVars, Flags, BothQueues, ArmedPc, AfterPc, NotifyPc
  <1>10. ASSUME NEW q \in BothQueues, DpcNotify(c, q) PROVE
               \/ dpcOn' # NoCpu \/ queueDPC' \/ \E e \in Cpus : pc'[e] \in Before(f)
    BY <1>1, <1>2, <1>10
       DEF DpcNotify, Before, isrVars, Flags, BothQueues, AfterPc, NotifyPc
  <1> QED
    BY <1>3, <1>4, <1>5, <1>6, <1>7, <1>8, <1>9, <1>10 DEF Dpc

\* A step of the ISR: it wants the DPC for a flag it found clear, and queues it.
LEMMA IsrKeepsFlag == ASSUME TypeOK, FlagHasDpc, Isr PROVE FlagHasDpc'
  <1> USE CpuAssumption DEF FlagHasDpc, nicVars, osVars
  <1>1. CASE IsrRead \/ IsrAck
    BY <1>1 DEF IsrRead, IsrAck, Before
  <1>2. ASSUME NEW f \in Flags, NEW seen \in BOOLEAN, NEW to, Raise(f, seen, to)
        PROVE  FlagHasDpc'
    <2>1. \A g \in Flags : flag'[g] => flag[g] \/ queueDPC'
      BY <1>2 DEF Raise, WasClear, TypeOK
    <2>2. (queueDPC => queueDPC') /\ pc' = pc /\ dpcOn' = dpcOn
      BY <1>2 DEF Raise
    <2> QED
      BY <2>1, <2>2 DEF Before
  <1>3. CASE IsrSystemError
    BY <1>2, <1>3 DEF IsrSystemError, Flags
  <1>4. CASE IsrRx
    BY <1>2, <1>4 DEF IsrRx, Flags
  <1>5. CASE IsrTx
    <2>1. Raise("tx", "tx" \in status, "link")
      BY <1>5 DEF IsrTx
    <2>2. "tx" \in Flags /\ ("tx" \in status) \in BOOLEAN
      BY DEF Flags
    <2> QED
      BY <1>2, <2>1, <2>2
  <1>6. CASE IsrLink
    <2>1. Raise("link", "link" \in status, "done")
      BY <1>6 DEF IsrLink
    <2>2. "link" \in Flags /\ ("link" \in status) \in BOOLEAN
      BY DEF Flags
    <2> QED
      BY <1>2, <2>1, <2>2
  <1>7. CASE IsrDone
    <2>1. CASE queueDPC
      BY <1>7, <2>1 DEF IsrDone, TypeOK
    <2>2. CASE ~queueDPC
      BY <1>7, <2>2 DEF IsrDone, Before
    <2> QED
      BY <2>1, <2>2
  <1> QED
    BY <1>1, <1>3, <1>4, <1>5, <1>6, <1>7 DEF Isr

\* EvtInterruptIsr queues no DPC for a flag that is set already (interrupt.cpp:78,
\* 85, 91, 96); even so every flag has a DPC that will look at it.
THEOREM NoFlagStranded == Spec => []FlagHasDpc
  <1>1. Init => FlagHasDpc
    BY InitIndInv
  <1>2. ASSUME TypeOK, FlagHasDpc, [Next]_vars PROVE FlagHasDpc'
    <2>1. CASE \/ Nic \/ UNCHANGED vars \/ \E q \in Queues : Os(q)
      <3>1. UNCHANGED <<flag, dpcOn, queueDPC, pc>>
        BY <2>1 DEF vars, isrVars, Nic, NicWork, NicCause, Os, QueueStart, FirstStart,
           Advance, Arm, Sleep, Wake, Disarm, AfterDisarm, Flush, Disarmed, QueueCancel, QueueStop,
           QueueStopped
      <3> QED
        BY <1>2, <3>1 DEF FlagHasDpc, Before
    <2> QED
      BY <1>2, <2>1, IsrKeepsFlag, DpcKeepsFlag DEF Next
  <1> QED
    BY TypeCorrect, <1>1, <1>2, PTL DEF Spec
=============================================================================
