------------------------------ MODULE LinkReport ------------------------------
(* What the operating system is told of the link (link.cpp): RtlCheckLinkStatus  *)
(* in the DPC, with the reset of the chip in the middle of it, against changes   *)
(* of the link, the ISR, a DPC on another processor and RtlFirstStart.           *)
(*                                                                               *)
(* re_stop acknowledges everything in the status register, and                   *)
(* re_hw_start_unlock opens the mask before the DPC has reported what it found.  *)
EXTENDS Naturals

CONSTANTS
    Cpus,           \* processors the DPC may run on
    Speeds,         \* speeds the link can come up with
    SystemErrors,   \* the chip may raise RE_ISR_SYSTEM_ERR
    MaxChanges,     \* bound: changes of the link
    MaxStarts       \* bound: calls of RtlFirstStart

\* The constants; two words are not names of processors, but of other holders of the lock.
LinkAssumption ==
    /\ Speeds \subseteq Nat \ {0} /\ SystemErrors \in BOOLEAN
    /\ MaxChanges \in Nat /\ MaxStarts \in Nat
    /\ {"nobody", "starter"} \cap Cpus = {}

Down == 0
Disconnected == [connected |-> FALSE, speed |-> Down]

VARIABLES
    link,       \* Down, or the speed of the link: RE_PHY_STATUS
    linkchg,    \* RE_ISR_LINKCHG in the status register
    imr,        \* the mask is open
    flag,       \* interrupt->linkChg
    queued,     \* the DPC is queued
    pc,         \* where the DPC is on each processor
    up,         \* what re_link_ok told it
    speed,      \* what it read of the speed
    lock,       \* who holds the interrupt lock over a reset
    start,      \* where RtlFirstStart is
    reported,   \* the link state NetAdapterCx was given last
    moved,      \* the link changed after the DPC asked re_link_ok
    missed,     \* such a change was acknowledged and not noted since
    crossed,    \* the last to enter RtlCheckLinkStatus found another processor in it
    changes, starts

chip == <<link, linkchg, imr>>
dpc == <<queued, pc, up, speed>>
history == <<moved, missed, crossed>>
bounds == <<changes, starts>>
vars == <<chip, flag, dpc, lock, start, reported, history, bounds>>

Nobody == "nobody"
Starter == "starter"
Checking(c) == pc[c] \in {"check", "stop", "start", "read", "report"}

-----------------------------------------------------------------------------

Init ==
    /\ link \in Speeds \cup {Down} /\ linkchg \in BOOLEAN /\ imr = TRUE
    /\ flag = FALSE /\ queued = FALSE
    /\ pc = [c \in Cpus |-> "idle"]
    /\ up = [c \in Cpus |-> FALSE] /\ speed = [c \in Cpus |-> Down]
    /\ lock = Nobody /\ start = "idle"
    /\ reported = Disconnected
    /\ moved = [c \in Cpus |-> FALSE] /\ crossed = FALSE
    /\ missed = (~linkchg /\ link # Down)
    /\ changes = 0 /\ starts = 0

\* The cable, the partner or the end of negotiation.
LinkChange ==
    /\ changes < MaxChanges /\ changes' = changes + 1
    /\ link' \in (Speeds \cup {Down}) \ {link}
    /\ linkchg' = TRUE
    /\ moved' = [c \in Cpus |-> TRUE]
    /\ UNCHANGED <<imr, flag, dpc, lock, start, reported, missed, crossed, starts>>

\* Faulty variant: the DPC is queued when the flag was set already.
IsrQueuesAgain ==
    /\ imr /\ linkchg /\ lock = Nobody
    /\ linkchg' = FALSE /\ flag' = TRUE
    /\ queued' = (queued \/ flag) /\ imr' = ~flag
    /\ missed' = FALSE
    /\ UNCHANGED <<link, pc, up, speed, lock, start, reported, moved, crossed, bounds>>

\* EvtInterruptIsr for a link change: the flag is set and the DPC queued if the flag
\* was clear; the mask stays closed for the DPC.
Isr ==
    /\ imr /\ linkchg /\ lock = Nobody
    /\ linkchg' = FALSE /\ flag' = TRUE
    /\ queued' = (queued \/ ~flag) /\ imr' = flag
    /\ missed' = FALSE
    /\ UNCHANGED <<link, pc, up, speed, lock, start, reported, moved, crossed, bounds>>

\* With a system error the status is acknowledged and only the error noted.
IsrError ==
    /\ SystemErrors /\ imr /\ linkchg /\ lock = Nobody
    /\ linkchg' = FALSE /\ missed' = TRUE
    /\ queued' = TRUE /\ imr' = FALSE
    /\ UNCHANGED <<link, flag, pc, up, speed, lock, start, reported, moved, crossed,
                   bounds>>

\* EvtInterruptDpc takes the flag before it looks at the link.
DpcBegin(c) ==
    /\ queued /\ pc[c] = "idle" /\ queued' = FALSE
    /\ pc' = [pc EXCEPT ![c] = IF flag THEN "check" ELSE "open"]
    /\ flag' = FALSE
    /\ crossed' = IF flag THEN \E d \in Cpus : Checking(d) ELSE crossed
    /\ UNCHANGED <<chip, up, speed, lock, start, reported, moved, missed, bounds>>

\* re_link_ok.
Check(c) ==
    /\ pc[c] = "check" /\ pc' = [pc EXCEPT ![c] = "stop"]
    /\ up' = [up EXCEPT ![c] = link # Down]
    /\ moved' = [moved EXCEPT ![c] = FALSE]
    /\ UNCHANGED <<chip, flag, queued, speed, lock, start, reported, missed, crossed,
                   bounds>>

\* RtlResetLink, up to re_stop: the mask is closed and the status acknowledged.
ResetStop(c) ==
    /\ pc[c] = "stop" /\ lock = Nobody /\ lock' = c
    /\ pc' = [pc EXCEPT ![c] = "start"]
    /\ imr' = FALSE /\ linkchg' = FALSE
    /\ missed' = (missed \/ (linkchg /\ moved[c]))
    /\ UNCHANGED <<link, flag, queued, up, speed, start, reported, moved, crossed, bounds>>

\* The rest of RtlResetLink: re_hw_start_unlock ends with the mask open.
ResetStart(c) ==
    /\ pc[c] = "start" /\ lock' = Nobody
    /\ pc' = [pc EXCEPT ![c] = IF up[c] THEN "read" ELSE "report"]
    /\ imr' = TRUE
    /\ UNCHANGED <<link, linkchg, flag, queued, up, speed, start, reported, history, bounds>>

\* RE_PHY_STATUS is read again for the speed.
ReadSpeed(c) ==
    /\ pc[c] = "read" /\ pc' = [pc EXCEPT ![c] = "report"]
    /\ speed' = [speed EXCEPT ![c] = link]
    /\ UNCHANGED <<chip, flag, queued, up, lock, start, reported, history, bounds>>

\* Faulty variant: the change has been reported, so the flag is cleared again.
ReportClearsFlag(c) ==
    /\ pc[c] = "report" /\ pc' = [pc EXCEPT ![c] = "open"]
    /\ reported' = IF up[c] THEN [connected |-> TRUE, speed |-> speed[c]]
                            ELSE Disconnected
    /\ flag' = FALSE
    /\ UNCHANGED <<chip, queued, up, speed, lock, start, history, bounds>>

\* NetAdapterSetLinkState.
Report(c) ==
    /\ pc[c] = "report" /\ pc' = [pc EXCEPT ![c] = "open"]
    /\ reported' = IF up[c] THEN [connected |-> TRUE, speed |-> speed[c]]
                            ELSE Disconnected
    /\ UNCHANGED <<chip, flag, queued, up, speed, lock, start, history, bounds>>

\* The end of EvtInterruptDpc.
OpenMask(c) ==
    /\ pc[c] = "open" /\ lock = Nobody
    /\ pc' = [pc EXCEPT ![c] = "idle"] /\ imr' = TRUE
    /\ UNCHANGED <<link, linkchg, flag, queued, up, speed, lock, start, reported, history,
                   bounds>>

\* RtlFirstStart on another thread: the same reset, and then re_ifmedia_upd, which
\* makes the PHY negotiate again.
StartStop ==
    /\ start = "idle" /\ starts < MaxStarts /\ starts' = starts + 1
    /\ lock = Nobody /\ lock' = Starter /\ start' = "start"
    /\ imr' = FALSE /\ linkchg' = FALSE
    /\ missed' = (missed \/ linkchg)
    /\ UNCHANGED <<link, flag, dpc, reported, moved, crossed, changes>>

StartStart ==
    /\ start = "start" /\ lock' = Nobody /\ start' = "media"
    /\ imr' = TRUE
    /\ UNCHANGED <<link, linkchg, flag, dpc, reported, history, bounds>>

Renegotiate ==
    /\ start = "media" /\ start' = "idle"
    /\ link' = Down
    /\ linkchg' = (linkchg \/ link # Down)
    /\ moved' = [c \in Cpus |-> TRUE]
    /\ UNCHANGED <<imr, flag, dpc, lock, reported, missed, crossed, bounds>>

DpcStep(c) == \/ DpcBegin(c) \/ Check(c) \/ ResetStop(c) \/ ResetStart(c) \/ ReadSpeed(c)
              \/ Report(c) \/ OpenMask(c)

Next == \/ LinkChange \/ Isr \/ IsrError
        \/ \E c \in Cpus : DpcStep(c)
        \/ StartStop \/ StartStart \/ Renegotiate

\* The line interrupts while the mask is open, a DPC that was queued runs and goes on,
\* and the interrupt lock, which nobody keeps, is got by everyone who waits for it.
Fairness ==
    /\ SF_vars(Isr \/ IsrError)
    /\ WF_vars(\E c \in Cpus : DpcBegin(c))
    /\ \A c \in Cpus : SF_vars(DpcStep(c) /\ pc[c] # "idle")
    /\ WF_vars(StartStart) /\ WF_vars(Renegotiate)

Spec == Init /\ [][Next]_vars
FairSpec == Spec /\ Fairness

-----------------------------------------------------------------------------
(* Properties.                                                                   *)

PcOK == {"idle", "check", "stop", "start", "read", "report", "open"}

\* Types; the lock is held by whoever is inside a reset.
TypeOK ==
    /\ link \in Speeds \cup {Down} /\ linkchg \in BOOLEAN /\ imr \in BOOLEAN
    /\ flag \in BOOLEAN /\ queued \in BOOLEAN
    /\ pc \in [Cpus -> PcOK] /\ up \in [Cpus -> BOOLEAN]
    /\ speed \in [Cpus -> Speeds \cup {Down}]
    /\ start \in {"idle", "start", "media"}
    /\ reported \in [connected : BOOLEAN, speed : Speeds \cup {Down}]
    /\ moved \in [Cpus -> BOOLEAN] /\ missed \in BOOLEAN /\ crossed \in BOOLEAN
    /\ changes \in 0..MaxChanges /\ starts \in 0..MaxStarts
    /\ lock = Starter <=> start = "start"
    /\ \A c \in Cpus : lock = c <=> pc[c] = "start"

Actual == [connected |-> link # Down, speed |-> link]

\* Nothing is left that would make the driver look at the link again.
Settled == ~linkchg /\ ~flag /\ ~queued /\ \A c \in Cpus : ~Checking(c)

\* Once nothing is left to look at the link, the operating system has been told what
\* it is, unless a change was acknowledged by a reset or dropped with a system error,
\* or two processors reported in the wrong order.
SettledIsActual == Settled /\ ~missed /\ ~crossed => reported = Actual

\* A link change that is noted but not yet looked at has a DPC coming for it.
FlagHasCheck == flag => queued

\* When the link changes no more the report becomes true, or one of the above was met.
ReportConverges == <>[](reported = Actual \/ missed \/ crossed)

=============================================================================
