------------------------------ MODULE ChipStart ------------------------------
(* How each chip is identified, taken over, reset, started and stopped: the      *)
(* register sequences of if_re.c, of which the driver has one per generation,    *)
(* chosen by tables of chip types that are kept in four functions, in device.cpp *)
(* and in link.cpp and have to agree.                                            *)
(*                                                                               *)
(* A function is the sequence of those of its accesses that open, close, enable  *)
(* or disable something; tuning values are left out.  Polls that give up are     *)
(* left out too, since what follows does not look at how they ended.             *)
EXTENDS Naturals, Sequences

CONSTANTS
    Versions,    \* bits 20 to 31 of TXCFG, by which a chip says what it is
    Raced        \* those for which a cancel and a filter may come in the middle of a
                 \* reset of the link in this instance

ASSUME ChipAssumption == Versions \subseteq 0..4095 /\ Raced \subseteq Versions

Threads == {"main", "cancel"}

VARIABLES
    version,     \* the chip's own identification
    stepping,    \* what 0xD006 tells two chips of version 0x541 apart by
    card,        \* the device id: "8169", with 8169SC, or "other"
    chip,        \* the registers; see Chip below
    where,       \* what has been done to the device last
    todo,        \* accesses still to be made, by PnP and link resets, and by a cancel
    cancelled,   \* the receive queue was cancelled and has not been started again
    lost,        \* a write to a configuration register met a locked one
    unpowered    \* the chip was without power since it was prepared

vars == <<version, stepping, card, chip, where, todo, cancelled, lost, unpowered>>

\* open: the configuration registers can be written; aspm: CFG5's lock of ASPM;
\* gate: RXDV is held back; oob: the firmware has the chip; stop: a stop request;
\* enabled: transmitter and receiver; accept: some frames pass the filter; idle:
\* nothing is being sent; rxcfg: RXCFG holds the chip's DMA parameters; mask: an
\* interrupt is enabled; ram, loaded: version and presence of the PHY's program.
Chip == [open: BOOLEAN, aspm: BOOLEAN, gate: BOOLEAN, oob: BOOLEAN, stop: BOOLEAN,
         enabled: BOOLEAN, accept: BOOLEAN, idle: BOOLEAN, rxcfg: BOOLEAN,
         mask: BOOLEAN, ram: Nat, loaded: BOOLEAN]

\* External: what a chip may hold when its power comes on.
PowerOn == {c \in [open: {FALSE}, aspm: BOOLEAN, gate: BOOLEAN, oob: BOOLEAN,
                   stop: {FALSE}, enabled: {FALSE}, accept: {FALSE}, idle: {TRUE},
                   rxcfg: {FALSE}, mask: {FALSE}, ram: {0}, loaded: {FALSE}] : TRUE}

-----------------------------------------------------------------------------
(* re_check_mac_version: the types, by version.                                  *)

TypesPci == {<<3, {\h008, \h040}>>, <<4, {\h100}>>, <<5, {\h180}>>, <<6, {\h980}>>}

TypesPcie ==
    {<<11, {\h340, \hB40}>>, <<12, {\h342, \hB42}>>, <<13, {\h343, \hB43}>>,
     <<14, {\h349, \h249}>>, <<15, {\h34A, \h24A}>>, <<16, {\h34B, \h24B}>>,
     <<17, {\h34C, \h24C}>>, <<18, {\h34D, \h24D}>>, <<19, {\h34E, \h24E}>>,
     <<21, {\h300}>>, <<22, {\h380}>>, <<23, {\h385, \hB85, \h387, \hB87}>>,
     <<24, {\h3C0}>>, <<25, {\h3C2}>>, <<26, {\h3C4}>>, <<27, {\h3C9}>>, <<28, {\h3CB}>>,
     <<31, {\h281}>>, <<32, {\h282}>>, <<33, {\h283}>>, <<36, {\h2C1}>>, <<37, {\h2C2}>>,
     <<38, {\h2C8}>>, <<39, {\h2C9}>>}

Types8168 ==
    {<<41, {\h240}>>, <<42, {\h409}>>, <<43, {\h40A, \h40B, \h40C}>>, <<50, {\h480}>>,
     <<51, {\h481}>>, <<52, {\h488}>>, <<53, {\h440}>>, <<54, {\h448}>>, <<55, {\h449}>>,
     <<56, {\h4C0}>>, <<57, {\h4C1}>>, <<58, {\h508}>>, <<59, {\h509}>>, <<60, {\h5C8}>>,
     <<61, {\h500}>>, <<62, {\h501}>>, <<67, {\h502}>>, <<63, {\h288}>>, <<64, {\h289}>>,
     <<65, {\h28A}>>, <<66, {\h28B}>>, <<68, {\h540}>>}

Types8125 ==
    {<<69, {\h541}>>, <<76, {\h6C0}>>, <<70, {\h549}>>, <<71, {\h54A}>>, <<72, {\h54B}>>,
     <<73, {\h54C}>>, <<80, {\h608}>>, <<81, {\h609}>>, <<82, {\h640}>>, <<83, {\h641}>>,
     <<84, {\h680}>>, <<85, {\h681}>>, <<86, {\h688}>>, <<87, {\h689}>>, <<90, {\h648}>>,
     <<91, {\h649}>>, <<92, {\h64A}>>}

Known == {t \in TypesPci \cup TypesPcie \cup Types8168 \cup Types8125 : version \in t[2]}

re_type ==
    LET t == (CHOOSE k \in Known : TRUE)[1]
    IN  IF t = 69 /\ stepping = 1 THEN 74 ELSE IF t = 69 /\ stepping = 3 THEN 75 ELSE t

\* TXCFG & 0xFC800000, by which the start functions tell chips apart.
macver == 64 * (version \div 64) + (IF version % 16 >= 8 THEN 8 ELSE 0)

-----------------------------------------------------------------------------
(* Tables of types; the code writes each of them out.                            *)

Since8168E == {36, 37, 38, 39, 42, 43} \cup 50..55
Since8168G == 56..62 \cup 67..76
Since8125  == 80..87 \cup 90..92

\* RL_FLAG_MAGIC_PACKET_V2 or V3: the magic packet is not enabled in CFG3.
MagicOutside == {38, 39, 50, 51, 52, 53} \cup Since8168G \cup Since8125

\* re_hw_supp_now_is_oob_ver = 1.
NowIsOob == Since8168E \cup Since8168G \cup Since8125

\* Faulty variant: MACFG_76 has a program and no version.
SwRamCodeOld ==
    {<<36, 87>>, <<37, 87>>, <<38, 85>>, <<39, 85>>, <<50, 82>>, <<51, 82>>, <<52, 68>>,
     <<56, 72>>, <<57, 72>>, <<58, 1>>, <<59, 1>>, <<60, 18>>, <<61, 25>>, <<62, 25>>,
     <<67, 25>>, <<68, 131>>, <<69, 131>>}

\* re_sw_ram_code_ver, zero for the types not listed.
SwRamCode ==
    {<<36, 87>>, <<37, 87>>, <<38, 85>>, <<39, 85>>, <<50, 82>>, <<51, 82>>, <<52, 68>>,
     <<56, 72>>, <<57, 72>>, <<58, 1>>, <<59, 1>>, <<60, 18>>, <<61, 25>>, <<62, 25>>,
     <<67, 25>>, <<68, 131>>, <<69, 131>>, <<76, 131>>, <<70, 3>>, <<71, 3>>, <<72, 3>>,
     <<73, 3>>, <<74, 39>>, <<75, 0>>, <<80, \hB11>>, <<81, \hB33>>, <<82, \hB17>>,
     <<83, \hB99>>, <<84, 19>>, <<85, 1>>, <<86, 22>>, <<87, 1>>, <<90, 35>>, <<91, 51>>,
     <<92, 81>>}

re_sw_ram_code_ver ==
    IF \E r \in SwRamCode : r[1] = re_type
    THEN (CHOOSE r \in SwRamCode : r[1] = re_type)[2] ELSE 0

\* re_hw_phy_mcu_code_ver_matched and re_write_hw_phy_mcu_code_ver know a register.
KeepsRamCodeVer == {36, 37, 38, 39, 50, 51, 52} \cup Since8168G \cup Since8125

\* re_init_hw_phy_mcu has a program.
HasProgram == {36, 37, 38, 39, 50, 51, 52, 56, 59, 60, 61, 67, 68, 69, 76, 74}
              \cup (80..84) \cup {86, 90, 91, 92}

\* Faulty variant: the ID of the last chip is not in the switch.
isRTL8125Old == re_type \in {80, 81, 82, 83, 90, 91}

\* device.cpp.
isRTL8125 == re_type \in {80, 81, 82, 83, 90, 91, 92}

-----------------------------------------------------------------------------
(* The functions, as what they do to the chip one after the other.               *)

Unlocked(ops) == <<"unlock">> \o ops \o <<"lock">>

When(condition, ops) == IF condition THEN ops ELSE <<>>

\* Faulty variant: the transmitter is waited for without being told to stop.
re_resetUnasked ==
    <<"noAccept">>
    \o When(re_type \in {38, 39} \cup 50..53, <<"awaitIdle">>)
    \o <<"reset">>

re_reset ==
    <<"noAccept">>
    \o When(re_type \in 11..19 \cup 21..28 \cup {31, 32, 33, 36, 37, 41, 42, 43, 54, 55}
                        \cup 63..66 \cup {38, 39} \cup 50..53, <<"stopReq">>)
    \o When(re_type \in {38, 39} \cup 50..53, <<"awaitIdle">>)
    \o <<"reset">>

\* Faulty variant: the mask is in the same place on all chips.
re_stopOneMask == <<"noAccept", "maskOff16">> \o re_reset

re_stop ==
    <<"noAccept", IF re_type \in Since8125 THEN "maskOff32" ELSE "maskOff16">> \o re_reset

\* With re_enable_cfg9346_write and its opposite, as everywhere below.
re_rar_set == Unlocked(<<"cfg">>)

\* Types with a program for the MAC; all of these programs are preceded by
\* re_disable_mcu_bps, which lets ASPM off.
MacProgram == {56, 58, 59, 60, 62} \cup 67..76 \cup Since8125

re_hw_mac_mcu_config == When(re_type \in MacProgram, Unlocked(<<"aspmOff">>))

re_exit_oob ==
    <<"lock">>
    \o When(re_type \in Since8168G \cup Since8125, <<"gateShut", "trOff">>)
    \o When(re_type \in (82..87) \cup (90..92), <<"stopReq">>)
    \o When(re_type \in NowIsOob, <<"oobOff">>)
    \o re_hw_mac_mcu_config

re_hw_init ==
    Unlocked(When(re_type \notin MagicOutside, <<"cfg">>))
    \o When(re_type \in Since8168E \cup Since8168G \cup Since8125,
            Unlocked(<<"aspmOff">>) \o Unlocked(<<"cfg">>))

\* Chips that re_hw_start_unlock changes configuration registers of.
StartConfigures ==
    {\h300, \h380, \h348, \h248, \h3C0, \h3C8, \h280, \h288, \h2C0, \h2C8, \h240, \h408,
     \h440, \h480, \h488, \h448, \h4C0, \h508, \h5C8, \h540, \h6C0, \h500, \h548}

StartOpensGate == {\h4C0, \h508, \h5C8, \h540, \h6C0, \h500, \h548}

\* CFG3's BIT_1 is cleared: io_rdy_l23.
LeavesL23 == {42, 43} \cup 52..62 \cup 67..76

\* Faulty variant: the registers are locked before ASPM is let on again.
re_hw_start_unlockEarly ==
    <<"unlock">>
    \o When(re_type \in Since8168E \cup Since8168G, <<"aspmOff">>)
    \o When(macver \in StartConfigures, <<"cfg">>)
    \o When(macver \in StartOpensGate, <<"gateOpen">>)
    \o When(re_type \in LeavesL23, <<"cfg">>)
    \o <<"lock">>
    \o When(re_type \in Since8168E \cup Since8168G, <<"aspmOn">>)
    \o (IF card = "8169" THEN <<"enable", "accept">> ELSE <<"accept", "enable">>)
    \o <<"maskOn16">>

re_hw_start_unlock ==
    Unlocked(When(re_type \in Since8168E \cup Since8168G, <<"aspmOff">>)
             \o When(macver \in StartConfigures, <<"cfg">>)
             \o When(macver \in StartOpensGate, <<"gateOpen">>)
             \o When(re_type \in LeavesL23, <<"cfg">>)
             \o When(re_type \in Since8168E \cup Since8168G, <<"aspmOn">>))
    \o (IF card = "8169" THEN <<"enable", "accept">> ELSE <<"accept", "enable">>)
    \o <<"maskOn16">>

re_hw_start_unlock_8125 ==
    Unlocked(<<"aspmOff">>
             \o When(macver \in {\h608, \h640, \h648, \h680, \h688}, <<"cfg", "gateOpen">>)
             \o <<"aspmOn">>)
    \o <<"accept", "enable", "maskOn32">>

RtlResetLink ==
    re_stop \o re_rar_set
    \o (IF isRTL8125 THEN re_hw_start_unlock_8125 ELSE re_hw_start_unlock)

\* Between the registers and the start of the queues, in RtInitializeHardware
\* and in EvtDeviceD0Entry; re_check_mac_version comes before it in the first only.
TakeOver == re_exit_oob \o re_hw_init \o re_reset \o <<"phy">>

-----------------------------------------------------------------------------
(* What an access does.                                                          *)

\* Types that re_phy_ram_code_check may find fault with: no program is loaded then.
ChecksRam == {56}

\* The program is loaded unless the chip says it has this version of it.
re_hw_phy_config(c) ==
    IF re_type \in KeepsRamCodeVer /\ c.ram = re_sw_ram_code_ver THEN c
    ELSE [c EXCEPT !.loaded = @ \/ re_type \in HasProgram,
                   !.ram = IF re_type \in KeepsRamCodeVer THEN re_sw_ram_code_ver ELSE @]

\* Partly external: what the chip makes of an access.  A mask written at the place, or in
\* the width, of the other generation is not changed.  A reset keeps the DMA
\* parameters, and need not clear the mask.
After(op, c) ==
    CASE op = "noAccept"  -> {[c EXCEPT !.accept = FALSE]}
      [] op = "accept"    -> {[c EXCEPT !.accept = TRUE]}
      [] op = "maskOff16" -> {[c EXCEPT !.mask = @ /\ re_type \in Since8125]}
      [] op = "maskOff32" -> {[c EXCEPT !.mask = @ /\ re_type \notin Since8125]}
      [] op = "maskOn16"  -> {[c EXCEPT !.mask = @ \/ re_type \notin Since8125]}
      [] op = "maskOn32"  -> {[c EXCEPT !.mask = @ \/ re_type \in Since8125]}
      [] op = "stopReq"   -> {[c EXCEPT !.stop = TRUE]}
      [] op = "awaitIdle" -> {c}
      [] op = "reset"     -> {[c EXCEPT !.enabled = FALSE, !.stop = FALSE, !.idle = TRUE,
                                        !.mask = m] : m \in {c.mask, FALSE}}
      [] op = "trOff"     -> {[c EXCEPT !.enabled = FALSE]}
      [] op = "enable"    -> {[c EXCEPT !.enabled = TRUE, !.stop = FALSE]}
      [] op = "unlock"    -> {[c EXCEPT !.open = TRUE]}
      [] op = "lock"      -> {[c EXCEPT !.open = FALSE]}
      [] op = "cfg"       -> {c}
      [] op = "aspmOff"   -> {[c EXCEPT !.aspm = @ /\ ~c.open]}
      [] op = "aspmOn"    -> {[c EXCEPT !.aspm = @ \/ c.open]}
      [] op = "gateShut"  -> {[c EXCEPT !.gate = TRUE]}
      [] op = "gateOpen"  -> {[c EXCEPT !.gate = FALSE]}
      [] op = "oobOff"    -> {[c EXCEPT !.oob = FALSE]}
      [] op = "rxcfg"     -> {[c EXCEPT !.rxcfg = TRUE]}
      [] op = "phy"       -> {re_hw_phy_config(c)} \cup {d \in {c} : re_type \in ChecksRam}

Step(t) ==
    /\ todo[t] # <<>>
    /\ LET op == Head(todo[t])
       IN  /\ op = "awaitIdle" => chip.idle
           /\ chip' \in After(op, chip)
           /\ lost' = (lost \/ (op \in {"cfg", "aspmOff", "aspmOn"} /\ ~chip.open))
     /\ todo' = [todo EXCEPT ![t] = Tail(@)]
    /\ UNCHANGED <<version, stepping, card, where, cancelled, unpowered>>

-----------------------------------------------------------------------------
(* The callbacks.                                                                *)

Idle(t) == todo[t] = <<>>

\* A cancel runs in parallel only where the run allows it.
Free(t) == Idle(t) \/ (t = "cancel" /\ version \in Raced)

QueuesOff == where = "up" \/ (where = "running" /\ cancelled)

Begin(ops) == todo' = [todo EXCEPT !["main"] = ops]

\* The chip's identification is taken, or refused: RtInitializeHardware.
EvtDevicePrepareHardware ==
    /\ where = "out" /\ Idle("main") /\ Idle("cancel")
    /\ IF Known = {} THEN where' = "refused" /\ todo' = todo
       ELSE where' = "up" /\ Begin(<<"rxcfg">> \o TakeOver)
    /\ unpowered' = FALSE
    /\ UNCHANGED <<version, stepping, card, chip, cancelled, lost>>

\* Both queues were started.
RtlFirstStart ==
    /\ QueuesOff /\ Idle("main") /\ Idle("cancel")
    /\ Begin(RtlResetLink)
    /\ where' = "running" /\ cancelled' = FALSE
    /\ UNCHANGED <<version, stepping, card, chip, lost, unpowered>>

\* RtlLinkUp and RtlLinkDown.
LinkChange ==
    /\ where = "running" /\ Idle("main") /\ Free("cancel")
    /\ Begin(RtlResetLink)
    /\ UNCHANGED <<version, stepping, card, chip, where, cancelled, lost, unpowered>>

EvtRxQueueCancel ==
    /\ where = "running" /\ ~cancelled /\ Idle("cancel")
    /\ Idle("main") \/ version \in Raced
    /\ cancelled' = TRUE
    /\ todo' = [todo EXCEPT !["cancel"] = re_stop]
    /\ UNCHANGED <<version, stepping, card, chip, where, lost, unpowered>>

\* A filter is handed over at any time; the accept bits are written.
EvtSetReceiveFilter ==
    /\ version \in Raced /\ where = "running"
    /\ chip' = [chip EXCEPT !.accept = TRUE]
    /\ UNCHANGED <<version, stepping, card, where, todo, cancelled, lost, unpowered>>

\* EvtDeviceD0Exit on the way to a low-power state, the queues being stopped.
Sleep ==
    /\ QueuesOff /\ Idle("main") /\ Idle("cancel")
    /\ Begin(re_stop)
    /\ where' = "asleep" /\ cancelled' = FALSE
    /\ UNCHANGED <<version, stepping, card, chip, lost, unpowered>>

\* EvtDeviceD0Entry; the chip may have been without power.
EvtDeviceD0Entry ==
    /\ where = "asleep" /\ Idle("main")
    /\ \/ UNCHANGED <<chip, unpowered>>
       \/ chip' \in PowerOn /\ unpowered' = TRUE
    /\ Begin(TakeOver)
    /\ where' = "up"
    /\ UNCHANGED <<version, stepping, card, cancelled, lost>>

\* EvtDeviceD0Exit when the device is stopped or removed.
FinalExit ==
    /\ QueuesOff /\ Idle("main") /\ Idle("cancel")
    /\ Begin(re_rar_set)
    /\ where' = "out" /\ cancelled' = FALSE
    /\ UNCHANGED <<version, stepping, card, chip, lost, unpowered>>

\* External: there is something to send, until the chip is told to stop ...
Transmit ==
    /\ chip.enabled /\ ~chip.stop /\ chip.idle
    /\ chip' = [chip EXCEPT !.idle = FALSE]
    /\ UNCHANGED <<version, stepping, card, where, todo, cancelled, lost, unpowered>>

\* External: ... and what was begun is sent.
Drain ==
    /\ ~chip.idle
    /\ chip' = [chip EXCEPT !.idle = TRUE]
    /\ UNCHANGED <<version, stepping, card, where, todo, cancelled, lost, unpowered>>

Init ==
    /\ version \in Versions
    /\ stepping \in IF version = \h541 THEN {0, 1, 3} ELSE {0}
    /\ card \in IF version < \h300 THEN {"8169", "other"} ELSE {"other"}
    /\ chip \in PowerOn
    /\ where = "out"
    /\ todo = [t \in Threads |-> <<>>]
    /\ cancelled = FALSE /\ lost = FALSE /\ unpowered = FALSE

Next ==
    \/ \E t \in Threads : Step(t)
    \/ EvtDevicePrepareHardware \/ RtlFirstStart \/ LinkChange \/ EvtRxQueueCancel
    \/ EvtSetReceiveFilter \/ Sleep \/ EvtDeviceD0Entry \/ FinalExit
    \/ Transmit \/ Drain

Spec == Init /\ [][Next]_vars

\* A function that was called goes on, and what is being sent ends.
Fairness == WF_vars(Step("main")) /\ WF_vars(Step("cancel")) /\ WF_vars(Drain)

FairSpec == Spec /\ Fairness

-----------------------------------------------------------------------------
(* Properties.                                                                   *)

AtRest == Idle("main") /\ Idle("cancel")

Running == where = "running" /\ ~cancelled /\ AtRest

\* A chip whose queues are running and whose link was not cancelled has everything
\* the take-over, the stop and the reset closed open again: whichever of the two
\* start functions device.cpp chose, for every version re_check_mac_version knows
\* but the four RTL8125BP and D ones.  The DMA parameters in RXCFG, though, are written
\* only when the version is checked, and not after a low-power state.
ReadyWhenRunning ==
    Running /\ re_type \notin 84..87 =>
        /\ chip.enabled /\ chip.accept /\ chip.mask /\ ~chip.stop
        /\ chip.rxcfg \/ unpowered
        /\ re_type \in Since8168E \cup Since8168G \cup Since8125 => chip.aspm /\ ~chip.oob
        /\ re_type \in Since8168G \cup Since8125 => ~chip.gate

\* No configuration register is written while they are locked, on any chip and
\* though re_stop may be run by a cancel in the middle of a start; and they are not
\* left open to a stray write.
ConfigGuarded == ~lost /\ (AtRest => ~chip.open)

\* A chip that was put to sleep neither transfers nor interrupts.
QuietAsleep == where = "asleep" /\ AtRest => ~chip.enabled /\ ~chip.mask

\* A chip the driver has a program for runs with it, having lost it in a low-power
\* state or not: the tables of versions and of programs agree.  The one chip whose
\* memory may fail a check goes without.
ProgrammedWhenUp ==
    where \in {"up", "running"} /\ AtRest /\ re_type \in HasProgram \ ChecksRam => chip.loaded

\* Every function comes back, though re_reset waits without limit for the transmitter of
\* six chips.  So does the re_stop of a cancel, unless a reset of the link begins before it
\* has ended: that starts the transmitter the cancel waits for, and nothing stops it again.
ResetReturns ==
    /\ todo["main"] # <<>> ~> todo["main"] = <<>>
    /\ where = "running" /\ todo["cancel"] = re_stop /\ todo["main"] = <<>> ~>
            todo["cancel"] = <<>> \/ todo["main"] # <<>>

\* The comment before the last write of both start functions: "Enable interrupts."
\* It is not so on the RTL8125BP and D, which are started by the wrong function.
InterruptsEnabled == Running => chip.mask

=============================================================================
