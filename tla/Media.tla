-------------------------------- MODULE Media --------------------------------
(* Speed and duplex: what re_ifmedia_upd and re_ifmedia_upd_8125 (if_re.c) make  *)
(* the PHY advertise for a setting, what the link then negotiates with some      *)
(* partner, and what RtlCheckLinkStatus (link.cpp) reads back and reports beside *)
(* the MaxSpeed of device.cpp.                                                   *)
(*                                                                               *)
(* The three advertisement registers keep their contents over a restart of the   *)
(* device with another setting, and over another driver.                         *)
EXTENDS Naturals

CONSTANTS
    Chips,      \* kinds of chip, of those in Chip below
    Partners    \* what the other end may advertise: sets of modes

Modes10 == {"10h", "10f", "100h", "100f"}       \* in ANAR
ModesG == {"1000h", "1000f"}                    \* in 100T2CR
Modes25 == {"2500f", "5000f"}                   \* in 0xA5D4
PauseBits == {"ANAR_FC", "ANAR_PAUSE_ASYM"}
Modes == Modes10 \cup ModesG \cup Modes25

\* By device id and MACFG: gbe 8169, 8167, 8168 and 8161; kb 8162; fast 8136; dlink the
\* D-Link 4300, and dlink36 one of MACFG_36; a25 an 8125 or 3000 of MACFG_80 to 83; d25 an
\* 8125 of MACFG_84 to 87; a5 an 8126.
Chip == {"gbe", "kb", "fast", "dlink", "dlink36", "a25", "d25", "a5"}

\* The constants.
MediaAssumption ==
    /\ Chips \subseteq Chip /\ \A p \in Partners : p \subseteq Modes

VARIABLES
    chip,
    SpeedDuplex, FlowControl,   \* the settings
    anar, gbcr, cr2500,         \* the advertisement registers
    updated,                    \* re_ifmedia_upd has run with these settings
    mode,                       \* what the link runs at, or "none"
    status,                     \* the speed bit of RE_PHY_STATUS, or "none"
    reported                    \* the speed and duplex the operating system was told

regs == <<anar, gbcr, cr2500>>
link == <<mode, status, reported>>
vars == <<chip, SpeedDuplex, FlowControl, regs, updated, link>>

isRTL8125 == chip \in {"a25", "a5"}

\* The device ids re_ifmedia_upd writes all registers for.
Listed == chip \in {"gbe", "kb"}

\* Those for which the pause bits are written: on MACFG_36 with any device id.
PauseWritten == Listed \/ chip = "dlink36" \/ isRTL8125

\* What the hardware can do.
Abilities == CASE chip \in {"gbe", "dlink", "dlink36"} -> Modes10 \cup ModesG
               [] chip = "fast" -> Modes10
               [] chip \in {"kb", "a25", "d25"} -> Modes \ {"5000f"}
               [] chip = "a5" -> Modes

MaxSpeed == CASE chip = "a5" -> 5000
              [] chip \in {"a25", "d25"} -> 2500
              [] chip \in {"gbe", "kb"} -> 1000
              [] OTHER -> 100

Speed(m) == CASE m \in {"10h", "10f"} -> 10
              [] m \in {"100h", "100f"} -> 100
              [] m \in ModesG -> 1000
              [] m = "2500f" -> 2500
              [] m = "5000f" -> 5000

Full(m) == m \in {"10f", "100f", "1000f", "2500f", "5000f"}

-----------------------------------------------------------------------------
(* Settings.                                                                     *)

Auto == 0
\* RtSpeedDuplexMode..., but for the automatic one.
Forced == [s \in 1..8 |-> CASE s = 1 -> "10h" [] s = 2 -> "10f" [] s = 3 -> "100h"
                            [] s = 4 -> "100f" [] s = 5 -> "1000h" [] s = 6 -> "1000f"
                            [] s = 7 -> "2500f" [] s = 8 -> "5000f"]

Chosen == IF SpeedDuplex = Auto THEN Modes ELSE {Forced[SpeedDuplex]}

\* NoFlowControl, FlowControlTxOnly, FlowControlRxOnly, FlowControlTxRx.
Pause == CASE FlowControl = 0 -> {}
           [] FlowControl = 1 -> {"ANAR_PAUSE_ASYM"}
           [] FlowControl = 2 -> {"ANAR_FC"}
           [] FlowControl = 3 -> PauseBits

\* Only for a forced mode is anything kept of ANAR.
NewAnar == (IF SpeedDuplex = Auto THEN {} ELSE anar \ (Modes10 \cup PauseBits))
           \cup (Chosen \cap Modes10)

\* Faulty variant: the modes of an earlier setting stay in 100T2CR.
NewGbcrAdds == gbcr \cup (Chosen \cap ModesG)

NewGbcr == (gbcr \ ModesG) \cup (Chosen \cap ModesG)

\* An 8126 has both speeds; for another chip 5000 falls through to 2500.
NewCr2500 == IF chip = "a5" THEN Chosen \cap Modes25
             ELSE IF Chosen \cap Modes25 # {} THEN {"2500f"} ELSE {}

\* re_ifmedia_upd.
IfmediaUpd ==
    /\ cr2500' = IF chip = "kb" THEN cr2500 \ {"2500f"} ELSE cr2500
    /\ anar' = NewAnar \cup (IF PauseWritten THEN Pause ELSE {})
    /\ gbcr' = IF Listed THEN NewGbcr ELSE gbcr

\* re_ifmedia_upd_8125.
IfmediaUpd8125 ==
    /\ cr2500' = NewCr2500
    /\ anar' = NewAnar \cup Pause
    /\ gbcr' = NewGbcr

-----------------------------------------------------------------------------
(* The link.                                                                     *)

NoReport == [speed |-> 0, full |-> FALSE]

\* The PHY advertises all it can, or what another driver left.
Init ==
    /\ chip \in Chips
    /\ SpeedDuplex \in 0..6 /\ FlowControl \in 0..3
    /\ \/ anar = Modes10 \cup PauseBits /\ gbcr = ModesG /\ cr2500 = Modes25 \cap Abilities
       \/ anar = {"10h", "ANAR_FC"} /\ gbcr = {} /\ cr2500 = {}
    /\ updated = FALSE
    /\ mode = "none" /\ status = "none" /\ reported = NoReport

\* The user changes the settings and the device restarts.
Reconfigure ==
    /\ SpeedDuplex' \in 0..6 /\ FlowControl' \in 0..3
    /\ updated' = FALSE /\ mode' = "none" /\ status' = "none" /\ reported' = NoReport
    /\ UNCHANGED <<chip, regs>>

\* RtlFirstStart, after the reset.
Update ==
    /\ IF isRTL8125 THEN IfmediaUpd8125 ELSE IfmediaUpd
    /\ updated' = TRUE
    /\ mode' = "none" /\ status' = "none"
    /\ UNCHANGED <<chip, SpeedDuplex, FlowControl, reported>>

Advertised == (anar \cup gbcr \cup cr2500) \cap Modes \cap Abilities

\* External: which of two modes wins.
Below(m, n) == Speed(m) < Speed(n) \/ (Speed(m) = Speed(n) /\ Full(n) /\ ~Full(m))

\* External: the bit of RE_PHY_STATUS that stands for a mode.  Giga Lite's are left out.
StatusBits(m) == CASE Speed(m) = 10 -> {"10M"}
                   [] Speed(m) = 100 -> {"100M"}
                   [] Speed(m) = 1000 -> {"1000MF"}
                   [] Speed(m) = 2500 -> {"2500MF", "5000MF_LITE"}
                   [] Speed(m) = 5000 -> {"5000MF"}

\* External: the best mode both ends have.
Negotiate ==
    /\ mode = "none"
    /\ \E p \in Partners : \E m \in Advertised \cap p :
        /\ ~\E n \in Advertised \cap p : Below(m, n)
        /\ mode' = m /\ status' \in StatusBits(m)
    /\ UNCHANGED <<chip, SpeedDuplex, FlowControl, regs, updated, reported>>

LinkLost ==
    /\ mode # "none" /\ mode' = "none" /\ status' = "none"
    /\ UNCHANGED <<chip, SpeedDuplex, FlowControl, regs, updated, reported>>

\* Without isRTL8125 only the low byte of the register is read.
Visible == IF isRTL8125 THEN {"10M", "100M", "1000MF", "500MF", "1250MF", "2500MF",
                              "5000MF_LITE", "5000MF"}
           ELSE {"10M", "100M", "1000MF"}

LinkSpeed(bit) == CASE bit = "10M" -> 10
                    [] bit = "100M" -> 100
                    [] bit \in {"1000MF", "500MF", "1250MF"} -> 1000
                    [] bit \in {"2500MF", "5000MF_LITE"} -> 2500
                    [] bit = "5000MF" -> 5000

\* RtlCheckLinkStatus; 0 stands for NDIS_LINK_SPEED_UNKNOWN.
CheckLinkStatus ==
    /\ reported' = IF mode = "none" THEN NoReport
                   ELSE [speed |-> IF status \in Visible THEN LinkSpeed(status) ELSE 0,
                         full |-> Full(mode)]
    /\ UNCHANGED <<chip, SpeedDuplex, FlowControl, regs, updated, mode, status>>

Next == Reconfigure \/ Update \/ Negotiate \/ LinkLost \/ CheckLinkStatus

Spec == Init /\ [][Next]_vars

-----------------------------------------------------------------------------
(* Properties.                                                                   *)

TypeOK ==
    /\ chip \in Chips /\ SpeedDuplex \in 0..6 /\ FlowControl \in 0..3
    /\ anar \subseteq Modes10 \cup PauseBits /\ gbcr \subseteq ModesG
    /\ cr2500 \subseteq Modes25
    /\ mode \in Abilities \cup {"none"}
    /\ reported.speed \in {0, 10, 100, 1000, 2500, 5000} /\ reported.full \in BOOLEAN

\* Up to 100 Mbit/s the PHY advertises the modes that were asked for and no other,
\* whatever an earlier setting or another driver had left in its registers; on the chips
\* whose registers are all written so it does above; and where the pause bits are written,
\* those that were asked for.
AdvertisesSetting ==
    /\ updated => Advertised \cap Modes10 = Chosen \cap Modes10
    /\ updated /\ (Listed \/ isRTL8125) =>
        /\ Advertised \ Modes25 = (Chosen \cap Abilities) \ Modes25
        /\ isRTL8125 => Advertised = Chosen \cap Abilities
        /\ chip = "kb" => "2500f" \notin Advertised
    /\ updated /\ PauseWritten => anar \cap PauseBits = Pause

\* No speed is reported that the link does not have, and none above the maximum the
\* operating system was told, on the chips whose registers are all written.
ReportsTrueSpeed ==
    [][CheckLinkStatus /\ mode # "none" /\ updated /\ (Listed \/ isRTL8125) =>
        /\ reported'.speed = Speed(mode)
        /\ reported'.speed <= MaxSpeed]_vars

=============================================================================
