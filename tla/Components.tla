------------------------------ MODULE Components ------------------------------
(* The components that share no variable, as one system: part says which of them *)
(* a behaviour is one of, and the others stay in an initial state.               *)
EXTENDS Naturals, Sequences

\* Each constant is explained by the module it is of; those below name a constant that
\* several modules have.
CONSTANTS
    Kinds, Chunks, Words, Slow,
    Cpus, Speeds, SystemErrors, MaxChanges, MaxStarts,
    Address, Zero, MulticastBit, MaxList, Filters, MaxRequests,
    Inputs,
    Offsets, Offsets4, Mss, Vlans, Priorities, MaxFragments,
    Tags,
    Sources, Keys,
    Partners,
    Families, MaxRuns,
    BitsOfByte, Contents,
    Memories, Sizes,
    TxChips, RxChips, MediaChips,   \* Chips of TxOffload, RxOffload and Media
    PhyPolls, WindowPolls           \* WaitCount of PhyAccess and EriWindow

VARIABLES
    part,
    kind, ver, code, request, ready, key, saving, todo, phyUp, late,
    link, linkchg, imr, flag, queued, dpcPc, up, speed, lock, start, reported, moved,
    missed, crossed, changes, starts,
    want, PacketFilterFlags, MCAddressCount, MCList, rxcfg, mar, pc, flags, i, mask,
    alone, settled, recent, requests,
    buffer, hashN, crc,
    txChip, txExtensions, VlanID, txOn, packet, descriptors, steady, txFrame,
    rxChip, rxExtensions, rxOn, rxFrame, info,
    source, idr, registry, field, network, permanent, current, override, given,
    pnp, running, opened, dirty,
    mediaChip, SpeedDuplex, FlowControl, anar, gbcr, cr2500, updated, mode, status,
    shown,
    family, cur_page, phyPage, acc, accServed, ip, polling, got, accAlone, accTimely,
    written, runs,
    mem, allowed, eriar, eridr, eriServed, call, eriPc, op, addr, len, shift, value,
    polls, before, eriTimely,
    memory, size, eecmd, eedo, cell, romPc, romTodo, after, romD, romI, romAddr, dest

patchVars == <<kind, ver, code, request, ready, key, saving, todo, phyUp, late>>
reportVars == <<link, linkchg, imr, flag, queued, dpcPc, up, speed, lock, start,
                reported, moved, missed, crossed, changes, starts>>
filterVars == <<want, PacketFilterFlags, MCAddressCount, MCList, rxcfg, mar, pc, flags,
                i, mask, alone, settled, recent, requests>>
hashVars == <<buffer, hashN, crc>>
txVars == <<txChip, txExtensions, VlanID, txOn, packet, descriptors, steady, txFrame>>
rxVars == <<rxChip, rxExtensions, rxOn, rxFrame, info>>
settingsVars == <<source, idr, registry, field, network, permanent, current, override,
                  given, pnp, running, opened, dirty>>
mediumVars == <<mediaChip, SpeedDuplex, FlowControl, anar, gbcr, cr2500, updated, mode,
                status, shown>>
accessVars == <<family, cur_page, phyPage, acc, accServed, ip, polling, got, accAlone,
                accTimely, written, runs>>
windowVars == <<mem, allowed, eriar, eridr, eriServed, call, eriPc, op, addr, len,
                shift, value, polls, before, eriTimely>>
romVars == <<memory, size, eecmd, eedo, cell, romPc, romTodo, after, romD, romI, romAddr,
             dest>>
stackVars == <<patchVars, reportVars, filterVars, hashVars>>
frameVars == <<txVars, rxVars, settingsVars, mediumVars>>
registerVars == <<accessVars, windowVars, romVars>>

-----------------------------------------------------------------------------

Patch == INSTANCE PhyPatch WITH up <- phyUp

Report == INSTANCE LinkReport WITH pc <- dpcPc

Filter == INSTANCE RxFilter

Hash == INSTANCE MulticastHash WITH n <- hashN

Tx == INSTANCE TxOffload WITH chip <- txChip, extensions <- txExtensions, on <- txOn,
          frame <- txFrame, Chips <- TxChips

Rx == INSTANCE RxOffload WITH chip <- rxChip, extensions <- rxExtensions, on <- rxOn,
          frame <- rxFrame, Chips <- RxChips

Settings == INSTANCE Config

Medium == INSTANCE Media WITH chip <- mediaChip, reported <- shown, Chips <- MediaChips

Access == INSTANCE PhyAccess WITH served <- accServed, alone <- accAlone,
              timely <- accTimely, WaitCount <- PhyPolls

Window == INSTANCE EriWindow WITH served <- eriServed, pc <- eriPc,
              timely <- eriTimely, WaitCount <- WindowPolls

Rom == INSTANCE Eeprom WITH pc <- romPc, todo <- romTodo, d <- romD, i <- romI,
           addr <- romAddr

\* The constants.
ComponentsAssumption ==
    /\ Patch!PatchAssumption /\ Report!LinkAssumption
    /\ Filter!FilterAssumption /\ Hash!InputAssumption /\ Tx!TxOffloadAssumption
    /\ Rx!RxOffloadAssumption /\ Settings!ConfigAssumption /\ Medium!MediaAssumption
    /\ Access!PhyAssumption /\ Window!WindowAssumption /\ Rom!EepromAssumption

ASSUME ComponentsAssumption

-----------------------------------------------------------------------------

Parts == {"patch", "report", "filter", "hash", "tx", "rx", "settings", "medium",
          "access", "window", "rom"}

\* Any one of a set, for the components that a behaviour is not of.
One(S) == CHOOSE x \in S : TRUE

Init ==
    /\ part \in Parts
    /\ (part = "patch" \/ (kind = One(Kinds) /\ ver = "none")) /\ Patch!Init
    /\ (part = "report" \/ (link = Report!Down /\ linkchg = FALSE)) /\ Report!Init
    /\ Filter!Init
    /\ (part = "hash" \/ buffer = One(Inputs)) /\ Hash!Init
    /\ (part = "tx" \/ (txChip = One(TxChips) /\ txExtensions = {})) /\ Tx!Init
    /\ (part = "rx" \/ (rxChip = One(RxChips) /\ rxExtensions = {})) /\ Rx!Init
    /\ (part = "settings" \/ source = One(Sources)) /\ Settings!Init
    /\ (part = "medium" \/ (mediaChip = One(MediaChips) /\ SpeedDuplex = 0
                            /\ FlowControl = 0 /\ gbcr = {})) /\ Medium!Init
    /\ (part = "access" \/ family = One(Families)) /\ Access!Init
    /\ (part = "window" \/ (mem = One(Contents) /\ allowed = TRUE)) /\ Window!Init
    /\ (part = "rom" \/ (memory = One(Memories) /\ size = One(Sizes))) /\ Rom!Init

PatchStep ==
    /\ part = "patch" /\ Patch!Next
    /\ UNCHANGED <<part, reportVars, filterVars, hashVars, frameVars, registerVars>>

ReportStep ==
    /\ part = "report" /\ Report!Next
    /\ UNCHANGED <<part, patchVars, filterVars, hashVars, frameVars, registerVars>>

FilterStep ==
    /\ part = "filter" /\ Filter!Next
    /\ UNCHANGED <<part, patchVars, reportVars, hashVars, frameVars, registerVars>>

HashStep ==
    /\ part = "hash" /\ Hash!Next
    /\ UNCHANGED <<part, patchVars, reportVars, filterVars, frameVars, registerVars>>

TxStep ==
    /\ part = "tx" /\ Tx!Next
    /\ UNCHANGED <<part, rxVars, settingsVars, mediumVars, stackVars, registerVars>>

RxStep ==
    /\ part = "rx" /\ Rx!Next
    /\ UNCHANGED <<part, txVars, settingsVars, mediumVars, stackVars, registerVars>>

SettingsStep ==
    /\ part = "settings" /\ Settings!Next
    /\ UNCHANGED <<part, txVars, rxVars, mediumVars, stackVars, registerVars>>

MediumStep ==
    /\ part = "medium" /\ Medium!Next
    /\ UNCHANGED <<part, txVars, rxVars, settingsVars, stackVars, registerVars>>

AccessStep ==
    /\ part = "access" /\ Access!Next
    /\ UNCHANGED <<part, windowVars, romVars, stackVars, frameVars>>

WindowStep ==
    /\ part = "window" /\ Window!Next
    /\ UNCHANGED <<part, accessVars, romVars, stackVars, frameVars>>

RomStep ==
    /\ part = "rom" /\ Rom!Next
    /\ UNCHANGED <<part, accessVars, windowVars, stackVars, frameVars>>

Next == PatchStep \/ ReportStep \/ FilterStep \/ HashStep
        \/ TxStep \/ RxStep \/ SettingsStep \/ MediumStep
        \/ AccessStep \/ WindowStep \/ RomStep

vars == <<part, stackVars, frameVars, registerVars>>

\* As in LinkReport, for a behaviour of that part; the other properties need none.
Fairness ==
    /\ SF_reportVars(part = "report" /\ (Report!Isr \/ Report!IsrError))
    /\ WF_reportVars(part = "report" /\ \E c \in Cpus : Report!DpcBegin(c))
    /\ \A c \in Cpus :
          SF_reportVars(part = "report" /\ Report!DpcStep(c) /\ dpcPc[c] # "idle")
    /\ WF_reportVars(part = "report" /\ Report!StartStart)
    /\ WF_reportVars(part = "report" /\ Report!Renegotiate)

Spec == Init /\ [][Next]_vars /\ Fairness

-----------------------------------------------------------------------------
(* The properties; each module explains its own.                                 *)

\* A version is only there with all the code, and no patch request is left behind.
PatchSound == part = "patch" =>
    Patch!TypeOK /\ Patch!CodeComplete /\ Patch!PatchWithdrawn

\* A driver with nothing left to look at has reported the link there is.
SettledIsActual == part = "report" =>
    Report!TypeOK /\ Report!FlagHasCheck /\ Report!SettledIsActual

\* The reported link becomes the link there is.
ReportConverges == Report!ReportConverges

\* The filter in the chip is the one asked for, where the last request or reset had the
\* registers to itself; while it is changed the chip accepts what a recent request asked for.
FilterRight == part = "filter" =>
    Filter!TypeOK /\ Filter!FilterSettled /\ Filter!AcceptsOnlyRecent

\* A frame is sent with the checksums, the segments and the tag that were asked for, by
\* descriptors the upstream driver would have written.
FrameAsAsked ==
    /\ Tx!FrameAsAsked /\ Tx!TagAsAsked
    /\ [](part = "tx" => Tx!TypeOK /\ Tx!SameAsUpstream)

\* What is said of a received frame is what the chip found; a checksum is evaluated if
\* its switch is on; the tag is the one on the wire.
VerdictIsTheChips ==
    /\ [](part = "rx" => Rx!TypeOK /\ Rx!VerdictIsTheChips)
    /\ Rx!EvaluatedAsSwitched /\ Rx!TagAsReceived

\* Fields are in range and as the registry has them, the chip listens to the address the
\* operating system was given, and its permanent address is its own; the PHY advertises the
\* configured modes and no others, and the speed that is reported is the link's.
SettingsRight ==
    /\ [](part = "settings" =>
              Settings!TypeOK /\ Settings!FieldsAsConfigured /\ Settings!ListensToGiven
                              /\ Settings!PermanentIsOwn)
    /\ [](part = "medium" => Medium!TypeOK /\ Medium!AdvertisesSetting)
    /\ Medium!ReportsTrueSpeed

\* PHY registers are written where they were meant to be, what is written back is their
\* own, and the DPC reads the ones it asked for.
AccessSound == part = "access" =>
    Access!TypeOK /\ Access!WritesHitMeant /\ Access!WritesOwnContents
                  /\ Access!AutonegReadsOwn

\* What goes through ERIAR and OCPAR is exact: the bytes that were asked for and no
\* others, each in its place.
WindowsExact == part = "window" =>
    Window!TypeOK /\ Window!ReadIsExact /\ Window!WriteIsExact
                  /\ Window!UpdateIsLocal /\ Window!LateStaysInWords

\* The words of the station address are those in the EEPROM; a multicast address's hash
\* is its CRC-32, and its bit where the upstream driver has it.
AddressesExact ==
    /\ [](part = "rom" => Rom!TypeOK /\ Rom!WordsAreStored /\ Rom!LeftAlone)
    /\ Rom!HeldWhileClockHigh
    /\ [](part = "hash" =>
              Hash!TypeOK /\ Hash!CrcIsRemainder /\ Hash!SamePlaceAsUpstream)

=============================================================================
