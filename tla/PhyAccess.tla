------------------------------ MODULE PhyAccess ------------------------------
(* PHY registers (if_re.c): re_mdio_read and re_mdio_write with the page in      *)
(* sc->cur_page, re_real_ocp_phy_read and _write with their limited polls of     *)
(* PHYOCPACCESS, or, on older chips, with the page in the PHY and polls of       *)
(* PHYAR; and the two threads that use them with no lock in common: the thread   *)
(* that starts a queue (RtlFirstStart, re_ifmedia_upd) and the DPC               *)
(* (RtlCheckLinkStatus, re_link_on_patch, re_link_autoneg).                      *)
(*                                                                               *)
(* A step is one access to the register or to cur_page.  What a PHY register     *)
(* holds is named by its address: a value that was read from it and goes back to *)
(* it with some bits changed keeps that name.                                    *)
EXTENDS Integers, Sequences

CONSTANTS
    Families,   \* which of the scripts below the chip may get: "8168g" stands for
                \* MACFG_56, 57, 61 and 62, "8168h" for MACFG_68 to 75, and
                \* "8168d", which has PHYAR, for MACFG_36 and 37 with EEE
    Slow,       \* the PHY may take longer than the driver polls
    WaitCount,  \* how often the driver polls (100 in the code, 5 for PHYAR)
    MaxRuns     \* bound: runs of each thread

\* The constants.
PhyAssumption ==
    /\ Families \subseteq {"8168d", "8168g", "8168h", "8125"} /\ Slow \in BOOLEAN
    /\ WaitCount \in Nat \ {0} /\ MaxRuns \in Nat

Actors == {"start", "dpc"}

VARIABLES
    family,     \* sc->re_type, as far as the scripts tell it apart
    cur_page,   \* sc->cur_page
    phyPage,    \* the page in the PHY, where it is there
    acc,        \* PHYOCPACCESS or PHYAR: address, data, flag, whether it is a write
    served,     \* the PHY has done what that register says
    ip,         \* which operation of its script each thread is at, 0 when idle
    polling,    \* it has written that register and waits, this many polls so far
    got,        \* what it has read, by the address it meant to read
    alone,      \* the other has not run since it began; with PHYAR, they never met
    timely,     \* every poll since ended with the PHY's answer; with PHYAR, ever
    written,    \* the last write: the address meant, the address written, the value
    runs

history == <<alone, timely, written>>
vars == <<family, cur_page, phyPage, acc, served, ip, polling, got, history, runs>>

-----------------------------------------------------------------------------
(* Addresses.                                                                    *)

\* Faulty variant: the registers of page 0 are not spread over 0xA40 and on.
MappingFlat(PageNum, RegNum) ==
    IF RegNum < 16 THEN 0 ELSE PageNum * 16 + (RegNum - 16) * 2

\* MappingPhyOcpAddress; the page is 16 bits wide after it is shifted.
MappingPhyOcpAddress(PageNum, RegNum) ==
    LET page == IF PageNum = 0 THEN 2624 + RegNum \div 8 ELSE PageNum   \* 0x0A40
        reg  == IF PageNum = 0 THEN 16 + (RegNum % 8) ELSE RegNum
    IN  IF reg < 16 THEN 0 ELSE ((page * 16) % 65536) + (reg - 16) * 2

BMCR == 0
BMSR == 1
ANAR == 4
ANER == 6
GBCR == 9       \* MII_100T2CR
Page6 == 6
PageA40 == 2624
PageA42 == 2626

Phyar == family = "8168d"

\* PHYAR has no page: the PHY takes the register from the page it has been told.
PhyarAddress(page, reg) == page * 32 + reg
PageRegister == 31

\* Where a register that is reached through page 0, 6 or 0x0A42 really is.
Meant(page, reg) == IF Phyar THEN PhyarAddress(page, reg)
                    ELSE IF page = PageA42 THEN 42016 + (reg - 16) * 2       \* 0xA420
                    ELSE 41984 + 16 * (reg \div 8) + 2 * (reg % 8)      \* 0xA400

-----------------------------------------------------------------------------
(* Scripts.  from is the register whose value is written back, or -1 for a value *)
(* made up by the driver.                                                        *)

Page(p) == [op |-> "page", page |-> p, addr |-> -1]
Read(p, r) == [op |-> "read", page |-> p, reg |-> r, addr |-> -1]
Write(p, r, f) == [op |-> "write", page |-> p, reg |-> r, addr |-> -1, from |-> f]
OcpRead(a) == [op |-> "read", addr |-> a]
OcpWrite(a) == [op |-> "write", addr |-> a, from |-> a]

Update(p, r) == <<Read(p, r), Write(p, r, Meant(p, r))>>
OcpUpdate(a) == <<OcpRead(a), OcpWrite(a)>>

\* re_ifmedia_upd and re_ifmedia_upd_8125.
Advertise ==
    LET anar == Meant(0, ANAR)
        gbcr == Meant(0, GBCR)
        reads == <<Read(0, GBCR), Read(0, ANAR), Page(0)>>
        last == <<Write(0, ANAR, anar), Write(0, GBCR, gbcr), Write(0, BMCR, -1)>>
    IN CASE family \in {"8168d", "8168g"} -> reads \o last
         [] family = "8168h" -> <<Page(PageA42)>> \o Update(PageA42, 20)
                \o Update(PageA42, 20) \o <<Page(PageA40), Page(0)>> \o reads \o last
         [] family = "8125" -> OcpUpdate(42024) \o OcpUpdate(42474)  \* 0xA428, 0xA5EA
                \o <<OcpRead(42452)>> \o reads \o <<OcpWrite(42452)>> \o last \* 0xA5D4

\* re_link_on_patch, where it does something and with the half duplex link it takes
\* for that on the 8168g, and re_link_autoneg.
CheckLink ==
    LET autoneg == <<Page(0), Read(0, ANER), Read(0, BMSR)>>
    IN CASE family = "8168d" -> <<Page(Page6), Write(Page6, 0, -1), Page(0)>> \o autoneg
         [] family = "8168g" -> <<Page(0)>> \o Update(0, ANAR) \o autoneg
         [] OTHER -> autoneg

Script(a) == IF a = "start" THEN Advertise ELSE CheckLink
Op(a) == Script(a)[ip[a]]
IsOcp(o) == o.addr # -1

\* The address an operation goes to, with cur_page as it is now, and should go to.
Target(o) == IF IsOcp(o) THEN o.addr
             ELSE IF Phyar THEN PhyarAddress(phyPage, o.reg)
             ELSE MappingPhyOcpAddress(cur_page, o.reg)
Intended(o) == IF IsOcp(o) THEN o.addr ELSE Meant(o.page, o.reg)

-----------------------------------------------------------------------------

NoWrite == [meant |-> -1, addr |-> -1, value |-> -1, by |-> "nobody", sound |-> TRUE]

\* hw_phy_config leaves page 0 behind.
Init ==
    /\ family \in Families
    /\ cur_page = 0 /\ phyPage = 0
    /\ acc = [addr |-> 0, data |-> 0, flag |-> FALSE, write |-> FALSE] /\ served = TRUE
    /\ ip = [a \in Actors |-> 0] /\ polling = [a \in Actors |-> 0]
    /\ got = [a \in Actors |-> <<>>]
    /\ alone = [a \in Actors |-> TRUE] /\ timely = [a \in Actors |-> TRUE]
    /\ written = NoWrite
    /\ runs = [a \in Actors |-> 0]

Idle(a) == ip[a] = 0
Other(a) == CHOOSE b \in Actors : b # a

\* Faulty variant: one operation too many.
AdvancePast(a) == ip' = [ip EXCEPT ![a] = IF @ > Len(Script(a)) THEN 0 ELSE @ + 1]

\* The next operation, or none when the script is at its end.
Advance(a) == ip' = [ip EXCEPT ![a] = IF @ = Len(Script(a)) THEN 0 ELSE @ + 1]

Begin(a) ==
    /\ Idle(a) /\ runs[a] < MaxRuns
    /\ runs' = [runs EXCEPT ![a] = @ + 1]
    /\ ip' = [ip EXCEPT ![a] = 1]
    /\ alone' = [alone EXCEPT ![a] = Idle(Other(a)) /\ (Phyar => @),
                              ![Other(a)] = @ /\ Idle(Other(a))]
    /\ timely' = [timely EXCEPT ![a] = IF Phyar THEN @ ELSE TRUE]
    /\ got' = [got EXCEPT ![a] = <<>>]
    /\ UNCHANGED <<family, cur_page, phyPage, acc, served, polling, written>>

\* re_mdio_write of register 0x1F, which is all of it where the page is the driver's.
SetPage(a) ==
    /\ ~Idle(a) /\ Op(a).op = "page" /\ ~Phyar
    /\ cur_page' = Op(a).page
    /\ Advance(a)
    /\ UNCHANGED <<family, phyPage, acc, served, polling, got, history, runs>>

\* The value to be written: what was read for it, or a value of the driver's own.
ValueOf(a) == IF Op(a).from = -1 THEN -1
              ELSE IF Op(a).from \in DOMAIN got[a] THEN got[a][Op(a).from] ELSE 0

\* With PHYAR it goes to the PHY.
TellPage(a) ==
    /\ ~Idle(a) /\ Op(a).op = "page" /\ Phyar /\ polling[a] = 0
    /\ cur_page' = Op(a).page
    /\ polling' = [polling EXCEPT ![a] = 1]
    /\ acc' = [addr |-> PageRegister, data |-> Op(a).page, flag |-> TRUE, write |-> TRUE]
    /\ served' = FALSE
    /\ UNCHANGED <<family, phyPage, ip, got, history, runs>>

\* Nothing the threads did to each other or the PHY to them can have misled a.
Untroubled(a) == alone[a] /\ timely[a] /\ (Phyar => timely[Other(a)])

\* The first access of re_real_ocp_phy_read and _write.
Command(a) ==
    /\ ~Idle(a) /\ Op(a).op \in {"read", "write"} /\ polling[a] = 0
    /\ polling' = [polling EXCEPT ![a] = 1]
    /\ served' = FALSE
    /\ IF Op(a).op = "read"
       THEN /\ acc' = [addr |-> Target(Op(a)), data |-> 0, flag |-> FALSE, write |-> FALSE]
            /\ UNCHANGED written
       ELSE /\ acc' = [addr |-> Target(Op(a)), data |-> ValueOf(a), flag |-> TRUE,
                       write |-> TRUE]
            /\ written' = [meant |-> Intended(Op(a)), addr |-> Target(Op(a)),
                           value |-> ValueOf(a), by |-> a,
                           sound |-> Untroubled(a)]
    /\ UNCHANGED <<family, cur_page, phyPage, ip, got, alone, timely, runs>>

\* External: the PHY does what the register says and turns its flag over.
Phy ==
    /\ ~served /\ served' = TRUE
    /\ acc' = [acc EXCEPT !.flag = ~acc.write,
                          !.data = IF acc.write THEN @ ELSE acc.addr]
    /\ phyPage' = IF Phyar /\ acc.write /\ acc.addr = PageRegister THEN acc.data
                  ELSE phyPage
    /\ UNCHANGED <<family, cur_page, ip, polling, got, history, runs>>

\* Faulty variant: a read waits for the flag as a write does.
AnsweredClear(a) == ~acc.flag

\* The flag the driver waits for: set after a read, clear after a write.
Answered(a) == acc.flag = (Op(a).op = "read")

\* A value that was read is what the register's low half holds at the last poll.
Take(a) ==
    got' = IF Op(a).op = "read"
           THEN [got EXCEPT ![a] = [r \in DOMAIN got[a] \cup {Intended(Op(a))} |->
                    IF r = Intended(Op(a)) THEN acc.data ELSE got[a][r]]]
           ELSE got

\* One poll; after WaitCount of them the driver goes on with what it has.
Poll(a) ==
    /\ ~Idle(a) /\ polling[a] > 0
    /\ Slow \/ served
    /\ IF Answered(a) \/ polling[a] = WaitCount
       THEN /\ polling' = [polling EXCEPT ![a] = 0] /\ Advance(a) /\ Take(a)
            /\ timely' = [timely EXCEPT ![a] = @ /\ Answered(a)]
       ELSE /\ polling' = [polling EXCEPT ![a] = @ + 1]
            /\ UNCHANGED <<ip, got, timely>>
    /\ UNCHANGED <<family, cur_page, phyPage, acc, served, alone, written, runs>>

Next == Phy \/ \E a \in Actors : Begin(a) \/ SetPage(a) \/ TellPage(a) \/ Command(a)
                                \/ Poll(a)

Spec == Init /\ [][Next]_vars
-----------------------------------------------------------------------------
(* Properties.                                                                   *)

UshortMax == 65535
Held == -1..UshortMax

\* Types; a thread is never past the end of its script.
TypeOK ==
    /\ family \in Families /\ cur_page \in {0, Page6, PageA40, PageA42}
    /\ phyPage \in {0, Page6} /\ (phyPage = 0 \/ Phyar)
    /\ acc.addr \in 0..UshortMax /\ acc.data \in Held
    /\ acc.flag \in BOOLEAN /\ acc.write \in BOOLEAN /\ served \in BOOLEAN
    /\ \A a \in Actors : ip[a] \in 0..Len(Script(a)) /\ polling[a] \in 0..WaitCount
    /\ \A a \in Actors : \A r \in DOMAIN got[a] : got[a][r] \in Held
    /\ alone \in [Actors -> BOOLEAN] /\ timely \in [Actors -> BOOLEAN]
    /\ runs \in [Actors -> 0..MaxRuns]

\* No write goes to another register than the one meant, although the other thread
\* may set the page between a thread's page and its access: the DPC only ever sets
\* page 0, and page 0 reaches register 0x14 of page 0x0A42 at the same address.  With
\* PHYAR the DPC sets page 6 too, and this only holds while the threads do not meet
\* and no answer is late.
WritesHitMeant == (Phyar => written.sound) => written.addr = written.meant

\* A register that is read, changed and written back gets its own contents, unless
\* the two threads met in PHYOCPACCESS or the PHY answered too late.  With PHYAR they
\* must never have met: where they did, the PHY may keep page 6, and the next start of
\* a queue reads from there before it sets page 0.
WritesOwnContents ==
    written.sound => written.value \in {-1, written.meant}

\* What the DPC makes of ANER and BMSR is what those registers hold, unless the
\* other thread set a page or used PHYOCPACCESS meanwhile, or the PHY was late.
AutonegReadsOwn ==
    Idle("dpc") /\ runs["dpc"] > 0 /\ Untroubled("dpc") =>
        \A r \in {ANER, BMSR} : got["dpc"][Meant(0, r)] = Meant(0, r)

=============================================================================
