--------------------------- MODULE PhyAccessProofs ---------------------------
(* The accesses of the two threads to the PHY (PhyAccess) reach the registers   *)
(* they were meant for: for any number of runs and of polls.  First, what each  *)
(* operation of each script needs (OpOK), from the scripts themselves; then, by *)
(* an inductive invariant, that a thread nothing has troubled finds the page it *)
(* needs, in the driver's variable or in the PHY.                               *)
EXTENDS PhyAccess, TLAPS

\* The pages that may be set when a thread that nothing has troubled is at operation j
\* of its script; the DPC's page 0 may have come in while queues start.
PagesAt(a, j) ==
    IF Phyar THEN IF a = "dpc" /\ j \in {2, 3} THEN {Page6} ELSE {0}
    ELSE IF family = "8168h" /\ a = "start" /\ j \in 2 .. 6 THEN {0, PageA42}
    ELSE IF family = "8168h" /\ a = "start" /\ j = 7 THEN {0, PageA40}
    ELSE {0}

\* The operation after operation j, 0 when there is none.
After(a, j) == IF j = Len(Script(a)) THEN 0 ELSE j + 1

\* Every page the threads set.
Pages == IF Phyar THEN {0, Page6} ELSE {0, PageA40, PageA42}

\* Where a register is reached with some page.
Reached(p, r) == IF Phyar THEN PhyarAddress(p, r) ELSE MappingPhyOcpAddress(p, r)

\* The registers that are reached through page 0.
MiiRegisters == {BMCR, BMSR, ANAR, ANER, GBCR}

\* The range of a word; larger than any address below.
LEMMA WordRange == UshortMax \in Nat /\ UshortMax >= 65535
BY DEF UshortMax

LEMMA MiiReached ==
    ASSUME NEW r \in MiiRegisters
    PROVE  /\ Meant(0, r) \in 0 .. UshortMax
           /\ Reached(0, r) = Meant(0, r)
           /\ \A q \in Pages : Reached(q, r) \in 0 .. UshortMax
           /\ Phyar => \A q \in Pages : Reached(q, r) # PageRegister
<1>1. r \in {0, 1, 4, 6, 9}
  BY DEF MiiRegisters, BMCR, BMSR, ANAR, ANER, GBCR
<1>2. CASE Phyar
  <2>1. PhyarAddress(0, r) = r /\ PhyarAddress(6, r) = 192 + r
    BY <1>1 DEF PhyarAddress
  <2>2. /\ r \in 0 .. UshortMax /\ r # 31
        /\ 192 + r \in 0 .. UshortMax /\ 192 + r # 31
    BY <1>1, WordRange
  <2> QED
    BY <1>2, <2>1, <2>2 DEF Meant, Reached, Pages, Page6, PageRegister
<1>3. CASE ~Phyar
  <2> DEFINE here == 41984 + 16 * (r \div 8) + 2 * (r % 8)
  <2>1. here \in Nat /\ here <= 65535
    BY <1>1
  <2>2. MappingPhyOcpAddress(0, r) = here
    BY <1>1 DEF MappingPhyOcpAddress
  <2>3. \A q \in {2624, 2626} : MappingPhyOcpAddress(q, r) = 0
    BY <1>1 DEF MappingPhyOcpAddress
  <2>4. Meant(0, r) = here
    BY <1>3 DEF Meant, PageA42
  <2> HIDE DEF here
  <2>5. here \in 0 .. UshortMax /\ 0 \in 0 .. UshortMax
    BY <2>1, WordRange
  <2> QED
    BY <1>3, <2>2, <2>3, <2>4, <2>5 DEF Reached, Pages, PageA40, PageA42
<1> QED
  BY <1>2, <1>3

\* Register 0x14 of page 0x0A42 is reached from page 0 too.
LEMMA GigaReached ==
    ASSUME ~Phyar
    PROVE  /\ Meant(PageA42, 20) = 42024 /\ 42024 \in 0 .. UshortMax
           /\ \A q \in {0, PageA42} : Reached(q, 20) = 42024
           /\ \A q \in Pages : Reached(q, 20) \in 0 .. UshortMax
<1>1. /\ MappingPhyOcpAddress(0, 20) = 42024 /\ MappingPhyOcpAddress(2626, 20) = 42024
      /\ MappingPhyOcpAddress(2624, 20) = 41992
  BY DEF MappingPhyOcpAddress
<1>2. 42024 \in 0 .. UshortMax /\ 41992 \in 0 .. UshortMax
  BY WordRange
<1>3. Meant(2626, 20) = 42024
  BY DEF Meant, PageA42
<1> QED
  BY <1>1, <1>2, <1>3 DEF Reached, Pages, PageA40, PageA42

\* What the patch of the link writes in page 6.
LEMMA PatchReached ==
    ASSUME Phyar
    PROVE  /\ Meant(Page6, 0) = 192 /\ 192 \in 0 .. UshortMax
           /\ Reached(Page6, 0) = 192 /\ Reached(0, 0) = 0
           /\ 0 \in 0 .. UshortMax /\ PageRegister = 31
BY WordRange DEF Meant, Reached, PhyarAddress, Page6, PageRegister

-----------------------------------------------------------------------------
(* What an operation needs.                                                      *)

ReachedBy(o, p) == IF IsOcp(o) THEN o.addr ELSE Reached(p, o.reg)

\* The register at address r is read before operation j.
ReadBefore(a, j, r) ==
    \E k \in 1 .. j - 1 : Script(a)[k].op = "read" /\ Intended(Script(a)[k]) = r

\* An operation that reaches what it should with the pages in ps, which stay.
ReachesIn(o, ps) ==
    /\ Intended(o) \in 0 .. UshortMax
    /\ \A p \in ps : ReachedBy(o, p) = Intended(o)
    /\ \A p \in Pages : ReachedBy(o, p) \in 0 .. UshortMax
    /\ Phyar => \A p \in Pages : ReachedBy(o, p) # PageRegister

\* A page is set for what follows; an access reaches what it is meant for whichever page
\* it may find, and leaves the pages for what follows; what is written back was read.
\* Where the page is the driver's the DPC writes on the 8168g only.
OpOK(a, j) ==
    LET o == Script(a)[j]
    IN  \/ /\ o.op = "page" /\ o.page \in Pages \cap PagesAt(a, After(a, j))
        \/ /\ o.op = "read"
           /\ ReachesIn(o, PagesAt(a, j)) /\ PagesAt(a, j) \subseteq PagesAt(a, After(a, j))
        \/ /\ o.op = "write"
           /\ ReachesIn(o, PagesAt(a, j)) /\ PagesAt(a, j) \subseteq PagesAt(a, After(a, j))
           /\ o.from = -1 \/ (o.from = Intended(o) /\ ReadBefore(a, j, o.from))
           /\ a = "dpc" /\ ~Phyar => family = "8168g"

LEMMA ReadReaches ==
    ASSUME NEW r \in MiiRegisters, NEW ps, ps \subseteq {0}
    PROVE  /\ Intended(Read(0, r)) = Meant(0, r) /\ Read(0, r).op = "read"
           /\ ReachesIn(Read(0, r), ps)
<1> DEFINE o == Read(0, r)
<1>1. o.op = "read" /\ ~IsOcp(o) /\ o.page = 0 /\ o.reg = r
  BY DEF Read, IsOcp
<1> HIDE DEF o
<1>2. Intended(o) = Meant(0, r) /\ \A p : ReachedBy(o, p) = Reached(p, r)
  BY <1>1 DEF Intended, ReachedBy
<1>3. o.op = "read" /\ Intended(o) = Meant(0, r) /\ ReachesIn(o, ps)
  BY <1>1, <1>2, MiiReached DEF ReachesIn
<1> QED
  BY <1>3 DEF o

LEMMA WriteReaches ==
    ASSUME NEW r \in MiiRegisters, NEW f, NEW ps, ps \subseteq {0}
    PROVE  /\ Intended(Write(0, r, f)) = Meant(0, r) /\ Write(0, r, f).op = "write"
           /\ Write(0, r, f).from = f /\ ReachesIn(Write(0, r, f), ps)
<1> DEFINE o == Write(0, r, f)
<1>1. o.op = "write" /\ ~IsOcp(o) /\ o.page = 0 /\ o.reg = r /\ o.from = f
  BY DEF Write, IsOcp
<1> HIDE DEF o
<1>2. Intended(o) = Meant(0, r) /\ \A p : ReachedBy(o, p) = Reached(p, r)
  BY <1>1 DEF Intended, ReachedBy
<1>3. /\ o.op = "write" /\ Intended(o) = Meant(0, r) /\ o.from = f /\ ReachesIn(o, ps)
  BY <1>1, <1>2, MiiReached DEF ReachesIn
<1> QED
  BY <1>3 DEF o

LEMMA GigaReaches ==
    ASSUME NEW o \in {Read(PageA42, 20), Write(PageA42, 20, Meant(PageA42, 20))},
           ~Phyar, NEW ps, ps \subseteq {0, PageA42}
    PROVE  Intended(o) = Meant(PageA42, 20) /\ ReachesIn(o, ps)
<1>1. ~IsOcp(o) /\ o.page = PageA42 /\ o.reg = 20
  BY DEF Write, Read, IsOcp
<1>2. Intended(o) = Meant(PageA42, 20) /\ \A p : ReachedBy(o, p) = Reached(p, 20)
  BY <1>1 DEF Intended, ReachedBy
<1> QED
  BY <1>2, GigaReached DEF ReachesIn

LEMMA PatchReaches ==
    ASSUME Phyar, NEW ps, ps \subseteq {Page6}
    PROVE  LET o == Write(Page6, 0, -1)
           IN  o.op = "write" /\ o.from = -1 /\ ReachesIn(o, ps)
<1> DEFINE o == Write(Page6, 0, -1)
<1>1. o.op = "write" /\ ~IsOcp(o) /\ o.page = Page6 /\ o.reg = 0 /\ o.from = -1
  BY DEF Write, IsOcp
<1> HIDE DEF o
<1>2. Intended(o) = Meant(Page6, 0) /\ \A p : ReachedBy(o, p) = Reached(p, 0)
  BY <1>1 DEF Intended, ReachedBy
<1>3. Pages = {0, Page6}
  BY DEF Pages
<1>4. ReachesIn(o, ps)
  BY <1>2, <1>3, PatchReached DEF ReachesIn
<1> QED
  BY <1>1, <1>4 DEF o

LEMMA OcpReaches ==
    ASSUME NEW x \in 0 .. UshortMax, NEW o \in {OcpRead(x), OcpWrite(x)}, ~Phyar, NEW ps
    PROVE  Intended(o) = x /\ ReachesIn(o, ps)
<1>1. IsOcp(o) /\ o.addr = x
  BY WordRange DEF OcpRead, OcpWrite, IsOcp
<1>2. Intended(o) = x /\ \A p : ReachedBy(o, p) = x
  BY <1>1 DEF Intended, ReachedBy
<1> QED
  BY <1>2 DEF ReachesIn

-----------------------------------------------------------------------------
(* The scripts, family by family.                                                *)

LEMMA Start8168d ==
    ASSUME family = "8168d"
    PROVE  /\ Len(Script("start")) = 6 /\ Script("start")[1] = Read(0, GBCR)
           /\ Script("start")[2] = Read(0, ANAR) /\ Script("start")[3] = Page(0)
           /\ Script("start")[4] = Write(0, ANAR, Meant(0, ANAR))
           /\ Script("start")[5] = Write(0, GBCR, Meant(0, GBCR))
           /\ Script("start")[6] = Write(0, BMCR, -1)
BY DEF Script, Advertise, Update, OcpUpdate

LEMMA Start8168g ==
    ASSUME family = "8168g"
    PROVE  /\ Len(Script("start")) = 6 /\ Script("start")[1] = Read(0, GBCR)
           /\ Script("start")[2] = Read(0, ANAR) /\ Script("start")[3] = Page(0)
           /\ Script("start")[4] = Write(0, ANAR, Meant(0, ANAR))
           /\ Script("start")[5] = Write(0, GBCR, Meant(0, GBCR))
           /\ Script("start")[6] = Write(0, BMCR, -1)
BY DEF Script, Advertise, Update, OcpUpdate

LEMMA Start8168h ==
    ASSUME family = "8168h"
    PROVE  /\ Len(Script("start")) = 13 /\ Script("start")[1] = Page(PageA42)
           /\ Script("start")[2] = Read(PageA42, 20)
           /\ Script("start")[3] = Write(PageA42, 20, Meant(PageA42, 20))
           /\ Script("start")[4] = Read(PageA42, 20)
           /\ Script("start")[5] = Write(PageA42, 20, Meant(PageA42, 20))
           /\ Script("start")[6] = Page(PageA40) /\ Script("start")[7] = Page(0)
           /\ Script("start")[8] = Read(0, GBCR) /\ Script("start")[9] = Read(0, ANAR)
           /\ Script("start")[10] = Page(0)
           /\ Script("start")[11] = Write(0, ANAR, Meant(0, ANAR))
           /\ Script("start")[12] = Write(0, GBCR, Meant(0, GBCR))
           /\ Script("start")[13] = Write(0, BMCR, -1)
BY DEF Script, Advertise, Update, OcpUpdate

LEMMA Start8125 ==
    ASSUME family = "8125"
    PROVE  /\ Len(Script("start")) = 12 /\ Script("start")[1] = OcpRead(42024)
           /\ Script("start")[2] = OcpWrite(42024) /\ Script("start")[3] = OcpRead(42474)
           /\ Script("start")[4] = OcpWrite(42474) /\ Script("start")[5] = OcpRead(42452)
           /\ Script("start")[6] = Read(0, GBCR) /\ Script("start")[7] = Read(0, ANAR)
           /\ Script("start")[8] = Page(0) /\ Script("start")[9] = OcpWrite(42452)
           /\ Script("start")[10] = Write(0, ANAR, Meant(0, ANAR))
           /\ Script("start")[11] = Write(0, GBCR, Meant(0, GBCR))
           /\ Script("start")[12] = Write(0, BMCR, -1)
BY DEF Script, Advertise, Update, OcpUpdate

LEMMA Dpc8168d ==
    ASSUME family = "8168d"
    PROVE  /\ Len(Script("dpc")) = 6 /\ Script("dpc")[1] = Page(Page6)
           /\ Script("dpc")[2] = Write(Page6, 0, -1) /\ Script("dpc")[3] = Page(0)
           /\ Script("dpc")[4] = Page(0) /\ Script("dpc")[5] = Read(0, ANER)
           /\ Script("dpc")[6] = Read(0, BMSR)
BY DEF Script, CheckLink, Update

LEMMA Dpc8168g ==
    ASSUME family = "8168g"
    PROVE  /\ Len(Script("dpc")) = 6 /\ Script("dpc")[1] = Page(0)
           /\ Script("dpc")[2] = Read(0, ANAR)
           /\ Script("dpc")[3] = Write(0, ANAR, Meant(0, ANAR))
           /\ Script("dpc")[4] = Page(0) /\ Script("dpc")[5] = Read(0, ANER)
           /\ Script("dpc")[6] = Read(0, BMSR)
BY DEF Script, CheckLink, Update

LEMMA DpcOthers ==
    ASSUME family \in {"8168h", "8125"}
    PROVE  /\ Len(Script("dpc")) = 3 /\ Script("dpc")[1] = Page(0)
           /\ Script("dpc")[2] = Read(0, ANER) /\ Script("dpc")[3] = Read(0, BMSR)
BY DEF Script, CheckLink, Update

-----------------------------------------------------------------------------
(* Every operation of every script gets what it needs.                           *)

LEMMA PageIsOK ==
    ASSUME NEW a, NEW j, NEW p \in Pages, Script(a)[j] = Page(p),
           p \in PagesAt(a, After(a, j))
    PROVE  OpOK(a, j)
<1>1. Page(p).op = "page" /\ Page(p).page = p
  BY DEF Page
<1> QED
  BY <1>1 DEF OpOK

LEMMA ReadIsOK ==
    ASSUME NEW a, NEW j, NEW r \in MiiRegisters, Script(a)[j] = Read(0, r),
           PagesAt(a, j) \subseteq {0}, PagesAt(a, j) \subseteq PagesAt(a, After(a, j))
    PROVE  OpOK(a, j)
BY ReadReaches DEF OpOK

LEMMA WriteIsOK ==
    ASSUME NEW a, NEW j, NEW r \in MiiRegisters, NEW f, Script(a)[j] = Write(0, r, f),
           PagesAt(a, j) \subseteq {0}, PagesAt(a, j) \subseteq PagesAt(a, After(a, j)),
           \/ f = -1
           \/ f = Meant(0, r) /\ \E k \in 1 .. j - 1 : Script(a)[k] = Read(0, r),
           a = "start" \/ Phyar \/ family = "8168g"
    PROVE  OpOK(a, j)
<1>1. ASSUME NEW k \in 1 .. j - 1, Script(a)[k] = Read(0, r)
      PROVE  ReadBefore(a, j, Meant(0, r))
  BY <1>1, ReadReaches DEF ReadBefore
<1>2. f = -1 \/ (f = Meant(0, r) /\ ReadBefore(a, j, f))
  BY <1>1
<1>3. /\ Intended(Script(a)[j]) = Meant(0, r) /\ Script(a)[j].op = "write"
      /\ Script(a)[j].from = f /\ ReachesIn(Script(a)[j], PagesAt(a, j))
  BY WriteReaches
<1> QED
  BY <1>2, <1>3 DEF OpOK

LEMMA OcpIsOK ==
    ASSUME NEW a, NEW j, NEW x \in 0 .. UshortMax, ~Phyar,
           PagesAt(a, j) \subseteq PagesAt(a, After(a, j)),
           \/ Script(a)[j] = OcpRead(x)
           \/ /\ Script(a)[j] = OcpWrite(x) /\ a = "start"
              /\ \E k \in 1 .. j - 1 : Script(a)[k] = OcpRead(x)
    PROVE  OpOK(a, j)
<1>1. OcpRead(x).op = "read" /\ OcpWrite(x).op = "write" /\ OcpWrite(x).from = x
  BY DEF OcpRead, OcpWrite
<1>2. /\ Intended(OcpRead(x)) = x /\ ReachesIn(OcpRead(x), PagesAt(a, j))
      /\ Intended(OcpWrite(x)) = x /\ ReachesIn(OcpWrite(x), PagesAt(a, j))
  BY OcpReaches
<1>3. CASE Script(a)[j] = OcpRead(x)
  BY <1>1, <1>2, <1>3 DEF OpOK
<1>4. CASE /\ Script(a)[j] = OcpWrite(x) /\ a = "start"
           /\ \E k \in 1 .. j - 1 : Script(a)[k] = OcpRead(x)
  <2>1. ReadBefore(a, j, x)
    BY <1>1, <1>2, <1>4 DEF ReadBefore
  <2> QED
    BY <1>1, <1>2, <1>4, <2>1 DEF OpOK
<1> QED
  BY <1>3, <1>4

ScriptOK(a) ==
    Len(Script(a)) \in Nat \ {0} /\ \A j \in 1 .. Len(Script(a)) : OpOK(a, j)

LEMMA OfLength ==
    ASSUME NEW a, NEW n \in Nat \ {0}, Len(Script(a)) = n, \A j \in 1 .. n : OpOK(a, j)
    PROVE  ScriptOK(a)
BY DEF ScriptOK

LEMMA Range6 == \A j \in 1 .. 6 : j \in {1, 2, 3, 4, 5, 6}
OBVIOUS

LEMMA OpsOf8168d == ASSUME family = "8168d" PROVE ScriptOK("start") /\ ScriptOK("dpc")
<1>1. /\ Phyar /\ Pages = {0, Page6}
      /\ {BMCR, BMSR, ANAR, ANER, GBCR} \subseteq MiiRegisters
  BY DEF Phyar, Pages, MiiRegisters
<1>2. ScriptOK("start")
  <2>1. \A j : PagesAt("start", j) = {0}
    BY <1>1 DEF PagesAt
  <2>2. OpOK("start", 1) /\ OpOK("start", 2)
    BY <1>1, <2>1, Start8168d, ReadIsOK
  <2>3. OpOK("start", 3)
    BY <1>1, <2>1, Start8168d, PageIsOK
  <2>4. OpOK("start", 4) /\ OpOK("start", 5) /\ OpOK("start", 6)
    <3>1. 1 \in 1 .. 5 - 1 /\ 2 \in 1 .. 4 - 1
      OBVIOUS
    <3> QED
      BY <1>1, <2>1, <3>1, Start8168d, WriteIsOK
  <2>5. \A j \in 1 .. 6 : OpOK("start", j)
    BY <2>2, <2>3, <2>4, Range6
  <2>6. Len(Script("start")) = 6
    BY Start8168d
  <2> QED
    BY 6 \in Nat \ {0}, <2>5, <2>6, OfLength
<1>3. ScriptOK("dpc")
  <2>1. /\ \A j : j \notin {2, 3} => PagesAt("dpc", j) = {0}
        /\ \A j : j \in {2, 3} => PagesAt("dpc", j) = {Page6}
        /\ After("dpc", 1) = 2 /\ After("dpc", 2) = 3 /\ After("dpc", 3) = 4
        /\ After("dpc", 4) = 5 /\ After("dpc", 5) = 6 /\ After("dpc", 6) = 0
    BY <1>1, Dpc8168d DEF PagesAt, After
  <2>2. OpOK("dpc", 1) /\ OpOK("dpc", 3) /\ OpOK("dpc", 4)
    BY <1>1, <2>1, Dpc8168d, PageIsOK
  <2>3. OpOK("dpc", 2)
    BY <1>1, <2>1, Dpc8168d, PatchReaches DEF OpOK
  <2>4. OpOK("dpc", 5) /\ OpOK("dpc", 6)
    BY <1>1, <2>1, Dpc8168d, ReadIsOK
  <2>5. \A j \in 1 .. 6 : OpOK("dpc", j)
    BY <2>2, <2>3, <2>4, Range6
  <2>6. Len(Script("dpc")) = 6
    BY Dpc8168d
  <2> QED
    BY 6 \in Nat \ {0}, <2>5, <2>6, OfLength
<1> QED
  BY <1>2, <1>3

LEMMA OpsOf8168g == ASSUME family = "8168g" PROVE ScriptOK("start") /\ ScriptOK("dpc")
<1>1. ~Phyar /\ 0 \in Pages /\ {BMCR, BMSR, ANAR, ANER, GBCR} \subseteq MiiRegisters
  BY DEF Phyar, Pages, MiiRegisters
<1>2. \A a, j : PagesAt(a, j) = {0}
  BY <1>1 DEF PagesAt
<1>3. ScriptOK("start")
  <2>1. OpOK("start", 1) /\ OpOK("start", 2)
    BY <1>1, <1>2, Start8168g, ReadIsOK
  <2>2. OpOK("start", 3)
    BY <1>1, <1>2, Start8168g, PageIsOK
  <2>3. OpOK("start", 4) /\ OpOK("start", 5) /\ OpOK("start", 6)
    <3>1. 1 \in 1 .. 5 - 1 /\ 2 \in 1 .. 4 - 1
      OBVIOUS
    <3> QED
      BY <1>1, <1>2, <3>1, Start8168g, WriteIsOK
  <2>4. \A j \in 1 .. 6 : OpOK("start", j)
    BY <2>1, <2>2, <2>3, Range6
  <2>5. Len(Script("start")) = 6
    BY Start8168g
  <2> QED
    BY 6 \in Nat \ {0}, <2>4, <2>5, OfLength
<1>4. ScriptOK("dpc")
  <2>1. OpOK("dpc", 1) /\ OpOK("dpc", 4)
    BY <1>1, <1>2, Dpc8168g, PageIsOK
  <2>2. OpOK("dpc", 2) /\ OpOK("dpc", 5) /\ OpOK("dpc", 6)
    BY <1>1, <1>2, Dpc8168g, ReadIsOK
  <2>3. OpOK("dpc", 3)
    <3>1. 2 \in 1 .. 3 - 1
      OBVIOUS
    <3> QED
      BY <1>1, <1>2, <3>1, Dpc8168g, WriteIsOK
  <2>4. \A j \in 1 .. 6 : OpOK("dpc", j)
    BY <2>1, <2>2, <2>3, Range6
  <2>5. Len(Script("dpc")) = 6
    BY Dpc8168g
  <2> QED
    BY 6 \in Nat \ {0}, <2>4, <2>5, OfLength
<1> QED
  BY <1>3, <1>4

LEMMA OpsOfOtherDpc == ASSUME family \in {"8168h", "8125"} PROVE ScriptOK("dpc")
<1>1. ~Phyar /\ 0 \in Pages /\ {BMCR, BMSR, ANAR, ANER, GBCR} \subseteq MiiRegisters
  BY DEF Phyar, Pages, MiiRegisters
<1>2. \A j : PagesAt("dpc", j) = {0}
  BY <1>1 DEF PagesAt
<1>3. OpOK("dpc", 1)
  BY <1>1, <1>2, DpcOthers, PageIsOK
<1>4. OpOK("dpc", 2) /\ OpOK("dpc", 3)
  BY <1>1, <1>2, DpcOthers, ReadIsOK
<1>5. \A j \in 1 .. 3 : j \in {1, 2, 3}
  OBVIOUS
<1>6. \A j \in 1 .. 3 : OpOK("dpc", j)
  BY <1>3, <1>4, <1>5
<1>7. Len(Script("dpc")) = 3
  BY DpcOthers
<1> QED
  BY 3 \in Nat \ {0}, <1>6, <1>7, OfLength

LEMMA OpsOf8125 == ASSUME family = "8125" PROVE ScriptOK("start")
<1>1. ~Phyar /\ 0 \in Pages /\ {BMCR, BMSR, ANAR, ANER, GBCR} \subseteq MiiRegisters
  BY DEF Phyar, Pages, MiiRegisters
<1>2. \A j : PagesAt("start", j) = {0}
  BY <1>1 DEF PagesAt
<1>3. /\ 1 \in 1 .. 2 - 1 /\ 3 \in 1 .. 4 - 1 /\ 5 \in 1 .. 9 - 1
      /\ 7 \in 1 .. 10 - 1 /\ 6 \in 1 .. 11 - 1
  OBVIOUS
<1>4. 42024 \in 0 .. UshortMax /\ 42474 \in 0 .. UshortMax /\ 42452 \in 0 .. UshortMax
  BY WordRange
<1>5. /\ OpOK("start", 1) /\ OpOK("start", 2) /\ OpOK("start", 3) /\ OpOK("start", 4)
      /\ OpOK("start", 5) /\ OpOK("start", 9)
  BY <1>1, <1>2, <1>3, <1>4, Start8125, OcpIsOK
<1>6. OpOK("start", 6) /\ OpOK("start", 7)
  BY <1>1, <1>2, Start8125, ReadIsOK
<1>7. OpOK("start", 8)
  BY <1>1, <1>2, Start8125, PageIsOK
<1>8. OpOK("start", 10) /\ OpOK("start", 11) /\ OpOK("start", 12)
  BY <1>1, <1>2, <1>3, Start8125, WriteIsOK
<1>9. \A j \in 1 .. 12 : j \in {1, 2, 3, 4, 5, 6, 7, 8, 9, 10, 11, 12}
  OBVIOUS
<1>10. \A j \in 1 .. 12 : OpOK("start", j)
  BY <1>5, <1>6, <1>7, <1>8, <1>9
<1>11. Len(Script("start")) = 12
  BY Start8125
<1> QED
  BY 12 \in Nat \ {0}, <1>10, <1>11, OfLength

LEMMA OpsOf8168h == ASSUME family = "8168h" PROVE ScriptOK("start")
<1>1. /\ ~Phyar /\ {0, PageA40, PageA42} \subseteq Pages
      /\ {BMCR, BMSR, ANAR, ANER, GBCR} \subseteq MiiRegisters
  BY DEF Phyar, Pages, MiiRegisters
<1>2. /\ \A j \in 2 .. 6 : PagesAt("start", j) = {0, PageA42}
      /\ PagesAt("start", 7) = {0, PageA40}
      /\ \A j \in 8 .. 13 : PagesAt("start", j) = {0} /\ PagesAt("start", 0) = {0}
  BY <1>1 DEF PagesAt
<1>3. /\ After("start", 13) = 0 /\ \A j \in 1 .. 12 : After("start", j) = j + 1
  BY Start8168h DEF After
<1>4. OpOK("start", 1) /\ OpOK("start", 6) /\ OpOK("start", 7) /\ OpOK("start", 10)
  <2>1. /\ PageA42 \in PagesAt("start", After("start", 1))
        /\ PageA40 \in PagesAt("start", After("start", 6))
        /\ 0 \in PagesAt("start", After("start", 7))
        /\ 0 \in PagesAt("start", After("start", 10))
    BY <1>2, <1>3
  <2> QED
    BY <1>1, <2>1, Start8168h, PageIsOK
<1>5. OpOK("start", 2) /\ OpOK("start", 3) /\ OpOK("start", 4) /\ OpOK("start", 5)
  <2> DEFINE giga == Meant(PageA42, 20)
             q == Read(PageA42, 20)
             o == Write(PageA42, 20, giga)
  <2>1. /\ q.op = "read" /\ Intended(q) = giga /\ ReachesIn(q, {0, PageA42})
        /\ o.op = "write" /\ o.from = giga
        /\ Intended(o) = giga /\ ReachesIn(o, {0, PageA42})
    BY <1>1, GigaReaches DEF Read, Write
  <2>2. /\ Script("start")[2] = q /\ Script("start")[3] = o
        /\ Script("start")[4] = q /\ Script("start")[5] = o
    BY Start8168h
  <2> HIDE DEF giga, q, o
  <2>3. ReadBefore("start", 3, giga) /\ ReadBefore("start", 5, giga)
    <3>1. 2 \in 1 .. 3 - 1 /\ 2 \in 1 .. 5 - 1
      OBVIOUS
    <3> QED
      BY <2>1, <2>2, <3>1 DEF ReadBefore
  <2>4. \A j \in {2, 3, 4, 5} : PagesAt("start", j) = {0, PageA42}
                               /\ PagesAt("start", After("start", j)) = {0, PageA42}
    BY <1>2, <1>3
  <2> QED
    BY <2>1, <2>2, <2>3, <2>4 DEF OpOK
<1>6. \A j \in {8, 9, 11, 12, 13} : PagesAt("start", j) = {0}
                                   /\ PagesAt("start", After("start", j)) = {0}
  BY <1>2, <1>3
<1>7. OpOK("start", 8) /\ OpOK("start", 9)
  BY <1>1, <1>6, Start8168h, ReadIsOK
<1>8. OpOK("start", 11) /\ OpOK("start", 12) /\ OpOK("start", 13)
  <2>1. 9 \in 1 .. 11 - 1 /\ 8 \in 1 .. 12 - 1
    OBVIOUS
  <2> QED
    BY <1>1, <1>6, <2>1, Start8168h, WriteIsOK
<1>9. \A j \in 1 .. 13 : j \in {1, 2, 3, 4, 5, 6, 7, 8, 9, 10, 11, 12, 13}
  OBVIOUS
<1>10. \A j \in 1 .. 13 : OpOK("start", j)
  BY <1>4, <1>5, <1>7, <1>8, <1>9
<1>11. Len(Script("start")) = 13
  BY Start8168h
<1> QED
  BY 13 \in Nat \ {0}, <1>10, <1>11, OfLength

LEMMA ScriptsOK ==
    ASSUME PhyAssumption, family \in Families, NEW a \in Actors
    PROVE  ScriptOK(a)
<1>1. family \in {"8168d", "8168g", "8168h", "8125"} /\ a \in {"start", "dpc"}
  BY DEF PhyAssumption, Actors
<1> QED
  BY <1>1, OpsOf8168d, OpsOf8168g, OpsOf8168h, OpsOf8125, OpsOfOtherDpc

-----------------------------------------------------------------------------
(* The inductive invariant.                                                      *)

AccessTypes ==
    /\ TypeOK
    /\ acc \in [addr : 0 .. UshortMax, data : Held, flag : BOOLEAN, write : BOOLEAN]
    /\ ip \in [Actors -> Nat] /\ polling \in [Actors -> Nat] /\ DOMAIN got = Actors
    /\ Phyar /\ acc.write /\ acc.addr = PageRegister => acc.data \in {0, Page6}
    /\ \A a \in Actors : /\ ~Idle(a) => runs[a] > 0
                         /\ polling[a] > 0 => ~Idle(a) /\ (Op(a).op = "page" => Phyar)

\* Of two threads at work at most one has not met the other.
AloneMeans == /\ \A a \in Actors : alone[a] /\ ~Idle(a) => Idle(Other(a))
              /\ Phyar => alone["start"] = alone["dpc"]

\* Where the page is the driver's, it is one that the start of a queue may find.
DriversPage == ~Phyar => cur_page \in PagesAt("start", ip["start"])

\* What is in the register while a thread waits is what it has put there, until the PHY
\* has answered.
Pending ==
    \A a \in Actors : Untroubled(a) /\ polling[a] > 0 =>
        /\ acc.write = (Op(a).op # "read")
        /\ acc.flag = IF Op(a).op = "read" THEN served ELSE ~served
        /\ Op(a).op = "read" =>
              acc.addr = Intended(Op(a)) /\ (served => acc.data = acc.addr)
        /\ Op(a).op = "page" => acc.addr = PageRegister /\ acc.data = Op(a).page
        /\ Op(a).op = "write" /\ Phyar => acc.addr # PageRegister

\* Nobody has met anybody or given up.
Calm == \A a \in Actors : alone[a] /\ timely[a]

\* Where the page is the PHY's, it is the one that the thread at work may find.
PhysPage == Phyar /\ Calm =>
    /\ \A a \in Actors : ~Idle(a) =>
          IF polling[a] > 0 /\ Op(a).op = "page" /\ served THEN phyPage = Op(a).page
          ELSE phyPage \in PagesAt(a, ip[a])
    /\ (\A a \in Actors : Idle(a)) => phyPage = 0
    /\ (\A a \in Actors : polling[a] = 0) => served

\* How many operations of its script a thread has done.
Passed(a) == IF Idle(a) THEN Len(Script(a)) ELSE ip[a] - 1

\* It has what it has read so far, each from the register it meant.
ReadsRight ==
    \A a \in Actors : Untroubled(a) /\ runs[a] > 0 =>
        \A j \in 1 .. Passed(a) : Script(a)[j].op = "read" =>
            LET r == Intended(Script(a)[j]) IN r \in DOMAIN got[a] /\ got[a][r] = r

AccessInv == /\ AccessTypes /\ AloneMeans /\ DriversPage /\ Pending /\ PhysPage
             /\ ReadsRight /\ WritesHitMeant /\ WritesOwnContents

LEMMA Others ==
    /\ Other("start") = "dpc" /\ Other("dpc") = "start" /\ Actors = {"start", "dpc"}
    /\ \A a \in Actors : Other(a) \in Actors /\ Other(a) # a /\ Other(Other(a)) = a
    /\ \A a, b \in Actors : b # a => b = Other(a)
BY DEF Other, Actors

\* What the scripts say does not change.
LEMMA Stays ==
    ASSUME family' = family
    PROVE  /\ Phyar' = Phyar
           /\ \A a : Script(a)' = Script(a)
           /\ \A o : Intended(o)' = Intended(o)
           /\ \A a, j : PagesAt(a, j)' = PagesAt(a, j)
<1>1. Phyar' = Phyar
  BY DEF Phyar
<1>2. \A p, r : Meant(p, r)' = Meant(p, r)
  BY <1>1 DEF Meant
<1>3. \A o : Intended(o)' = Intended(o)
  BY <1>1, <1>2 DEF Intended
<1>4. \A a, j : PagesAt(a, j)' = PagesAt(a, j)
  BY <1>1 DEF PagesAt
<1>5. Advertise' = Advertise /\ CheckLink' = CheckLink
  BY SMT DEF Advertise, CheckLink, Update, Meant, Phyar
<1>6. \A a : Script(a)' = Script(a)
  BY <1>5 DEF Script
<1> QED
  BY <1>1, <1>3, <1>4, <1>6

LEMMA AtOp ==
    ASSUME PhyAssumption, AccessTypes, NEW a \in Actors, ~Idle(a)
    PROVE  /\ ip[a] \in 1 .. Len(Script(a)) /\ OpOK(a, ip[a]) /\ Op(a) = Script(a)[ip[a]]
           /\ Len(Script(a)) \in Nat \ {0}
<1>1. ip[a] \in 0 .. Len(Script(a)) /\ ip[a] # 0 /\ family \in Families
  BY DEF AccessTypes, TypeOK, Idle
<1>2. ScriptOK(a)
  BY <1>1, ScriptsOK
<1>3. ip[a] \in 1 .. Len(Script(a))
  BY <1>1, <1>2 DEF ScriptOK
<1> QED
  BY <1>2, <1>3 DEF ScriptOK, Op

LEMMA Advances ==
    ASSUME PhyAssumption, AccessTypes, NEW a \in Actors, ~Idle(a), Advance(a)
    PROVE  /\ ip' = [ip EXCEPT ![a] = After(a, ip[a])]
           /\ After(a, ip[a]) \in 0 .. Len(Script(a)) /\ After(a, ip[a]) \in Nat
           /\ ip'[a] = After(a, ip[a]) /\ \A b \in Actors : b # a => ip'[b] = ip[b]
<1>1. ip[a] \in 1 .. Len(Script(a)) /\ Len(Script(a)) \in Nat /\ ip \in [Actors -> Nat]
  BY AtOp DEF AccessTypes
<1>2. ip' = [ip EXCEPT ![a] = After(a, ip[a])]
  BY DEF Advance, After
<1>3. After(a, ip[a]) \in 0 .. Len(Script(a)) /\ After(a, ip[a]) \in Nat
  BY <1>1 DEF After
<1> QED
  BY <1>1, <1>2, <1>3

-----------------------------------------------------------------------------
(* Every step keeps it.                                                          *)

\* A thread that is idle waits for nothing.
LEMMA IdleWaitsNot ==
    ASSUME AccessTypes, NEW a \in Actors, Idle(a)
    PROVE  polling[a] = 0
BY DEF AccessTypes

LEMMA FirstPages == \A a \in Actors : \A j \in {0, 1} : PagesAt(a, j) = {0}
BY DEF PagesAt

LEMMA BeginTypes ==
    ASSUME PhyAssumption, AccessTypes, NEW a \in Actors, Begin(a)
    PROVE  AccessTypes' /\ ip'[a] = 1
<1>1. /\ family' = family /\ cur_page' = cur_page /\ phyPage' = phyPage
      /\ acc' = acc /\ served' = served /\ polling' = polling
      /\ ip' = [ip EXCEPT ![a] = 1] /\ runs' = [runs EXCEPT ![a] = @ + 1]
      /\ runs[a] < MaxRuns /\ Idle(a)
      /\ got' = [got EXCEPT ![a] = << >>]
  BY DEF Begin
<1>2. /\ Phyar' = Phyar /\ \A b : Script(b)' = Script(b)
  BY <1>1, Stays
<1>3. /\ ip' \in [Actors -> Nat] /\ DOMAIN got' = Actors /\ ip'[a] = 1
      /\ \A b \in Actors : b # a => ip'[b] = ip[b] /\ got'[b] = got[b]
      /\ got'[a] = << >>
  BY <1>1 DEF AccessTypes
<1>4. runs' \in [Actors -> 0 .. MaxRuns]
  BY <1>1 DEF PhyAssumption, AccessTypes, TypeOK
<1>5. alone' \in [Actors -> BOOLEAN] /\ timely' \in [Actors -> BOOLEAN]
  BY Zenon DEF Begin, AccessTypes, TypeOK, Idle
<1>6. \A b \in Actors : ip'[b] \in 0 .. Len(Script(b))
  <2>1. Len(Script(a)) \in Nat \ {0}
    BY ScriptsOK DEF AccessTypes, TypeOK, ScriptOK
  <2>2. 1 \in 0 .. Len(Script(a))
    BY <2>1
  <2> QED
    BY <1>3, <2>2 DEF AccessTypes, TypeOK
<1>7. \A b \in Actors : \A r \in DOMAIN got'[b] : got'[b][r] \in Held
  <2>1. DOMAIN got'[a] = {}
    BY <1>3
  <2>2. \A b \in Actors : b # a => got'[b] = got[b]
    BY <1>3
  <2> QED
    BY <2>1, <2>2 DEF AccessTypes, TypeOK
<1>8. TypeOK'
  BY <1>1, <1>2, <1>4, <1>5, <1>6, <1>7 DEF AccessTypes, TypeOK
<1>9. \A b \in Actors : /\ ~Idle(b)' => runs'[b] > 0
                        /\ polling'[b] > 0 => ~Idle(b)' /\ (Op(b)'.op = "page" => Phyar)
  <2>1. runs'[a] > 0 /\ \A b \in Actors : b # a => runs'[b] = runs[b]
    BY <1>1 DEF AccessTypes, TypeOK
  <2>2. polling'[a] = 0 /\ \A b \in Actors : polling'[b] = polling[b]
    BY <1>1, IdleWaitsNot
  <2>3. \A b \in Actors : b # a => (Idle(b)' <=> Idle(b)) /\ Op(b)' = Op(b)
    BY <1>2, <1>3 DEF Idle, Op
  <2> QED
    BY <2>1, <2>2, <2>3 DEF AccessTypes
<1> QED
  BY <1>1, <1>2, <1>3, <1>8, <1>9 DEF AccessTypes

LEMMA BeginKeeps ==
    ASSUME PhyAssumption, AccessInv, NEW a \in Actors, Begin(a)
    PROVE  AccessInv'
<1> DEFINE b == Other(a)
<1>1. AccessTypes' /\ ip'[a] = 1
  BY BeginTypes DEF AccessInv
<1>2. /\ family' = family /\ cur_page' = cur_page /\ phyPage' = phyPage
      /\ acc' = acc /\ served' = served /\ polling' = polling /\ written' = written
      /\ runs[a] < MaxRuns /\ Idle(a) /\ AccessTypes
      /\ b \in Actors /\ b # a /\ Other(b) = a /\ \A c \in Actors : c = a \/ c = b
  BY Others DEF Begin, AccessInv
<1>3. /\ ip'[b] = ip[b] /\ runs'[b] = runs[b] /\ got'[b] = got[b]
      /\ Phyar' = Phyar /\ \A c : Script(c)' = Script(c)
      /\ \A o : Intended(o)' = Intended(o)
      /\ \A c, j : PagesAt(c, j)' = PagesAt(c, j)
  BY <1>2, Stays DEF Begin, AccessTypes, TypeOK
<1>4. /\ alone'[a] = (Idle(b) /\ (Phyar => alone[a]))
      /\ alone'[b] = (alone[b] /\ Idle(b))
  BY <1>2 DEF Begin, AccessTypes, TypeOK
<1>5. timely'[b] = timely[b] /\ (Phyar => timely'[a] = timely[a])
  BY <1>2 DEF Begin, AccessTypes, TypeOK
<1> HIDE DEF b
<1>6. (Idle(b)' <=> Idle(b)) /\ ~Idle(a)' /\ polling[a] = 0
  BY <1>1, <1>2, <1>3, IdleWaitsNot DEF Idle
<1>7. AloneMeans'
  <2>1. alone'[a] => Idle(b)
    BY <1>4
  <2>2. alone'[b] => Idle(b)
    BY <1>4
  <2>3. Phyar => alone'[a] = alone'[b]
    BY <1>2, <1>4, Others DEF AccessInv, AloneMeans
  <2> QED
    BY <1>2, <1>3, <1>6, <2>1, <2>2, <2>3, Others DEF AloneMeans
<1>8. DriversPage'
  BY <1>1, <1>2, <1>3, FirstPages, Others DEF AccessInv, DriversPage, Idle
<1>9. Pending'
  <2> SUFFICES ASSUME NEW c \in Actors, Untroubled(c)', polling[c] > 0 PROVE FALSE
    BY <1>2 DEF Pending
  <2>1. c = b /\ alone'[b]
    BY <1>2, <1>6 DEF Untroubled, AccessTypes
  <2>2. Idle(b)
    BY <1>4, <2>1
  <2>3. polling[b] = 0
    BY <1>2, <2>2, IdleWaitsNot
  <2> QED
    BY <2>1, <2>3
<1>10. PhysPage'
  <2> SUFFICES ASSUME Phyar, Calm' PROVE
         /\ \A c \in Actors : ~Idle(c)' =>
               IF polling[c] > 0 /\ Op(c)'.op = "page" /\ served THEN phyPage = Op(c)'.page
               ELSE phyPage \in PagesAt(c, ip'[c])
         /\ ~(\A c \in Actors : Idle(c)')
         /\ served
    BY <1>2, <1>3 DEF PhysPage
  <2>1. /\ alone'[a] /\ alone'[b] /\ timely'[a] /\ timely'[b]
    BY <1>2 DEF Calm
  <2>2. Idle(b) /\ Calm
    BY <1>2, <1>4, <1>5, <2>1 DEF Calm
  <2>3. \A c \in Actors : Idle(c) /\ polling[c] = 0
    BY <1>2, <1>6, <2>2, IdleWaitsNot
  <2>4. phyPage = 0 /\ served
    BY <2>2, <2>3 DEF AccessInv, PhysPage
  <2> QED
    BY <1>1, <1>2, <1>6, <2>2, <2>3, <2>4, FirstPages
<1>11. ReadsRight'
  <2> SUFFICES ASSUME NEW c \in Actors, Untroubled(c)', runs'[c] > 0,
                      NEW j \in 1 .. Passed(c)', Script(c)[j].op = "read"
               PROVE  LET r == Intended(Script(c)[j])
                      IN  r \in DOMAIN got'[c] /\ got'[c][r] = r
    BY <1>3 DEF ReadsRight
  <2>1. c = b
    BY <1>1, <1>2, <1>6 DEF Passed
  <2>2. Untroubled(b)
    BY <1>2, <1>3, <1>4, <1>5, <2>1 DEF Untroubled
  <2>3. Passed(b)' = Passed(b)
    BY <1>3, <1>6 DEF Passed
  <2> QED
    BY <1>2, <1>3, <2>1, <2>2, <2>3 DEF AccessInv, ReadsRight
<1>12. WritesHitMeant' /\ WritesOwnContents'
  BY <1>2, <1>3 DEF AccessInv, WritesHitMeant, WritesOwnContents
<1> QED
  BY <1>1, <1>7, <1>8, <1>9, <1>10, <1>11, <1>12 DEF AccessInv

\* While a thread has something to do, the other is troubled or idle.
LEMMA OtherIdle ==
    ASSUME AccessInv, NEW a \in Actors, ~Idle(a), alone[Other(a)]
    PROVE  Idle(Other(a)) /\ polling[Other(a)] = 0
BY Others, IdleWaitsNot DEF AccessInv, AloneMeans

LEMMA PassedNext ==
    ASSUME PhyAssumption, AccessTypes, NEW a \in Actors, ~Idle(a), Advance(a),
           \A b : Script(b)' = Script(b)
    PROVE  Passed(a)' = ip[a] /\ Passed(a) = ip[a] - 1
<1>1. /\ ip[a] \in 1 .. Len(Script(a)) /\ Len(Script(a)) \in Nat
      /\ ip'[a] = After(a, ip[a])
  BY AtOp, Advances
<1> QED
  BY <1>1 DEF Passed, After, Idle

LEMMA ZeroAlways == ASSUME ~Phyar PROVE \A a, j : 0 \in PagesAt(a, j)
BY DEF PagesAt

\* A step of a thread in its script leaves AloneMeans.
LEMMA AloneStays ==
    ASSUME AccessInv, NEW a \in Actors, ~Idle(a), alone' = alone, Phyar' = Phyar,
           ip'[Other(a)] = ip[Other(a)]
    PROVE  AloneMeans'
<1>1. /\ Other(a) \in Actors /\ Other(Other(a)) = a
      /\ \A c \in Actors : c = a \/ c = Other(a)
  BY Others
<1>2. alone[Other(a)] => Idle(Other(a))
  BY <1>1 DEF AccessInv, AloneMeans
<1>3. alone[a] => Idle(Other(a))
  BY DEF AccessInv, AloneMeans
<1>4. Idle(Other(a))' <=> Idle(Other(a))
  BY DEF Idle
<1>5. \A c \in Actors : alone[c] /\ ~Idle(c)' => Idle(Other(c))'
  BY <1>1, <1>2, <1>3, <1>4
<1> QED
  BY <1>5 DEF AccessInv, AloneMeans

\* What the other has read stays.
LEMMA OthersReads ==
    ASSUME AccessInv, NEW a \in Actors, ~Idle(a), family' = family, alone' = alone,
           runs' = runs, timely'[Other(a)] = timely[Other(a)], timely'[a] => timely[a],
           ip'[Other(a)] = ip[Other(a)], got'[Other(a)] = got[Other(a)],
           Untroubled(Other(a))', runs[Other(a)] > 0,
           NEW j \in 1 .. Passed(Other(a))', Script(Other(a))[j].op = "read"
    PROVE  LET r == Intended(Script(Other(a))[j])
           IN  r \in DOMAIN got'[Other(a)] /\ got'[Other(a)][r] = r
<1> DEFINE b == Other(a)
<1>1. b \in Actors /\ Other(b) = a
  BY Others
<1>2. /\ Phyar' = Phyar /\ \A c : Script(c)' = Script(c)
      /\ got'[b] = got[b] /\ ip'[b] = ip[b] /\ alone'[b] = alone[b]
      /\ timely'[b] = timely[b] /\ (timely'[a] => timely[a])
  BY Stays
<1> HIDE DEF b
<1>3. Untroubled(b)
  BY <1>1, <1>2 DEF Untroubled, b
<1>4. Passed(b)' = Passed(b)
  BY <1>2 DEF Passed, Idle
<1> QED
  BY <1>1, <1>2, <1>3, <1>4 DEF AccessInv, ReadsRight, b

LEMMA SetPageKeeps ==
    ASSUME PhyAssumption, AccessInv, NEW a \in Actors, SetPage(a)
    PROVE  AccessInv'
<1> DEFINE b == Other(a)
<1>1. /\ family' = family /\ phyPage' = phyPage /\ acc' = acc /\ served' = served
      /\ polling' = polling /\ got' = got /\ alone' = alone /\ timely' = timely
      /\ written' = written /\ runs' = runs /\ cur_page' = Op(a).page
      /\ ~Idle(a) /\ Op(a).op = "page" /\ ~Phyar /\ Advance(a)
  BY DEF SetPage, history
<1>2. /\ Phyar' = Phyar /\ \A c : Script(c)' = Script(c)
      /\ \A o : Intended(o)' = Intended(o)
      /\ \A c, j : PagesAt(c, j)' = PagesAt(c, j)
  BY <1>1, Stays
<1>3. /\ OpOK(a, ip[a]) /\ Op(a) = Script(a)[ip[a]] /\ AccessTypes
      /\ ip[a] \in 1 .. Len(Script(a))
      /\ ip' = [ip EXCEPT ![a] = After(a, ip[a])]
      /\ After(a, ip[a]) \in 0 .. Len(Script(a)) /\ After(a, ip[a]) \in Nat
      /\ ip'[a] = After(a, ip[a]) /\ \A c \in Actors : c # a => ip'[c] = ip[c]
  BY <1>1, AtOp, Advances DEF AccessInv
<1>4. cur_page' \in Pages /\ cur_page' \in PagesAt(a, ip'[a])
  BY <1>1, <1>3 DEF OpOK
<1>5. /\ b \in Actors /\ b # a /\ Other(b) = a /\ \A c \in Actors : c = a \/ c = b
      /\ ip'[b] = ip[b]
  BY <1>3, Others
<1> HIDE DEF b
<1>6. polling[a] = 0
  BY <1>1, <1>3 DEF AccessTypes, TypeOK
<1>7. AccessTypes'
  <2>1. ip' \in [Actors -> Nat] /\ \A c \in Actors : ip'[c] \in 0 .. Len(Script(c))
    BY <1>3, <1>5 DEF AccessTypes, TypeOK
  <2>2. cur_page' \in {0, Page6, PageA40, PageA42}
    BY <1>4 DEF Pages
  <2>3. TypeOK'
    BY <1>1, <1>2, <1>3, <2>1, <2>2 DEF AccessTypes, TypeOK
  <2>4. polling[b] > 0 => ~Idle(b)' /\ Op(b)' = Op(b)
    BY <1>2, <1>3, <1>5 DEF AccessTypes, Idle, Op
  <2>5. ~Idle(b)' => ~Idle(b)
    BY <1>5 DEF Idle
  <2>6. \A c \in Actors : /\ ~Idle(c)' => runs[c] > 0
                          /\ polling[c] > 0 => ~Idle(c)' /\ (Op(c)'.op = "page" => Phyar)
    BY <1>1, <1>3, <1>5, <1>6, <2>4, <2>5 DEF AccessTypes
  <2> QED
    BY <1>1, <1>2, <1>3, <2>1, <2>3, <2>6 DEF AccessTypes
<1>8. AloneMeans'
  BY <1>1, <1>2, <1>5, AloneStays DEF b
<1>9. DriversPage'
  <2>1. CASE a = "start"
    BY <1>2, <1>4, <2>1 DEF DriversPage
  <2>2. CASE a = "dpc"
    <3>1. PagesAt(a, ip'[a]) = {0}
      BY <1>1, <2>2 DEF PagesAt
    <3> QED
      BY <1>1, <1>2, <1>4, <3>1, ZeroAlways DEF DriversPage
  <2> QED
    BY <2>1, <2>2 DEF Actors
<1>10. Pending'
  <2> SUFFICES ASSUME NEW c \in Actors, alone[c], polling[c] > 0 PROVE FALSE
    BY <1>1 DEF Pending, Untroubled
  <2>1. c = b
    BY <1>5, <1>6
  <2> QED
    BY <1>1, <2>1, OtherIdle DEF b
<1>11. PhysPage'
  BY <1>1, <1>2 DEF PhysPage
<1>12. ReadsRight'
  <2> SUFFICES ASSUME NEW c \in Actors, Untroubled(c)', runs[c] > 0,
                      NEW j \in 1 .. Passed(c)', Script(c)[j].op = "read"
               PROVE  LET r == Intended(Script(c)[j])
                      IN  r \in DOMAIN got'[c] /\ got'[c][r] = r
    BY <1>1, <1>2 DEF ReadsRight
  <2>1. CASE c = b
    BY <1>1, <1>5, <2>1, OthersReads DEF b
  <2>2. CASE c = a
    <3>1. Passed(a)' = ip[a] /\ Passed(a) = ip[a] - 1
      BY <1>1, <1>2, <1>3, PassedNext
    <3>2. j \in 1 .. Passed(a)
      BY <1>1, <1>3, <2>2, <3>1
    <3>3. Untroubled(a)
      BY <1>1, <1>2, <2>2 DEF Untroubled
    <3> QED
      BY <1>1, <2>2, <3>2, <3>3 DEF AccessInv, ReadsRight
  <2> QED
    BY <1>5, <2>1, <2>2
<1>13. WritesHitMeant' /\ WritesOwnContents'
  BY <1>1, <1>2 DEF AccessInv, WritesHitMeant, WritesOwnContents
<1> QED
  BY <1>7, <1>8, <1>9, <1>10, <1>11, <1>12, <1>13 DEF AccessInv

\* A thread that writes the register waits, and is the only one that has met no other.
LEMMA StartsToWait ==
    ASSUME PhyAssumption, AccessInv, NEW a \in Actors, ~Idle(a), polling[a] = 0,
           Op(a).op = "page" => Phyar, family' = family, phyPage' = phyPage, ip' = ip,
           got' = got, alone' = alone, timely' = timely, runs' = runs,
           polling' = [polling EXCEPT ![a] = 1], ~served', served' \in BOOLEAN,
           cur_page' \in {0, Page6, PageA40, PageA42},
           acc' \in [addr : 0 .. UshortMax, data : Held, flag : BOOLEAN, write : BOOLEAN],
           Phyar /\ acc'.write /\ acc'.addr = PageRegister => acc'.data \in {0, Page6},
           Phyar \/ cur_page' = cur_page,
           Untroubled(a) =>
               /\ acc'.write = (Op(a).op # "read") /\ acc'.flag = acc'.write
               /\ Op(a).op = "read" => acc'.addr = Intended(Op(a))
               /\ Op(a).op = "page" => acc'.addr = PageRegister /\ acc'.data = Op(a).page
               /\ Op(a).op = "write" /\ Phyar => acc'.addr # PageRegister
    PROVE  /\ AccessTypes' /\ AloneMeans' /\ DriversPage'
           /\ Pending' /\ PhysPage' /\ ReadsRight'
<1> DEFINE b == Other(a)
<1>1. /\ Phyar' = Phyar /\ \A c : Script(c)' = Script(c)
      /\ \A o : Intended(o)' = Intended(o)
      /\ \A c, j : PagesAt(c, j)' = PagesAt(c, j)
  BY Stays
<1>2. /\ b \in Actors /\ b # a /\ Other(b) = a /\ \A c \in Actors : c = a \/ c = b
      /\ AccessTypes
  BY Others DEF AccessInv
<1>3. polling'[a] = 1 /\ polling'[b] = polling[b] /\ DOMAIN polling' = Actors
  BY <1>2 DEF AccessTypes
<1>4. alone[b] => Idle(b) /\ polling[b] = 0
  BY OtherIdle
<1>5. /\ \A c \in Actors : (Idle(c)' <=> Idle(c)) /\ Op(c)' = Op(c)
      /\ \A c \in Actors : Untroubled(c)' <=> Untroubled(c)
  BY <1>1 DEF Idle, Op, Untroubled
<1> HIDE DEF b
<1>6. AccessTypes'
  <2>1. polling' \in [Actors -> Nat] /\ \A c \in Actors : polling'[c] \in 0 .. WaitCount
    BY <1>2, <1>3 DEF AccessTypes, TypeOK, PhyAssumption
  <2>3. TypeOK'
    BY <1>1, <1>2, <2>1 DEF AccessTypes, TypeOK
  <2>4. \A c \in Actors : polling'[c] > 0 => ~Idle(c)' /\ (Op(c)'.op = "page" => Phyar)
    BY <1>2, <1>3, <1>5 DEF AccessTypes
  <2>5. \A c \in Actors : ~Idle(c)' => runs'[c] > 0
    BY <1>2, <1>5 DEF AccessTypes
  <2> QED
    BY <1>1, <1>2, <2>1, <2>3, <2>4, <2>5 DEF AccessTypes
<1>7. AloneMeans'
  BY <1>1, AloneStays
<1>8. DriversPage'
  BY <1>1 DEF AccessInv, DriversPage
<1>9. Pending'
  <2> SUFFICES ASSUME NEW c \in Actors, Untroubled(c), polling'[c] > 0
               PROVE  /\ acc'.write = (Op(c).op # "read")
                      /\ acc'.flag = IF Op(c).op = "read" THEN served' ELSE ~served'
                      /\ Op(c).op = "read" =>
                            acc'.addr = Intended(Op(c)) /\ (served' => acc'.data = acc'.addr)
                      /\ Op(c).op = "page" =>
                            acc'.addr = PageRegister /\ acc'.data = Op(c).page
                      /\ Op(c).op = "write" /\ Phyar => acc'.addr # PageRegister
    BY <1>1, <1>5 DEF Pending
  <2>1. c = a
    BY <1>2, <1>3, <1>4 DEF Untroubled
  <2>2. served' = FALSE
    OBVIOUS
  <2> QED
    BY <2>1, <2>2
<1>10. PhysPage'
  <2> SUFFICES ASSUME Phyar, Calm
               PROVE  /\ \A c \in Actors : ~Idle(c) => phyPage \in PagesAt(c, ip[c])
                      /\ ~Idle(a) /\ polling'[a] # 0
    BY <1>1, <1>5 DEF PhysPage, Calm
  <2>1. Idle(b)
    BY <1>2, <1>4 DEF Calm
  <2>2. phyPage \in PagesAt(a, ip[a])
    BY DEF AccessInv, PhysPage
  <2> QED
    BY <1>2, <1>3, <2>1, <2>2
<1>11. ReadsRight'
  <2>1. \A c \in Actors : Passed(c)' = Passed(c)
    BY <1>1, <1>5 DEF Passed
  <2> QED
    BY <1>1, <1>5, <2>1 DEF AccessInv, ReadsRight
<1> QED
  BY <1>6, <1>7, <1>8, <1>9, <1>10, <1>11

LEMMA TellPageKeeps ==
    ASSUME PhyAssumption, AccessInv, NEW a \in Actors, TellPage(a)
    PROVE  AccessInv'
<1>1. /\ family' = family /\ phyPage' = phyPage /\ ip' = ip /\ got' = got /\ alone' = alone
      /\ timely' = timely /\ written' = written /\ runs' = runs /\ cur_page' = Op(a).page
      /\ polling' = [polling EXCEPT ![a] = 1] /\ served' = FALSE
      /\ acc' = [addr |-> PageRegister, data |-> Op(a).page, flag |-> TRUE, write |-> TRUE]
      /\ ~Idle(a) /\ Op(a).op = "page" /\ Phyar /\ polling[a] = 0
  BY DEF TellPage, history
<1>2. OpOK(a, ip[a]) /\ Op(a) = Script(a)[ip[a]]
  BY <1>1, AtOp DEF AccessInv
<1>3. Op(a).page \in Pages /\ Pages = {0, Page6}
  BY <1>1, <1>2 DEF OpOK, Pages
<1>4. PageRegister \in 0 .. UshortMax /\ 0 \in Held /\ Page6 \in Held
  BY WordRange DEF PageRegister, Held, Page6
<1>5. acc' \in [addr : 0 .. UshortMax, data : Held, flag : BOOLEAN, write : BOOLEAN]
  BY <1>1, <1>3, <1>4
<1>6. /\ acc'.addr = PageRegister /\ acc'.data = Op(a).page
      /\ acc'.flag = TRUE /\ acc'.write = TRUE
  BY <1>1
<1>7. AccessTypes' /\ AloneMeans' /\ DriversPage' /\ Pending' /\ PhysPage' /\ ReadsRight'
  BY <1>1, <1>3, <1>5, <1>6, StartsToWait
<1>8. WritesHitMeant' /\ WritesOwnContents'
  <2>1. Phyar' = Phyar
    BY <1>1, Stays
  <2> QED
    BY <1>1, <2>1 DEF AccessInv, WritesHitMeant, WritesOwnContents
<1> QED
  BY <1>7, <1>8 DEF AccessInv

\* Where a thread's access goes.
LEMMA Hits ==
    ASSUME PhyAssumption, AccessInv, NEW a \in Actors, ~Idle(a), polling[a] = 0,
           Op(a).op \in {"read", "write"}
    PROVE  /\ Target(Op(a)) \in 0 .. UshortMax
           /\ Phyar => Target(Op(a)) # PageRegister
           /\ Untroubled(a) \/ (~Phyar /\ Op(a).op = "write") =>
                 Target(Op(a)) = Intended(Op(a))
<1> DEFINE o == Op(a)
           page == IF Phyar THEN phyPage ELSE cur_page
<1>1. Target(o) = ReachedBy(o, page)
  BY DEF Target, ReachedBy, Reached
<1>2. /\ OpOK(a, ip[a]) /\ o = Script(a)[ip[a]] /\ AccessTypes
  BY AtOp DEF AccessInv
<1>3. page \in Pages
  <2>1. CASE Phyar
    BY <1>2, <2>1 DEF AccessTypes, TypeOK, Pages
  <2>2. CASE ~Phyar
    BY <2>2 DEF AccessInv, DriversPage, PagesAt, Pages
  <2> QED
    BY <2>1, <2>2
<1>4. ReachesIn(o, PagesAt(a, ip[a]))
  BY <1>2 DEF OpOK
<1>5. ASSUME Untroubled(a) \/ (~Phyar /\ o.op = "write")
      PROVE  page \in PagesAt(a, ip[a])
  <2>1. CASE Phyar
    <3>1. Calm /\ Phyar
      BY <1>5, <2>1, Others DEF Calm, Untroubled, AccessInv, AloneMeans
    <3> QED
      BY <3>1 DEF AccessInv, PhysPage
  <2>2. CASE ~Phyar /\ a = "start"
    BY <2>2 DEF AccessInv, DriversPage
  <2>3. CASE ~Phyar /\ a = "dpc"
    <3>1. cur_page = 0
      <4>1. CASE Untroubled(a)
        <5>1. ip["start"] = 0
          BY <2>3, <4>1, Others DEF AccessInv, AloneMeans, Untroubled, Idle
        <5> QED
          BY <2>3, <5>1, FirstPages, Others DEF AccessInv, DriversPage
      <4>2. CASE o.op = "write"
        <5>1. family = "8168g"
          BY <1>2, <2>3, <4>2 DEF OpOK
        <5> QED
          BY <2>3, <5>1 DEF AccessInv, DriversPage, PagesAt
      <4> QED
        BY <1>5, <2>3, <4>1, <4>2
    <3> QED
      BY <2>3, <3>1, ZeroAlways
  <2> QED
    BY <2>1, <2>2, <2>3 DEF Actors
<1> HIDE DEF o, page
<1>6. /\ ReachedBy(o, page) \in 0 .. UshortMax
      /\ Phyar => ReachedBy(o, page) # PageRegister
      /\ page \in PagesAt(a, ip[a]) => ReachedBy(o, page) = Intended(o)
  BY <1>3, <1>4 DEF ReachesIn
<1> QED
  BY <1>1, <1>5, <1>6 DEF o

\* What a thread writes back it has read from there.
LEMMA WritesRead ==
    ASSUME PhyAssumption, AccessInv, NEW a \in Actors, ~Idle(a), Op(a).op = "write"
    PROVE  /\ ValueOf(a) \in Held
           /\ Untroubled(a) => ValueOf(a) \in {-1, Intended(Op(a))}
<1>1. /\ OpOK(a, ip[a]) /\ Op(a) = Script(a)[ip[a]] /\ AccessTypes /\ ip[a] \in Nat
  BY AtOp DEF AccessInv
<1>2. -1 \in Held /\ 0 \in Held
  BY WordRange DEF Held
<1>3. ValueOf(a) \in Held
  BY <1>1, <1>2 DEF ValueOf, AccessTypes, TypeOK
<1>4. ASSUME Untroubled(a), Op(a).from # -1
      PROVE  ValueOf(a) = Intended(Op(a))
  <2>1. Op(a).from = Intended(Op(a)) /\ ReadBefore(a, ip[a], Op(a).from)
    BY <1>1, <1>4 DEF OpOK
  <2>2. PICK k \in 1 .. ip[a] - 1 :
           Script(a)[k].op = "read" /\ Intended(Script(a)[k]) = Op(a).from
    BY <2>1 DEF ReadBefore
  <2>3. runs[a] > 0 /\ Passed(a) = ip[a] - 1
    BY <1>1 DEF AccessTypes, Passed
  <2>4. Op(a).from \in DOMAIN got[a] /\ got[a][Op(a).from] = Op(a).from
    BY <1>4, <2>2, <2>3 DEF AccessInv, ReadsRight
  <2> QED
    BY <1>4, <2>1, <2>4 DEF ValueOf
<1>5. Op(a).from = -1 => ValueOf(a) = -1
  BY DEF ValueOf
<1> QED
  BY <1>3, <1>4, <1>5

LEMMA CommandKeeps ==
    ASSUME PhyAssumption, AccessInv, NEW a \in Actors, Command(a)
    PROVE  AccessInv'
<1> DEFINE o == Op(a)
           t == Target(o)
<1>1. /\ family' = family /\ cur_page' = cur_page /\ phyPage' = phyPage /\ ip' = ip
      /\ got' = got /\ alone' = alone /\ timely' = timely /\ runs' = runs
      /\ polling' = [polling EXCEPT ![a] = 1] /\ served' = FALSE
      /\ ~Idle(a) /\ o.op \in {"read", "write"} /\ polling[a] = 0
  BY DEF Command
<1>2. /\ o.op = "read" =>
            /\ acc' = [addr |-> t, data |-> 0, flag |-> FALSE, write |-> FALSE]
            /\ written' = written
      /\ o.op = "write" =>
            /\ acc' = [addr |-> t, data |-> ValueOf(a), flag |-> TRUE, write |-> TRUE]
            /\ written' = [meant |-> Intended(o), addr |-> t, value |-> ValueOf(a),
                           by |-> a, sound |-> Untroubled(a)]
  BY DEF Command
<1>3. /\ t \in 0 .. UshortMax /\ (Phyar => t # PageRegister)
      /\ Untroubled(a) \/ (~Phyar /\ o.op = "write") => t = Intended(o)
  BY <1>1, Hits
<1>4. o.op = "write" => /\ ValueOf(a) \in Held
                        /\ Untroubled(a) => ValueOf(a) \in {-1, Intended(o)}
  BY <1>1, WritesRead
<1>5. cur_page \in {0, Page6, PageA40, PageA42}
  BY DEF AccessInv, AccessTypes, TypeOK
<1> HIDE DEF o, t
<1>6. 0 \in Held
  BY WordRange DEF Held
<1>7. /\ acc' \in [addr : 0 .. UshortMax, data : Held, flag : BOOLEAN, write : BOOLEAN]
      /\ acc'.addr = t /\ acc'.write = (o.op # "read") /\ acc'.flag = acc'.write
  <2>1. CASE o.op = "read"
    <3>1. acc' = [addr |-> t, data |-> 0, flag |-> FALSE, write |-> FALSE]
      BY <1>2, <2>1
    <3>2. acc' \in [addr : 0 .. UshortMax, data : Held, flag : BOOLEAN, write : BOOLEAN]
      BY <1>3, <1>6, <3>1
    <3>3. acc'.addr = t /\ acc'.write = FALSE /\ acc'.flag = FALSE
      BY <3>1
    <3> QED
      BY <2>1, <3>2, <3>3
  <2>2. CASE o.op = "write"
    <3>1. acc' = [addr |-> t, data |-> ValueOf(a), flag |-> TRUE, write |-> TRUE]
      BY <1>2, <2>2
    <3>2. acc' \in [addr : 0 .. UshortMax, data : Held, flag : BOOLEAN, write : BOOLEAN]
      BY <1>3, <1>4, <2>2, <3>1
    <3>3. acc'.addr = t /\ acc'.write = TRUE /\ acc'.flag = TRUE
      BY <3>1
    <3> QED
      BY <2>2, <3>2, <3>3
  <2> QED
    BY <1>1, <2>1, <2>2
<1>8. AccessTypes' /\ AloneMeans' /\ DriversPage' /\ Pending' /\ PhysPage' /\ ReadsRight'
  <2>1. Untroubled(a) =>
            /\ acc'.write = (o.op # "read") /\ acc'.flag = acc'.write
            /\ o.op = "read" => acc'.addr = Intended(o)
            /\ o.op = "page" => acc'.addr = PageRegister /\ acc'.data = o.page
            /\ o.op = "write" /\ Phyar => acc'.addr # PageRegister
    BY <1>1, <1>3, <1>7
  <2>2. Phyar /\ acc'.write /\ acc'.addr = PageRegister => acc'.data \in {0, Page6}
    BY <1>3, <1>7
  <2> QED
    BY <1>1, <1>5, <1>7, <2>1, <2>2, StartsToWait DEF o
<1>9. WritesHitMeant' /\ WritesOwnContents'
  <2>1. Phyar' = Phyar
    BY <1>1, Stays
  <2>2. CASE o.op = "read"
    BY <1>2, <2>1, <2>2 DEF AccessInv, WritesHitMeant, WritesOwnContents
  <2>3. CASE o.op = "write"
    <3>1. /\ written'.meant = Intended(o) /\ written'.addr = t /\ written'.value = ValueOf(a)
          /\ written'.sound = Untroubled(a)
      BY <1>2, <2>3
    <3> QED
      BY <1>3, <1>4, <2>1, <2>3, <3>1 DEF WritesHitMeant, WritesOwnContents
  <2> QED
    BY <1>1, <2>2, <2>3
<1> QED
  BY <1>8, <1>9 DEF AccessInv

\* A step that no thread takes leaves where they are.
LEMMA PhyTypes ==
    ASSUME AccessTypes, Phy
    PROVE  /\ AccessTypes'
           /\ acc'.addr = acc.addr /\ acc'.write = acc.write /\ acc'.flag = ~acc.write
           /\ acc.write => acc'.data = acc.data
           /\ ~acc.write => acc'.data = acc.addr
           /\ phyPage' = IF Phyar /\ acc.write /\ acc.addr = PageRegister THEN acc.data
                    ELSE phyPage
<1>1. /\ family' = family /\ cur_page' = cur_page /\ ip' = ip /\ polling' = polling
      /\ got' = got /\ alone' = alone /\ timely' = timely /\ runs' = runs /\ served' = TRUE
      /\ acc' = [acc EXCEPT !.flag = ~acc.write,
                            !.data = IF acc.write THEN acc.data ELSE acc.addr]
      /\ phyPage' = IF Phyar /\ acc.write /\ acc.addr = PageRegister THEN acc.data
                    ELSE phyPage
      /\ acc \in [addr : 0 .. UshortMax, data : Held, flag : BOOLEAN, write : BOOLEAN]
  BY DEF Phy, history, AccessTypes
<1>2. Phyar' = Phyar /\ \A c : Script(c)' = Script(c)
  BY <1>1, Stays
<1>3. 0 .. UshortMax \subseteq Held
  BY WordRange DEF Held
<1>4. /\ acc'.addr = acc.addr /\ acc'.write = acc.write /\ acc'.flag = ~acc.write
      /\ acc.write => acc'.data = acc.data
      /\ ~acc.write => acc'.data = acc.addr
  BY <1>1
<1>5. acc' \in [addr : 0 .. UshortMax, data : Held, flag : BOOLEAN, write : BOOLEAN]
  BY <1>1, <1>3
<1>6. phyPage' \in {0, Page6} /\ (phyPage' = 0 \/ Phyar)
  BY <1>1 DEF AccessTypes, TypeOK
<1>7. TypeOK'
  BY <1>1, <1>2, <1>5, <1>6 DEF AccessTypes, TypeOK
<1>8. \A c \in Actors : (Idle(c)' <=> Idle(c)) /\ Op(c)' = Op(c)
  BY <1>1, <1>2 DEF Idle, Op
<1>9. Phyar /\ acc'.write /\ acc'.addr = PageRegister => acc'.data \in {0, Page6}
  BY <1>4 DEF AccessTypes
<1>10. AccessTypes'
  BY <1>1, <1>2, <1>5, <1>7, <1>8, <1>9 DEF AccessTypes
<1> QED
  BY <1>1, <1>4, <1>10

LEMMA PhyKeeps ==
    ASSUME PhyAssumption, AccessInv, Phy
    PROVE  AccessInv'
<1>1. /\ family' = family /\ cur_page' = cur_page /\ ip' = ip /\ polling' = polling
      /\ got' = got /\ alone' = alone /\ timely' = timely /\ runs' = runs /\ served' = TRUE
      /\ ~served /\ written' = written
  BY DEF Phy, history
<1>2. /\ Phyar' = Phyar /\ \A c : Script(c)' = Script(c)
      /\ \A o : Intended(o)' = Intended(o)
      /\ \A c, j : PagesAt(c, j)' = PagesAt(c, j)
  BY <1>1, Stays
<1>3. /\ AccessTypes'
      /\ acc'.addr = acc.addr /\ acc'.write = acc.write /\ acc'.flag = ~acc.write
      /\ acc.write => acc'.data = acc.data
      /\ ~acc.write => acc'.data = acc.addr
      /\ phyPage' = IF Phyar /\ acc.write /\ acc.addr = PageRegister THEN acc.data
                    ELSE phyPage
  BY PhyTypes DEF AccessInv
<1>4. /\ \A c \in Actors : (Idle(c)' <=> Idle(c)) /\ Op(c)' = Op(c) /\ Passed(c)' = Passed(c)
      /\ \A c \in Actors : Untroubled(c)' <=> Untroubled(c)
  BY <1>1, <1>2 DEF Idle, Op, Untroubled, Passed
<1>5. AloneMeans' /\ DriversPage'
  BY <1>1, <1>2, <1>4, Others DEF AccessInv, AloneMeans, DriversPage
<1>6. Pending'
  <2> SUFFICES ASSUME NEW c \in Actors, Untroubled(c), polling[c] > 0
               PROVE  /\ acc'.write = (Op(c).op # "read")
                      /\ acc'.flag = IF Op(c).op = "read" THEN served' ELSE ~served'
                      /\ Op(c).op = "read" =>
                            acc'.addr = Intended(Op(c)) /\ (served' => acc'.data = acc'.addr)
                      /\ Op(c).op = "page" =>
                            acc'.addr = PageRegister /\ acc'.data = Op(c).page
                      /\ Op(c).op = "write" /\ Phyar => acc'.addr # PageRegister
    BY <1>1, <1>2, <1>4 DEF Pending
  <2>1. /\ acc.write = (Op(c).op # "read")
        /\ Op(c).op = "read" => acc.addr = Intended(Op(c))
        /\ Op(c).op = "page" => acc.addr = PageRegister /\ acc.data = Op(c).page
        /\ Op(c).op = "write" /\ Phyar => acc.addr # PageRegister
    BY DEF AccessInv, Pending
  <2>2. CASE Op(c).op = "read"
    <3>1. acc.write = FALSE
      BY <2>1, <2>2
    <3>2. acc'.write = FALSE /\ acc'.flag = TRUE /\ acc'.data = acc'.addr
      BY <1>3, <3>1
    <3> QED
      BY <1>1, <1>3, <2>1, <2>2, <3>2
  <2>3. CASE Op(c).op # "read"
    <3>1. acc.write = TRUE
      BY <2>1, <2>3
    <3>2. acc'.write = TRUE /\ acc'.flag = FALSE /\ acc'.data = acc.data
      BY <1>3, <3>1
    <3> QED
      BY <1>1, <1>3, <2>1, <2>3, <3>2
  <2> QED
    BY <2>2, <2>3
<1>7. PhysPage'
  <2> SUFFICES ASSUME Phyar, Calm
               PROVE  /\ \A c \in Actors : ~Idle(c) =>
                            IF polling[c] > 0 /\ Op(c).op = "page" THEN phyPage' = Op(c).page
                            ELSE phyPage' \in PagesAt(c, ip[c])
                      /\ ~(\A c \in Actors : Idle(c))
    BY <1>1, <1>2, <1>4 DEF PhysPage, Calm
  <2>1. PICK e \in Actors : polling[e] # 0
    BY <1>1 DEF AccessInv, PhysPage
  <2>2. polling[e] > 0 /\ ~Idle(e)
    BY <2>1 DEF AccessInv, AccessTypes
  <2>3. Idle(Other(e)) /\ \A c \in Actors : c = e \/ c = Other(e)
    BY <2>2, Others DEF AccessInv, AloneMeans, Calm
  <2>4. /\ Untroubled(e)
        /\ Op(e).op # "page" => phyPage \in PagesAt(e, ip[e])
    BY <1>1, <2>2, Others DEF Calm, Untroubled, AccessInv, PhysPage
  <2>5. /\ acc.write = (Op(e).op # "read")
        /\ Op(e).op = "page" => acc.addr = PageRegister /\ acc.data = Op(e).page
        /\ Op(e).op = "write" => acc.addr # PageRegister
    BY <2>2, <2>4 DEF AccessInv, Pending
  <2>6. Op(e).op \in {"page", "read", "write"}
    BY <2>2, AtOp DEF OpOK, AccessInv
  <2>7. CASE Op(e).op = "page"
    <3>1. phyPage' = Op(e).page
      BY <1>3, <2>5, <2>7
    <3> QED
      BY <2>2, <2>3, <2>7, <3>1
  <2>8. CASE Op(e).op # "page"
    <3>1. phyPage' = phyPage
      BY <1>3, <2>5, <2>6, <2>8
    <3> QED
      BY <2>2, <2>3, <2>4, <2>8, <3>1
  <2> QED
    BY <2>7, <2>8
<1>8. ReadsRight'
  BY <1>1, <1>2, <1>4 DEF AccessInv, ReadsRight
<1>9. WritesHitMeant' /\ WritesOwnContents'
  BY <1>1, <1>2 DEF AccessInv, WritesHitMeant, WritesOwnContents
<1> QED
  BY <1>3, <1>5, <1>6, <1>7, <1>8, <1>9 DEF AccessInv

\* One more poll.
LEMMA PollsOn ==
    ASSUME PhyAssumption, AccessInv, NEW a \in Actors, ~Idle(a), polling[a] > 0,
           polling[a] # WaitCount, polling' = [polling EXCEPT ![a] = @ + 1],
           UNCHANGED <<family, cur_page, phyPage, acc, served, ip, got, history, runs>>
    PROVE  AccessInv'
<1>1. /\ family' = family /\ cur_page' = cur_page /\ phyPage' = phyPage /\ acc' = acc
      /\ served' = served /\ ip' = ip /\ got' = got /\ alone' = alone /\ timely' = timely
      /\ written' = written /\ runs' = runs
  BY DEF history
<1>2. /\ Phyar' = Phyar /\ \A c : Script(c)' = Script(c)
      /\ \A o : Intended(o)' = Intended(o)
      /\ \A c, j : PagesAt(c, j)' = PagesAt(c, j)
  BY <1>1, Stays
<1>3. /\ polling' \in [Actors -> Nat] /\ polling'[a] = polling[a] + 1
      /\ \A c \in Actors : c # a => polling'[c] = polling[c]
      /\ polling[a] \in 0 .. WaitCount
  BY DEF AccessInv, AccessTypes, TypeOK
<1>4. /\ \A c \in Actors : polling'[c] \in 0 .. WaitCount
      /\ \A c \in Actors : polling'[c] > 0 <=> polling[c] > 0
  <2>1. polling[a] + 1 \in 0 .. WaitCount /\ polling[a] + 1 > 0
    BY <1>3 DEF PhyAssumption
  <2> QED
    BY <1>3, <2>1 DEF AccessInv, AccessTypes, TypeOK
<1>5. /\ \A c \in Actors : (Idle(c)' <=> Idle(c)) /\ Op(c)' = Op(c) /\ Passed(c)' = Passed(c)
      /\ \A c \in Actors : Untroubled(c)' <=> Untroubled(c)
  BY <1>1, <1>2 DEF Idle, Op, Untroubled, Passed
<1>6. AccessTypes'
  <2>1. TypeOK'
    BY <1>1, <1>2, <1>4 DEF AccessInv, AccessTypes, TypeOK
  <2> QED
    BY <1>1, <1>2, <1>3, <1>4, <1>5, <2>1 DEF AccessInv, AccessTypes
<1>7. AloneMeans' /\ DriversPage'
  BY <1>1, <1>2, <1>5, Others DEF AccessInv, AloneMeans, DriversPage
<1>8. Pending'
  BY <1>1, <1>2, <1>4, <1>5 DEF AccessInv, Pending
<1>9. PhysPage'
  <2>1. polling'[a] # 0
    BY <1>3
  <2> QED
    BY <1>1, <1>2, <1>4, <1>5, <2>1 DEF AccessInv, PhysPage, Calm
<1>10. ReadsRight'
  BY <1>1, <1>2, <1>5 DEF AccessInv, ReadsRight
<1>11. WritesHitMeant' /\ WritesOwnContents'
  BY <1>1, <1>2 DEF AccessInv, WritesHitMeant, WritesOwnContents
<1> QED
  BY <1>6, <1>7, <1>8, <1>9, <1>10, <1>11 DEF AccessInv

\* What the register holds at the last poll, where nothing went wrong.
LEMMA AnsweredMeans ==
    ASSUME PhyAssumption, AccessInv, NEW a \in Actors, ~Idle(a), polling[a] > 0,
           Untroubled(a), Answered(a)
    PROVE  served /\ (Op(a).op = "read" => acc.data = Intended(Op(a)))
<1>1. /\ acc.write = (Op(a).op # "read")
      /\ acc.flag = IF Op(a).op = "read" THEN served ELSE ~served
      /\ Op(a).op = "read" =>
            acc.addr = Intended(Op(a)) /\ (served => acc.data = acc.addr)
  BY DEF AccessInv, Pending
<1>2. served \in BOOLEAN
  BY DEF AccessInv, AccessTypes, TypeOK
<1>3. CASE Op(a).op = "read"
  <2>1. served
    BY <1>1, <1>2, <1>3 DEF Answered
  <2> QED
    BY <1>1, <1>3, <2>1
<1>4. CASE Op(a).op # "read"
  BY <1>1, <1>2, <1>4 DEF Answered
<1> QED
  BY <1>3, <1>4

\* What a read takes.
LEMMA Takes ==
    ASSUME AccessInv, NEW a \in Actors, Take(a)
    PROVE  /\ DOMAIN got' = Actors /\ \A c \in Actors : c # a => got'[c] = got[c]
           /\ \A c \in Actors : \A r \in DOMAIN got'[c] : got'[c][r] \in Held
           /\ \A r \in DOMAIN got[a] : r \in DOMAIN got'[a]
           /\ Op(a).op = "read" => Intended(Op(a)) \in DOMAIN got'[a]
           /\ \A r \in DOMAIN got'[a] :
                 got'[a][r] = IF Op(a).op = "read" /\ r = Intended(Op(a)) THEN acc.data
                              ELSE got[a][r]
<1>1. /\ DOMAIN got = Actors
      /\ \A c \in Actors : \A r \in DOMAIN got[c] : got[c][r] \in Held
  BY DEF AccessInv, AccessTypes, TypeOK
<1>2. acc.data \in Held
  BY DEF AccessInv, AccessTypes, TypeOK
<1>3. CASE Op(a).op # "read"
  BY <1>1, <1>3 DEF Take
<1>4. CASE Op(a).op = "read"
  <2> DEFINE i == Intended(Op(a))
             new == [r \in DOMAIN got[a] \cup {i} |-> IF r = i THEN acc.data ELSE got[a][r]]
  <2>1. got' = [got EXCEPT ![a] = new]
    BY <1>4 DEF Take
  <2>2. /\ DOMAIN new = DOMAIN got[a] \cup {i}
        /\ \A r \in DOMAIN new : new[r] = IF r = i THEN acc.data ELSE got[a][r]
    OBVIOUS
  <2> HIDE DEF new
  <2>3. /\ DOMAIN got' = Actors /\ got'[a] = new
        /\ \A c \in Actors : c # a => got'[c] = got[c]
    BY <1>1, <2>1
  <2>4. \A r \in DOMAIN new : new[r] \in Held
    BY <1>1, <1>2, <2>2
  <2>5. \A c \in Actors : \A r \in DOMAIN got'[c] : got'[c][r] \in Held
    BY <1>1, <2>3, <2>4
  <2> QED
    BY <1>4, <2>2, <2>3, <2>5
<1> QED
  BY <1>3, <1>4

\* The last poll.
LEMMA PollEnds ==
    ASSUME PhyAssumption, AccessInv, NEW a \in Actors, ~Idle(a), polling[a] > 0,
           polling' = [polling EXCEPT ![a] = 0], Advance(a), Take(a),
           timely' = [timely EXCEPT ![a] = @ /\ Answered(a)],
           UNCHANGED <<family, cur_page, phyPage, acc, served, alone, written, runs>>
    PROVE  AccessInv'
<1> DEFINE b == Other(a)
           o == Op(a)
           r == Intended(o)
<1>1. /\ family' = family /\ cur_page' = cur_page /\ phyPage' = phyPage /\ acc' = acc
      /\ served' = served /\ alone' = alone /\ written' = written /\ runs' = runs
  OBVIOUS
<1>2. /\ Phyar' = Phyar /\ \A c : Script(c)' = Script(c)
      /\ \A p : Intended(p)' = Intended(p)
      /\ \A c, j : PagesAt(c, j)' = PagesAt(c, j)
  BY <1>1, Stays
<1>3. /\ OpOK(a, ip[a]) /\ o = Script(a)[ip[a]] /\ ip[a] \in 1 .. Len(Script(a))
      /\ ip' = [ip EXCEPT ![a] = After(a, ip[a])]
      /\ After(a, ip[a]) \in 0 .. Len(Script(a)) /\ After(a, ip[a]) \in Nat
      /\ ip'[a] = After(a, ip[a]) /\ \A c \in Actors : c # a => ip'[c] = ip[c]
  BY AtOp, Advances DEF AccessInv
<1>4. /\ b \in Actors /\ b # a /\ Other(b) = a /\ \A c \in Actors : c = a \/ c = b
      /\ ip'[b] = ip[b] /\ AccessTypes
  BY <1>3, Others DEF AccessInv
<1>5. /\ polling' \in [Actors -> Nat] /\ polling'[a] = 0 /\ polling'[b] = polling[b]
  BY <1>4 DEF AccessTypes
<1>6. /\ timely' \in [Actors -> BOOLEAN] /\ timely'[b] = timely[b]
      /\ timely'[a] = (timely[a] /\ Answered(a))
  BY <1>4 DEF AccessTypes, TypeOK, Answered
<1>7. /\ DOMAIN got' = Actors /\ got'[b] = got[b]
      /\ \A c \in Actors : \A q \in DOMAIN got'[c] : got'[c][q] \in Held
      /\ \A q \in DOMAIN got[a] : q \in DOMAIN got'[a]
      /\ o.op = "read" => r \in DOMAIN got'[a]
      /\ \A q \in DOMAIN got'[a] :
            got'[a][q] = IF o.op = "read" /\ q = r THEN acc.data ELSE got[a][q]
  BY <1>4, Takes
<1>8. alone[b] => Idle(b) /\ polling[b] = 0
  BY OtherIdle
<1>9. Untroubled(a)' => /\ Untroubled(a) /\ served
                        /\ o.op = "read" => acc.data = r
  <2>1. Untroubled(a)' => Untroubled(a) /\ Answered(a)
    BY <1>1, <1>2, <1>4, <1>6 DEF Untroubled
  <2> QED
    BY <2>1, AnsweredMeans
<1>10. (o.op # "page" => PagesAt(a, ip[a]) \subseteq PagesAt(a, ip'[a]))
       /\ (o.op = "page" => Phyar /\ o.page \in PagesAt(a, ip'[a]))
  <2>1. o.op = "page" => Phyar
    BY DEF AccessInv, AccessTypes
  <2> QED
    BY <1>3, <2>1 DEF OpOK
<1> HIDE DEF b, o, r
<1>11. AccessTypes'
  <2>1. ip' \in [Actors -> Nat] /\ \A c \in Actors : ip'[c] \in 0 .. Len(Script(c))
    BY <1>3, <1>4 DEF AccessTypes, TypeOK
  <2>2. \A c \in Actors : polling'[c] \in 0 .. WaitCount
    BY <1>4, <1>5 DEF AccessTypes, TypeOK, PhyAssumption
  <2>3. TypeOK'
    BY <1>1, <1>2, <1>4, <1>6, <1>7, <2>1, <2>2 DEF AccessTypes, TypeOK
  <2>4. polling'[b] > 0 => ~Idle(b)' /\ (Op(b)'.op = "page" => Phyar)
    <3>1. Op(b)' = Op(b) /\ (Idle(b)' <=> Idle(b))
      BY <1>2, <1>4 DEF Op, Idle
    <3> QED
      BY <1>4, <1>5, <3>1 DEF AccessTypes
  <2>5. runs[a] > 0 /\ (~Idle(b)' => runs[b] > 0)
    BY <1>4 DEF AccessTypes, Idle
  <2>6. \A c \in Actors : /\ ~Idle(c)' => runs'[c] > 0
                          /\ polling'[c] > 0 => ~Idle(c)' /\ (Op(c)'.op = "page" => Phyar)
    BY <1>1, <1>4, <1>5, <2>4, <2>5
  <2> QED
    BY <1>1, <1>2, <1>4, <1>5, <1>7, <2>1, <2>3, <2>6 DEF AccessTypes
<1>12. AloneMeans'
  BY <1>1, <1>2, <1>4, AloneStays DEF b
<1>13. DriversPage'
  <2>1. CASE a = "start"
    BY <1>1, <1>2, <1>10, <2>1 DEF AccessInv, DriversPage
  <2>2. CASE a = "dpc"
    BY <1>1, <1>2, <1>3, <2>2 DEF AccessInv, DriversPage, Actors
  <2> QED
    BY <2>1, <2>2 DEF Actors
<1>14. Pending'
  <2> SUFFICES ASSUME NEW c \in Actors, Untroubled(c)', polling'[c] > 0 PROVE FALSE
    BY DEF Pending
  <2>1. c = b
    BY <1>4, <1>5
  <2> QED
    BY <1>1, <1>5, <1>8, <2>1 DEF Untroubled
<1>15. PhysPage'
  <2> SUFFICES ASSUME Phyar, Calm'
               PROVE  /\ \A c \in Actors : ~Idle(c)' =>
                            polling'[c] = 0 /\ phyPage \in PagesAt(c, ip'[c])
                      /\ (\A c \in Actors : Idle(c)') => phyPage = 0
                      /\ served
    BY <1>1, <1>2 DEF PhysPage
  <2>1. alone[b] /\ Untroubled(a)' /\ timely[b]
    <3>1. /\ \A c \in Actors : alone[c] /\ timely'[c]
          /\ Untroubled(a)' <=> alone[a] /\ timely'[a] /\ (Phyar => timely'[b])
      BY <1>1, <1>2 DEF Calm, Untroubled, b
    <3> QED
      BY <1>4, <1>6, <3>1
  <2>2. Untroubled(a) /\ served /\ Idle(b) /\ Calm
    BY <1>4, <1>8, <1>9, <2>1 DEF Calm, Untroubled
  <2>3. phyPage \in PagesAt(a, ip'[a])
    BY <1>10, <2>2 DEF AccessInv, PhysPage, o
  <2>4. Idle(b)'
    BY <1>4, <2>2 DEF Idle
  <2>5. Idle(a)' => phyPage = 0
    BY <2>3, FirstPages DEF Idle
  <2> QED
    BY <1>4, <1>5, <2>2, <2>3, <2>4, <2>5
<1>16. ReadsRight'
  <2> SUFFICES ASSUME NEW c \in Actors, Untroubled(c)', runs[c] > 0,
                      NEW j \in 1 .. Passed(c)', Script(c)[j].op = "read"
               PROVE  LET q == Intended(Script(c)[j])
                      IN  q \in DOMAIN got'[c] /\ got'[c][q] = q
    BY <1>1, <1>2 DEF ReadsRight
  <2>1. CASE c = b
    BY <1>1, <1>4, <1>6, <1>7, <2>1, OthersReads DEF b
  <2>2. CASE c = a
    <3> DEFINE q == Intended(Script(a)[j])
    <3>1. Passed(a)' = ip[a] /\ Passed(a) = ip[a] - 1
      BY <1>2, <1>4, PassedNext
    <3>2. Untroubled(a) /\ served /\ (o.op = "read" => acc.data = r)
      BY <1>9, <2>2
    <3>3. CASE j = ip[a]
      <4>1. o.op = "read" /\ q = r
        BY <1>3, <2>2, <3>3 DEF r
      <4> QED
        BY <1>7, <2>2, <3>2, <4>1
    <3>4. CASE j # ip[a]
      <4>1. j \in 1 .. Passed(a)
        BY <1>3, <2>2, <3>1, <3>4
      <4>2. q \in DOMAIN got[a] /\ got[a][q] = q
        BY <2>2, <3>2, <4>1 DEF AccessInv, ReadsRight
      <4> QED
        BY <1>7, <2>2, <3>2, <4>2
    <3> QED
      BY <3>3, <3>4
  <2> QED
    BY <1>4, <2>1, <2>2
<1>17. WritesHitMeant' /\ WritesOwnContents'
  BY <1>1, <1>2 DEF AccessInv, WritesHitMeant, WritesOwnContents
<1> QED
  BY <1>11, <1>12, <1>13, <1>14, <1>15, <1>16, <1>17 DEF AccessInv

LEMMA PollKeeps ==
    ASSUME PhyAssumption, AccessInv, NEW a \in Actors, Poll(a)
    PROVE  AccessInv'
<1>1. CASE Answered(a) \/ polling[a] = WaitCount
  BY <1>1, PollEnds DEF Poll
<1>2. CASE ~(Answered(a) \/ polling[a] = WaitCount)
  BY <1>2, PollsOn DEF Poll, history
<1> QED
  BY <1>1, <1>2

LEMMA AccessBegins == ASSUME PhyAssumption, Init PROVE AccessInv
<1>1. /\ family \in Families /\ cur_page = 0 /\ phyPage = 0
      /\ acc = [addr |-> 0, data |-> 0, flag |-> FALSE, write |-> FALSE] /\ served = TRUE
      /\ written = NoWrite
      /\ \A a \in Actors : /\ ip[a] = 0 /\ polling[a] = 0 /\ got[a] = << >>
                           /\ alone[a] = TRUE /\ timely[a] = TRUE /\ runs[a] = 0
      /\ DOMAIN got = Actors /\ ip \in [Actors -> Nat] /\ polling \in [Actors -> Nat]
      /\ alone \in [Actors -> BOOLEAN] /\ timely \in [Actors -> BOOLEAN]
      /\ runs \in [Actors -> 0 .. MaxRuns]
  BY DEF Init, PhyAssumption
<1>2. 0 \in 0 .. UshortMax /\ 0 \in Held
  BY WordRange DEF Held
<1>3. acc \in [addr : 0 .. UshortMax, data : Held, flag : BOOLEAN, write : BOOLEAN]
  BY <1>1, <1>2
<1>4. \A a \in Actors : Idle(a) /\ DOMAIN got[a] = {}
  BY <1>1 DEF Idle
<1>5. \A a \in Actors : ip[a] \in 0 .. Len(Script(a)) /\ polling[a] \in 0 .. WaitCount
  <2>1. \A a \in Actors : Len(Script(a)) \in Nat
    BY <1>1, ScriptsOK DEF ScriptOK
  <2> QED
    BY <1>1, <2>1 DEF PhyAssumption
<1>6. AccessTypes
  <2>1. TypeOK
    BY <1>1, <1>3, <1>4, <1>5 DEF TypeOK
  <2>2. acc.write = FALSE
    BY <1>1
  <2> QED
    BY <1>1, <1>3, <1>4, <2>1, <2>2 DEF AccessTypes
<1>7. AloneMeans /\ Pending /\ PhysPage
  <2>1. AloneMeans
    BY <1>1, <1>4, Others DEF AloneMeans
  <2>2. Pending
    BY <1>1 DEF Pending
  <2>3. PhysPage
    BY <1>1, <1>4 DEF PhysPage
  <2> QED
    BY <2>1, <2>2, <2>3
<1>8. DriversPage
  BY <1>1, FirstPages, Others DEF DriversPage
<1>9. ReadsRight
  BY <1>1 DEF ReadsRight
<1>10. WritesHitMeant /\ WritesOwnContents
  BY <1>1 DEF WritesHitMeant, WritesOwnContents, NoWrite
<1> QED
  BY <1>6, <1>7, <1>8, <1>9, <1>10 DEF AccessInv

LEMMA AccessStays ==
    ASSUME PhyAssumption, AccessInv, UNCHANGED vars
    PROVE  AccessInv'
<1>1. /\ family' = family /\ cur_page' = cur_page /\ phyPage' = phyPage /\ acc' = acc
      /\ served' = served /\ ip' = ip /\ got' = got /\ alone' = alone /\ timely' = timely
      /\ written' = written /\ runs' = runs /\ polling' = polling
  BY DEF history, vars
<1>2. /\ Phyar' = Phyar /\ \A c : Script(c)' = Script(c)
      /\ \A o : Intended(o)' = Intended(o)
      /\ \A c, j : PagesAt(c, j)' = PagesAt(c, j)
  BY <1>1, Stays
<1>3. /\ \A c \in Actors : (Idle(c)' <=> Idle(c)) /\ Op(c)' = Op(c) /\ Passed(c)' = Passed(c)
      /\ \A c \in Actors : Untroubled(c)' <=> Untroubled(c)
  BY <1>1, <1>2 DEF Idle, Op, Untroubled, Passed
<1>4. AccessTypes'
  <2>1. TypeOK'
    BY <1>1, <1>2 DEF AccessInv, AccessTypes, TypeOK
  <2> QED
    BY <1>1, <1>2, <1>3, <2>1 DEF AccessInv, AccessTypes
<1>5. AloneMeans' /\ DriversPage'
  BY <1>1, <1>2, <1>3, Others DEF AccessInv, AloneMeans, DriversPage
<1>6. Pending'
  BY <1>1, <1>2, <1>3 DEF AccessInv, Pending
<1>7. PhysPage'
  BY <1>1, <1>2, <1>3 DEF AccessInv, PhysPage, Calm
<1>8. ReadsRight'
  BY <1>1, <1>2, <1>3 DEF AccessInv, ReadsRight
<1>9. WritesHitMeant' /\ WritesOwnContents'
  BY <1>1, <1>2 DEF AccessInv, WritesHitMeant, WritesOwnContents
<1> QED
  BY <1>4, <1>5, <1>6, <1>7, <1>8, <1>9 DEF AccessInv

\* The DPC reads ANER and BMSR on every chip.
LEMMA DpcReads ==
    ASSUME PhyAssumption, family \in Families, NEW r \in {ANER, BMSR}
    PROVE  \E j \in 1 .. Len(Script("dpc")) :
              Script("dpc")[j].op = "read" /\ Intended(Script("dpc")[j]) = Meant(0, r)
<1>1. r \in MiiRegisters
  BY DEF MiiRegisters
<1>2. Read(0, r).op = "read" /\ Intended(Read(0, r)) = Meant(0, r)
  BY <1>1, ReadReaches
<1>3. \E j \in 1 .. Len(Script("dpc")) : Script("dpc")[j] = Read(0, r)
  <2>1. CASE family \in {"8168d", "8168g"}
    <3>1. /\ Script("dpc")[5] = Read(0, ANER) /\ Script("dpc")[6] = Read(0, BMSR)
          /\ Len(Script("dpc")) = 6
      BY <2>1, Dpc8168d, Dpc8168g
    <3>2. 5 \in 1 .. Len(Script("dpc")) /\ 6 \in 1 .. Len(Script("dpc"))
      BY <3>1
    <3> QED
      BY <3>1, <3>2
  <2>2. CASE family \in {"8168h", "8125"}
    <3>1. /\ Script("dpc")[2] = Read(0, ANER) /\ Script("dpc")[3] = Read(0, BMSR)
          /\ Len(Script("dpc")) = 3
      BY <2>2, DpcOthers
    <3>2. 2 \in 1 .. Len(Script("dpc")) /\ 3 \in 1 .. Len(Script("dpc"))
      BY <3>1
    <3> QED
      BY <3>1, <3>2
  <2> QED
    BY <2>1, <2>2 DEF PhyAssumption
<1> QED
  BY <1>2, <1>3

LEMMA AutonegFollows ==
    ASSUME PhyAssumption, AccessInv
    PROVE  AutonegReadsOwn
<1> SUFFICES ASSUME Idle("dpc"), runs["dpc"] > 0, Untroubled("dpc"),
                    NEW r \in {ANER, BMSR}
             PROVE  got["dpc"][Meant(0, r)] = Meant(0, r)
  BY DEF AutonegReadsOwn
<1>1. PICK j \in 1 .. Len(Script("dpc")) :
         Script("dpc")[j].op = "read" /\ Intended(Script("dpc")[j]) = Meant(0, r)
  BY DpcReads DEF AccessInv, AccessTypes, TypeOK
<1>2. Passed("dpc") = Len(Script("dpc"))
  BY DEF Passed
<1> QED
  BY <1>1, <1>2, Others DEF AccessInv, ReadsRight

LEMMA NextAccess ==
    ASSUME PhyAssumption
    PROVE  AccessInv /\ [Next]_vars => AccessInv'
<1> SUFFICES ASSUME AccessInv, [Next]_vars PROVE AccessInv'
  OBVIOUS
<1>1. CASE UNCHANGED vars
  BY <1>1, AccessStays
<1>2. CASE Next
  BY <1>2, PhyKeeps, BeginKeeps, SetPageKeeps, TellPageKeeps, CommandKeeps, PollKeeps
     DEF Next
<1> QED
  BY <1>1, <1>2

LEMMA AccessInvMeans ==
    ASSUME PhyAssumption, AccessInv
    PROVE  TypeOK /\ WritesHitMeant /\ WritesOwnContents /\ AutonegReadsOwn
BY AutonegFollows DEF AccessInv, AccessTypes
==============================================================================
