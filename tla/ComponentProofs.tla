--------------------------- MODULE ComponentProofs ---------------------------
(* What holds of the components of Components, for every value of their          *)
(* constants: of each an invariant, and that a step of the whole is one of it or *)
(* leaves it alone.                                                              *)
EXTENDS Components, Integers, FiniteSets, TLAPS

-----------------------------------------------------------------------------

USE DEF ComponentsAssumption

LEMMA InitOfEach ==
    Init => /\ Patch!Init /\ Report!Init /\ Filter!Init /\ Settings!Init /\ Medium!Init
            /\ Access!Init /\ Window!Init
BY DEF Init

\* A step of one component leaves the others as they are.
LEMMA StepOfEach ==
    ASSUME [Next]_vars
    PROVE  /\ [Patch!Next]_(Patch!vars)
           /\ [Report!Next]_(Report!vars) /\ [Filter!Next]_(Filter!vars)
           /\ [Settings!Next]_(Settings!vars) /\ [Medium!Next]_(Medium!vars)
           /\ [Access!Next]_(Access!vars) /\ [Window!Next]_(Window!vars)
<1> DEFINE
        PatchSame == UNCHANGED patchVars
        ReportSame == UNCHANGED reportVars
        FilterSame == UNCHANGED filterVars
        SettingsSame == UNCHANGED settingsVars
        MediumSame == UNCHANGED mediumVars
        AccessSame == UNCHANGED accessVars
        WindowSame == UNCHANGED windowVars
<1>1. /\ PatchSame => UNCHANGED Patch!vars
      /\ ReportSame => UNCHANGED Report!vars
      /\ FilterSame => UNCHANGED Filter!vars
      /\ SettingsSame => UNCHANGED Settings!vars
      /\ MediumSame => UNCHANGED Medium!vars
      /\ AccessSame => UNCHANGED Access!vars
      /\ WindowSame => UNCHANGED Window!vars
  BY DEF patchVars, reportVars, filterVars, settingsVars, mediumVars, accessVars,
     windowVars, Patch!vars, Patch!phy,
     Report!vars, Report!chip, Report!dpc, Report!history, Report!bounds,
     Filter!vars, Filter!adapter, Filter!locals, Filter!history,
     Settings!vars, Settings!adapter, Medium!vars, Medium!regs, Medium!link,
     Access!vars, Access!history, Window!vars, Window!locals, Window!history
<1>2. CASE UNCHANGED vars
  BY <1>1, <1>2 DEF vars, stackVars, frameVars, registerVars
<1>3. CASE HashStep \/ TxStep \/ RxStep \/ RomStep
  BY <1>1, <1>3 DEF HashStep, TxStep, RxStep, RomStep, stackVars, frameVars,
     registerVars
<1>4. CASE ReportStep \/ FilterStep
  BY <1>1, <1>4 DEF ReportStep, FilterStep, frameVars, registerVars
<1>5. CASE SettingsStep \/ MediumStep
  BY <1>1, <1>5 DEF SettingsStep, MediumStep, stackVars, registerVars
<1>6. CASE AccessStep \/ WindowStep
  BY <1>1, <1>6 DEF AccessStep, WindowStep, stackVars, frameVars
<1>7. CASE PatchStep
  BY <1>1, <1>7 DEF PatchStep, frameVars, registerVars
<1> QED
  BY <1>2, <1>3, <1>4, <1>5, <1>6, <1>7 DEF Next

-----------------------------------------------------------------------------
(* The report of the link: one processor at a time looks at it, and what it has  *)
(* found is so unless something is left that makes one look again.               *)

\* Nothing makes a processor look at the link that does not do so yet.
Quiet == ~linkchg /\ ~flag /\ ~missed /\ ~crossed

Alone == ~crossed => \A c, d \in Cpus : Report!Checking(c) /\ Report!Checking(d) => c = d

\* What a processor has found holds if the link did not change since ...
FreshFound ==
    \A c \in Cpus : dpcPc[c] = "stop" /\ ~moved[c] => up[c] = (link # Report!Down)

\* ... or if nothing is left that would make one look again.
QuietFound ==
    Quiet => \A c \in Cpus : dpcPc[c] \in {"stop", "start", "read", "report"} =>
                 /\ up[c] = (link # Report!Down)
                 /\ dpcPc[c] = "report" /\ up[c] => speed[c] = link

QuietTold ==
    Quiet /\ (\A c \in Cpus : ~Report!Checking(c)) => reported = Report!Actual

LinkInv == /\ Report!TypeOK /\ Report!FlagHasCheck
           /\ Alone /\ FreshFound /\ QuietFound /\ QuietTold

LEMMA InitLink == ASSUME Report!LinkAssumption PROVE Report!Init => LinkInv
<1> SUFFICES ASSUME Report!Init PROVE LinkInv
  OBVIOUS
<1>1. Report!TypeOK
  <2>1. \A c \in Cpus : c # "nobody"
    BY DEF Report!LinkAssumption
  <2>2. changes \in 0 .. MaxChanges /\ starts \in 0 .. MaxStarts
    BY DEF Report!LinkAssumption, Report!Init
  <2>3. lock = "nobody" /\ start = "idle" /\ dpcPc = [c \in Cpus |-> "idle"]
    BY DEF Report!Init, Report!Nobody
  <2>4. \A c \in Cpus : lock = c <=> dpcPc[c] = "start"
    BY <2>1, <2>3
  <2> QED
    BY <2>2, <2>3, <2>4 DEF Report!Init, Report!TypeOK, Report!PcOK, Report!Starter,
       Report!Disconnected, Report!Down
<1>2. Report!FlagHasCheck /\ Alone /\ FreshFound /\ QuietFound
  BY DEF Report!Init, Report!FlagHasCheck, Alone, FreshFound, QuietFound, Report!Checking
<1>3. QuietTold
  BY DEF Report!Init, QuietTold, Quiet, Report!Actual, Report!Disconnected, Report!Down
<1> QED
  BY <1>1, <1>2, <1>3 DEF LinkInv

\* Types, and who holds the lock.
LEMMA NextLinkType ==
    ASSUME Report!LinkAssumption, Report!TypeOK, [Report!Next]_(Report!vars)
    PROVE  Report!TypeOK'
<1> USE DEF Report!TypeOK, Report!PcOK, Report!Nobody, Report!Starter, Report!Down,
        Report!LinkAssumption
<1>1. CASE Report!LinkChange
  BY <1>1 DEF Report!LinkChange, Report!dpc
<1>2. CASE Report!Isr \/ Report!IsrError
  BY <1>2 DEF Report!Isr, Report!IsrError, Report!bounds
<1>3. ASSUME NEW c \in Cpus, Report!DpcStep(c) PROVE Report!TypeOK'
  <2>1. CASE Report!DpcBegin(c)
    BY <2>1 DEF Report!DpcBegin, Report!chip, Report!bounds
  <2>2. CASE Report!Check(c)
    BY <2>2 DEF Report!Check, Report!chip, Report!bounds
  <2>3. CASE Report!ResetStop(c)
    BY <2>3 DEF Report!ResetStop, Report!bounds
  <2>4. CASE Report!ResetStart(c)
    BY <2>4 DEF Report!ResetStart, Report!bounds, Report!history
  <2>5. CASE Report!ReadSpeed(c)
    BY <2>5 DEF Report!ReadSpeed, Report!chip, Report!bounds, Report!history
  <2>6. CASE Report!Report(c)
    BY <2>6 DEF Report!Report, Report!chip, Report!bounds, Report!history,
                Report!Disconnected
  <2>7. CASE Report!OpenMask(c)
    BY <2>7 DEF Report!OpenMask, Report!bounds, Report!history
  <2> QED
    BY <1>3, <2>1, <2>2, <2>3, <2>4, <2>5, <2>6, <2>7 DEF Report!DpcStep
<1>4. CASE Report!StartStop
  <2>1. lock = "nobody" /\ lock' = "starter" /\ start' = "start" /\ dpcPc' = dpcPc
    BY <1>4 DEF Report!StartStop, Report!dpc
  <2>2. \A c \in Cpus : lock' = c <=> dpcPc'[c] = "start"
    BY <2>1
  <2>3. starts' \in 0 .. MaxStarts
    BY <1>4 DEF Report!StartStop
  <2> QED
    BY <1>4, <2>1, <2>2, <2>3 DEF Report!StartStop, Report!dpc
<1>5. CASE Report!StartStart
  BY <1>5 DEF Report!StartStart, Report!dpc, Report!bounds, Report!history
<1>6. CASE Report!Renegotiate
  BY <1>6 DEF Report!Renegotiate, Report!dpc, Report!bounds
<1>7. CASE UNCHANGED Report!vars
  BY <1>7 DEF Report!vars, Report!chip, Report!dpc, Report!bounds, Report!history
<1> QED
  BY <1>1, <1>2, <1>3, <1>4, <1>5, <1>6, <1>7 DEF Report!Next
\* What a processor does between taking the flag and reporting.
LEMMA LinkStep ==
    ASSUME LinkInv, NEW c \in Cpus, Report!DpcStep(c)
    PROVE  /\ Report!FlagHasCheck' /\ Alone' /\ FreshFound' /\ QuietFound' /\ QuietTold'
<1> USE DEF LinkInv, Report!FlagHasCheck, Alone, FreshFound, QuietFound, QuietTold, Quiet,
        Report!Checking, Report!TypeOK, Report!Actual, Report!Down
<1>1. CASE Report!DpcBegin(c)
  <2>1. CASE flag
    BY <1>1, <2>1 DEF Report!DpcBegin, Report!chip
  <2>2. CASE ~flag
    BY <1>1, <2>2 DEF Report!DpcBegin, Report!chip
  <2> QED
    BY <2>1, <2>2
<1>2. CASE Report!Check(c)
  BY <1>2 DEF Report!Check, Report!chip
<1>3. CASE Report!ResetStop(c)
  <2>1. Report!FlagHasCheck' /\ Alone' /\ FreshFound'
    BY <1>3 DEF Report!ResetStop
  <2>2. QuietFound'
    BY <1>3 DEF Report!ResetStop
  <2>3. QuietTold'
    BY <1>3 DEF Report!ResetStop
  <2> QED
    BY <2>1, <2>2, <2>3
<1>4. CASE Report!ResetStart(c)
  BY <1>4 DEF Report!ResetStart, Report!history
<1>5. CASE Report!ReadSpeed(c)
  BY <1>5 DEF Report!ReadSpeed, Report!chip, Report!history
<1>6. CASE Report!Report(c)
  <2>1. Report!FlagHasCheck' /\ Alone' /\ FreshFound' /\ QuietFound'
    BY <1>6 DEF Report!Report, Report!chip, Report!history
  <2>2. QuietTold'
    BY <1>6 DEF Report!Report, Report!chip, Report!history, Report!Disconnected
  <2> QED
    BY <2>1, <2>2
<1>7. CASE Report!OpenMask(c)
  BY <1>7 DEF Report!OpenMask, Report!history
<1> QED
  BY <1>1, <1>2, <1>3, <1>4, <1>5, <1>6, <1>7 DEF Report!DpcStep

LEMMA NextLink ==
    ASSUME Report!LinkAssumption
    PROVE  LinkInv /\ [Report!Next]_(Report!vars) => LinkInv'
<1> SUFFICES ASSUME LinkInv, [Report!Next]_(Report!vars) PROVE LinkInv'
  OBVIOUS
<1>1. Report!TypeOK'
  BY NextLinkType DEF LinkInv
<1>2. CASE \E c \in Cpus : Report!DpcStep(c)
  BY <1>1, <1>2, LinkStep DEF LinkInv
<1> DEFINE Rest == Report!FlagHasCheck /\ Alone /\ FreshFound /\ QuietFound /\ QuietTold
<1>3. Rest
  BY DEF LinkInv
<1>4. CASE Report!LinkChange \/ Report!Isr \/ Report!IsrError
  <2>1. /\ UNCHANGED <<dpcPc, up, speed, reported, crossed>>
        /\ linkchg' \/ flag' \/ missed'
        /\ flag' => queued'
        /\ UNCHANGED <<link, moved>> \/ \A c \in Cpus : moved'[c]
    <3>1. CASE Report!LinkChange
      BY <1>3, <3>1 DEF Report!LinkChange, Report!FlagHasCheck, Report!dpc
    <3>2. CASE Report!Isr
      BY <1>3, <3>2 DEF Report!Isr, Report!FlagHasCheck, LinkInv, Report!TypeOK
    <3>3. CASE Report!IsrError
      BY <3>3 DEF Report!IsrError
    <3> QED
      BY <1>4, <3>1, <3>2, <3>3
  <2> QED
    BY <1>1, <1>3, <2>1 DEF LinkInv, Report!FlagHasCheck, Alone, FreshFound, QuietFound,
       QuietTold, Quiet, Report!Checking
<1>5. CASE Report!StartStop \/ Report!StartStart
  <2>1. /\ UNCHANGED <<link, moved, dpcPc, up, speed, reported, crossed, flag, queued>>
        /\ ~missed' => ~missed /\ linkchg' = linkchg
    BY <1>5 DEF Report!StartStop, Report!StartStart, Report!dpc, Report!history,
                LinkInv, Report!TypeOK
  <2> QED
    BY <1>1, <1>3, <2>1 DEF LinkInv, Report!FlagHasCheck, Alone, FreshFound, QuietFound,
       QuietTold, Quiet, Report!Checking, Report!Actual
<1>6. CASE Report!Renegotiate
  <2>1. /\ UNCHANGED <<dpcPc, up, speed, reported, crossed, flag, queued, missed>>
        /\ linkchg' \/ (link' = link /\ linkchg' = linkchg)
        /\ \A c \in Cpus : moved'[c]
    BY <1>6 DEF Report!Renegotiate, Report!dpc, LinkInv, Report!TypeOK
  <2> QED
    BY <1>1, <1>3, <2>1 DEF LinkInv, Report!FlagHasCheck, Alone, FreshFound, QuietFound,
       QuietTold, Quiet, Report!Checking, Report!Actual
<1>7. CASE UNCHANGED Report!vars
  BY <1>1, <1>3, <1>7 DEF LinkInv, Report!FlagHasCheck, Alone, FreshFound, QuietFound,
     QuietTold, Quiet, Report!Checking, Report!Actual, Report!vars, Report!chip, Report!dpc,
     Report!history
<1> QED
  BY <1>2, <1>4, <1>5, <1>6, <1>7 DEF Report!Next

\* SettledIsActual, with the types and FlagHasCheck it rests on: whatever the processors,
\* the link and RtlFirstStart do, a driver with nothing left to look at has reported the
\* link there is, unless it let a change go by or reported from two processors at once.
THEOREM SettledLinkReported == Spec => []SettledIsActual
<1>1. LinkInv => SettledIsActual
  BY DEF SettledIsActual, LinkInv, QuietTold, Quiet, Report!SettledIsActual, Report!Settled
<1>2. Init => LinkInv
  BY InitLink, InitOfEach, ComponentsAssumption
<1>3. LinkInv /\ [Next]_vars => LinkInv'
  BY NextLink, StepOfEach, ComponentsAssumption
<1> QED
  BY <1>1, <1>2, <1>3, PTL DEF Spec
-----------------------------------------------------------------------------
(* The receive filter: what a processor that programs it holds is what was asked *)
(* for last if nobody else was at it, and what was asked for lately otherwise.   *)

Programming == {"cfg", "hash", "mar0", "mar4"}

FilterTypes == /\ Filter!TypeOK
               /\ mar \in [{0, 4} -> SUBSET Filter!MarBits]
               /\ alone \in [Filter!Actors -> BOOLEAN] /\ settled \in BOOLEAN
               /\ recent \subseteq Filters \cup {Filter!Nothing} /\ want \in recent

\* What the adapter structure has of the filter asked for, as far as it was stored.
Stored ==
    /\ PacketFilterFlags = want.flags
    /\ pc["request"] # "count" => MCAddressCount = Len(want.list)
    /\ pc["request"] = "copy" => \A n \in 1..MaxList : MCList[n] = Zero
    /\ pc["request"] \notin {"count", "zero", "copy"} =>
         \A n \in 1..MaxList : MCList[n] = IF n <= Len(want.list) THEN want.list[n] ELSE Zero

AllIdle == settled => \A a \in Filter!Actors : pc[a] = "idle"

\* One that nobody disturbed has got this far with the filter asked for.
Undisturbed(a) ==
    alone[a] /\ pc[a] # "idle" =>
      /\ pc[Filter!Other(a)] = "idle"
      /\ pc[a] \in Programming => flags[a] = want.flags
      /\ pc[a] \in Programming \ {"cfg"} => rxcfg = Filter!Accept(want.flags)
      /\ pc[a] = "hash" =>
           /\ ~Filter!AllNodes(want.flags) /\ i[a] <= MCAddressCount + 1
           /\ mask[a] = {MulticastBit[MCList[n]] : n \in 1 .. i[a] - 1}
      /\ pc[a] \in {"mar0", "mar4"} => mask[a] = Filter!MarOf(want)
      /\ pc[a] = "mar4" => mar[0] = Filter!MarOf(want) \cap Filter!Word(0)

\* The bits of the filters of late, and of six zeroes.
Places == (UNION {Filter!MarOf(f) : f \in recent}) \cup {MulticastBit[Zero]}

ListRecent ==
    \A n \in 1..MaxList :
        MCList[n] = Zero \/ \E f \in recent : \E m \in 1 .. Len(f.list) : MCList[n] = f.list[m]

\* Others hold something of the filters of late.
HoldsRecent(a) ==
    /\ pc[a] \in Programming => \E f \in recent : flags[a] = f.flags
    /\ pc[a] \in Programming \ {"cfg"} => mask[a] \subseteq Places

FilterInv ==
    /\ FilterTypes /\ Stored /\ AllIdle /\ ListRecent
    /\ \A a \in Filter!Actors : Undisturbed(a) /\ HoldsRecent(a)
    /\ Filter!FilterSettled /\ Filter!AcceptsOnlyRecent

LEMMA TwoActors ==
    /\ Filter!Actors = {"request", "reset"}
    /\ Filter!Other("request") = "reset" /\ Filter!Other("reset") = "request"
BY DEF Filter!Actors, Filter!Other

\* What a filter of the instance is.
LEMMA FilterIs ==
    ASSUME Filter!FilterAssumption, NEW f \in Filters \cup {Filter!Nothing}
    PROVE  /\ f.flags \subseteq Filter!PacketFilters /\ f.list \in Seq(Address)
           /\ Len(f.list) \in 0 .. MaxList /\ DOMAIN f.list = 1 .. Len(f.list)
           /\ \A n \in 1 .. Len(f.list) : f.list[n] \in Address
<1>1. /\ f.flags \subseteq Filter!PacketFilters /\ f.list \in Seq(Address)
      /\ Len(f.list) <= MaxList /\ MaxList \in Nat
  <2>1. CASE f \in Filters
    BY <2>1 DEF Filter!FilterAssumption
  <2>2. CASE f = Filter!Nothing
    <3>1. f.flags = {} /\ f.list = << >>
      BY <2>2 DEF Filter!Nothing
    <3>2. << >> \in Seq(Address) /\ Len(<< >>) = 0
      OBVIOUS
    <3> QED
      BY <3>1, <3>2 DEF Filter!FilterAssumption
  <2> QED
    BY <2>1, <2>2
<1> DEFINE l == f.list
<1>2. l \in Seq(Address) /\ Len(l) <= MaxList /\ MaxList \in Nat
  BY <1>1
<1> HIDE DEF l
<1>3. /\ Len(l) \in 0 .. MaxList /\ DOMAIN l = 1 .. Len(l)
      /\ \A n \in 1 .. Len(l) : l[n] \in Address
  BY <1>2
<1> QED
  BY <1>1, <1>3 DEF l

\* The accept bits, and the places of a filter's addresses.
LEMMA AcceptIs ==
    \A f : Filter!Accept(f) \subseteq {"allphys", "indiv", "multi", "broad", "runt", "errpkt"}
BY DEF Filter!Accept

LEMMA BitIs ==
    ASSUME Filter!FilterAssumption
    PROVE  /\ \A x \in Address \cup {Zero} : MulticastBit[x] \in Filter!MarBits
           /\ \A f \in Filters \cup {Filter!Nothing} :
                /\ Filter!MarOf(f) \subseteq Filter!MarBits
                /\ \A n \in 1 .. Len(f.list) : MulticastBit[f.list[n]] \in Filter!MarOf(f)
<1>1. \A x \in Address \cup {Zero} : MulticastBit[x] \in Filter!MarBits
  BY DEF Filter!FilterAssumption
<1>2. ASSUME NEW f \in Filters \cup {Filter!Nothing}
      PROVE  /\ Filter!MarOf(f) \subseteq Filter!MarBits
             /\ \A n \in 1 .. Len(f.list) : MulticastBit[f.list[n]] \in Filter!MarOf(f)
  BY <1>1, FilterIs DEF Filter!MarOf
<1> QED
  BY <1>1, <1>2

\* The two registers have all the bits.
LEMMA BothWords ==
    /\ Filter!Word(0) \cup Filter!Word(4) = Filter!MarBits
    /\ Filter!Word(0) \subseteq Filter!MarBits /\ Filter!Word(4) \subseteq Filter!MarBits
BY DEF Filter!Word, Filter!MarBits

LEMMA InitFilter == ASSUME Filter!FilterAssumption PROVE Filter!Init => FilterInv
<1> SUFFICES ASSUME Filter!Init PROVE FilterInv
  OBVIOUS
<1>1. /\ want = [flags |-> {}, list |-> << >>] /\ Filter!Nothing = want
      /\ Len(want.list) = 0 /\ want.flags = {}
  BY DEF Filter!Init, Filter!Nothing
<1>2. Filter!TypeOK
  <2>1. MaxList \in Nat /\ 0 \in 0 .. MaxList /\ 1 \in 1 .. MaxList + 1 /\ 0 \in 0 .. MaxRequests
    BY DEF Filter!FilterAssumption
  <2> QED
    BY <1>1, <2>1, TwoActors DEF Filter!Init, Filter!TypeOK, Filter!Pcs, Filter!Word
<1>3. FilterTypes
  BY <1>1, <1>2, TwoActors DEF FilterTypes, Filter!Init
<1>4. Stored
  <2>1. \A n \in 1 .. MaxList : ~(n <= 0)
    BY DEF Filter!FilterAssumption
  <2> QED
    BY <1>1, <2>1, TwoActors DEF Stored, Filter!Init
<1>5. AllIdle /\ ListRecent
  BY DEF AllIdle, ListRecent, Filter!Init
<1>6. \A a \in Filter!Actors : Undisturbed(a) /\ HoldsRecent(a)
  BY DEF Undisturbed, HoldsRecent, Programming, Filter!Init
<1>7. Filter!FilterSettled /\ Filter!AcceptsOnlyRecent
  <2>1. Filter!Accept({}) = {}
    BY DEF Filter!Accept
  <2>2. Filter!MarOf(want) = {}
    BY <1>1 DEF Filter!MarOf, Filter!AllNodes
  <2>3. rxcfg = {} /\ mar[0] = {} /\ mar[4] = {}
    BY DEF Filter!Init
  <2> QED
    BY <1>1, <2>1, <2>2, <2>3 DEF Filter!FilterSettled, Filter!AcceptsOnlyRecent
<1> QED
  BY <1>3, <1>4, <1>5, <1>6, <1>7 DEF FilterInv
\* Types.
LEMMA NextFilterTypes ==
    ASSUME Filter!FilterAssumption, FilterInv, [Filter!Next]_(Filter!vars)
    PROVE  FilterTypes'
<1> USE DEF FilterTypes, Filter!TypeOK, Filter!Pcs
<1>1. /\ FilterTypes /\ Filter!Actors = {"request", "reset"}
      /\ Filter!Other("request") = "reset" /\ Filter!Other("reset") = "request"
  BY TwoActors DEF FilterInv
<1>2. CASE Filter!Request
  <2>1. PICK f \in Filters : /\ want' = f /\ PacketFilterFlags' = f.flags
                             /\ Filter!Begin("request", {f})
    BY <1>2 DEF Filter!Request
  <2>2. f.flags \subseteq Filter!PacketFilters
    BY FilterIs
  <2>3. /\ alone' \in [Filter!Actors -> BOOLEAN] /\ settled' = FALSE
        /\ recent' \subseteq Filters \cup {Filter!Nothing} /\ want' \in recent'
    BY <1>1, <2>1 DEF Filter!Begin
  <2>4. pc' \in [Filter!Actors -> Filter!Pcs] /\ requests' \in 0 .. MaxRequests
    BY <1>1, <1>2 DEF Filter!Request, Filter!Goto, Filter!FilterAssumption
  <2> QED
    BY <1>1, <1>2, <2>1, <2>2, <2>3, <2>4 DEF Filter!Request, Filter!locals
<1>3. CASE Filter!StoreCount \/ Filter!ZeroList \/ Filter!CopyList
  <2>1. want \in Filters \cup {Filter!Nothing}
    BY <1>1
  <2>2. Len(want.list) \in 0 .. MaxList
    BY <2>1, FilterIs
  <2>3. MCAddressCount' \in 0 .. MaxList
    BY <1>1, <1>3, <2>2 DEF Filter!StoreCount, Filter!ZeroList, Filter!CopyList
  <2>4. MCList' \in [1 .. MaxList -> Address \cup {Zero}]
    <3>1. CASE Filter!CopyList
      <4>1. MCAddressCount = Len(want.list)
        BY <3>1 DEF Filter!CopyList, FilterInv, Stored
      <4>2. \A n \in 1 .. MaxList : n <= MCAddressCount => want.list[n] \in Address
        BY <2>1, <2>2, <4>1, FilterIs
      <4> QED
        BY <1>1, <3>1, <4>2 DEF Filter!CopyList
    <3> QED
      BY <1>1, <1>3, <3>1 DEF Filter!StoreCount, Filter!ZeroList
  <2>5. pc' \in [Filter!Actors -> Filter!Pcs]
    BY <1>1, <1>3 DEF Filter!StoreCount, Filter!ZeroList, Filter!CopyList, Filter!Goto
  <2>6. UNCHANGED <<want, PacketFilterFlags, rxcfg, mar, flags, i, mask, alone, settled,
                    recent, requests>>
    BY <1>3 DEF Filter!StoreCount, Filter!ZeroList, Filter!CopyList, Filter!locals,
                Filter!history
  <2> QED
    BY <1>1, <2>3, <2>4, <2>5, <2>6
<1>4. CASE Filter!ResetBegin
  <2>1. /\ alone' \in [Filter!Actors -> BOOLEAN] /\ settled' = FALSE
        /\ recent' \subseteq Filters \cup {Filter!Nothing} /\ want \in recent'
    BY <1>1, <1>4 DEF Filter!ResetBegin, Filter!Begin
  <2>2. pc' \in [Filter!Actors -> Filter!Pcs]
    BY <1>1, <1>4 DEF Filter!ResetBegin, Filter!Goto
  <2> QED
    BY <1>1, <1>4, <2>1, <2>2 DEF Filter!ResetBegin, Filter!adapter, Filter!locals
<1>5. ASSUME NEW a \in Filter!Actors, Filter!SetRxPacketFilter(a) PROVE FilterTypes'
  <2>1. CASE Filter!ReadFlags(a)
    BY <1>1, <2>1 DEF Filter!ReadFlags, Filter!Goto, Filter!adapter, Filter!history
  <2>2. CASE Filter!WriteRxCfg(a)
    <3>1. /\ pc' \in [Filter!Actors -> Filter!Pcs] /\ i' \in [Filter!Actors -> 1 .. MaxList + 1]
          /\ mask' \in [Filter!Actors -> SUBSET Filter!MarBits]
      BY <1>1, <2>2 DEF Filter!WriteRxCfg, Filter!Goto, Filter!FilterAssumption
    <3> QED
      BY <1>1, <2>2, <3>1, AcceptIs DEF Filter!WriteRxCfg, Filter!adapter, Filter!history
  <2>3. CASE Filter!HashNext(a)
    <3>1. CASE i[a] <= MCAddressCount
      <4>1. i[a] \in 1 .. MaxList /\ i[a] + 1 \in 1 .. MaxList + 1
        BY <1>1, <3>1 DEF Filter!FilterAssumption
      <4>2. MulticastBit[MCList[i[a]]] \in Filter!MarBits
        BY <1>1, <4>1, BitIs
      <4> QED
        BY <1>1, <2>3, <3>1, <4>1, <4>2 DEF Filter!HashNext, Filter!adapter, Filter!history
    <3>2. CASE ~(i[a] <= MCAddressCount)
      BY <1>1, <2>3, <3>2 DEF Filter!HashNext, Filter!Goto, Filter!adapter, Filter!history
    <3> QED
      BY <3>1, <3>2
  <2>4. CASE Filter!WriteMar0(a)
    <3>1. mar' = [mar EXCEPT ![0] = mask[a] \cap Filter!Word(0)]
      BY <2>4 DEF Filter!WriteMar0
    <3>2. mar' \in [{0, 4} -> SUBSET Filter!MarBits] /\ \A w \in {0, 4} : mar'[w] \subseteq Filter!Word(w)
      BY <1>1, <3>1, BothWords
    <3> QED
      BY <1>1, <2>4, <3>2 DEF Filter!WriteMar0, Filter!Goto, Filter!adapter, Filter!locals,
         Filter!history
  <2>5. CASE Filter!WriteMar4(a)
    <3>1. mar' = [mar EXCEPT ![4] = mask[a] \cap Filter!Word(4)]
      BY <2>5 DEF Filter!WriteMar4
    <3>2. mar' \in [{0, 4} -> SUBSET Filter!MarBits] /\ \A w \in {0, 4} : mar'[w] \subseteq Filter!Word(w)
      BY <1>1, <3>1, BothWords
    <3> QED
      BY <1>1, <2>5, <3>2 DEF Filter!WriteMar4, Filter!Goto, Filter!adapter, Filter!locals
  <2> QED
    BY <1>5, <2>1, <2>2, <2>3, <2>4, <2>5 DEF Filter!SetRxPacketFilter
<1>6. CASE UNCHANGED Filter!vars
  BY <1>1, <1>6 DEF Filter!vars, Filter!adapter, Filter!locals, Filter!history
<1> QED
  BY <1>2, <1>3, <1>4, <1>5, <1>6 DEF Filter!Next
\* A processor begins: the filters of late are then those that matter from here on.
LEMMA BeginRecent ==
    ASSUME Filter!FilterAssumption, FilterInv, NEW a \in Filter!Actors,
           NEW asked \in SUBSET Filters, Filter!Begin(a, asked)
    PROVE  /\ settled' = FALSE /\ asked \subseteq recent' /\ want \in recent'
           /\ \A b \in Filter!Actors : alone'[b] => b = a /\ pc[Filter!Other(b)] = "idle"
           /\ \A n \in 1..MaxList : MCList[n] = Zero
                 \/ \E f \in recent' : \E m \in 1 .. Len(f.list) : MCList[n] = f.list[m]
           /\ rxcfg \subseteq UNION {Filter!Accept(f.flags) : f \in recent'}
           /\ mar[0] \cup mar[4] \subseteq Places'
           /\ \A b \in Filter!Actors :
                /\ pc[b] \in Programming => \E f \in recent' : flags[b] = f.flags
                /\ pc[b] \in Programming \ {"cfg"} => mask[b] \subseteq Places'
<1>1. /\ alone' = [alone EXCEPT ![a] = pc[Filter!Other(a)] = "idle", ![Filter!Other(a)] = FALSE]
      /\ settled' = FALSE
      /\ recent' = (IF settled THEN {want} ELSE recent) \cup asked
  BY DEF Filter!Begin
<1>2. FilterTypes /\ Stored /\ AllIdle /\ ListRecent
  BY DEF FilterInv
<1>3. \A b \in Filter!Actors : alone'[b] => b = a /\ pc[Filter!Other(b)] = "idle"
  BY <1>1, <1>2, TwoActors DEF FilterTypes
<1>4. Places' = (UNION {Filter!MarOf(f) : f \in recent'}) \cup {MulticastBit[Zero]}
  BY DEF Places
<1>5. CASE ~settled
  <2>1. recent \subseteq recent' /\ want \in recent'
    BY <1>1, <1>2, <1>5 DEF FilterTypes
  <2>2. Places \subseteq Places'
    BY <1>4, <2>1 DEF Places
  <2>3. \A n \in 1..MaxList : MCList[n] = Zero
           \/ \E f \in recent' : \E m \in 1 .. Len(f.list) : MCList[n] = f.list[m]
    BY <1>2, <2>1 DEF ListRecent
  <2>4. rxcfg \subseteq UNION {Filter!Accept(f.flags) : f \in recent'}
    BY <2>1 DEF FilterInv, Filter!AcceptsOnlyRecent
  <2>5. mar[0] \cup mar[4] \subseteq Places'
    BY <2>2 DEF FilterInv, Filter!AcceptsOnlyRecent, Places
  <2>6. ASSUME NEW b \in Filter!Actors
        PROVE  /\ pc[b] \in Programming => \E f \in recent' : flags[b] = f.flags
               /\ pc[b] \in Programming \ {"cfg"} => mask[b] \subseteq Places'
    BY <2>1, <2>2 DEF FilterInv, HoldsRecent
  <2> QED
    BY <1>1, <1>3, <2>1, <2>3, <2>4, <2>5, <2>6
<1>6. CASE settled
  <2>1. want \in recent' /\ \A b \in Filter!Actors : pc[b] = "idle"
    BY <1>1, <1>2, <1>6 DEF AllIdle
  <2>2. \A n \in 1..MaxList : MCList[n] = Zero
           \/ \E f \in recent' : \E m \in 1 .. Len(f.list) : MCList[n] = f.list[m]
    <3> TAKE n \in 1 .. MaxList
    <3>1. MCList[n] = IF n <= Len(want.list) THEN want.list[n] ELSE Zero
      BY <1>2, <2>1, TwoActors DEF Stored
    <3>2. want \in Filters \cup {Filter!Nothing} /\ MaxList \in Nat
      BY <1>2 DEF FilterTypes, Filter!FilterAssumption
    <3>3. Len(want.list) \in Nat
      BY <3>2, FilterIs
    <3> QED
      BY <2>1, <3>1, <3>2, <3>3
  <2>3. rxcfg = Filter!Accept(want.flags) /\ mar[0] \cup mar[4] = Filter!MarOf(want)
    BY <1>6 DEF FilterInv, Filter!FilterSettled
  <2>4. /\ rxcfg \subseteq UNION {Filter!Accept(f.flags) : f \in recent'}
        /\ mar[0] \cup mar[4] \subseteq Places'
    BY <1>4, <2>1, <2>3
  <2>5. \A b \in Filter!Actors : pc[b] \notin Programming
    BY <2>1 DEF Programming
  <2> QED
    BY <1>1, <1>3, <2>1, <2>2, <2>4, <2>5
<1> QED
  BY <1>2, <1>5, <1>6 DEF FilterTypes

\* A filter is asked for.
LEMMA FilterRequest ==
    ASSUME Filter!FilterAssumption, FilterInv, Filter!Request, FilterTypes'
    PROVE  FilterInv'
<1>1. PICK f \in Filters : /\ want' = f /\ PacketFilterFlags' = f.flags
                           /\ Filter!Begin("request", {f})
  BY DEF Filter!Request
<1>2. /\ pc["request"] = "idle" /\ pc' = [pc EXCEPT !["request"] = "count"]
      /\ UNCHANGED <<MCAddressCount, MCList, rxcfg, mar, flags, i, mask>>
  BY DEF Filter!Request, Filter!Goto, Filter!locals
<1>3. /\ Filter!Actors = {"request", "reset"} /\ Filter!Other("request") = "reset"
      /\ Filter!Other("reset") = "request"
  BY TwoActors
<1>4. /\ pc \in [Filter!Actors -> Filter!Pcs] /\ pc'["request"] = "count"
      /\ pc'["reset"] = pc["reset"]
  BY <1>2, <1>3 DEF FilterInv, FilterTypes, Filter!TypeOK
<1>5. {f} \in SUBSET Filters /\ "request" \in Filter!Actors
  BY <1>3
<1>6. /\ settled' = FALSE /\ f \in recent'
      /\ \A b \in Filter!Actors : alone'[b] => b = "request" /\ pc[Filter!Other(b)] = "idle"
      /\ \A n \in 1..MaxList : MCList[n] = Zero
            \/ \E g \in recent' : \E m \in 1 .. Len(g.list) : MCList[n] = g.list[m]
      /\ rxcfg \subseteq UNION {Filter!Accept(g.flags) : g \in recent'}
      /\ mar[0] \cup mar[4] \subseteq Places'
      /\ \A b \in Filter!Actors :
           /\ pc[b] \in Programming => \E g \in recent' : flags[b] = g.flags
           /\ pc[b] \in Programming \ {"cfg"} => mask[b] \subseteq Places'
  BY <1>1, <1>5, BeginRecent
<1>7. Stored' /\ AllIdle' /\ ListRecent' /\ Filter!FilterSettled'
  BY <1>1, <1>2, <1>4, <1>6 DEF Stored, AllIdle, ListRecent, Filter!FilterSettled
<1>8. ASSUME NEW a \in Filter!Actors PROVE Undisturbed(a)'
  <2>1. alone'[a] => a = "request" /\ pc[Filter!Other(a)] = "idle"
    BY <1>6
  <2> QED
    BY <1>3, <1>4, <2>1 DEF Undisturbed, Programming
<1>9. ASSUME NEW a \in Filter!Actors PROVE HoldsRecent(a)'
  <2>1. pc'[a] \in Programming => pc'[a] = pc[a]
    BY <1>3, <1>4 DEF Programming
  <2> QED
    BY <1>2, <1>6, <2>1 DEF HoldsRecent
<1>10. Filter!AcceptsOnlyRecent'
  BY <1>2, <1>6 DEF Filter!AcceptsOnlyRecent, Places
<1> QED
  BY <1>7, <1>8, <1>9, <1>10 DEF FilterInv

\* A reset of the chip begins.
LEMMA FilterReset ==
    ASSUME Filter!FilterAssumption, FilterInv, Filter!ResetBegin, FilterTypes'
    PROVE  FilterInv'
<1>1. Filter!Begin("reset", {})
  BY DEF Filter!ResetBegin
<1>2. /\ pc["reset"] = "idle" /\ pc' = [pc EXCEPT !["reset"] = "read"] /\ rxcfg' = {}
      /\ UNCHANGED <<want, PacketFilterFlags, MCAddressCount, MCList, mar, flags, i, mask>>
  BY DEF Filter!ResetBegin, Filter!Goto, Filter!locals, Filter!adapter
<1>3. /\ Filter!Actors = {"request", "reset"} /\ Filter!Other("request") = "reset"
      /\ Filter!Other("reset") = "request"
  BY TwoActors
<1>4. /\ pc \in [Filter!Actors -> Filter!Pcs] /\ pc'["reset"] = "read"
      /\ pc'["request"] = pc["request"]
  BY <1>2, <1>3 DEF FilterInv, FilterTypes, Filter!TypeOK
<1>5. {} \in SUBSET Filters /\ "reset" \in Filter!Actors
  BY <1>3
<1>6. /\ settled' = FALSE
      /\ \A b \in Filter!Actors : alone'[b] => b = "reset" /\ pc[Filter!Other(b)] = "idle"
      /\ \A n \in 1..MaxList : MCList[n] = Zero
            \/ \E g \in recent' : \E m \in 1 .. Len(g.list) : MCList[n] = g.list[m]
      /\ mar[0] \cup mar[4] \subseteq Places'
      /\ \A b \in Filter!Actors :
           /\ pc[b] \in Programming => \E g \in recent' : flags[b] = g.flags
           /\ pc[b] \in Programming \ {"cfg"} => mask[b] \subseteq Places'
  BY <1>1, <1>5, BeginRecent
<1>7. Stored' /\ AllIdle' /\ ListRecent' /\ Filter!FilterSettled'
  BY <1>1, <1>2, <1>4, <1>6 DEF Stored, AllIdle, ListRecent, Filter!FilterSettled, FilterInv
<1>8. ASSUME NEW a \in Filter!Actors PROVE Undisturbed(a)'
  <2>1. alone'[a] => a = "reset" /\ pc[Filter!Other(a)] = "idle"
    BY <1>6
  <2> QED
    BY <1>3, <1>4, <2>1 DEF Undisturbed, Programming
<1>9. ASSUME NEW a \in Filter!Actors PROVE HoldsRecent(a)'
  <2>1. pc'[a] \in Programming => pc'[a] = pc[a]
    BY <1>3, <1>4 DEF Programming
  <2> QED
    BY <1>2, <1>6, <2>1 DEF HoldsRecent
<1>10. Filter!AcceptsOnlyRecent'
  BY <1>2, <1>6 DEF Filter!AcceptsOnlyRecent, Places
<1> QED
  BY <1>7, <1>8, <1>9, <1>10 DEF FilterInv

\* The list is stored, while the chip keeps what it has.
LEMMA FilterStore ==
    ASSUME Filter!FilterAssumption, FilterInv, FilterTypes',
           Filter!StoreCount \/ Filter!ZeroList \/ Filter!CopyList
    PROVE  FilterInv'
<1>1. /\ UNCHANGED <<want, PacketFilterFlags, rxcfg, mar, flags, i, mask, alone, settled,
                     recent, requests>>
      /\ pc["request"] \in {"count", "zero", "copy"}
      /\ pc' = [pc EXCEPT !["request"] = CASE pc["request"] = "count" -> "zero"
                                           [] pc["request"] = "zero"  -> "copy"
                                           [] pc["request"] = "copy"  -> "read"]
  BY DEF Filter!StoreCount, Filter!ZeroList, Filter!CopyList, Filter!Goto, Filter!locals,
         Filter!history
<1>2. /\ Filter!Actors = {"request", "reset"} /\ Filter!Other("request") = "reset"
      /\ Filter!Other("reset") = "request"
  BY TwoActors
<1>3. /\ pc \in [Filter!Actors -> Filter!Pcs] /\ pc'["reset"] = pc["reset"]
      /\ pc'["request"] \in {"zero", "copy", "read"}
  BY <1>1, <1>2 DEF FilterInv, FilterTypes, Filter!TypeOK
<1>4. FilterTypes /\ Stored /\ AllIdle /\ ListRecent
  BY DEF FilterInv
<1>5. want \in Filters \cup {Filter!Nothing} /\ MaxList \in Nat
  BY <1>4 DEF FilterTypes, Filter!FilterAssumption
<1>6. Len(want.list) \in 0 .. MaxList
  BY <1>5, FilterIs
<1>7. Stored' /\ ListRecent'
  <2>1. CASE Filter!StoreCount
    <3>1. MCAddressCount' = Len(want.list) /\ MCList' = MCList /\ pc'["request"] = "zero"
      BY <1>2, <1>3, <2>1 DEF Filter!StoreCount, Filter!Goto
    <3> QED
      BY <1>1, <1>4, <3>1 DEF Stored, ListRecent
  <2>2. CASE Filter!ZeroList
    <3>1. /\ MCAddressCount' = MCAddressCount /\ MCList' = [n \in 1 .. MaxList |-> Zero]
          /\ pc'["request"] = "copy" /\ pc["request"] = "zero"
      BY <1>2, <1>3, <2>2 DEF Filter!ZeroList, Filter!Goto
    <3> QED
      BY <1>1, <1>4, <3>1 DEF Stored, ListRecent
  <2>3. CASE Filter!CopyList
    <3>1. /\ MCAddressCount' = MCAddressCount /\ pc'["request"] = "read"
          /\ pc["request"] = "copy"
          /\ MCList' = [n \in 1 .. MaxList |-> IF n <= MCAddressCount THEN want.list[n]
                                               ELSE MCList[n]]
      BY <1>2, <1>3, <2>3 DEF Filter!CopyList, Filter!Goto
    <3>2. /\ MCAddressCount = Len(want.list)
          /\ \A n \in 1 .. MaxList : MCList'[n] = IF n <= Len(want.list) THEN want.list[n]
                                                  ELSE Zero
      BY <1>4, <3>1 DEF Stored
    <3>3. Stored'
      BY <1>1, <1>4, <3>1, <3>2 DEF Stored
    <3>4. want \in recent
      BY <1>4 DEF FilterTypes
    <3>5. ListRecent'
      <4> SUFFICES ASSUME NEW n \in 1 .. MaxList
                   PROVE  MCList'[n] = Zero
                            \/ \E f \in recent' : \E m \in 1 .. Len(f.list) : MCList'[n] = f.list[m]
        BY DEF ListRecent
      <4> QED
        BY <1>1, <1>5, <1>6, <3>2, <3>4
    <3> QED
      BY <3>3, <3>5
  <2> QED
    BY <2>1, <2>2, <2>3
<1>8. ~settled
  BY <1>1, <1>2, <1>4 DEF AllIdle
<1>9. AllIdle' /\ Filter!FilterSettled'
  BY <1>1, <1>8 DEF AllIdle, Filter!FilterSettled
<1>10. ASSUME NEW a \in Filter!Actors PROVE Undisturbed(a)' /\ HoldsRecent(a)'
  <2>1. Undisturbed(a) /\ HoldsRecent(a)
    BY DEF FilterInv
  <2>2. Places' = Places
    BY <1>1 DEF Places
  <2>3. HoldsRecent(a)'
    <3>1. pc'[a] \in Programming => pc'[a] = pc[a]
      BY <1>2, <1>3 DEF Programming
    <3> QED
      BY <1>1, <2>1, <2>2, <3>1 DEF HoldsRecent
  <2>4. Undisturbed(a)'
    <3>1. CASE a = "request"
      <4>1. pc'[a] \notin Programming /\ pc'[Filter!Other(a)] = pc[Filter!Other(a)]
        BY <1>2, <1>3, <3>1 DEF Programming
      <4>2. pc[a] # "idle"
        BY <1>1, <3>1
      <4> QED
        BY <1>1, <2>1, <4>1, <4>2 DEF Undisturbed, Programming
    <3>2. CASE a = "reset"
      <4>1. pc'[a] = pc[a] /\ pc[Filter!Other(a)] # "idle"
        BY <1>1, <1>2, <1>3, <3>2
      <4> QED
        BY <1>1, <2>1, <4>1 DEF Undisturbed
    <3> QED
      BY <1>2, <3>1, <3>2
  <2> QED
    BY <2>3, <2>4
<1>11. Filter!AcceptsOnlyRecent'
  BY <1>1 DEF FilterInv, Filter!AcceptsOnlyRecent
<1> QED
  BY <1>7, <1>9, <1>10, <1>11 DEF FilterInv
\* re_set_rx_packet_filter, of which one may be interrupted by the other's.
LEMMA FilterProgram ==
    ASSUME Filter!FilterAssumption, FilterInv, FilterTypes',
           NEW a \in Filter!Actors, Filter!SetRxPacketFilter(a)
    PROVE  FilterInv'
<1>1. /\ UNCHANGED <<want, PacketFilterFlags, MCAddressCount, MCList, alone, recent>>
      /\ pc[a] \in Programming \cup {"read"}
      /\ pc'[a] # pc[a] => pc' = [pc EXCEPT ![a] = pc'[a]]
      /\ \A b \in Filter!Actors : b # a =>
            /\ pc'[b] = pc[b] /\ flags'[b] = flags[b] /\ i'[b] = i[b] /\ mask'[b] = mask[b]
      /\ pc'[a] \in Programming \cup {"idle"}
  <2>0. /\ pc \in [Filter!Actors -> Filter!Pcs] /\ flags \in [Filter!Actors -> SUBSET Filter!PacketFilters]
        /\ i \in [Filter!Actors -> 1 .. MaxList + 1]
        /\ mask \in [Filter!Actors -> SUBSET Filter!MarBits]
    BY DEF FilterInv, FilterTypes, Filter!TypeOK
  <2>1. CASE Filter!ReadFlags(a)
    BY <2>0, <2>1 DEF Filter!ReadFlags, Filter!Goto, Filter!adapter, Filter!history, Programming
  <2>2. CASE Filter!WriteRxCfg(a)
    BY <2>0, <2>2 DEF Filter!WriteRxCfg, Filter!Goto, Filter!adapter, Filter!history, Programming
  <2>3. CASE Filter!HashNext(a)
    <3>1. CASE i[a] <= MCAddressCount
      BY <2>0, <2>3, <3>1 DEF Filter!HashNext, Filter!adapter, Filter!history, Programming
    <3>2. CASE ~(i[a] <= MCAddressCount)
      BY <2>0, <2>3, <3>2 DEF Filter!HashNext, Filter!Goto, Filter!adapter, Filter!history, Programming
    <3> QED
      BY <3>1, <3>2
  <2>4. CASE Filter!WriteMar0(a)
    BY <2>0, <2>4 DEF Filter!WriteMar0, Filter!Goto, Filter!adapter, Filter!locals, Filter!history, Programming
  <2>5. CASE Filter!WriteMar4(a)
    BY <2>0, <2>5 DEF Filter!WriteMar4, Filter!Goto, Filter!adapter, Filter!locals, Programming
  <2> QED
    BY <2>1, <2>2, <2>3, <2>4, <2>5 DEF Filter!SetRxPacketFilter
<1>2. /\ Filter!Actors = {"request", "reset"} /\ Filter!Other("request") = "reset"
      /\ Filter!Other("reset") = "request"
  BY TwoActors
<1>3. FilterTypes /\ Stored /\ AllIdle /\ ListRecent /\ Undisturbed(a) /\ HoldsRecent(a)
  BY DEF FilterInv
<1>4. ~settled
  BY <1>1, <1>3 DEF AllIdle, Programming
<1>5. Places' = Places /\ ListRecent' /\ Stored'
  BY <1>1, <1>2, <1>3 DEF Places, ListRecent, Stored, Programming
<1>6. ASSUME NEW b \in Filter!Actors, b # a PROVE Undisturbed(b)' /\ HoldsRecent(b)'
  <2>1. Filter!Other(b) = a /\ pc[a] # "idle"
    BY <1>1, <1>2, <1>6 DEF Programming
  <2>2. Undisturbed(b) /\ HoldsRecent(b)
    BY DEF FilterInv
  <2>3. HoldsRecent(b)'
    BY <1>1, <1>5, <1>6, <2>2 DEF HoldsRecent
  <2>4. Undisturbed(b)'
    <3>1. ~alone[b] \/ pc[b] = "idle"
      BY <2>1, <2>2 DEF Undisturbed
    <3> QED
      BY <1>1, <1>6, <3>1 DEF Undisturbed
  <2> QED
    BY <2>3, <2>4
<1>7. /\ want \in Filters \cup {Filter!Nothing} /\ MaxList \in Nat /\ want \in recent
      /\ Len(want.list) \in 0 .. MaxList /\ DOMAIN want.list = 1 .. Len(want.list)
      /\ recent \subseteq Filters \cup {Filter!Nothing}
      /\ i[a] \in 1 .. MaxList + 1 /\ MCAddressCount \in 0 .. MaxList
  BY <1>3, FilterIs DEF FilterTypes, Filter!TypeOK, Filter!FilterAssumption
\* Undisturbed, it has the filter asked for stored.
<1>8. alone[a] => /\ pc[Filter!Other(a)] = "idle" /\ MCAddressCount = Len(want.list)
                  /\ \A n \in 1..MaxList :
                       MCList[n] = IF n <= Len(want.list) THEN want.list[n] ELSE Zero
  BY <1>1, <1>2, <1>3 DEF Undisturbed, Stored, Programming
<1>9. alone'[a] => pc'[Filter!Other(a)] = "idle"
  BY <1>1, <1>2, <1>8
<1>10. CASE Filter!ReadFlags(a)
  <2>1. /\ pc[a] = "read" /\ pc'[a] = "cfg" /\ flags'[a] = want.flags
        /\ UNCHANGED <<rxcfg, mar, settled>>
    BY <1>3, <1>10 DEF Filter!ReadFlags, Filter!Goto, Filter!history, Stored, FilterTypes,
                       Filter!TypeOK
  <2>2. Undisturbed(a)' /\ HoldsRecent(a)'
    BY <1>1, <1>7, <1>9, <2>1 DEF Undisturbed, HoldsRecent, Programming
  <2>3. AllIdle' /\ Filter!FilterSettled' /\ Filter!AcceptsOnlyRecent'
    BY <1>1, <1>4, <2>1 DEF AllIdle, Filter!FilterSettled, Filter!AcceptsOnlyRecent, FilterInv
  <2> QED
    BY <1>5, <1>6, <2>2, <2>3 DEF FilterInv
<1>11. CASE Filter!WriteRxCfg(a)
  <2>1. /\ pc[a] = "cfg" /\ rxcfg' = Filter!Accept(flags[a]) /\ i'[a] = 1
        /\ mask'[a] = (IF Filter!AllNodes(flags[a]) THEN Filter!MarBits ELSE {})
        /\ pc'[a] = (IF Filter!AllNodes(flags[a]) THEN "mar0" ELSE "hash")
        /\ UNCHANGED <<flags, mar, settled>>
    BY <1>3, <1>11 DEF Filter!WriteRxCfg, Filter!Goto, Filter!history, FilterTypes,
                       Filter!TypeOK
  <2>2. PICK f \in recent : flags[a] = f.flags
    BY <1>3, <2>1 DEF HoldsRecent, Programming
  <2>3. mask'[a] \subseteq Places
    BY <2>1, <2>2 DEF Places, Filter!MarOf
  <2>4. HoldsRecent(a)'
    BY <1>1, <1>5, <2>1, <2>2, <2>3 DEF HoldsRecent
  <2>5. Undisturbed(a)'
    <3> SUFFICES ASSUME alone'[a] PROVE Undisturbed(a)'
      BY DEF Undisturbed
    <3>1. flags[a] = want.flags
      BY <1>1, <1>3, <2>1 DEF Undisturbed, Programming
    <3>2. CASE Filter!AllNodes(want.flags)
      <4>1. pc'[a] = "mar0" /\ mask'[a] = Filter!MarOf(want)
        BY <2>1, <3>1, <3>2 DEF Filter!MarOf
      <4> QED
        BY <1>1, <1>9, <2>1, <3>1, <4>1 DEF Undisturbed
    <3>3. CASE ~Filter!AllNodes(want.flags)
      <4>1. pc'[a] = "hash" /\ mask'[a] = {} /\ i'[a] = 1 /\ i'[a] <= MCAddressCount + 1
        BY <1>7, <2>1, <3>1, <3>3
      <4>2. {MulticastBit[MCList[n]] : n \in 1 .. i'[a] - 1} = {}
        BY <4>1
      <4> QED
        BY <1>1, <1>9, <2>1, <3>1, <3>3, <4>1, <4>2 DEF Undisturbed
    <3> QED
      BY <3>2, <3>3
  <2>6. AllIdle' /\ Filter!FilterSettled'
    BY <1>4, <2>1 DEF AllIdle, Filter!FilterSettled
  <2>7. Filter!AcceptsOnlyRecent'
    BY <1>1, <2>1, <2>2 DEF Filter!AcceptsOnlyRecent, FilterInv
  <2> QED
    BY <1>5, <1>6, <2>4, <2>5, <2>6, <2>7 DEF FilterInv
<1>12. CASE Filter!HashNext(a)
  <2>1. /\ pc[a] = "hash" /\ UNCHANGED <<rxcfg, mar, flags, settled>>
    BY <1>12 DEF Filter!HashNext, Filter!history
  <2>2. AllIdle' /\ Filter!FilterSettled' /\ Filter!AcceptsOnlyRecent'
    BY <1>1, <1>4, <2>1 DEF AllIdle, Filter!FilterSettled, Filter!AcceptsOnlyRecent, FilterInv
  <2>3. CASE i[a] <= MCAddressCount
    <3> DEFINE bit == MulticastBit[MCList[i[a]]]
    <3>1. /\ mask'[a] = mask[a] \cup {bit} /\ i'[a] = i[a] + 1 /\ pc' = pc
      BY <1>3, <1>12, <2>3 DEF Filter!HashNext, FilterTypes, Filter!TypeOK
    <3>2. i[a] \in 1 .. MaxList
      BY <1>7, <2>3
    <3>3. bit \in Places
      <4>1. CASE MCList[i[a]] = Zero
        <5>1. bit = MulticastBit[Zero]
          BY <4>1
        <5>2. MulticastBit[Zero] \in Places
          BY DEF Places
        <5> QED
          BY <5>1, <5>2
      <4>2. CASE MCList[i[a]] # Zero
        <5>1. PICK f \in recent : \E m \in 1 .. Len(f.list) : MCList[i[a]] = f.list[m]
          BY <1>3, <3>2, <4>2 DEF ListRecent
        <5>2. bit \in Filter!MarOf(f)
          BY <1>7, <5>1, BitIs
        <5> QED
          BY <5>2 DEF Places
      <4> QED
        BY <4>1, <4>2
    <3>4. HoldsRecent(a)'
      BY <1>1, <1>3, <1>5, <2>1, <3>1, <3>3 DEF HoldsRecent, Programming
    <3>5. Undisturbed(a)'
      <4> SUFFICES ASSUME alone'[a] PROVE Undisturbed(a)'
        BY DEF Undisturbed
      <4>1. /\ flags[a] = want.flags /\ rxcfg = Filter!Accept(want.flags)
            /\ ~Filter!AllNodes(want.flags)
            /\ mask[a] = {MulticastBit[MCList[n]] : n \in 1 .. i[a] - 1}
        BY <1>1, <1>3, <2>1 DEF Undisturbed, Programming
      <4>2. 1 .. i'[a] - 1 = (1 .. i[a] - 1) \cup {i[a]}
        BY <1>7, <3>1
      <4>3. mask'[a] = {MulticastBit[MCList[n]] : n \in 1 .. i'[a] - 1}
        BY <3>1, <4>1, <4>2
      <4>4. i'[a] <= MCAddressCount + 1
        BY <1>7, <2>3, <3>1
      <4> QED
        BY <1>1, <1>9, <2>1, <3>1, <4>1, <4>3, <4>4 DEF Undisturbed
    <3> QED
      BY <1>5, <1>6, <2>2, <3>4, <3>5 DEF FilterInv
  <2>4. CASE ~(i[a] <= MCAddressCount)
    <3>1. pc'[a] = "mar0" /\ mask' = mask /\ i' = i
      BY <1>3, <1>12, <2>4 DEF Filter!HashNext, Filter!Goto, FilterTypes, Filter!TypeOK
    <3>2. HoldsRecent(a)'
      BY <1>1, <1>3, <1>5, <2>1, <3>1 DEF HoldsRecent, Programming
    <3>3. Undisturbed(a)'
      <4> SUFFICES ASSUME alone'[a] PROVE Undisturbed(a)'
        BY DEF Undisturbed
      <4>1. /\ flags[a] = want.flags /\ rxcfg = Filter!Accept(want.flags)
            /\ ~Filter!AllNodes(want.flags) /\ i[a] <= MCAddressCount + 1
            /\ mask[a] = {MulticastBit[MCList[n]] : n \in 1 .. i[a] - 1}
        BY <1>1, <1>3, <2>1 DEF Undisturbed, Programming
      <4>2. i[a] - 1 = Len(want.list)
        BY <1>1, <1>7, <1>8, <2>4, <4>1
      <4>3. \A n \in 1 .. Len(want.list) : MCList[n] = want.list[n]
        BY <1>1, <1>7, <1>8
      <4>4. Filter!MarOf(want) = {MulticastBit[want.list[n]] : n \in 1 .. Len(want.list)}
        BY <1>7, <4>1 DEF Filter!MarOf
      <4>5. mask[a] = Filter!MarOf(want)
        BY <4>1, <4>2, <4>3, <4>4
      <4> QED
        BY <1>1, <1>9, <2>1, <3>1, <4>1, <4>5 DEF Undisturbed
    <3> QED
      BY <1>5, <1>6, <2>2, <3>2, <3>3 DEF FilterInv
  <2> QED
    BY <2>3, <2>4
<1>13. CASE Filter!WriteMar0(a)
  <2>1. /\ pc[a] = "mar0" /\ pc'[a] = "mar4" /\ UNCHANGED <<rxcfg, flags, i, mask, settled>>
        /\ mar'[0] = mask[a] \cap Filter!Word(0) /\ mar'[4] = mar[4]
    BY <1>3, <1>13 DEF Filter!WriteMar0, Filter!Goto, Filter!locals, Filter!history,
                       FilterTypes, Filter!TypeOK
  <2>2. mask[a] \subseteq Places
    BY <1>3, <2>1 DEF HoldsRecent, Programming
  <2>3. HoldsRecent(a)'
    BY <1>1, <1>3, <1>5, <2>1 DEF HoldsRecent, Programming
  <2>4. Undisturbed(a)'
    BY <1>1, <1>3, <1>9, <2>1 DEF Undisturbed, Programming
  <2>5. AllIdle' /\ Filter!FilterSettled'
    BY <1>4, <2>1 DEF AllIdle, Filter!FilterSettled
  <2>6. Filter!AcceptsOnlyRecent'
    BY <1>1, <2>1, <2>2 DEF Filter!AcceptsOnlyRecent, FilterInv, Places
  <2> QED
    BY <1>5, <1>6, <2>3, <2>4, <2>5, <2>6 DEF FilterInv
<1>14. CASE Filter!WriteMar4(a)
  <2>1. /\ pc[a] = "mar4" /\ pc'[a] = "idle" /\ UNCHANGED <<rxcfg, flags, i, mask>>
        /\ mar'[4] = mask[a] \cap Filter!Word(4) /\ mar'[0] = mar[0] /\ settled' = alone[a]
    BY <1>3, <1>14 DEF Filter!WriteMar4, Filter!Goto, Filter!locals, FilterTypes,
                       Filter!TypeOK
  <2>2. mask[a] \subseteq Places
    BY <1>3, <2>1 DEF HoldsRecent, Programming
  <2>3. HoldsRecent(a)' /\ Undisturbed(a)'
    BY <2>1 DEF HoldsRecent, Undisturbed, Programming
  <2>4. AllIdle'
    BY <1>1, <1>2, <1>8, <2>1 DEF AllIdle
  <2>5. Filter!FilterSettled'
    <3> SUFFICES ASSUME alone[a] PROVE Filter!FilterSettled'
      BY <2>1 DEF Filter!FilterSettled
    <3>1. /\ rxcfg = Filter!Accept(want.flags) /\ mask[a] = Filter!MarOf(want)
          /\ mar[0] = Filter!MarOf(want) \cap Filter!Word(0)
      BY <1>3, <2>1 DEF Undisturbed, Programming
    <3>2. Filter!MarOf(want) \subseteq Filter!MarBits
      BY <1>7, BitIs
    <3>3. mar'[0] \cup mar'[4] = Filter!MarOf(want)
      BY <2>1, <3>1, <3>2, BothWords
    <3> QED
      BY <1>1, <2>1, <3>1, <3>3 DEF Filter!FilterSettled
  <2>6. Filter!AcceptsOnlyRecent'
    BY <1>1, <2>1, <2>2 DEF Filter!AcceptsOnlyRecent, FilterInv, Places
  <2> QED
    BY <1>5, <1>6, <2>3, <2>4, <2>5, <2>6 DEF FilterInv
<1> QED
  BY <1>10, <1>11, <1>12, <1>13, <1>14 DEF Filter!SetRxPacketFilter

LEMMA NextFilter ==
    ASSUME Filter!FilterAssumption
    PROVE  FilterInv /\ [Filter!Next]_(Filter!vars) => FilterInv'
<1> SUFFICES ASSUME FilterInv, [Filter!Next]_(Filter!vars) PROVE FilterInv'
  OBVIOUS
<1>1. FilterTypes'
  BY NextFilterTypes
<1>2. CASE UNCHANGED Filter!vars
  BY <1>2 DEF FilterInv, FilterTypes, Stored, AllIdle, ListRecent, Undisturbed, HoldsRecent,
     Programming, Places, Filter!FilterSettled, Filter!AcceptsOnlyRecent, Filter!TypeOK,
     Filter!vars, Filter!adapter, Filter!locals, Filter!history
<1> QED
  BY <1>1, <1>2, FilterRequest, FilterReset, FilterStore, FilterProgram DEF Filter!Next

\* FilterSettled and AcceptsOnlyRecent, with the types: whatever is asked for while a
\* reset of the chip programs it too, the loop stays in the list, a filter programmed
\* undisturbed is the one asked for, and never does the chip accept what nobody asked.
THEOREM FilterIsRight == Spec => []FilterRight
<1>1. FilterInv => FilterRight
  BY DEF FilterRight, FilterInv, FilterTypes
<1>2. Init => FilterInv
  BY InitFilter, InitOfEach, ComponentsAssumption
<1>3. FilterInv /\ [Next]_vars => FilterInv'
  BY NextFilter, StepOfEach, ComponentsAssumption
<1> QED
  BY <1>1, <1>2, <1>3, PTL DEF Spec
-----------------------------------------------------------------------------
(* The settings and the addresses: what a start reads is what the last one to    *)
(* write the station address register left there.                                *)

GivenIsCurrent == pnp # "none" => given = current

\* The chip was reset, or got power again after a reset, with the current address.
ChipHasCurrent == /\ running => pnp # "none"
                  /\ running /\ pnp = "D0" => idr = current

\* Where the station address register is all there is, each end of the driver but a
\* crash puts it back for the next start.
PutBack == pnp = "none" /\ source = "idr" /\ ~dirty => idr = "own"

\* The two parts of Settings!FieldsAsConfigured.
FieldsInRange ==
    \A k \in DOMAIN Settings!Property :
        field[k] \in Settings!Property[k].min .. Settings!Property[k].max

FieldsAsRead ==
    pnp # "none" /\ opened => \A k \in Keys \cap DOMAIN Settings!Property :
        registry[k] \in Settings!Property[k].min .. Settings!Property[k].max
            => field[k] = registry[k]

SettingsInv == /\ Settings!TypeOK /\ FieldsInRange /\ FieldsAsRead
               /\ Settings!PermanentIsOwn /\ GivenIsCurrent /\ ChipHasCurrent /\ PutBack

LEMMA DefaultsInRange ==
    \A k \in DOMAIN Settings!Property :
        /\ 0 \in Settings!Property[k].min .. Settings!Property[k].max
        /\ Settings!Property[k].default \in Settings!Property[k].min .. Settings!Property[k].max
  BY DEF Settings!Property

LEMMA InitSettings == ASSUME Settings!ConfigAssumption PROVE Settings!Init => SettingsInv
<1> SUFFICES ASSUME Settings!Init PROVE SettingsInv
  OBVIOUS
<1>1. Settings!TypeOK
  BY DEF Settings!Init, Settings!TypeOK, Settings!Addresses
<1>2. FieldsInRange
  BY DefaultsInRange DEF Settings!Init, FieldsInRange, Settings!NoSettings
<1> QED
  BY <1>1, <1>2 DEF Settings!Init, SettingsInv, FieldsAsRead, Settings!PermanentIsOwn,
     GivenIsCurrent, ChipHasCurrent, PutBack

\* A start finds the chip's own address where it was put back, and some valid one anyway.
LEMMA HwAddressIs ==
    ASSUME Settings!TypeOK
    PROVE  /\ Settings!HwAddress \in Settings!Addresses
           /\ (source = "idr" => idr = "own") => Settings!HwAddress = "own"
  BY DEF Settings!TypeOK, Settings!HwAddress, Settings!Valid, Settings!Addresses

LEMMA PrepareKeeps ==
    ASSUME Settings!ConfigAssumption, SettingsInv, Settings!Prepare
    PROVE  SettingsInv'
<1>1. LET told == opened' /\ network # Settings!Unset
          stored == IF told THEN network ELSE current
      IN    /\ opened' \in BOOLEAN
            /\ field' = IF opened'
                        THEN [k \in DOMAIN Settings!Property |-> Settings!Setting(k)]
                        ELSE field
            /\ override' = (override \/ (told /\ Settings!Valid(network)))
            /\ permanent' = Settings!HwAddress /\ idr' = Settings!HwAddress
            /\ current' = IF override' THEN Settings!HwAddress ELSE stored
            /\ given' = current'
  BY DEF Settings!Prepare
<1>2. /\ pnp = "none" /\ pnp' = "D0" /\ ~running
      /\ UNCHANGED <<source, registry, network, running, dirty>>
  BY DEF Settings!Prepare, SettingsInv, ChipHasCurrent
<1>3. Settings!TypeOK'
  <2>1. /\ idr' \in Settings!Addresses /\ permanent' \in Settings!Addresses
        /\ override' \in BOOLEAN /\ opened' \in BOOLEAN
    BY <1>1, HwAddressIs DEF SettingsInv, Settings!TypeOK
  <2>2. current' \in Settings!Addresses /\ given' \in Settings!Addresses
    BY <1>1, HwAddressIs DEF SettingsInv, Settings!TypeOK, Settings!Addresses, Settings!Unset
  <2> QED
    BY <1>2, <2>1, <2>2 DEF SettingsInv, Settings!TypeOK
<1>4. FieldsInRange'
  <2>1. \A k \in DOMAIN Settings!Property :
           Settings!Setting(k) \in Settings!Property[k].min .. Settings!Property[k].max
    BY DefaultsInRange DEF Settings!Setting
  <2>2. CASE opened'
    BY <1>1, <2>1, <2>2 DEF FieldsInRange
  <2>3. CASE ~opened'
    BY <1>1, <2>3 DEF SettingsInv, FieldsInRange
  <2> QED
    BY <2>2, <2>3
<1>5. FieldsAsRead'
  BY <1>1, <1>2 DEF FieldsAsRead, Settings!Setting
<1>6. Settings!PermanentIsOwn'
  BY <1>1, <1>2, HwAddressIs DEF SettingsInv, Settings!PermanentIsOwn, PutBack
<1> QED
  BY <1>1, <1>2, <1>3, <1>4, <1>5, <1>6
     DEF SettingsInv, GivenIsCurrent, ChipHasCurrent, PutBack

\* The adapter structure as it was, or zeroed.
LEMMA AdapterKept ==
    ASSUME FieldsInRange, UNCHANGED Settings!adapter \/ Settings!NewAdapter
    PROVE  FieldsInRange'
<1>1. field' = field \/ field' = Settings!NoSettings
  BY DEF Settings!adapter, Settings!NewAdapter
<1> QED
  BY <1>1, DefaultsInRange DEF FieldsInRange, Settings!NoSettings

LEMMA NextSettings ==
    ASSUME Settings!ConfigAssumption
    PROVE  SettingsInv /\ [Settings!Next]_(Settings!vars) => SettingsInv'
<1> SUFFICES ASSUME SettingsInv, [Settings!Next]_(Settings!vars) PROVE SettingsInv'
  OBVIOUS
<1> USE DEF SettingsInv, FieldsAsRead, Settings!TypeOK, Settings!PermanentIsOwn,
        GivenIsCurrent, ChipHasCurrent, PutBack
<1>1. ASSUME NEW k \in Keys, Settings!SetSetting(k) PROVE SettingsInv'
  <2>1. PICK v \in Settings!Offered[k] \cup {Settings!Missing} :
           registry' = [registry EXCEPT ![k] = v]
    BY <1>1 DEF Settings!SetSetting
  <2>2. \A j \in Keys : registry'[j] \in Settings!Offered[j] \cup {Settings!Missing}
    BY <2>1
  <2>3. UNCHANGED <<source, idr, network, field, permanent, current, override, given, pnp,
                    running, opened, dirty>> /\ pnp = "none"
    BY <1>1 DEF Settings!SetSetting, Settings!adapter
  <2> QED
    BY <2>2, <2>3 DEF FieldsInRange
<1>2. CASE Settings!SetNetworkAddress
  BY <1>2 DEF Settings!SetNetworkAddress, Settings!adapter, FieldsInRange
<1>3. CASE Settings!ResetLink \/ Settings!D0Exit \/ Settings!D0Entry
  <2>1. UNCHANGED <<source, registry, network, field, permanent, current, override, given,
                    opened, dirty>>
    BY <1>3 DEF Settings!ResetLink, Settings!D0Exit, Settings!D0Entry, Settings!adapter
  <2>2. /\ pnp # "none" /\ pnp' # "none" /\ idr' \in {idr, current}
        /\ running' \in BOOLEAN /\ pnp' \in {"none", "D0", "D3"}
        /\ running' /\ pnp' = "D0" => idr' = current
    <3>1. CASE Settings!ResetLink
      BY <3>1 DEF Settings!ResetLink
    <3>2. CASE Settings!D0Exit
      BY <3>2 DEF Settings!D0Exit
    <3>3. CASE Settings!D0Entry
      BY <3>3 DEF Settings!D0Entry
    <3> QED
      BY <1>3, <3>1, <3>2, <3>3
  <2> QED
    BY <2>1, <2>2 DEF FieldsInRange
<1>4. CASE Settings!Remove
  <2>1. FieldsInRange'
    BY <1>4, AdapterKept DEF Settings!Remove
  <2> QED
    BY <1>4, <2>1 DEF Settings!Remove, Settings!NewAdapter, Settings!adapter,
       Settings!Addresses
<1>5. CASE Settings!Crash \/ Settings!PowerLoss
  <2>1. FieldsInRange'
    BY <1>5, AdapterKept DEF Settings!Crash, Settings!PowerLoss
  <2> QED
    BY <1>5, <2>1 DEF Settings!Crash, Settings!PowerLoss, Settings!NewAdapter,
       Settings!Addresses
<1>6. CASE UNCHANGED Settings!vars
  BY <1>6 DEF Settings!vars, Settings!adapter, FieldsInRange
<1> QED
  BY <1>1, <1>2, <1>3, <1>4, <1>5, <1>6, PrepareKeeps DEF Settings!Next

-----------------------------------------------------------------------------
(* Speed and duplex: each register keeps to its own modes, so that what is        *)
(* written to one decides what is advertised of those; and a link runs at a mode *)
(* that is advertised.                                                           *)

LinkIsAdvertised ==
    mode # "none" => mode \in Medium!Advertised /\ status \in Medium!StatusBits(mode)

MediaInv == Medium!TypeOK /\ Medium!AdvertisesSetting /\ LinkIsAdvertised

\* The registers' modes are apart.
LEMMA ModesApart ==
    /\ Medium!Modes10 \cap Medium!ModesG = {} /\ Medium!Modes10 \cap Medium!Modes25 = {}
    /\ Medium!ModesG \cap Medium!Modes25 = {}
    /\ (Medium!Modes10 \cup Medium!ModesG \cup Medium!Modes25) \cap Medium!PauseBits = {}
    /\ Medium!Modes = Medium!Modes10 \cup Medium!ModesG \cup Medium!Modes25
  BY DEF Medium!Modes10, Medium!ModesG, Medium!Modes25, Medium!PauseBits, Medium!Modes

LEMMA ChosenModes ==
    ASSUME SpeedDuplex \in 0 .. 6
    PROVE  /\ Medium!Chosen \subseteq Medium!Modes
           /\ Medium!Chosen \cap Medium!Modes25 \in {{}, Medium!Modes25}
<1>1. CASE SpeedDuplex = 0
  BY <1>1, ModesApart DEF Medium!Chosen, Medium!Auto
<1>2. CASE SpeedDuplex \in 1 .. 6
  <2>1. Medium!Forced[SpeedDuplex] \in Medium!Modes10 \cup Medium!ModesG
    BY <1>2 DEF Medium!Forced, Medium!Modes10, Medium!ModesG
  <2>2. Medium!Chosen = {Medium!Forced[SpeedDuplex]}
    BY <1>2 DEF Medium!Chosen, Medium!Auto
  <2> QED
    BY <2>1, <2>2, ModesApart
<1> QED
  BY <1>1, <1>2

LEMMA PausesAre == ASSUME FlowControl \in 0 .. 3 PROVE Medium!Pause \subseteq Medium!PauseBits
  BY DEF Medium!Pause, Medium!PauseBits

\* What a chip can do, by the registers.
LEMMA AbilitiesAre ==
    ASSUME mediaChip \in Medium!Chip
    PROVE  /\ Medium!Modes10 \subseteq Medium!Abilities
           /\ Medium!Abilities \subseteq Medium!Modes
           /\ Medium!Listed \/ Medium!isRTL8125 => Medium!ModesG \subseteq Medium!Abilities
           /\ mediaChip = "a5" => Medium!Abilities = Medium!Modes
           /\ mediaChip = "a25" => Medium!Abilities = Medium!Modes \ {"5000f"}
  BY DEF Medium!Chip, Medium!Abilities, Medium!Listed, Medium!isRTL8125, Medium!Modes,
     Medium!Modes10, Medium!ModesG, Medium!Modes25

LEMMA InitMedia == ASSUME Medium!MediaAssumption PROVE Medium!Init => MediaInv
<1> SUFFICES ASSUME Medium!Init PROVE MediaInv
  OBVIOUS
<1>1. Medium!TypeOK
  BY DEF Medium!Init, Medium!TypeOK, Medium!Modes10, Medium!ModesG, Medium!PauseBits,
     Medium!NoReport
<1> QED
  BY <1>1 DEF Medium!Init, MediaInv, Medium!AdvertisesSetting, LinkIsAdvertised

\* re_ifmedia_upd and re_ifmedia_upd_8125.
LEMMA UpdateKeeps ==
    ASSUME Medium!MediaAssumption, MediaInv, Medium!Update
    PROVE  MediaInv'
<1>1. /\ mediaChip \in Medium!Chip /\ mediaChip' = mediaChip /\ mediaChip \in MediaChips
      /\ SpeedDuplex \in 0 .. 6 /\ SpeedDuplex' = SpeedDuplex
      /\ FlowControl \in 0 .. 3 /\ FlowControl' = FlowControl
      /\ mode' = "none" /\ shown' = shown
  BY DEF MediaInv, Medium!TypeOK, Medium!Update, Medium!MediaAssumption
<1>2. /\ anar \subseteq Medium!Modes10 \cup Medium!PauseBits /\ gbcr \subseteq Medium!ModesG
      /\ cr2500 \subseteq Medium!Modes25
  BY DEF MediaInv, Medium!TypeOK
<1>3. UNCHANGED <<Medium!Chosen, Medium!Abilities, Medium!Pause, Medium!Listed,
                  Medium!isRTL8125, Medium!PauseWritten>>
  BY <1>1 DEF Medium!Chosen, Medium!Abilities, Medium!Pause, Medium!Listed,
     Medium!isRTL8125, Medium!PauseWritten
<1>4. /\ anar' \in {Medium!NewAnar, Medium!NewAnar \cup Medium!Pause}
      /\ Medium!PauseWritten => anar' = Medium!NewAnar \cup Medium!Pause
  BY DEF Medium!Update, Medium!IfmediaUpd, Medium!IfmediaUpd8125
<1>5. /\ gbcr' \in {gbcr, Medium!NewGbcr}
      /\ Medium!Listed \/ Medium!isRTL8125 => gbcr' = Medium!NewGbcr
  BY DEF Medium!Update, Medium!IfmediaUpd, Medium!IfmediaUpd8125
<1>6. /\ cr2500' \subseteq Medium!Modes25
      /\ mediaChip = "a5" => cr2500' = Medium!Chosen \cap Medium!Modes25
      /\ mediaChip = "a25" => cr2500' \ {"5000f"} = (Medium!Chosen \cap Medium!Modes25) \ {"5000f"}
      /\ mediaChip = "kb" => "2500f" \notin cr2500'
  <2>1. CASE Medium!isRTL8125
    <3>1. cr2500' = Medium!NewCr2500 /\ mediaChip # "kb"
      BY <2>1 DEF Medium!Update, Medium!IfmediaUpd8125, Medium!isRTL8125
    <3>2. Medium!Modes25 = {"2500f", "5000f"}
      BY DEF Medium!Modes25
    <3> QED
      BY <1>1, <3>1, <3>2, ChosenModes DEF Medium!NewCr2500
  <2>2. CASE ~Medium!isRTL8125
    BY <1>2, <2>2 DEF Medium!Update, Medium!IfmediaUpd, Medium!isRTL8125
  <2> QED
    BY <2>1, <2>2
<1>7. /\ anar' \subseteq Medium!Modes10 \cup Medium!PauseBits
      /\ anar' \cap Medium!Modes10 = Medium!Chosen \cap Medium!Modes10
      /\ Medium!PauseWritten => anar' \cap Medium!PauseBits = Medium!Pause
  BY <1>1, <1>2, <1>4, PausesAre, ModesApart DEF Medium!NewAnar
<1>8. /\ gbcr' \subseteq Medium!ModesG
      /\ Medium!Listed \/ Medium!isRTL8125 => gbcr' = Medium!Chosen \cap Medium!ModesG
  BY <1>2, <1>5 DEF Medium!NewGbcr
<1>9. Medium!TypeOK'
  BY <1>1, <1>3, <1>6, <1>7, <1>8 DEF MediaInv, Medium!TypeOK
<1>10. Medium!Advertised' =
          (anar' \cup gbcr' \cup cr2500') \cap Medium!Modes \cap Medium!Abilities
  BY <1>3 DEF Medium!Advertised
<1>11. Medium!Advertised' \cap Medium!Modes10 = Medium!Chosen \cap Medium!Modes10
  BY <1>1, <1>6, <1>7, <1>8, <1>10, AbilitiesAre, ModesApart
<1>12. ASSUME Medium!Listed \/ Medium!isRTL8125
       PROVE  Medium!Advertised' \ Medium!Modes25
                 = (Medium!Chosen \cap Medium!Abilities) \ Medium!Modes25
  <2>1. Medium!Advertised' \cap Medium!ModesG = Medium!Chosen \cap Medium!ModesG
    BY <1>1, <1>6, <1>7, <1>8, <1>10, <1>12, AbilitiesAre, ModesApart
  <2>2. Medium!Advertised' \subseteq Medium!Modes /\ Medium!Chosen \subseteq Medium!Modes
    BY <1>1, <1>10, ChosenModes
  <2>3. Medium!Advertised' \subseteq Medium!Abilities
    BY <1>10
  <2> QED
    BY <1>1, <1>11, <1>12, <2>1, <2>2, <2>3, AbilitiesAre, ModesApart
<1>13. ASSUME Medium!isRTL8125
       PROVE  Medium!Advertised' = Medium!Chosen \cap Medium!Abilities
  <2>1. mediaChip \in {"a25", "a5"}
    BY <1>13 DEF Medium!isRTL8125
  <2>2. Medium!Advertised' \cap Medium!Modes25
           = (Medium!Chosen \cap Medium!Abilities) \cap Medium!Modes25
    <3>1. Medium!Advertised' \cap Medium!Modes25
             = cr2500' \cap Medium!Modes25 \cap Medium!Abilities
      BY <1>7, <1>8, <1>10, ModesApart
    <3>2. CASE mediaChip = "a5"
      BY <1>6, <3>1, <3>2
    <3>3. CASE mediaChip = "a25"
      BY <1>1, <1>6, <3>1, <3>3, AbilitiesAre
    <3> QED
      BY <2>1, <3>2, <3>3
  <2> QED
    BY <1>12, <1>13, <2>2
<1>14. mediaChip = "kb" => "2500f" \notin Medium!Advertised'
  <2>1. "2500f" \notin Medium!Modes10 \cup Medium!ModesG \cup Medium!PauseBits
    BY DEF Medium!Modes10, Medium!ModesG, Medium!PauseBits
  <2> QED
    BY <1>6, <1>7, <1>8, <1>10, <2>1
<1>15. Medium!AdvertisesSetting'
  BY <1>1, <1>3, <1>7, <1>11, <1>12, <1>13, <1>14 DEF Medium!AdvertisesSetting
<1> QED
  BY <1>1, <1>9, <1>15 DEF MediaInv, LinkIsAdvertised

LEMMA NextMedia ==
    ASSUME Medium!MediaAssumption
    PROVE  MediaInv /\ [Medium!Next]_(Medium!vars) => MediaInv'
<1> SUFFICES ASSUME MediaInv, [Medium!Next]_(Medium!vars) PROVE MediaInv'
  OBVIOUS
<1>1. CASE Medium!Reconfigure
  BY <1>1 DEF Medium!Reconfigure, MediaInv, Medium!TypeOK, Medium!AdvertisesSetting,
     LinkIsAdvertised, Medium!regs, Medium!NoReport
<1>2. ASSUME UNCHANGED <<mediaChip, SpeedDuplex, FlowControl, anar, gbcr, cr2500, updated>>
      PROVE  Medium!AdvertisesSetting' /\ Medium!Advertised' = Medium!Advertised
             /\ Medium!Abilities' = Medium!Abilities
  BY <1>2 DEF MediaInv, Medium!AdvertisesSetting, Medium!Advertised, Medium!Abilities,
     Medium!Chosen, Medium!Pause, Medium!Listed, Medium!isRTL8125, Medium!PauseWritten
<1>3. CASE Medium!Negotiate
  <2>1. UNCHANGED <<mediaChip, SpeedDuplex, FlowControl, anar, gbcr, cr2500, updated, shown>>
    BY <1>3 DEF Medium!Negotiate, Medium!regs
  <2>2. mode' \in Medium!Advertised /\ status' \in Medium!StatusBits(mode')
    BY <1>3 DEF Medium!Negotiate
  <2>3. mode' \in Medium!Abilities
    BY <2>2 DEF Medium!Advertised
  <2>4. Medium!TypeOK'
    BY <1>2, <2>1, <2>3 DEF MediaInv, Medium!TypeOK
  <2>5. LinkIsAdvertised'
    BY <1>2, <2>1, <2>2 DEF LinkIsAdvertised
  <2> QED
    BY <1>2, <2>1, <2>4, <2>5 DEF MediaInv
<1>4. CASE Medium!LinkLost
  BY <1>2, <1>4 DEF Medium!LinkLost, Medium!regs, MediaInv, Medium!TypeOK,
     LinkIsAdvertised
<1>5. CASE Medium!CheckLinkStatus
  <2>1. UNCHANGED <<mediaChip, SpeedDuplex, FlowControl, anar, gbcr, cr2500, updated, mode, status>>
    BY <1>5 DEF Medium!CheckLinkStatus, Medium!regs
  <2>2. /\ shown'.speed \in {0, 10, 100, 1000, 2500, 5000} /\ shown'.full \in BOOLEAN
    <3>1. \A b \in Medium!Visible : Medium!LinkSpeed(b) \in {10, 100, 1000, 2500, 5000}
      BY DEF Medium!Visible, Medium!LinkSpeed
    <3>2. Medium!Full(mode) \in BOOLEAN
      BY DEF Medium!Full
    <3>3. CASE mode = "none"
      BY <1>5, <3>3 DEF Medium!CheckLinkStatus, Medium!NoReport
    <3>4. CASE mode # "none"
      <4> DEFINE s == IF status \in Medium!Visible THEN Medium!LinkSpeed(status) ELSE 0
      <4>1. s \in {0, 10, 100, 1000, 2500, 5000}
        BY <3>1
      <4>2. shown' = [speed |-> s, full |-> Medium!Full(mode)]
        BY <1>5, <3>4 DEF Medium!CheckLinkStatus
      <4> HIDE DEF s
      <4> QED
        BY <3>2, <4>1, <4>2
    <3> QED
      BY <3>3, <3>4
  <2>3. Medium!TypeOK'
    BY <1>2, <2>1, <2>2 DEF MediaInv, Medium!TypeOK
  <2>4. LinkIsAdvertised'
    BY <1>2, <2>1 DEF MediaInv, LinkIsAdvertised
  <2> QED
    BY <1>2, <2>1, <2>3, <2>4 DEF MediaInv
<1>6. CASE UNCHANGED Medium!vars
  <2>1. UNCHANGED <<mediaChip, SpeedDuplex, FlowControl, anar, gbcr, cr2500, updated, mode,
                    status, shown>>
    BY <1>6 DEF Medium!vars, Medium!regs, Medium!link
  <2>2. Medium!TypeOK'
    BY <1>2, <2>1 DEF MediaInv, Medium!TypeOK
  <2>3. LinkIsAdvertised'
    BY <1>2, <2>1 DEF MediaInv, LinkIsAdvertised
  <2> QED
    BY <1>2, <2>1, <2>2, <2>3 DEF MediaInv
<1> QED
  BY <1>1, <1>3, <1>4, <1>5, <1>6, UpdateKeeps DEF Medium!Next

\* The status bit of a mode the link may run at is one the driver sees, and stands for
\* that speed.
LEMMA SeesSpeed ==
    ASSUME Medium!MediaAssumption, MediaInv, mode # "none", updated,
           Medium!Listed \/ Medium!isRTL8125
    PROVE  /\ status \in Medium!Visible /\ Medium!LinkSpeed(status) = Medium!Speed(mode)
           /\ Medium!Speed(mode) <= Medium!MaxSpeed
<1>1. /\ mode \in Medium!Abilities /\ status \in Medium!StatusBits(mode)
      /\ mediaChip = "kb" => mode # "2500f"
  BY DEF MediaInv, LinkIsAdvertised, Medium!AdvertisesSetting, Medium!Advertised
<1>2. mediaChip \in {"gbe", "kb", "a25", "a5"}
  BY DEF Medium!Listed, Medium!isRTL8125
<1>3. mode \in Medium!Modes
  BY <1>1, <1>2, AbilitiesAre DEF Medium!Chip
<1>4. /\ mode = "5000f" => mediaChip = "a5"
      /\ mode = "2500f" => mediaChip \in {"a25", "a5"}
  BY <1>1, <1>2 DEF Medium!Abilities, Medium!Modes, Medium!Modes10, Medium!ModesG,
     Medium!Modes25
<1>5. mode \in {"10h", "10f", "100h", "100f", "1000h", "1000f", "2500f", "5000f"}
  BY <1>3 DEF Medium!Modes, Medium!Modes10, Medium!ModesG, Medium!Modes25
<1>6. CASE mode \in {"10h", "10f", "100h", "100f", "1000h", "1000f"}
  BY <1>1, <1>2, <1>6 DEF Medium!StatusBits, Medium!Visible, Medium!LinkSpeed,
     Medium!Speed, Medium!MaxSpeed, Medium!ModesG
<1>7. CASE mode = "2500f"
  BY <1>1, <1>4, <1>7 DEF Medium!StatusBits, Medium!Visible, Medium!LinkSpeed,
     Medium!Speed, Medium!MaxSpeed, Medium!ModesG, Medium!isRTL8125
<1>8. CASE mode = "5000f"
  BY <1>1, <1>4, <1>8 DEF Medium!StatusBits, Medium!Visible, Medium!LinkSpeed,
     Medium!Speed, Medium!MaxSpeed, Medium!ModesG, Medium!isRTL8125
<1> QED
  BY <1>5, <1>6, <1>7, <1>8

\* FieldsAsConfigured, PermanentIsOwn, ListensToGiven and AdvertisesSetting, with the types,
\* and the action property ReportsTrueSpeed: over any course of starts, low power,
\* removals, crashes and power losses, whatever the registry holds, and for every kind of
\* chip, partner, setting and rest of another driver in the registers.
THEOREM SettingsAreRight == Spec => SettingsRight
<1>1. /\ SettingsInv => Settings!TypeOK /\ Settings!FieldsAsConfigured
                        /\ Settings!ListensToGiven /\ Settings!PermanentIsOwn
      /\ MediaInv => Medium!TypeOK /\ Medium!AdvertisesSetting
  BY DEF SettingsInv, FieldsInRange, FieldsAsRead, GivenIsCurrent, ChipHasCurrent,
     Settings!FieldsAsConfigured, Settings!ListensToGiven, MediaInv
<1>2. Init => SettingsInv /\ MediaInv
  BY InitSettings, InitMedia, InitOfEach, ComponentsAssumption
<1>3. SettingsInv /\ [Next]_vars => SettingsInv'
  BY NextSettings, StepOfEach, ComponentsAssumption
<1>4. MediaInv /\ [Next]_vars => MediaInv'
  BY NextMedia, StepOfEach, ComponentsAssumption
<1>5. MediaInv /\ [Next]_vars =>
        [Medium!CheckLinkStatus /\ mode # "none" /\ updated
             /\ (Medium!Listed \/ Medium!isRTL8125) =>
           /\ shown'.speed = Medium!Speed(mode)
           /\ shown'.speed <= Medium!MaxSpeed]_(Medium!vars)
  BY SeesSpeed, StepOfEach, ComponentsAssumption DEF Medium!CheckLinkStatus
<1> QED
  BY <1>1, <1>2, <1>3, <1>4, <1>5, PTL DEF Spec, SettingsRight, Medium!ReportsTrueSpeed
-----------------------------------------------------------------------------
(* The window of ERIAR: an access has done its first shift bytes and has len to  *)
(* go, in at most two words.  What is read so far is those bytes, and what is     *)
(* written so far those over what was there before.                              *)

\* How many bytes the function it is in was asked for.
Wanted == IF op = "read" /\ call.kind = "update" THEN call.from ELSE call.n

CallOK == eriPc # "idle" =>
    /\ call.kind \in Window!CallKinds /\ call.addr \in Window!Space /\ call.n \in 0 .. 5
    /\ call.addr + call.n <= 8
    /\ call.kind = "write" => /\ call.v \in Window!Value
                              /\ \A k \in 0 .. 3 : k >= call.n => call.v[k] = {}
    /\ call.kind = "update" => /\ call.addr \in {0, 4} /\ call.from \in {1, 4}
                               /\ call.n \in 1 .. call.from /\ call.low \in Window!Byte
    /\ op = "read" => call.kind # "write"
    /\ op = "write" => call.kind # "read"

Busy == eriPc \in {"word", "reading", "writing"}

Along == Busy =>
    /\ allowed /\ Wanted \in 1 .. 4 /\ len >= 1
    /\ addr = call.addr + shift /\ len + shift = Wanted
    /\ shift = 0 \/ (shift = 4 - (call.addr % 4) /\ addr % 4 = 0)

\* The register while it is polled and what may still happen when it no longer is.
WindowOK ==
    /\ eriPc = "reading" => /\ ~eriar.write /\ eriar.addr = Window!Align(addr)
                            /\ eriar.flag = eriServed
                            /\ eriServed => eridr = Window!Word(mem, Window!Align(addr))
    /\ eriPc = "writing" => /\ eriar.write /\ eriar.addr = Window!Align(addr)
                            /\ eriar.flag = ~eriServed /\ op = "write"
    /\ eriPc \in {"idle", "word", "done"} => (eriTimely => eriServed)
    /\ eriPc = "idle" => op = "read" /\ eriServed
    /\ ~eriServed /\ eriar.write =>
          /\ call.kind # "read" /\ call.n \in 1 .. 4 /\ allowed
          /\ \E b \in Window!Space : Window!Over(b) /\ Window!Align(b) = eriar.addr
    /\ op = "read" => ~eriar.write /\ mem = before
    /\ before \in [Window!Space -> Window!Byte]

BytesFrom(M, a, n) == [k \in 0 .. 3 |-> IF k < n THEN M[a + k] ELSE {}]

Overlaid(B, V, a, n) ==
    [b \in Window!Space |-> IF a <= b /\ b < a + n THEN V[b - a] ELSE B[b]]

ReadSoFar == op = "read" /\ eriTimely =>
    /\ eriPc \in {"word", "reading"} => value = BytesFrom(mem, call.addr, shift)
    /\ eriPc = "done" /\ allowed /\ Wanted \in 1 .. 4 =>
          value = BytesFrom(mem, call.addr, Wanted)

\* The bytes done when the word it is at is done.
Ahead(s, l, a, n) == IF Window!Last(s, l) THEN n ELSE 4 - (a % 4)

WriteSoFar == op = "write" /\ eriTimely =>
    /\ call.kind = "write" => value = call.v
    /\ call.kind = "update" /\ allowed =>
          value = [BytesFrom(before, call.addr, call.from) EXCEPT ![0] = call.low]
    /\ eriPc \in {"word", "reading"} => mem = Overlaid(before, value, call.addr, shift)
    /\ eriPc = "writing" =>
          LET n == Ahead(addr % 4, len, call.addr, call.n)
          IN  /\ eridr = Window!Word(Overlaid(before, value, call.addr, n),
                                     Window!Align(addr))
              /\ mem = Overlaid(before, value, call.addr, IF eriServed THEN n ELSE shift)
    /\ eriPc = "done" /\ allowed /\ call.n \in 1 .. 4 =>
          mem = Overlaid(before, value, call.addr, call.n)

WindowInv == /\ Window!TypeOK /\ CallOK /\ Along /\ WindowOK /\ Window!LateStaysInWords
             /\ ReadSoFar /\ WriteSoFar

\* Places in a word.
LEMMA AlignIs ==
    \A a \in 0 .. 8 :
        /\ a % 4 = (IF a < 4 THEN a ELSE IF a < 8 THEN a - 4 ELSE 0)
        /\ Window!Align(a) = (IF a < 4 THEN 0 ELSE IF a < 8 THEN 4 ELSE 8)
        /\ Window!Align(Window!Align(a)) = Window!Align(a)
<1> TAKE a \in 0 .. 8
<1>1. a % 4 = (IF a < 4 THEN a ELSE IF a < 8 THEN a - 4 ELSE 0)
  OBVIOUS
<1>2. Window!Align(a) = (IF a < 4 THEN 0 ELSE IF a < 8 THEN 4 ELSE 8)
  BY <1>1 DEF Window!Align
<1>3. 0 % 4 = 0 /\ 4 % 4 = 0 /\ 8 % 4 = 0
  OBVIOUS
<1> QED
  BY <1>1, <1>2, <1>3 DEF Window!Align

\* Words are values, and so is what is made of them.
LEMMA ValuesAre ==
    /\ Window!Zeroes \in Window!Value /\ Window!Ones \in Window!Value
    /\ \A M \in [Window!Space -> Window!Byte] : \A a \in Window!Space :
           Window!Word(M, a) \in Window!Value
    /\ \A V, W \in Window!Value : \A s, u \in 0 .. 3 : \A n \in Nat :
           /\ Window!ReadMerge(V, W, s, n, u) \in Window!Value
           /\ Window!WriteMerge(V, W, s, n, u) \in Window!Value
<1>1. /\ Window!Zeroes \in Window!Value /\ Window!Ones \in Window!Value
  BY DEF Window!Zeroes, Window!Ones, Window!Value, Window!Byte
<1>2. ASSUME NEW M \in [Window!Space -> Window!Byte], NEW a \in Window!Space
      PROVE  Window!Word(M, a) \in Window!Value
  <2>1. Window!Align(a) \in {0, 4}
    BY AlignIs DEF Window!Space
  <2> QED
    BY <2>1 DEF Window!Word, Window!Value, Window!Space
<1>3. ASSUME NEW V \in Window!Value, NEW u \in 0 .. 3
      PROVE  /\ Window!ShiftUp(V, u) \in Window!Value
             /\ Window!ShiftDown(V, u) \in Window!Value
             /\ \A K : Window!And(V, K) \in Window!Value
  BY DEF Window!ShiftUp, Window!ShiftDown, Window!And, Window!Value, Window!Byte
<1>4. ASSUME NEW V \in Window!Value, NEW W \in Window!Value
      PROVE  Window!Or(V, W) \in Window!Value
  BY DEF Window!Or, Window!Value, Window!Byte
<1> QED
  BY <1>1, <1>2, <1>3, <1>4 DEF Window!ReadMerge, Window!WriteMerge

\* A read takes from a word the bytes that are asked for of it.
LEMMA ReadTakes ==
    ASSUME NEW M \in [Window!Space -> Window!Byte], NEW a \in Window!Space,
           NEW n \in 1 .. 4, a + n <= 8,
           NEW h \in 0 .. 3, n - h >= 1, h = 0 \/ (h = 4 - (a % 4) /\ (a + h) % 4 = 0)
    PROVE  Window!ReadMerge(BytesFrom(M, a, h), Window!Word(M, Window!Align(a + h)),
                            (a + h) % 4, n - h, h)
             = BytesFrom(M, a, Ahead((a + h) % 4, n - h, a, n))
<1> DEFINE s == (a + h) % 4
           W == Window!Word(M, Window!Align(a + h))
           T == Window!And(W, Window!Mask(s, n - h))
           D == Window!ShiftDown(T, s)
           U == Window!ShiftUp(D, h)
           t == Ahead(s, n - h, a, n)
<1>1. s \in 0 .. 3 /\ Window!Align(a + h) = a + h - s
      /\ Window!Align(Window!Align(a + h)) = a + h - s
  BY AlignIs DEF Window!Space, Window!Align
<1> HIDE DEF s
<1>2. \A k \in 0 .. 3 : W[k] = M[a + h - s + k]
  BY <1>1 DEF Window!Word
<1> HIDE DEF W
<1>3. \A k \in 0 .. 3 : T[k] = IF s <= k /\ k < s + (n - h) THEN W[k] ELSE {}
  BY <1>1 DEF Window!And, Window!Mask
<1> HIDE DEF T
<1>4. \A k \in 0 .. 3 : D[k] = IF k + s <= 3 THEN T[k + s] ELSE {}
  BY <1>1 DEF Window!ShiftDown
<1> HIDE DEF D
<1>5. \A k \in 0 .. 3 : U[k] = IF k >= h THEN D[k - h] ELSE {}
  BY <1>1 DEF Window!ShiftUp
<1> HIDE DEF U
<1>6. \A k \in 0 .. 3 : k >= h => D[k - h] = IF k - h + s <= 3 /\ k < n THEN M[a + k] ELSE {}
  <2> TAKE k \in 0 .. 3
  <2> HAVE k >= h
  <2>1. k - h \in 0 .. 3
    OBVIOUS
  <2>2. D[k - h] = IF k - h + s <= 3 THEN T[k - h + s] ELSE {}
    BY <1>4, <2>1
  <2>3. CASE k - h + s <= 3
    <3>1. k - h + s \in 0 .. 3
      BY <1>1, <2>1, <2>3
    <3>2. T[k - h + s] = IF k < n THEN W[k - h + s] ELSE {}
      BY <1>1, <1>3, <3>1
    <3>3. W[k - h + s] = M[a + h - s + (k - h + s)]
      BY <1>2, <3>1
    <3>4. a + h - s + (k - h + s) = a + k
      BY <1>1 DEF Window!Space
    <3> QED
      BY <2>2, <2>3, <3>2, <3>3, <3>4
  <2> QED
    BY <2>2, <2>3
<1>7. /\ h = 0 => s = a % 4
      /\ h # 0 => s = 0 /\ t = n
      /\ t = IF n - h <= 4 - s THEN n ELSE 4 - (a % 4)
  BY <1>1 DEF s, Ahead, Window!Last, Window!Space
<1>8. a % 4 \in 0 .. 3
  BY AlignIs DEF Window!Space
<1> HIDE DEF t
<1>9. \A k \in 0 .. 3 :
         BytesFrom(M, a, h)[k] \cup U[k] = IF k < t THEN M[a + k] ELSE {}
  <2> TAKE k \in 0 .. 3
  <2>1. BytesFrom(M, a, h)[k] = IF k < h THEN M[a + k] ELSE {}
    BY DEF BytesFrom
  <2>2. CASE k < h
    BY <1>1, <1>5, <1>7, <1>8, <2>1, <2>2
  <2>3. CASE k >= h
    <3>1. U[k] = IF k - h + s <= 3 /\ k < n THEN M[a + k] ELSE {}
      BY <1>5, <1>6, <2>3
    <3>2. (k - h + s <= 3 /\ k < n) <=> k < t
      BY <1>1, <1>7, <1>8, <2>3
    <3> QED
      BY <2>1, <2>3, <3>1, <3>2
  <2> QED
    BY <2>2, <2>3
<1>10. Window!ReadMerge(BytesFrom(M, a, h), W, s, n - h, h)
          = Window!Or(BytesFrom(M, a, h), U)
  BY DEF Window!ReadMerge, U, D, T
<1> QED
  BY <1>9, <1>10 DEF Window!Or, BytesFrom, s, W, t
\* A byte that is written comes from the value.
LEMMA InPlace ==
    ASSUME NEW h \in 0 .. 3, NEW s \in 0 .. 3, NEW n \in 1 .. 4, NEW k \in 0 .. 3,
           h = 0 \/ s = 0, s <= k, k < s + (n - h)
    PROVE  k + h - s \in 0 .. 3 /\ k + h <= 3
OBVIOUS

\* A write leaves in a word the bytes that are to be written and those around them;
\* bytes of the value beyond its length do no harm if they are those that are there.
LEMMA WriteLeaves ==
    ASSUME NEW B \in [Window!Space -> Window!Byte], NEW V \in Window!Value,
           NEW a \in Window!Space, NEW n \in 1 .. 4, a + n <= 8,
           NEW h \in 0 .. 3, n - h >= 1, h = 0 \/ (h = 4 - (a % 4) /\ (a + h) % 4 = 0),
           \A k \in 0 .. 3 : k >= n => V[k] \subseteq B[a + k]
    PROVE  LET w == Window!Align(a + h)
               t == Ahead((a + h) % 4, n - h, a, n)
           IN  Window!WriteMerge(V, Window!Word(Overlaid(B, V, a, h), w),
                                 (a + h) % 4, n - h, h)
                 = Window!Word(Overlaid(B, V, a, t), w)
<1> DEFINE s == (a + h) % 4
           w == Window!Align(a + h)
           t == Ahead(s, n - h, a, n)
           M == Overlaid(B, V, a, h)
           R == Overlaid(B, V, a, t)
           W == Window!Word(M, w)
           T == Window!And(W, (0 .. 3) \ Window!Mask(s, n - h))
           U == Window!ShiftUp(V, s)
           D == Window!ShiftDown(U, h)
<1>1. s \in 0 .. 3 /\ w \in {0, 4} /\ w = a + h - s /\ Window!Align(w) = a + h - s
  BY AlignIs DEF Window!Space, Window!Align
<1>2. /\ h = 0 => s = a % 4
      /\ h # 0 => s = 0 /\ t = n
      /\ t = IF n - h <= 4 - s THEN n ELSE 4 - (a % 4)
  BY <1>1 DEF s, Ahead, Window!Last, Window!Space
<1>3. a % 4 \in 0 .. 3
  BY AlignIs DEF Window!Space
<1> HIDE DEF s, t, w
<1>4. \A b \in Window!Space :
         /\ M[b] = IF a <= b /\ b < a + h THEN V[b - a] ELSE B[b]
         /\ R[b] = IF a <= b /\ b < a + t THEN V[b - a] ELSE B[b]
  BY DEF Overlaid
<1> HIDE DEF M, R
<1>5. \A k \in 0 .. 3 : W[k] = M[a + h - s + k]
  BY <1>1 DEF Window!Word
<1>6. \A k \in 0 .. 3 : T[k] = IF s <= k /\ k < s + (n - h) THEN {} ELSE W[k]
  BY <1>1 DEF Window!And, Window!Mask
<1>7. \A k \in 0 .. 3 : U[k] = IF k >= s THEN V[k - s] ELSE {}
  BY <1>1 DEF Window!ShiftUp
<1>8. \A k \in 0 .. 3 : D[k] = IF k + h <= 3 THEN U[k + h] ELSE {}
  BY <1>1 DEF Window!ShiftDown
<1> HIDE DEF W, T, U, D
<1>9. \A k \in 0 .. 3 :
         D[k] = IF k + h - s \in 0 .. 3 /\ k + h <= 3 THEN V[k + h - s] ELSE {}
  <2> TAKE k \in 0 .. 3
  <2>1. CASE k + h <= 3
    <3>1. k + h \in 0 .. 3
      BY <2>1
    <3>2. U[k + h] = IF k + h >= s THEN V[k + h - s] ELSE {}
      <4>1. U[k + h] = IF k + h >= s THEN V[(k + h) - s] ELSE {}
        BY <1>7, <3>1
      <4>2. (k + h) - s = k + h - s
        BY <1>1
      <4> QED
        BY <4>1, <4>2
    <3>3. k + h >= s <=> k + h - s \in 0 .. 3
      BY <1>1, <2>1
    <3> QED
      BY <1>8, <2>1, <3>2, <3>3
  <2> QED
    BY <1>8, <2>1
<1>10. \A k \in 0 .. 3 : T[k] \cup D[k] = R[a + h - s + k]
  <2> TAKE k \in 0 .. 3
  <2> DEFINE b == a + h - s + k
  <2>1. b \in Window!Space /\ b - a = k + h - s
    BY <1>1 DEF Window!Space
  <2> HIDE DEF b
  <2>2. CASE s <= k /\ k < s + (n - h)
    <3>1. k + h - s \in 0 .. 3 /\ k + h <= 3
      BY <1>1, <1>2, <2>2, InPlace
    <3>2. a <= b /\ b < a + t
      BY <1>1, <1>2, <1>3, <2>1, <2>2 DEF Window!Space
    <3>3. R[b] = V[k + h - s]
      BY <1>4, <2>1, <3>2
    <3> QED
      BY <1>6, <1>9, <2>2, <3>1, <3>3 DEF b
  <2>3. CASE k < s
    <3>1. h = 0 /\ k + h - s \notin 0 .. 3
      BY <1>1, <1>2, <2>3
    <3>2. D[k] = {}
      BY <1>9, <3>1
    <3>3. T[k] = M[b] /\ ~(a <= b)
      BY <1>1, <1>5, <1>6, <2>1, <2>3, <3>1 DEF b, Window!Space
    <3>4. M[b] = B[b] /\ R[b] = B[b]
      BY <1>4, <2>1, <3>3
    <3> QED
      BY <3>2, <3>3, <3>4 DEF b
  <2>4. CASE k >= s + (n - h)
    <3>1. t = n /\ ~(b < a + n) /\ ~(b < a + h)
      BY <1>1, <1>2, <2>1, <2>4 DEF Window!Space
    <3>2. M[b] = B[b] /\ R[b] = B[b]
      BY <1>4, <2>1, <3>1
    <3>3. T[k] = B[b]
      BY <1>1, <1>5, <1>6, <2>4, <3>2 DEF b
    <3>4. D[k] \subseteq B[b]
      <4>1. CASE k + h - s \in 0 .. 3 /\ k + h <= 3
        <5>1. k + h - s >= n /\ a + (k + h - s) = b
          BY <1>1, <2>1, <2>4 DEF Window!Space
        <5>2. V[k + h - s] \subseteq B[a + (k + h - s)]
          BY <4>1, <5>1
        <5> QED
          BY <1>9, <4>1, <5>1, <5>2
      <4> QED
        BY <1>9, <4>1
    <3> QED
      BY <3>2, <3>3, <3>4 DEF b
  <2> QED
    BY <1>1, <2>2, <2>3, <2>4
<1>11. Window!WriteMerge(V, W, s, n - h, h) = Window!Or(T, D)
  BY DEF Window!WriteMerge, T, D, U
<1>12. Window!Word(R, w) = [k \in 0 .. 3 |-> R[a + h - s + k]]
  BY <1>1 DEF Window!Word
<1>13. Window!WriteMerge(V, W, s, n - h, h) = Window!Word(R, w)
  BY <1>10, <1>11, <1>12 DEF Window!Or
<1> QED
  BY <1>13 DEF W, M, R, t, s, w

\* The registers when the chip has put a word among them.
WithWord(M, w, W) ==
    [b \in Window!Space |-> IF Window!Align(b) = w THEN W[b % 4] ELSE M[b]]

\* When the chip writes the word, the registers are what they should be then.
LEMMA ChipWrites ==
    ASSUME NEW B \in [Window!Space -> Window!Byte], NEW V, NEW a \in Window!Space,
           NEW n \in 1 .. 4, a + n <= 8,
           NEW h \in 0 .. 3, n - h >= 1, h = 0 \/ (h = 4 - (a % 4) /\ (a + h) % 4 = 0)
    PROVE  LET w == Window!Align(a + h)
               t == Ahead((a + h) % 4, n - h, a, n)
           IN  WithWord(Overlaid(B, V, a, h), w, Window!Word(Overlaid(B, V, a, t), w))
                 = Overlaid(B, V, a, t)
<1> DEFINE s == (a + h) % 4
           w == Window!Align(a + h)
           t == Ahead(s, n - h, a, n)
           R == Overlaid(B, V, a, t)
           W == Window!Word(R, w)
<1>1. s \in 0 .. 3 /\ w \in {0, 4} /\ w = a + h - s /\ Window!Align(w) = w
  BY AlignIs DEF Window!Space, Window!Align
<1>2. /\ h = 0 => s = a % 4
      /\ h # 0 => s = 0 /\ t = n
      /\ t = IF n - h <= 4 - s THEN n ELSE 4 - (a % 4)
  BY <1>1 DEF s, Ahead, Window!Last, Window!Space
<1>3. a % 4 \in 0 .. 3
  BY AlignIs DEF Window!Space
<1> HIDE DEF s, t, w
<1>4. \A k \in 0 .. 3 : W[k] = R[w + k]
  BY <1>1 DEF Window!Word
<1>5. \A b \in Window!Space :
         R[b] = IF Window!Align(b) = w THEN W[b % 4] ELSE Overlaid(B, V, a, h)[b]
  <2> TAKE b \in Window!Space
  <2>1. b % 4 \in 0 .. 3 /\ Window!Align(b) \in {0, 4} /\ b = Window!Align(b) + (b % 4)
    BY AlignIs DEF Window!Space
  <2>2. CASE Window!Align(b) = w
    BY <1>4, <2>1, <2>2
  <2>3. CASE Window!Align(b) # w
    <3>1. ~(w <= b /\ b < w + 4)
      BY <1>1, <2>1, <2>3
    <3>2. (a <= b /\ b < a + t) <=> (a <= b /\ b < a + h)
      BY <1>1, <1>2, <1>3, <3>1 DEF Window!Space
    <3> QED
      BY <2>3, <3>2 DEF R, Overlaid
  <2> QED
    BY <2>2, <2>3
<1>6. R = [b \in Window!Space |-> R[b]]
  BY DEF R, Overlaid
<1> HIDE DEF R, W
<1>7. WithWord(Overlaid(B, V, a, h), w, W) = R
  BY <1>5, <1>6 DEF WithWord
<1> QED
  BY <1>7 DEF R, W, t, s, w
LEMMA InitWindow == ASSUME Window!WindowAssumption PROVE Window!Init => WindowInv
<1> SUFFICES ASSUME Window!Init PROVE WindowInv
  OBVIOUS
<1>1. mem \in [Window!Space -> Window!Byte] /\ before = mem
  BY DEF Window!Init, Window!WindowAssumption
<1>2. Window!TypeOK
  BY <1>1, ValuesAre DEF Window!Init, Window!TypeOK, Window!WindowAssumption
<1> QED
  BY <1>1, <1>2 DEF Window!Init, WindowInv, CallOK, Along, Busy, WindowOK, ReadSoFar,
     WriteSoFar, Window!LateStaysInWords

LEMMA CallsAre ==
    ASSUME NEW c \in Window!Calls, Window!Legal(c)
    PROVE  /\ c.kind \in Window!CallKinds /\ c.addr \in Window!Space /\ c.n \in 0 .. 5
           /\ c.addr + c.n <= 8
           /\ c.kind = "write" => /\ c.v \in Window!Value
                                  /\ \A k \in 0 .. 3 : k >= c.n => c.v[k] = {}
           /\ c.kind = "update" => /\ c.addr \in {0, 4} /\ c.from \in {1, 4}
                                   /\ c.n \in 1 .. c.from /\ c.low \in Window!Byte
<1>1. CASE \E a \in Window!Space, k \in 0 .. 5 : c = [kind |-> "read", addr |-> a, n |-> k]
  BY <1>1 DEF Window!Legal, Window!CallKinds
<1>2. CASE \E a \in Window!Space, k \in 0 .. 5, v \in Window!Value :
              c = [kind |-> "write", addr |-> a, n |-> k, v |-> v]
  <2>1. /\ c.kind = "write" /\ c.addr \in Window!Space /\ c.n \in 0 .. 5
        /\ c.v \in Window!Value
    BY <1>2
  <2>2. c.v = Window!Low(c.v, c.n)
    BY <2>1 DEF Window!Legal
  <2>3. \A k \in 0 .. 3 : Window!Low(c.v, c.n)[k] = IF k < c.n THEN c.v[k] ELSE {}
    BY DEF Window!Low
  <2>4. \A k \in 0 .. 3 : k >= c.n => c.v[k] = {}
    BY <2>1, <2>2, <2>3
  <2> QED
    BY <2>1, <2>4 DEF Window!Legal, Window!CallKinds
<1>3. CASE \E a \in {0, 4}, k \in {<<4, 4>>, <<4, 1>>, <<1, 1>>}, b \in Window!Byte :
              c = [kind |-> "update", addr |-> a, from |-> k[1], n |-> k[2], low |-> b]
  BY <1>3 DEF Window!Legal, Window!CallKinds, Window!Space
<1> QED
  BY <1>1, <1>2, <1>3 DEF Window!Calls

LEMMA BytesNone ==
    ASSUME NEW M \in [Window!Space -> Window!Byte], NEW V, NEW a \in Window!Space
    PROVE  Window!Zeroes = BytesFrom(M, a, 0) /\ M = Overlaid(M, V, a, 0)
<1>1. \A b \in Window!Space : ~(a <= b /\ b < a + 0)
  BY DEF Window!Space
<1> QED
  BY <1>1 DEF Window!Zeroes, BytesFrom, Overlaid

LEMMA WindowBegin ==
    ASSUME Window!WindowAssumption, WindowInv, Window!Begin
    PROVE  WindowInv'
<1>1. PICK c \in Window!Calls :
        /\ Window!Legal(c) /\ call' = c
        /\ IF c.kind = "write" THEN Window!Enter("write", c.addr, c.n, c.v)
           ELSE Window!Enter("read", c.addr, IF c.kind = "update" THEN c.from ELSE c.n,
                             Window!Zeroes)
  BY DEF Window!Begin
<1> DEFINE n == IF c.kind = "update" THEN c.from ELSE c.n
<1>2. /\ eriPc = "idle" /\ before' = mem /\ eriTimely' = TRUE
      /\ UNCHANGED <<mem, allowed, eriar, eridr, eriServed, polls>>
      /\ ~eriar.write /\ eriServed
  BY DEF Window!Begin, WindowInv, WindowOK
<1>3. /\ op' = IF c.kind = "write" THEN "write" ELSE "read"
      /\ addr' = c.addr /\ shift' = 0 /\ len' = n
      /\ IF n \in 1 .. 4 /\ allowed
         THEN eriPc' = "word" /\ value' = IF c.kind = "write" THEN c.v ELSE Window!Zeroes
         ELSE /\ eriPc' = "done"
              /\ value' = IF c.kind = "write" THEN c.v ELSE Window!Ones
  BY <1>1 DEF Window!Enter
<1>4. /\ c.kind \in Window!CallKinds /\ c.addr \in Window!Space /\ c.n \in 0 .. 5
      /\ c.addr + c.n <= 8
      /\ c.kind = "write" => /\ c.v \in Window!Value
                             /\ \A k \in 0 .. 3 : k >= c.n => c.v[k] = {}
      /\ c.kind = "update" => /\ c.addr \in {0, 4} /\ c.from \in {1, 4}
                              /\ c.n \in 1 .. c.from /\ c.low \in Window!Byte
  BY <1>1, CallsAre
<1>5. mem \in [Window!Space -> Window!Byte]
  BY DEF WindowInv, Window!TypeOK
<1>6. Wanted' = n
  BY <1>1, <1>3 DEF Wanted
<1>7. n \in 0 .. 5
  BY <1>4
<1> HIDE DEF n
<1>8. Window!TypeOK'
  <2>1. value' \in Window!Value
    BY <1>3, <1>4, ValuesAre
  <2>2. addr' \in 0 .. 8 /\ len' \in 0 .. 5 /\ shift' \in 0 .. 3
    BY <1>3, <1>4, <1>7 DEF Window!Space
  <2> QED
    BY <1>2, <1>3, <2>1, <2>2 DEF WindowInv, Window!TypeOK
<1>9. CallOK'
  <2>1. op' = "read" => c.kind # "write"
    BY <1>3
  <2>2. op' = "write" => c.kind # "read"
    BY <1>3
  <2> QED
    BY <1>1, <1>4, <2>1, <2>2 DEF CallOK
<1>10. Along'
  BY <1>1, <1>2, <1>3, <1>4, <1>6, <1>7 DEF Along, Busy, Window!Space
<1>11. WindowOK'
  BY <1>2, <1>3, <1>5 DEF WindowOK
<1>12. Window!LateStaysInWords'
  BY <1>2 DEF Window!LateStaysInWords
<1>13. ReadSoFar'
  BY <1>1, <1>2, <1>3, <1>4, <1>5, <1>6, BytesNone DEF ReadSoFar
<1>14. WriteSoFar'
  <2>1. ASSUME op' = "write"
        PROVE  c.kind = "write" /\ value' = c.v /\ n = c.n
    BY <1>3, <2>1 DEF n
  <2>2. mem' = Overlaid(before', value', call'.addr, shift')
    BY <1>1, <1>2, <1>3, <1>4, <1>5, BytesNone
  <2> QED
    BY <1>1, <1>2, <1>3, <2>1, <2>2 DEF WriteSoFar
<1> QED
  BY <1>8, <1>9, <1>10, <1>11, <1>12, <1>13, <1>14 DEF WindowInv

LEMMA WithinSpace ==
    ASSUME Window!TypeOK, CallOK, Along, Busy
    PROVE  /\ call.addr \in Window!Space /\ Wanted \in 1 .. 4 /\ call.addr + Wanted <= 8
           /\ addr \in Window!Space /\ addr = call.addr + shift
           /\ shift \in 0 .. 3 /\ len = Wanted - shift /\ Wanted - shift >= 1
           /\ shift = 0 \/ (shift = 4 - (call.addr % 4) /\ (call.addr + shift) % 4 = 0)
<1>1. eriPc # "idle"
  BY DEF Busy
<1>2. call.addr \in Window!Space /\ call.n \in 0 .. 5 /\ call.addr + call.n <= 8
  BY <1>1 DEF CallOK
<1>3. call.addr + Wanted <= 8
  <2>1. CASE op = "read" /\ call.kind = "update"
    BY <1>1, <2>1 DEF CallOK, Wanted
  <2>2. CASE ~(op = "read" /\ call.kind = "update")
    BY <1>2, <2>2 DEF Wanted
  <2> QED
    BY <2>1, <2>2
<1>4. shift \in 0 .. 3 /\ len \in 0 .. 5
  BY DEF Window!TypeOK
<1>5. Wanted \in 1 .. 4 /\ len >= 1 /\ addr = call.addr + shift /\ len + shift = Wanted
  BY DEF Along
<1>6. shift = 0 \/ (shift = 4 - (call.addr % 4) /\ (call.addr + shift) % 4 = 0)
  BY DEF Along
<1> HIDE DEF Wanted
<1> QED
  BY <1>2, <1>3, <1>4, <1>5, <1>6 DEF Window!Space

LEMMA WindowAsk ==
    ASSUME Window!WindowAssumption, WindowInv, Window!AskWord
    PROVE  WindowInv'
<1>1. /\ eriPc = "word" /\ eriPc' = "reading" /\ polls' = 0 /\ eriServed' = FALSE
      /\ eriar' = [addr |-> Window!Align(addr), flag |-> FALSE, write |-> FALSE]
      /\ UNCHANGED <<mem, allowed, eridr, call, op, addr, len, shift, value, before, eriTimely>>
  BY DEF Window!AskWord, Window!locals, Window!history
<1>2. Window!Align(addr) \in {0, 4}
  <2>1. addr \in Window!Space
    BY <1>1, WithinSpace DEF WindowInv, Busy
  <2> QED
    BY <2>1, AlignIs DEF Window!Space
<1>3. Window!TypeOK'
  <2>1. eriar' \in [addr : {0, 4}, flag : BOOLEAN, write : BOOLEAN]
    BY <1>1, <1>2
  <2>2. polls' \in 0 .. WindowPolls - 1
    BY <1>1 DEF Window!WindowAssumption
  <2> QED
    BY <1>1, <2>1, <2>2 DEF WindowInv, Window!TypeOK
<1>4. CallOK' /\ Along'
  BY <1>1 DEF WindowInv, CallOK, Along, Busy, Wanted
<1>5. WindowOK'
  BY <1>1 DEF WindowInv, WindowOK
<1>6. Window!LateStaysInWords'
  BY <1>1 DEF WindowInv, Window!LateStaysInWords, Window!Over
<1>7. ReadSoFar' /\ WriteSoFar'
  BY <1>1 DEF WindowInv, ReadSoFar, WriteSoFar, Wanted
<1> QED
  BY <1>3, <1>4, <1>5, <1>6, <1>7 DEF WindowInv
LEMMA WindowChip ==
    ASSUME Window!WindowAssumption, WindowInv, Window!Chip
    PROVE  WindowInv'
<1>1. /\ ~eriServed /\ eriServed' = TRUE /\ eriar' = [eriar EXCEPT !.flag = ~eriar.write]
      /\ UNCHANGED <<allowed, call, eriPc, op, addr, len, shift, value, polls, before,
                     eriTimely>>
  BY DEF Window!Chip, Window!locals, Window!history
<1>2. /\ eriar \in [addr : {0, 4}, flag : BOOLEAN, write : BOOLEAN]
      /\ mem \in [Window!Space -> Window!Byte] /\ eridr \in Window!Value
  BY DEF WindowInv, Window!TypeOK
<1>3. /\ eriar' \in [addr : {0, 4}, flag : BOOLEAN, write : BOOLEAN]
      /\ eriar'.addr = eriar.addr /\ eriar'.write = eriar.write
      /\ eriar'.flag = ~eriar.write
  BY <1>1, <1>2
<1>4. CallOK' /\ Along' /\ UNCHANGED Wanted
  BY <1>1 DEF WindowInv, CallOK, Along, Busy, Wanted
<1>5. eriPc # "idle" /\ (eriPc \in {"word", "done"} => ~eriTimely)
  BY <1>1 DEF WindowInv, WindowOK
<1>6. CASE ~eriar.write
  <2>1. mem' = mem /\ eridr' = Window!Word(mem, eriar.addr)
    BY <1>6 DEF Window!Chip
  <2>2. eridr' \in Window!Value
    <3>1. eriar.addr \in Window!Space
      BY <1>2 DEF Window!Space
    <3> QED
      BY <1>2, <2>1, <3>1, ValuesAre
  <2>3. Window!TypeOK'
    BY <1>1, <1>3, <2>1, <2>2 DEF WindowInv, Window!TypeOK
  <2>4. eriPc # "writing"
    BY <1>6 DEF WindowInv, WindowOK
  <2>5. WindowOK'
    BY <1>1, <1>3, <1>5, <1>6, <2>1, <2>4 DEF WindowInv, WindowOK
  <2>6. Window!LateStaysInWords'
    BY <1>1, <2>1 DEF WindowInv, Window!LateStaysInWords, Window!Over
  <2>7. ReadSoFar' /\ WriteSoFar'
    BY <1>1, <1>4, <2>1, <2>4 DEF WindowInv, ReadSoFar, WriteSoFar
  <2> QED
    BY <1>4, <2>3, <2>5, <2>6, <2>7 DEF WindowInv
<1>7. CASE eriar.write
  <2>1. /\ eridr' = eridr
        /\ mem' = [b \in Window!Space |-> IF Window!Align(b) = eriar.addr THEN eridr[b % 4]
                                          ELSE mem[b]]
    BY <1>7 DEF Window!Chip
  <2>2. mem' \in [Window!Space -> Window!Byte]
    <3>1. \A b \in Window!Space : b % 4 \in 0 .. 3
      BY AlignIs DEF Window!Space
    <3> QED
      BY <1>2, <2>1, <3>1 DEF Window!Value
  <2>3. Window!TypeOK'
    BY <1>1, <1>2, <1>3, <2>1, <2>2 DEF WindowInv, Window!TypeOK
  <2>4. op = "write" /\ eriPc # "reading"
    BY <1>2, <1>5, <1>7 DEF WindowInv, WindowOK, Window!TypeOK
  <2>5. WindowOK'
    BY <1>1, <1>3, <1>5, <1>7, <2>4 DEF WindowInv, WindowOK
  <2>6. Window!LateStaysInWords'
    <3>1. /\ call.kind # "read" /\ call.n \in 1 .. 4 /\ allowed
          /\ \E b \in Window!Space : Window!Over(b) /\ Window!Align(b) = eriar.addr
      BY <1>1, <1>7 DEF WindowInv, WindowOK
    <3>2. ASSUME NEW a \in Window!Space, mem'[a] # before[a]
          PROVE  \E b \in Window!Space : Window!Over(b) /\ Window!Align(b) = Window!Align(a)
      <4>1. CASE Window!Align(a) = eriar.addr
        BY <3>1, <4>1
      <4>2. CASE Window!Align(a) # eriar.addr
        <5>1. mem[a] # before[a]
          BY <2>1, <3>2, <4>2
        <5> QED
          BY <1>5, <5>1 DEF WindowInv, Window!LateStaysInWords
      <4> QED
        BY <4>1, <4>2
    <3>3. \A b \in Window!Space : Window!Over(b)' = Window!Over(b)
      BY <1>1 DEF Window!Over
    <3> QED
      BY <1>1, <3>1, <3>2, <3>3 DEF Window!LateStaysInWords
  <2>7. ReadSoFar'
    BY <1>1, <2>4 DEF ReadSoFar
  <2>8. WriteSoFar'
    <3>1. SUFFICES ASSUME eriTimely, eriPc = "writing"
                   PROVE  WriteSoFar'
      BY <1>1, <1>5, <2>4 DEF WindowInv, WriteSoFar, WindowOK, Window!TypeOK
    <3> DEFINE n == Ahead(addr % 4, len, call.addr, call.n)
    <3>2. /\ call.addr \in Window!Space /\ Wanted \in 1 .. 4 /\ call.addr + Wanted <= 8
          /\ addr = call.addr + shift
          /\ shift \in 0 .. 3 /\ len = Wanted - shift /\ Wanted - shift >= 1
          /\ shift = 0 \/ (shift = 4 - (call.addr % 4) /\ (call.addr + shift) % 4 = 0)
      BY <3>1, WithinSpace DEF WindowInv, Busy
    <3>3. Wanted = call.n
      BY <2>4 DEF Wanted
    <3>4. /\ eridr = Window!Word(Overlaid(before, value, call.addr, n), Window!Align(addr))
          /\ mem = Overlaid(before, value, call.addr, shift)
          /\ eriar.addr = Window!Align(addr)
      BY <1>1, <2>4, <3>1 DEF WindowInv, WriteSoFar, WindowOK
    <3>5. before \in [Window!Space -> Window!Byte]
      BY DEF WindowInv, WindowOK
    <3>6. LET w == Window!Align(call.addr + shift)
              t == Ahead((call.addr + shift) % 4, Wanted - shift, call.addr, Wanted)
          IN  WithWord(Overlaid(before, value, call.addr, shift), w,
                       Window!Word(Overlaid(before, value, call.addr, t), w))
                = Overlaid(before, value, call.addr, t)
      <4> HIDE DEF Wanted
      <4> QED
        BY <3>2, <3>5, ChipWrites
    <3>7. mem' = WithWord(mem, eriar.addr, eridr)
      BY <2>1 DEF WithWord
    <3>8. mem' = Overlaid(before, value, call.addr, n)
      BY <3>2, <3>3, <3>4, <3>6, <3>7
    <3> QED
      BY <1>1, <2>1, <2>4, <3>1, <3>4, <3>8 DEF WindowInv, WriteSoFar
  <2> QED
    BY <1>4, <2>3, <2>5, <2>6, <2>7, <2>8 DEF WindowInv
<1> QED
  BY <1>6, <1>7

\* A poll that is not the last and finds no answer.
LEMMA WindowWaits ==
    ASSUME Window!WindowAssumption, WindowInv, polls' = polls + 1, polls + 1 # WindowPolls,
           UNCHANGED <<mem, allowed, eriar, eridr, eriServed, call, eriPc, op, addr, len, shift,
                       value, before, eriTimely>>
    PROVE  WindowInv'
<1>1. Window!TypeOK'
  BY DEF WindowInv, Window!TypeOK, Window!WindowAssumption
<1> QED
  BY <1>1 DEF WindowInv, CallOK, Along, Busy, Wanted, WindowOK, Window!LateStaysInWords,
     Window!Over, ReadSoFar, WriteSoFar

\* The loop goes on with the next word, or is done.
LEMMA WindowGoesOn ==
    ASSUME Window!TypeOK, CallOK, Along, Busy, Window!Continue(addr % 4),
           UNCHANGED <<allowed, call, op>>
    PROVE  /\ eriPc' \in {"word", "done"} /\ Along' /\ UNCHANGED Wanted
           /\ addr' \in 0 .. 8 /\ len' \in 0 .. 5 /\ shift' \in 0 .. 3
           /\ LET n == Ahead(addr % 4, len, call.addr, Wanted)
              IN  eriPc' = "word" => shift' = n
           /\ eriPc' = "done" => Ahead(addr % 4, len, call.addr, Wanted) = Wanted
<1>1. /\ call.addr \in Window!Space /\ Wanted \in 1 .. 4 /\ call.addr + Wanted <= 8
      /\ addr \in Window!Space /\ addr = call.addr + shift
      /\ shift \in 0 .. 3 /\ len = Wanted - shift /\ Wanted - shift >= 1
      /\ shift = 0 \/ (shift = 4 - (call.addr % 4) /\ (call.addr + shift) % 4 = 0)
  BY WithinSpace
<1>2. UNCHANGED Wanted
  BY DEF Wanted
<1>3. call.addr % 4 \in 0 .. 3 /\ addr % 4 \in 0 .. 3 /\ Window!Align(addr) = addr - (addr % 4)
  BY <1>1, AlignIs DEF Window!Space, Window!Align
<1>4. CASE Window!Last(addr % 4, len)
  <2>1. eriPc' = "done" /\ UNCHANGED <<addr, len, shift>>
    BY <1>4 DEF Window!Continue
  <2> QED
    BY <1>2, <1>4, <2>1 DEF Ahead, Along, Busy, Window!TypeOK
<1>5. CASE ~Window!Last(addr % 4, len)
  <2>1. /\ eriPc' = "word" /\ addr' = Window!Align(addr) + 4
        /\ len' = len - (4 - (addr % 4)) /\ shift' = 4 - (addr % 4)
    BY <1>5 DEF Window!Continue
  <2>2. shift = 0 /\ addr = call.addr /\ len > 4 - (addr % 4) /\ addr % 4 # 0
    <3> PICK r \in 0 .. 3 : r = addr % 4
      BY <1>3
    <3>1. len > 4 - r /\ len \in 1 .. 4
      BY <1>1, <1>3, <1>5 DEF Window!Last
    <3>2. shift = 0
      <4>1. SUFFICES ASSUME shift # 0
                     PROVE  FALSE
        BY <1>1
      <4>2. r = 0
        BY <1>1, <4>1
      <4> QED
        BY <3>1, <4>2
    <3>3. addr = call.addr
      BY <1>1, <3>2 DEF Window!Space
    <3>4. r # 0
      BY <3>1
    <3> QED
      BY <3>1, <3>2, <3>3, <3>4
  <2>3. Ahead(addr % 4, len, call.addr, Wanted) = 4 - (addr % 4)
    BY <1>5, <2>2 DEF Ahead
  <2>4. addr' % 4 = 0 /\ addr' \in 0 .. 8
    BY <1>1, <2>1, AlignIs DEF Window!Space
  <2>5. /\ addr' = call.addr + shift' /\ len' + shift' = Wanted /\ len' >= 1
        /\ len' \in 0 .. 5 /\ shift' \in 0 .. 3
    BY <1>1, <1>3, <2>1, <2>2 DEF Window!Space
  <2>6. Along'
    BY <1>1, <1>2, <2>1, <2>2, <2>4, <2>5 DEF Along, Busy
  <2> QED
    BY <1>2, <2>1, <2>3, <2>4, <2>5, <2>6
<1> QED
  BY <1>4, <1>5
\* The end of the polls of a read's word.
LEMMA WindowReads ==
    ASSUME Window!WindowAssumption, WindowInv, eriPc = "reading", op = "read",
           polls' = 0, eriTimely' = (eriTimely /\ Window!Answered), Window!AfterRead,
           UNCHANGED <<mem, allowed, call, before>>
    PROVE  WindowInv'
<1> DEFINE n == Ahead(addr % 4, len, call.addr, Wanted)
<1>1. /\ value' = Window!ReadMerge(value, eridr, addr % 4, len, shift)
      /\ Window!Continue(addr % 4) /\ UNCHANGED <<op, eriar, eridr, eriServed>>
  BY DEF Window!AfterRead
<1>2. /\ call.addr \in Window!Space /\ Wanted \in 1 .. 4 /\ call.addr + Wanted <= 8
      /\ addr = call.addr + shift /\ addr \in Window!Space
      /\ shift \in 0 .. 3 /\ len = Wanted - shift /\ Wanted - shift >= 1
      /\ shift = 0 \/ (shift = 4 - (call.addr % 4) /\ (call.addr + shift) % 4 = 0)
  BY WithinSpace DEF WindowInv, Busy
<1>3. /\ eriPc' \in {"word", "done"} /\ Along' /\ UNCHANGED Wanted
      /\ addr' \in 0 .. 8 /\ len' \in 0 .. 5 /\ shift' \in 0 .. 3
      /\ eriPc' = "word" => shift' = n
      /\ eriPc' = "done" => n = Wanted
  BY <1>1, WindowGoesOn DEF WindowInv, Busy
<1>4. /\ eridr \in Window!Value /\ value \in Window!Value /\ eriTimely \in BOOLEAN
      /\ mem \in [Window!Space -> Window!Byte] /\ WindowPolls \in Nat \ {0}
  BY DEF WindowInv, Window!TypeOK, Window!WindowAssumption
<1>5. addr % 4 \in 0 .. 3 /\ len \in Nat
  <2>1. addr % 4 \in 0 .. 3
    BY <1>2, AlignIs DEF Window!Space
  <2> HIDE DEF Wanted
  <2> QED
    BY <1>2, <2>1
<1>6. Window!TypeOK'
  <2>1. value' \in Window!Value
    BY <1>1, <1>2, <1>4, <1>5, ValuesAre
  <2>2. polls' \in 0 .. WindowPolls - 1 /\ eriTimely' \in BOOLEAN
    BY <1>4 DEF Window!Answered
  <2> QED
    BY <1>1, <1>3, <2>1, <2>2 DEF WindowInv, Window!TypeOK
<1>7. CallOK'
  BY <1>1, <1>3 DEF WindowInv, CallOK
<1>8. /\ ~eriar.write /\ eriar.addr = Window!Align(addr) /\ eriar.flag = eriServed
      /\ eriServed => eridr = Window!Word(mem, Window!Align(addr))
      /\ mem = before
  BY DEF WindowInv, WindowOK
<1>9. eriTimely' => eriTimely /\ eriServed
  BY <1>8 DEF Window!Answered
<1>10. WindowOK'
  BY <1>1, <1>3, <1>8, <1>9 DEF WindowInv, WindowOK
<1>11. Window!LateStaysInWords'
  BY <1>8 DEF Window!LateStaysInWords
<1>12. eriTimely' => value' = BytesFrom(mem, call.addr, n)
  <2> HAVE eriTimely'
  <2>1. value = BytesFrom(mem, call.addr, shift)
    BY <1>9 DEF WindowInv, ReadSoFar
  <2>2. eridr = Window!Word(mem, Window!Align(call.addr + shift))
    BY <1>2, <1>8, <1>9
  <2> DEFINE a == call.addr
  <2>3. Window!ReadMerge(BytesFrom(mem, a, shift),
                         Window!Word(mem, Window!Align(a + shift)),
                         (a + shift) % 4, Wanted - shift, shift)
          = BytesFrom(mem, a, Ahead((a + shift) % 4, Wanted - shift, a, Wanted))
    <3> HIDE DEF Wanted
    <3> QED
      BY <1>2, <1>4, ReadTakes
  <2> QED
    BY <1>1, <1>2, <2>1, <2>2, <2>3
<1>13. ReadSoFar'
  BY <1>3, <1>12 DEF ReadSoFar
<1>14. WriteSoFar'
  BY <1>1 DEF WriteSoFar
<1> QED
  BY <1>3, <1>6, <1>7, <1>10, <1>11, <1>13, <1>14 DEF WindowInv

\* The bytes of the value beyond its length are none, or those that are there.
LEMMA TailIsThere ==
    ASSUME WindowInv, op = "write", eriTimely, Busy
    PROVE  \A k \in 0 .. 3 : k >= call.n => value[k] \subseteq before[call.addr + k]
<1>1. eriPc # "idle" /\ allowed /\ call.kind \in {"write", "update"}
  BY DEF WindowInv, Busy, Along, CallOK, Window!CallKinds
<1>2. CASE call.kind = "write"
  BY <1>1, <1>2 DEF WindowInv, CallOK, WriteSoFar
<1>3. CASE call.kind = "update"
  <2>1. value = [BytesFrom(before, call.addr, call.from) EXCEPT ![0] = call.low]
    BY <1>1, <1>3 DEF WindowInv, WriteSoFar
  <2>2. call.n \in 1 .. 4
    BY <1>1, <1>3 DEF WindowInv, CallOK
  <2> QED
    BY <2>1, <2>2 DEF BytesFrom
<1> QED
  BY <1>1, <1>2, <1>3

\* The end of the polls of the read of a write's word.
LEMMA WindowMerges ==
    ASSUME Window!WindowAssumption, WindowInv, eriPc = "reading", op = "write",
           polls' = 0, eriTimely' = (eriTimely /\ Window!Answered), Window!AfterRead,
           UNCHANGED <<mem, allowed, call, before>>
    PROVE  WindowInv'
<1> DEFINE n == Ahead(addr % 4, len, call.addr, call.n)
<1>1. /\ eridr' = Window!WriteMerge(value, eridr, addr % 4, len, shift)
      /\ eriar' = [addr |-> Window!Align(addr), flag |-> TRUE, write |-> TRUE]
      /\ eriServed' = FALSE /\ eriPc' = "writing"
      /\ UNCHANGED <<op, addr, len, shift, value>>
  BY DEF Window!AfterRead, Window!locals
<1>2. Wanted = call.n
  BY DEF Wanted
<1>3. /\ call.addr \in Window!Space /\ call.n \in 1 .. 4 /\ call.addr + call.n <= 8
      /\ addr = call.addr + shift /\ addr \in Window!Space
      /\ shift \in 0 .. 3 /\ len = call.n - shift /\ call.n - shift >= 1
      /\ shift = 0 \/ (shift = 4 - (call.addr % 4) /\ (call.addr + shift) % 4 = 0)
  BY <1>2, WithinSpace DEF WindowInv, Busy
<1>4. /\ eridr \in Window!Value /\ value \in Window!Value /\ eriTimely \in BOOLEAN
      /\ before \in [Window!Space -> Window!Byte] /\ WindowPolls \in Nat \ {0}
  BY DEF WindowInv, WindowOK, Window!TypeOK, Window!WindowAssumption
<1>5. addr % 4 \in 0 .. 3 /\ len \in Nat /\ Window!Align(addr) \in {0, 4}
  <2>1. addr % 4 \in 0 .. 3 /\ Window!Align(addr) \in {0, 4}
    BY <1>3, AlignIs DEF Window!Space
  <2> QED
    BY <1>3, <2>1
<1>6. Window!TypeOK'
  <2>1. eridr' \in Window!Value
    BY <1>1, <1>3, <1>4, <1>5, ValuesAre
  <2>2. polls' \in 0 .. WindowPolls - 1 /\ eriTimely' \in BOOLEAN
    BY <1>4 DEF Window!Answered
  <2>3. eriar' \in [addr : {0, 4}, flag : BOOLEAN, write : BOOLEAN]
    BY <1>1, <1>5
  <2> QED
    BY <1>1, <2>1, <2>2, <2>3 DEF WindowInv, Window!TypeOK
<1>7. CallOK' /\ Along'
  BY <1>1 DEF WindowInv, CallOK, Along, Busy, Wanted
<1>8. WindowOK'
  <2>1. call.kind # "read" /\ allowed
    BY DEF WindowInv, CallOK, Along, Busy
  <2>2. Window!Over(addr)
    <3>1. PICK a \in 0 .. 7, m \in 1 .. 4, h \in 0 .. 3 :
             a = call.addr /\ m = call.n /\ m - h >= 1 /\ addr = a + h
      BY <1>3 DEF Window!Space
    <3>2. m - h >= 1
      BY <3>1
    <3>3. a + h \in a .. a + m - 1
      BY <3>2
    <3> QED
      BY <3>1, <3>3 DEF Window!Over
  <2> QED
    BY <1>1, <1>3, <1>4, <2>1, <2>2 DEF WindowOK, Window!Over
<1>9. Window!LateStaysInWords'
  BY <1>1 DEF WindowInv, Window!LateStaysInWords, Window!Over
<1>10. ReadSoFar'
  BY <1>1 DEF ReadSoFar
<1>11. eriTimely' => /\ eriTimely /\ mem = Overlaid(before, value, call.addr, shift)
                  /\ eridr = Window!Word(mem, Window!Align(addr))
  BY DEF WindowInv, WindowOK, WriteSoFar, Window!Answered
<1>12. eriTimely' =>
         eridr' = Window!Word(Overlaid(before, value, call.addr, n), Window!Align(addr))
  <2> HAVE eriTimely'
  <2>1. \A k \in 0 .. 3 : k >= call.n => value[k] \subseteq before[call.addr + k]
    BY <1>11, TailIsThere DEF Busy
  <2> DEFINE a == call.addr
  <2>2. LET w == Window!Align(a + shift)
            t == Ahead((a + shift) % 4, call.n - shift, a, call.n)
        IN  Window!WriteMerge(value, Window!Word(Overlaid(before, value, a, shift), w),
                              (a + shift) % 4, call.n - shift, shift)
              = Window!Word(Overlaid(before, value, a, t), w)
    <3> DEFINE m == call.n
               h == shift
    <3>1. /\ a \in Window!Space /\ m \in 1 .. 4 /\ a + m <= 8
          /\ h \in 0 .. 3 /\ m - h >= 1
          /\ h = 0 \/ (h = 4 - (a % 4) /\ (a + h) % 4 = 0)
          /\ \A k \in 0 .. 3 : k >= m => value[k] \subseteq before[a + k]
      BY <1>3, <2>1
    <3> HIDE DEF a, m, h
    <3>2. LET w == Window!Align(a + h)
              t == Ahead((a + h) % 4, m - h, a, m)
          IN  Window!WriteMerge(value, Window!Word(Overlaid(before, value, a, h), w),
                                (a + h) % 4, m - h, h)
                = Window!Word(Overlaid(before, value, a, t), w)
      BY <1>4, <3>1, WriteLeaves
    <3> QED
      BY <3>2 DEF a, m, h
  <2> QED
    BY <1>1, <1>3, <1>11, <2>2
<1>13. WriteSoFar'
  BY <1>1, <1>11, <1>12 DEF WindowInv, WriteSoFar
<1> QED
  BY <1>6, <1>7, <1>8, <1>9, <1>10, <1>13 DEF WindowInv

\* The end of the polls of a write.
LEMMA WindowWrites ==
    ASSUME Window!WindowAssumption, WindowInv, eriPc = "writing",
           polls' = 0, eriTimely' = (eriTimely /\ Window!Answered), Window!AfterWrite,
           UNCHANGED <<mem, allowed, call, before>>
    PROVE  WindowInv'
<1> DEFINE n == Ahead(addr % 4, len, call.addr, call.n)
<1>1. Window!Continue(addr % 4) /\ UNCHANGED <<op, value, eriar, eridr, eriServed>>
  BY DEF Window!AfterWrite
<1>2. op = "write" /\ eriar.write /\ eriar.flag = ~eriServed
  BY DEF WindowInv, WindowOK
<1>3. Wanted = call.n
  BY <1>2 DEF Wanted
<1>4. /\ eriPc' \in {"word", "done"} /\ Along' /\ UNCHANGED Wanted
      /\ addr' \in 0 .. 8 /\ len' \in 0 .. 5 /\ shift' \in 0 .. 3
      /\ eriPc' = "word" => shift' = n
      /\ eriPc' = "done" => n = call.n
  BY <1>1, <1>3, WindowGoesOn DEF WindowInv, Busy
<1>5. /\ eriTimely' \in BOOLEAN /\ polls' \in 0 .. WindowPolls - 1
      /\ eriServed \in BOOLEAN
  BY DEF WindowInv, Window!TypeOK, Window!WindowAssumption, Window!Answered
<1>6. Window!TypeOK'
  BY <1>1, <1>4, <1>5 DEF WindowInv, Window!TypeOK
<1>7. CallOK'
  BY <1>1, <1>4 DEF WindowInv, CallOK
<1>8. eriTimely' => eriTimely /\ eriServed
  BY <1>2, <1>5 DEF Window!Answered
<1>9. WindowOK'
  BY <1>1, <1>2, <1>4, <1>8 DEF WindowInv, WindowOK, Window!Over
<1>10. Window!LateStaysInWords'
  BY <1>4 DEF WindowInv, Window!LateStaysInWords, Window!Over
<1>11. ReadSoFar'
  BY <1>1, <1>2 DEF ReadSoFar
<1>12. WriteSoFar'
  <2>1. eriTimely' => mem = Overlaid(before, value, call.addr, n)
    BY <1>2, <1>8 DEF WindowInv, WriteSoFar
  <2>2. eriTimely' /\ allowed =>
          /\ call.kind = "write" => value = call.v
          /\ call.kind = "update" =>
                value = [BytesFrom(before, call.addr, call.from) EXCEPT ![0] = call.low]
    BY <1>2, <1>8 DEF WindowInv, WriteSoFar
  <2>3. allowed
    BY DEF WindowInv, Along, Busy
  <2> QED
    BY <1>1, <1>4, <2>1, <2>2, <2>3 DEF WriteSoFar
<1> QED
  BY <1>4, <1>6, <1>7, <1>9, <1>10, <1>11, <1>12 DEF WindowInv
LEMMA WindowPoll ==
    ASSUME Window!WindowAssumption, WindowInv, Window!Poll
    PROVE  WindowInv'
<1>1. eriPc \in {"reading", "writing"} /\ UNCHANGED <<mem, allowed, call, before>>
  BY DEF Window!Poll
<1>2. CASE Window!Answered \/ polls + 1 = WindowPolls
  <2>1. polls' = 0 /\ eriTimely' = (eriTimely /\ Window!Answered)
    BY <1>2 DEF Window!Poll
  <2>2. CASE eriPc = "reading"
    <3>1. Window!AfterRead
      BY <1>2, <2>2 DEF Window!Poll
    <3>2. op \in {"read", "write"}
      BY DEF WindowInv, Window!TypeOK
    <3> QED
      BY <1>1, <2>1, <2>2, <3>1, <3>2, WindowReads, WindowMerges
  <2>3. CASE eriPc = "writing"
    <3>1. Window!AfterWrite
      BY <1>2, <2>3 DEF Window!Poll
    <3> QED
      BY <1>1, <2>1, <2>3, <3>1, WindowWrites
  <2> QED
    BY <1>1, <2>2, <2>3
<1>3. CASE ~(Window!Answered \/ polls + 1 = WindowPolls)
  <2>1. polls' = polls + 1 /\ UNCHANGED <<eriPc, op, addr, len, shift, value, eriar, eridr,
                                          eriServed, eriTimely>>
    BY <1>3 DEF Window!Poll, Window!locals
  <2> QED
    BY <1>1, <1>3, <2>1, WindowWaits
<1> QED
  BY <1>2, <1>3

LEMMA WindowUpdate ==
    ASSUME Window!WindowAssumption, WindowInv, Window!Update
    PROVE  WindowInv'
<1>1. /\ eriPc = "done" /\ call.kind = "update" /\ op = "read"
      /\ UNCHANGED <<mem, allowed, eriar, eridr, eriServed, call, polls, before, eriTimely>>
      /\ Window!Enter("write", call.addr, call.n, [value EXCEPT ![0] = call.low])
  BY DEF Window!Update, Window!history
<1>2. /\ op' = "write" /\ addr' = call.addr /\ len' = call.n /\ shift' = 0
      /\ value' = [value EXCEPT ![0] = call.low]
      /\ eriPc' = IF call.n \in 1 .. 4 /\ allowed THEN "word" ELSE "done"
  BY <1>1 DEF Window!Enter
<1>3. /\ call.addr \in {0, 4} /\ call.from \in {1, 4} /\ call.n \in 1 .. call.from
      /\ call.low \in Window!Byte /\ call.n \in 1 .. 4
  BY <1>1 DEF WindowInv, CallOK
<1>4. /\ mem = before /\ ~eriar.write /\ (eriTimely => eriServed)
      /\ before \in [Window!Space -> Window!Byte]
  BY <1>1 DEF WindowInv, WindowOK
<1>5. value' \in Window!Value
  BY <1>2, <1>3 DEF WindowInv, Window!TypeOK, Window!Value
<1>6. Window!TypeOK'
  BY <1>1, <1>2, <1>3, <1>5 DEF WindowInv, Window!TypeOK
<1>7. CallOK'
  BY <1>1, <1>2 DEF WindowInv, CallOK
<1>8. Along'
  <2>1. Wanted' = call.n
    BY <1>1, <1>2 DEF Wanted
  <2> QED
    BY <1>1, <1>2, <1>3, <2>1 DEF Along, Busy
<1>9. WindowOK'
  BY <1>1, <1>2, <1>4 DEF WindowOK
<1>10. Window!LateStaysInWords'
  BY <1>1, <1>4 DEF Window!LateStaysInWords
<1>11. ReadSoFar'
  BY <1>2 DEF ReadSoFar
<1>12. WriteSoFar'
  <2>1. ASSUME eriTimely, allowed
        PROVE  value = BytesFrom(before, call.addr, call.from)
    <3>1. Wanted = call.from
      BY <1>1 DEF Wanted
    <3> QED
      BY <1>1, <1>3, <1>4, <2>1, <3>1 DEF WindowInv, ReadSoFar
  <2>2. call.addr \in Window!Space
    BY <1>3 DEF Window!Space
  <2>3. mem' = Overlaid(before', value', call'.addr, shift')
    BY <1>1, <1>2, <1>4, <2>2, BytesNone
  <2> QED
    BY <1>1, <1>2, <1>3, <2>1, <2>3 DEF WriteSoFar
<1> QED
  BY <1>6, <1>7, <1>8, <1>9, <1>10, <1>11, <1>12 DEF WindowInv

LEMMA NextWindow ==
    ASSUME Window!WindowAssumption
    PROVE  WindowInv /\ [Window!Next]_(Window!vars) => WindowInv'
<1> SUFFICES ASSUME WindowInv, [Window!Next]_(Window!vars) PROVE WindowInv'
  OBVIOUS
<1>1. CASE UNCHANGED Window!vars
  BY <1>1 DEF Window!vars, Window!locals, Window!history, WindowInv, Window!TypeOK, CallOK,
     Along, Busy, Wanted, WindowOK, Window!LateStaysInWords, Window!Over, ReadSoFar,
     WriteSoFar
<1> QED
  BY <1>1, WindowBegin, WindowAsk, WindowChip, WindowPoll, WindowUpdate DEF Window!Next

LEMMA UpdatedByte ==
    ASSUME WindowInv, Window!Done("update"), op = "write", eriTimely
    PROVE  mem = [before EXCEPT ![call.addr] = call.low]
<1>1. /\ eriPc = "done" /\ call.kind = "update" /\ call.n \in 1 .. 4 /\ allowed
  BY DEF Window!Done
<1>2. /\ call.addr \in {0, 4} /\ call.from \in {1, 4} /\ call.n \in 1 .. call.from
  BY <1>1 DEF WindowInv, CallOK
<1>3. /\ value = [BytesFrom(before, call.addr, call.from) EXCEPT ![0] = call.low]
      /\ mem = Overlaid(before, value, call.addr, call.n)
  BY <1>1 DEF WindowInv, WriteSoFar
<1>4. before \in [Window!Space -> Window!Byte] /\ mem \in [Window!Space -> Window!Byte]
  BY DEF WindowInv, WindowOK, Window!TypeOK
<1>5. value[0] = call.low
      /\ \A k \in 1 .. 3 : k < call.from => value[k] = before[call.addr + k]
  BY <1>3 DEF BytesFrom
<1>6. PICK a \in {0, 4}, n \in 1 .. 4 : a = call.addr /\ n = call.n
  BY <1>1, <1>2
<1>7. ASSUME NEW b \in Window!Space
      PROVE  mem[b] = IF b = a THEN call.low ELSE before[b]
  <2>1. mem[b] = IF a <= b /\ b < a + n THEN value[b - a] ELSE before[b]
    BY <1>3, <1>6 DEF Overlaid
  <2>2. CASE b = a
    BY <1>5, <2>1, <2>2
  <2>3. CASE b # a /\ a <= b /\ b < a + n
    <3>1. b - a \in 1 .. 3 /\ b - a < call.from /\ a + (b - a) = b
      BY <1>2, <1>6, <2>3 DEF Window!Space
    <3> QED
      BY <1>5, <1>6, <2>1, <2>3, <3>1
  <2>4. CASE ~(a <= b /\ b < a + n)
    BY <2>1, <2>4 DEF Window!Space
  <2> QED
    BY <2>2, <2>3, <2>4
<1>8. a \in Window!Space
  BY DEF Window!Space
<1> QED
  BY <1>4, <1>6, <1>7, <1>8

\* ReadIsExact, WriteIsExact, UpdateIsLocal and LateStaysInWords, with the types: for any
\* contents, any bytes and any number of polls before the driver gives up.
THEOREM WindowsAreExact == Spec => []WindowsExact
<1>1. WindowInv => WindowsExact
  <2> SUFFICES ASSUME WindowInv PROVE WindowsExact
    OBVIOUS
  <2>1. Window!ReadIsExact
    <3> SUFFICES ASSUME Window!Done("read"), eriTimely
                 PROVE  value = BytesFrom(mem, call.addr, call.n)
      BY DEF Window!ReadIsExact, BytesFrom
    <3>1. op = "read"
      BY DEF WindowInv, Window!Done, CallOK, Window!TypeOK
    <3>2. Wanted = call.n
      BY DEF Wanted, Window!Done
    <3> QED
      BY <3>1, <3>2 DEF WindowInv, Window!Done, ReadSoFar
  <2>2. Window!WriteIsExact
    <3> SUFFICES ASSUME Window!Done("write"), eriTimely
                 PROVE  mem = [a \in Window!Space |->
                                 IF Window!Over(a) THEN call.v[a - call.addr] ELSE before[a]]
      BY DEF Window!WriteIsExact
    <3>1. op = "write"
      BY DEF WindowInv, Window!Done, CallOK, Window!TypeOK
    <3>2. mem = Overlaid(before, call.v, call.addr, call.n)
      BY <3>1 DEF WindowInv, Window!Done, WriteSoFar
    <3>3. call.addr \in Window!Space /\ call.n \in 0 .. 5
      BY DEF WindowInv, Window!Done, CallOK
    <3>4. \A a \in Window!Space :
             Window!Over(a) <=> call.addr <= a /\ a < call.addr + call.n
      BY <3>3 DEF Window!Over, Window!Space
    <3> QED
      BY <3>2, <3>4 DEF Overlaid
  <2>3. Window!UpdateIsLocal
    BY UpdatedByte DEF Window!UpdateIsLocal
  <2> QED
    BY <2>1, <2>2, <2>3 DEF WindowInv, WindowsExact
<1>2. Init => WindowInv
  BY InitWindow, InitOfEach, ComponentsAssumption
<1>3. WindowInv /\ [Next]_vars => WindowInv'
  BY NextWindow, StepOfEach, ComponentsAssumption
<1> QED
  BY <1>1, <1>2, <1>3, PTL DEF Spec

-----------------------------------------------------------------------------
(* The PHY registers: what PhyAccessProofs proves of PhyAccess.                  *)

Phy == INSTANCE PhyAccessProofs WITH served <- accServed, alone <- accAlone,
           timely <- accTimely, WaitCount <- PhyPolls

\* The two instances say the same.
LEMMA SameAccess ==
    /\ Access!PhyAssumption => Phy!PhyAssumption
    /\ Access!Init => Phy!Init
    /\ [Access!Next]_(Access!vars) => [Phy!Next]_(Phy!vars)
    /\ Phy!TypeOK => Access!TypeOK
    /\ Phy!WritesHitMeant => Access!WritesHitMeant
    /\ Phy!WritesOwnContents => Access!WritesOwnContents
    /\ Phy!AutonegReadsOwn => Access!AutonegReadsOwn
<1>1. /\ Access!Actors = Phy!Actors /\ Access!Phyar = Phy!Phyar
      /\ Access!UshortMax = Phy!UshortMax /\ Access!NoWrite = Phy!NoWrite
      /\ \A p, r : Access!Meant(p, r) = Phy!Meant(p, r)
  BY DEF Access!Actors, Phy!Actors, Access!Phyar, Phy!Phyar, Access!UshortMax,
         Phy!UshortMax, Access!NoWrite, Phy!NoWrite, Access!Meant, Phy!Meant,
         Access!PhyarAddress, Phy!PhyarAddress, Access!PageA42, Phy!PageA42
<1>2. \A o : Access!Intended(o) = Phy!Intended(o) /\ Access!Target(o) = Phy!Target(o)
  BY <1>1 DEF Access!Intended, Phy!Intended, Access!Target, Phy!Target, Access!IsOcp,
              Phy!IsOcp, Access!PhyarAddress, Phy!PhyarAddress,
              Access!MappingPhyOcpAddress, Phy!MappingPhyOcpAddress
<1>3. \A a : Access!Script(a) = Phy!Script(a)
  <2>1. Access!Advertise = Phy!Advertise
    BY DEF Access!Advertise, Phy!Advertise, Access!Phyar, Phy!Phyar, Access!Meant,
           Phy!Meant, Access!PhyarAddress, Phy!PhyarAddress, Access!Read, Phy!Read,
           Access!Write, Phy!Write, Access!Page, Phy!Page, Access!OcpRead,
           Phy!OcpRead, Access!OcpWrite, Phy!OcpWrite, Access!Update, Phy!Update,
           Access!OcpUpdate, Phy!OcpUpdate, Access!ANAR, Phy!ANAR, Access!GBCR,
           Phy!GBCR, Access!BMCR, Phy!BMCR, Access!PageA40, Phy!PageA40,
           Access!PageA42, Phy!PageA42
  <2>2. Access!CheckLink = Phy!CheckLink
    BY DEF Access!CheckLink, Phy!CheckLink, Access!Phyar, Phy!Phyar, Access!Meant,
           Phy!Meant, Access!PhyarAddress, Phy!PhyarAddress, Access!Read, Phy!Read,
           Access!Write, Phy!Write, Access!Page, Phy!Page, Access!Update, Phy!Update,
           Access!ANAR, Phy!ANAR, Access!ANER, Phy!ANER, Access!BMSR, Phy!BMSR,
           Access!Page6, Phy!Page6, Access!PageA42, Phy!PageA42
  <2> QED
    BY <2>1, <2>2 DEF Access!Script, Phy!Script
<1>4. \A a : /\ Access!Op(a) = Phy!Op(a) /\ Access!Idle(a) = Phy!Idle(a)
            /\ Access!Other(a) = Phy!Other(a) /\ Access!ValueOf(a) = Phy!ValueOf(a)
            /\ Access!Untroubled(a) = Phy!Untroubled(a)
            /\ Access!Answered(a) = Phy!Answered(a)
            /\ Access!Advance(a) = Phy!Advance(a) /\ Access!Take(a) = Phy!Take(a)
  BY <1>1, <1>2, <1>3 DEF Access!Op, Phy!Op, Access!Idle, Phy!Idle, Access!Other,
                          Phy!Other, Access!ValueOf, Phy!ValueOf, Access!Untroubled,
                          Phy!Untroubled, Access!Answered, Phy!Answered,
                          Access!Advance, Phy!Advance, Access!Take, Phy!Take
<1>5. Access!PhyAssumption => Phy!PhyAssumption
  BY DEF Access!PhyAssumption, Phy!PhyAssumption
<1>6. Access!Init => Phy!Init
  BY <1>1 DEF Access!Init, Phy!Init
<1>7. [Access!Next]_(Access!vars) => [Phy!Next]_(Phy!vars)
  <2>1. UNCHANGED Access!vars => UNCHANGED Phy!vars
    BY DEF Access!vars, Phy!vars, Access!history, Phy!history
  <2>2. Access!PageRegister = Phy!PageRegister
    BY DEF Access!PageRegister, Phy!PageRegister
  <2>3. Access!Phy => Phy!Phy
    BY <1>1, <2>1, <2>2 DEF Access!Phy, Phy!Phy, Access!history, Phy!history
  <2>4. ASSUME NEW a \in Access!Actors
        PROVE  /\ Access!Begin(a) => Phy!Begin(a)
               /\ Access!SetPage(a) => Phy!SetPage(a)
               /\ Access!TellPage(a) => Phy!TellPage(a)
               /\ Access!Command(a) => Phy!Command(a)
               /\ Access!Poll(a) => Phy!Poll(a)
    <3>1. Access!Begin(a) => Phy!Begin(a)
      BY <1>1, <1>4 DEF Access!Begin, Phy!Begin
    <3>2. Access!SetPage(a) => Phy!SetPage(a)
      BY <1>4 DEF Access!SetPage, Phy!SetPage, Access!history, Phy!history, Access!Phyar,
         Phy!Phyar
    <3>3. Access!TellPage(a) => Phy!TellPage(a)
      BY <1>4, <2>2 DEF Access!TellPage, Phy!TellPage, Access!history, Phy!history,
         Access!Phyar, Phy!Phyar
    <3>4. Access!Command(a) => Phy!Command(a)
      BY <1>1, <1>2, <1>4, <2>1 DEF Access!Command, Phy!Command
    <3>5. Access!Poll(a) => Phy!Poll(a)
      BY <1>1, <1>4, <2>1 DEF Access!Poll, Phy!Poll
    <3> QED
      BY <3>1, <3>2, <3>3, <3>4, <3>5
  <2> QED
    BY <1>1, <2>1, <2>3, <2>4 DEF Access!Next, Phy!Next
<1>8. Phy!TypeOK => Access!TypeOK
  <2>1. /\ Access!Page6 = Phy!Page6 /\ Access!PageA40 = Phy!PageA40
        /\ Access!PageA42 = Phy!PageA42 /\ Access!Held = Phy!Held
    BY <1>1 DEF Access!Page6, Phy!Page6, Access!PageA40, Phy!PageA40, Access!PageA42,
                Phy!PageA42, Access!Held, Phy!Held
  <2> QED
    BY <1>1, <1>3, <2>1 DEF Access!TypeOK, Phy!TypeOK
<1>9. /\ Phy!WritesHitMeant => Access!WritesHitMeant
      /\ Phy!WritesOwnContents => Access!WritesOwnContents
  BY <1>1 DEF Access!WritesHitMeant, Phy!WritesHitMeant, Access!WritesOwnContents,
              Phy!WritesOwnContents
<1>10. Phy!AutonegReadsOwn => Access!AutonegReadsOwn
  BY <1>1, <1>4 DEF Access!AutonegReadsOwn, Phy!AutonegReadsOwn, Access!ANER,
                    Phy!ANER, Access!BMSR, Phy!BMSR
<1> QED
  BY <1>5, <1>6, <1>7, <1>8, <1>9, <1>10

\* WritesHitMeant, WritesOwnContents and AutonegReadsOwn, with the types: for any number
\* of runs and of polls, and for every family of chips.
THEOREM AccessIsSound == Spec => []AccessSound
<1>1. Init => Phy!AccessInv
  BY Phy!AccessBegins, SameAccess, InitOfEach, ComponentsAssumption DEF ComponentsAssumption
<1>2. Phy!AccessInv /\ [Next]_vars => Phy!AccessInv'
  BY Phy!NextAccess, SameAccess, StepOfEach, ComponentsAssumption DEF ComponentsAssumption
<1>3. Phy!AccessInv => AccessSound
  BY Phy!AccessInvMeans, SameAccess, ComponentsAssumption DEF ComponentsAssumption,
     AccessSound
<1> QED
  BY <1>1, <1>2, <1>3, PTL DEF Spec

-----------------------------------------------------------------------------
(* Loading a program into the PHY.  What is left to do is a sequence of steps;   *)
(* a claim says of it that, wherever a step of one kind stands in it, something  *)
(* will hold when the driver gets there: a step before it makes it so or it is   *)
(* so now, and the steps in between leave it so.                                 *)

Does(D) == {[do |-> w] : w \in D}
Savings == {[do |-> "saving", as |-> v] : v \in {"off", "on"}}
Saves == {[do |-> "save", as |-> v] : v \in {"none", "off", "on"}}
Loads == {[do |-> "load", word |-> x] : x \in Patch!Program}
Froms == {Patch!From(c) : c \in 1 .. Chunks}

Names == {"request", "await ready", "withdraw", "await idle", "lock", "unlock", "match",
          "version", "checked", "up", "down"}

\* Everything the driver does.
Steps == Does(Names) \cup Savings \cup Saves \cup Loads \cup Froms

\* After the first j steps of s what a step of X makes so and one of B leaves so is so,
\* or, when it is so now, still is.
Since(s, j, X, B, now) ==
    \/ \E k \in 1 .. j : s[k] \in X /\ \A m \in k + 1 .. j : s[m] \in B
    \/ now /\ \A m \in 1 .. j : s[m] \in B

\* It is so whenever a step of A is done.
Claim(s, A, X, B, now) == \A j \in 1 .. Len(s) : s[j] \in A => Since(s, j - 1, X, B, now)

\* It holds of two sequences in a row when the first leaves it so for the second.
LEMMA ClaimConcat ==
    ASSUME NEW s \in Seq(Steps), NEW t \in Seq(Steps), NEW A, NEW X, NEW B,
           NEW now, NEW then, Claim(s, A, X, B, now), Claim(t, A, X, B, then),
           then => Since(s, Len(s), X, B, now)
    PROVE  s \o t \in Seq(Steps) /\ Claim(s \o t, A, X, B, now)
<1> DEFINE u == s \o t
<1>1. /\ u \in Seq(Steps) /\ Len(u) = Len(s) + Len(t)
      /\ Len(s) \in Nat /\ Len(t) \in Nat
      /\ \A k \in 1 .. Len(s) : u[k] = s[k]
      /\ \A k \in 1 .. Len(t) : u[Len(s) + k] = t[k]
  OBVIOUS
<1> HIDE DEF u
<1>2. ASSUME NEW j \in 1 .. Len(u), u[j] \in A PROVE Since(u, j - 1, X, B, now)
  <2>1. CASE j <= Len(s)
    <3>0. j \in 1 .. Len(s) /\ s[j] \in A
      BY <1>1, <1>2, <2>1
    <3>1. j \in 1 .. Len(s) /\ Since(s, j - 1, X, B, now)
      BY <3>0 DEF Claim
    <3>2. \A k \in 1 .. j - 1 : u[k] = s[k]
      BY <1>1, <3>1
    <3>3. CASE \E k \in 1 .. j - 1 : s[k] \in X /\ \A m \in k + 1 .. j - 1 : s[m] \in B
      <4>1. PICK k \in 1 .. j - 1 : s[k] \in X /\ \A m \in k + 1 .. j - 1 : s[m] \in B
        BY <3>3
      <4>2. \A m \in k + 1 .. j - 1 : m \in 1 .. j - 1
        BY <3>1
      <4> QED
        BY <3>2, <4>1, <4>2 DEF Since
    <3>4. CASE now /\ \A m \in 1 .. j - 1 : s[m] \in B
      BY <3>2, <3>4 DEF Since
    <3> QED
      BY <3>1, <3>3, <3>4 DEF Since
  <2>2. CASE j > Len(s)
    <3> DEFINE h == j - Len(s)
    <3>1. h \in 1 .. Len(t) /\ t[h] \in A /\ j - 1 = Len(s) + (h - 1)
      BY <1>1, <1>2, <2>2
    <3>2. Since(t, h - 1, X, B, then)
      BY <3>1 DEF Claim
    <3>3. \A m \in Len(s) + 1 .. j - 1 : m - Len(s) \in 1 .. h - 1 /\ u[m] = t[m - Len(s)]
      <4>1. ASSUME NEW m \in Len(s) + 1 .. j - 1
            PROVE  m - Len(s) \in 1 .. h - 1 /\ u[m] = t[m - Len(s)]
        <5>1. m - Len(s) \in 1 .. h - 1 /\ m - Len(s) \in 1 .. Len(t)
              /\ Len(s) + (m - Len(s)) = m
          BY <1>1, <3>1
        <5> QED
          BY <1>1, <5>1
      <4> QED
        BY <4>1
    <3>4. CASE \E k \in 1 .. h - 1 : t[k] \in X /\ \A m \in k + 1 .. h - 1 : t[m] \in B
      <4>1. PICK k \in 1 .. h - 1 : t[k] \in X /\ \A m \in k + 1 .. h - 1 : t[m] \in B
        BY <3>4
      <4>2. Len(s) + k \in 1 .. j - 1 /\ u[Len(s) + k] = t[k]
        BY <1>1, <3>1
      <4>3. ASSUME NEW m \in Len(s) + k + 1 .. j - 1 PROVE u[m] \in B
        <5>1. m \in Len(s) + 1 .. j - 1 /\ m - Len(s) \in k + 1 .. h - 1
          BY <1>1, <3>1
        <5> QED
          BY <3>3, <4>1, <5>1
      <4> QED
        BY <4>1, <4>2, <4>3 DEF Since
    <3>5. CASE then /\ \A m \in 1 .. h - 1 : t[m] \in B
      <4>1. \A m \in Len(s) + 1 .. j - 1 : u[m] \in B
        BY <3>3, <3>5
      <4>2. Since(s, Len(s), X, B, now)
        BY <3>5
      <4>3. \A m \in 1 .. j - 1 : m \in 1 .. Len(s) \/ m \in Len(s) + 1 .. j - 1
        BY <1>1, <2>2
      <4>4. CASE now /\ \A m \in 1 .. Len(s) : s[m] \in B
        <5>1. \A m \in 1 .. j - 1 : u[m] \in B
          BY <1>1, <4>1, <4>3, <4>4
        <5> QED
          BY <4>4, <5>1 DEF Since
      <4>5. CASE \E k \in 1 .. Len(s) :
                    s[k] \in X /\ \A m \in k + 1 .. Len(s) : s[m] \in B
        <5>1. PICK k \in 1 .. Len(s) :
                    s[k] \in X /\ \A m \in k + 1 .. Len(s) : s[m] \in B
          BY <4>5
        <5>2. k \in 1 .. j - 1 /\ u[k] = s[k]
          BY <1>1, <2>2
        <5>3. ASSUME NEW m \in k + 1 .. j - 1 PROVE u[m] \in B
          <6>1. CASE m <= Len(s)
            <7>1. m \in 1 .. Len(s) /\ m \in k + 1 .. Len(s)
              BY <1>1, <6>1
            <7> QED
              BY <1>1, <5>1, <7>1
          <6>2. CASE m > Len(s)
            BY <1>1, <4>1, <6>2
          <6> QED
            BY <1>1, <6>1, <6>2
        <5> QED
          BY <5>1, <5>2, <5>3 DEF Since
      <4> QED
        BY <4>2, <4>4, <4>5 DEF Since
    <3> QED
      BY <3>2, <3>4, <3>5 DEF Since
  <2> QED
    BY <1>1, <2>1, <2>2
<1> QED
  BY <1>1, <1>2 DEF Claim, u

\* What it is to be so after the first step of a sequence, when it is now.
After1(t, X, B, now) == t \in X \/ (t \in B /\ now)

\* It holds of what is left of a sequence after its first step.
LEMMA ClaimTail ==
    ASSUME NEW s \in Seq(Steps), s # <<>>, NEW A, NEW X, NEW B, NEW now,
           Claim(s, A, X, B, now)
    PROVE  /\ Claim(Tail(s), A, X, B, After1(s[1], X, B, now))
           /\ s[1] \in A => now
<1> DEFINE u == Tail(s)
<1>1. /\ u \in Seq(Steps) /\ Len(s) \in Nat \ {0} /\ Len(u) = Len(s) - 1
      /\ \A k \in 1 .. Len(u) : u[k] = s[k + 1]
  OBVIOUS
<1> HIDE DEF u
<1>2. ASSUME NEW j \in 1 .. Len(u), u[j] \in A
      PROVE  Since(u, j - 1, X, B, After1(s[1], X, B, now))
  <2>1. j + 1 \in 1 .. Len(s) /\ s[j + 1] \in A /\ (j + 1) - 1 = j
    BY <1>1, <1>2
  <2>2. Since(s, j, X, B, now)
    BY <2>1 DEF Claim
  <2>3. \A m \in 1 .. j - 1 : u[m] = s[m + 1] /\ m + 1 \in 2 .. j
    BY <1>1
  <2>4. ASSUME \A m \in 2 .. j : s[m] \in B PROVE \A m \in 1 .. j - 1 : u[m] \in B
    BY <2>3, <2>4
  <2>5. CASE now /\ \A m \in 1 .. j : s[m] \in B
    <3>1. s[1] \in B /\ \A m \in 2 .. j : s[m] \in B
      BY <2>5
    <3> QED
      BY <2>4, <2>5, <3>1 DEF Since, After1
  <2>6. CASE \E k \in 1 .. j : s[k] \in X /\ \A m \in k + 1 .. j : s[m] \in B
    <3>1. PICK k \in 1 .. j : s[k] \in X /\ \A m \in k + 1 .. j : s[m] \in B
      BY <2>6
    <3>2. CASE k = 1
      <4>1. s[1] \in X /\ \A m \in 2 .. j : s[m] \in B
        BY <3>1, <3>2
      <4> QED
        BY <2>4, <4>1 DEF Since, After1
    <3>3. CASE k > 1
      <4>1. k - 1 \in 1 .. j - 1 /\ u[k - 1] = s[k]
        BY <2>3, <3>3
      <4>2. \A m \in k .. j - 1 : u[m] \in B
        <5>1. ASSUME NEW m \in k .. j - 1 PROVE u[m] \in B
          <6>1. m \in 1 .. j - 1 /\ m + 1 \in k + 1 .. j
            BY <3>3
          <6> QED
            BY <2>3, <3>1, <6>1
        <5> QED
          BY <5>1
      <4>3. (k - 1) + 1 = k
        OBVIOUS
      <4> QED
        BY <3>1, <4>1, <4>2, <4>3 DEF Since
    <3> QED
      BY <3>2, <3>3
  <2> QED
    BY <2>2, <2>5, <2>6 DEF Since
<1>3. s[1] \in A => now
  <2>1. 1 \in 1 .. Len(s) /\ 1 - 1 = 0
    BY <1>1
  <2> QED
    BY <2>1 DEF Claim, Since
<1> QED
  BY <1>2, <1>3 DEF Claim, u

\* One that is never about to be done claims nothing.
LEMMA ClaimNothing ==
    ASSUME NEW s \in Seq(Steps), NEW A, NEW X, NEW B, NEW now,
           \A j \in 1 .. Len(s) : s[j] \notin A
    PROVE  Claim(s, A, X, B, now)
BY DEF Claim

\* What was to be so is so after another step that makes it so, or leaves it so.
LEMMA ClaimPop ==
    ASSUME NEW s \in Seq(Steps), s # <<>>, NEW A, NEW X, NEW B, NEW now,
           NEW then, Claim(s, A, X, B, now),
           s[1] \in X \/ (s[1] \in B /\ now) => then
    PROVE  Claim(Tail(s), A, X, B, then)
<1> DEFINE a == After1(s[1], X, B, now)
<1>1. Claim(Tail(s), A, X, B, a)
  BY ClaimTail
<1>2. a => then
  BY DEF After1
<1> HIDE DEF a
<1> QED
  BY <1>1, <1>2 DEF Claim, Since

\* A step that turns out to be a sequence of steps.
LEMMA ClaimPush ==
    ASSUME NEW s \in Seq(Steps), s # <<>>, NEW A, NEW X, NEW B, NEW now,
           NEW t \in Seq(Steps), Claim(s, A, X, B, now), Claim(t, A, X, B, now),
           s[1] \in X \/ (s[1] \in B /\ now) => Since(t, Len(t), X, B, now)
    PROVE  Claim(t \o Tail(s), A, X, B, now)
<1>1. Tail(s) \in Seq(Steps)
  OBVIOUS
<1>2. \E q : q <=> s[1] \in X \/ (s[1] \in B /\ now)
  OBVIOUS
<1>3. PICK q : q <=> s[1] \in X \/ (s[1] \in B /\ now)
  BY <1>2
<1>4. Claim(Tail(s), A, X, B, q)
  BY <1>3, ClaimPop
<1>5. q => Since(t, Len(t), X, B, now)
  BY <1>3
<1> QED
  BY <1>1, <1>4, <1>5, ClaimConcat

Doing(D) == {t \in Steps : t.do \in D}
NotDoing(D) == {t \in Steps : t.do \notin D}
SavingTo(v) == {t \in Steps : t.do = "saving" /\ t.as = v}
SaveAs(V) == {t \in Steps : t.do = "save" /\ t.as \in V}

Bringing(x) == {t \in Steps : \/ t.do = "load" /\ t.word = x
                              \/ t.do = "program" /\ t.from <= x[1]}

\* A chip whose patches are over once its version is written.
Once == kind \in {"key", "plain"}

Withdrawing == {t \in Steps : \/ t.do \in {"withdraw", "program"}
                              \/ t.do = "match" /\ Once
                              \/ t.do = "saving" /\ t.as = "on"}

\* The PHY has been asked before it is waited for, is ready before it gets a word, and
\* unlocked where it has a lock.
Asked == Claim(todo, Doing({"await ready"}), Doing({"request"}), Doing({}), request)
Ready == Claim(todo, Doing({"load", "save"}), Doing({"await ready"}),
               Doing({"load", "save", "lock", "unlock"}), request /\ ready)
Keyed == kind = "key" =>
             Claim(todo, Doing({"load"}), Doing({"lock"}), Doing({"load"}), key)

\* Every word is there before the version is.
Brought == \A x \in Patch!Program :
               Claim(todo, Doing({"version"}), Bringing(x), Steps, code[x] = "ours")

\* Before the device is up a request is withdrawn and the key given back, where it has
\* its version by the program that gives it.
Withdrawn == ver # "ours" \/ ~Once =>
    Claim(todo, Doing({"up", "checked", "version"}), Withdrawing, NotDoing({"request"}),
          ~request)
Unlocked == ver # "ours" /\ kind = "key" =>
    Claim(todo, Doing({"up", "version"}), Doing({"unlock", "match", "program"}),
          NotDoing({"lock"}), ~key)

\* The register for saving power is not on before it is put on, and off before the
\* version is looked at.
NotOn == Claim(todo, SavingTo("on"), SavingTo("off") \cup SaveAs({"none", "off"}),
               Steps \ (SavingTo("on") \cup SaveAs({"on"})), saving # "on")
IsOff == kind = "key" =>
    Claim(todo, Doing({"match", "version"}), SavingTo("off") \cup SaveAs({"off"}),
          NotDoing({"save"}), saving = "off")

\* Where the version ends all patches, nothing of a patch is left when it is there.
Patching == {"request", "lock", "save", "load", "program"}
Over == Once =>
    /\ Claim(todo, Doing(Patching), Doing({}), NotDoing({"match", "version"}), ver # "ours")
    /\ ver = "ours" => ~request /\ ~key /\ (kind = "key" => saving = "off")

\* What only some chips do.
OnlySome ==
    /\ kind # "key" => ~key /\ \A j \in 1 .. Len(todo) : todo[j].do # "lock"
    /\ \A j \in 1 .. Len(todo) :
          /\ todo[j].do = "checked" => kind = "check"
          /\ todo[j].do \in {"saving", "save"} => Patch!HasSaving
          /\ todo[j].do \in {"saving", "save"} /\ todo[j].as = "on" => kind = "saving"

Ends == todo # <<>> => todo[Len(todo)].do \in {"up", "down"}

PatchTypes == Patch!TypeOK /\ todo \in Seq(Steps)

Prompt ==
    /\ Asked /\ Ready /\ Keyed /\ Brought /\ Withdrawn /\ Unlocked /\ NotOn /\ IsOff /\ Over
    /\ OnlySome /\ Ends /\ Patch!CodeComplete /\ Patch!PatchWithdrawn

PatchInv == PatchTypes /\ (late \/ Prompt)

-----------------------------------------------------------------------------

\* The parts of a step.
LEMMA StepKinds ==
    ASSUME NEW t \in Steps
    PROVE  /\ t.do \in Names \cup {"saving", "save", "load", "program"}
           /\ t.do = "saving" => t.as \in {"off", "on"}
           /\ t.do = "save" => t.as \in {"none", "off", "on"}
           /\ t.do = "load" => t.word \in Patch!Program
           /\ t.do = "program" => t.from \in 1 .. Chunks
<1>1. CASE t \in Does(Names)
  <2>1. PICK w \in Names : t = [do |-> w]
    BY <1>1 DEF Does
  <2>2. t.do = w /\ w \notin {"saving", "save", "load", "program"}
    BY <2>1 DEF Names
  <2> QED
    BY <2>2
<1>2. CASE t \in Savings
  BY <1>2 DEF Savings
<1>3. CASE t \in Saves
  BY <1>3 DEF Saves
<1>4. CASE t \in Loads
  BY <1>4 DEF Loads
<1>5. CASE t \in Froms
  BY <1>5 DEF Froms, Patch!From
<1> QED
  BY <1>1, <1>2, <1>3, <1>4, <1>5 DEF Steps

\* The steps there are.
LEMMA StepsAre ==
    /\ \A w \in Names : Patch!Do(w) \in Steps /\ Patch!Do(w).do = w
    /\ \A v \in {"off", "on"} : [do |-> "saving", as |-> v] \in Steps
    /\ \A v \in {"none", "off", "on"} : [do |-> "save", as |-> v] \in Steps
    /\ \A x \in Patch!Program : [do |-> "load", word |-> x] \in Steps
    /\ \A c \in 1 .. Chunks : Patch!From(c) \in Steps
BY DEF Steps, Does, Savings, Saves, Loads, Froms, Patch!Do, Patch!From

\* The next step is done, and what it does.
Pops ==
    /\ todo # <<>> /\ todo' = Tail(todo)
    /\ LET h == todo[1]
       IN  /\ phyUp' = (h.do = "up" \/ (h.do # "down" /\ phyUp))
           /\ request' = (h.do = "request" \/ (h.do # "withdraw" /\ request))
           /\ key' = (h.do = "lock" \/ (h.do # "unlock" /\ key))
           /\ ready' = ready /\ (h.do = "await ready" => ready)
           /\ \A x \in Patch!Program :
                 code'[x] = IF /\ h.do = "load" /\ h.word = x
                               /\ ready /\ (kind = "key" => key)
                            THEN "ours" ELSE code[x]
           /\ saving' = IF h.do = "save" /\ ready THEN h.as ELSE saving
           /\ ver' = IF h.do = "version" THEN "ours" ELSE ver
           /\ h.do = "saving" => saving = h.as
           /\ h.do = "match" => ver = "ours"
           /\ h.do # "program"

Pushes(t) == /\ todo # <<>> /\ todo' = t \o Tail(todo)
             /\ UNCHANGED <<ver, code, request, ready, key, saving, phyUp>>

\* A step is done, or stands for others, unless a poll gives up.
LEMMA StepForms ==
    ASSUME Patch!PatchAssumption, PatchTypes, Patch!Step
    PROVE  /\ todo # <<>> /\ kind' = kind
           /\ late' \/ 
              /\ ~late
              /\ \/ Pops
                 \/ /\ todo[1].do = "checked" /\ todo' = <<Patch!Do("up")>>
                    /\ UNCHANGED <<ver, code, request, ready, key, saving, phyUp>>
                 \/ \E v \in {"off", "on"} :
                       /\ todo[1].do = "saving" /\ todo[1].as = v /\ saving # v
                       /\ Pushes(Patch!SetSaving(v))
                 \/ todo[1].do = "match" /\ ver # "ours" /\ Pushes(Patch!Download)
                 \/ \E c \in 1 .. Chunks :
                       /\ todo[1].do = "program" /\ todo[1].from = c
                       /\ Pushes(Patch!Patch(Patch!Load(c)) \o
                                 (IF c = Chunks THEN <<>> ELSE <<Patch!From(c + 1)>>))
<1> USE DEF Patch!Done, Patch!phy, Patch!Next1
<1>1. todo # <<>> /\ kind' = kind /\ todo \in Seq(Steps)
  BY DEF Patch!Step, Patch!SetRequest, Patch!ClearRequest, Patch!Await, Patch!AcquireKey,
     Patch!ReleaseKey, Patch!LoadWord, Patch!Save, Patch!ReadSaving, Patch!MatchVersion,
     Patch!NextPatch, Patch!WriteVersion, Patch!Checked, Patch!Finish, PatchTypes
<1>2. todo[1] = Head(todo) /\ todo[1] \in Steps /\ <<>> \o Tail(todo) = Tail(todo)
  BY <1>1
<1>3. CASE Patch!SetRequest \/ Patch!ClearRequest \/ Patch!AcquireKey \/ Patch!ReleaseKey
           \/ Patch!WriteVersion \/ Patch!Finish
  BY <1>1, <1>2, <1>3 DEF Pops, Patch!SetRequest, Patch!ClearRequest, Patch!AcquireKey,
     Patch!ReleaseKey, Patch!WriteVersion, Patch!Finish, PatchTypes, Patch!TypeOK
<1>4. CASE Patch!Await
  <2>1. \/ todo[1].do = "await ready" /\ (ready \/ late')
        \/ todo[1].do = "await idle"
    BY <1>1, <1>2, <1>4 DEF Patch!Await
  <2>2. todo' = Tail(todo) /\ (late' \/ late' = late)
        /\ UNCHANGED <<ver, code, request, ready, key, saving, phyUp>>
    BY <1>1, <1>2, <1>4 DEF Patch!Await
  <2> QED
    BY <1>1, <1>2, <2>1, <2>2 DEF Pops, PatchTypes, Patch!TypeOK
<1>5. CASE Patch!LoadWord
  BY <1>1, <1>2, <1>5 DEF Pops, Patch!LoadWord, PatchTypes, Patch!TypeOK
<1>6. CASE Patch!Save
  BY <1>1, <1>2, <1>6 DEF Pops, Patch!Save, PatchTypes, Patch!TypeOK
<1>7. CASE Patch!ReadSaving
  BY <1>1, <1>2, <1>7, StepKinds DEF Pops, Pushes, Patch!ReadSaving, PatchTypes, Patch!TypeOK
<1>8. CASE Patch!MatchVersion
  BY <1>1, <1>2, <1>8 DEF Pops, Pushes, Patch!MatchVersion, PatchTypes, Patch!TypeOK
<1>9. CASE Patch!NextPatch
  BY <1>1, <1>2, <1>9, StepKinds DEF Pushes, Patch!NextPatch, PatchTypes, Patch!TypeOK
<1>10. CASE Patch!Checked
  BY <1>1, <1>2, <1>10 DEF Pops, Patch!Checked, PatchTypes, Patch!TypeOK
<1> QED
  BY <1>1, <1>3, <1>4, <1>5, <1>6, <1>7, <1>8, <1>9, <1>10 DEF Patch!Step

\* Doing one step keeps all of it.
LEMMA PopKeeps ==
    ASSUME PatchTypes, PatchTypes', kind' = kind, ~late, Prompt, Pops
    PROVE  Prompt'
<1> DEFINE h == todo[1]
<1>1. /\ todo \in Seq(Steps) /\ todo # <<>> /\ todo' = Tail(todo)
      /\ h \in Steps /\ 1 \in 1 .. Len(todo) /\ Len(todo) \in Nat
      /\ Len(todo') = Len(todo) - 1
      /\ \A j \in 1 .. Len(todo') : todo'[j] = todo[j + 1] /\ j + 1 \in 1 .. Len(todo)
  <2>1. todo \in Seq(Steps) /\ todo # <<>> /\ todo' = Tail(todo)
    BY DEF PatchTypes, Pops
  <2> QED
    BY <2>1
<1>2. /\ h.do \in Names \cup {"saving", "save", "load", "program"}
      /\ h.do = "saving" => h.as \in {"off", "on"}
      /\ h.do = "save" => h.as \in {"none", "off", "on"}
  BY <1>1, StepKinds
<1> HIDE DEF h
<1>3. Asked'
  <2>1. h \in Doing({"request"}) \/ (h \in Doing({}) /\ request) => request'
    BY DEF Doing, Pops, h
  <2> QED
    BY <1>1, <2>1, ClaimPop DEF Asked, Prompt, h
<1>4. h.do \in {"load", "save"} => request /\ ready
  BY <1>1, ClaimTail DEF Prompt, Ready, Doing, h
<1>5. Ready'
  <2>1. h.do = "await ready" => request
    <3> DEFINE A == Doing({"await ready"})
    <3>1. Claim(todo, A, Doing({"request"}), Doing({}), request)
      BY DEF Prompt, Asked
    <3> HIDE DEF A
    <3>2. todo[1] \in A => request
      BY <1>1, <3>1, ClaimTail
    <3> QED
      BY <1>1, <3>2 DEF A, Doing, h
  <2>2. h \in Doing({"await ready"})
        \/ (h \in Doing({"load", "save", "lock", "unlock"}) /\ request /\ ready)
        => request' /\ ready'
    BY <2>1 DEF Doing, Pops, h
  <2> QED
    BY <1>1, <2>2, ClaimPop DEF Ready, Prompt, h
<1>6. Keyed' /\ (h.do = "load" /\ kind = "key" => key)
  <2>1. CASE kind = "key"
    <3>1. h \in Doing({"lock"}) \/ (h \in Doing({"load"}) /\ key) => key'
      BY DEF Doing, Pops, h
    <3>2. Claim(todo, Doing({"load"}), Doing({"lock"}), Doing({"load"}), key)
      BY <2>1 DEF Prompt, Keyed
    <3>3. h.do = "load" => key
      BY <1>1, <3>2, ClaimTail DEF Doing, h
    <3> QED
      BY <1>1, <3>1, <3>2, <3>3, ClaimPop DEF Keyed, h
  <2> QED
    BY <2>1 DEF Keyed
<1>7. ASSUME NEW x \in Patch!Program
      PROVE  /\ Claim(todo', Doing({"version"}), Bringing(x), Steps, code'[x] = "ours")
             /\ h.do = "version" => code[x] = "ours"
  <2>1. Claim(todo, Doing({"version"}), Bringing(x), Steps, code[x] = "ours")
    BY DEF Prompt, Brought
  <2>2. h \in Bringing(x) \/ (h \in Steps /\ code[x] = "ours") => code'[x] = "ours"
    BY <1>4, <1>6 DEF Bringing, Pops, h
  <2>3. h.do = "version" => code[x] = "ours"
    BY <1>1, <2>1, ClaimTail DEF Doing, h
  <2> QED
    BY <1>1, <2>1, <2>2, <2>3, ClaimPop DEF h
<1>8. Brought' /\ Patch!CodeComplete'
  <2>1. Brought'
    BY <1>7 DEF Brought, Patch!Program
  <2>2. Patch!CodeComplete'
    <3>1. ASSUME NEW x \in Patch!Program, ver' = "ours" PROVE code'[x] = "ours"
      BY <1>4, <1>6, <1>7, <3>1 DEF Pops, h, Prompt, Patch!CodeComplete
    <3> QED
      BY <3>1 DEF Patch!CodeComplete, Patch!Program
  <2> QED
    BY <2>1, <2>2
<1>9. NotOn' /\ (h.do = "saving" => h.as = "off")
  <2> DEFINE
        A == SavingTo("on")
        X == SavingTo("off") \cup SaveAs({"none", "off"})
        B == Steps \ (SavingTo("on") \cup SaveAs({"on"}))
  <2>1. Claim(todo, A, X, B, saving # "on")
    BY DEF Prompt, NotOn
  <2>2. h \in X \/ (h \in B /\ saving # "on") => saving' # "on"
    BY <1>1, <1>2, <1>4 DEF SavingTo, SaveAs, Pops, h
  <2>3. h.do = "saving" => h.as = "off"
    <3>1. h \in A => saving # "on"
      BY <1>1, <2>1, ClaimTail DEF h
    <3> QED
      BY <1>1, <1>2, <3>1 DEF SavingTo, Pops, h
  <2>4. Claim(todo', A, X, B, saving' # "on")
    BY <1>1, <2>1, <2>2, ClaimPop DEF h
  <2> QED
    BY <2>3, <2>4 DEF NotOn, A, X, B
<1>10. Withdrawn'
       /\ (h.do \in {"up", "checked", "version"} /\ (ver # "ours" \/ ~Once) => ~request)
  <2> DEFINE
        A == Doing({"up", "checked", "version"})
        B == NotDoing({"request"})
  <2>1. CASE ver # "ours" \/ ~Once
    <3>1. Claim(todo, A, Withdrawing, B, ~request)
      BY <2>1 DEF Prompt, Withdrawn
    <3>2. h \in A => ~request
      BY <1>1, <3>1, ClaimTail DEF h
    <3>3. h \in Withdrawing \/ (h \in B /\ ~request) => ~request'
      BY <1>9, <2>1 DEF Withdrawing, NotDoing, Pops, h
    <3>4. Claim(todo', A, Withdrawing, B, ~request')
      BY <1>1, <3>1, <3>3, ClaimPop DEF h
    <3> QED
      BY <1>1, <3>2, <3>4 DEF Withdrawn, Doing, Withdrawing, Once
  <2>2. CASE ver = "ours" /\ Once
    BY <2>2 DEF Withdrawn, Pops, Once
  <2> QED
    BY <2>1, <2>2
<1>11. Unlocked' /\ (h.do \in {"up", "version"} /\ ver # "ours" /\ kind = "key" => ~key)
  <2> DEFINE
        A == Doing({"up", "version"})
        X == Doing({"unlock", "match", "program"})
        B == NotDoing({"lock"})
  <2>1. CASE ver # "ours" /\ kind = "key"
    <3>1. Claim(todo, A, X, B, ~key)
      BY <2>1 DEF Prompt, Unlocked
    <3>2. h \in A => ~key
      BY <1>1, <3>1, ClaimTail DEF h
    <3>3. h \in X \/ (h \in B /\ ~key) => ~key'
      BY <2>1 DEF Doing, NotDoing, Pops, h
    <3>4. Claim(todo', A, X, B, ~key')
      BY <1>1, <3>1, <3>3, ClaimPop DEF h
    <3> QED
      BY <1>1, <3>2, <3>4 DEF Unlocked, Doing
  <2>2. CASE ~(ver # "ours" /\ kind = "key")
    BY <2>2 DEF Unlocked, Pops
  <2> QED
    BY <2>1, <2>2
<1>12. IsOff' /\ (h.do = "version" /\ kind = "key" => saving = "off")
  <2> DEFINE
        A == Doing({"match", "version"})
        X == SavingTo("off") \cup SaveAs({"off"})
        B == NotDoing({"save"})
  <2>1. CASE kind = "key"
    <3>1. Claim(todo, A, X, B, saving = "off")
      BY <2>1 DEF Prompt, IsOff
    <3>2. h \in A => saving = "off"
      BY <1>1, <3>1, ClaimTail DEF h
    <3>3. h \in X \/ (h \in B /\ saving = "off") => saving' = "off"
      BY <1>4, <2>1 DEF SavingTo, SaveAs, NotDoing, Pops, h
    <3>4. Claim(todo', A, X, B, saving' = "off")
      BY <1>1, <3>1, <3>3, ClaimPop DEF h
    <3> QED
      BY <1>1, <3>2, <3>4 DEF IsOff, Doing
  <2>2. CASE kind # "key"
    BY <2>2 DEF IsOff
  <2> QED
    BY <2>1, <2>2
<1>13. Over'
  <2> DEFINE
        A == Doing(Patching)
        X == Doing({})
        B == NotDoing({"match", "version"})
  <2>1. CASE Once
    <3>1. Claim(todo, A, X, B, ver # "ours")
      BY <2>1 DEF Prompt, Over
    <3>2. h.do \in Patching => ver # "ours"
      BY <1>1, <3>1, ClaimTail DEF h, Doing
    <3>3. h \in X \/ (h \in B /\ ver # "ours") => ver' # "ours"
      BY DEF Doing, NotDoing, Pops, h
    <3>4. Claim(todo', A, X, B, ver' # "ours")
      BY <1>1, <3>1, <3>3, ClaimPop DEF h
    <3>5. CASE ver = "ours"
      <4>1. ~request /\ ~key /\ (kind = "key" => saving = "off")
        BY <2>1, <3>5 DEF Prompt, Over
      <4> QED
        BY <2>1, <3>2, <3>4, <3>5, <4>1 DEF Over, Once, Pops, Patching, h
    <3>6. CASE ver # "ours" /\ ver' = "ours"
      <4>1. h.do = "version"
        BY <3>6 DEF Pops, h
      <4>2. kind # "key" => ~key
        BY DEF Prompt, OnlySome
      <4> QED
        BY <1>10, <1>11, <1>12, <2>1, <3>4, <3>6, <4>1, <4>2 DEF Over, Once, Pops, h
    <3>7. CASE ver' # "ours"
      BY <2>1, <3>4, <3>7 DEF Over, Once
    <3> QED
      BY <3>5, <3>6, <3>7
  <2>2. CASE ~Once
    BY <2>2 DEF Over, Once
  <2> QED
    BY <2>1, <2>2
<1>14. OnlySome'
  <2>1. kind # "key" => h.do # "lock" /\ ~key
    BY <1>1 DEF Prompt, OnlySome, h
  <2>2. kind # "key" => ~key'
    BY <2>1 DEF Pops, h
  <2> QED
    BY <1>1, <2>2 DEF Prompt, OnlySome, Patch!HasSaving
<1>15. Ends' /\ (todo' = <<>> => h.do \in {"up", "down"})
  <2>1. todo[Len(todo)].do \in {"up", "down"}
    BY <1>1 DEF Prompt, Ends
  <2>2. todo' # <<>> => Len(todo') \in 1 .. Len(todo') /\ Len(todo') + 1 = Len(todo)
    <3>1. todo' \in Seq(Steps)
      BY DEF PatchTypes
    <3>2. todo' # <<>> => Len(todo') >= 1
      BY <3>1
    <3> QED
      BY <1>1, <3>2
  <2>3. todo' = <<>> => Len(todo) = 1
    <3>1. todo' = <<>> => Len(todo') = 0
      OBVIOUS
    <3> QED
      BY <1>1, <3>1
  <2> QED
    BY <1>1, <2>1, <2>2, <2>3 DEF Ends, h
<1>16. Patch!PatchWithdrawn'
  <2>1. CASE phyUp' /\ todo' = <<>>
    <3>1. h.do = "up"
      BY <1>15, <2>1 DEF Pops, h
    <3>2. ver = "ours" /\ Once => ~request /\ ~key
      BY DEF Prompt, Over
    <3>3. kind # "key" => ~key
      BY DEF Prompt, OnlySome
    <3>4. ~request /\ ~key
      BY <1>10, <1>11, <3>1, <3>2, <3>3 DEF Once
    <3> QED
      BY <3>1, <3>4 DEF Pops, Patch!PatchWithdrawn, h
  <2> QED
    BY <2>1 DEF Patch!PatchWithdrawn
<1> QED
  BY <1>3, <1>5, <1>6, <1>8, <1>9, <1>10, <1>11, <1>12, <1>13, <1>14, <1>15, <1>16
  DEF Prompt

\* Two sequences in a row.
LEMMA ConcatIs ==
    ASSUME NEW s \in Seq(Steps), NEW t \in Seq(Steps), NEW u, u = s \o t
    PROVE  /\ u \in Seq(Steps) /\ Len(u) = Len(s) + Len(t)
           /\ Len(s) \in Nat /\ Len(t) \in Nat
           /\ \A k \in 1 .. Len(s) : u[k] = s[k]
           /\ \A k \in 1 .. Len(t) : u[Len(s) + k] = t[k]
OBVIOUS

\* Sequences of one step and of two.
LEMMA PairIs ==
    ASSUME NEW x \in Steps, NEW y \in Steps
    PROVE  /\ <<x, y>> \in Seq(Steps) /\ Len(<<x, y>>) = 2
           /\ <<x, y>>[1] = x /\ <<x, y>>[2] = y
           /\ <<x>> \in Seq(Steps) /\ Len(<<x>>) = 1 /\ <<x>>[1] = x
OBVIOUS

\* A patch, step by step.
LEMMA PatchIs ==
    ASSUME NEW b \in Seq(Steps)
    PROVE  LET t == Patch!Patch(b)
           IN  /\ t \in Seq(Steps) /\ Len(t) = Len(b) + 4
               /\ t[1].do = "request" /\ t[2].do = "await ready"
               /\ \A k \in 1 .. Len(b) : t[k + 2] = b[k]
               /\ t[Len(b) + 3].do = "withdraw" /\ t[Len(b) + 4].do = "await idle"
<1> DEFINE
        p == <<Patch!Do("request"), Patch!Do("await ready")>>
        q == <<Patch!Do("withdraw"), Patch!Do("await idle")>>
        t == (p \o b) \o q
<1>0. p \in Seq(Steps) /\ q \in Seq(Steps)
  BY StepsAre, PairIs DEF Names
<1>1. /\ Len(p) = 2 /\ Len(q) = 2
      /\ p[1].do = "request" /\ p[2].do = "await ready"
      /\ q[1].do = "withdraw" /\ q[2].do = "await idle"
  <2>1. /\ Patch!Do("request") \in Steps /\ Patch!Do("request").do = "request"
        /\ Patch!Do("await ready") \in Steps /\ Patch!Do("await ready").do = "await ready"
        /\ Patch!Do("withdraw") \in Steps /\ Patch!Do("withdraw").do = "withdraw"
        /\ Patch!Do("await idle") \in Steps /\ Patch!Do("await idle").do = "await idle"
    BY StepsAre DEF Names
  <2> QED
    BY <2>1, PairIs
<1> HIDE DEF p, q
<1>2. /\ t \in Seq(Steps) /\ Len(t) = Len(b) + 4
      /\ t[1] = p[1] /\ t[2] = p[2]
      /\ \A k \in 1 .. Len(b) : t[k + 2] = b[k]
      /\ t[Len(b) + 3] = q[1] /\ t[Len(b) + 4] = q[2]
  <2> DEFINE r == p \o b
  <2>1. r = p \o b /\ t = r \o q
    OBVIOUS
  <2> HIDE DEF r, t
  <2>6. /\ r \in Seq(Steps) /\ Len(r) = Len(p) + Len(b) /\ Len(b) \in Nat
        /\ \A k \in 1 .. Len(p) : r[k] = p[k]
        /\ \A k \in 1 .. Len(b) : r[Len(p) + k] = b[k]
    BY <1>0, <2>1, ConcatIs
  <2>7. /\ t \in Seq(Steps) /\ Len(t) = Len(r) + Len(q)
        /\ \A k \in 1 .. Len(r) : t[k] = r[k]
        /\ \A k \in 1 .. Len(q) : t[Len(r) + k] = q[k]
    BY <1>0, <2>1, <2>6, ConcatIs
  <2>2. /\ r \in Seq(Steps) /\ Len(r) = 2 + Len(b) /\ Len(b) \in Nat
        /\ \A k \in 1 .. 2 : r[k] = p[k]
        /\ \A k \in 1 .. Len(b) : r[2 + k] = b[k]
    BY <1>1, <2>6
  <2>3. /\ t \in Seq(Steps) /\ Len(t) = Len(r) + 2
        /\ \A k \in 1 .. Len(r) : t[k] = r[k]
        /\ \A k \in 1 .. 2 : t[Len(r) + k] = q[k]
    BY <1>1, <2>7
  <2>4. \A k \in 1 .. Len(b) : t[k + 2] = b[k]
    <3>1. ASSUME NEW k \in 1 .. Len(b) PROVE t[k + 2] = b[k]
      <4>1. k + 2 = 2 + k /\ k + 2 \in 1 .. Len(r)
        BY <2>2
      <4> QED
        BY <2>2, <2>3, <4>1
    <3> QED
      BY <3>1
  <2>5. 1 \in 1 .. Len(r) /\ 2 \in 1 .. Len(r) /\ Len(r) + 1 = Len(b) + 3
        /\ Len(r) + 2 = Len(b) + 4
    BY <2>2
  <2> QED
    BY <2>2, <2>3, <2>4, <2>5
<1>3. Patch!Patch(b) = t
  BY DEF Patch!Patch, p, q
<1> QED
  BY <1>1, <1>2, <1>3

\* Turning the saving of power on or off, step by step.
LEMMA SavingIs ==
    ASSUME NEW v \in {"off", "on"}
    PROVE  LET t == Patch!SetSaving(v)
           IN  /\ t \in Seq(Steps) /\ Len(t) = 6
               /\ t[1].do = "request" /\ t[2].do = "await ready"
               /\ t[3].do = "save" /\ t[3].as = "none" /\ t[4].do = "save" /\ t[4].as = v
               /\ t[5].do = "withdraw" /\ t[6].do = "await idle"
<1> DEFINE b == <<[do |-> "save", as |-> "none"], [do |-> "save", as |-> v]>>
<1>1. /\ b \in Seq(Steps) /\ Len(b) = 2
      /\ b[1].do = "save" /\ b[1].as = "none" /\ b[2].do = "save" /\ b[2].as = v
  BY StepsAre
<1>2. Patch!SetSaving(v) = Patch!Patch(b)
  BY DEF Patch!SetSaving
<1> HIDE DEF b
<1> DEFINE t == Patch!Patch(b)
<1>5. /\ t \in Seq(Steps) /\ Len(t) = Len(b) + 4
      /\ t[1].do = "request" /\ t[2].do = "await ready"
      /\ \A k \in 1 .. Len(b) : t[k + 2] = b[k]
      /\ t[Len(b) + 3].do = "withdraw" /\ t[Len(b) + 4].do = "await idle"
  BY <1>1, PatchIs
<1> HIDE DEF t
<1>3. /\ t \in Seq(Steps) /\ Len(t) = 6
      /\ t[1].do = "request" /\ t[2].do = "await ready"
      /\ \A k \in 1 .. 2 : t[k + 2] = b[k]
      /\ t[5].do = "withdraw" /\ t[6].do = "await idle"
  <2>1. Len(b) + 4 = 6 /\ Len(b) + 3 = 5 /\ 1 .. Len(b) = 1 .. 2
    BY <1>1
  <2> QED
    BY <1>5, <2>1
<1>4. t[3] = b[1] /\ t[4] = b[2]
  <2>1. 1 \in 1 .. 2 /\ 2 \in 1 .. 2 /\ 1 + 2 = 3 /\ 2 + 2 = 4
    OBVIOUS
  <2> QED
    BY <1>3, <2>1
<1> QED
  BY <1>1, <1>2, <1>3, <1>4 DEF t

\* The words of one patch, between lock and unlock on the chips that have them.
LEMMA LoadIs ==
    ASSUME Patch!PatchAssumption, NEW c \in 1 .. Chunks
    PROVE  LET b == Patch!Load(c)
           IN  /\ b \in Seq(Steps) /\ Len(b) \in Nat
               /\ \A k \in 1 .. Len(b) : b[k].do \in {"lock", "load", "unlock"}
               /\ \A w \in 1 .. Words : \E k \in 1 .. Len(b) :
                     b[k].do = "load" /\ b[k].word = <<c, w>>
               /\ kind # "key" => \A k \in 1 .. Len(b) : b[k].do = "load"
               /\ kind = "key" => /\ Len(b) >= 2 /\ b[1].do = "lock"
                                  /\ b[Len(b)].do = "unlock"
                                  /\ \A k \in 2 .. Len(b) - 1 : b[k].do = "load"
<1> DEFINE
        words == [w \in 1 .. Words |-> [do |-> "load", word |-> <<c, w>>]]
        p == <<Patch!Do("lock")>>
        q == <<Patch!Do("unlock")>>
<1>1. /\ words \in Seq(Steps) /\ Len(words) = Words /\ Words \in Nat
      /\ \A w \in 1 .. Words : words[w].do = "load" /\ words[w].word = <<c, w>>
  <2>1. Words \in Nat
    BY DEF Patch!PatchAssumption
  <2>2. ASSUME NEW w \in 1 .. Words PROVE words[w] \in Steps
    <3>1. <<c, w>> \in Patch!Program
      BY DEF Patch!Program
    <3> QED
      BY <3>1, StepsAre
  <2> QED
    BY <2>1, <2>2
<1>0. p \in Seq(Steps) /\ q \in Seq(Steps) /\ words \in Seq(Steps)
  BY <1>1, StepsAre, PairIs DEF Names
<1>2. /\ Len(p) = 1 /\ Len(q) = 1
      /\ p[1].do = "lock" /\ q[1].do = "unlock"
  <2>1. /\ Patch!Do("lock") \in Steps /\ Patch!Do("lock").do = "lock"
        /\ Patch!Do("unlock") \in Steps /\ Patch!Do("unlock").do = "unlock"
    BY StepsAre DEF Names
  <2> QED
    BY <2>1, PairIs
<1>3. Patch!Load(c) = IF kind = "key" THEN (p \o words) \o q ELSE words
  BY DEF Patch!Load
<1> HIDE DEF words, p, q
<1>4. CASE kind # "key"
  BY <1>1, <1>3, <1>4
<1>5. CASE kind = "key"
  <2> DEFINE r == p \o words
             b == r \o q
  <2>0. r = p \o words /\ b = r \o q
    OBVIOUS
  <2> HIDE DEF r, b
  <2>9. /\ r \in Seq(Steps) /\ Len(r) = Len(p) + Len(words)
        /\ \A k \in 1 .. Len(p) : r[k] = p[k]
        /\ \A k \in 1 .. Len(words) : r[Len(p) + k] = words[k]
    BY <1>0, <2>0, ConcatIs
  <2>10. /\ b \in Seq(Steps) /\ Len(b) = Len(r) + Len(q)
         /\ \A k \in 1 .. Len(r) : b[k] = r[k]
         /\ \A k \in 1 .. Len(q) : b[Len(r) + k] = q[k]
    BY <1>0, <2>0, <2>9, ConcatIs
  <2>1. /\ r \in Seq(Steps) /\ Len(r) = Words + 1
        /\ \A k \in 1 .. 1 : r[k] = p[k]
        /\ \A k \in 1 .. Words : r[1 + k] = words[k]
    BY <1>1, <1>2, <2>9
  <2>2. /\ b \in Seq(Steps) /\ Len(b) = Words + 2
        /\ \A k \in 1 .. Words + 1 : b[k] = r[k]
        /\ \A k \in 1 .. 1 : b[(Words + 1) + k] = q[k]
    BY <1>1, <1>2, <2>1, <2>10
  <2>3. Patch!Load(c) = b
    BY <1>3, <1>5, <2>0
  <2>4. b[1].do = "lock" /\ b[Words + 2].do = "unlock"
    <3>1. 1 \in 1 .. Words + 1 /\ (Words + 1) + 1 = Words + 2
      BY <1>1
    <3> QED
      BY <1>2, <2>1, <2>2, <3>1
  <2>5. \A k \in 1 .. Words : b[k + 1].do = "load" /\ b[k + 1].word = <<c, k>>
    <3>1. ASSUME NEW k \in 1 .. Words
          PROVE  b[k + 1].do = "load" /\ b[k + 1].word = <<c, k>>
      <4>1. k + 1 = 1 + k /\ k + 1 \in 1 .. Words + 1
        BY <1>1
      <4> QED
        BY <1>1, <2>1, <2>2, <4>1
    <3> QED
      BY <3>1
  <2>6. \A k \in 2 .. Words + 1 : b[k].do = "load"
    <3>1. ASSUME NEW k \in 2 .. Words + 1 PROVE b[k].do = "load"
      <4>1. k - 1 \in 1 .. Words /\ (k - 1) + 1 = k
        BY <1>1
      <4> QED
        BY <2>5, <4>1
    <3> QED
      BY <3>1
  <2>7. \A k \in 1 .. Len(b) : k = 1 \/ k = Words + 2 \/ k \in 2 .. Words + 1
    BY <1>1, <2>2
  <2>8. \A w \in 1 .. Words : w + 1 \in 1 .. Len(b)
    BY <1>1, <2>2
  <2>11. \A w \in 1 .. Words : \E k \in 1 .. Len(b) :
            b[k].do = "load" /\ b[k].word = <<c, w>>
    BY <2>5, <2>8
  <2>12. /\ b \in Seq(Steps) /\ Len(b) \in Nat /\ Len(b) >= 2
         /\ Len(b) - 1 = Words + 1 /\ b[Len(b)].do = "unlock"
    BY <1>1, <2>2, <2>4
  <2>13. \A k \in 1 .. Len(b) : b[k].do \in {"lock", "load", "unlock"}
    BY <2>4, <2>6, <2>7
  <2> QED
    BY <1>5, <2>3, <2>4, <2>6, <2>11, <2>12, <2>13
<1> QED
  BY <1>4, <1>5

\* t is one patch of the program, with n steps in it, and that the program goes on.
OnePatch(c, t, n) ==
    /\ t = Patch!Patch(Patch!Load(c)) \o
               (IF c = Chunks THEN <<>> ELSE <<Patch!From(c + 1)>>)
    /\ Len(t) = n + 4 \/ (Len(t) = n + 5 /\ t[n + 5].do = "program")
    /\ c < Chunks => Len(t) = n + 5 /\ t[n + 5].from = c + 1
    /\ t[1].do = "request" /\ t[2].do = "await ready"
    /\ \A k \in 3 .. n + 2 : t[k].do \in {"lock", "load", "unlock"}
    /\ t[n + 3].do = "withdraw" /\ t[n + 4].do = "await idle"
    /\ \A w \in 1 .. Words : \E k \in 3 .. n + 2 :
          t[k].do = "load" /\ t[k].word = <<c, w>>
    /\ kind # "key" => \A k \in 3 .. n + 2 : t[k].do = "load"
    /\ kind = "key" => /\ n >= 2 /\ t[3].do = "lock" /\ t[n + 2].do = "unlock"
                       /\ \A k \in 4 .. n + 1 : t[k].do = "load"

\* There are such n and t.
LEMMA NextIs ==
    ASSUME Patch!PatchAssumption, NEW c \in 1 .. Chunks
    PROVE  \E t \in Seq(Steps), n \in Nat : OnePatch(c, t, n)
<1> DEFINE
        b == Patch!Load(c)
        n == Len(b)
        p == Patch!Patch(b)
        q == IF c = Chunks THEN <<>> ELSE <<Patch!From(c + 1)>>
        t == p \o q
<1>1. /\ b \in Seq(Steps) /\ n \in Nat
      /\ \A k \in 1 .. n : b[k].do \in {"lock", "load", "unlock"}
      /\ \A w \in 1 .. Words : \E k \in 1 .. n : b[k].do = "load" /\ b[k].word = <<c, w>>
      /\ kind # "key" => \A k \in 1 .. n : b[k].do = "load"
      /\ kind = "key" => /\ n >= 2 /\ b[1].do = "lock" /\ b[n].do = "unlock"
                         /\ \A k \in 2 .. n - 1 : b[k].do = "load"
  BY LoadIs
<1> HIDE DEF b
<1>2. /\ p \in Seq(Steps) /\ Len(p) = n + 4
      /\ p[1].do = "request" /\ p[2].do = "await ready"
      /\ \A k \in 1 .. n : p[k + 2] = b[k]
      /\ p[n + 3].do = "withdraw" /\ p[n + 4].do = "await idle"
  BY <1>1, PatchIs
<1> HIDE DEF p, n
<1>3. /\ q \in Seq(Steps) /\ Chunks \in Nat
      /\ IF c = Chunks THEN Len(q) = 0
         ELSE Len(q) = 1 /\ q[1].do = "program" /\ q[1].from = c + 1
  <2>1. Chunks \in Nat
    BY DEF Patch!PatchAssumption
  <2>2. c # Chunks => Patch!From(c + 1) \in Steps /\ Patch!From(c + 1).do = "program"
                      /\ Patch!From(c + 1).from = c + 1
    <3>1. c # Chunks => c + 1 \in 1 .. Chunks
      BY <2>1
    <3> QED
      BY <3>1, StepsAre DEF Patch!From
  <2> QED
    BY <2>1, <2>2
<1> HIDE DEF q
<1>4. /\ t \in Seq(Steps) /\ Len(t) = n + 4 + Len(q)
      /\ \A k \in 1 .. n + 4 : t[k] = p[k]
      /\ Len(q) = 1 => t[n + 5] = q[1]
  <2>0. t = p \o q
    OBVIOUS
  <2> HIDE DEF t
  <2>3. p \in Seq(Steps) /\ q \in Seq(Steps)
    BY <1>2, <1>3
  <2>4. /\ t \in Seq(Steps) /\ Len(t) = Len(p) + Len(q)
        /\ \A k \in 1 .. Len(p) : t[k] = p[k]
        /\ \A k \in 1 .. Len(q) : t[Len(p) + k] = q[k]
    BY <2>0, <2>3, ConcatIs
  <2>1. /\ t \in Seq(Steps) /\ Len(t) = n + 4 + Len(q)
        /\ \A k \in 1 .. n + 4 : t[k] = p[k]
        /\ \A k \in 1 .. Len(q) : t[(n + 4) + k] = q[k]
    BY <1>2, <2>4
  <2>2. Len(q) = 1 => 1 \in 1 .. Len(q) /\ (n + 4) + 1 = n + 5
    BY <1>1
  <2> QED
    BY <2>1, <2>2
<1>5. \A k \in 3 .. n + 2 : t[k] = b[k - 2] /\ k - 2 \in 1 .. n
  <2>1. ASSUME NEW k \in 3 .. n + 2 PROVE t[k] = b[k - 2] /\ k - 2 \in 1 .. n
    <3>1. k - 2 \in 1 .. n /\ (k - 2) + 2 = k /\ k \in 1 .. n + 4
      BY <1>1
    <3> QED
      BY <1>2, <1>4, <3>1
  <2> QED
    BY <2>1
<1>6. \A k \in 1 .. n : k + 2 \in 3 .. n + 2 /\ t[k + 2] = b[k]
  <2>1. ASSUME NEW k \in 1 .. n PROVE k + 2 \in 3 .. n + 2 /\ t[k + 2] = b[k]
    <3>1. k + 2 \in 3 .. n + 2 /\ (k + 2) - 2 = k
      BY <1>1
    <3> QED
      BY <1>5, <3>1
  <2> QED
    BY <2>1
<1>7. t[1] = p[1] /\ t[2] = p[2] /\ t[n + 3] = p[n + 3] /\ t[n + 4] = p[n + 4]
  BY <1>1, <1>4
<1> HIDE DEF t
<1>8. kind = "key" => /\ n >= 2 /\ t[3].do = "lock" /\ t[n + 2].do = "unlock"
                      /\ \A k \in 4 .. n + 1 : t[k].do = "load"
  <2>1. kind = "key" => t[3] = b[1] /\ t[n + 2] = b[n]
    <3>1. kind = "key" => 3 \in 3 .. n + 2 /\ n + 2 \in 3 .. n + 2
                          /\ 3 - 2 = 1 /\ (n + 2) - 2 = n
      BY <1>1
    <3> QED
      BY <1>5, <3>1
  <2>2. \A k \in 4 .. n + 1 : k \in 3 .. n + 2 /\ k - 2 \in 2 .. n - 1
    BY <1>1
  <2> QED
    BY <1>1, <1>5, <2>1, <2>2
<1>9. /\ t = Patch!Patch(Patch!Load(c)) \o
                 (IF c = Chunks THEN <<>> ELSE <<Patch!From(c + 1)>>)
      /\ Len(t) = n + 4 \/ (Len(t) = n + 5 /\ t[n + 5].do = "program")
      /\ c < Chunks => Len(t) = n + 5 /\ t[n + 5].from = c + 1
  BY <1>1, <1>3, <1>4 DEF t, p, q, b
<1>10. \A w \in 1 .. Words : \E k \in 3 .. n + 2 : t[k].do = "load" /\ t[k].word = <<c, w>>
  <2>1. ASSUME NEW w \in 1 .. Words
        PROVE  \E k \in 3 .. n + 2 : t[k].do = "load" /\ t[k].word = <<c, w>>
    <3>1. PICK k \in 1 .. n : b[k].do = "load" /\ b[k].word = <<c, w>>
      BY <1>1
    <3> QED
      BY <1>6, <3>1
  <2> QED
    BY <2>1
<1>11. t \in Seq(Steps) /\ n \in Nat
  BY <1>1, <1>4
<1>12. /\ t[1].do = "request" /\ t[2].do = "await ready"
       /\ \A k \in 3 .. n + 2 : t[k].do \in {"lock", "load", "unlock"}
       /\ t[n + 3].do = "withdraw" /\ t[n + 4].do = "await idle"
       /\ kind # "key" => \A k \in 3 .. n + 2 : t[k].do = "load"
  BY <1>1, <1>2, <1>5, <1>7
<1> QED
  BY <1>8, <1>9, <1>10, <1>11, <1>12 DEF OnePatch

\* A claim over a step that was replaced by steps which leave what it claims so,
\* and do not rely on it.
LEMMA PushFree ==
    ASSUME NEW s \in Seq(Steps), s # <<>>, NEW A, NEW X, NEW B, NEW now,
           NEW t \in Seq(Steps), Claim(s, A, X, B, now),
           \A j \in 1 .. Len(t) : t[j] \in B /\ t[j] \notin A, s[1] \in X => now
    PROVE  Claim(t \o Tail(s), A, X, B, now)
<1>1. Claim(t, A, X, B, now)
  BY ClaimNothing
<1>2. now => Since(t, Len(t), X, B, now)
  BY DEF Since
<1> QED
  BY <1>1, <1>2, ClaimPush

\* By steps the k-th of which makes it so again.
LEMMA PushMade ==
    ASSUME NEW s \in Seq(Steps), s # <<>>, NEW A, NEW X, NEW B, NEW now,
           NEW t \in Seq(Steps), Claim(s, A, X, B, now),
           NEW k \in 1 .. Len(t), t[k] \in X, \A m \in k + 1 .. Len(t) : t[m] \in B,
           \A j \in 1 .. Len(t) : t[j] \in A => Since(t, j - 1, X, B, now)
    PROVE  Claim(t \o Tail(s), A, X, B, now)
<1>1. Claim(t, A, X, B, now)
  BY DEF Claim
<1>2. Since(t, Len(t), X, B, now)
  BY DEF Since
<1> QED
  BY <1>1, <1>2, ClaimPush

\* Of a step after which nothing was claimed.
LEMMA PushOnly ==
    ASSUME NEW s \in Seq(Steps), s # <<>>, NEW A, NEW X, NEW B, NEW now,
           NEW t \in Seq(Steps), Claim(s, A, X, B, now), s[1] \notin X, s[1] \notin B,
           \A j \in 1 .. Len(t) : t[j] \in A => Since(t, j - 1, X, B, now)
    PROVE  Claim(t \o Tail(s), A, X, B, now)
<1>1. Claim(t, A, X, B, now)
  BY DEF Claim
<1> QED
  BY <1>1, ClaimPush

\* What is still so when a step is replaced by its steps, whatever they are.
LEMMA PushRest ==
    ASSUME PatchTypes, kind' = kind, ~late, Prompt, NEW t \in Seq(Steps), Pushes(t),
           todo[1].do \in {"saving", "match", "program"},
           \A j \in 1 .. Len(t) :
              /\ t[j].do = "lock" => kind = "key"
              /\ t[j].do # "checked"
              /\ t[j].do \in {"saving", "save"} => Patch!HasSaving
              /\ t[j].do \in {"saving", "save"} /\ t[j].as = "on" => kind = "saving"
    PROVE  OnlySome' /\ Ends' /\ Patch!CodeComplete' /\ Patch!PatchWithdrawn'
<1> DEFINE r == Tail(todo)
<1>1. /\ todo \in Seq(Steps) /\ todo # <<>>
      /\ Len(todo) \in Nat /\ Len(todo) >= 1 /\ todo[Len(todo)].do \in {"up", "down"}
  BY DEF PatchTypes, Pushes, Prompt, Ends
<1>2. Len(todo) > 1
  BY <1>1
<1>3. /\ r \in Seq(Steps) /\ Len(r) = Len(todo) - 1
      /\ \A j \in 1 .. Len(r) : r[j] = todo[j + 1]
  BY <1>1
<1>4. todo' = t \o r
  BY DEF Pushes
<1> HIDE DEF r
<1>10. r \in Seq(Steps)
  BY <1>3
<1>5. /\ todo' \in Seq(Steps) /\ Len(todo') = Len(t) + Len(r) /\ Len(t) \in Nat
      /\ \A j \in 1 .. Len(t) : todo'[j] = t[j]
      /\ \A j \in 1 .. Len(r) : todo'[Len(t) + j] = r[j]
  BY <1>4, <1>10, ConcatIs
<1>11. /\ Len(t) \in Nat /\ Len(r) \in Nat /\ Len(todo) \in Nat
       /\ Len(todo') = Len(t) + Len(r) /\ Len(todo) = Len(r) + 1
  BY <1>1, <1>3, <1>5, <1>10
<1>6. \A j \in 1 .. Len(todo') :
         (j \in 1 .. Len(t) /\ todo'[j] = t[j])
         \/ \E k \in 1 .. Len(todo) : todo'[j] = todo[k]
  <2>1. ASSUME NEW j \in 1 .. Len(todo'), j > Len(t)
        PROVE  \E k \in 1 .. Len(todo) : todo'[j] = todo[k]
    <3>1. j - Len(t) \in 1 .. Len(r) /\ Len(t) + (j - Len(t)) = j
          /\ (j - Len(t)) + 1 \in 1 .. Len(todo)
      BY <1>11, <2>1
    <3>2. todo'[j] = r[j - Len(t)]
      BY <1>5, <3>1
    <3>3. r[j - Len(t)] = todo[(j - Len(t)) + 1]
      BY <1>3, <3>1
    <3> QED
      BY <3>1, <3>2, <3>3
  <2>2. ASSUME NEW j \in 1 .. Len(todo'), ~(j > Len(t)) PROVE j \in 1 .. Len(t)
    BY <1>5, <2>2
  <2> QED
    BY <1>5, <2>1, <2>2
<1>7. OnlySome'
  BY <1>6 DEF OnlySome, Prompt, Pushes, Patch!HasSaving
<1>8. Ends'
  <2>1. Len(r) \in 1 .. Len(r) /\ Len(t) + Len(r) = Len(todo') /\ Len(r) + 1 = Len(todo)
    BY <1>2, <1>11
  <2>2. todo'[Len(todo')] = todo[Len(todo)]
    <3>1. todo'[Len(t) + Len(r)] = r[Len(r)]
      BY <1>5, <2>1
    <3>2. r[Len(r)] = todo[Len(r) + 1]
      BY <1>3, <2>1
    <3> QED
      BY <2>1, <3>1, <3>2
  <2> QED
    BY <1>1, <2>2 DEF Ends
<1>9. todo' # <<>>
  <2>1. Len(todo') >= 1
    BY <1>1, <1>2, <1>3, <1>5
  <2>2. todo' = <<>> => Len(todo') = 0
    OBVIOUS
  <2> QED
    BY <2>1, <2>2
<1> QED
  BY <1>7, <1>8, <1>9 DEF Prompt, Pushes, Patch!CodeComplete, Patch!PatchWithdrawn

\* Turning the saving of power on or off keeps it all.
LEMMA PushSaving ==
    ASSUME PatchTypes, kind' = kind, ~late, Prompt, NEW v \in {"off", "on"},
           Pushes(Patch!SetSaving(v)), todo[1].do = "saving", todo[1].as = v, saving # v
    PROVE  Prompt'
<1> DEFINE
        t == Patch!SetSaving(v)
        h == todo[1]
<1>1. /\ t \in Seq(Steps) /\ Len(t) = 6
      /\ t[1].do = "request" /\ t[2].do = "await ready"
      /\ t[3].do = "save" /\ t[3].as = "none" /\ t[4].do = "save" /\ t[4].as = v
      /\ t[5].do = "withdraw" /\ t[6].do = "await idle"
  BY SavingIs
<1>2. Pushes(t) /\ h.do = "saving" /\ h.as = v
  OBVIOUS
<1> HIDE DEF t
<1>3. /\ todo \in Seq(Steps) /\ todo # <<>> /\ todo' = t \o Tail(todo)
      /\ UNCHANGED <<ver, code, request, ready, key, saving, phyUp>>
  BY <1>2 DEF PatchTypes, Pushes
<1>4. h \in Steps /\ 1 \in 1 .. Len(todo)
  BY <1>3
<1> HIDE DEF h
<1>20. \A j \in 1 .. Len(t) : t[j] \in Steps
  <2>1. t \in Seq(Steps)
    BY <1>1
  <2> QED
    BY <2>1
<1>21. Len(t) = 6
  BY <1>1
<1>24. /\ t[1].do = "request" /\ t[2].do = "await ready"
       /\ t[3].do = "save" /\ t[3].as = "none" /\ t[4].do = "save" /\ t[4].as = v
       /\ t[5].do = "withdraw" /\ t[6].do = "await idle"
  BY <1>1
<1>25. \A j \in 1 .. Len(t) : j = 1 \/ j = 2 \/ j = 3 \/ j = 4 \/ j = 5 \/ j = 6
  BY <1>21
<1>5. ASSUME NEW j \in 1 .. Len(t)
      PROVE  /\ t[j] \in Steps
             /\ \/ j = 1 /\ t[j].do = "request"
                \/ j = 2 /\ t[j].do = "await ready"
                \/ j = 3 /\ t[j].do = "save" /\ t[j].as = "none"
                \/ j = 4 /\ t[j].do = "save" /\ t[j].as = v
                \/ j = 5 /\ t[j].do = "withdraw"
                \/ j = 6 /\ t[j].do = "await idle"
  <2>1. t[j] \in Steps
    BY <1>20
  <2>2. j = 1 \/ j = 2 \/ j = 3 \/ j = 4 \/ j = 5 \/ j = 6
    BY <1>25
  <2> QED
    BY <1>24, <2>1, <2>2
<1>22. /\ 1 \in 1 .. Len(t) /\ 2 \in 1 .. Len(t) /\ 3 \in 1 .. Len(t) /\ 4 \in 1 .. Len(t)
       /\ 5 \in 1 .. Len(t) /\ 6 \in 1 .. Len(t)
  BY <1>21
<1>23. /\ t[1] \in Steps /\ t[2] \in Steps /\ t[3] \in Steps
       /\ t[4] \in Steps /\ t[5] \in Steps /\ t[6] \in Steps
  BY <1>20, <1>22
<1>6. v = "on" => kind = "saving"
  BY <1>2, <1>4 DEF Prompt, OnlySome, h
<1>7. Patch!HasSaving
  BY <1>2, <1>4 DEF Prompt, OnlySome, h
<1>8. OnlySome' /\ Ends' /\ Patch!CodeComplete' /\ Patch!PatchWithdrawn'
  <2>1. t \in Seq(Steps) /\ todo[1].do \in {"saving", "match", "program"}
    BY <1>1, <1>2 DEF h
  <2>2. \A j \in 1 .. Len(t) :
              /\ t[j].do = "lock" => kind = "key"
              /\ t[j].do # "checked"
              /\ t[j].do \in {"saving", "save"} => Patch!HasSaving
              /\ t[j].do \in {"saving", "save"} /\ t[j].as = "on" => kind = "saving"
    BY <1>5, <1>6, <1>7
  <2> QED
    BY <1>2, <2>1, <2>2, PushRest
<1>30. t \in Seq(Steps)
  BY <1>1
<1>9. Asked'
  <2> DEFINE A == Doing({"await ready"})
             X == Doing({"request"})
             B == Doing({})
  <2>1. Claim(todo, A, X, B, request)
    BY DEF Prompt, Asked
  <2>2. \A j \in 1 .. Len(t) : t[j] \in A => j = 2
    BY <1>5 DEF Doing
  <2>3. t[1] \in X /\ h \notin X /\ h \notin B
    BY <1>1, <1>2, <1>23 DEF Doing
  <2> HIDE DEF A, X, B
  <2>4. Since(t, 1, X, B, request)
    BY <2>3 DEF Since
  <2>5. \A j \in 1 .. Len(t) : t[j] \in A => Since(t, j - 1, X, B, request)
    BY <2>2, <2>4
  <2>6. Claim(todo', A, X, B, request)
    BY <1>30, <1>3, <2>1, <2>3, <2>5, PushOnly DEF h
  <2> QED
    BY <1>3, <2>6 DEF Asked, A, X, B
<1>10. Ready'
  <2> DEFINE A == Doing({"load", "save"})
             X == Doing({"await ready"})
             B == Doing({"load", "save", "lock", "unlock"})
  <2>1. Claim(todo, A, X, B, request /\ ready)
    BY DEF Prompt, Ready
  <2>2. \A j \in 1 .. Len(t) : t[j] \in A => j = 3 \/ j = 4
    BY <1>5 DEF Doing
  <2>3. t[2] \in X /\ t[3] \in B /\ h \notin X /\ h \notin B
    BY <1>1, <1>2, <1>23 DEF Doing
  <2> HIDE DEF A, X, B
  <2>4. \A q : Since(t, 2, X, B, q) /\ Since(t, 3, X, B, q)
    BY <2>3 DEF Since
  <2>5. \A j \in 1 .. Len(t) : t[j] \in A => Since(t, j - 1, X, B, request /\ ready)
    BY <2>2, <2>4
  <2>6. Claim(todo', A, X, B, request /\ ready)
    BY <1>30, <1>3, <2>1, <2>3, <2>5, PushOnly DEF h
  <2> QED
    BY <1>3, <2>6 DEF Ready, A, X, B
<1>11. Keyed'
  <2> DEFINE A == Doing({"load"})
             X == Doing({"lock"})
             B == Doing({"load"})
  <2>1. kind = "key" => Claim(todo, A, X, B, key)
    BY DEF Prompt, Keyed
  <2>2. \A j \in 1 .. Len(t) : t[j] \notin A
    BY <1>5 DEF Doing
  <2>3. h \notin X /\ h \notin B
    BY <1>2 DEF Doing
  <2> HIDE DEF A, X, B
  <2>6. kind = "key" => Claim(todo', A, X, B, key)
    BY <1>30, <1>3, <2>1, <2>2, <2>3, PushOnly DEF h
  <2> QED
    BY <1>3, <2>6 DEF Keyed, A, X, B
<1>12. Brought'
  <2>1. ASSUME NEW x \in Patch!Program
        PROVE  Claim(todo', Doing({"version"}), Bringing(x), Steps, code'[x] = "ours")
    <3> DEFINE A == Doing({"version"})
               X == Bringing(x)
    <3>1. Claim(todo, A, X, Steps, code[x] = "ours")
      BY DEF Prompt, Brought
    <3>2. \A j \in 1 .. Len(t) : t[j] \in Steps /\ t[j] \notin A
      BY <1>5 DEF Doing
    <3>3. h \notin X
      BY <1>2 DEF Bringing
    <3> HIDE DEF A, X
    <3>4. Claim(todo', A, X, Steps, code[x] = "ours")
      BY <1>30, <1>3, <3>1, <3>2, <3>3, PushFree DEF h
    <3> QED
      BY <1>3, <3>4 DEF A, X
  <2> QED
    BY <2>1 DEF Brought, Patch!Program
<1>13. Withdrawn'
  <2> DEFINE A == Doing({"up", "checked", "version"})
             B == NotDoing({"request"})
  <2>1. ver # "ours" \/ ~Once => Claim(todo, A, Withdrawing, B, ~request)
    BY DEF Prompt, Withdrawn
  <2>2. \A j \in 1 .. Len(t) : t[j] \notin A
    BY <1>5 DEF Doing
  <2>10. t[5] \in Withdrawing
    BY <1>23, <1>24 DEF Withdrawing
  <2>11. \A j \in 1 .. Len(t) : j = 6 => t[j] \in B
    <3>1. t[6] \in B
      BY <1>23, <1>24 DEF NotDoing
    <3> QED
      BY <3>1
  <2>3. t[5] \in Withdrawing /\ \A j \in 1 .. Len(t) : j = 6 => t[j] \in B
    BY <2>10, <2>11
  <2>4. \A m \in 5 + 1 .. Len(t) : (m = 6) /\ m \in 1 .. Len(t)
    BY <1>21
  <2> HIDE DEF A, B
  <2>6. ver # "ours" \/ ~Once => Claim(todo', A, Withdrawing, B, ~request)
    BY <1>30, <1>3, <1>22, <2>1, <2>2, <2>3, <2>4, PushMade
  <2> QED
    BY <1>3, <2>6 DEF Withdrawn, Withdrawing, Once, A, B
<1>14. Unlocked'
  <2> DEFINE A == Doing({"up", "version"})
             X == Doing({"unlock", "match", "program"})
             B == NotDoing({"lock"})
  <2>1. ver # "ours" /\ kind = "key" => Claim(todo, A, X, B, ~key)
    BY DEF Prompt, Unlocked
  <2>2. \A j \in 1 .. Len(t) : t[j] \in B /\ t[j] \notin A
    BY <1>5 DEF Doing, NotDoing
  <2>3. h \notin X
    BY <1>2 DEF Doing
  <2> HIDE DEF A, X, B
  <2>6. ver # "ours" /\ kind = "key" => Claim(todo', A, X, B, ~key)
    BY <1>30, <1>3, <2>1, <2>2, <2>3, PushFree DEF h
  <2> QED
    BY <1>3, <2>6 DEF Unlocked, A, X, B
<1>15. NotOn'
  <2> DEFINE
        A == SavingTo("on")
        X == SavingTo("off") \cup SaveAs({"none", "off"})
        B == Steps \ (SavingTo("on") \cup SaveAs({"on"}))
  <2>1. Claim(todo, A, X, B, saving # "on")
    BY DEF Prompt, NotOn
  <2>2. \A j \in 1 .. Len(t) : t[j] \notin A
    BY <1>5 DEF SavingTo
  <2>3. v = "on" => h \notin X /\ h \notin B
    BY <1>2, <1>4 DEF SavingTo, SaveAs
  <2>4. v = "off" => t[4] \in X /\ \A j \in 1 .. Len(t) : j = 5 \/ j = 6 => t[j] \in B
    BY <1>5, <1>23, <1>24 DEF SavingTo, SaveAs
  <2>5. \A m \in 4 + 1 .. Len(t) : (m = 5 \/ m = 6) /\ m \in 1 .. Len(t)
    BY <1>21
  <2> HIDE DEF A, X, B
  <2>6. v = "on" => Claim(todo', A, X, B, saving # "on")
    BY <1>30, <1>3, <2>1, <2>2, <2>3, PushOnly DEF h
  <2>7. v = "off" => Claim(todo', A, X, B, saving # "on")
    BY <1>30, <1>3, <1>22, <2>1, <2>2, <2>4, <2>5, PushMade
  <2> QED
    BY <1>3, <2>6, <2>7 DEF NotOn, A, X, B
<1>16. IsOff'
  <2> DEFINE
        A == Doing({"match", "version"})
        X == SavingTo("off") \cup SaveAs({"off"})
        B == NotDoing({"save"})
  <2>1. kind = "key" => v = "off" /\ Claim(todo, A, X, B, saving = "off")
    BY <1>6 DEF Prompt, IsOff
  <2>2. \A j \in 1 .. Len(t) : t[j] \notin A
    BY <1>5 DEF Doing
  <2>10. v = "off" => t[4] \in X
    BY <1>23, <1>24 DEF SaveAs
  <2>11. \A j \in 1 .. Len(t) : j = 5 \/ j = 6 => t[j] \in B
    <3>1. t[5] \in B /\ t[6] \in B
      BY <1>23, <1>24 DEF NotDoing
    <3> QED
      BY <3>1
  <2>4. v = "off" => t[4] \in X /\ \A j \in 1 .. Len(t) : j = 5 \/ j = 6 => t[j] \in B
    BY <2>10, <2>11
  <2>5. \A m \in 4 + 1 .. Len(t) : (m = 5 \/ m = 6) /\ m \in 1 .. Len(t)
    BY <1>21
  <2> HIDE DEF A, X, B
  <2>7. kind = "key" => Claim(todo', A, X, B, saving = "off")
    BY <1>30, <1>3, <1>22, <2>1, <2>2, <2>4, <2>5, PushMade
  <2> QED
    BY <1>3, <2>7 DEF IsOff, A, X, B
<1>17. Over'
  <2> DEFINE
        A == Doing(Patching)
        X == Doing({})
        B == NotDoing({"match", "version"})
  <2>1. Once => Claim(todo, A, X, B, ver # "ours")
    BY DEF Prompt, Over
  <2>2. Once => kind = "key" /\ v = "off"
    BY <1>6, <1>7 DEF Once, Patch!HasSaving
  <2>3. Once => ver # "ours"
    BY <2>2 DEF Prompt, Over
  <2>4. \A j \in 1 .. Len(t) : t[j] \in B
    BY <1>5 DEF NotDoing
  <2>5. h \notin X
    BY DEF Doing
  <2> HIDE DEF A, X, B
  <2>8. Once => \A j \in 1 .. Len(t) : Since(t, j - 1, X, B, ver # "ours")
    BY <2>3, <2>4 DEF Since
  <2>9. Once => Since(t, Len(t), X, B, ver # "ours")
    BY <2>3, <2>4 DEF Since
  <2>6. Once => Claim(t, A, X, B, ver # "ours")
    BY <2>8 DEF Claim
  <2>7. Once => Claim(todo', A, X, B, ver # "ours")
    BY <1>30, <1>3, <2>1, <2>6, <2>9, ClaimPush
  <2> QED
    BY <1>3, <2>3, <2>7 DEF Over, Once, A, X, B
<1> QED
  BY <1>8, <1>9, <1>10, <1>11, <1>12, <1>13, <1>14, <1>15, <1>16, <1>17 DEF Prompt

\* Starting on the program keeps it all.
LEMMA PushDownload ==
    ASSUME Patch!PatchAssumption, PatchTypes, kind' = kind, ~late, Prompt,
           Pushes(Patch!Download), todo[1].do = "match", ver # "ours"
    PROVE  Prompt'
<1> DEFINE
        t == Patch!Download
        h == todo[1]
<1>1. /\ t \in Seq(Steps) /\ Len(t) = 2
      /\ t[1].do = "program" /\ t[1].from = 1 /\ t[2].do = "version"
  <2>1. 1 \in 1 .. Chunks
    BY DEF Patch!PatchAssumption
  <2>2. /\ Patch!From(1) \in Steps
        /\ Patch!From(1).do = "program" /\ Patch!From(1).from = 1
    BY <2>1, StepsAre DEF Patch!From
  <2>3. Patch!Do("version") \in Steps /\ Patch!Do("version").do = "version"
    BY StepsAre DEF Names
  <2> QED
    BY <2>2, <2>3, PairIs DEF Patch!Download
<1>2. Pushes(t) /\ h.do = "match"
  OBVIOUS
<1> HIDE DEF t
<1>3. /\ todo \in Seq(Steps) /\ todo # <<>> /\ todo' = t \o Tail(todo)
      /\ UNCHANGED <<ver, code, request, ready, key, saving, phyUp>>
  BY <1>2 DEF PatchTypes, Pushes
<1>4. h \in Steps /\ 1 \in 1 .. Len(todo)
  BY <1>3
<1> HIDE DEF h
<1>20. \A j \in 1 .. Len(t) : t[j] \in Steps
  <2>1. t \in Seq(Steps)
    BY <1>1
  <2> QED
    BY <2>1
<1>21. Len(t) = 2
  BY <1>1
<1>22. 1 \in 1 .. Len(t) /\ 2 \in 1 .. Len(t)
  BY <1>21
<1>23. t[1] \in Steps /\ t[2] \in Steps
  BY <1>20, <1>22
<1>24. t[1].do = "program" /\ t[1].from = 1 /\ t[2].do = "version"
  BY <1>1
<1>25. \A j \in 1 .. Len(t) : j = 1 \/ j = 2
  BY <1>21
<1>5. ASSUME NEW j \in 1 .. Len(t)
      PROVE  /\ t[j] \in Steps
             /\ \/ j = 1 /\ t[j].do = "program" /\ t[j].from = 1
                \/ j = 2 /\ t[j].do = "version"
  <2>1. t[j] \in Steps
    BY <1>20
  <2>2. j = 1 \/ j = 2
    BY <1>25
  <2> QED
    BY <1>24, <2>1, <2>2
<1>8. OnlySome' /\ Ends' /\ Patch!CodeComplete' /\ Patch!PatchWithdrawn'
  <2>1. t \in Seq(Steps) /\ todo[1].do \in {"saving", "match", "program"}
    BY <1>1, <1>2 DEF h
  <2>2. \A j \in 1 .. Len(t) :
              /\ t[j].do = "lock" => kind = "key"
              /\ t[j].do # "checked"
              /\ t[j].do \in {"saving", "save"} => Patch!HasSaving
              /\ t[j].do \in {"saving", "save"} /\ t[j].as = "on" => kind = "saving"
    BY <1>5
  <2> QED
    BY <1>2, <2>1, <2>2, PushRest
<1>30. t \in Seq(Steps)
  BY <1>1
<1>9. Asked'
  <2> DEFINE A == Doing({"await ready"})
             X == Doing({"request"})
             B == Doing({})
  <2>1. Claim(todo, A, X, B, request)
    BY DEF Prompt, Asked
  <2>2. \A j \in 1 .. Len(t) : t[j] \notin A
    BY <1>5 DEF Doing
  <2>3. h \notin X /\ h \notin B
    BY <1>2 DEF Doing
  <2> HIDE DEF A, X, B
  <2>6. Claim(todo', A, X, B, request)
    BY <1>30, <1>3, <2>1, <2>2, <2>3, PushOnly DEF h
  <2> QED
    BY <1>3, <2>6 DEF Asked, A, X, B
<1>10. Ready'
  <2> DEFINE A == Doing({"load", "save"})
             X == Doing({"await ready"})
             B == Doing({"load", "save", "lock", "unlock"})
  <2>1. Claim(todo, A, X, B, request /\ ready)
    BY DEF Prompt, Ready
  <2>2. \A j \in 1 .. Len(t) : t[j] \notin A
    BY <1>5 DEF Doing
  <2>3. h \notin X /\ h \notin B
    BY <1>2 DEF Doing
  <2> HIDE DEF A, X, B
  <2>6. Claim(todo', A, X, B, request /\ ready)
    BY <1>30, <1>3, <2>1, <2>2, <2>3, PushOnly DEF h
  <2> QED
    BY <1>3, <2>6 DEF Ready, A, X, B
<1>11. Keyed'
  <2> DEFINE A == Doing({"load"})
             X == Doing({"lock"})
             B == Doing({"load"})
  <2>1. kind = "key" => Claim(todo, A, X, B, key)
    BY DEF Prompt, Keyed
  <2>2. \A j \in 1 .. Len(t) : t[j] \notin A
    BY <1>5 DEF Doing
  <2>3. h \notin X /\ h \notin B
    BY <1>2 DEF Doing
  <2> HIDE DEF A, X, B
  <2>6. kind = "key" => Claim(todo', A, X, B, key)
    BY <1>30, <1>3, <2>1, <2>2, <2>3, PushOnly DEF h
  <2> QED
    BY <1>3, <2>6 DEF Keyed, A, X, B
<1>12. Brought'
  <2>1. ASSUME NEW x \in Patch!Program
        PROVE  Claim(todo', Doing({"version"}), Bringing(x), Steps, code'[x] = "ours")
    <3> DEFINE A == Doing({"version"})
               X == Bringing(x)
    <3>1. Claim(todo, A, X, Steps, code[x] = "ours")
      BY DEF Prompt, Brought
    <3>2. t[1] \in X /\ t[1] \notin A
      <4>1. x[1] \in 1 .. Chunks
        BY DEF Patch!Program
      <4>2. 1 <= x[1]
        BY <4>1 DEF Patch!PatchAssumption
      <4>3. t[1] \in X
        BY <1>23, <1>24, <4>2 DEF Bringing
      <4> QED
        BY <1>24, <4>3 DEF Doing
    <3>3. \A m \in 1 + 1 .. Len(t) : t[m] \in Steps
      <4>1. \A m \in 1 + 1 .. Len(t) : m = 2
        BY <1>21
      <4> QED
        BY <1>23, <4>1
    <3> HIDE DEF A, X
    <3>4. \A q : Since(t, 1, X, Steps, q)
      BY <3>2 DEF Since
    <3>5. \A j \in 1 .. Len(t) : t[j] \in A => j = 2
      BY <1>25, <3>2
    <3>6. \A j \in 1 .. Len(t) : t[j] \in A => Since(t, j - 1, X, Steps, code[x] = "ours")
      BY <3>4, <3>5
    <3>7. Claim(todo', A, X, Steps, code[x] = "ours")
      BY <1>30, <1>3, <1>22, <3>1, <3>2, <3>3, <3>6, PushMade
    <3> QED
      BY <1>3, <3>7 DEF A, X
  <2> QED
    BY <2>1 DEF Brought, Patch!Program
<1>13. Withdrawn'
  <2> DEFINE A == Doing({"up", "checked", "version"})
             B == NotDoing({"request"})
  <2>1. ver # "ours" \/ ~Once => Claim(todo, A, Withdrawing, B, ~request)
    BY DEF Prompt, Withdrawn
  <2>2. t[1] \in Withdrawing /\ t[1] \notin A
    BY <1>23, <1>24 DEF Withdrawing, Doing
  <2>3. \A m \in 1 + 1 .. Len(t) : t[m] \in B
    <3>1. \A m \in 1 + 1 .. Len(t) : m = 2
      BY <1>21
    <3>2. t[2] \in B
      BY <1>23, <1>24 DEF NotDoing
    <3> QED
      BY <3>1, <3>2
  <2> HIDE DEF A, B
  <2>4. \A q : Since(t, 1, Withdrawing, B, q)
    BY <2>2 DEF Since
  <2>5. \A j \in 1 .. Len(t) : t[j] \in A => j = 2
    BY <1>25, <2>2
  <2>8. \A j \in 1 .. Len(t) : t[j] \in A => Since(t, j - 1, Withdrawing, B, ~request)
    BY <2>4, <2>5
  <2>6. ver # "ours" \/ ~Once => Claim(todo', A, Withdrawing, B, ~request)
    BY <1>30, <1>3, <1>22, <2>1, <2>2, <2>3, <2>8, PushMade
  <2> QED
    BY <1>3, <2>6 DEF Withdrawn, Withdrawing, Once, A, B
<1>14. Unlocked'
  <2> DEFINE A == Doing({"up", "version"})
             X == Doing({"unlock", "match", "program"})
             B == NotDoing({"lock"})
  <2>1. ver # "ours" /\ kind = "key" => Claim(todo, A, X, B, ~key)
    BY DEF Prompt, Unlocked
  <2>2. t[1] \in X /\ t[1] \notin A
    BY <1>23, <1>24 DEF Doing
  <2>3. \A m \in 1 + 1 .. Len(t) : t[m] \in B
    <3>1. \A m \in 1 + 1 .. Len(t) : m = 2
      BY <1>21
    <3>2. t[2] \in B
      BY <1>23, <1>24 DEF NotDoing
    <3> QED
      BY <3>1, <3>2
  <2> HIDE DEF A, X, B
  <2>4. \A q : Since(t, 1, X, B, q)
    BY <2>2 DEF Since
  <2>5. \A j \in 1 .. Len(t) : t[j] \in A => j = 2
    BY <1>25, <2>2
  <2>8. \A j \in 1 .. Len(t) : t[j] \in A => Since(t, j - 1, X, B, ~key)
    BY <2>4, <2>5
  <2>6. ver # "ours" /\ kind = "key" => Claim(todo', A, X, B, ~key)
    BY <1>30, <1>3, <1>22, <2>1, <2>2, <2>3, <2>8, PushMade
  <2> QED
    BY <1>3, <2>6 DEF Unlocked, A, X, B
<1>15. NotOn'
  <2> DEFINE
        A == SavingTo("on")
        X == SavingTo("off") \cup SaveAs({"none", "off"})
        B == Steps \ (SavingTo("on") \cup SaveAs({"on"}))
  <2>1. Claim(todo, A, X, B, saving # "on")
    BY DEF Prompt, NotOn
  <2>2. \A j \in 1 .. Len(t) : t[j] \in B /\ t[j] \notin A
    BY <1>5 DEF SavingTo, SaveAs
  <2>3. h \notin X
    BY <1>2 DEF SavingTo, SaveAs
  <2> HIDE DEF A, X, B
  <2>6. Claim(todo', A, X, B, saving # "on")
    BY <1>30, <1>3, <2>1, <2>2, <2>3, PushFree DEF h
  <2> QED
    BY <1>3, <2>6 DEF NotOn, A, X, B
<1>16. IsOff'
  <2> DEFINE
        A == Doing({"match", "version"})
        X == SavingTo("off") \cup SaveAs({"off"})
        B == NotDoing({"save"})
  <2>1. kind = "key" => Claim(todo, A, X, B, saving = "off")
    BY DEF Prompt, IsOff
  <2>2. h \in A
    BY <1>2, <1>4 DEF Doing
  <2>3. kind = "key" => saving = "off"
    <3> HIDE DEF A, X, B
    <3> QED
      BY <1>3, <2>1, <2>2, ClaimTail DEF h
  <2>4. \A j \in 1 .. Len(t) : t[j] \in B
    BY <1>5 DEF NotDoing
  <2> HIDE DEF A, X, B
  <2>8. kind = "key" => \A j \in 1 .. Len(t) : Since(t, j - 1, X, B, saving = "off")
    BY <2>3, <2>4 DEF Since
  <2>9. kind = "key" => Since(t, Len(t), X, B, saving = "off")
    BY <2>3, <2>4 DEF Since
  <2>6. kind = "key" => Claim(t, A, X, B, saving = "off")
    BY <2>8 DEF Claim
  <2>7. kind = "key" => Claim(todo', A, X, B, saving = "off")
    BY <1>30, <1>3, <2>1, <2>6, <2>9, ClaimPush
  <2> QED
    BY <1>3, <2>7 DEF IsOff, A, X, B
<1>17. Over'
  <2> DEFINE
        A == Doing(Patching)
        X == Doing({})
        B == NotDoing({"match", "version"})
  <2>1. Once => Claim(todo, A, X, B, ver # "ours")
    BY DEF Prompt, Over
  <2>2. t[2] \notin A
    BY <1>24 DEF Doing, Patching
  <2>3. h \notin X /\ h \notin B
    BY <1>2 DEF Doing, NotDoing
  <2> HIDE DEF A, X, B
  <2>4. Since(t, 0, X, B, ver # "ours")
    BY DEF Since
  <2>5. \A j \in 1 .. Len(t) : t[j] \in A => j = 1
    BY <1>25, <2>2
  <2>8. \A j \in 1 .. Len(t) : t[j] \in A => Since(t, j - 1, X, B, ver # "ours")
    BY <2>4, <2>5
  <2>7. Once => Claim(todo', A, X, B, ver # "ours")
    BY <1>30, <1>3, <2>1, <2>3, <2>8, PushOnly DEF h
  <2> QED
    BY <1>3, <2>7 DEF Over, Once, A, X, B
<1> QED
  BY <1>8, <1>9, <1>10, <1>11, <1>12, <1>13, <1>14, <1>15, <1>16, <1>17 DEF Prompt

\* Starting on a patch of the program keeps it all.
LEMMA PushProgram ==
    ASSUME Patch!PatchAssumption, PatchTypes, kind' = kind, ~late, Prompt,
           NEW c \in 1 .. Chunks, todo[1].do = "program", todo[1].from = c,
           Pushes(Patch!Patch(Patch!Load(c)) \o
                      (IF c = Chunks THEN <<>> ELSE <<Patch!From(c + 1)>>))
    PROVE  Prompt'
<1> DEFINE h == todo[1]
<1>0. PICK t \in Seq(Steps), n \in Nat : OnePatch(c, t, n)
  BY NextIs
<1> USE DEF OnePatch
<1>2. Pushes(t) /\ h.do = "program" /\ h.from = c
  BY <1>0
<1>3. /\ todo \in Seq(Steps) /\ todo # <<>> /\ todo' = t \o Tail(todo)
      /\ UNCHANGED <<ver, code, request, ready, key, saving, phyUp>>
  BY <1>2 DEF PatchTypes, Pushes
<1>4. h \in Steps /\ 1 \in 1 .. Len(todo)
  BY <1>3
<1> HIDE DEF h
<1>20. \A j \in 1 .. Len(t) : t[j] \in Steps
  OBVIOUS
<1>21. Len(t) = n + 4 \/ Len(t) = n + 5
  BY <1>0
<1>22. /\ 1 \in 1 .. Len(t) /\ 2 \in 1 .. Len(t)
       /\ \A k \in 3 .. n + 2 : k \in 1 .. Len(t)
       /\ n + 3 \in 1 .. Len(t) /\ n + 4 \in 1 .. Len(t)
  BY <1>21
<1>24. /\ t[1].do = "request" /\ t[2].do = "await ready"
       /\ \A k \in 3 .. n + 2 : t[k].do \in {"lock", "load", "unlock"}
       /\ t[n + 3].do = "withdraw" /\ t[n + 4].do = "await idle"
       /\ Len(t) = n + 5 => t[n + 5].do = "program"
  <2>1. n + 4 # n + 5
    OBVIOUS
  <2> QED
    BY <1>0, <2>1
<1>25. \A j \in 1 .. Len(t) : \/ j = 1 \/ j = 2 \/ j \in 3 .. n + 2 \/ j = n + 3
                              \/ j = n + 4 \/ (j = n + 5 /\ Len(t) = n + 5)
  BY <1>21
<1>5. ASSUME NEW j \in 1 .. Len(t)
      PROVE  /\ t[j] \in Steps
             /\ \/ j = 1 /\ t[j].do = "request"
                \/ j = 2 /\ t[j].do = "await ready"
                \/ j \in 3 .. n + 2 /\ t[j].do \in {"lock", "load", "unlock"}
                \/ t[j].do \in {"withdraw", "await idle", "program"}
  <2>1. t[j] \in Steps
    BY <1>20
  <2> QED
    BY <1>24, <1>25, <2>1
<1>8. OnlySome' /\ Ends' /\ Patch!CodeComplete' /\ Patch!PatchWithdrawn'
  <2>1. todo[1].do \in {"saving", "match", "program"}
    BY <1>2 DEF h
  <2>2. \A j \in 1 .. Len(t) :
              /\ t[j].do = "lock" => kind = "key"
              /\ t[j].do # "checked"
              /\ t[j].do \in {"saving", "save"} => Patch!HasSaving
              /\ t[j].do \in {"saving", "save"} /\ t[j].as = "on" => kind = "saving"
    <3>1. ASSUME kind # "key", NEW j \in 1 .. Len(t) PROVE t[j].do # "lock"
      <4>1. j \in 3 .. n + 2 => t[j].do = "load"
        BY <1>0, <3>1
      <4> QED
        BY <1>5, <4>1
    <3> QED
      BY <1>5, <3>1
  <2> QED
    BY <1>2, <2>1, <2>2, PushRest
<1>9. Asked'
  <2> DEFINE A == Doing({"await ready"})
             X == Doing({"request"})
             B == Doing({})
  <2>1. Claim(todo, A, X, B, request)
    BY DEF Prompt, Asked
  <2>2. \A j \in 1 .. Len(t) : t[j] \in A => j = 2
    BY <1>5 DEF Doing
  <2>3. t[1] \in X /\ h \notin X /\ h \notin B
    BY <1>2, <1>20, <1>22, <1>24 DEF Doing
  <2> HIDE DEF A, X, B
  <2>4. Since(t, 1, X, B, request)
    BY <2>3 DEF Since
  <2>5. \A j \in 1 .. Len(t) : t[j] \in A => Since(t, j - 1, X, B, request)
    BY <2>2, <2>4
  <2>6. Claim(todo', A, X, B, request)
    BY <1>3, <2>1, <2>3, <2>5, PushOnly DEF h
  <2> QED
    BY <1>3, <2>6 DEF Asked, A, X, B
<1>10. Ready'
  <2> DEFINE A == Doing({"load", "save"})
             X == Doing({"await ready"})
             B == Doing({"load", "save", "lock", "unlock"})
  <2>1. Claim(todo, A, X, B, request /\ ready)
    BY DEF Prompt, Ready
  <2>2. \A j \in 1 .. Len(t) : t[j] \in A => j \in 3 .. n + 2
    BY <1>5 DEF Doing
  <2>3. t[2] \in X /\ h \notin X /\ h \notin B
    BY <1>2, <1>20, <1>22, <1>24 DEF Doing
  <2>4. \A m \in 3 .. n + 2 : t[m] \in B
    BY <1>20, <1>22, <1>24 DEF Doing
  <2> HIDE DEF A, X, B
  <2>5. ASSUME NEW j \in 3 .. n + 2 PROVE Since(t, j - 1, X, B, request /\ ready)
    <3>1. 2 \in 1 .. j - 1 /\ \A m \in 2 + 1 .. j - 1 : m \in 3 .. n + 2
      OBVIOUS
    <3> QED
      BY <2>3, <2>4, <3>1 DEF Since
  <2>7. \A j \in 1 .. Len(t) : t[j] \in A => Since(t, j - 1, X, B, request /\ ready)
    BY <2>2, <2>5
  <2>6. Claim(todo', A, X, B, request /\ ready)
    BY <1>3, <2>1, <2>3, <2>7, PushOnly DEF h
  <2> QED
    BY <1>3, <2>6 DEF Ready, A, X, B
<1>11. Keyed'
  <2> DEFINE A == Doing({"load"})
             X == Doing({"lock"})
             B == Doing({"load"})
  <2>1. CASE kind = "key"
    <3>1. Claim(todo, A, X, B, key)
      BY <2>1 DEF Prompt, Keyed
    <3>2. n >= 2 /\ t[3].do = "lock" /\ t[n + 2].do = "unlock"
          /\ \A k \in 4 .. n + 1 : t[k].do = "load"
      BY <1>0, <2>1
    <3>3. 3 \in 3 .. n + 2
      BY <3>2
    <3>4. \A j \in 1 .. Len(t) : t[j] \in A => j \in 4 .. n + 1
      <4>1. ASSUME NEW j \in 1 .. Len(t), t[j].do = "load" PROVE j \in 4 .. n + 1
        <5>1. j \in 3 .. n + 2
          BY <1>5, <4>1
        <5>2. j # 3 /\ j # n + 2
          BY <3>2, <4>1
        <5> QED
          BY <5>1, <5>2
      <4> QED
        BY <4>1 DEF Doing
    <3>5. t[3] \in X /\ h \notin X /\ h \notin B
      BY <1>2, <1>20, <1>22, <3>2, <3>3 DEF Doing
    <3>6. \A m \in 4 .. n + 1 : t[m] \in B
      <4>1. \A m \in 4 .. n + 1 : m \in 3 .. n + 2
        OBVIOUS
      <4> QED
        BY <1>20, <1>22, <3>2, <4>1 DEF Doing
    <3> HIDE DEF A, X, B
    <3>7. ASSUME NEW j \in 4 .. n + 1 PROVE Since(t, j - 1, X, B, key)
      <4>1. 3 \in 1 .. j - 1 /\ \A m \in 3 + 1 .. j - 1 : m \in 4 .. n + 1
        OBVIOUS
      <4> QED
        BY <3>5, <3>6, <4>1 DEF Since
    <3>8. \A j \in 1 .. Len(t) : t[j] \in A => Since(t, j - 1, X, B, key)
      BY <3>4, <3>7
    <3>9. Claim(todo', A, X, B, key)
      BY <1>3, <3>1, <3>5, <3>8, PushOnly DEF h
    <3> QED
      BY <1>3, <3>9 DEF Keyed, A, X, B
  <2> QED
    BY <2>1 DEF Keyed
<1>12. Brought'
  <2>1. ASSUME NEW x \in Patch!Program
        PROVE  Claim(todo', Doing({"version"}), Bringing(x), Steps, code'[x] = "ours")
    <3> DEFINE A == Doing({"version"})
               X == Bringing(x)
    <3>1. Claim(todo, A, X, Steps, code[x] = "ours")
      BY DEF Prompt, Brought
    <3>2. \A j \in 1 .. Len(t) : t[j] \in Steps /\ t[j] \notin A
      BY <1>5 DEF Doing
    <3>0. x[1] \in 1 .. Chunks /\ x[2] \in 1 .. Words /\ x = <<x[1], x[2]>> /\ Chunks \in Nat
      BY DEF Patch!Program, Patch!PatchAssumption
    <3>3. CASE x[1] = c
      <4>1. PICK k \in 3 .. n + 2 : t[k].do = "load" /\ t[k].word = <<c, x[2]>>
        BY <1>0, <3>0
      <4>2. k \in 1 .. Len(t) /\ t[k] \in X
        BY <1>20, <1>22, <3>0, <3>3, <4>1 DEF Bringing
      <4>3. \A m \in k + 1 .. Len(t) : t[m] \in Steps
        BY <1>20, <4>2
      <4> HIDE DEF A, X
      <4>4. Claim(todo', A, X, Steps, code[x] = "ours")
        BY <1>3, <3>1, <3>2, <4>2, <4>3, PushMade
      <4> QED
        BY <1>3, <4>4 DEF A, X
    <3>4. CASE x[1] > c
      <4>1. c < Chunks /\ c + 1 <= x[1]
        BY <3>0, <3>4
      <4>2. Len(t) = n + 5 /\ t[n + 5].from = c + 1 /\ t[n + 5].do = "program"
        BY <1>0, <1>24, <4>1
      <4>3. n + 5 \in 1 .. Len(t) /\ \A m \in n + 5 + 1 .. Len(t) : t[m] \in Steps
        BY <4>2
      <4>5. t[n + 5] \in X
        BY <1>20, <4>1, <4>2, <4>3 DEF Bringing
      <4> HIDE DEF A, X
      <4>4. Claim(todo', A, X, Steps, code[x] = "ours")
        BY <1>3, <3>1, <3>2, <4>3, <4>5, PushMade
      <4> QED
        BY <1>3, <4>4 DEF A, X
    <3>5. CASE x[1] < c
      <4>1. h \notin X
        BY <1>2, <3>0, <3>5 DEF Bringing
      <4> HIDE DEF A, X
      <4>4. Claim(todo', A, X, Steps, code[x] = "ours")
        BY <1>3, <3>1, <3>2, <4>1, PushFree DEF h
      <4> QED
        BY <1>3, <4>4 DEF A, X
    <3> QED
      BY <3>0, <3>3, <3>4, <3>5
  <2> QED
    BY <2>1 DEF Brought, Patch!Program
<1>13. Withdrawn'
  <2> DEFINE A == Doing({"up", "checked", "version"})
             B == NotDoing({"request"})
  <2>1. ver # "ours" \/ ~Once => Claim(todo, A, Withdrawing, B, ~request)
    BY DEF Prompt, Withdrawn
  <2>2. \A j \in 1 .. Len(t) : t[j] \notin A
    BY <1>5 DEF Doing
  <2>3. t[n + 3] \in Withdrawing
    BY <1>20, <1>22, <1>24 DEF Withdrawing
  <2>4. \A m \in n + 3 + 1 .. Len(t) : t[m] \in B
    <3>1. \A m \in n + 3 + 1 .. Len(t) : m \in 1 .. Len(t) /\ m # 1
      OBVIOUS
    <3> QED
      BY <1>5, <3>1 DEF NotDoing
  <2> HIDE DEF A, B
  <2>6. ver # "ours" \/ ~Once => Claim(todo', A, Withdrawing, B, ~request)
    BY <1>3, <1>22, <2>1, <2>2, <2>3, <2>4, PushMade
  <2> QED
    BY <1>3, <2>6 DEF Withdrawn, Withdrawing, Once, A, B
<1>14. Unlocked'
  <2> DEFINE A == Doing({"up", "version"})
             X == Doing({"unlock", "match", "program"})
             B == NotDoing({"lock"})
  <2>1. CASE ver # "ours" /\ kind = "key"
    <3>1. Claim(todo, A, X, B, ~key)
      BY <2>1 DEF Prompt, Unlocked
    <3>2. n >= 2 /\ t[n + 2].do = "unlock"
      BY <1>0, <2>1
    <3>3. n + 2 \in 1 .. Len(t) /\ t[n + 2] \in X
      <4>1. n + 2 \in 3 .. n + 2
        BY <3>2
      <4> QED
        BY <1>20, <1>22, <3>2, <4>1 DEF Doing
    <3>4. \A j \in 1 .. Len(t) : t[j] \notin A
      BY <1>5 DEF Doing
    <3>5. \A m \in n + 2 + 1 .. Len(t) : t[m] \in B
      <4>1. \A m \in n + 2 + 1 .. Len(t) : m \in 1 .. Len(t) /\ ~(m \in 3 .. n + 2)
        OBVIOUS
      <4> QED
        BY <1>5, <4>1 DEF NotDoing
    <3> HIDE DEF A, X, B
    <3>6. Claim(todo', A, X, B, ~key)
      BY <1>3, <3>1, <3>3, <3>4, <3>5, PushMade
    <3> QED
      BY <1>3, <3>6 DEF Unlocked, A, X, B
  <2> QED
    BY <1>3, <2>1 DEF Unlocked
<1>15. NotOn'
  <2> DEFINE
        A == SavingTo("on")
        X == SavingTo("off") \cup SaveAs({"none", "off"})
        B == Steps \ (SavingTo("on") \cup SaveAs({"on"}))
  <2>1. Claim(todo, A, X, B, saving # "on")
    BY DEF Prompt, NotOn
  <2>2. \A j \in 1 .. Len(t) : t[j] \in B /\ t[j] \notin A
    BY <1>5 DEF SavingTo, SaveAs
  <2>3. h \notin X
    BY <1>2 DEF SavingTo, SaveAs
  <2> HIDE DEF A, X, B
  <2>6. Claim(todo', A, X, B, saving # "on")
    BY <1>3, <2>1, <2>2, <2>3, PushFree DEF h
  <2> QED
    BY <1>3, <2>6 DEF NotOn, A, X, B
<1>16. IsOff'
  <2> DEFINE
        A == Doing({"match", "version"})
        X == SavingTo("off") \cup SaveAs({"off"})
        B == NotDoing({"save"})
  <2>1. kind = "key" => Claim(todo, A, X, B, saving = "off")
    BY DEF Prompt, IsOff
  <2>2. \A j \in 1 .. Len(t) : t[j] \in B /\ t[j] \notin A
    BY <1>5 DEF Doing, NotDoing
  <2>3. h \notin X
    BY <1>2 DEF SavingTo, SaveAs
  <2> HIDE DEF A, X, B
  <2>6. kind = "key" => Claim(todo', A, X, B, saving = "off")
    BY <1>3, <2>1, <2>2, <2>3, PushFree DEF h
  <2> QED
    BY <1>3, <2>6 DEF IsOff, A, X, B
<1>17. Over'
  <2> DEFINE
        A == Doing(Patching)
        X == Doing({})
        B == NotDoing({"match", "version"})
  <2>1. Once => Claim(todo, A, X, B, ver # "ours")
    BY DEF Prompt, Over
  <2>2. h \in A
    BY <1>2, <1>4 DEF Doing, Patching
  <2>4. \A j \in 1 .. Len(t) : t[j] \in B
    BY <1>5 DEF NotDoing
  <2> HIDE DEF A, X, B
  <2>3. Once => ver # "ours"
    BY <1>3, <2>1, <2>2, ClaimTail DEF h
  <2>8. Once => \A j \in 1 .. Len(t) : Since(t, j - 1, X, B, ver # "ours")
    BY <2>3, <2>4 DEF Since
  <2>9. Once => Since(t, Len(t), X, B, ver # "ours")
    BY <2>3, <2>4 DEF Since
  <2>6. Once => Claim(t, A, X, B, ver # "ours")
    BY <2>8 DEF Claim
  <2>7. Once => Claim(todo', A, X, B, ver # "ours")
    BY <1>3, <2>1, <2>6, <2>9, ClaimPush
  <2> QED
    BY <1>3, <2>3, <2>7 DEF Over, Once, A, X, B
<1> QED
  BY <1>8, <1>9, <1>10, <1>11, <1>12, <1>13, <1>14, <1>15, <1>16, <1>17 DEF Prompt

Sv(v) == [do |-> "saving", as |-> v]

\* A step more at the end of a sequence.
LEMMA OneMore ==
    ASSUME NEW s \in Seq(Steps), NEW x \in Steps
    PROVE  LET u == s \o <<x>>
           IN  /\ u \in Seq(Steps) /\ Len(u) = Len(s) + 1 /\ u[Len(s) + 1] = x
               /\ Len(s) \in Nat /\ \A k \in 1 .. Len(s) : u[k] = s[k]
<1> DEFINE u == s \o <<x>>
<1>1. u = s \o <<x>> /\ <<x>> \in Seq(Steps)
  OBVIOUS
<1> HIDE DEF u
<1>2. /\ u \in Seq(Steps) /\ Len(u) = Len(s) + Len(<<x>>) /\ Len(s) \in Nat
      /\ \A k \in 1 .. Len(s) : u[k] = s[k]
      /\ \A k \in 1 .. Len(<<x>>) : u[Len(s) + k] = <<x>>[k]
  BY <1>1, ConcatIs
<1>3. Len(<<x>>) = 1 /\ <<x>>[1] = x
  OBVIOUS
<1>4. 1 \in 1 .. Len(<<x>>) /\ Len(u) = Len(s) + 1
  BY <1>2, <1>3
<1>5. u[Len(s) + 1] = x
  BY <1>2, <1>3, <1>4
<1> QED
  BY <1>2, <1>4, <1>5 DEF u

\* What a start does, step by step.
LEMMA ConfigIs ==
    LET s == Patch!Config
    IN  /\ s \in Seq(Steps)
        /\ kind = "saving" =>
              /\ Len(s) = 4 /\ s[1] = Sv("off") /\ s[2] = Patch!Do("match")
              /\ s[3] = Sv("on") /\ s[4] = Patch!Do("up")
        /\ kind = "key" => /\ Len(s) = 3 /\ s[1] = Sv("off") /\ s[2] = Patch!Do("match")
                           /\ s[3] = Patch!Do("up")
        /\ kind \notin {"saving", "key", "check"} =>
              Len(s) = 2 /\ s[1] = Patch!Do("match") /\ s[2] = Patch!Do("up")
        /\ kind = "check" =>
              /\ Len(s) = 11
              /\ s[1].do = "request" /\ s[2].do = "await ready"
              /\ s[3].do = "withdraw" /\ s[4].do = "await idle"
              /\ s[5].do = "request" /\ s[6].do = "await ready"
              /\ s[7].do = "withdraw" /\ s[8].do = "await idle"
              /\ s[9].do = "checked" /\ s[10].do = "match" /\ s[11].do = "up"
<1> DEFINE
        none == <<>>
        a == Patch!Do("match")
        z == Patch!Do("up")
        s == Patch!Config
<1>1. none \in Seq(Steps) /\ Len(none) = 0
      /\ \A t \in Seq(Steps) : none \o t = t /\ t \o none = t
  OBVIOUS
<1>2. a \in Steps /\ z \in Steps /\ Sv("off") \in Steps /\ Sv("on") \in Steps
      /\ a.do = "match" /\ z.do = "up"
  BY StepsAre DEF Sv, Names
<1>3. Patch!Config = (((IF kind \in {"saving", "key"} THEN <<Sv("off")>> ELSE none)
                       \o (IF kind = "check" THEN Patch!RamCodeCheck ELSE none)) \o <<a>>)
                     \o (IF kind = "saving" THEN <<Sv("on")>> ELSE none) \o <<z>>
  BY DEF Patch!Config, Patch!HasSaving, Sv
<1> HIDE DEF none, a, z
<1>4. \A x \in Steps : none \o <<x>> = <<x>> /\ <<x>> \o none = <<x>>
  BY <1>1, PairIs
<1>5. ASSUME NEW x \in Steps PROVE <<x>> \in Seq(Steps) /\ Len(<<x>>) = 1 /\ <<x>>[1] = x
  BY PairIs
<1>6. CASE kind \in {"saving", "key"}
  <2> DEFINE p == <<Sv("off")>> \o <<a>>
  <2>1. p \in Seq(Steps) /\ Len(p) = 2 /\ p[1] = Sv("off") /\ p[2] = a
    <3>1. <<Sv("off")>> \in Seq(Steps) /\ Len(<<Sv("off")>>) = 1
          /\ <<Sv("off")>>[1] = Sv("off")
      BY <1>2, <1>5
    <3>2. p \in Seq(Steps) /\ Len(p) = 2 /\ p[2] = a
          /\ \A k \in 1 .. 1 : p[k] = <<Sv("off")>>[k]
      <4>1. <<Sv("off")>> \in Seq(Steps) /\ a \in Steps
        BY <1>2, <3>1
      <4>2. p = <<Sv("off")>> \o <<a>>
        OBVIOUS
      <4> HIDE DEF p
      <4>3. /\ p \in Seq(Steps) /\ Len(p) = Len(<<Sv("off")>>) + 1
             /\ p[Len(<<Sv("off")>>) + 1] = a
             /\ \A k \in 1 .. Len(<<Sv("off")>>) : p[k] = <<Sv("off")>>[k]
        BY <4>1, <4>2, OneMore
      <4>4. Len(<<Sv("off")>>) = 1
        BY <1>2, <3>1
      <4>5. Len(<<Sv("off")>>) + 1 = 2
        BY <4>4
      <4> QED
        BY <4>3, <4>4, <4>5
    <3> QED
      BY <3>1, <3>2
  <2>2. (<<Sv("off")>> \o none) \o <<a>> = p
    BY <1>2, <1>4
  <2> HIDE DEF p
  <2>3. CASE kind = "key"
    <3> DEFINE u == p \o <<z>>
    <3>1. s = u
      <4>1. s = (((<<Sv("off")>> \o none) \o <<a>>) \o none) \o <<z>>
        BY <1>3, <2>3
      <4>2. p \o none = p
        BY <1>1, <2>1
      <4> QED
        BY <2>2, <4>1, <4>2
    <3>2. u \in Seq(Steps) /\ Len(u) = 3 /\ u[3] = z
          /\ \A k \in 1 .. 2 : u[k] = p[k]
      <4>1. p \in Seq(Steps) /\ z \in Steps
        BY <1>2, <2>1
      <4>2. u = p \o <<z>>
        OBVIOUS
      <4> HIDE DEF u
      <4>3. /\ u \in Seq(Steps) /\ Len(u) = Len(p) + 1
             /\ u[Len(p) + 1] = z
             /\ \A k \in 1 .. Len(p) : u[k] = p[k]
        BY <4>1, <4>2, OneMore
      <4>4. Len(p) = 2
        BY <1>2, <2>1
      <4>5. Len(p) + 1 = 3
        BY <4>4
      <4> QED
        BY <4>3, <4>4, <4>5
    <3> HIDE DEF u
    <3>3. s \in Seq(Steps) /\ Len(s) = 3 /\ s[1] = Sv("off") /\ s[2] = a /\ s[3] = z
      BY <2>1, <3>1, <3>2
    <3> QED
      BY <2>3, <3>3 DEF a, z
  <2>4. CASE kind = "saving"
    <3> DEFINE q == p \o <<Sv("on")>>
               u == q \o <<z>>
    <3>1. s = u
      <4>1. s = (((<<Sv("off")>> \o none) \o <<a>>) \o <<Sv("on")>>) \o <<z>>
        BY <1>3, <2>4
      <4> QED
        BY <2>2, <4>1
    <3>2. q \in Seq(Steps) /\ Len(q) = 3 /\ q[3] = Sv("on")
          /\ \A k \in 1 .. 2 : q[k] = p[k]
      <4>1. p \in Seq(Steps) /\ Sv("on") \in Steps
        BY <1>2, <2>1
      <4>2. q = p \o <<Sv("on")>>
        OBVIOUS
      <4> HIDE DEF q
      <4>3. /\ q \in Seq(Steps) /\ Len(q) = Len(p) + 1
             /\ q[Len(p) + 1] = Sv("on")
             /\ \A k \in 1 .. Len(p) : q[k] = p[k]
        BY <4>1, <4>2, OneMore
      <4>4. Len(p) = 2
        BY <1>2, <2>1
      <4>5. Len(p) + 1 = 3
        BY <4>4
      <4> QED
        BY <4>3, <4>4, <4>5
    <3> HIDE DEF q
    <3>5. Len(q) = 3
      BY <3>2
    <3>3. u \in Seq(Steps) /\ Len(u) = 4 /\ u[4] = z
          /\ \A k \in 1 .. 3 : u[k] = q[k]
      <4>1. q \in Seq(Steps) /\ z \in Steps
        BY <1>2, <3>2, <3>5
      <4>2. u = q \o <<z>>
        OBVIOUS
      <4> HIDE DEF u
      <4>3. /\ u \in Seq(Steps) /\ Len(u) = Len(q) + 1
             /\ u[Len(q) + 1] = z
             /\ \A k \in 1 .. Len(q) : u[k] = q[k]
        BY <4>1, <4>2, OneMore
      <4>4. Len(q) = 3
        BY <1>2, <3>2, <3>5
      <4>5. Len(q) + 1 = 4
        BY <4>4
      <4> QED
        BY <4>3, <4>4, <4>5
    <3> HIDE DEF u
    <3>4. s \in Seq(Steps) /\ Len(s) = 4 /\ s[1] = Sv("off") /\ s[2] = a
          /\ s[3] = Sv("on") /\ s[4] = z
      BY <2>1, <3>1, <3>2, <3>3
    <3> QED
      BY <2>4, <3>4 DEF a, z
  <2> QED
    BY <1>6, <2>3, <2>4
<1>7. CASE kind \notin {"saving", "key", "check"}
  <2> DEFINE u == <<a>> \o <<z>>
  <2>1. s = u
    <3>1. s = (((none \o none) \o <<a>>) \o none) \o <<z>>
      BY <1>3, <1>7
    <3>2. none \o none = none
      BY <1>1
    <3> QED
      BY <1>2, <1>4, <3>1, <3>2
  <2>2. <<a>> \in Seq(Steps) /\ Len(<<a>>) = 1 /\ <<a>>[1] = a
    BY <1>2, <1>5
  <2>3. u \in Seq(Steps) /\ Len(u) = 2 /\ u[2] = z
        /\ \A k \in 1 .. 1 : u[k] = <<a>>[k]
    <3>1. <<a>> \in Seq(Steps) /\ z \in Steps
      BY <1>2, <2>2
    <3>2. u = <<a>> \o <<z>>
      OBVIOUS
    <3> HIDE DEF u
    <3>3. /\ u \in Seq(Steps) /\ Len(u) = Len(<<a>>) + 1
           /\ u[Len(<<a>>) + 1] = z
           /\ \A k \in 1 .. Len(<<a>>) : u[k] = <<a>>[k]
      BY <3>1, <3>2, OneMore
    <3>4. Len(<<a>>) = 1
      BY <1>2, <2>2
    <3>5. Len(<<a>>) + 1 = 2
      BY <3>4
    <3> QED
      BY <3>3, <3>4, <3>5
  <2> HIDE DEF u
  <2>4. s \in Seq(Steps) /\ Len(s) = 2 /\ s[1] = a /\ s[2] = z
    BY <2>1, <2>2, <2>3
  <2> QED
    BY <1>7, <2>4 DEF a, z
<1>8. CASE kind = "check"
  <2> DEFINE
        p == Patch!Patch(none)
        q == p \o p
        c == Patch!Do("checked")
        r == q \o <<c>>
        y == r \o <<a>>
        u == y \o <<z>>
  <2>1. /\ p \in Seq(Steps) /\ Len(p) = 4
        /\ p[1].do = "request" /\ p[2].do = "await ready"
        /\ p[3].do = "withdraw" /\ p[4].do = "await idle"
    <3>1. /\ p \in Seq(Steps) /\ Len(p) = Len(none) + 4
          /\ p[1].do = "request" /\ p[2].do = "await ready"
          /\ p[Len(none) + 3].do = "withdraw" /\ p[Len(none) + 4].do = "await idle"
      BY <1>1, PatchIs
    <3>2. Len(none) + 3 = 3 /\ Len(none) + 4 = 4
      BY <1>1
    <3> QED
      BY <3>1, <3>2
  <2>2. Patch!RamCodeCheck = r
    BY DEF Patch!RamCodeCheck, none
  <2> HIDE DEF p
  <2>3. /\ q \in Seq(Steps) /\ Len(q) = Len(p) + Len(p)
        /\ \A k \in 1 .. Len(p) : q[k] = p[k]
        /\ \A k \in 1 .. Len(p) : q[Len(p) + k] = p[k]
    BY <2>1, ConcatIs
  <2> HIDE DEF q
  <2>4. /\ q \in Seq(Steps) /\ Len(q) = 8
        /\ \A k \in 1 .. 4 : q[k] = p[k]
        /\ \A k \in 1 .. 4 : q[4 + k] = p[k]
    <3>0. Len(p) = 4
      BY <2>1
    <3>1. Len(p) = 4 /\ Len(p) + Len(p) = 8
      BY <3>0
    <3>2. /\ Len(q) = Len(p) + Len(p)
          /\ \A k \in 1 .. Len(p) : q[k] = p[k]
          /\ \A k \in 1 .. Len(p) : q[Len(p) + k] = p[k]
      BY <2>3
    <3>3. /\ Len(q) = 8
          /\ \A k \in 1 .. 4 : q[k] = p[k]
          /\ \A k \in 1 .. 4 : q[4 + k] = p[k]
      BY <3>1, <3>2
    <3> QED
      BY <2>3, <3>3
  <2>5. /\ q[1] = p[1] /\ q[2] = p[2] /\ q[3] = p[3] /\ q[4] = p[4]
        /\ q[5] = p[1] /\ q[6] = p[2] /\ q[7] = p[3] /\ q[8] = p[4]
    <3>1. 4 + 1 = 5 /\ 4 + 2 = 6 /\ 4 + 3 = 7 /\ 4 + 4 = 8
          /\ 1 \in 1 .. 4 /\ 2 \in 1 .. 4 /\ 3 \in 1 .. 4 /\ 4 \in 1 .. 4
      OBVIOUS
    <3> QED
      BY <2>4, <3>1
  <2>6. c \in Steps /\ c.do = "checked"
    BY StepsAre DEF Names
  <2> HIDE DEF c
  <2>7. r \in Seq(Steps) /\ Len(r) = 9 /\ r[9] = c
        /\ \A k \in 1 .. 8 : r[k] = q[k]
    <3>1. q \in Seq(Steps) /\ c \in Steps
      BY <2>4, <2>6
    <3>2. r = q \o <<c>>
      OBVIOUS
    <3> HIDE DEF r
    <3>3. /\ r \in Seq(Steps) /\ Len(r) = Len(q) + 1
           /\ r[Len(q) + 1] = c
           /\ \A k \in 1 .. Len(q) : r[k] = q[k]
      BY <3>1, <3>2, OneMore
    <3>4. Len(q) = 8
      BY <2>4, <2>6
    <3>5. Len(q) + 1 = 9
      BY <3>4
    <3> QED
      BY <3>3, <3>4, <3>5
  <2> HIDE DEF r
  <2>8. Len(r) = 9
    BY <2>7
  <2>9. y \in Seq(Steps) /\ Len(y) = 10 /\ y[10] = a
        /\ \A k \in 1 .. 9 : y[k] = r[k]
    <3>1. r \in Seq(Steps) /\ a \in Steps
      BY <1>2, <2>7, <2>8
    <3>2. y = r \o <<a>>
      OBVIOUS
    <3> HIDE DEF y
    <3>3. /\ y \in Seq(Steps) /\ Len(y) = Len(r) + 1
           /\ y[Len(r) + 1] = a
           /\ \A k \in 1 .. Len(r) : y[k] = r[k]
      BY <3>1, <3>2, OneMore
    <3>4. Len(r) = 9
      BY <1>2, <2>7, <2>8
    <3>5. Len(r) + 1 = 10
      BY <3>4
    <3> QED
      BY <3>3, <3>4, <3>5
  <2> HIDE DEF y
  <2>10. Len(y) = 10
    BY <2>9
  <2>11. u \in Seq(Steps) /\ Len(u) = 11 /\ u[11] = z
         /\ \A k \in 1 .. 10 : u[k] = y[k]
    <3>1. y \in Seq(Steps) /\ z \in Steps
      BY <1>2, <2>9, <2>10
    <3>2. u = y \o <<z>>
      OBVIOUS
    <3> HIDE DEF u
    <3>3. /\ u \in Seq(Steps) /\ Len(u) = Len(y) + 1
           /\ u[Len(y) + 1] = z
           /\ \A k \in 1 .. Len(y) : u[k] = y[k]
      BY <3>1, <3>2, OneMore
    <3>4. Len(y) = 10
      BY <1>2, <2>9, <2>10
    <3>5. Len(y) + 1 = 11
      BY <3>4
    <3> QED
      BY <3>3, <3>4, <3>5
  <2>12. s = u
    <3>1. s = (((none \o r) \o <<a>>) \o none) \o <<z>>
      BY <1>3, <1>8, <2>2
    <3>2. none \o r = r /\ y \o none = y
      BY <1>1, <2>7, <2>9
    <3> QED
      BY <3>1, <3>2 DEF y
  <2> HIDE DEF u
  <2>13. \A k \in 1 .. 8 : u[k] = q[k]
    BY <2>7, <2>9, <2>11
  <2>14. u[9] = c /\ u[10] = a /\ u[11] = z /\ Len(u) = 11
    BY <2>7, <2>9, <2>11
  <2>15. /\ u[1] = p[1] /\ u[2] = p[2] /\ u[3] = p[3] /\ u[4] = p[4]
         /\ u[5] = p[1] /\ u[6] = p[2] /\ u[7] = p[3] /\ u[8] = p[4]
    BY <2>5, <2>13
  <2>16. /\ Len(s) = 11
         /\ s[1].do = "request" /\ s[2].do = "await ready"
         /\ s[3].do = "withdraw" /\ s[4].do = "await idle"
         /\ s[5].do = "request" /\ s[6].do = "await ready"
         /\ s[7].do = "withdraw" /\ s[8].do = "await idle"
         /\ s[9].do = "checked" /\ s[10].do = "match" /\ s[11].do = "up"
    BY <1>2, <2>1, <2>6, <2>12, <2>14, <2>15
  <2>17. s \in Seq(Steps)
    BY <2>11, <2>12
  <2> QED
    BY <1>8, <2>16, <2>17
<1> QED
  BY <1>6, <1>7, <1>8

\* What a start does: nothing is waited for that was not asked for just before, every
\* request is withdrawn, and the saving of power is turned off before the version is
\* looked at or it is turned on.
LEMMA StartIs ==
    ASSUME Patch!PatchAssumption, kind \in Kinds
    PROVE  LET s == Patch!Config
           IN  /\ s \in Seq(Steps) /\ Len(s) \in Nat /\ s # <<>>
               /\ s[Len(s)].do = "up"
               /\ \A j \in 1 .. Len(s) :
                     /\ s[j].do = "await ready" => j > 1 /\ s[j - 1].do = "request"
                     /\ s[j].do \notin {"load", "save", "lock", "version", "program"}
                     /\ s[j].do = "request" => kind = "check"
                     /\ s[j].do = "checked" => kind = "check"
                     /\ s[j].do = "saving" => Patch!HasSaving
                     /\ s[j].do = "saving" /\ s[j].as = "on" =>
                           kind = "saving" /\ j = 3 /\ s[1] = Sv("off")
                           /\ s[2].do = "match"
                     /\ s[j].do = "match" /\ kind = "key" => j = 2 /\ s[1] = Sv("off")
                     /\ s[j].do \in {"up", "checked"} =>
                           \E k \in 1 .. j - 1 :
                              s[k] \in Withdrawing
                              /\ \A m \in k + 1 .. j - 1 : s[m].do # "request"
                     /\ s[j].do = "up" /\ kind = "key" => j = 3 /\ s[2].do = "match"
<1> DEFINE s == Patch!Config
<1>1. /\ s \in Seq(Steps)
      /\ kind = "saving" =>
            /\ Len(s) = 4 /\ s[1] = Sv("off") /\ s[2] = Patch!Do("match")
            /\ s[3] = Sv("on") /\ s[4] = Patch!Do("up")
      /\ kind = "key" => /\ Len(s) = 3 /\ s[1] = Sv("off") /\ s[2] = Patch!Do("match")
                         /\ s[3] = Patch!Do("up")
      /\ kind \notin {"saving", "key", "check"} =>
            Len(s) = 2 /\ s[1] = Patch!Do("match") /\ s[2] = Patch!Do("up")
      /\ kind = "check" =>
            /\ Len(s) = 11
            /\ s[1].do = "request" /\ s[2].do = "await ready"
            /\ s[3].do = "withdraw" /\ s[4].do = "await idle"
            /\ s[5].do = "request" /\ s[6].do = "await ready"
            /\ s[7].do = "withdraw" /\ s[8].do = "await idle"
            /\ s[9].do = "checked" /\ s[10].do = "match" /\ s[11].do = "up"
  BY ConfigIs
<1> HIDE DEF s
<1>2. s \in Seq(Steps)
  BY <1>1
<1>3. \A j \in 1 .. Len(s) : s[j] \in Steps
  BY <1>2
<1>4. /\ Patch!Do("match").do = "match" /\ Patch!Do("up").do = "up"
      /\ Sv("on").do = "saving" /\ Sv("on").as = "on"
      /\ Sv("off").do = "saving" /\ Sv("off").as = "off"
  BY DEF Patch!Do, Sv
<1>5. kind \in {"check", "saving", "key", "plain"}
  BY DEF Patch!PatchAssumption
<1> DEFINE Good(j) ==
        /\ s[j].do = "await ready" => j > 1 /\ s[j - 1].do = "request"
        /\ s[j].do \notin {"load", "save", "lock", "version", "program"}
        /\ s[j].do = "request" => kind = "check"
        /\ s[j].do = "checked" => kind = "check"
        /\ s[j].do = "saving" => Patch!HasSaving
        /\ s[j].do = "saving" /\ s[j].as = "on" =>
              kind = "saving" /\ j = 3 /\ s[1] = Sv("off") /\ s[2].do = "match"
        /\ s[j].do = "match" /\ kind = "key" => j = 2 /\ s[1] = Sv("off")
        /\ s[j].do \in {"up", "checked"} =>
              \E k \in 1 .. j - 1 :
                 s[k] \in Withdrawing /\ \A m \in k + 1 .. j - 1 : s[m].do # "request"
        /\ s[j].do = "up" /\ kind = "key" => j = 3 /\ s[2].do = "match"
<1> DEFINE Fine == /\ s[Len(s)].do = "up" /\ Len(s) > 0 /\ Len(s) \in Nat
                   /\ \A j \in 1 .. Len(s) : Good(j)
<1>6. ASSUME kind = "saving" PROVE Fine
  <2>1. Len(s) = 4
    BY <1>1, <1>6
  <2>2. /\ s[1].do = "saving" /\ s[1].as = "off" /\ s[2].do = "match"
        /\ s[3].do = "saving" /\ s[3].as = "on" /\ s[4].do = "up" /\ s[1] = Sv("off")
    BY <1>1, <1>4, <1>6
  <2>3. \A j \in 1 .. Len(s) : j = 1 \/ j = 2 \/ j = 3 \/ j = 4
    BY <2>1
  <2>4. 3 \in 1 .. Len(s) /\ 3 \in 1 .. 4 - 1 /\ \A m \in 3 + 1 .. 4 - 1 : FALSE
    BY <2>1
  <2>5. s[3] \in Withdrawing
    BY <1>3, <2>2, <2>4 DEF Withdrawing
  <2>6. Good(1) /\ Good(2) /\ Good(3)
    BY <1>6, <2>2 DEF Patch!HasSaving
  <2>10. \E k \in 1 .. 4 - 1 :
            s[k] \in Withdrawing /\ \A m \in k + 1 .. 4 - 1 : s[m].do # "request"
    BY <2>4, <2>5
  <2>7. Good(4)
    BY <1>6, <2>2, <2>10
  <2> HIDE DEF Good
  <2>8. \A j \in 1 .. Len(s) : Good(j)
    BY <2>3, <2>6, <2>7
  <2>9. s[Len(s)].do = "up" /\ Len(s) > 0 /\ Len(s) \in Nat
    BY <2>1, <2>2
  <2> QED
    BY <2>8, <2>9
<1>7. ASSUME kind = "key" PROVE Fine
  <2>1. Len(s) = 3
    BY <1>1, <1>7
  <2>2. /\ s[1].do = "saving" /\ s[1].as = "off" /\ s[2].do = "match"
        /\ s[3].do = "up" /\ s[1] = Sv("off")
    BY <1>1, <1>4, <1>7
  <2>3. \A j \in 1 .. Len(s) : j = 1 \/ j = 2 \/ j = 3
    BY <2>1
  <2>4. 2 \in 1 .. Len(s) /\ 2 \in 1 .. 3 - 1 /\ \A m \in 2 + 1 .. 3 - 1 : FALSE
    BY <2>1
  <2>5. s[2] \in Withdrawing
    BY <1>3, <1>7, <2>2, <2>4 DEF Withdrawing, Once
  <2>6. Good(1) /\ Good(2)
    BY <1>7, <2>2 DEF Patch!HasSaving
  <2>7. Good(3)
    BY <2>2, <2>4, <2>5
  <2> HIDE DEF Good
  <2>8. \A j \in 1 .. Len(s) : Good(j)
    BY <2>3, <2>6, <2>7
  <2>9. s[Len(s)].do = "up" /\ Len(s) > 0 /\ Len(s) \in Nat
    BY <2>1, <2>2
  <2> QED
    BY <2>8, <2>9
<1>8. ASSUME kind = "plain" PROVE Fine
  <2>1. Len(s) = 2
    BY <1>1, <1>8
  <2>2. s[1].do = "match" /\ s[2].do = "up"
    BY <1>1, <1>4, <1>8
  <2>3. \A j \in 1 .. Len(s) : j = 1 \/ j = 2
    BY <2>1
  <2>4. 1 \in 1 .. Len(s) /\ 1 \in 1 .. 2 - 1 /\ \A m \in 1 + 1 .. 2 - 1 : FALSE
    BY <2>1
  <2>5. s[1] \in Withdrawing
    BY <1>3, <1>8, <2>2, <2>4 DEF Withdrawing, Once
  <2>6. Good(1)
    BY <1>8, <2>2 DEF Patch!HasSaving
  <2>7. Good(2)
    BY <1>8, <2>2, <2>4, <2>5
  <2> HIDE DEF Good
  <2>8. \A j \in 1 .. Len(s) : Good(j)
    BY <2>3, <2>6, <2>7
  <2>9. s[Len(s)].do = "up" /\ Len(s) > 0 /\ Len(s) \in Nat
    BY <2>1, <2>2
  <2> QED
    BY <2>8, <2>9
<1>9. ASSUME kind = "check" PROVE Fine
  <2>1. Len(s) = 11
    BY <1>1, <1>9
  <2>2. /\ s[1].do = "request" /\ s[2].do = "await ready"
        /\ s[3].do = "withdraw" /\ s[4].do = "await idle"
        /\ s[5].do = "request" /\ s[6].do = "await ready"
        /\ s[7].do = "withdraw" /\ s[8].do = "await idle"
        /\ s[9].do = "checked" /\ s[10].do = "match" /\ s[11].do = "up"
    BY <1>1, <1>9
  <2>3. \A j \in 1 .. Len(s) : \/ j = 1 \/ j = 2 \/ j = 3 \/ j = 4 \/ j = 5 \/ j = 6
                               \/ j = 7 \/ j = 8 \/ j = 9 \/ j = 10 \/ j = 11
    BY <2>1
  <2>4. /\ 7 \in 1 .. Len(s) /\ 7 \in 1 .. 9 - 1 /\ 7 \in 1 .. 11 - 1
        /\ \A m \in 7 + 1 .. 9 - 1 : m = 8
        /\ \A m \in 7 + 1 .. 11 - 1 : m = 8 \/ m = 9 \/ m = 10
    BY <2>1
  <2>5. s[7] \in Withdrawing
    BY <1>3, <2>2, <2>4 DEF Withdrawing
  <2>11. 2 - 1 = 1 /\ 6 - 1 = 5 /\ 2 > 1 /\ 6 > 1
    OBVIOUS
  <2>12. Good(2) /\ Good(6)
    BY <1>9, <2>2, <2>11
  <2>13. Good(1) /\ Good(3) /\ Good(4) /\ Good(5) /\ Good(7) /\ Good(8) /\ Good(10)
    BY <1>9, <2>2
  <2>6. /\ Good(1) /\ Good(2) /\ Good(3) /\ Good(4) /\ Good(5) /\ Good(6) /\ Good(7)
        /\ Good(8) /\ Good(10)
    BY <2>12, <2>13
  <2>7. Good(9)
    BY <1>9, <2>2, <2>4, <2>5
  <2>10. Good(11)
    BY <1>9, <2>2, <2>4, <2>5
  <2> HIDE DEF Good
  <2>8. \A j \in 1 .. Len(s) : Good(j)
    BY <2>3, <2>6, <2>7, <2>10
  <2>14. s[11].do = "up"
    BY <2>2
  <2>15. Len(s) > 0 /\ Len(s) \in Nat
    BY <2>1
  <2>9. s[Len(s)].do = "up" /\ Len(s) > 0 /\ Len(s) \in Nat
    BY <2>1, <2>14, <2>15
  <2> QED
    BY <2>8, <2>9
<1>12. Fine
  <2> HIDE DEF Fine
  <2> QED
    BY <1>5, <1>6, <1>7, <1>8, <1>9
<1>10. s[Len(s)].do = "up" /\ Len(s) > 0 /\ Len(s) \in Nat /\ \A j \in 1 .. Len(s) : Good(j)
  BY <1>12
<1>11. s # <<>>
  <2>1. s = <<>> => Len(s) = 0
    OBVIOUS
  <2>2. Len(s) > 0 /\ Len(s) \in Nat
    <3> HIDE DEF Good
    <3> QED
      BY <1>12
  <2> QED
    BY <2>1, <2>2
<1> QED
  BY <1>2, <1>10, <1>11 DEF s

\* A start finds what the version vouches for.
LEMMA StartKeeps ==
    ASSUME Patch!PatchAssumption, PatchTypes, kind' = kind, ~late, Prompt,
           ~phyUp, todo' = Patch!Config,
           UNCHANGED <<ver, code, request, ready, key, saving, phyUp>>
    PROVE  Prompt'
<1> DEFINE s == todo'
<1>1. kind \in Kinds
  BY DEF PatchTypes, Patch!TypeOK
<1>2. /\ s \in Seq(Steps) /\ Len(s) \in Nat /\ s # <<>> /\ s[Len(s)].do = "up"
      /\ \A j \in 1 .. Len(s) :
            /\ s[j].do = "await ready" => j > 1 /\ s[j - 1].do = "request"
            /\ s[j].do \notin {"load", "save", "lock", "version", "program"}
            /\ s[j].do = "request" => kind = "check"
            /\ s[j].do = "checked" => kind = "check"
            /\ s[j].do = "saving" => Patch!HasSaving
            /\ s[j].do = "saving" /\ s[j].as = "on" =>
                  kind = "saving" /\ j = 3 /\ s[1] = Sv("off") /\ s[2].do = "match"
            /\ s[j].do = "match" /\ kind = "key" => j = 2 /\ s[1] = Sv("off")
            /\ s[j].do \in {"up", "checked"} =>
                  \E k \in 1 .. j - 1 :
                     s[k] \in Withdrawing /\ \A m \in k + 1 .. j - 1 : s[m].do # "request"
            /\ s[j].do = "up" /\ kind = "key" => j = 3 /\ s[2].do = "match"
  BY <1>1, StartIs
<1> HIDE DEF s
<1>3. \A j \in 1 .. Len(s) : s[j] \in Steps
  <2>1. s \in Seq(Steps)
    BY <1>2
  <2> QED
    BY <2>1
<1>4. Asked'
  <2>1. ASSUME NEW j \in 1 .. Len(s), s[j] \in Doing({"await ready"})
        PROVE  Since(s, j - 1, Doing({"request"}), Doing({}), request')
    <3>1. j > 1 /\ s[j - 1].do = "request"
      BY <1>2, <2>1 DEF Doing
    <3>2. j - 1 \in 1 .. Len(s) /\ j - 1 \in 1 .. j - 1
      BY <3>1
    <3>3. s[j - 1] \in Doing({"request"})
      BY <1>3, <3>1, <3>2 DEF Doing
    <3>4. \A m \in (j - 1) + 1 .. j - 1 : FALSE
      OBVIOUS
    <3> QED
      BY <3>2, <3>3, <3>4 DEF Since
  <2> QED
    BY <2>1 DEF Asked, Claim, s
<1>5. Ready' /\ Keyed' /\ Brought'
  <2>1. \A j \in 1 .. Len(s) : s[j] \notin Doing({"load", "save"})
                               /\ s[j] \notin Doing({"load"}) /\ s[j] \notin Doing({"version"})
    BY <1>2 DEF Doing
  <2> QED
    BY <2>1 DEF Ready, Keyed, Brought, Claim, s
<1>6. Withdrawn'
  <2>1. ASSUME NEW j \in 1 .. Len(s), s[j] \in Doing({"up", "checked", "version"})
        PROVE  Since(s, j - 1, Withdrawing, NotDoing({"request"}), ~request')
    <3>1. s[j].do \in {"up", "checked"}
      BY <1>2, <2>1 DEF Doing
    <3>2. PICK k \in 1 .. j - 1 :
             s[k] \in Withdrawing /\ \A m \in k + 1 .. j - 1 : s[m].do # "request"
      BY <1>2, <3>1
    <3>3. \A m \in k + 1 .. j - 1 : m \in 1 .. Len(s)
      OBVIOUS
    <3>4. \A m \in k + 1 .. j - 1 : s[m] \in NotDoing({"request"})
      BY <1>3, <3>2, <3>3 DEF NotDoing
    <3> QED
      BY <3>2, <3>4 DEF Since
  <2>2. Claim(s, Doing({"up", "checked", "version"}), Withdrawing, NotDoing({"request"}),
              ~request')
    BY <2>1 DEF Claim
  <2>3. Withdrawing' = Withdrawing /\ Once' = Once
    BY DEF Withdrawing, Once
  <2> QED
    BY <2>2, <2>3 DEF Withdrawn, s
<1>7. Unlocked'
  <2>1. ASSUME NEW j \in 1 .. Len(s), s[j] \in Doing({"up", "version"}), kind = "key"
        PROVE  Since(s, j - 1, Doing({"unlock", "match", "program"}), NotDoing({"lock"}),
                     ~key')
    <3>1. j = 3 /\ s[2].do = "match"
      BY <1>2, <2>1 DEF Doing
    <3>2. 2 \in 1 .. Len(s) /\ 2 \in 1 .. j - 1 /\ \A m \in 2 + 1 .. j - 1 : FALSE
      BY <3>1
    <3>3. s[2] \in Doing({"unlock", "match", "program"})
      BY <1>3, <3>1, <3>2 DEF Doing
    <3> QED
      BY <3>2, <3>3 DEF Since
  <2> QED
    BY <2>1 DEF Unlocked, Claim, s
<1>8. NotOn'
  <2> DEFINE X == SavingTo("off") \cup SaveAs({"none", "off"})
             B == Steps \ (SavingTo("on") \cup SaveAs({"on"}))
  <2>1. ASSUME NEW j \in 1 .. Len(s), s[j] \in SavingTo("on")
        PROVE  Since(s, j - 1, X, B, saving' # "on")
    <3>1. j = 3 /\ s[1] = Sv("off") /\ s[2].do = "match"
      BY <1>2, <2>1 DEF SavingTo
    <3>2. /\ 1 \in 1 .. Len(s) /\ 2 \in 1 .. Len(s) /\ 1 \in 1 .. j - 1
          /\ \A m \in 1 + 1 .. j - 1 : m = 2
      BY <3>1
    <3>3. s[1] \in X /\ s[2] \in B
      BY <1>3, <3>1, <3>2 DEF SavingTo, SaveAs, Sv
    <3> HIDE DEF X, B
    <3> QED
      BY <3>2, <3>3 DEF Since
  <2> QED
    BY <2>1 DEF NotOn, Claim, s
<1>9. IsOff'
  <2> DEFINE X == SavingTo("off") \cup SaveAs({"off"})
             B == NotDoing({"save"})
  <2>1. ASSUME NEW j \in 1 .. Len(s), s[j] \in Doing({"match", "version"}), kind = "key"
        PROVE  Since(s, j - 1, X, B, saving' = "off")
    <3>1. j = 2 /\ s[1] = Sv("off")
      BY <1>2, <2>1 DEF Doing
    <3>2. 1 \in 1 .. Len(s) /\ 1 \in 1 .. j - 1 /\ \A m \in 1 + 1 .. j - 1 : FALSE
      BY <3>1
    <3>3. s[1] \in X
      BY <1>3, <3>1, <3>2 DEF SavingTo, Sv
    <3> HIDE DEF X, B
    <3> QED
      BY <3>2, <3>3 DEF Since
  <2> QED
    BY <2>1 DEF IsOff, Claim, s
<1>10. Over'
  <2>1. Once => \A j \in 1 .. Len(s) : s[j] \notin Doing(Patching)
    BY <1>2 DEF Once, Doing, Patching
  <2> QED
    BY <2>1 DEF Prompt, Over, Once, Claim, s
<1>11. OnlySome'
  <2>1. \A j \in 1 .. Len(s) :
           /\ s[j].do # "lock" /\ s[j].do # "save"
           /\ s[j].do = "checked" => kind = "check"
           /\ s[j].do = "saving" => Patch!HasSaving
           /\ s[j].do = "saving" /\ s[j].as = "on" => kind = "saving"
    BY <1>2
  <2> QED
    BY <2>1 DEF Prompt, OnlySome, Patch!HasSaving, s
<1>12. Ends'
  BY <1>2 DEF Ends, s
<1>13. Patch!CodeComplete' /\ Patch!PatchWithdrawn'
  BY DEF Prompt, Patch!CodeComplete, Patch!PatchWithdrawn
<1> QED
  BY <1>4, <1>5, <1>6, <1>7, <1>8, <1>9, <1>10, <1>11, <1>12, <1>13 DEF Prompt

\* Of no more than turning the saving of power off and one last step nothing is claimed.
LEMMA LittleLeft ==
    ASSUME PatchTypes, kind' = kind, ~late, Prompt, todo' \in Seq(Steps), todo' # <<>>,
           \A j \in 1 .. Len(todo') :
              \/ j # Len(todo') /\ todo'[j] = Sv("off") /\ Patch!HasSaving
              \/ j = Len(todo') /\ todo'[j].do = "down",
           UNCHANGED <<ver, code, request, ready, key, saving, phyUp>>
    PROVE  Prompt'
<1> DEFINE s == todo'
<1>1. \A j \in 1 .. Len(s) : \/ s[j].do = "saving" /\ s[j].as = "off" /\ Patch!HasSaving
                             \/ s[j].do = "down"
  BY DEF Sv
<1>2. s[Len(s)].do = "down"
  <2>1. s \in Seq(Steps) /\ s # <<>>
    OBVIOUS
  <2>2. Len(s) \in 1 .. Len(s)
    BY <2>1
  <2> QED
    BY <2>2
<1> HIDE DEF s
<1>3. \A j \in 1 .. Len(s) :
         /\ s[j] \notin Doing({"await ready"}) /\ s[j] \notin Doing({"load", "save"})
         /\ s[j] \notin Doing({"load"}) /\ s[j] \notin Doing({"version"})
         /\ s[j] \notin Doing({"up", "checked", "version"})
         /\ s[j] \notin Doing({"up", "version"}) /\ s[j] \notin SavingTo("on")
         /\ s[j] \notin Doing({"match", "version"}) /\ s[j] \notin Doing(Patching)
  BY <1>1 DEF Doing, SavingTo, Patching
<1>4. Asked' /\ Ready' /\ Keyed' /\ Brought'
  BY <1>3 DEF Asked, Ready, Keyed, Brought, Claim, s
<1>5. Withdrawn' /\ Unlocked'
  BY <1>3 DEF Withdrawn, Unlocked, Claim, s
<1>6. NotOn' /\ IsOff'
  BY <1>3 DEF NotOn, IsOff, Claim, s
<1>7. Over'
  BY <1>3 DEF Prompt, Over, Once, Claim, s
<1>8. OnlySome'
  BY <1>1 DEF Prompt, OnlySome, Patch!HasSaving, s
<1>9. Ends'
  BY <1>2 DEF Ends, s
<1>10. Patch!CodeComplete' /\ Patch!PatchWithdrawn'
  BY DEF Prompt, Patch!CodeComplete, Patch!PatchWithdrawn
<1> QED
  BY <1>4, <1>5, <1>6, <1>7, <1>8, <1>9, <1>10 DEF Prompt

\* Leaving out the rest of the configuration, where the check of the code failed.
LEMMA JumpKeeps ==
    ASSUME PatchTypes, kind' = kind, ~late, Prompt, todo # <<>>,
           todo[1].do = "checked", todo' = <<Patch!Do("up")>>,
           UNCHANGED <<ver, code, request, ready, key, saving, phyUp>>
    PROVE  Prompt'
<1> DEFINE s == todo'
           h == todo[1]
<1>1. s \in Seq(Steps) /\ Len(s) = 1 /\ s[1].do = "up"
  BY StepsAre, PairIs DEF Names
<1>2. todo \in Seq(Steps) /\ todo # <<>>
  BY DEF PatchTypes
<1>3. h \in Steps /\ 1 \in 1 .. Len(todo)
  BY <1>2
<1>4. kind = "check"
  BY <1>3 DEF Prompt, OnlySome
<1>5. ~request
  <2> DEFINE A == Doing({"up", "checked", "version"})
             B == NotDoing({"request"})
  <2>1. Claim(todo, A, Withdrawing, B, ~request)
    BY <1>4 DEF Prompt, Withdrawn, Once
  <2>2. h \in A
    BY <1>3 DEF Doing
  <2> HIDE DEF A, B
  <2> QED
    BY <1>2, <2>1, <2>2, ClaimTail
<1> HIDE DEF s
<1>6. \A j \in 1 .. Len(s) : j = 1 /\ s[j].do = "up"
  BY <1>1
<1>7. \A j \in 1 .. Len(s) :
         /\ s[j] \notin Doing({"await ready"}) /\ s[j] \notin Doing({"load", "save"})
         /\ s[j] \notin Doing({"load"}) /\ s[j] \notin Doing({"version"})
         /\ s[j] \notin SavingTo("on")
         /\ s[j] \notin Doing({"match", "version"}) /\ s[j] \notin Doing(Patching)
  BY <1>6 DEF Doing, SavingTo, Patching
<1>8. Asked' /\ Ready' /\ Keyed' /\ Brought'
  BY <1>7 DEF Asked, Ready, Keyed, Brought, Claim, s
<1>9. Withdrawn' /\ Unlocked'
  <2>1. \A j \in 1 .. Len(s) : \A X, B : Since(s, j - 1, X, B, ~request')
    BY <1>5, <1>6 DEF Since
  <2> QED
    BY <1>4, <2>1 DEF Withdrawn, Unlocked, Claim, s
<1>10. NotOn' /\ IsOff'
  BY <1>7 DEF NotOn, IsOff, Claim, s
<1>11. Over'
  BY <1>4 DEF Over, Once
<1>12. OnlySome'
  BY <1>6 DEF Prompt, OnlySome, Patch!HasSaving, s
<1>13. Ends'
  BY <1>1 DEF Ends, s
<1>14. Patch!CodeComplete' /\ Patch!PatchWithdrawn'
  <2>1. s # <<>>
    <3>1. s = <<>> => Len(s) = 0
      OBVIOUS
    <3> QED
      BY <1>1, <3>1
  <2> QED
    BY <2>1 DEF Prompt, Patch!CodeComplete, Patch!PatchWithdrawn, s
<1> QED
  BY <1>8, <1>9, <1>10, <1>11, <1>12, <1>13, <1>14 DEF Prompt

\* A patch of the program is a sequence of steps.
LEMMA NextAreSteps ==
    ASSUME Patch!PatchAssumption, NEW c \in 1 .. Chunks
    PROVE  Patch!Patch(Patch!Load(c)) \o
               (IF c = Chunks THEN <<>> ELSE <<Patch!From(c + 1)>>) \in Seq(Steps)
<1>1. PICK t \in Seq(Steps), n \in Nat : OnePatch(c, t, n)
  BY NextIs
<1>2. t = Patch!Patch(Patch!Load(c)) \o
              (IF c = Chunks THEN <<>> ELSE <<Patch!From(c + 1)>>)
  BY <1>1 DEF OnePatch
<1> QED
  BY <1>2

\* Whatever the driver does, what is left to do is a sequence of its steps.
LEMMA StepTypes ==
    ASSUME Patch!PatchAssumption, PatchTypes, Patch!Step
    PROVE  PatchTypes'
<1> USE DEF Patch!Done, Patch!phy, Patch!Next1
<1>1. todo # <<>> /\ kind' = kind /\ todo \in Seq(Steps) /\ Patch!TypeOK
  BY DEF Patch!Step, Patch!SetRequest, Patch!ClearRequest, Patch!Await, Patch!AcquireKey,
     Patch!ReleaseKey, Patch!LoadWord, Patch!Save, Patch!ReadSaving, Patch!MatchVersion,
     Patch!NextPatch, Patch!WriteVersion, Patch!Checked, Patch!Finish, PatchTypes
<1>2. Head(todo) \in Steps /\ Tail(todo) \in Seq(Steps)
  BY <1>1
<1>3. ASSUME NEW t \in Seq(Steps) PROVE t \o Tail(todo) \in Seq(Steps)
  BY <1>2
<1>4. <<>> \in Seq(Steps)
  OBVIOUS
<1>5. CASE \/ Patch!SetRequest \/ Patch!ClearRequest \/ Patch!Await \/ Patch!AcquireKey
           \/ Patch!ReleaseKey \/ Patch!WriteVersion \/ Patch!Finish
  BY <1>1, <1>2, <1>5 DEF Patch!SetRequest, Patch!ClearRequest, Patch!Await,
     Patch!AcquireKey, Patch!ReleaseKey, Patch!WriteVersion, Patch!Finish, PatchTypes,
     Patch!TypeOK
<1>6. CASE Patch!LoadWord
  <2>1. code' \in [Patch!Program -> {"rom", "other", "ours"}]
    BY <1>1, <1>6 DEF Patch!LoadWord, Patch!TypeOK
  <2>2. todo' = Tail(todo) /\ UNCHANGED <<kind, ver, request, ready, key, saving, late, phyUp>>
    BY <1>6 DEF Patch!LoadWord
  <2> QED
    BY <1>1, <1>2, <2>1, <2>2 DEF PatchTypes, Patch!TypeOK, Patch!Program
<1>7. CASE Patch!Save
  <2>1. Head(todo).as \in {"none", "off", "on"}
    BY <1>2, <1>7, StepKinds DEF Patch!Save
  <2> QED
    BY <1>1, <1>2, <1>7, <2>1 DEF Patch!Save, PatchTypes, Patch!TypeOK, Patch!Program
<1>8. CASE Patch!ReadSaving
  <2>1. Head(todo).as \in {"off", "on"}
    BY <1>2, <1>8, StepKinds DEF Patch!ReadSaving
  <2>2. Patch!SetSaving(Head(todo).as) \in Seq(Steps)
    BY <2>1, SavingIs
  <2>3. todo' \in Seq(Steps)
    BY <1>3, <1>4, <1>8, <2>2 DEF Patch!ReadSaving
  <2> QED
    BY <1>1, <1>8, <2>3 DEF Patch!ReadSaving, PatchTypes, Patch!TypeOK, Patch!Program
<1>9. CASE Patch!MatchVersion
  <2>1. Patch!Download \in Seq(Steps)
    <3>1. 1 \in 1 .. Chunks
      BY DEF Patch!PatchAssumption
    <3>2. Patch!From(1) \in Steps /\ Patch!Do("version") \in Steps
      BY <3>1, StepsAre DEF Names
    <3> QED
      BY <3>2, PairIs DEF Patch!Download
  <2>2. todo' \in Seq(Steps)
    BY <1>3, <1>4, <1>9, <2>1 DEF Patch!MatchVersion
  <2> QED
    BY <1>1, <1>9, <2>2 DEF Patch!MatchVersion, PatchTypes, Patch!TypeOK, Patch!Program
<1>10. CASE Patch!NextPatch
  <2> DEFINE c == Head(todo).from
             t == Patch!Patch(Patch!Load(c)) \o
                      (IF c = Chunks THEN <<>> ELSE <<Patch!From(c + 1)>>)
  <2>1. c \in 1 .. Chunks
    BY <1>2, <1>10, StepKinds DEF Patch!NextPatch
  <2>2. t \in Seq(Steps)
    <3> HIDE DEF c
    <3> QED
      BY <2>1, NextAreSteps
  <2>3. todo' = t \o Tail(todo)
    BY <1>10 DEF Patch!NextPatch
  <2> HIDE DEF t
  <2>4. todo' \in Seq(Steps)
    BY <1>3, <2>2, <2>3
  <2> QED
    BY <1>1, <1>10, <2>4 DEF Patch!NextPatch, PatchTypes, Patch!TypeOK, Patch!Program
<1>11. CASE Patch!Checked
  <2>1. <<Patch!Do("up")>> \in Seq(Steps)
    BY StepsAre, PairIs DEF Names
  <2>2. todo' \in Seq(Steps)
    BY <1>2, <1>11, <2>1 DEF Patch!Checked
  <2> QED
    BY <1>1, <1>11, <2>2 DEF Patch!Checked, PatchTypes, Patch!TypeOK, Patch!Program
<1> QED
  BY <1>5, <1>6, <1>7, <1>8, <1>9, <1>10, <1>11 DEF Patch!Step

\* Of a driver that has nothing left to do nothing is claimed.
LEMMA NothingLeft ==
    ASSUME PatchTypes', todo' = <<>>, kind' # "key" => ~key',
           kind' \in {"key", "plain"} /\ ver' = "ours" =>
               ~request' /\ ~key' /\ (kind' = "key" => saving' = "off"),
           ~phyUp', Patch!CodeComplete'
    PROVE  Prompt'
<1>1. \A j \in 1 .. Len(todo') : FALSE
  <2>1. Len(todo') = 0
    OBVIOUS
  <2> QED
    BY <2>1
<1>2. Asked' /\ Ready' /\ Keyed' /\ Brought' /\ Withdrawn' /\ Unlocked' /\ NotOn' /\ IsOff'
  BY <1>1 DEF Asked, Ready, Keyed, Brought, Withdrawn, Unlocked, NotOn, IsOff, Claim
<1>3. Over'
  BY <1>1 DEF Over, Once, Claim
<1>4. OnlySome' /\ Ends' /\ Patch!PatchWithdrawn'
  BY <1>1 DEF OnlySome, Ends, Patch!PatchWithdrawn
<1> QED
  BY <1>2, <1>3, <1>4 DEF Prompt

\* Init gives the invariant.
LEMMA NothingLeftAtFirst ==
    ASSUME Patch!PatchAssumption, Patch!Init
    PROVE  PatchInv
<1>1. PatchTypes
  <2>1. <<>> \in Seq(Steps)
    OBVIOUS
  <2> QED
    BY <2>1 DEF PatchTypes, Patch!Init, Patch!TypeOK, Patch!Blank, Patch!HasSaving,
       Patch!PatchAssumption
<1>2. \A j \in 1 .. Len(todo) : FALSE
  <2>1. Len(todo) = 0
    BY DEF Patch!Init
  <2> QED
    BY <2>1
<1>3. Asked /\ Ready /\ Keyed /\ Brought /\ Withdrawn /\ Unlocked /\ NotOn /\ IsOff
  BY <1>2 DEF Asked, Ready, Keyed, Brought, Withdrawn, Unlocked, NotOn, IsOff, Claim
<1>4. ver # "ours" /\ ~key /\ ~request /\ ~phyUp /\ todo = <<>>
  BY DEF Patch!Init
<1>5. Over
  BY <1>2, <1>4 DEF Over, Once, Claim
<1>6. OnlySome /\ Ends /\ Patch!PatchWithdrawn /\ Patch!CodeComplete
  BY <1>2, <1>4 DEF OnlySome, Ends, Patch!PatchWithdrawn, Patch!CodeComplete
<1> QED
  BY <1>1, <1>3, <1>5, <1>6 DEF PatchInv, Prompt

\* The PHY has answered.
LEMMA AnswerKeeps ==
    ASSUME PatchTypes, ~late, Prompt, Patch!Answer
    PROVE  Prompt'
<1>1. /\ ready' = request
      /\ UNCHANGED <<kind, ver, code, request, key, saving, late, todo, phyUp>>
  BY DEF Patch!Answer
<1>2. Asked' /\ Keyed' /\ Brought' /\ NotOn' /\ IsOff'
  BY <1>1 DEF Prompt, Asked, Keyed, Brought, NotOn, IsOff
<1>3. Withdrawn' /\ Unlocked' /\ Over'
  BY <1>1 DEF Prompt, Withdrawn, Withdrawing, Unlocked, Over, Once
<1>4. Ready'
  <2> DEFINE A == Doing({"load", "save"})
             X == Doing({"await ready"})
             B == Doing({"load", "save", "lock", "unlock"})
  <2>1. Claim(todo, A, X, B, request /\ ready)
    BY DEF Prompt, Ready
  <2> HIDE DEF A, X, B
  <2>2. Claim(todo, A, X, B, request' /\ ready')
    BY <1>1, <2>1 DEF Claim, Since
  <2> QED
    BY <1>1, <2>2 DEF Ready, A, X, B
<1>5. OnlySome' /\ Ends' /\ Patch!CodeComplete' /\ Patch!PatchWithdrawn'
  BY <1>1 DEF Prompt, OnlySome, Ends, Patch!CodeComplete, Patch!PatchWithdrawn,
     Patch!HasSaving
<1> QED
  BY <1>2, <1>3, <1>4, <1>5 DEF Prompt

\* A step of the driver or of the PHY keeps the invariant.
LEMMA NextPatchInv ==
    ASSUME Patch!PatchAssumption, PatchInv, [Patch!Next]_(Patch!vars)
    PROVE  PatchInv'
<1> USE DEF Patch!phy
<1>0. PatchTypes /\ (late \/ Prompt)
  BY DEF PatchInv
<1>1. CASE Patch!Step
  <2>1. PatchTypes'
    BY <1>0, <1>1, StepTypes
  <2>2. late \in BOOLEAN
    BY <1>0 DEF PatchTypes, Patch!TypeOK
  <2>3. /\ todo # <<>> /\ kind' = kind
        /\ late' \/ 
           /\ ~late
           /\ \/ Pops
              \/ /\ todo[1].do = "checked" /\ todo' = <<Patch!Do("up")>>
                 /\ UNCHANGED <<ver, code, request, ready, key, saving, phyUp>>
              \/ \E v \in {"off", "on"} :
                    /\ todo[1].do = "saving" /\ todo[1].as = v /\ saving # v
                    /\ Pushes(Patch!SetSaving(v))
              \/ todo[1].do = "match" /\ ver # "ours" /\ Pushes(Patch!Download)
              \/ \E c \in 1 .. Chunks :
                    /\ todo[1].do = "program" /\ todo[1].from = c
                    /\ Pushes(Patch!Patch(Patch!Load(c)) \o
                              (IF c = Chunks THEN <<>> ELSE <<Patch!From(c + 1)>>))
    BY <1>0, <1>1, StepForms
  <2>4. CASE late'
    BY <2>1, <2>4 DEF PatchInv
  <2>5. CASE ~late'
    <3>1. ~late /\ Prompt
      BY <1>0, <2>3, <2>5
    <3>2. CASE Pops
      BY <1>0, <2>1, <2>3, <3>1, <3>2, PopKeeps DEF PatchInv
    <3>3. CASE /\ todo[1].do = "checked" /\ todo' = <<Patch!Do("up")>>
               /\ UNCHANGED <<ver, code, request, ready, key, saving, phyUp>>
      BY <1>0, <2>1, <2>3, <3>1, <3>3, JumpKeeps DEF PatchInv
    <3>4. CASE \E v \in {"off", "on"} :
                    /\ todo[1].do = "saving" /\ todo[1].as = v /\ saving # v
                    /\ Pushes(Patch!SetSaving(v))
      BY <1>0, <2>1, <2>3, <3>1, <3>4, PushSaving DEF PatchInv
    <3>5. CASE todo[1].do = "match" /\ ver # "ours" /\ Pushes(Patch!Download)
      BY <1>0, <2>1, <2>3, <3>1, <3>5, PushDownload DEF PatchInv
    <3>6. CASE \E c \in 1 .. Chunks :
                    /\ todo[1].do = "program" /\ todo[1].from = c
                    /\ Pushes(Patch!Patch(Patch!Load(c)) \o
                              (IF c = Chunks THEN <<>> ELSE <<Patch!From(c + 1)>>))
      BY <1>0, <2>1, <2>3, <3>1, <3>6, PushProgram DEF PatchInv
    <3> QED
      BY <2>3, <2>5, <3>2, <3>3, <3>4, <3>5, <3>6
  <2> QED
    BY <2>4, <2>5
<1>2. CASE Patch!Start
  <2>1. /\ ~phyUp /\ todo' = Patch!Config /\ kind' = kind /\ late' = late
        /\ UNCHANGED <<ver, code, request, ready, key, saving, phyUp>>
    BY <1>2 DEF Patch!Start
  <2>2. PatchTypes'
    <3>1. kind \in Kinds
      BY <1>0 DEF PatchTypes, Patch!TypeOK
    <3>2. Patch!Config \in Seq(Steps)
      BY <3>1, StartIs
    <3> QED
      BY <1>0, <2>1, <3>2 DEF PatchTypes, Patch!TypeOK, Patch!Program
  <2> QED
    BY <1>0, <2>1, <2>2, StartKeeps DEF PatchInv
<1>3. CASE Patch!Stop
  <2> DEFINE z == Patch!Do("down")
  <2>1. /\ kind' = kind /\ late' = late
        /\ UNCHANGED <<ver, code, request, ready, key, saving, phyUp>>
    BY <1>3 DEF Patch!Stop
  <2>2. Sv("off") \in Steps /\ z \in Steps /\ z.do = "down"
    BY StepsAre DEF Sv, Names
  <2>3. /\ todo' \in Seq(Steps) /\ todo' # <<>>
        /\ \A j \in 1 .. Len(todo') :
              \/ j # Len(todo') /\ todo'[j] = Sv("off") /\ Patch!HasSaving
              \/ j = Len(todo') /\ todo'[j].do = "down"
    <3>1. \/ todo' = <<z>>
          \/ Patch!HasSaving /\ todo' = <<Sv("off")>> \o <<z>>
      <4>1. <<>> \o <<z>> = <<z>>
        BY <2>2
      <4> QED
        BY <1>3, <4>1 DEF Patch!Stop, Sv
    <3> HIDE DEF z
    <3>2. CASE todo' = <<z>>
      <4>1. <<z>> \in Seq(Steps) /\ Len(<<z>>) = 1 /\ <<z>>[1] = z
        BY <2>2, PairIs
      <4>2. todo' # <<>>
        BY <3>2
      <4> QED
        BY <2>2, <3>2, <4>1, <4>2
    <3>3. CASE Patch!HasSaving /\ todo' = <<Sv("off")>> \o <<z>>
      <4>1. <<Sv("off")>> \in Seq(Steps) /\ Len(<<Sv("off")>>) = 1
            /\ <<Sv("off")>>[1] = Sv("off")
        BY <2>2, PairIs
      <4>2. /\ todo' \in Seq(Steps) /\ Len(todo') = Len(<<Sv("off")>>) + 1
            /\ todo'[Len(<<Sv("off")>>) + 1] = z
            /\ \A k \in 1 .. Len(<<Sv("off")>>) : todo'[k] = <<Sv("off")>>[k]
        BY <2>2, <3>3, <4>1, OneMore
      <4>3. Len(todo') = 2 /\ todo'[2] = z /\ todo'[1] = Sv("off")
        BY <4>1, <4>2
      <4>4. \A j \in 1 .. Len(todo') : j = 1 \/ j = 2
        BY <4>3
      <4>5. todo' # <<>>
        <5>1. todo' = <<>> => Len(todo') = 0
          OBVIOUS
        <5> QED
          BY <4>3, <5>1
      <4> QED
        BY <2>2, <3>3, <4>2, <4>3, <4>4, <4>5
    <3> QED
      BY <3>1, <3>2, <3>3
  <2>4. PatchTypes'
    BY <1>0, <2>1, <2>3 DEF PatchTypes, Patch!TypeOK, Patch!Program
  <2> QED
    BY <1>0, <2>1, <2>3, <2>4, LittleLeft DEF PatchInv
<1>4. CASE Patch!Answer
  <2>1. PatchTypes' /\ late' = late
    BY <1>0, <1>4 DEF Patch!Answer, PatchTypes, Patch!TypeOK, Patch!Program
  <2> QED
    BY <1>0, <1>4, <2>1, AnswerKeeps DEF PatchInv
<1>5. CASE Patch!Crash
  <2>1. /\ todo' = <<>> /\ ~phyUp' /\ phyUp' = FALSE
        /\ UNCHANGED <<kind, ver, code, request, ready, key, saving, late>>
    BY <1>5 DEF Patch!Crash
  <2>2. PatchTypes'
    <3>1. <<>> \in Seq(Steps)
      OBVIOUS
    <3> QED
      BY <1>0, <2>1, <3>1 DEF PatchTypes, Patch!TypeOK, Patch!Program
  <2>3. ASSUME Prompt PROVE Prompt'
    <3>1. kind' # "key" => ~key'
      BY <2>1, <2>3 DEF Prompt, OnlySome
    <3>2. kind' \in {"key", "plain"} /\ ver' = "ours" =>
               ~request' /\ ~key' /\ (kind' = "key" => saving' = "off")
      BY <2>1, <2>3 DEF Prompt, Over, Once
    <3>3. Patch!CodeComplete'
      BY <2>1, <2>3 DEF Prompt, Patch!CodeComplete
    <3> QED
      BY <2>1, <2>2, <3>1, <3>2, <3>3, NothingLeft
  <2> QED
    BY <1>0, <2>1, <2>2, <2>3 DEF PatchInv
<1>6. CASE Patch!PowerLoss
  <2>1. /\ todo' = <<>> /\ phyUp' = FALSE /\ ver' = "none" /\ code' = Patch!Blank
        /\ saving' = "none" /\ request' = FALSE /\ ready' = FALSE /\ key' = FALSE
        /\ late' = FALSE /\ kind' = kind
    BY <1>6 DEF Patch!PowerLoss
  <2>2. PatchTypes'
    <3>1. <<>> \in Seq(Steps)
      OBVIOUS
    <3> QED
      BY <1>0, <2>1, <3>1 DEF PatchTypes, Patch!TypeOK, Patch!Program, Patch!Blank
  <2>3. Patch!CodeComplete'
    BY <2>1 DEF Patch!CodeComplete
  <2>4. Prompt'
    BY <2>1, <2>2, <2>3, NothingLeft
  <2> QED
    BY <2>2, <2>4 DEF PatchInv
<1>7. CASE UNCHANGED Patch!vars
  <2>1. UNCHANGED <<kind, ver, code, request, ready, key, saving, todo, phyUp, late>>
    BY <1>7 DEF Patch!vars
  <2>2. PatchTypes' /\ late' = late
    BY <1>0, <2>1 DEF PatchTypes, Patch!TypeOK, Patch!Program
  <2>3. Prompt => Prompt'
    BY <2>1 DEF Prompt, Asked, Ready, Keyed, Brought, Withdrawn, Withdrawing, Unlocked,
       NotOn, IsOff, Over, Once, OnlySome, Ends, Patch!CodeComplete, Patch!PatchWithdrawn,
       Patch!HasSaving
  <2> QED
    BY <1>0, <2>2, <2>3 DEF PatchInv
<1> QED
  BY <1>1, <1>2, <1>3, <1>4, <1>5, <1>6, <1>7 DEF Patch!Next

\* CodeComplete and PatchWithdrawn, with the types: for any number of patches and words,
\* wherever the machine crashed or the PHY lost its power.
THEOREM PatchIsSound == Spec => []PatchSound
<1>1. Init => PatchInv
  BY NothingLeftAtFirst, InitOfEach, ComponentsAssumption
<1>2. PatchInv /\ [Next]_vars => PatchInv'
  BY NextPatchInv, StepOfEach, ComponentsAssumption
<1>3. PatchInv => PatchSound
  BY DEF PatchInv, PatchTypes, Prompt, PatchSound, Patch!CodeComplete,
     Patch!PatchWithdrawn
<1> QED
  BY <1>1, <1>2, <1>3, PTL DEF Spec

==============================================================================
