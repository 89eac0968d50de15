------------------------------- MODULE PhyPatch -------------------------------
(* The code the driver loads into the PHY's microcontroller (if_re.c):           *)
(* re_hw_phy_config, which device preparation and every D0 entry call, with      *)
(* re_init_hw_phy_mcu, the patch request and its limited polls, the patch key,   *)
(* and the power saving register that is written under the same request.         *)
(*                                                                               *)
(* The PHY keeps its registers and code over a D3 and over a restart of the      *)
(* machine, and loses both with its power.  The driver may stop between any two  *)
(* accesses: a bug check, or a hard reset by the user.                           *)
EXTENDS Naturals, Sequences

CONSTANTS
    Kinds,      \* which chips: "check" MACFG_56, "saving" MACFG_59 to 76 that have the
                \* power saving register, "key" MACFG_80 and 81, "plain" the others
    Chunks,     \* how often the program asks the PHY for a patch
    Words,      \* writes of the program under each request
    Slow        \* the PHY may take longer than the driver polls

\* The constants.
PatchAssumption ==
    /\ Kinds \subseteq {"check", "saving", "key", "plain"}
    /\ Chunks \in Nat \ {0} /\ Words \in Nat \ {0} /\ Slow \in BOOLEAN

VARIABLES
    kind,       \* sc->re_type, as far as the code tells it apart here
    ver,        \* the version register at 0x801E: "none", "other" or "ours"
    code,       \* whose each word of the program is: "rom", "other" or "ours"
    request,    \* BIT_4 of 0xB820: the driver wants to patch
    ready,      \* BIT_6 of 0xB800: the PHY lets it
    key,        \* the patch key is in place
    saving,     \* the power saving register: "none", "off" 0x0500, "on" 0x0050
    todo,       \* what the driver still has to do, <<>> when it is elsewhere
    up,         \* the device is started
    late        \* a poll gave up since the PHY last had its ROM's code

phy == <<ver, code, request, ready, key, saving, late>>
vars == <<kind, phy, todo, up>>

Program == (1..Chunks) \X (1..Words)

-----------------------------------------------------------------------------
(* What the driver does, as sequences of steps.                                  *)

Do(what) == [do |-> what]

\* A patch: re_set_phy_mcu_patch_request, the body, re_clear_phy_mcu_patch_request.
Patch(body) == <<Do("request"), Do("await ready")>> \o body
               \o <<Do("withdraw"), Do("await idle")>>

\* re_enable_ and re_disable_ocp_phy_power_saving, when the register is not as wanted.
SetSaving(v) == Patch(<<[do |-> "save", as |-> "none"], [do |-> "save", as |-> v]>>)

\* re_set_phy_mcu_ram_code, between the patch key's lock where the chip has one.
Load(c) ==
    LET words == [w \in 1..Words |-> [do |-> "load", word |-> <<c, w>>]]
    IN  IF kind = "key" THEN <<Do("lock")>> \o words \o <<Do("unlock")>> ELSE words

\* What is left of the program from the c-th patch on.
From(c) == [do |-> "program", from |-> c]

\* Faulty variant: the version is written before the code.
DownloadVersionFirst == <<Do("version"), From(1)>>

\* One of the re_set_phy_mcu_* programs and re_write_hw_phy_mcu_code_ver.
Download == <<From(1), Do("version")>>

\* re_phy_ram_code_check.
RamCodeCheck == Patch(<<>>) \o Patch(<<>>) \o <<Do("checked")>>

HasSaving == kind \in {"saving", "key"}

\* re_hw_phy_config.
Config ==
    (IF HasSaving THEN <<[do |-> "saving", as |-> "off"]>> ELSE <<>>)
    \o (IF kind = "check" THEN RamCodeCheck ELSE <<>>)
    \o <<Do("match")>>
    \o (IF kind = "saving" THEN <<[do |-> "saving", as |-> "on"]>> ELSE <<>>)
    \o <<Do("up")>>

-----------------------------------------------------------------------------

Blank == [x \in Program |-> "rom"]

\* The PHY as its power came on, or as another version of the driver left it.
Init ==
    /\ kind \in Kinds
    /\ \/ ver = "none" /\ code = Blank /\ saving = "none"
       \/ /\ ver = "other" /\ code = [x \in Program |-> "other"]
          /\ saving \in IF HasSaving THEN {"off", "on"} ELSE {"none"}
    /\ request = FALSE /\ ready = FALSE /\ key = FALSE /\ late = FALSE
    /\ todo = <<>> /\ up = FALSE

\* EvtDevicePrepareHardware or EvtDeviceD0Entry.
Start ==
    /\ ~up /\ todo = <<>>
    /\ todo' = Config
    /\ UNCHANGED <<kind, phy, up>>

\* EvtDeviceD0Exit: re_hw_d3_para, or nothing before the device is removed.
Stop ==
    /\ up /\ todo = <<>>
    /\ todo' = (IF HasSaving THEN <<[do |-> "saving", as |-> "off"]>> ELSE <<>>)
               \o <<Do("down")>>
       \/ todo' = <<Do("down")>>
    /\ UNCHANGED <<kind, phy, up>>

Next1(what) == todo # <<>> /\ Head(todo).do = what
Done == todo' = Tail(todo)

SetRequest ==
    /\ Next1("request") /\ request' = TRUE /\ Done
    /\ UNCHANGED <<kind, ver, code, ready, key, saving, late, up>>

ClearRequest ==
    /\ Next1("withdraw") /\ request' = FALSE /\ Done
    /\ UNCHANGED <<kind, ver, code, ready, key, saving, late, up>>

\* The poll of the PHY's answer ends with it, or at its limit, and nobody asks which.
Await ==
    /\ Next1("await ready") \/ Next1("await idle")
    /\ \/ ready = Next1("await ready") /\ UNCHANGED late
       \/ ready # Next1("await ready") /\ Slow /\ late' = TRUE
    /\ Done
    /\ UNCHANGED <<kind, ver, code, request, ready, key, saving, up>>

AcquireKey ==
    /\ Next1("lock") /\ key' = TRUE /\ Done
    /\ UNCHANGED <<kind, ver, code, request, ready, saving, late, up>>

ReleaseKey ==
    /\ Next1("unlock") /\ key' = FALSE /\ Done
    /\ UNCHANGED <<kind, ver, code, request, ready, saving, late, up>>

\* A PHY that is not ready, or locked, takes no word.
LoadWord ==
    /\ Next1("load") /\ Done
    /\ code' = IF ready /\ (kind = "key" => key)
               THEN [code EXCEPT ![Head(todo).word] = "ours"] ELSE code
    /\ UNCHANGED <<kind, ver, request, ready, key, saving, late, up>>

Save ==
    /\ Next1("save") /\ Done
    /\ saving' = IF ready THEN Head(todo).as ELSE saving
    /\ UNCHANGED <<kind, ver, code, request, ready, key, late, up>>

\* The power saving register is read first.
ReadSaving ==
    /\ Next1("saving")
    /\ todo' = (IF saving = Head(todo).as THEN <<>> ELSE SetSaving(Head(todo).as))
               \o Tail(todo)
    /\ UNCHANGED <<kind, phy, up>>

\* re_hw_phy_mcu_code_ver_matched.
MatchVersion ==
    /\ Next1("match")
    /\ todo' = (IF ver = "ours" THEN <<>> ELSE Download) \o Tail(todo)
    /\ UNCHANGED <<kind, phy, up>>

\* The program goes on with its next patch.
NextPatch ==
    /\ Next1("program")
    /\ LET c == Head(todo).from IN
       todo' = Patch(Load(c)) \o (IF c = Chunks THEN <<>> ELSE <<From(c + 1)>>) \o Tail(todo)
    /\ UNCHANGED <<kind, phy, up>>

WriteVersion ==
    /\ Next1("version") /\ ver' = "ours" /\ Done
    /\ UNCHANGED <<kind, code, request, ready, key, saving, late, up>>

\* The check of MACFG_56 fails: the rest of re_hw_phy_config is left out.
Checked ==
    /\ Next1("checked")
    /\ Done \/ todo' = <<Do("up")>>
    /\ UNCHANGED <<kind, phy, up>>

Finish ==
    /\ Next1("up") \/ Next1("down")
    /\ up' = Next1("up") /\ Done
    /\ UNCHANGED <<kind, phy>>

Step == \/ SetRequest \/ ClearRequest \/ Await \/ AcquireKey \/ ReleaseKey \/ LoadWord
        \/ Save \/ ReadSaving \/ MatchVersion \/ NextPatch \/ WriteVersion \/ Checked
        \/ Finish

\* External: the PHY answers the request, or its end.
Answer ==
    /\ ready # request /\ ready' = request
    /\ UNCHANGED <<kind, ver, code, request, key, saving, late, todo, up>>

\* The machine stops and starts again with the PHY as it was.
Crash ==
    /\ todo' = <<>> /\ up' = FALSE /\ UNCHANGED <<kind, phy>>

\* The PHY loses its power.
PowerLoss ==
    /\ todo' = <<>> /\ up' = FALSE
    /\ ver' = "none" /\ code' = Blank /\ saving' = "none"
    /\ request' = FALSE /\ ready' = FALSE /\ key' = FALSE /\ late' = FALSE
    /\ UNCHANGED kind

Next == Start \/ Stop \/ Step \/ Answer \/ Crash \/ PowerLoss

Spec == Init /\ [][Next]_vars

-----------------------------------------------------------------------------
(* Properties.                                                                   *)

TypeOK ==
    /\ kind \in Kinds
    /\ ver \in {"none", "other", "ours"}
    /\ code \in [Program -> {"rom", "other", "ours"}]
    /\ request \in BOOLEAN /\ ready \in BOOLEAN /\ key \in BOOLEAN
    /\ saving \in {"none", "off", "on"}
    /\ up \in BOOLEAN /\ late \in BOOLEAN

\* A PHY with the driver's version has all of the driver's code, wherever the driver
\* was stopped and whatever it was stopped in, unless a poll gave up: the next start
\* trusts the version and loads nothing.
CodeComplete ==
    ver = "ours" /\ ~late => \A x \in Program : code[x] = "ours"

\* A started device has left neither the request nor the key in place, even when the
\* driver was stopped inside a patch and the next start finds its version, unless a
\* poll gave up.
PatchWithdrawn == up /\ todo = <<>> /\ ~late => ~request /\ ~key

=============================================================================
