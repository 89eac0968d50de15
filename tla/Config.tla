-------------------------------- MODULE Config --------------------------------
(* Settings and addresses (configuration.cpp, device.cpp, power.cpp): what       *)
(* RtAdapterReadConfiguration makes of the registry, re_get_hw_mac_address of    *)
(* the chip, and what becomes of the station address register over starts,      *)
(* power changes, removals and crashes.                                          *)
EXTENDS Naturals

CONSTANTS
    Sources,    \* where a chip's permanent address comes from: "backup" its ERI or
                \* backup register, "eeprom", or "idr" the station address itself
    Keys        \* the settings the user changes in this model

Missing == 99999     \* no such value in the registry
Unset == "unset"     \* no NetworkAddress in it

\* RtSupportedProperties.
Property ==
    [k \in {"*SpeedDuplex", "*FlowControl", "*RegVlanid", "*EEE"} |->
        CASE k = "*SpeedDuplex" -> [default |-> 0, min |-> 0, max |-> 6]
          [] k = "*FlowControl" -> [default |-> 3, min |-> 0, max |-> 3]
          [] k = "*RegVlanid"   -> [default |-> 0, min |-> 0, max |-> 4095]
          [] k = "*EEE"         -> [default |-> 1, min |-> 0, max |-> 1]]

\* The settings if_re.inx offers, with the values of a user who likes extremes.
Offered ==
    [k \in {"*SpeedDuplex", "*FlowControl", "RegVlanid", "*EEE"} |->
        CASE k = "*SpeedDuplex" -> {0, 6, 7}
          [] k = "*FlowControl" -> {0, 3, 4}
          [] k = "RegVlanid"    -> {0, 4094, 4095, 4096}
          [] k = "*EEE"         -> {0, 1, 2}]

\* The constants.
ConfigAssumption ==
    Sources \subseteq {"backup", "eeprom", "idr"} /\ Keys \subseteq DOMAIN Offered

\* Addresses: none, the chip's own, one the user may set, one nobody can have, and
\* the one the driver makes up.
Addresses == {"zero", "own", "user", "group", "random"}
Valid(a) == a \notin {"zero", "group"}

VARIABLES
    source,     \* where this chip has its address
    idr,        \* the station address register
    registry,   \* the settings in the registry
    field,      \* those the adapter structure has
    network,    \* NetworkAddress in the registry
    permanent,  \* PermanentAddress
    current,    \* CurrentAddress
    override,   \* OverrideAddress
    given,      \* what NetAdapterCx was told the current address is
    pnp,        \* "none", "D0" or "D3"
    running,    \* the chip was reset with a receive and a transmit queue since D0
    opened,     \* the configuration could be opened at this start
    dirty       \* the machine stopped under the driver since the chip had power

adapter == <<field, permanent, current, override>>
vars == <<source, idr, registry, network, adapter, given, pnp, running, opened, dirty>>

-----------------------------------------------------------------------------

NoSettings == [k \in DOMAIN Property |-> 0]

\* The device context is allocated again, and zeroed.
NewAdapter ==
    /\ field' = NoSettings
    /\ permanent' = "zero" /\ current' = "zero" /\ override' = FALSE

Init ==
    /\ source \in Sources /\ idr = "own"
    /\ registry = [k \in Keys |-> Missing] /\ network = Unset
    /\ field = NoSettings
    /\ permanent = "zero" /\ current = "zero" /\ override = FALSE
    /\ given = "zero"
    /\ pnp = "none" /\ running = FALSE /\ opened = FALSE /\ dirty = FALSE

\* The user edits the advanced settings; they count from the next start on.
SetSetting(k) ==
    /\ pnp = "none"
    /\ \E v \in Offered[k] \cup {Missing} : registry' = [registry EXCEPT ![k] = v]
    /\ UNCHANGED <<source, idr, network, adapter, given, pnp, running, opened, dirty>>

SetNetworkAddress ==
    /\ pnp = "none"
    /\ network' \in {Unset, "user", "group"}
    /\ UNCHANGED <<source, idr, registry, adapter, given, pnp, running, opened, dirty>>

\* Faulty variant: only the minimum is checked.
SettingUnlimited(k) ==
    IF k \in Keys /\ registry[k] # Missing /\ registry[k] >= Property[k].min
    THEN registry[k] ELSE Property[k].default

\* A setting that is there and in range, or its default.
Setting(k) ==
    IF k \in Keys /\ registry[k] \in Property[k].min..Property[k].max
    THEN registry[k] ELSE Property[k].default

\* re_get_hw_mac_address.
HwAddress ==
    LET read == IF source = "idr" THEN idr ELSE "own"
    IN  IF Valid(read) THEN read ELSE IF Valid(idr) THEN idr ELSE "random"

\* EvtDevicePrepareHardware.  When the configuration cannot be opened the fields stay
\* as they are and the preparation goes on.
Prepare ==
    /\ pnp = "none" /\ pnp' = "D0"
    /\ opened' \in BOOLEAN
    /\ LET told == opened' /\ network # Unset
           stored == IF told THEN network ELSE current
       IN  /\ field' = IF opened' THEN [k \in DOMAIN Property |-> Setting(k)] ELSE field
           /\ override' = (override \/ (told /\ Valid(network)))
           /\ permanent' = HwAddress /\ idr' = HwAddress
           /\ current' = IF override' THEN HwAddress ELSE stored
           /\ given' = current'
    /\ UNCHANGED <<source, registry, network, running, dirty>>

\* RtlResetLink: the start of a queue, a change of the link.
ResetLink ==
    /\ pnp = "D0" /\ idr' = current /\ running' = TRUE
    /\ UNCHANGED <<source, registry, network, adapter, given, pnp, opened, dirty>>

D0Exit ==
    /\ pnp = "D0" /\ pnp' = "D3"
    /\ UNCHANGED <<source, idr, registry, network, adapter, given, running, opened, dirty>>

\* Faulty variant: the address is put in place as for a removal.
D0EntryPermanent ==
    /\ pnp = "D3" /\ pnp' = "D0"
    /\ idr' = permanent
    /\ UNCHANGED <<source, registry, network, adapter, given, running, opened, dirty>>

\* EvtDeviceD0Entry: RtlFirstStart resets the link if it did before.
D0Entry ==
    /\ pnp = "D3" /\ pnp' = "D0"
    /\ idr' = IF running THEN current ELSE idr
    /\ UNCHANGED <<source, registry, network, adapter, given, running, opened, dirty>>

\* EvtDeviceD0Exit to D3Final puts the permanent address back.  The adapter structure
\* goes with the device, or stays when it is only stopped.
Remove ==
    /\ pnp = "D0" /\ pnp' = "none" /\ running' = FALSE /\ opened' = FALSE
    /\ idr' = permanent
    /\ \/ UNCHANGED adapter
       \/ NewAdapter
    /\ UNCHANGED <<source, registry, network, given, dirty>>

\* The machine stops and starts again; the chip keeps its registers.
Crash ==
    /\ pnp' = "none" /\ running' = FALSE /\ opened' = FALSE /\ dirty' = TRUE
    /\ NewAdapter
    /\ UNCHANGED <<source, idr, registry, network, given>>

\* The chip's power goes: it loads its station address from where it has it.
PowerLoss ==
    /\ pnp' = "none" /\ running' = FALSE /\ opened' = FALSE /\ dirty' = FALSE
    /\ idr' = "own"
    /\ NewAdapter
    /\ UNCHANGED <<source, registry, network, given>>

Next == \/ \E k \in Keys : SetSetting(k)
        \/ SetNetworkAddress \/ Prepare \/ ResetLink \/ D0Exit \/ D0Entry \/ Remove
        \/ Crash \/ PowerLoss

Spec == Init /\ [][Next]_vars

-----------------------------------------------------------------------------
(* Properties.                                                                   *)

TypeOK ==
    /\ source \in Sources /\ idr \in Addresses
    /\ \A k \in Keys : registry[k] \in Offered[k] \cup {Missing}
    /\ network \in {Unset, "user", "group"}
    /\ permanent \in Addresses /\ current \in Addresses /\ given \in Addresses
    /\ override \in BOOLEAN /\ running \in BOOLEAN
    /\ opened \in BOOLEAN /\ dirty \in BOOLEAN
    /\ pnp \in {"none", "D0", "D3"}

\* Every field is in the range its property allows, whatever the registry holds and
\* although a configuration that cannot be opened leaves the fields alone; a driver that
\* could open it runs with the user's values, those out of range apart.
FieldsAsConfigured ==
    /\ \A k \in DOMAIN Property : field[k] \in Property[k].min..Property[k].max
    /\ pnp # "none" /\ opened => \A k \in Keys \cap DOMAIN Property :
            registry[k] \in Property[k].min..Property[k].max => field[k] = registry[k]

\* The permanent address is the chip's own at every start.  A chip whose station
\* address register is all it has depends on the register having been put back: only a
\* machine that stopped under the driver leaves another address there.
PermanentIsOwn == pnp # "none" /\ (source = "idr" => ~dirty) => permanent = "own"

\* A chip that receives does so at the address NetAdapterCx was given, over low power
\* and resets too.  Whether that is the address the user configured is the next property.
ListensToGiven == running /\ pnp = "D0" => idr = given

\* The comment at configuration.cpp:141: the NetworkAddress in the registry is used as the
\* current address if there is one; here, by a chip that receives.  Violated: device.cpp:193
\* overwrites the current address just when a valid one was configured.
NetworkAddressUsed ==
    running /\ pnp = "D0" /\ opened /\ network # Unset /\ Valid(network) => idr = network

=============================================================================
