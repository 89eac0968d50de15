------------------------------- MODULE TxOffload -------------------------------
(* What RtProgramOffloadDescriptor (txqueue.cpp) writes into the descriptors of  *)
(* a packet, for what the offload callbacks and capabilities (adapter.cpp) let   *)
(* the operating system ask for, and what the chip makes of it; compared also    *)
(* with the words re_start_locked of the BSD driver (if_re.c) would write.       *)
(*                                                                               *)
(* A word is the set of the positions of its one bits, so |= is union.           *)
EXTENDS Integers, Sequences

CONSTANTS
    Chips,      \* of "old" (no RL_FLAG_DESCV2), "mid" and "plus" (RL_FLAG_8168G_PLUS)
    Offsets,    \* lengths of the headers before the TCP or UDP header, for IPv6
    Offsets4,   \* and for IPv4
    Mss,        \* maximum segment sizes
    Vlans,      \* VLAN identifiers
    Priorities,
    MaxFragments

\* The constants.
TxOffloadAssumption ==
    /\ Chips \subseteq {"old", "mid", "plus"}
    /\ Offsets \subseteq 1..1023 /\ Offsets4 \subseteq Offsets \cap 1..78 /\ Mss \subseteq 1..1460
    /\ Vlans \subseteq 0..4095 /\ Priorities \subseteq 0..7
    /\ MaxFragments \in Nat \ {0}

None == -1
NoPacket == [ip |-> 0]
NoFrame == [segment |-> None]

VARIABLES
    chip,
    extensions,     \* the packet extensions this queue was created with
    VlanID,         \* the setting
    on,             \* the switches the offload callbacks have set
    packet,         \* the packet being posted
    descriptors,    \* opts1 and opts2 of those posted for it
    steady,         \* no switch has changed since the packet was handed over
    frame           \* what the chip made of it

config == <<chip, extensions, VlanID>>
vars == <<config, on, packet, descriptors, steady, frame>>

Switches == {"TxIpHwChkSum", "TxTcpHwChkSum", "TxUdpHwChkSum", "LSOv4", "LSOv6"}

DescV2 == chip # "old"

-----------------------------------------------------------------------------
(* What may be asked for.                                                        *)

\* Layer4HeaderOffsetLimit of checksums and of segmentation.
ChecksumOffsetLimit == 1023
GsoOffsetLimit == 127

\* RtAdapterSetOffloadCapabilities; segmentation needs RL_FLAG_8168G_PLUS.
Extensions == {"ieee8021q", "checksum"} \cup (IF chip = "plus" THEN {"gso"} ELSE {})

Packets == [ip : {4, 6}, l4 : {"tcp", "udp"}, offset : Offsets, fragments : 1..MaxFragments,
            mss : Mss \cup {0}, sum3 : BOOLEAN, sum4 : BOOLEAN,
            vlan : Vlans \cup {None}, priority : Priorities \cup {None}]

\* The operating system asks for what is offered and switched on.
MayAsk(p) ==
    /\ p.ip = 4 => p.offset \in Offsets4
    /\ p.sum3 => p.ip = 4 /\ "checksum" \in extensions /\ "TxIpHwChkSum" \in on
    /\ p.sum4 => /\ "checksum" \in extensions /\ p.offset <= ChecksumOffsetLimit
                 /\ (IF p.l4 = "tcp" THEN "TxTcpHwChkSum" ELSE "TxUdpHwChkSum") \in on
    /\ p.mss > 0 => /\ "gso" \in extensions /\ p.l4 = "tcp" /\ p.offset <= GsoOffsetLimit
                    /\ (IF p.ip = 4 THEN "LSOv4" ELSE "LSOv6") \in on
    /\ p.vlan # None \/ p.priority # None => "ieee8021q" \in extensions

-----------------------------------------------------------------------------
(* The words.                                                                    *)

Bit(v, k) == (v \div 2^k) % 2 = 1

\* v << shift
Shifted(v, shift) == {k + shift : k \in {b \in 0..12 : Bit(v, b)}}

\* What a field of a word holds.
Field(w, from, width) ==
    LET F[k \in 0..width] == IF k = 0 THEN 0
                             ELSE F[k - 1] + (IF from + k - 1 \in w THEN 2^(k - 1) ELSE 0)
    IN  F[width]

VLANCTL_TAG == 17
GTSENDV6 == 25
GTSENDV4 == 26
TCPHO == 18
MSSVALV2 == 18
CS_V6F == 28
IPV4CS == 29
TCPCS == 30
UDPCS == 31
TCPCS1 == 16
UDPCS1 == 17
IPV4CS1 == 18

\* RT_TAG_802_1Q: VLanID1, CFI, Priority and VLanID2 from the lowest bit up.
TagBits(vlan, priority) ==
    Shifted(vlan \div 256, 0) \cup Shifted(priority, 5) \cup Shifted(vlan % 256, 8)

\* opts2 of a queue with the extension: tagged whatever the packet asks for.
Tag(p) ==
    IF "ieee8021q" \notin extensions THEN {}
    ELSE {VLANCTL_TAG} \cup TagBits(IF p.vlan # None THEN p.vlan ELSE VlanID,
                                    IF p.priority # None THEN p.priority ELSE 0)

Segmented(p) ==
    p.l4 = "tcp" /\ p.mss > 0 /\ "gso" \in extensions /\ on \cap {"LSOv4", "LSOv6"} # {}

\* Faulty variant: the two words are mixed up.
LsoSwapped(p) ==
    IF ~Segmented(p) THEN <<{}, {}>>
    ELSE <<Shifted(p.mss, MSSVALV2),
           {IF p.ip = 4 THEN GTSENDV4 ELSE GTSENDV6} \cup Shifted(p.offset, TCPHO)>>

\* opts1 and opts2 for segmentation.
Lso(p) ==
    IF ~Segmented(p) THEN <<{}, {}>>
    ELSE <<{IF p.ip = 4 THEN GTSENDV4 ELSE GTSENDV6} \cup Shifted(p.offset, TCPHO),
           Shifted(p.mss, MSSVALV2)>>

ChecksumEnabled ==
    "checksum" \in extensions
    /\ on \cap {"TxTcpHwChkSum", "TxIpHwChkSum", "TxUdpHwChkSum"} # {}

\* opts1 and opts2 for checksums: in opts1 of an old descriptor, in opts2 of the other.
Checksum(p) ==
    IF ~ChecksumEnabled THEN <<{}, {}>>
    ELSE LET l4 == {k \in {TCPCS1, TCPCS} : p.sum4 /\ p.l4 = "tcp"}
                   \cup {k \in {UDPCS1, UDPCS} : p.sum4 /\ p.l4 = "udp"}
             l3 == {k \in {IPV4CS1, IPV4CS} : p.ip = 4 /\ (p.sum3 \/ p.sum4)}
             v6 == IF p.ip = 6 /\ p.sum4 THEN {CS_V6F} \cup Shifted(p.offset, TCPHO) ELSE {}
         IN  IF DescV2 THEN <<{}, ((l4 \cup l3) \cap 29..31) \cup v6>>
             ELSE <<(l4 \cup l3) \cap 16..18, {}>>

\* RtProgramOffloadDescriptor; the other bits of opts1 (16..31 but these) are left out.
Program(p) == [opts1 |-> Lso(p)[1] \cup Checksum(p)[1],
               opts2 |-> Tag(p) \cup Lso(p)[2] \cup Checksum(p)[2]]

-----------------------------------------------------------------------------

Init ==
    /\ chip \in Chips /\ extensions \in SUBSET Extensions /\ VlanID \in Vlans
    /\ on = {} /\ packet = NoPacket /\ descriptors = <<>> /\ steady = TRUE
    /\ frame = NoFrame

\* EvtAdapterOffloadSetTxChecksum and EvtAdapterOffloadSetGso; nothing in the code
\* keeps them away from a packet that is being posted.
SetSwitches(own) ==
    /\ \E s \in SUBSET own : on' = (on \ own) \cup s
    /\ steady' = (packet = NoPacket) /\ frame' = NoFrame
    /\ UNCHANGED <<config, packet, descriptors>>

SetTxChecksum == SetSwitches({"TxIpHwChkSum", "TxTcpHwChkSum", "TxUdpHwChkSum"})
SetGso == "gso" \in Extensions /\ SetSwitches({"LSOv4", "LSOv6"})

Submit ==
    /\ packet = NoPacket
    /\ \E p \in Packets : MayAsk(p) /\ packet' = p
    /\ steady' = TRUE /\ frame' = NoFrame
    /\ UNCHANGED <<config, on, descriptors>>

PostDescriptor ==
    /\ packet # NoPacket /\ Len(descriptors) < packet.fragments
    /\ descriptors' = Append(descriptors, Program(packet))
    /\ UNCHANGED <<config, on, packet, steady, frame>>

\* External: what the chip does for two words.  Segmentation comes with its checksums.
Does(opts1, opts2) ==
    LET giant == DescV2 /\ opts1 \cap {GTSENDV4, GTSENDV6} # {}
    IN  [segment |-> IF giant THEN Field(opts2, MSSVALV2, 11) ELSE 0,
         ip   |-> giant \/ IF DescV2 THEN IPV4CS \in opts2 ELSE IPV4CS1 \in opts1,
         tcp  |-> giant \/ IF DescV2 THEN TCPCS \in opts2 ELSE TCPCS1 \in opts1,
         udp  |-> IF DescV2 THEN UDPCS \in opts2 /\ ~giant ELSE UDPCS1 \in opts1,
         v6   |-> IF giant THEN GTSENDV6 \in opts1 ELSE CS_V6F \in opts2,
         header |-> IF giant THEN Field(opts1, TCPHO, 7)
                    ELSE IF CS_V6F \in opts2 THEN Field(opts2, TCPHO, 10) ELSE None,
         \* the tag of the frame: the data with its bytes swapped
         tag  |-> IF VLANCTL_TAG \in opts2
                  THEN Field(opts2, 0, 8) * 256 + Field(opts2, 8, 8) ELSE None]

\* External: the chip goes by the first descriptor.
Transmit ==
    /\ packet # NoPacket /\ Len(descriptors) = packet.fragments
    /\ frame' = Does(descriptors[1].opts1, descriptors[1].opts2)
    /\ packet' = NoPacket /\ descriptors' = <<>>
    /\ UNCHANGED <<config, on, steady>>

Next == SetTxChecksum \/ SetGso \/ Submit \/ PostDescriptor \/ Transmit

Spec == Init /\ [][Next]_vars

-----------------------------------------------------------------------------
(* Properties.                                                                   *)

TypeOK ==
    /\ chip \in Chips /\ extensions \subseteq Extensions /\ VlanID \in Vlans
    /\ on \subseteq Switches /\ packet \in Packets \cup {NoPacket} /\ steady \in BOOLEAN
    /\ \A n \in DOMAIN descriptors : /\ descriptors[n].opts1 \subseteq 16..27
                                     /\ descriptors[n].opts2 \subseteq 0..31

\* Both asked of one IPv6 packet: the size of a segment and the place of the header share
\* the bits of opts2.
Clash(p) == p.ip = 6 /\ p.mss > 0 /\ p.sum4

\* The code asserts that the header of layer 4 begins before 255 where it is asked for a
\* checksum of it; the capability it declares is ChecksumOffsetLimit.
Asserted(p) == p.sum4 => p.offset < 255

\* Chips without RL_FLAG_DESCV2 have no checksums for IPv6; capabilities offer them.
Incapable(p) == ~DescV2 /\ p.ip = 6 /\ p.sum4

\* The frame has the checksums that were asked for, in the right place, and is cut into
\* segments of the size asked for, or not cut: through the layouts of two generations of
\* descriptors whose fields overlap.  Left out are packets during which a switch changed,
\* and those the assertion, the layout or the chip has no room for.
FrameAsAsked ==
    [][Transmit /\ steady /\ Asserted(packet) /\ ~Clash(packet) /\ ~Incapable(packet) =>
        LET p == packet IN
        /\ frame'.segment = p.mss
        /\ p.sum3 => frame'.ip
        /\ p.sum4 => IF p.l4 = "tcp" THEN frame'.tcp ELSE frame'.udp
        /\ p.mss > 0 \/ (p.sum4 /\ p.ip = 6) => /\ frame'.v6 = (p.ip = 6)
                                                /\ frame'.header = p.offset
        /\ p.mss = 0 /\ ~p.sum3 /\ ~p.sum4 => ~frame'.ip /\ ~frame'.tcp /\ ~frame'.udp]_vars

\* The tag on the wire is the VLAN and the priority the packet asks for, or the VLAN that
\* is configured and priority 0.  A queue without the extension sends no tags.
TagAsAsked ==
    [][Transmit =>
        frame'.tag = IF "ieee8021q" \notin extensions THEN None
                     ELSE (IF packet.priority = None THEN 0 ELSE packet.priority) * 8192
                          + (IF packet.vlan = None THEN VlanID ELSE packet.vlan)]_vars

\* re_start_locked, for a packet that asks for one thing at most; a checksum of layer 4 is
\* CSUM_TCP or CSUM_UDP, for IPv6 their counterparts, one of layer 3 is CSUM_IP.
Upstream(p) ==
    IF p.mss > 0 THEN
        [opts1 |-> {IF p.ip = 6 THEN GTSENDV6 ELSE GTSENDV4} \cup Shifted(p.offset, TCPHO),
         opts2 |-> Shifted(p.mss, MSSVALV2)]
    ELSE IF ~p.sum3 /\ ~p.sum4 THEN [opts1 |-> {}, opts2 |-> {}]
    ELSE IF ~DescV2 THEN
        [opts1 |-> {IPV4CS1} \cup {k \in {TCPCS1} : p.sum4 /\ p.l4 = "tcp"}
                             \cup {k \in {UDPCS1} : p.sum4 /\ p.l4 = "udp"},
         opts2 |-> {}]
    ELSE
        [opts1 |-> {},
         opts2 |-> {k \in {IPV4CS} : p.ip = 4}
                   \cup {k \in {TCPCS} : p.sum4 /\ p.l4 = "tcp"}
                   \cup {k \in {UDPCS} : p.sum4 /\ p.l4 = "udp"}
                   \cup (IF p.sum4 /\ p.ip = 6
                         THEN {CS_V6F} \cup Shifted(p.offset, TCPHO) ELSE {})]

\* The tag apart, every descriptor of a packet is what the BSD driver, which this one was
\* made from, would have written, for a packet that does not ask for segmentation and
\* checksums at once (the BSD driver ignores the second, this one writes both).
SameAsUpstream ==
    \A n \in DOMAIN descriptors :
        steady /\ Asserted(packet) /\ ~Incapable(packet)
        /\ ~(packet.mss > 0 /\ (packet.sum3 \/ packet.sum4)) =>
            /\ descriptors[n].opts1 = Upstream(packet).opts1
            /\ descriptors[n].opts2 \ 0..VLANCTL_TAG = Upstream(packet).opts2

=============================================================================
