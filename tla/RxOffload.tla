------------------------------- MODULE RxOffload -------------------------------
(* What RxIndicateReceives and RtFillRxChecksumInfo (rxqueue.cpp) tell the       *)
(* operating system of a received frame, from the two words the chip leaves in   *)
(* its descriptor, under the switches EvtAdapterOffloadSetRxChecksum and         *)
(* EvtAdapterOffloadSetTxChecksum (adapter.cpp) set at any time.                 *)
EXTENDS Integers

CONSTANTS
    Chips,  \* of "old" (no RL_FLAG_DESCV2) and "new"
    Tags    \* the tags frames come with: priority * 8192 + VLAN identifier

\* The constants.
RxOffloadAssumption == Chips \subseteq {"old", "new"} /\ Tags \subseteq 0..65535

None == -1

VARIABLES
    chip,
    extensions,     \* the packet extensions this queue was created with
    on,             \* the switches the offload callbacks have set
    frame,          \* the frame in the descriptor
    info            \* what the packet says of it

vars == <<chip, extensions, on, frame, info>>

Switches == {"TxTcpHwChkSum", "RxIpHwChkSum", "RxTcpHwChkSum", "RxUdpHwChkSum"}

DescV2 == chip = "new"

\* ip 0 is neither IPv4 nor IPv6; bad are the layers that have an error.
Frames == {f \in [ip : {0, 4, 6}, l4 : {"none", "tcp", "udp"}, bad : SUBSET {2, 3, 4},
                  tag : Tags \cup {None}] :
              /\ f.ip = 0 => f.l4 = "none"
              /\ 3 \in f.bad => f.ip = 4
              /\ 4 \in f.bad => f.l4 # "none"}
NoFrame == [ip |-> None]

Cleared == [l2 |-> "not checked", l3 |-> "not checked", l4 |-> "not checked",
            type3 |-> "unspecified", type4 |-> "unspecified", vlan |-> 0, priority |-> 0]

-----------------------------------------------------------------------------
(* The words of a received descriptor: sets of bits.                             *)

VLANCTL_TAG == 16                               \* in opts2
CRC == 19          \* in opts1
IPF == 16
UDPF == 15
TCPF == 14
TCPT == 17          \* in opts1; PID0 and PID1 of an old one
UDPT == 18
V4F == 30          \* in opts2
V6F == 31

Bits(v) == {k \in 0..15 : (v \div 2^k) % 2 = 1}

\* External: the chip's words for a frame.  An old one knows IPv4 only; it gives a
\* protocol in two bits, both for neither TCP nor UDP.  The data of a tag are the tag's two
\* bytes, swapped.
Checked(f) == IF DescV2 THEN f.ip # 0 ELSE f.ip = 4

Opts1(f) ==
    {CRC : b \in f.bad \cap {2}}
    \cup (IF ~Checked(f) THEN {}
          ELSE {IPF : b \in f.bad \cap {3}}
               \cup (IF f.l4 = "tcp" THEN {TCPT} \cup {TCPF : b \in f.bad \cap {4}}
                     ELSE IF f.l4 = "udp" THEN {UDPT} \cup {UDPF : b \in f.bad \cap {4}}
                     ELSE IF DescV2 THEN {} ELSE {TCPT, UDPT}))

Opts2(f) ==
    (IF f.tag = None THEN {}
     ELSE {VLANCTL_TAG} \cup Bits((f.tag % 256) * 256 + f.tag \div 256))
    \cup (IF DescV2 THEN {V4F : i \in {f.ip} \cap {4}} \cup {V6F : i \in {f.ip} \cap {6}}
          ELSE {})

-----------------------------------------------------------------------------

Evaluation(bit, opts) == IF bit \in opts THEN "invalid" ELSE "valid"

\* Faulty variant: the flags of TCP and UDP are taken for each other's.
FillLayer4Crossed(i, opts1) ==
    CASE opts1 \cap {TCPT, UDPT} = {TCPT} ->
            [i EXCEPT !.type4 = "tcp",
                      !.l4 = IF "TxTcpHwChkSum" \in on THEN Evaluation(UDPF, opts1) ELSE @]
      [] opts1 \cap {TCPT, UDPT} = {UDPT} ->
            [i EXCEPT !.type4 = "udp",
                      !.l4 = IF "RxUdpHwChkSum" \in on THEN Evaluation(TCPF, opts1) ELSE @]
      [] OTHER -> i

\* For both kinds of descriptors: the new one never sets both bits, and of the old one both
\* together are RL_ProtoIP.  TCP goes by the switch for sending.
FillLayer4(i, opts1) ==
    CASE opts1 \cap {TCPT, UDPT} = {TCPT} ->
            [i EXCEPT !.type4 = "tcp",
                      !.l4 = IF "TxTcpHwChkSum" \in on THEN Evaluation(TCPF, opts1) ELSE @]
      [] opts1 \cap {TCPT, UDPT} = {UDPT} ->
            [i EXCEPT !.type4 = "udp",
                      !.l4 = IF "RxUdpHwChkSum" \in on THEN Evaluation(UDPF, opts1) ELSE @]
      [] OTHER -> i

FillV4(i, opts1) ==
    [i EXCEPT !.type3 = "ipv4",
              !.l3 = IF "RxIpHwChkSum" \in on THEN Evaluation(IPF, opts1) ELSE @]

\* RtFillRxChecksumInfo.
RtFillRxChecksumInfo(i, opts1, opts2) ==
    LET i2 == [i EXCEPT !.l2 = Evaluation(CRC, opts1)] IN
    IF ~DescV2 THEN
        IF opts1 \cap {TCPT, UDPT} = {} THEN i2 ELSE FillLayer4(FillV4(i2, opts1), opts1)
    ELSE IF V4F \in opts2 THEN FillLayer4(FillV4(i2, opts1), opts1)
    ELSE IF V6F \in opts2 THEN FillLayer4([i2 EXCEPT !.type3 = "ipv6"], opts1)
    ELSE i2

\* The value of bits from..from + width - 1.
Field(w, from, width) ==
    LET F[k \in 0..width] == IF k = 0 THEN 0
                             ELSE F[k - 1] + (IF from + k - 1 \in w THEN 2^(k - 1) ELSE 0)
    IN  F[width]

FillTag(i, opts2) ==
    IF VLANCTL_TAG \notin opts2 THEN i
    ELSE [i EXCEPT !.priority = Field(opts2, 5, 3),
                   !.vlan = Field(opts2, 0, 4) * 256 + Field(opts2, 8, 8)]

\* The extensions' part of RxIndicateReceives.
Indicated(opts1, opts2) ==
    LET tagged == IF "ieee8021q" \in extensions THEN FillTag(Cleared, opts2) ELSE Cleared
    IN  IF "checksum" \in extensions THEN RtFillRxChecksumInfo(tagged, opts1, opts2)
        ELSE tagged

-----------------------------------------------------------------------------

Init ==
    /\ chip \in Chips /\ extensions \in SUBSET {"ieee8021q", "checksum"}
    /\ on = {} /\ frame = NoFrame /\ info = Cleared

SetSwitches(own) ==
    /\ \E s \in SUBSET own : on' = (on \ own) \cup s
    /\ UNCHANGED <<chip, extensions, frame, info>>

\* EvtAdapterOffloadSetRxChecksum; of the switches for sending only TCP's is used here.
SetRxChecksum == SetSwitches({"RxIpHwChkSum", "RxTcpHwChkSum", "RxUdpHwChkSum"})
SetTxChecksum == SetSwitches({"TxTcpHwChkSum"})

\* External: a frame arrives, in a packet that NetAdapterCx has cleared.
Receive ==
    /\ frame = NoFrame /\ frame' \in Frames
    /\ UNCHANGED <<chip, extensions, on, info>>

RxIndicateReceives ==
    /\ frame # NoFrame /\ info = Cleared
    /\ info' = Indicated(Opts1(frame), Opts2(frame))
    /\ UNCHANGED <<chip, extensions, on, frame>>

\* External: the packet is drained and used again.
Drain ==
    /\ info # Cleared /\ frame' = NoFrame /\ info' = Cleared
    /\ UNCHANGED <<chip, extensions, on>>

Next == SetRxChecksum \/ SetTxChecksum \/ Receive \/ RxIndicateReceives \/ Drain

Spec == Init /\ [][Next]_vars

-----------------------------------------------------------------------------
(* Properties.                                                                   *)

Evaluations == {"not checked", "valid", "invalid"}

TypeOK ==
    /\ chip \in Chips /\ extensions \subseteq {"ieee8021q", "checksum"}
    /\ on \subseteq Switches /\ frame \in Frames \cup {NoFrame}
    /\ info \in [l2 : Evaluations, l3 : Evaluations, l4 : Evaluations,
                 type3 : {"unspecified", "ipv4", "ipv6"},
                 type4 : {"unspecified", "tcp", "udp"}, vlan : 0..4095, priority : 0..7]

\* Nothing is called valid that the chip found wrong, nor wrong that it found right,
\* whichever of the two generations of descriptors it writes and whatever the switches.
VerdictIsTheChips ==
    frame # NoFrame =>
        /\ info.l2 # "not checked" => info.l2 = IF 2 \in frame.bad THEN "invalid" ELSE "valid"
        /\ info.l3 # "not checked" => info.l3 = IF 3 \in frame.bad THEN "invalid" ELSE "valid"
        /\ info.l4 # "not checked" => info.l4 = IF 4 \in frame.bad THEN "invalid" ELSE "valid"
        /\ info.type3 # "unspecified" => info.type3 = IF frame.ip = 4 THEN "ipv4" ELSE "ipv6"
        /\ info.type4 # "unspecified" => info.type4 = frame.l4

\* A checksum the chip has looked at is evaluated if its switch was on when the frame was
\* indicated, and is not if it was off: for the headers of IPv4 and for UDP.
EvaluatedAsSwitched ==
    [][RxIndicateReceives /\ "checksum" \in extensions =>
        /\ frame.ip = 4 =>
            (info'.l3 # "not checked") = ("RxIpHwChkSum" \in on)
        /\ Checked(frame) /\ frame.l4 = "udp" =>
            (info'.l4 # "not checked") = ("RxUdpHwChkSum" \in on)]_vars

\* A tag is handed on as it was on the wire, with the priority and the whole identifier
\* where they belong; a frame without one, or on a queue without the extension, has none.
TagAsReceived ==
    [][RxIndicateReceives =>
        LET tag == IF "ieee8021q" \in extensions /\ frame.tag # None THEN frame.tag ELSE 0
        IN  info'.priority = tag \div 8192 /\ info'.vlan = tag % 4096]_vars

=============================================================================
