------------------------------- MODULE TxQueue -------------------------------
(* The transmit queue of txqueue.cpp: EvtTxQueueAdvance turning the packets of  *)
(* the operating system's rings into hardware descriptors and handing them back *)
(* when the NIC has sent them, the NIC consuming those descriptors at the same  *)
(* time, and RtlResetLink, which another thread runs under another lock.        *)
(*                                                                              *)
(* One step of the driver is one access to memory the NIC or the reset shares.  *)
(* A buffer is named by the fragment it belongs to.  What is dead is given one  *)
(* value: a local variable the code is done with, a packet element the driver   *)
(* does not hold, and its TCB, which starts as memory nobody initialised.       *)
EXTENDS NetRing, Sequences

CONSTANTS
    NumPkt,         \* elements of the packet ring
    NumFrag,        \* elements of the fragment ring
    UShortMax,      \* USHRT_MAX: NumTxDesc is a USHORT
    MaxFrags,       \* bound: fragments of one packet
    MaxResets       \* bound: link resets of one behaviour

ASSUME SizeAssumption ==
    /\ NumPkt \in Nat \ {0, 1} /\ NumFrag \in Nat \ {0, 1}
    /\ UShortMax \in Nat /\ UShortMax >= NumFrag - 1 /\ UShortMax >= 1
    /\ MaxFrags \in 1 .. NumFrag - 1
    /\ MaxResets \in Nat

NumTxDesc == IF NumFrag > UShortMax THEN UShortMax ELSE NumFrag

Packets     == 0 .. NumPkt - 1
Fragments   == 0 .. NumFrag - 1
Descriptors == 0 .. NumTxDesc - 1

VARIABLES
    pr, fr,         \* packet and fragment ring: [begin, next, end]
    packet,         \* NET_PACKET: its first fragment, fragment count and Ignore
    tcb,            \* RT_TCB of each packet: FirstTxDescIdx and NumTxDesc
    desc,           \* the descriptors, in memory shared with the NIC
    TxDescIndex,    \* the next descriptor to post
    pc,             \* where the thread calling into the driver is
    pi,             \* its packet iterator
    slot,           \* txd, the descriptor RtPostTxDescriptor took the address of
    programmed,     \* programmedPackets
    cancelled,      \* EvtTxQueueCancel was called
    nic,            \* the NIC's transmitter
    rpc, resets,    \* the thread inside RtlResetLink, and how often it ran
    sent, stray,    \* history: outstanding packets sent whole; another frame sent
    torn            \* history: a reset met packets that were not completed

driver == <<pr, fr, tcb, pc, pi, slot, programmed>>
reset  == <<rpc, resets>>
ghosts == <<sent, stray>>
vars   == <<pr, fr, packet, tcb, desc, TxDescIndex, pc, pi, slot, programmed,
            cancelled, nic, rpc, resets, sent, stray, torn>>

Ring(n)  == [begin : 0 .. n - 1, next : 0 .. n - 1, end : 0 .. n - 1]
Packet   == [frag : Fragments, count : 0 .. MaxFrags, ignore : BOOLEAN]
Tcb      == [first : Descriptors, num : 0 .. MaxFrags]
TxDesc   == [own : BOOLEAN, fs : BOOLEAN, ls : BOOLEAN, eor : BOOLEAN,
             buf : Fragments]

EmptyRing == [begin |-> 0, next |-> 0, end |-> 0]
NoPacket  == [frag |-> 0, count |-> 0, ignore |-> FALSE]
StaleTcb  == [first |-> 0, num |-> MaxFrags]
ZeroDesc  == [own |-> FALSE, fs |-> FALSE, ls |-> FALSE, eor |-> FALSE, buf |-> 0]

\* EvtTxQueueStart zeroes the descriptors; RtlFirstStart has started the NIC.
Init ==
    /\ pr = EmptyRing /\ fr = EmptyRing
    /\ packet = [i \in Packets |-> NoPacket]
    /\ tcb = [i \in Packets |-> StaleTcb]
    /\ desc = [d \in Descriptors |-> ZeroDesc]
    /\ TxDescIndex = 0
    /\ pc = "idle" /\ pi = 0 /\ slot = 0 /\ programmed = FALSE
    /\ cancelled = FALSE
    /\ nic = [on |-> TRUE, poll |-> FALSE, at |-> 0, frame |-> << >>]
    /\ rpc = "none" /\ resets = 0
    /\ sent = {} /\ stray = FALSE /\ torn = FALSE

\* The fragments of packet i, in order.
FragmentsOf(i) ==
    [k \in 1 .. packet[i].count |-> (packet[i].frag + k - 1) % NumFrag]

InFlight == Between(NumPkt, pr.begin, pr.end)
Quiet    == pc = "idle" /\ pr.begin = pr.next

-----------------------------------------------------------------------------
(* The operating system.  It adds packets only while it is not calling the      *)
(* driver, keeps one element of each ring free, gives consecutive packets       *)
(* consecutive fragments and a packet it marked Ignore none.                    *)

Submit ==
    \E n \in 0 .. MaxFrags :
        /\ pc = "idle" /\ ~cancelled
        /\ Incr(NumPkt, pr.end) # pr.begin
        /\ Span(NumFrag, fr.begin, fr.end) + n <= NumFrag - 1
        /\ packet' = [packet EXCEPT
                        ![pr.end] = [frag |-> fr.end, count |-> n, ignore |-> n = 0]]
        /\ pr' = [pr EXCEPT !.end = Incr(NumPkt, pr.end)]
        /\ fr' = [fr EXCEPT !.end = (fr.end + n) % NumFrag]
        /\ UNCHANGED <<tcb, desc, TxDescIndex, pc, pi, slot, programmed,
                       cancelled, nic, reset, ghosts, torn>>

\* EvtTxQueueCancel does nothing; the operating system stops adding packets.
EvtTxQueueCancel ==
    /\ pc = "idle" /\ ~cancelled
    /\ cancelled' = TRUE
    /\ UNCHANGED <<driver, packet, desc, TxDescIndex, nic, reset, ghosts, torn>>

-----------------------------------------------------------------------------
(* RtTransmitPackets. *)

\* EvtTxQueueAdvance is called while packets are outstanding.
EvtTxQueueAdvance ==
    /\ pc = "idle" /\ pr.begin # pr.end
    /\ pc' = "packet" /\ pi' = pr.next
    /\ UNCHANGED <<pr, fr, packet, tcb, desc, TxDescIndex, slot, programmed,
                   cancelled, nic, reset, ghosts, torn>>

TransmitPacket ==
    /\ pc = "packet" /\ pi # pr.end
    /\ IF packet[pi].ignore
       THEN pi' = Incr(NumPkt, pi) /\ UNCHANGED <<tcb, pc>>
       ELSE /\ tcb' = [tcb EXCEPT ![pi] = [first |-> TxDescIndex, num |-> 0]]
            /\ pc' = "post" /\ UNCHANGED pi
    /\ UNCHANGED <<pr, fr, packet, desc, TxDescIndex, slot, programmed, cancelled,
                   nic, reset, ghosts, torn>>

\* The fragment iterator; its end is one past the packet's last fragment.
FragmentIndex   == (packet[pi].frag + tcb[pi].num) % NumFrag
FragmentEnd     == Incr(NumFrag, packet[pi].frag + packet[pi].count - 1)
HasAnyFragment  == FragmentIndex # FragmentEnd

\* Faulty variants: the last segment or the end of the ring is found one late.
LastSegmentLate == tcb[pi].num = packet[pi].count
EndOfRingLate   == TxDescIndex = NumTxDesc

FirstSegment == tcb[pi].num = 0
LastSegment  == tcb[pi].num + 1 = packet[pi].count
EndOfRing    == TxDescIndex = NumTxDesc - 1

\* RtPostTxDescriptor up to the barrier: OWN is still clear.
PostDescriptorBody ==
    /\ pc = "post" /\ HasAnyFragment
    /\ slot' = TxDescIndex
    /\ desc' = [desc EXCEPT ![TxDescIndex] =
                  [own |-> FALSE, fs |-> FirstSegment, ls |-> LastSegment,
                   eor |-> EndOfRing, buf |-> FragmentIndex]]
    /\ pc' = "own"
    /\ UNCHANGED <<pr, fr, packet, tcb, TxDescIndex, pi, programmed, cancelled, nic,
                   reset, ghosts, torn>>

\* The first word, which holds OWN, is written last; then on to the next.
PostDescriptorOwn ==
    /\ pc = "own"
    /\ desc' = [desc EXCEPT ![slot].own = TRUE]
    /\ TxDescIndex' = (TxDescIndex + 1) % NumTxDesc
    /\ tcb' = [tcb EXCEPT ![pi].num = @ + 1]
    /\ pc' = "post" /\ slot' = 0
    /\ UNCHANGED <<pr, fr, packet, pi, programmed, cancelled, nic, reset,
                   ghosts, torn>>

PacketPosted ==
    /\ pc = "post" /\ ~HasAnyFragment
    /\ fr' = [fr EXCEPT !.next = FragmentIndex]
    /\ programmed' = TRUE
    /\ pi' = Incr(NumPkt, pi)
    /\ pc' = "packet"
    /\ UNCHANGED <<pr, packet, tcb, desc, TxDescIndex, slot, cancelled, nic, reset,
                   ghosts, torn>>

\* Faulty variant: the doorbell is rung only if no packet was outstanding.
DoorbellIfEmpty == programmed /\ nic.on /\ pr.begin = pr.next

\* The doorbell of RtFlushTransation; a transmitter that is off does not hear it.
Doorbell == programmed /\ nic.on

\* The packet ring's next index moves once, and the doorbell is
\* rung once, after the last packet.
TransmitEnd ==
    /\ pc = "packet" /\ pi = pr.end
    /\ pr' = [pr EXCEPT !.next = pi]
    /\ nic' = [nic EXCEPT !.poll = @ \/ Doorbell]
    /\ pc' = "drain" /\ pi' = pr.begin /\ programmed' = FALSE
    /\ UNCHANGED <<fr, packet, tcb, desc, TxDescIndex, slot, cancelled, reset,
                   ghosts, torn>>

-----------------------------------------------------------------------------
(* RtCompleteTransmitPackets. *)

DescriptorsOf(i) ==
    {(tcb[i].first + k) % NumTxDesc : k \in 0 .. tcb[i].num - 1}

\* Faulty variants: the wrong descriptor decides, or the index misses the wrap.
FirstDescriptorOf(i) == tcb[i].first
PastLastDescriptorOf(i) == (tcb[i].first + tcb[i].num) % NumTxDesc

LastDescriptorOf(i) == (tcb[i].first + tcb[i].num - 1) % NumTxDesc

\* RtIsPacketTransferComplete.
IsPacketTransferComplete(i) == packet[i].ignore \/ ~desc[LastDescriptorOf(i)].own

\* Faulty variants: one fragment is handed back for a packet, or one too many.
OneFragmentOn   == Incr(NumFrag, fr.begin)
OneFragmentMore == Incr(NumFrag, FragmentIndex)

FragmentsDone == FragmentIndex

CompletePacket ==
    /\ pc = "drain" /\ pi # pr.next
    /\ IsPacketTransferComplete(pi)
    /\ IF packet[pi].ignore
       THEN UNCHANGED <<desc, fr>>
       ELSE /\ desc' = [d \in Descriptors |->
                          IF d \in DescriptorsOf(pi)
                          THEN [desc[d] EXCEPT !.own = FALSE, !.fs = FALSE,
                                               !.ls = FALSE, !.eor = FALSE]
                          ELSE desc[d]]
            /\ fr' = [fr EXCEPT !.begin = FragmentsDone]
    /\ pi' = Incr(NumPkt, pi)
    /\ UNCHANGED <<pr, packet, tcb, TxDescIndex, pc, slot, programmed, cancelled,
                   nic, reset, ghosts, torn>>

CompleteEnd ==
    /\ pc = "drain"
    /\ pi = pr.next \/ ~IsPacketTransferComplete(pi)
    /\ pr' = [pr EXCEPT !.begin = pi]
    /\ LET held == Between(NumPkt, pi, pr.end)
       IN  /\ packet' = [i \in Packets |-> IF i \in held THEN packet[i] ELSE NoPacket]
           /\ tcb' = [i \in Packets |-> IF i \in held THEN tcb[i] ELSE StaleTcb]
           /\ sent' = sent \cap held
    /\ pc' = "idle" /\ pi' = 0
    /\ UNCHANGED <<fr, desc, TxDescIndex, slot, programmed, cancelled,
                   nic, reset, stray, torn>>

-----------------------------------------------------------------------------
(* The NIC.  While polling it takes the descriptor it is at if it owns it, and  *)
(* stops polling if not; EOR sends it back to the start of the ring.            *)

NicFetch ==
    /\ nic.on /\ nic.poll /\ nic.at \in Descriptors /\ desc[nic.at].own
    /\ LET d     == desc[nic.at]
           frame == IF d.fs THEN <<d.buf>> ELSE Append(nic.frame, d.buf)
           whole == {i \in InFlight : ~packet[i].ignore /\ FragmentsOf(i) = frame}
       IN  /\ desc' = [desc EXCEPT ![nic.at].own = FALSE]
           /\ nic'  = [nic EXCEPT !.at    = IF d.eor THEN 0 ELSE @ + 1,
                                  !.frame = IF d.ls THEN << >> ELSE frame]
           /\ IF d.ls
              THEN /\ sent' = sent \cup whole
                   /\ stray' = (stray \/ whole = {} \/ whole \cap sent # {})
              ELSE UNCHANGED ghosts
    /\ UNCHANGED <<driver, packet, TxDescIndex, cancelled, reset, torn>>

NicIdle ==
    /\ nic.on /\ nic.poll
    /\ nic.at \in Descriptors => ~desc[nic.at].own
    /\ nic' = [nic EXCEPT !.poll = FALSE]
    /\ UNCHANGED <<driver, packet, desc, TxDescIndex, cancelled, reset, ghosts, torn>>

-----------------------------------------------------------------------------
(* RtlResetLink, from the DPC's link change or RtlFirstStart.  It holds the     *)
(* interrupt lock, which EvtTxQueueAdvance does not take.                       *)

ResetStep == /\ torn' = (torn \/ ~Quiet)
             /\ UNCHANGED <<driver, packet, desc, cancelled, ghosts>>

\* re_stop: the chip is reset.
ResetStop ==
    /\ rpc = "none" /\ resets < MaxResets
    /\ nic' = [nic EXCEPT !.on = FALSE, !.poll = FALSE, !.frame = << >>]
    /\ rpc' = "stopped" /\ resets' = resets + 1
    /\ UNCHANGED TxDescIndex
    /\ ResetStep

\* Faulty variant: the ring is not rewound.
IndexKept == TxDescIndex

FirstIndex == 0

\* RtResetQueues.
ResetQueues ==
    /\ rpc = "stopped"
    /\ TxDescIndex' = FirstIndex
    /\ rpc' = "rewound"
    /\ UNCHANGED <<nic, resets>>
    /\ ResetStep

\* re_hw_start_unlock: the transmitter is enabled at the start of the ring; it
\* may or may not look there before the next doorbell.
ResetStart ==
    /\ rpc = "rewound"
    /\ \E look \in BOOLEAN : nic' = [nic EXCEPT !.on = TRUE, !.poll = look, !.at = 0]
    /\ rpc' = "none"
    /\ UNCHANGED <<TxDescIndex, resets>>
    /\ ResetStep

-----------------------------------------------------------------------------
Transmit == \/ TransmitPacket \/ PostDescriptorBody \/ PostDescriptorOwn
            \/ PacketPosted \/ TransmitEnd
CompleteTransmit == CompletePacket \/ CompleteEnd
Nic   == NicFetch \/ NicIdle
Reset == ResetStop \/ ResetQueues \/ ResetStart

Next == \/ Submit \/ EvtTxQueueCancel \/ EvtTxQueueAdvance
        \/ Transmit \/ CompleteTransmit \/ Nic \/ Reset

\* The operating system polls the queue while packets are outstanding, a call
\* into the driver returns, the NIC works through what it was told of, and a
\* reset that began is completed.
Spec == /\ Init /\ [][Next]_vars
        /\ WF_vars(EvtTxQueueAdvance) /\ WF_vars(Transmit)
        /\ WF_vars(CompleteTransmit) /\ WF_vars(Nic)
        /\ WF_vars(ResetQueues \/ ResetStart)
-----------------------------------------------------------------------------
(* Properties. *)

\* The variables have their types; the NIC stays inside the descriptor ring,
\* which only the EOR bit of the last descriptor (txqueue.cpp:360) ensures.
TypeOK ==
    /\ pr \in Ring(NumPkt) /\ fr \in Ring(NumFrag)
    /\ packet \in [Packets -> Packet] /\ tcb \in [Packets -> Tcb]
    /\ desc \in [Descriptors -> TxDesc] /\ TxDescIndex \in Descriptors
    /\ pc \in {"idle", "packet", "post", "own", "drain"}
    /\ pi \in Packets /\ slot \in Descriptors
    /\ programmed \in BOOLEAN /\ cancelled \in BOOLEAN
    /\ nic \in [on : BOOLEAN, poll : BOOLEAN, at : Descriptors,
                frame : Seq(Fragments)]
    /\ rpc \in {"none", "stopped", "rewound"} /\ resets \in 0 .. MaxResets
    /\ sent \in SUBSET Packets /\ stray \in BOOLEAN /\ torn \in BOOLEAN

\* A descriptor the NIC owns is changed by nobody but the NIC, which takes it:
\* RtPostTxDescriptor never zeroes a descriptor whose frame is still to be sent.
NoOwnedOverwrite ==
    [][\A d \in Descriptors :
          desc[d].own /\ desc'[d] # desc[d] =>
             \/ torn
             \/ nic.at = d /\ nic.poll /\ desc'[d] = [desc[d] EXCEPT !.own = FALSE]
      ]_vars

\* What the NIC has gathered is the beginning of the oldest packet not yet sent:
\* a packet's first descriptor is owned by the NIC before its others are posted,
\* and yet frames are never mixed, cut short or sent out of order.
FrameOfOldestPacket ==
    torn \/
    /\ ~stray
    /\ nic.frame # << >> =>
         \E i \in InFlight :
            /\ ~packet[i].ignore /\ i \notin sent
            /\ Len(nic.frame) < packet[i].count
            /\ nic.frame = SubSeq(FragmentsOf(i), 1, Len(nic.frame))
            /\ \A j \in Between(NumPkt, pr.begin, i) : packet[j].ignore \/ j \in sent

\* A doorbell is not lost: outside EvtTxQueueAdvance, descriptors the NIC owns
\* are never left behind by a NIC that has stopped polling.
DoorbellNotLost ==
    pc = "idle" /\ rpc = "none" /\ ~torn /\ (\E d \in Descriptors : desc[d].own) => nic.poll

\* The NIC owns no descriptor of a buffer that was handed back: the last
\* descriptor of a packet being done, RtIsPacketTransferComplete may take it that
\* the others are.
NicReadsHeldBuffers ==
    torn \/ \A d \in Descriptors :
               desc[d].own => desc[d].buf \in Between(NumFrag, fr.begin, fr.end)

\* Between calls the fragments handed back are exactly those of the packets
\* handed back, although the two ring indices are set at different places.
FragmentsFollowPackets ==
    pc = "idle" =>
      LET posted == {i \in Between(NumPkt, pr.begin, pr.next) : ~packet[i].ignore}
      IN  /\ posted = {} => fr.begin = fr.next
          /\ \A i \in posted :
                (\A j \in Between(NumPkt, pr.begin, i) : packet[j].ignore)
                   => fr.begin = packet[i].frag

\* RtlResetLink rewinds the ring safely when nothing is in flight: until a reset
\* meets packets that are not completed, the NIC is where the ring is.
ResetKeepsLockstep ==
    ~torn /\ rpc = "none" /\ Quiet => nic.at = TxDescIndex

\* The comment of EvtTxQueueCancel, "the queue will continue to be drained like
\* normal": after it every packet is eventually handed back.
DrainsAfterCancel == cancelled ~> (pr.begin = pr.end)

\* Packets leave as TxService says, once, whole, in order, and eventually.
PacketStateOf(i) == IF packet[i].ignore THEN "ignored"
                    ELSE IF i \in sent THEN "sent" ELSE "waiting"

ServiceQueue == [k \in 1 .. Span(NumPkt, pr.begin, pr.end) |->
                    PacketStateOf((pr.begin + k - 1) % NumPkt)]

Service == INSTANCE TxService WITH Capacity <- NumPkt - 1, queue <- ServiceQueue

ServiceSpec == Service!Spec
=============================================================================
