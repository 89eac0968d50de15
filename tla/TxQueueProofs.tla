---------------------------- MODULE TxQueueProofs ----------------------------
(* What holds of TxQueue for every ring size and any number of resets.  Three   *)
(* arguments, each resting on the one before:                                   *)
(*   - the types, which are not a formality: that nic.at and the descriptor     *)
(*     indices stay inside the ring rests on the end-of-ring bits, which the    *)
(*     NIC reads out of memory the driver and a reset write to;                 *)
(*   - the order of packets, fragments and descriptors (OrderInv);              *)
(*   - that the driver and the NIC, each walking the descriptor ring on its     *)
(*     own, agree on what is in it for as long as no reset meets packets in     *)
(*     flight (LockInv), and from it the service that TxService describes.      *)
EXTENDS TxQueue, NetRingProofs

\* The last descriptor of the ring sends the NIC back whenever the NIC may read
\* it, and the packet being posted has no more descriptors than fragments.
RingEndMarked ==
    /\ desc[NumTxDesc - 1].own => desc[NumTxDesc - 1].eor
    /\ pc = "own" /\ slot = NumTxDesc - 1 => desc[slot].eor

PostingBounded ==
    /\ pc = "post" => tcb[pi].num <= packet[pi].count
    /\ pc = "own"  => tcb[pi].num < packet[pi].count

IndInv == TypeOK /\ RingEndMarked /\ PostingBounded

\* A remainder is an index of the ring.
LEMMA ModInRange ==
    ASSUME NEW n \in Nat \ {0}, NEW a \in Nat
    PROVE  a % n \in 0 .. n - 1
BY SMT

\* The descriptor ring is not empty, whichever of the two bounds its size.
LEMMA NumTxDescType == NumTxDesc \in Nat \ {0}
BY SizeAssumption DEF NumTxDesc

\* Index 0, where RtResetQueues and the ring's start point, is in every ring.
LEMMA ZeroInRings ==
    /\ 0 \in Packets /\ 0 \in Fragments /\ 0 \in Descriptors
BY SizeAssumption, NumTxDescType DEF Packets, Fragments, Descriptors

\* The packet after a packet is one.
LEMMA IncrPackets == ASSUME NEW i \in Packets PROVE Incr(NumPkt, i) \in Packets
BY SizeAssumption, ModInRange DEF Incr, Packets

\* The initial state, a cleared ring whose last descriptor has EOR, satisfies it.
LEMMA InitIndInv == Init => IndInv
<1> SUFFICES ASSUME Init PROVE IndInv
  OBVIOUS
<1> USE SizeAssumption, NumTxDescType, ZeroInRings
<1>1. EmptyRing \in Ring(NumPkt) /\ EmptyRing \in Ring(NumFrag)
  BY DEF EmptyRing, Ring
<1>2. NoPacket \in Packet /\ StaleTcb \in Tcb /\ ZeroDesc \in TxDesc
  BY DEF NoPacket, StaleTcb, ZeroDesc, Packet, Tcb, TxDesc
<1>3. nic \in [on : BOOLEAN, poll : BOOLEAN, at : Descriptors, frame : Seq(Fragments)]
  BY DEF Init
<1>4. TypeOK
  BY <1>1, <1>2, <1>3 DEF Init, TypeOK
<1>5. NumTxDesc - 1 \in Descriptors
  BY DEF Descriptors
<1> QED BY <1>4, <1>5 DEF IndInv, RingEndMarked, PostingBounded, Init, ZeroDesc

\* Every step keeps the invariant.
LEMMA NextIndInv == IndInv /\ [Next]_vars => IndInv'
<1> SUFFICES ASSUME IndInv, [Next]_vars PROVE IndInv'
  OBVIOUS
<1> USE SizeAssumption, NumTxDescType, ZeroInRings DEF IndInv
<1>a. NumTxDesc - 1 \in Descriptors
  BY DEF Descriptors
<1>1. CASE Submit
  <2>1. PICK n \in 0 .. MaxFrags : Submit!(n)
    BY <1>1 DEF Submit
  <2>2. fr.end \in Fragments /\ pr.end \in Packets /\ fr.end + n \in Nat
    BY DEF TypeOK, Ring, Packets, Fragments
  <2>3. (fr.end + n) % NumFrag \in Fragments
    BY <2>2, ModInRange DEF Fragments
  <2>4. Incr(NumPkt, pr.end) \in Packets
    BY <2>2, IncrPackets
  <2>5. [frag |-> fr.end, count |-> n, ignore |-> n = 0] \in Packet
    BY <2>2 DEF Packet
  <2>6. packet' \in [Packets -> Packet] /\ pr' \in Ring(NumPkt) /\ fr' \in Ring(NumFrag)
    BY <2>1, <2>2, <2>3, <2>4, <2>5 DEF TypeOK, Ring, Packets, Fragments
  <2>7. TypeOK'
    BY <2>1, <2>6 DEF TypeOK, ghosts, reset
  <2> QED BY <2>1, <2>7 DEF RingEndMarked, PostingBounded
<1>2. CASE EvtTxQueueCancel
  <2>1. TypeOK'
    BY <1>2 DEF EvtTxQueueCancel, TypeOK, driver, reset, ghosts
  <2> QED BY <1>2, <2>1 DEF EvtTxQueueCancel, RingEndMarked, PostingBounded, driver
<1>3. CASE EvtTxQueueAdvance
  <2>1. pr.next \in Packets
    BY DEF TypeOK, Ring, Packets
  <2>2. TypeOK'
    BY <1>3, <2>1 DEF EvtTxQueueAdvance, TypeOK, reset, ghosts
  <2> QED BY <1>3, <2>2 DEF EvtTxQueueAdvance, RingEndMarked, PostingBounded
<1>4. CASE TransmitPacket
  <2>1. pi \in Packets /\ Incr(NumPkt, pi) \in Packets
    BY IncrPackets DEF TypeOK
  <2>2. [first |-> TxDescIndex, num |-> 0] \in Tcb /\ packet[pi] \in Packet
    BY <2>1 DEF TypeOK, Tcb
  <2>3. tcb' \in [Packets -> Tcb] /\ pi' \in Packets /\ pc' \in {"packet", "post"}
    BY <1>4, <2>1, <2>2 DEF TransmitPacket, TypeOK
  <2>4. TypeOK'
    BY <1>4, <2>3 DEF TransmitPacket, TypeOK, reset, ghosts
  <2>5. pc' = "post" => tcb'[pi'].num = 0
    BY <1>4, <2>1 DEF TransmitPacket, TypeOK
  <2> QED BY <1>4, <2>2, <2>3, <2>4, <2>5
          DEF TransmitPacket, RingEndMarked, PostingBounded, Packet, TypeOK
<1>5. CASE PostDescriptorBody
  <2>1. pi \in Packets /\ packet[pi] \in Packet /\ tcb[pi] \in Tcb
    BY DEF TypeOK
  <2>2. packet[pi].frag + tcb[pi].num \in Nat
    BY <2>1 DEF Packet, Tcb, Fragments
  <2>3. FragmentIndex \in Fragments
    BY <2>2, ModInRange DEF FragmentIndex, Fragments
  <2>4. tcb[pi].num # packet[pi].count
    BY <1>5, <2>1 DEF PostDescriptorBody, HasAnyFragment, FragmentIndex, FragmentEnd,
                      Incr, Packet, Tcb, Fragments
  <2>5. tcb[pi].num < packet[pi].count
    BY <1>5, <2>1, <2>4 DEF PostDescriptorBody, PostingBounded, Packet, Tcb
  <2>6. [own |-> FALSE, fs |-> FirstSegment, ls |-> LastSegment,
         eor |-> EndOfRing, buf |-> FragmentIndex] \in TxDesc
    BY <2>3 DEF TxDesc, FirstSegment, LastSegment, EndOfRing
  <2>7. TypeOK'
    BY <1>5, <2>6 DEF PostDescriptorBody, TypeOK, reset, ghosts
  <2>8. RingEndMarked'
    BY <1>5, <1>a DEF PostDescriptorBody, RingEndMarked, EndOfRing, TypeOK
  <2> QED BY <1>5, <2>5, <2>7, <2>8 DEF PostDescriptorBody, PostingBounded
<1>6. CASE PostDescriptorOwn
  <2>1. pi \in Packets /\ packet[pi] \in Packet /\ tcb[pi] \in Tcb /\ slot \in Descriptors
        /\ tcb \in [Packets -> Tcb]
    BY DEF TypeOK
  <2>2. (TxDescIndex + 1) % NumTxDesc \in Descriptors
    <3>1. TxDescIndex + 1 \in Nat
      BY DEF TypeOK, Descriptors
    <3> QED BY <3>1, ModInRange DEF Descriptors
  <2>3. tcb[pi].num + 1 <= packet[pi].count /\ tcb[pi].num + 1 \in 0 .. MaxFrags
    BY <1>6, <2>1 DEF PostDescriptorOwn, PostingBounded, Packet, Tcb
  <2>4. tcb' \in [Packets -> Tcb]
    BY <1>6, <2>1, <2>3 DEF PostDescriptorOwn, Tcb
  <2>5. desc' \in [Descriptors -> TxDesc]
    BY <1>6, <2>1 DEF PostDescriptorOwn, TypeOK, TxDesc
  <2>6. TypeOK'
    BY <1>6, <2>2, <2>4, <2>5 DEF PostDescriptorOwn, TypeOK, reset, ghosts
  <2>7. RingEndMarked'
    BY <1>6, <1>a, <2>1 DEF PostDescriptorOwn, RingEndMarked, TypeOK, TxDesc
  <2>8. tcb'[pi].num = tcb[pi].num + 1
    BY <1>6, <2>1 DEF PostDescriptorOwn, Tcb
  <2> QED BY <1>6, <2>3, <2>6, <2>7, <2>8 DEF PostDescriptorOwn, PostingBounded
<1>7. CASE PacketPosted
  <2>1. pi \in Packets /\ packet[pi] \in Packet /\ tcb[pi] \in Tcb
    BY DEF TypeOK
  <2>2. packet[pi].frag + tcb[pi].num \in Nat
    BY <2>1 DEF Packet, Tcb, Fragments
  <2>3. FragmentIndex \in Fragments /\ Incr(NumPkt, pi) \in Packets
    BY <2>1, <2>2, ModInRange, IncrPackets DEF FragmentIndex, Fragments
  <2>4. fr' \in Ring(NumFrag)
    BY <1>7, <2>3 DEF PacketPosted, TypeOK, Ring, Fragments
  <2>5. TypeOK'
    BY <1>7, <2>3, <2>4 DEF PacketPosted, TypeOK, reset, ghosts
  <2> QED BY <1>7, <2>5 DEF PacketPosted, RingEndMarked, PostingBounded
<1>8. CASE TransmitEnd
  <2>1. pr.begin \in Packets /\ pr' \in Ring(NumPkt)
    BY <1>8 DEF TransmitEnd, TypeOK, Ring, Packets
  <2>2. nic' \in [on : BOOLEAN, poll : BOOLEAN, at : Descriptors, frame : Seq(Fragments)]
    BY <1>8 DEF TransmitEnd, TypeOK, Doorbell
  <2>3. TypeOK'
    BY <1>8, <2>1, <2>2 DEF TransmitEnd, TypeOK, reset, ghosts
  <2> QED BY <1>8, <2>3 DEF TransmitEnd, RingEndMarked, PostingBounded
<1>9. CASE CompletePacket
  <2>1. pi \in Packets /\ packet[pi] \in Packet /\ tcb[pi] \in Tcb
    BY DEF TypeOK
  <2>2. packet[pi].frag + tcb[pi].num \in Nat
    BY <2>1 DEF Packet, Tcb, Fragments
  <2>3. FragmentsDone \in Fragments /\ Incr(NumPkt, pi) \in Packets
    BY <2>1, <2>2, ModInRange, IncrPackets DEF FragmentsDone, FragmentIndex, Fragments
  <2>4. fr' \in Ring(NumFrag)
    BY <1>9, <2>3 DEF CompletePacket, TypeOK, Ring, Fragments
  <2>5. \A d \in Descriptors :
           /\ desc'[d] \in TxDesc
           /\ desc'[d].own => desc'[d] = desc[d]
    <3>1. TAKE d \in Descriptors
    <3>2. desc[d] \in TxDesc
      BY DEF TypeOK
    <3> DEFINE cleared == [desc[d] EXCEPT !.own = FALSE, !.fs = FALSE,
                                          !.ls = FALSE, !.eor = FALSE]
    <3>3. cleared \in TxDesc /\ ~cleared.own
      BY <3>2 DEF TxDesc
    <3>4. desc'[d] = desc[d] \/ desc'[d] = cleared
      BY <1>9 DEF CompletePacket
    <3> QED BY <3>2, <3>3, <3>4
  <2>6. desc' \in [Descriptors -> TxDesc]
    BY <1>9, <2>5 DEF CompletePacket, TypeOK
  <2>7. TypeOK'
    BY <1>9, <2>3, <2>4, <2>6 DEF CompletePacket, TypeOK, reset, ghosts
  <2> QED BY <1>9, <1>a, <2>5, <2>7 DEF CompletePacket, RingEndMarked, PostingBounded
<1>10. CASE CompleteEnd
  <2>1. pr' \in Ring(NumPkt)
    BY <1>10 DEF CompleteEnd, TypeOK, Ring, Packets
  <2>2. NoPacket \in Packet /\ StaleTcb \in Tcb
    BY DEF NoPacket, StaleTcb, Packet, Tcb
  <2>3. packet' \in [Packets -> Packet] /\ tcb' \in [Packets -> Tcb]
    BY <1>10, <2>2 DEF CompleteEnd, TypeOK
  <2>4. sent' \in SUBSET Packets
    BY <1>10 DEF CompleteEnd, TypeOK
  <2>5. TypeOK'
    BY <1>10, <2>1, <2>3, <2>4 DEF CompleteEnd, TypeOK, reset
  <2> QED BY <1>10, <2>5 DEF CompleteEnd, RingEndMarked, PostingBounded
<1>11. CASE NicFetch
  <2> DEFINE d == desc[nic.at]
             frame == IF d.fs THEN <<d.buf>> ELSE Append(nic.frame, d.buf)
  <2>1. nic.at \in Descriptors /\ d \in TxDesc /\ d.own
    BY <1>11 DEF NicFetch, TypeOK
  <2>2. frame \in Seq(Fragments) /\ << >> \in Seq(Fragments)
    BY <2>1 DEF TypeOK, TxDesc
  <2>3. (IF d.eor THEN 0 ELSE nic.at + 1) \in Descriptors
    BY <2>1 DEF RingEndMarked, Descriptors
  <2>4. nic' = [nic EXCEPT !.at    = IF d.eor THEN 0 ELSE @ + 1,
                           !.frame = IF d.ls THEN << >> ELSE frame]
    BY <1>11 DEF NicFetch
  <2>5. nic' \in [on : BOOLEAN, poll : BOOLEAN, at : Descriptors, frame : Seq(Fragments)]
    BY <2>2, <2>3, <2>4 DEF TypeOK
  <2>6. desc' = [desc EXCEPT ![nic.at].own = FALSE]
    BY <1>11 DEF NicFetch
  <2>7. desc' \in [Descriptors -> TxDesc]
    BY <2>1, <2>6 DEF TypeOK, TxDesc
  <2>8. \A e \in Descriptors :
           /\ desc'[e].eor = desc[e].eor
           /\ desc'[e].own => desc[e].own
    BY <2>1, <2>6 DEF TypeOK, TxDesc
  <2>9. sent' \in SUBSET Packets /\ stray' \in BOOLEAN
    BY <1>11 DEF NicFetch, TypeOK, ghosts, InFlight, Between, Packets
  <2>10. TypeOK'
    BY <1>11, <2>5, <2>7, <2>9 DEF NicFetch, TypeOK, driver, reset
  <2>11. RingEndMarked'
    BY <1>11, <1>a, <2>8 DEF NicFetch, RingEndMarked, driver, TypeOK
  <2> QED BY <1>11, <2>10, <2>11 DEF NicFetch, PostingBounded, driver
<1>12. CASE NicIdle
  <2>1. nic' \in [on : BOOLEAN, poll : BOOLEAN, at : Descriptors, frame : Seq(Fragments)]
    BY <1>12 DEF NicIdle, TypeOK
  <2>2. UNCHANGED <<driver, packet, desc, TxDescIndex, cancelled, reset, ghosts, torn>>
    BY <1>12 DEF NicIdle
  <2>3. TypeOK'
    BY <2>1, <2>2 DEF TypeOK, driver, reset, ghosts
  <2> QED BY <2>2, <2>3 DEF RingEndMarked, PostingBounded, driver
<1>13. CASE ResetStop
  <2>1. nic' \in [on : BOOLEAN, poll : BOOLEAN, at : Descriptors, frame : Seq(Fragments)]
    BY <1>13 DEF ResetStop, TypeOK
  <2>2. resets' \in 0 .. MaxResets /\ torn' \in BOOLEAN
    BY <1>13 DEF ResetStop, ResetStep, TypeOK, Quiet
  <2>3. /\ rpc' = "stopped"
        /\ UNCHANGED <<driver, packet, desc, TxDescIndex, cancelled, ghosts>>
    BY <1>13 DEF ResetStop, ResetStep
  <2>4. TypeOK'
    BY <2>1, <2>2, <2>3 DEF TypeOK, driver, ghosts
  <2> QED BY <2>3, <2>4 DEF RingEndMarked, PostingBounded, driver
<1>14. CASE ResetQueues
  <2>1. torn' \in BOOLEAN
    BY <1>14 DEF ResetQueues, ResetStep, TypeOK, Quiet
  <2>2. /\ rpc' = "rewound" /\ TxDescIndex' \in Descriptors
        /\ UNCHANGED <<driver, packet, desc, cancelled, ghosts, nic, resets>>
    BY <1>14 DEF ResetQueues, ResetStep, FirstIndex
  <2>3. TypeOK'
    BY <2>1, <2>2 DEF TypeOK, driver, ghosts
  <2> QED BY <2>2, <2>3 DEF RingEndMarked, PostingBounded, driver
<1>15. CASE ResetStart
  <2>1. nic' \in [on : BOOLEAN, poll : BOOLEAN, at : Descriptors, frame : Seq(Fragments)]
    BY <1>15 DEF ResetStart, TypeOK
  <2>2. torn' \in BOOLEAN
    BY <1>15 DEF ResetStart, ResetStep, TypeOK, Quiet
  <2>3. /\ rpc' = "none"
        /\ UNCHANGED <<driver, packet, desc, TxDescIndex, cancelled, ghosts, resets>>
    BY <1>15 DEF ResetStart, ResetStep
  <2>4. TypeOK'
    BY <2>1, <2>2, <2>3 DEF TypeOK, driver, ghosts
  <2> QED BY <2>3, <2>4 DEF RingEndMarked, PostingBounded, driver
<1>16. CASE UNCHANGED vars
  BY <1>16 DEF vars, TypeOK, RingEndMarked, PostingBounded
<1> QED
  BY <1>1, <1>2, <1>3, <1>4, <1>5, <1>6, <1>7, <1>8, <1>9, <1>10, <1>11, <1>12,
     <1>13, <1>14, <1>15, <1>16
  DEF Next, Transmit, CompleteTransmit, Nic, Reset

\* TypeOK holds in every reachable state, for rings of every size and however
\* often RtlResetLink interrupts RtTransmitPackets: the NIC, steered by the EOR
\* bits RtPostTxDescriptor sets, never leaves the descriptor ring.
THEOREM TypeCorrect == Spec => []TypeOK
<1>1. Init => IndInv
  BY InitIndInv
<1>2. IndInv /\ [Next]_vars => IndInv'
  BY NextIndInv
<1>3. IndInv => TypeOK
  BY DEF IndInv
<1> QED BY <1>1, <1>2, <1>3, PTL DEF Spec
-----------------------------------------------------------------------------
(* Where everything lies.  Places in the two rings are counted from the oldest   *)
(* packet on, which makes them plain numbers: packet i is the Pos(i)-th, and its *)
(* fragments are those from At(i) up to, and without, Past(i).                   *)

Pos(i)   == Span(NumPkt, pr.begin, i)
Start(i) == IF i = pr.end THEN fr.end ELSE packet[i].frag
Off(f)   == Span(NumFrag, Start(pr.begin), f)
At(i)    == Off(Start(i))
Past(i)  == At(i) + packet[i].count

\* The oldest packet not handed back, and the one being, or next to be, posted.
Oldest == IF pc = "drain" THEN pi ELSE pr.begin
Turn   == IF pc \in {"packet", "post", "own"} THEN pi ELSE pr.next

\* The iterator and the ring's next index are on the way from the oldest packet to
\* the end of the ring, and what is being posted is a packet with fragments.
IndicesOrdered ==
    /\ Pos(pr.next) <= Pos(pr.end)
    /\ pc \in {"packet", "post", "own"} =>
         Pos(pr.next) <= Pos(pi) /\ Pos(pi) <= Pos(pr.end)
    /\ pc \in {"post", "own"} => pi # pr.end /\ ~packet[pi].ignore
    /\ pc = "drain" => Pos(pi) <= Pos(pr.next)

\* The packets in flight divide the fragments in flight among them, in order.
FragmentsConsecutive ==
    /\ \A i \in InFlight : /\ packet[i].ignore <=> packet[i].count = 0
                           /\ At(Incr(NumPkt, i)) = Past(i)
                           /\ Past(i) <= At(pr.end)
    /\ \A i, j \in InFlight : Pos(i) < Pos(j) => Past(i) <= At(j)
    /\ \A o \in 0 .. At(pr.end) - 1 : \E i \in InFlight : At(i) <= o /\ o < Past(i)

\* The fragment ring's indices are where the packet ring's are, and the TCB of a
\* packet that was posted counts all of its fragments.
RingsInStep ==
    /\ fr.begin = Start(Oldest) /\ fr.next = Start(Turn)
    /\ \A i \in InFlight :
          Pos(i) < Pos(Turn) /\ ~packet[i].ignore => tcb[i].num = packet[i].count

OrderInv == IndInv /\ IndicesOrdered /\ FragmentsConsecutive /\ RingsInStep

\* What types alone say of places.
Places ==
    /\ {pr.begin, pr.next, pr.end} \subseteq Packets /\ InFlight \subseteq Packets
    /\ Pos(pr.begin) = 0 /\ At(pr.begin) = 0
    /\ \A i \in Packets : /\ Pos(i) \in 0 .. NumPkt - 1 /\ Start(i) \in Fragments
                          /\ At(i) \in 0 .. NumFrag - 1
                          /\ i \in InFlight <=> Pos(i) < Pos(pr.end)
    /\ \A i, j \in Packets : /\ Pos(i) = Pos(j) => i = j
                             /\ At(i) = At(j) => Start(i) = Start(j)
    /\ \A i \in InFlight : /\ Incr(NumPkt, i) \in Packets
                           /\ Pos(Incr(NumPkt, i)) = Pos(i) + 1
                           /\ Start(i) = packet[i].frag
                           /\ packet[i].count \in 0 .. MaxFrags

\* Places are numbers within the rings, and tell packets and fragments apart.
LEMMA PlacesFound == TypeOK => Places
<1> SUFFICES ASSUME TypeOK PROVE Places
  OBVIOUS
<1> USE SizeAssumption
<1>1. /\ pr.begin \in Packets /\ pr.next \in Packets /\ pr.end \in Packets
      /\ fr.end \in Fragments /\ NumPkt \in Nat \ {0} /\ NumFrag \in Nat \ {0}
      /\ \A i \in Packets : packet[i] \in Packet
  BY DEF TypeOK, Ring, Packets, Fragments
<1>2. \A i \in Packets : Start(i) \in Fragments
  BY <1>1 DEF Start, Packet
<1>3. \A i \in Packets : Pos(i) \in 0 .. NumPkt - 1 /\ At(i) \in 0 .. NumFrag - 1
  BY <1>1, <1>2, SpanValue DEF Pos, At, Off, Packets, Fragments
<1>4. Pos(pr.begin) = 0 /\ At(pr.begin) = 0
  BY <1>1, <1>2, SpanNone DEF Pos, At, Off, Packets, Fragments
<1>5. \A i \in Packets : i \in InFlight <=> Pos(i) < Pos(pr.end)
  BY DEF InFlight, Between, Pos, Packets
<1>6. InFlight \subseteq Packets
  BY DEF InFlight, Between, Packets
<1>7. \A i, j \in Packets : Pos(i) = Pos(j) => i = j
  BY <1>1, SpanDistinct DEF Pos, Packets
<1>8. \A i, j \in Packets : At(i) = At(j) => Start(i) = Start(j)
  BY <1>1, <1>2, SpanDistinct DEF At, Off, Fragments
<1>9. ASSUME NEW i \in InFlight
      PROVE  /\ Incr(NumPkt, i) \in Packets
             /\ Pos(Incr(NumPkt, i)) = Pos(i) + 1
             /\ Start(i) = packet[i].frag
             /\ packet[i].count \in 0 .. MaxFrags
  <2>1. i \in Packets /\ Pos(i) < Pos(pr.end) /\ Incr(NumPkt, i) \in Packets
    BY <1>5, <1>6, IncrPackets
  <2>2. Pos(i) # NumPkt - 1 /\ i # pr.end
    BY <1>1, <1>3, <2>1
  <2>3. Incr(NumPkt, i) # pr.begin => Pos(Incr(NumPkt, i)) = Pos(i) + 1
    BY <1>1, <2>1, SpanNext DEF Pos, Packets
  <2>4. Incr(NumPkt, i) = pr.begin => Pos(i) = NumPkt - 1
    BY <1>1, <2>1, SpanNext DEF Pos, Packets
  <2> QED
    BY <1>1, <2>1, <2>2, <2>3, <2>4 DEF Start, Packet
<1> QED
  BY <1>1, <1>2, <1>3, <1>4, <1>5, <1>6, <1>7, <1>8, <1>9 DEF Places

\* The fragments of a packet in flight lie where its place says, its end included.
LEMMA FragmentPlace ==
    ASSUME OrderInv, NEW i \in InFlight, NEW k \in Nat, k <= packet[i].count
    PROVE  /\ (packet[i].frag + k) % NumFrag \in Fragments
           /\ Off((packet[i].frag + k) % NumFrag) = At(i) + k
<1> USE SizeAssumption
<1>1. Places /\ Past(i) <= At(pr.end)
  BY PlacesFound DEF OrderInv, IndInv, FragmentsConsecutive
<1>2. /\ NumFrag \in Nat \ {0} /\ Start(pr.begin) \in 0 .. NumFrag - 1
      /\ packet[i].frag \in 0 .. NumFrag - 1 /\ k \in 0 .. NumFrag
      /\ At(i) + k < NumFrag /\ At(i) = Off(packet[i].frag)
  <2>1. /\ i \in Packets /\ pr.end \in Packets /\ pr.begin \in Packets
        /\ Start(i) = packet[i].frag /\ packet[i].count \in 0 .. MaxFrags
    BY <1>1 DEF Places
  <2>2. At(pr.end) \in 0 .. NumFrag - 1 /\ At(i) \in 0 .. NumFrag - 1
        /\ Start(i) \in Fragments /\ Start(pr.begin) \in Fragments
    BY <1>1, <2>1 DEF Places
  <2>3. At(i) = Off(packet[i].frag)
    BY <2>1 DEF At
  <2> QED
    BY <1>1, <2>1, <2>2, <2>3 DEF Past, Fragments
<1>3. (packet[i].frag + k) % NumFrag \in 0 .. NumFrag - 1
  BY <1>2, PlusValue
<1>4. Off((packet[i].frag + k) % NumFrag) = Off(packet[i].frag) + k
  BY <1>2, SpanPlus DEF Off
<1> QED
  BY <1>2, <1>3, <1>4 DEF Fragments

\* The packet after one in flight starts where that one ends.
LEMMA NextStart ==
    ASSUME OrderInv, NEW i \in InFlight
    PROVE  Start(Incr(NumPkt, i)) = (packet[i].frag + packet[i].count) % NumFrag
<1> DEFINE f == (packet[i].frag + packet[i].count) % NumFrag
           j == Incr(NumPkt, i)
<1>1. Places /\ At(j) = Past(i)
  BY PlacesFound DEF OrderInv, IndInv, FragmentsConsecutive
<1>2. /\ j \in Packets /\ packet[i].count \in Nat /\ packet[i].count <= packet[i].count
      /\ Start(j) \in Fragments /\ Start(pr.begin) \in Fragments
  BY <1>1, SizeAssumption DEF Places
<1>3. f \in Fragments /\ Off(f) = At(i) + packet[i].count
  BY <1>2, FragmentPlace
<1> HIDE DEF f, j
<1>4. Off(f) = Off(Start(j))
  BY <1>1, <1>3 DEF At, Past
<1>5. f = Start(j)
  BY <1>2, <1>3, <1>4, SizeAssumption, SpanDistinct DEF Off, Fragments
<1> QED
  BY <1>5 DEF f, j

\* Places grow along the ring.
LEMMA PlacesGrow ==
    ASSUME OrderInv, NEW i \in Packets, NEW j \in Packets, Pos(j) <= Pos(pr.end)
    PROVE  /\ Pos(i) < Pos(j) => i \in InFlight /\ Past(i) <= At(j)
           /\ Pos(i) <= Pos(j) => At(i) <= At(j)
<1>1. Places /\ FragmentsConsecutive
  BY PlacesFound DEF OrderInv, IndInv
<1>2. /\ Pos(i) \in Nat /\ Pos(j) \in Nat /\ Pos(pr.end) \in Nat
      /\ At(i) \in Nat /\ At(j) \in Nat /\ At(pr.end) \in Nat /\ pr.end \in Packets
  BY <1>1, SizeAssumption DEF Places
<1>3. CASE Pos(i) < Pos(j)
  <2>1. i \in InFlight
    BY <1>1, <1>2, <1>3 DEF Places
  <2>2. Past(i) <= At(j)
    <3>1. CASE Pos(j) < Pos(pr.end)
      BY <1>1, <1>3, <2>1, <3>1 DEF Places, FragmentsConsecutive
    <3>2. CASE j = pr.end
      BY <1>1, <2>1, <3>2 DEF FragmentsConsecutive
    <3> QED
      BY <1>1, <1>2, <3>1, <3>2 DEF Places
  <2>3. Past(i) \in Nat /\ At(i) <= Past(i)
    BY <1>1, <1>2, <2>1, SizeAssumption DEF Places, Past
  <2> QED
    BY <1>2, <2>1, <2>2, <2>3
<1>4. CASE Pos(i) = Pos(j)
  BY <1>1, <1>2, <1>4 DEF Places
<1> QED
  BY <1>2, <1>3, <1>4
-----------------------------------------------------------------------------
(* OrderInv is inductive.  Most steps move no packet; Submit adds one at the end *)
(* and CompleteEnd takes the oldest away, which shifts all the places.           *)

Still == UNCHANGED <<pr.begin, pr.end, fr.end, packet>>

\* As long as no packet comes or goes, everything keeps its place.
LEMMA PlacesKept ==
    ASSUME Still
    PROVE  /\ InFlight' = InFlight
           /\ \A i : /\ Pos(i)' = Pos(i) /\ Start(i)' = Start(i) /\ At(i)' = At(i)
                     /\ Past(i)' = Past(i) /\ FragmentsOf(i)' = FragmentsOf(i)
           /\ \A f : Off(f)' = Off(f)
           /\ FragmentsConsecutive => FragmentsConsecutive'
<1>1. /\ InFlight' = InFlight
      /\ \A i : Pos(i)' = Pos(i) /\ Start(i)' = Start(i) /\ FragmentsOf(i)' = FragmentsOf(i)
  BY DEF Still, InFlight, Between, Pos, Start, FragmentsOf
<1>2. \A f : Off(f)' = Off(f)
  BY <1>1 DEF Off, Still
<1>3. \A i : At(i)' = At(i) /\ Past(i)' = Past(i)
  BY <1>1, <1>2 DEF At, Past, Still
<1>4. FragmentsConsecutive => FragmentsConsecutive'
  BY <1>1, <1>3 DEF FragmentsConsecutive, Still
<1> QED
  BY <1>1, <1>2, <1>3, <1>4

\* In the first state there is nothing to place.
LEMMA InitOrder == Init => OrderInv
<1> SUFFICES ASSUME Init PROVE OrderInv
  OBVIOUS
<1>1. IndInv
  BY InitIndInv
<1>2. Places
  BY <1>1, PlacesFound DEF IndInv
<1>3. pr.begin = 0 /\ pr.next = 0 /\ pr.end = 0 /\ fr.begin = 0 /\ fr.next = 0 /\ fr.end = 0
      /\ pc = "idle"
  BY DEF Init, EmptyRing
<1>4. InFlight = {} /\ 0 .. At(pr.end) - 1 = {}
  BY <1>2, <1>3, SizeAssumption DEF Places
<1> QED
  BY <1>1, <1>2, <1>3, <1>4 DEF OrderInv, IndicesOrdered, FragmentsConsecutive,
     RingsInStep, Oldest, Turn, Start, Places

\* What Submit does to places: packet e, of n fragments, comes at the end of both
\* rings, and the others keep their places.
Added(e, n) ==
    /\ pr'.begin = pr.begin /\ pr'.next = pr.next /\ pr'.end = Incr(NumPkt, e)
    /\ fr'.begin = fr.begin /\ fr'.next = fr.next
    /\ pc = "idle" /\ pc' = "idle" /\ pi' = pi /\ tcb' = tcb
    /\ \A i : Pos(i)' = Pos(i)
    /\ Pos(pr.end)' = Pos(e) + 1 /\ e \notin InFlight /\ InFlight' = InFlight \cup {e}
    /\ \A i \in Packets : Pos(i) <= Pos(e) => Start(i)' = Start(i) /\ At(i)' = At(i)
    /\ \A f : Off(f)' = Off(f)
    /\ At(pr.end)' = At(e) + n
    /\ \A i \in InFlight : /\ At(i)' = At(i) /\ Past(i)' = Past(i)
                           /\ packet'[i] = packet[i] /\ i # e
    /\ At(e)' = At(e) /\ Past(e)' = At(e) + n
    /\ packet'[e].count = n /\ packet'[e].ignore = (n = 0)

\* Submit adds a packet where the ring's free elements begin.
LEMMA SubmitPlaces ==
    ASSUME OrderInv, Submit, IndInv', NEW e \in Packets, e = pr.end
    PROVE  \E n \in 0 .. MaxFrags : Added(e, n)
<1> USE SizeAssumption
<1>1. PICK n \in 0 .. MaxFrags : Submit!(n)
  BY DEF Submit
<1>2. Places /\ Places' /\ IndInv /\ TypeOK
  BY PlacesFound, PTL DEF OrderInv, IndInv
<1>3. /\ pr'.begin = pr.begin /\ pr'.next = pr.next /\ pr'.end = Incr(NumPkt, e)
      /\ fr'.begin = fr.begin /\ fr'.next = fr.next /\ fr'.end = (fr.end + n) % NumFrag
      /\ e = pr.end /\ fr.end \in Fragments
      /\ packet'[e] = [frag |-> fr.end, count |-> n, ignore |-> n = 0]
      /\ \A i \in Packets : i # e => packet'[i] = packet[i]
      /\ pc = "idle" /\ pc' = "idle" /\ pi' = pi /\ tcb' = tcb
      /\ Incr(NumPkt, e) # pr.begin
  BY <1>1, <1>2 DEF TypeOK, Ring, Packets, Fragments
<1>4. /\ \A i : Pos(i)' = Pos(i)
      /\ Pos(pr.end)' = Pos(e) + 1 /\ e \notin InFlight /\ InFlight' = InFlight \cup {e}
  <2>1. \A i : Pos(i)' = Pos(i)
    BY <1>3 DEF Pos
  <2>2. Pos(Incr(NumPkt, e)) = Pos(e) + 1
    BY <1>2, <1>3, SpanNext DEF Pos, Places, Packets
  <2>3. Pos(pr.end)' = Pos(e) + 1
    BY <1>3, <2>1, <2>2
  <2>4. e \notin InFlight
    BY <1>2, <1>3 DEF Places
  <2>5. \A i \in Packets : i \in InFlight' <=> Pos(i) < Pos(e) + 1
    BY <1>2, <2>1, <2>3 DEF Places
  <2>6. \A i \in Packets : i \in InFlight' <=> i \in InFlight \/ i = e
    BY <1>2, <1>3, <2>5 DEF Places
  <2>7. InFlight \subseteq Packets /\ InFlight' \subseteq Packets
    BY <1>2 DEF Places
  <2> QED
    BY <1>3, <2>1, <2>3, <2>4, <2>6, <2>7
<1>5. \A i \in Packets : Pos(i) <= Pos(e) => Start(i)' = Start(i)
  <2>1. \A i \in Packets : Pos(i) <= Pos(e) => i # pr'.end
    BY <1>2, <1>3, <1>4 DEF Places
  <2> QED
    BY <1>3, <2>1 DEF Start
<1>6. /\ Start(pr.begin)' = Start(pr.begin)
      /\ \A f : Off(f)' = Off(f)
      /\ \A i \in Packets : Pos(i) <= Pos(e) => At(i)' = At(i)
  <2>1. Start(pr.begin)' = Start(pr.begin)
    BY <1>2, <1>3, <1>5 DEF Places
  <2>2. \A f : Off(f)' = Off(f)
    BY <2>1 DEF Off
  <2> QED
    BY <1>5, <2>1, <2>2 DEF At
<1>7. At(pr.end)' = At(e) + n
  <2>1. fr.begin = Start(pr.begin)
    BY <1>3 DEF OrderInv, RingsInStep, Oldest
  <2>2. At(e) = Span(NumFrag, Start(pr.begin), fr.end)
    BY <1>3 DEF At, Off, Start
  <2>3. At(e) + n < NumFrag
    BY <1>1, <1>2, <1>3, <2>1, <2>2 DEF Places
  <2>4. Start(pr.begin) \in Fragments
    BY <1>2 DEF Places
  <2>5. Span(NumFrag, Start(pr.begin), (fr.end + n) % NumFrag) = At(e) + n
    BY <1>3, <2>2, <2>3, <2>4, SpanPlus DEF Fragments
  <2>6. At(pr.end)' = Off(fr.end)'
    BY DEF At, Start
  <2> QED
    BY <1>3, <1>6, <2>5, <2>6 DEF Off
<1>8. /\ \A i \in InFlight : /\ At(i)' = At(i) /\ Past(i)' = Past(i)
                             /\ packet'[i] = packet[i] /\ i # e
      /\ At(e)' = At(e) /\ Past(e)' = At(e) + n
      /\ packet'[e].count = n /\ packet'[e].ignore = (n = 0)
  <2>1. \A i \in InFlight : i \in Packets /\ i # e /\ Pos(i) <= Pos(e)
    BY <1>2, <1>3 DEF Places
  <2>2. At(e)' = At(e)
    BY <1>2, <1>3, <1>6 DEF Places
  <2>3. packet'[e].count = n /\ packet'[e].ignore = (n = 0)
    BY <1>3
  <2> QED
    BY <1>3, <1>6, <2>1, <2>2, <2>3 DEF Past
<1>9. Added(e, n)
  BY <1>3, <1>4, <1>5, <1>6, <1>7, <1>8 DEF Added
<1> QED
  BY <1>9

\* Submit keeps the order.
LEMMA SubmitOrder == OrderInv /\ Submit /\ IndInv' => OrderInv'
<1> SUFFICES ASSUME OrderInv, Submit, IndInv' PROVE OrderInv'
  OBVIOUS
<1> USE SizeAssumption
<1>1. Places /\ Places' /\ IndInv /\ TypeOK
  BY PlacesFound, PTL DEF OrderInv, IndInv
<1>2. PICK e \in Packets : e = pr.end
  BY <1>1 DEF Places
<1>3. PICK n \in 0 .. MaxFrags : Added(e, n)
  BY <1>2, SubmitPlaces
<1> USE DEF Added
<1>4. IndicesOrdered'
  BY <1>1, <1>2, <1>3 DEF IndicesOrdered, OrderInv, Places
<1>5. FragmentsConsecutive'
  <2>1. ASSUME NEW i \in InFlight'
        PROVE  /\ packet'[i].ignore <=> packet'[i].count = 0
               /\ At(Incr(NumPkt, i))' = Past(i)'
               /\ Past(i)' <= At(pr.end)'
    <3>1. CASE i = e
      <4>1. packet'[i].ignore <=> packet'[i].count = 0
        BY <1>2, <1>3, <3>1
      <4>2. At(Incr(NumPkt, i))' = At(pr.end)'
        BY <1>2, <1>3, <3>1
      <4>3. At(pr.end)' = Past(i)' /\ Past(i)' \in Int
        BY <1>1, <1>2, <1>3, <3>1 DEF Places
      <4> QED
        BY <4>1, <4>2, <4>3
    <3>2. CASE i \in InFlight
      <4>1. /\ Incr(NumPkt, i) \in Packets /\ Pos(Incr(NumPkt, i)) <= Pos(e)
            /\ At(e) \in Nat /\ Past(i) <= At(e)
        BY <1>1, <1>2, <1>3, <3>2 DEF Places, OrderInv, FragmentsConsecutive
      <4>2. At(Incr(NumPkt, i))' = At(Incr(NumPkt, i)) /\ Past(i) \in Nat
        BY <1>1, <1>2, <1>3, <3>2, <4>1 DEF Places, Past
      <4> QED
        BY <1>2, <1>3, <3>2, <4>1, <4>2 DEF OrderInv, FragmentsConsecutive
    <3> QED
      BY <1>2, <1>3, <3>1, <3>2
  <2>2. ASSUME NEW i \in InFlight', NEW j \in InFlight', Pos(i)' < Pos(j)'
        PROVE  Past(i)' <= At(j)'
    <3>1. i # e /\ i \in InFlight
      BY <1>1, <1>2, <1>3, <2>2 DEF Places
    <3>2. CASE j = e
      BY <1>2, <1>3, <3>1, <3>2 DEF OrderInv, FragmentsConsecutive
    <3>3. CASE j \in InFlight
      BY <1>2, <1>3, <2>2, <3>1, <3>3 DEF OrderInv, FragmentsConsecutive
    <3> QED
      BY <1>2, <1>3, <3>2, <3>3
  <2>3. ASSUME NEW o \in 0 .. At(pr.end)' - 1
        PROVE  \E i \in InFlight' : At(i)' <= o /\ o < Past(i)'
    <3>1. CASE o < At(e)
      <4>1. PICK i \in InFlight : At(i) <= o /\ o < Past(i)
        BY <1>1, <1>2, <1>3, <3>1 DEF Places, OrderInv, FragmentsConsecutive
      <4> QED
        BY <1>2, <1>3, <4>1
    <3>2. CASE At(e) <= o
      BY <1>1, <1>2, <1>3, <3>2 DEF Places
    <3> QED
      BY <1>1, <1>2, <1>3, <3>1, <3>2 DEF Places
  <2> QED
    BY <2>1, <2>2, <2>3 DEF FragmentsConsecutive
<1>6. RingsInStep'
  <2>1. Oldest' = Oldest /\ Turn' = Turn /\ Oldest = pr.begin /\ Turn = pr.next
    BY <1>2, <1>3 DEF Oldest, Turn
  <2>2. Start(Oldest)' = Start(Oldest) /\ Start(Turn)' = Start(Turn)
    BY <1>1, <1>2, <1>3, <2>1 DEF Places, OrderInv, IndicesOrdered
  <2>3. Pos(Turn)' <= Pos(e)
    BY <1>2, <1>3, <2>1 DEF OrderInv, IndicesOrdered
  <2>4. ~(Pos(e)' < Pos(Turn)')
    BY <1>1, <1>2, <1>3, <2>1, <2>3 DEF Places
  <2> QED
    BY <1>2, <1>3, <2>1, <2>2, <2>4 DEF RingsInStep, OrderInv
<1> QED
  BY <1>4, <1>5, <1>6 DEF OrderInv

\* CompleteEnd counts all places from a later packet, and moves none.
LEMMA CompleteEndPlaces ==
    ASSUME OrderInv, CompleteEnd, NEW p \in Packets, p = pi, NEW e \in Packets, e = pr.end
    PROVE  /\ Pos(p) <= Pos(e) /\ pr'.begin = p /\ pr'.end = e /\ pr'.next = pr.next
           /\ pc = "drain" /\ pc' = "idle" /\ fr' = fr
           /\ \A i \in Packets :
                 /\ i \in InFlight' <=> i \in InFlight /\ Pos(p) <= Pos(i)
                 /\ Pos(p) <= Pos(i) => Pos(i)' = Pos(i) - Pos(p)
                 /\ Pos(p) <= Pos(i) /\ Pos(i) <= Pos(e) =>
                      /\ Start(i)' = Start(i) /\ At(i)' = At(i) - At(p)
           /\ \A f \in Fragments : At(p) <= Off(f) => Off(f)' = Off(f) - At(p)
           /\ \A i \in InFlight' : /\ packet'[i] = packet[i] /\ tcb'[i] = tcb[i]
                                   /\ FragmentsOf(i)' = FragmentsOf(i)
                                   /\ Past(i)' = Past(i) - At(p)
           /\ InFlight' \subseteq Packets
           /\ sent' = sent \cap InFlight'
<1> USE SizeAssumption
<1>1. Places /\ IndInv /\ TypeOK
  BY PlacesFound DEF OrderInv, IndInv
<1> DEFINE held == Between(NumPkt, p, e)
<1>2. /\ pr'.begin = p /\ pr'.end = e /\ pr'.next = pr.next
      /\ pc = "drain" /\ pc' = "idle" /\ fr' = fr /\ sent' = sent \cap held
      /\ \A i \in Packets : i \in held => packet'[i] = packet[i] /\ tcb'[i] = tcb[i]
  BY <1>1 DEF CompleteEnd, TypeOK, Ring
<1>3. Pos(p) <= Pos(e) /\ Pos(p) \in Nat /\ Pos(e) \in 0 .. NumPkt - 1
  BY <1>1, <1>2 DEF OrderInv, IndicesOrdered, Places
<1>4. held = InFlight' /\ InFlight' \subseteq Packets
  BY <1>2 DEF InFlight, Between, Packets
<1>5. \A i \in Packets : Pos(i)' = IF Pos(p) <= Pos(i) THEN Pos(i) - Pos(p)
                                   ELSE Pos(i) - Pos(p) + NumPkt
  <2>1. \A i : Pos(i)' = Span(NumPkt, p, i)
    BY <1>2 DEF Pos
  <2>2. pr.begin \in 0 .. NumPkt - 1
    BY <1>1 DEF Places, Packets
  <2> QED
    BY <2>1, <2>2, SpanShift DEF Pos, Packets
<1>6. \A i \in Packets : i \in InFlight' <=> i \in InFlight /\ Pos(p) <= Pos(i)
  <2>1. \A i \in Packets : i \in InFlight' <=> Pos(i)' < Pos(e)'
    BY <1>2 DEF InFlight, Between, Pos, Packets
  <2> QED
    BY <1>1, <1>2, <1>3, <1>5, <2>1 DEF Places
<1>7. \A i \in Packets : Pos(p) <= Pos(i) /\ Pos(i) <= Pos(e) => Start(i)' = Start(i)
  <2> TAKE i \in Packets
  <2> HAVE Pos(p) <= Pos(i) /\ Pos(i) <= Pos(e)
  <2>1. CASE i = e
    BY <1>2, <2>1 DEF Start
  <2>2. CASE i # e
    <3>1. i \in InFlight' /\ i # pr'.end /\ i # pr.end
      BY <1>1, <1>2, <1>3, <1>6, <2>2 DEF Places
    <3> QED
      BY <1>2, <1>4, <3>1 DEF Start
  <2> QED
    BY <2>1, <2>2
<1>8. \A f \in Fragments : At(p) <= Off(f) => Off(f)' = Off(f) - At(p)
  <2>1. Start(pr.begin)' = Start(p)
    BY <1>1, <1>2, <1>3, <1>7 DEF Places
  <2>2. \A f : Off(f)' = Span(NumFrag, Start(p), f)
    BY <2>1 DEF Off
  <2>3. Start(p) \in 0 .. NumFrag - 1 /\ Start(pr.begin) \in 0 .. NumFrag - 1
    BY <1>1 DEF Places, Fragments
  <2> QED
    BY <2>2, <2>3, SpanShift DEF Off, At, Fragments
<1>9. \A i \in Packets : Pos(p) <= Pos(i) /\ Pos(i) <= Pos(e) => At(i)' = At(i) - At(p)
  <2> TAKE i \in Packets
  <2> HAVE Pos(p) <= Pos(i) /\ Pos(i) <= Pos(e)
  <2>1. At(p) <= At(i)
    BY <1>2, PlacesGrow
  <2>2. Start(i) \in Fragments /\ At(i) = Off(Start(i)) /\ At(i)' = Off(Start(i))'
    BY <1>1 DEF Places, At
  <2> QED
    BY <1>7, <1>8, <2>1, <2>2
<1>10. \A i \in InFlight' : /\ packet'[i] = packet[i] /\ tcb'[i] = tcb[i]
                            /\ FragmentsOf(i)' = FragmentsOf(i)
                            /\ Past(i)' = Past(i) - At(p)
  <2> TAKE i \in InFlight'
  <2>1. i \in Packets /\ i \in InFlight /\ Pos(p) <= Pos(i) /\ Pos(i) <= Pos(e)
    BY <1>1, <1>2, <1>4, <1>6 DEF Places
  <2>2. packet'[i] = packet[i] /\ tcb'[i] = tcb[i]
    BY <1>2, <1>4, <2>1
  <2>3. At(i)' = At(i) - At(p) /\ packet[i].count \in Int /\ At(i) \in Int /\ At(p) \in Int
    BY <1>1, <1>9, <2>1 DEF Places
  <2> QED
    BY <2>2, <2>3 DEF Past, FragmentsOf
<1> QED
  BY <1>2, <1>3, <1>4, <1>5, <1>6, <1>7, <1>8, <1>9, <1>10

\* CompleteEnd keeps the order.
LEMMA CompleteEndOrder == OrderInv /\ CompleteEnd /\ IndInv' => OrderInv'
<1> SUFFICES ASSUME OrderInv, CompleteEnd, IndInv' PROVE OrderInv'
  OBVIOUS
<1> USE SizeAssumption
<1>1. Places /\ pi \in Packets
  BY PlacesFound DEF OrderInv, IndInv, TypeOK
<1>2. PICK p \in Packets : p = pi
  BY <1>1
<1>3. PICK e \in Packets : e = pr.end
  BY <1>1 DEF Places
<1>4. PICK x \in Packets : x = pr.next
  BY <1>1 DEF Places
<1>5. /\ Pos(p) <= Pos(e) /\ pr'.begin = p /\ pr'.end = e /\ pr'.next = x
      /\ pc = "drain" /\ pc' = "idle" /\ fr' = fr
      /\ \A i \in Packets :
            /\ i \in InFlight' <=> i \in InFlight /\ Pos(p) <= Pos(i)
            /\ Pos(p) <= Pos(i) => Pos(i)' = Pos(i) - Pos(p)
            /\ Pos(p) <= Pos(i) /\ Pos(i) <= Pos(e) =>
                 /\ Start(i)' = Start(i) /\ At(i)' = At(i) - At(p)
      /\ \A i \in InFlight' : /\ packet'[i] = packet[i] /\ tcb'[i] = tcb[i]
                              /\ Past(i)' = Past(i) - At(p)
      /\ InFlight' \subseteq Packets
  BY <1>2, <1>3, <1>4, CompleteEndPlaces
<1>6. /\ \A i \in Packets : Pos(i) \in Int /\ At(i) \in Int
      /\ \A i \in InFlight' : /\ i \in InFlight /\ Pos(p) <= Pos(i) /\ Pos(i) < Pos(e)
                              /\ At(i) \in Int /\ Past(i) \in Int
                              /\ Pos(i)' = Pos(i) - Pos(p) /\ At(i)' = At(i) - At(p)
  BY <1>1, <1>3, <1>5 DEF Places, Past
<1>7. Pos(p) <= Pos(x) /\ Pos(x) <= Pos(e) /\ At(e)' = At(e) - At(p)
  BY <1>1, <1>2, <1>3, <1>4, <1>5, <1>6 DEF OrderInv, IndicesOrdered
<1>8. IndicesOrdered'
  <2>1. Pos(x)' <= Pos(e)'
    BY <1>5, <1>6, <1>7
  <2> QED
    BY <1>5, <2>1 DEF IndicesOrdered
<1>9. FragmentsConsecutive'
  <2>1. ASSUME NEW i \in InFlight'
        PROVE  /\ packet'[i].ignore <=> packet'[i].count = 0
               /\ At(Incr(NumPkt, i))' = Past(i)'
               /\ Past(i)' <= At(pr.end)'
    <3>1. PICK j \in Packets : j = Incr(NumPkt, i)
      BY <1>1, <1>6 DEF Places
    <3>2. Pos(j) = Pos(i) + 1 /\ At(j) = Past(i) /\ Past(i) <= At(e)
          /\ (packet[i].ignore <=> packet[i].count = 0)
      BY <1>1, <1>3, <1>6, <3>1 DEF Places, OrderInv, FragmentsConsecutive
    <3>3. At(j)' = At(j) - At(p)
      BY <1>5, <1>6, <3>2
    <3>4. At(e)' = At(pr.end)' /\ Past(i)' = Past(i) - At(p)
      BY <1>5
    <3> QED
      BY <1>5, <1>6, <1>7, <3>1, <3>2, <3>3, <3>4
  <2>2. ASSUME NEW i \in InFlight', NEW j \in InFlight', Pos(i)' < Pos(j)'
        PROVE  Past(i)' <= At(j)'
    <3>1. Pos(i) < Pos(j)
      BY <1>5, <1>6, <2>2
    <3>2. Past(i) <= At(j)
      BY <1>6, <3>1 DEF OrderInv, FragmentsConsecutive
    <3> QED
      BY <1>5, <1>6, <3>2
  <2>3. ASSUME NEW o \in 0 .. At(pr.end)' - 1
        PROVE  \E i \in InFlight' : At(i)' <= o /\ o < Past(i)'
    <3>1. At(e)' = At(pr.end)' /\ At(p) \in 0 .. NumFrag - 1 /\ At(e) \in Int
      BY <1>1, <1>5 DEF Places
    <3>2. o + At(p) \in 0 .. At(pr.end) - 1
      BY <1>3, <1>7, <3>1
    <3>3. PICK i \in InFlight : At(i) <= o + At(p) /\ o + At(p) < Past(i)
      BY <3>2 DEF OrderInv, FragmentsConsecutive
    <3>4. i \in Packets /\ Past(i) \in Int
      BY <1>1, <1>6, <3>3 DEF Places, Past
    <3>5. Pos(p) <= Pos(i)
      <4>1. ~(Pos(i) < Pos(p))
        <5>1. Pos(i) < Pos(p) => Past(i) <= At(p)
          BY <1>3, <1>5, <3>4, PlacesGrow
        <5> QED
          BY <3>1, <3>3, <3>4, <5>1
      <4> QED
        BY <1>6, <3>4, <4>1
    <3>6. i \in InFlight'
      BY <1>5, <3>4, <3>5
    <3>7. At(i)' <= o /\ o < Past(i)'
      BY <1>5, <1>6, <3>1, <3>3, <3>6
    <3> QED
      BY <3>6, <3>7
  <2> QED
    BY <2>1, <2>2, <2>3 DEF FragmentsConsecutive
<1>10. RingsInStep'
  <2>1. Oldest = p /\ Turn = x /\ Oldest' = p /\ Turn' = x
    BY <1>2, <1>4, <1>5 DEF Oldest, Turn
  <2>2. Start(p)' = Start(p) /\ Start(x)' = Start(x)
    BY <1>5, <1>6, <1>7
  <2>3. \A i \in InFlight' : Pos(i)' < Pos(x)' => Pos(i) < Pos(x)
    BY <1>5, <1>6, <1>7
  <2> QED
    BY <1>5, <1>6, <2>1, <2>2, <2>3 DEF RingsInStep, OrderInv
<1> QED
  BY <1>8, <1>9, <1>10 DEF OrderInv
\* The packet the iterator is at is in flight, wherever it is looked at.
LEMMA IteratorInFlight ==
    ASSUME OrderInv
    PROVE  /\ pc = "packet" /\ pi # pr.end => pi \in InFlight
           /\ pc \in {"post", "own"} => pi \in InFlight
           /\ pc = "drain" /\ pi # pr.next => pi \in InFlight /\ Pos(pi) < Pos(pr.next)
<1> USE SizeAssumption
<1>1. Places /\ pi \in Packets /\ IndicesOrdered
  BY PlacesFound DEF OrderInv, IndInv, TypeOK
<1>2. /\ Pos(pi) \in Int /\ Pos(pr.end) \in Int /\ Pos(pr.next) \in Int
      /\ pi # pr.end => Pos(pi) # Pos(pr.end)
      /\ pi # pr.next => Pos(pi) # Pos(pr.next)
      /\ pi \in InFlight <=> Pos(pi) < Pos(pr.end)
  BY <1>1 DEF Places
<1> QED
  BY <1>1, <1>2 DEF IndicesOrdered

\* A packet is posted when the fragment iterator has come to its end.
LEMMA PostedWhole ==
    ASSUME OrderInv, pc = "post", ~HasAnyFragment
    PROVE  tcb[pi].num = packet[pi].count
<1> USE SizeAssumption
<1>1. /\ pi \in Packets /\ tcb[pi].num \in Nat /\ tcb[pi].num <= packet[pi].count
      /\ packet[pi].count \in Nat /\ packet[pi].count <= packet[pi].count
  BY DEF OrderInv, IndInv, TypeOK, PostingBounded, Packet, Tcb
<1>2. pi \in InFlight
  BY IteratorInFlight
<1>3. packet[pi].frag \in Nat
  BY <1>1 DEF OrderInv, IndInv, TypeOK, Packet, Fragments
<1>4. (packet[pi].frag + tcb[pi].num) % NumFrag = (packet[pi].frag + packet[pi].count) % NumFrag
  BY <1>1, <1>3 DEF HasAnyFragment, FragmentIndex, FragmentEnd, Incr
<1>5. At(pi) + tcb[pi].num = At(pi) + packet[pi].count
  BY <1>1, <1>2, <1>4, FragmentPlace
<1>6. At(pi) \in Int
  BY <1>1, PlacesFound DEF Places, OrderInv, IndInv
<1> QED
  BY <1>1, <1>5, <1>6

\* An ignored packet has no fragments: the next one starts where it does.
LEMMA IgnoredStart ==
    ASSUME OrderInv, NEW i \in InFlight, packet[i].ignore
    PROVE  Start(Incr(NumPkt, i)) = Start(i) /\ At(Incr(NumPkt, i)) = At(i)
<1>1. Places /\ At(Incr(NumPkt, i)) = Past(i) /\ packet[i].count = 0
  BY PlacesFound DEF OrderInv, IndInv, FragmentsConsecutive
<1>2. i \in Packets /\ Incr(NumPkt, i) \in Packets /\ At(i) \in Int
  BY <1>1, SizeAssumption DEF Places
<1>3. At(Incr(NumPkt, i)) = At(i)
  BY <1>1, <1>2 DEF Past
<1> QED
  BY <1>1, <1>2, <1>3 DEF Places

\* Every step keeps the order.
LEMMA NextOrder == OrderInv /\ [Next]_vars => OrderInv'
<1> SUFFICES ASSUME OrderInv, [Next]_vars PROVE OrderInv'
  OBVIOUS
<1>1. IndInv'
  BY NextIndInv DEF OrderInv
<1>2. Places /\ IndInv /\ TypeOK /\ pi \in Packets
  BY PlacesFound DEF OrderInv, IndInv, TypeOK
<1>3. CASE Submit
  BY <1>1, <1>3, SubmitOrder
<1>4. CASE CompleteEnd
  BY <1>1, <1>4, CompleteEndOrder
<1>5. CASE Still /\ UNCHANGED driver
  <2>1. pr' = pr /\ fr' = fr /\ tcb' = tcb /\ packet' = packet /\ pc' = pc /\ pi' = pi
    BY <1>5 DEF driver, Still
  <2>2. Oldest' = Oldest /\ Turn' = Turn
    BY <2>1 DEF Oldest, Turn
  <2>3. IndicesOrdered'
    BY <1>5, <2>1, PlacesKept DEF OrderInv, IndicesOrdered
  <2>4. RingsInStep'
    BY <1>5, <2>1, <2>2, PlacesKept DEF OrderInv, RingsInStep
  <2> QED
    BY <1>1, <1>5, <2>3, <2>4, PlacesKept DEF OrderInv
<1>6. CASE EvtTxQueueAdvance
  <2>1. Still /\ pr' = pr /\ fr' = fr /\ tcb' = tcb /\ pc = "idle" /\ pc' = "packet"
        /\ pi' = pr.next
    BY <1>6 DEF EvtTxQueueAdvance, Still
  <2>2. Oldest' = Oldest /\ Turn' = Turn
    BY <2>1 DEF Oldest, Turn
  <2>3. IndicesOrdered'
    BY <1>2, <2>1, PlacesKept DEF OrderInv, IndicesOrdered, Places
  <2> QED
    BY <1>1, <2>1, <2>2, <2>3, PlacesKept DEF OrderInv, RingsInStep, Still
<1>7. CASE TransmitPacket
  <2>1. /\ Still /\ pr' = pr /\ fr' = fr /\ pc = "packet" /\ pi # pr.end
        /\ pi \in InFlight
    BY <1>7, IteratorInFlight DEF TransmitPacket, Still
  <2>2. CASE packet[pi].ignore
    <3>1. tcb' = tcb /\ pc' = "packet" /\ pi' = Incr(NumPkt, pi)
      BY <1>7, <2>1, <2>2 DEF TransmitPacket
    <3>2. Oldest' = Oldest /\ Turn = pi /\ Turn' = Incr(NumPkt, pi)
      BY <2>1, <3>1 DEF Oldest, Turn
    <3>3. /\ Pos(Incr(NumPkt, pi)) = Pos(pi) + 1 /\ Pos(pi) < Pos(pr.end)
          /\ \A i \in InFlight : Pos(i) < Pos(pi) + 1 => Pos(i) < Pos(pi) \/ i = pi
          /\ Pos(pi) \in Int /\ Pos(pr.end) \in Int /\ Pos(pr.next) \in Int
      BY <1>2, <2>1, SizeAssumption DEF Places
    <3>4. Start(Incr(NumPkt, pi)) = Start(pi)
      BY <2>1, <2>2, IgnoredStart
    <3>5. IndicesOrdered'
      BY <2>1, <3>1, <3>3, PlacesKept DEF OrderInv, IndicesOrdered
    <3>6. RingsInStep'
      BY <2>1, <2>2, <3>1, <3>2, <3>3, <3>4, PlacesKept DEF OrderInv, RingsInStep, Still
    <3> QED
      BY <1>1, <2>1, <3>5, <3>6, PlacesKept DEF OrderInv
  <2>3. CASE ~packet[pi].ignore
    <3>1. /\ pc' = "post" /\ pi' = pi /\ \A i \in Packets : i # pi => tcb'[i] = tcb[i]
      BY <1>2, <1>7, <2>1, <2>3 DEF TransmitPacket, TypeOK
    <3>2. Oldest' = Oldest /\ Turn = pi /\ Turn' = pi
      BY <2>1, <3>1 DEF Oldest, Turn
    <3>3. IndicesOrdered'
      BY <2>1, <2>3, <3>1, PlacesKept DEF OrderInv, IndicesOrdered, Still
    <3>4. \A i \in InFlight : Pos(i) < Pos(pi) => i \in Packets /\ i # pi
      BY <1>2 DEF Places
    <3>5. RingsInStep'
      BY <2>1, <3>1, <3>2, <3>4, PlacesKept DEF OrderInv, RingsInStep, Still
    <3> QED
      BY <1>1, <2>1, <3>3, <3>5, PlacesKept DEF OrderInv
  <2> QED
    BY <2>2, <2>3
<1>8. CASE PostDescriptorBody
  <2>1. /\ Still /\ pr' = pr /\ fr' = fr /\ tcb' = tcb /\ pc = "post" /\ pc' = "own"
        /\ pi' = pi
    BY <1>8 DEF PostDescriptorBody, Still
  <2>2. Oldest' = Oldest /\ Turn' = Turn
    BY <2>1 DEF Oldest, Turn
  <2>3. IndicesOrdered'
    BY <2>1, PlacesKept DEF OrderInv, IndicesOrdered, Still
  <2> QED
    BY <1>1, <2>1, <2>2, <2>3, PlacesKept DEF OrderInv, RingsInStep, Still
<1>9. CASE PostDescriptorOwn
  <2>1. /\ Still /\ pr' = pr /\ fr' = fr /\ pc = "own" /\ pc' = "post" /\ pi' = pi
        /\ \A i \in Packets : i # pi => tcb'[i] = tcb[i]
    BY <1>2, <1>9 DEF PostDescriptorOwn, Still, TypeOK
  <2>2. Oldest' = Oldest /\ Turn = pi /\ Turn' = pi
    BY <2>1 DEF Oldest, Turn
  <2>3. IndicesOrdered'
    BY <2>1, PlacesKept DEF OrderInv, IndicesOrdered, Still
  <2>4. \A i \in InFlight : Pos(i) < Pos(pi) => i \in Packets /\ i # pi
    BY <1>2 DEF Places
  <2>5. RingsInStep'
    BY <2>1, <2>2, <2>4, PlacesKept DEF OrderInv, RingsInStep, Still
  <2> QED
    BY <1>1, <2>1, <2>3, <2>5, PlacesKept DEF OrderInv
<1>10. CASE PacketPosted
  <2>1. /\ Still /\ pr' = pr /\ fr'.begin = fr.begin /\ fr'.next = FragmentIndex
        /\ tcb' = tcb /\ packet' = packet
        /\ pc = "post" /\ pc' = "packet" /\ pi' = Incr(NumPkt, pi) /\ pi \in InFlight
        /\ tcb[pi].num = packet[pi].count
    BY <1>2, <1>10, IteratorInFlight, PostedWhole
       DEF PacketPosted, Still, TypeOK, Ring
  <2>2. Oldest' = Oldest /\ Turn = pi /\ Turn' = Incr(NumPkt, pi)
    BY <2>1 DEF Oldest, Turn
  <2>3. /\ Pos(Incr(NumPkt, pi)) = Pos(pi) + 1 /\ Pos(pi) < Pos(pr.end)
        /\ \A i \in InFlight : Pos(i) < Pos(pi) + 1 => Pos(i) < Pos(pi) \/ i = pi
        /\ Pos(pi) \in Int /\ Pos(pr.end) \in Int /\ Pos(pr.next) \in Int
    BY <1>2, <2>1, SizeAssumption DEF Places
  <2>4. fr'.next = Start(Incr(NumPkt, pi))
    BY <2>1, NextStart DEF FragmentIndex
  <2>5. IndicesOrdered'
    BY <2>1, <2>3, PlacesKept DEF OrderInv, IndicesOrdered
  <2>6. RingsInStep'
    BY <2>1, <2>2, <2>3, <2>4, PlacesKept DEF OrderInv, RingsInStep
  <2> QED
    BY <1>1, <2>1, <2>5, <2>6, PlacesKept DEF OrderInv
<1>11. CASE TransmitEnd
  <2>1. /\ Still /\ pr'.begin = pr.begin /\ pr'.next = pi /\ pr'.end = pr.end
        /\ fr' = fr /\ tcb' = tcb /\ packet' = packet /\ pi = pr.end
        /\ pc = "packet" /\ pc' = "drain" /\ pi' = pr.begin
    BY <1>2, <1>11 DEF TransmitEnd, Still, TypeOK, Ring
  <2>2. Oldest' = Oldest /\ Turn' = Turn
    BY <2>1 DEF Oldest, Turn
  <2>3. Pos(pr.begin) = 0 /\ Pos(pr.end) \in Nat
    BY <1>2, SizeAssumption DEF Places
  <2>4. IndicesOrdered'
    BY <2>1, <2>3, PlacesKept DEF IndicesOrdered
  <2> QED
    BY <1>1, <2>1, <2>2, <2>4, PlacesKept DEF OrderInv, RingsInStep
<1>12. CASE CompletePacket
  <2>1. /\ Still /\ pr' = pr /\ fr'.next = fr.next /\ tcb' = tcb /\ packet' = packet
        /\ pc = "drain" /\ pc' = "drain" /\ pi' = Incr(NumPkt, pi)
        /\ pi \in InFlight /\ Pos(pi) < Pos(pr.next)
    BY <1>2, <1>12, IteratorInFlight DEF CompletePacket, Still, TypeOK, Ring
  <2>2. Oldest = pi /\ Oldest' = Incr(NumPkt, pi) /\ Turn = pr.next /\ Turn' = pr.next
    BY <2>1 DEF Oldest, Turn
  <2>3. /\ Pos(Incr(NumPkt, pi)) = Pos(pi) + 1
        /\ Pos(pi) \in Int /\ Pos(pr.end) \in Int /\ Pos(pr.next) \in Int
    BY <1>2, <2>1, SizeAssumption DEF Places
  <2>4. fr'.begin = Start(Incr(NumPkt, pi))
    <3>1. CASE packet[pi].ignore
      BY <1>12, <2>1, <2>2, <3>1, IgnoredStart DEF CompletePacket, OrderInv, RingsInStep
    <3>2. CASE ~packet[pi].ignore
      <4>1. tcb[pi].num = packet[pi].count
        BY <2>1, <2>2, <3>2 DEF OrderInv, RingsInStep
      <4>2. fr'.begin = FragmentsDone
        BY <1>2, <1>12, <3>2 DEF CompletePacket, TypeOK, Ring
      <4> QED
        BY <2>1, <4>1, <4>2, NextStart DEF FragmentsDone, FragmentIndex
    <3> QED
      BY <3>1, <3>2
  <2>5. IndicesOrdered'
    BY <2>1, <2>3, PlacesKept DEF OrderInv, IndicesOrdered
  <2>6. RingsInStep'
    BY <2>1, <2>2, <2>4, PlacesKept DEF OrderInv, RingsInStep
  <2> QED
    BY <1>1, <2>1, <2>5, <2>6, PlacesKept DEF OrderInv
<1>13. CASE EvtTxQueueCancel \/ Nic \/ Reset \/ UNCHANGED vars
  <2>1. Still /\ UNCHANGED driver
    BY <1>13 DEF EvtTxQueueCancel, Nic, NicFetch, NicIdle, Reset, ResetStop, ResetQueues,
                 ResetStart, ResetStep, Still, driver, vars
  <2> QED
    BY <1>5, <2>1
<1> QED
  BY <1>3, <1>4, <1>6, <1>7, <1>8, <1>9, <1>10, <1>11, <1>12, <1>13
  DEF Next, Transmit, CompleteTransmit

\* The order of packets and fragments holds whatever RtlResetLink does.
LEMMA OrderKept == Spec => []OrderInv
  BY InitOrder, NextOrder, PTL DEF Spec

\* FragmentsFollowPackets: between calls of EvtTxQueueAdvance the fragments handed
\* back are those of the packets handed back, however RtCompleteTransmitPackets
\* and PacketPosted interleave the two rings' indices.
THEOREM FragmentsFollow == Spec => []FragmentsFollowPackets
<1>1. ASSUME OrderInv PROVE FragmentsFollowPackets
  <2> SUFFICES ASSUME pc = "idle" PROVE FragmentsFollowPackets
    BY DEF FragmentsFollowPackets
  <2> DEFINE posted == {i \in Between(NumPkt, pr.begin, pr.next) : ~packet[i].ignore}
  <2>1. Places /\ fr.begin = Start(pr.begin) /\ fr.next = Start(pr.next)
    BY <1>1, PlacesFound DEF OrderInv, IndInv, RingsInStep, Oldest, Turn
  <2>2. \A i : i \in Between(NumPkt, pr.begin, pr.next)
                 <=> i \in Packets /\ Pos(i) < Pos(pr.next)
    BY DEF Between, Pos, Packets
  <2>3. ASSUME NEW x \in Packets, Pos(x) <= Pos(pr.end), At(x) > 0
        PROVE  \E j \in Packets : Pos(j) < Pos(x) /\ ~packet[j].ignore
    <3>1. At(x) <= At(pr.end) /\ At(x) \in Nat /\ At(pr.end) \in Nat
      BY <1>1, <2>1, <2>3, PlacesGrow, SizeAssumption DEF Places
    <3>2. 0 \in 0 .. At(pr.end) - 1
      BY <2>3, <3>1
    <3>3. PICK j \in InFlight : At(j) <= 0 /\ 0 < Past(j)
      BY <1>1, <3>2 DEF OrderInv, FragmentsConsecutive
    <3>4. j \in Packets /\ Pos(j) \in Int /\ Pos(x) \in Int /\ At(j) = 0 /\ ~packet[j].ignore
      BY <1>1, <2>1, <3>3 DEF Places, OrderInv, FragmentsConsecutive, Past
    <3>5. ~(Pos(x) <= Pos(j))
      <4>1. Pos(j) <= Pos(pr.end)
        BY <2>1, <3>3, <3>4 DEF Places
      <4>2. Pos(x) <= Pos(j) => At(x) <= At(j)
        BY <1>1, <3>4, <4>1, PlacesGrow
      <4> QED
        BY <2>3, <3>1, <3>4, <4>2
    <3> QED
      BY <3>4, <3>5
  <2>4. posted = {} => fr.begin = fr.next
    <3>1. pr.next \in Packets /\ Pos(pr.next) <= Pos(pr.end)
      BY <1>1, <2>1 DEF Places, OrderInv, IndicesOrdered
    <3>2. posted = {} => ~(At(pr.next) > 0)
      BY <2>2, <2>3, <3>1
    <3>3. posted = {} => At(pr.next) = At(pr.begin)
      BY <2>1, <3>1, <3>2 DEF Places
    <3> QED
      BY <2>1, <3>1, <3>3 DEF Places
  <2>5. ASSUME NEW i \in posted,
               \A j \in Between(NumPkt, pr.begin, i) : packet[j].ignore
        PROVE  fr.begin = packet[i].frag
    <3>1. i \in Packets /\ Pos(i) < Pos(pr.next)
      BY <2>2
    <3>2. i \in InFlight /\ Pos(i) <= Pos(pr.end)
      BY <1>1, <2>1, <3>1 DEF Places, OrderInv, IndicesOrdered
    <3>3. \A j \in Packets : Pos(j) < Pos(i) => packet[j].ignore
      BY <2>5 DEF Between, Pos, Packets
    <3>4. ~(At(i) > 0)
      BY <2>3, <3>1, <3>2, <3>3
    <3>5. At(i) = At(pr.begin) /\ Start(i) = packet[i].frag
      BY <2>1, <3>1, <3>2, <3>4 DEF Places
    <3> QED
      BY <2>1, <3>1, <3>5 DEF Places
  <2> QED
    BY <2>4, <2>5 DEF FragmentsFollowPackets
<1> QED
  BY <1>1, OrderKept, PTL

------------------------------------------------------------------------------
(* The driver and the NIC in step.                                              *)


\* Fragments posted, counted like places.
Posted == IF pc \in {"post", "own"} THEN At(pi) + tcb[pi].num ELSE At(Turn)

\* Where the NIC will look next, and how far ahead of it descriptor d is.
Site     == IF rpc = "rewound" THEN 0 ELSE nic.at
Ahead(d) == Span(NumTxDesc, Site, d)

\* Descriptors posted and not yet taken, and the place of the next to be taken.
Unsent == IF ~desc[Site].own THEN 0
          ELSE IF TxDescIndex = Site THEN NumTxDesc ELSE Ahead(TxDescIndex)
Wire   == Posted - Unsent

\* The NIC owns the u descriptors from where it is to where the driver is.
OwnedAhead(u) ==
    /\ TxDescIndex = (Site + u) % NumTxDesc
    /\ \A d \in Descriptors : desc[d].own <=> Ahead(d) < u

\* What descriptor d has to hold for the fragment at place o.
Describes(r, o, d) ==
    /\ Off(r.buf) = o /\ (r.eor <=> d = NumTxDesc - 1)
    /\ \E i \in InFlight : /\ ~packet[i].ignore /\ At(i) <= o /\ o < Past(i)
                           /\ r.fs <=> o = At(i)
                           /\ r.ls <=> o + 1 = Past(i)

\* The descriptors the NIC owns hold the fragments still to be sent, in order, and
\* none of them was handed back.
DescriptorsInStep ==
    /\ OwnedAhead(Unsent) /\ At(Oldest) <= Wire
    /\ \A d \in Descriptors : desc[d].own => Describes(desc[d], Wire + Ahead(d), d)
    /\ pc = "own" => slot = TxDescIndex /\ Describes(desc[slot], Posted, slot)

\* The packets that were posted, wholly or in part, and not handed back.
Live(i) == /\ i \in InFlight /\ ~packet[i].ignore /\ Pos(Oldest) <= Pos(i)
           /\ Pos(i) < Pos(Turn) \/ (i = pi /\ pc \in {"post", "own"})

\* A live packet's TCB leads, over what was posted since, to TxDescIndex.
TcbsInStep ==
    \A i \in Packets :
        Live(i) => TxDescIndex = (tcb[i].first + (Posted - At(i))) % NumTxDesc

\* The NIC has gathered what was sent of the packet it is in the middle of.
FrameSoFar ==
    /\ nic.frame # << >> => \E i \in InFlight : At(i) < Wire /\ Wire < Past(i)
    /\ \A i \in InFlight :
          At(i) < Wire /\ Wire < Past(i) =>
             nic.frame = SubSeq(FragmentsOf(i), 1, Wire - At(i))

\* Exactly the packets whose last fragment was sent are recorded as sent.
SentSoFar ==
    /\ ~stray /\ sent \subseteq InFlight
    /\ \A i \in InFlight : i \in sent <=> ~packet[i].ignore /\ Past(i) <= Wire

\* A NIC that has stopped polling with descriptors to take will be told of them.
Rung ==
    Unsent > 0 /\ rpc = "none" /\ ~nic.poll =>
        \/ programmed /\ pc \in {"packet", "post", "own"}
        \/ pc \in {"post", "own"} /\ tcb[pi].num > 0

Lockstep == DescriptorsInStep /\ TcbsInStep /\ FrameSoFar /\ SentSoFar /\ Rung

\* The transmitter is off exactly inside RtlResetLink.
ResetInv ==
    /\ nic.on <=> rpc = "none"
    /\ MaxResets = 0 => rpc = "none" /\ ~torn

LockInv == OrderInv /\ ResetInv /\ (~torn => Lockstep)

-----------------------------------------------------------------------------
(* The numbers these definitions speak of. *)

\* What the order of packets and fragments says of them.
Bounds ==
    /\ {Oldest, Turn} \subseteq Packets /\ Pos(Oldest) <= Pos(Turn)
    /\ Pos(Turn) <= Pos(pr.end)
    /\ Posted \in Nat /\ At(Turn) <= Posted /\ Posted <= At(pr.end)
    /\ At(pr.end) \in Nat /\ At(pr.end) <= NumTxDesc
    /\ pc \in {"post", "own"} => /\ pi \in InFlight /\ ~packet[pi].ignore
                                 /\ Posted = At(pi) + tcb[pi].num
                                 /\ tcb[pi].num \in Nat /\ Posted <= Past(pi)
    /\ pc = "own" => Posted < Past(pi)
    /\ Site \in Descriptors /\ \A d \in Descriptors : Ahead(d) \in 0 .. NumTxDesc - 1
    /\ Ahead(Site) = 0
    /\ Unsent \in 0 .. NumTxDesc

\* The bounds follow from the order of the rings.
LEMMA BoundsHold == OrderInv => Bounds
<1> SUFFICES ASSUME OrderInv PROVE Bounds
  OBVIOUS
<1> USE SizeAssumption, NumTxDescType
<1>1. Places /\ TypeOK /\ IndicesOrdered /\ FragmentsConsecutive
  BY PlacesFound DEF OrderInv, IndInv
<1>2. {Oldest, Turn, pr.end, pr.next, pr.begin, pi} \subseteq Packets
  BY <1>1 DEF Places, TypeOK, Oldest, Turn
<1>3. /\ \A i \in Packets : Pos(i) \in Nat /\ At(i) \in Nat
      /\ At(pr.end) <= NumFrag - 1 /\ NumFrag - 1 <= NumTxDesc
  BY <1>1, <1>2 DEF Places, NumTxDesc
<1>4. Pos(Oldest) <= Pos(Turn) /\ Pos(Turn) <= Pos(pr.end)
  <2>1. Pos(pr.begin) = 0
    BY <1>1 DEF Places
  <2> QED
    BY <1>1, <1>2, <1>3, <2>1 DEF IndicesOrdered, Oldest, Turn
<1>5. At(Turn) <= At(pr.end)
  BY <1>2, <1>3, <1>4, PlacesGrow
<1>6. ASSUME pc \in {"post", "own"}
      PROVE  /\ pi \in InFlight /\ ~packet[pi].ignore
             /\ Posted = At(pi) + tcb[pi].num
             /\ tcb[pi].num \in Nat /\ Posted <= Past(pi) /\ Turn = pi
             /\ pc = "own" => Posted < Past(pi)
             /\ Past(pi) <= At(pr.end) /\ Past(pi) \in Nat
  <2>1. pi \in InFlight /\ ~packet[pi].ignore
    BY <1>1, <1>6, IteratorInFlight DEF IndicesOrdered
  <2>2. tcb[pi].num \in Nat /\ packet[pi].count \in Nat
    BY <1>1, <1>2 DEF TypeOK, Tcb, Packet
  <2>3. Posted = At(pi) + tcb[pi].num /\ Turn = pi
    BY <1>6 DEF Posted, Turn
  <2>4. tcb[pi].num <= packet[pi].count /\ (pc = "own" => tcb[pi].num < packet[pi].count)
    BY <1>6, <2>2 DEF OrderInv, IndInv, PostingBounded
  <2>5. Past(pi) <= At(pr.end)
    BY <1>1, <2>1 DEF FragmentsConsecutive
  <2> QED
    BY <1>2, <1>3, <2>1, <2>2, <2>3, <2>4, <2>5 DEF Past
<1>7. Posted \in Nat /\ At(Turn) <= Posted /\ Posted <= At(pr.end)
  <2>1. CASE pc \in {"post", "own"}
    BY <1>2, <1>3, <1>6, <2>1
  <2>2. CASE pc \notin {"post", "own"}
    BY <1>2, <1>3, <1>5, <2>2 DEF Posted
  <2> QED
    BY <2>1, <2>2
<1>8. Site \in Descriptors
  BY <1>1, ZeroInRings DEF Site, TypeOK
<1>9. \A d \in Descriptors : Ahead(d) \in 0 .. NumTxDesc - 1
  BY <1>8, SpanValue DEF Ahead, Descriptors
<1>10. Ahead(Site) = 0
  BY <1>8, SpanNone DEF Ahead, Descriptors
<1>11. Unsent \in 0 .. NumTxDesc
  BY <1>1, <1>9 DEF Unsent, TypeOK
<1> QED
  BY <1>2, <1>3, <1>4, <1>6, <1>7, <1>8, <1>9, <1>10, <1>11 DEF Bounds

\* The number of descriptors still to be taken can be read off the ring.
UnsentDetermined == \A u \in 0 .. NumTxDesc : OwnedAhead(u) => Unsent = u

\* If the NIC owns the u descriptors up to TxDescIndex, then u is what Unsent says.
LEMMA UnsentFound == OrderInv => UnsentDetermined
<1> SUFFICES ASSUME OrderInv, NEW u \in 0 .. NumTxDesc, OwnedAhead(u) PROVE Unsent = u
  BY DEF UnsentDetermined
<1> USE NumTxDescType
<1>1. Site \in 0 .. NumTxDesc - 1 /\ Site \in Descriptors /\ Ahead(Site) = 0
  BY BoundsHold DEF Bounds, Descriptors
<1>2. desc[Site].own <=> 0 < u
  BY <1>1 DEF OwnedAhead
<1>3. CASE u = 0
  BY <1>2, <1>3 DEF Unsent
<1>4. CASE u = NumTxDesc
  <2>1. TxDescIndex = Site
    BY <1>1, <1>4, OneTurn DEF OwnedAhead
  <2> QED
    BY <1>2, <1>4, <2>1 DEF Unsent
<1>5. CASE 0 < u /\ u < NumTxDesc
  <2>1. Ahead(TxDescIndex) = u
    BY <1>1, <1>5, SpanPlus DEF OwnedAhead, Ahead
  <2>2. TxDescIndex # Site
    BY <1>1, <1>5, <2>1
  <2> QED
    BY <1>2, <1>5, <2>1, <2>2 DEF Unsent
<1> QED
  BY <1>3, <1>4, <1>5

\* A descriptor the NIC owns lies between it and the driver.
LEMMA WireBounds ==
    ASSUME OrderInv, DescriptorsInStep
    PROVE  /\ Wire \in Nat /\ At(Oldest) \in Nat /\ At(Oldest) <= Wire
           /\ Wire + Unsent = Posted /\ Wire <= Posted
           /\ TxDescIndex = (Site + Unsent) % NumTxDesc
           /\ \A d \in Descriptors : desc[d].own <=> Ahead(d) < Unsent
<1>1. Bounds /\ Places
  BY BoundsHold, PlacesFound DEF OrderInv, IndInv
<1>2. At(Oldest) \in Nat /\ Posted \in Nat /\ Unsent \in Nat
  BY <1>1, SizeAssumption, NumTxDescType DEF Bounds, Places
<1> QED
  BY <1>2 DEF DescriptorsInStep, OwnedAhead, Wire
-----------------------------------------------------------------------------
(* Most steps neither post nor take a descriptor. *)

\* No packet comes or goes, nothing is posted and no descriptor is taken; those the
\* NIC does not own may be written to.
Fixed ==
    /\ Still /\ UNCHANGED <<TxDescIndex, Site, Posted>>
    /\ \A d \in Descriptors : /\ desc'[d].own <=> desc[d].own
                              /\ desc[d].own => desc'[d] = desc[d]

\* Then the descriptors still to be taken are the same, and so is what they hold.
LEMMA FixedKept ==
    ASSUME OrderInv, Fixed
    PROVE  /\ Unsent' = Unsent /\ Wire' = Wire
           /\ \A r, o, d : Describes(r, o, d)' <=> Describes(r, o, d)
           /\ DescriptorsInStep /\ At(Oldest)' <= Wire =>
                /\ OwnedAhead(Unsent)' /\ At(Oldest)' <= Wire'
                /\ \A d \in Descriptors :
                      desc'[d].own => Describes(desc[d], Wire + Ahead(d), d)'
           /\ FrameSoFar /\ nic'.frame = nic.frame => FrameSoFar'
           /\ SentSoFar /\ UNCHANGED ghosts => SentSoFar'
           /\ TcbsInStep /\ (\A i \in Packets : Live(i)' => Live(i) /\ tcb'[i] = tcb[i])
                => TcbsInStep'
<1>1. /\ InFlight' = InFlight /\ packet' = packet
      /\ \A i : /\ At(i)' = At(i) /\ Past(i)' = Past(i)
                /\ FragmentsOf(i)' = FragmentsOf(i)
      /\ \A f : Off(f)' = Off(f)
      /\ TxDescIndex' = TxDescIndex /\ Site' = Site /\ Posted' = Posted
  BY PlacesKept DEF Fixed, Still
<1>2. \A d : Ahead(d)' = Ahead(d)
  BY <1>1 DEF Ahead
<1>3. Unsent' = Unsent
  <2>1. desc'[Site].own <=> desc[Site].own
    BY BoundsHold DEF Bounds, Fixed
  <2> QED
    BY <1>1, <1>2, <2>1 DEF Unsent
<1>4. Wire' = Wire
  BY <1>1, <1>3 DEF Wire
<1>5. \A r, o, d : Describes(r, o, d)' <=> Describes(r, o, d)
  BY <1>1 DEF Describes
<1>6. ASSUME DescriptorsInStep, At(Oldest)' <= Wire
      PROVE  /\ OwnedAhead(Unsent)' /\ At(Oldest)' <= Wire'
             /\ \A d \in Descriptors :
                   desc'[d].own => Describes(desc[d], Wire + Ahead(d), d)'
  <2>1. OwnedAhead(Unsent)'
    BY <1>1, <1>2, <1>3, <1>6 DEF DescriptorsInStep, OwnedAhead, Fixed
  <2>2. ASSUME NEW d \in Descriptors, desc'[d].own
        PROVE  Describes(desc[d], Wire + Ahead(d), d)'
    <3>1. desc'[d] = desc[d] /\ Describes(desc[d], Wire + Ahead(d), d)
      BY <1>6, <2>2 DEF DescriptorsInStep, Fixed
    <3> QED
      BY <1>2, <1>4, <1>5, <3>1
  <2> QED
    BY <1>4, <1>6, <2>1, <2>2
<1>7. FrameSoFar /\ nic'.frame = nic.frame => FrameSoFar'
  BY <1>1, <1>4 DEF FrameSoFar
<1>8. SentSoFar /\ UNCHANGED ghosts => SentSoFar'
  BY <1>1, <1>4 DEF SentSoFar, ghosts
<1>9. TcbsInStep /\ (\A i \in Packets : Live(i)' => Live(i) /\ tcb'[i] = tcb[i])
        => TcbsInStep'
  BY <1>1 DEF TcbsInStep
<1> QED
  BY <1>3, <1>4, <1>5, <1>6, <1>7, <1>8, <1>9

\* As long as the ring is not full the next descriptor is not the NIC's.
LEMMA NextFree ==
    ASSUME OrderInv, DescriptorsInStep, Unsent < NumTxDesc
    PROVE  Ahead(TxDescIndex) = Unsent /\ ~desc[TxDescIndex].own
<1> USE NumTxDescType
<1>1. /\ Bounds /\ TxDescIndex \in Descriptors /\ TxDescIndex = (Site + Unsent) % NumTxDesc
      /\ \A d \in Descriptors : desc[d].own <=> Ahead(d) < Unsent
  BY BoundsHold, WireBounds DEF OrderInv, IndInv, TypeOK
<1>2. /\ Site \in 0 .. NumTxDesc - 1 /\ Unsent \in 0 .. NumTxDesc
      /\ Span(NumTxDesc, Site, Site) = 0
  BY <1>1 DEF Bounds, Descriptors, Ahead
<1>3. Ahead(TxDescIndex) = Unsent
  BY <1>1, <1>2, SpanPlus DEF Ahead
<1> QED
  BY <1>1, <1>2, <1>3

\* While a packet is being posted the ring is not full: it has a descriptor for every
\* fragment that can be in flight.
LEMMA RoomToPost ==
    ASSUME OrderInv, DescriptorsInStep,
           pc = "own" \/ (pc = "post" /\ HasAnyFragment)
    PROVE  /\ Unsent < NumTxDesc /\ Posted < Past(pi)
           /\ Ahead(TxDescIndex) = Unsent /\ ~desc[TxDescIndex].own
<1>1. Bounds /\ Places /\ Wire \in Nat /\ Wire + Unsent = Posted
  BY BoundsHold, PlacesFound, WireBounds DEF OrderInv, IndInv
<1>2. Posted < Past(pi)
  <2>1. CASE pc = "own"
    BY <1>1, <2>1 DEF Bounds
  <2>2. CASE pc = "post" /\ HasAnyFragment
    <3>1. /\ pi \in InFlight /\ packet[pi].frag \in Nat /\ tcb[pi].num \in Nat
          /\ packet[pi].count \in Nat /\ At(pi) \in Int
          /\ Posted = At(pi) + tcb[pi].num /\ tcb[pi].num <= packet[pi].count
      BY <1>1, <2>2, SizeAssumption
         DEF Bounds, Places, OrderInv, IndInv, TypeOK, Packet, Tcb, Fragments, PostingBounded
    <3>2. tcb[pi].num # packet[pi].count
      BY <2>2, <3>1 DEF HasAnyFragment, FragmentIndex, FragmentEnd, Incr
    <3> QED
      BY <3>1, <3>2 DEF Past
  <2> QED
    BY <2>1, <2>2
<1>3. Past(pi) <= At(pr.end) /\ Past(pi) \in Int
  <2>1. pi \in InFlight /\ pi \in Packets
    BY <1>1 DEF Bounds, Places
  <2>2. At(pi) \in Int /\ packet[pi].count \in Int
    BY <1>1, <2>1 DEF Places
  <2> QED
    BY <2>1, <2>2 DEF Past, OrderInv, FragmentsConsecutive
<1>4. Unsent < NumTxDesc
  BY <1>1, <1>2, <1>3, NumTxDescType DEF Bounds
<1> QED
  BY <1>2, <1>4, NextFree

\* RtIsPacketTransferComplete looks at the last descriptor only, and that is enough:
\* all of the packet's were taken.
LEMMA CompletedTaken ==
    ASSUME OrderInv, DescriptorsInStep, TcbsInStep, pc = "drain", pi # pr.next,
           IsPacketTransferComplete(pi)
    PROVE  /\ Past(pi) <= Wire
           /\ ~packet[pi].ignore => \A d \in DescriptorsOf(pi) : ~desc[d].own
<1> USE NumTxDescType
<1>1. /\ Bounds /\ Places /\ TypeOK /\ pi \in InFlight /\ Pos(pi) < Pos(pr.next)
      /\ Oldest = pi /\ Turn = pr.next /\ Posted = At(pr.next)
  BY BoundsHold, PlacesFound, IteratorInFlight DEF OrderInv, IndInv, Oldest, Turn, Posted
<1>2. /\ Wire \in Nat /\ At(pi) \in Nat /\ At(pi) <= Wire /\ Wire + Unsent = Posted
      /\ TxDescIndex = (Site + Unsent) % NumTxDesc
      /\ \A d \in Descriptors : desc[d].own <=> Ahead(d) < Unsent
  BY <1>1, WireBounds
<1>3. CASE packet[pi].ignore
  <2>1. packet[pi].count = 0
    BY <1>1, <1>3 DEF OrderInv, FragmentsConsecutive
  <2> QED
    BY <1>2, <1>3, <2>1 DEF Past
<1>4. CASE ~packet[pi].ignore
  <2> DEFINE y == Posted - At(pi)
  <2>1. /\ tcb[pi].num = packet[pi].count /\ packet[pi].count \in Nat
        /\ packet[pi].count > 0 /\ tcb[pi].first \in 0 .. NumTxDesc - 1
        /\ Past(pi) <= At(pr.next) /\ Past(pi) = At(pi) + packet[pi].count
    <3>1. pi \in Packets /\ pr.next \in Packets /\ Pos(pr.next) <= Pos(pr.end)
      BY <1>1 DEF Places, OrderInv, IndicesOrdered
    <3>2. Past(pi) <= At(pr.next)
      BY <1>1, <3>1, PlacesGrow
    <3>3. packet[pi].count \in Nat /\ tcb[pi].first \in 0 .. NumTxDesc - 1
      BY <1>1, <3>1 DEF TypeOK, Packet, Tcb, Descriptors
    <3>4. tcb[pi].num = packet[pi].count /\ packet[pi].count # 0
      BY <1>1, <1>4 DEF OrderInv, FragmentsConsecutive, RingsInStep
    <3> QED
      BY <3>2, <3>3, <3>4 DEF Past
  <2>2. y \in 0 .. NumTxDesc /\ packet[pi].count <= y
    BY <1>1, <1>2, <2>1 DEF Bounds
  <2>3. (Site + Unsent) % NumTxDesc = (tcb[pi].first + y) % NumTxDesc
    <3>1. Live(pi) /\ pi \in Packets
      BY <1>1, <1>4 DEF Live, Places
    <3> QED
      BY <1>2, <3>1 DEF TcbsInStep
  <2>4. Site \in 0 .. NumTxDesc - 1 /\ Unsent \in 0 .. NumTxDesc
    BY <1>1 DEF Bounds, Descriptors
  <2> HIDE DEF y
  <2>5. ASSUME NEW k \in 0 .. packet[pi].count - 1
        PROVE  /\ (tcb[pi].first + k) % NumTxDesc \in Descriptors
               /\ desc[(tcb[pi].first + k) % NumTxDesc].own <=> y - k <= Unsent
    <3>1. k \in 0 .. NumTxDesc /\ k < y
      BY <2>1, <2>2
    <3>2. Ahead((tcb[pi].first + k) % NumTxDesc) < Unsent <=> y - k <= Unsent
      BY <2>1, <2>2, <2>3, <2>4, <3>1, SameEnd DEF Ahead
    <3>3. (tcb[pi].first + k) % NumTxDesc \in Descriptors
      BY <2>1, <3>1, PlusValue DEF Descriptors
    <3> QED
      BY <1>2, <3>2, <3>3
  <2>6. Past(pi) <= Wire
    <3> DEFINE k == packet[pi].count - 1
    <3>1. k \in 0 .. packet[pi].count - 1 /\ tcb[pi].first + tcb[pi].num - 1 = tcb[pi].first + k
      BY <2>1
    <3>2. ~desc[(tcb[pi].first + k) % NumTxDesc].own
      BY <1>4, <3>1 DEF IsPacketTransferComplete, LastDescriptorOf
    <3>3. ~(y - k <= Unsent)
      BY <2>5, <3>1, <3>2
    <3> QED
      BY <1>2, <2>1, <2>2, <2>4, <3>3 DEF y
  <2>7. ASSUME NEW d \in DescriptorsOf(pi) PROVE ~desc[d].own
    <3>1. PICK k \in 0 .. packet[pi].count - 1 : d = (tcb[pi].first + k) % NumTxDesc
      BY <2>1 DEF DescriptorsOf
    <3>2. ~(y - k <= Unsent)
      BY <1>2, <2>1, <2>2, <2>4, <2>6, <3>1 DEF y
    <3> QED
      BY <2>5, <3>1, <3>2
  <2> QED
    BY <2>6, <2>7
<1> QED
  BY <1>3, <1>4
\* RtTransmitPackets, but for the write of OWN, posts nothing.
LEMMA TransmitLock ==
    ASSUME OrderInv, OrderInv', ResetInv, Lockstep,
           EvtTxQueueAdvance \/ TransmitPacket \/ PacketPosted \/ TransmitEnd
    PROVE  Lockstep' /\ \A d \in Descriptors : desc'[d] = desc[d]
<1> USE SizeAssumption
<1>1. /\ Bounds /\ Places /\ TypeOK /\ pi \in Packets
      /\ \A i \in Packets : Pos(i) \in Int /\ At(i) \in Int
  <2>1. Bounds /\ Places /\ TypeOK
    BY BoundsHold, PlacesFound DEF OrderInv, IndInv
  <2> QED
    BY <2>1 DEF TypeOK, Places
<1>2. /\ Still /\ UNCHANGED <<desc, TxDescIndex, rpc, sent, stray, pr.begin>>
      /\ nic'.at = nic.at /\ nic'.frame = nic.frame /\ pc' # "own"
      /\ nic'.on = nic.on
  BY <1>1 DEF EvtTxQueueAdvance, TransmitPacket, PacketPosted, TransmitEnd, Still, TypeOK,
              Ring, reset, ghosts
<1>3. /\ InFlight' = InFlight /\ packet' = packet
      /\ \A i : Pos(i)' = Pos(i) /\ At(i)' = At(i)
  BY <1>2, PlacesKept DEF Still
<1>4. Site' = Site
  BY <1>2 DEF Site
<1>5. /\ Oldest' = Oldest
      /\ Posted' = Posted
      /\ \/ \A i \in Packets : Live(i)' => Live(i) /\ tcb'[i] = tcb[i]
         \/ TcbsInStep'
      /\ Unsent' = Unsent => Rung'
  <2>1. CASE EvtTxQueueAdvance
    <3>1. /\ pc = "idle" /\ pc' = "packet" /\ pi' = pr.next /\ tcb' = tcb /\ nic' = nic
          /\ pr' = pr
      BY <2>1 DEF EvtTxQueueAdvance
    <3>2. Oldest' = Oldest /\ Turn' = Turn
      BY <3>1 DEF Oldest, Turn
    <3>3. Posted' = Posted
      BY <1>3, <3>1, <3>2 DEF Posted
    <3>4. \A i \in Packets : Live(i)' => Live(i) /\ tcb'[i] = tcb[i]
      BY <1>3, <3>1, <3>2 DEF Live
    <3>5. Unsent' = Unsent => Rung'
      BY <1>2, <3>1 DEF Rung, Lockstep
    <3> QED
      BY <3>2, <3>3, <3>4, <3>5
  <2>2. CASE TransmitPacket /\ packet[pi].ignore
    <3>1. /\ pc = "packet" /\ pc' = "packet" /\ pi' = Incr(NumPkt, pi) /\ tcb' = tcb
          /\ nic' = nic /\ pr' = pr /\ programmed' = programmed /\ pi \in InFlight
      BY <2>2, IteratorInFlight DEF TransmitPacket
    <3>2. Oldest' = Oldest /\ Turn = pi /\ Turn' = Incr(NumPkt, pi)
      BY <1>2, <3>1 DEF Oldest, Turn
    <3>3. At(Incr(NumPkt, pi)) = At(pi) /\ Pos(Incr(NumPkt, pi)) = Pos(pi) + 1
      BY <1>1, <2>2, <3>1, IgnoredStart DEF Places
    <3>4. Posted' = Posted
      BY <1>3, <3>1, <3>2, <3>3 DEF Posted
    <3>5. ASSUME NEW i \in Packets, Live(i)' PROVE Live(i) /\ tcb'[i] = tcb[i]
      <4>1. /\ i \in InFlight /\ ~packet[i].ignore /\ Pos(Oldest) <= Pos(i)
            /\ Pos(i) < Pos(pi) + 1
        BY <1>3, <3>1, <3>2, <3>3, <3>5 DEF Live
      <4>2. Pos(i) < Pos(pi)
        BY <1>1, <2>2, <4>1 DEF Places
      <4> QED
        BY <3>1, <3>2, <4>1, <4>2 DEF Live
    <3>6. Unsent' = Unsent => Rung'
      BY <1>2, <3>1 DEF Rung, Lockstep
    <3> QED
      BY <3>2, <3>4, <3>5, <3>6
  <2>3. CASE TransmitPacket /\ ~packet[pi].ignore
    <3>1. /\ pc = "packet" /\ pc' = "post" /\ pi' = pi
          /\ nic' = nic /\ pr' = pr /\ programmed' = programmed /\ pi \in InFlight
          /\ tcb' = [tcb EXCEPT ![pi] = [first |-> TxDescIndex, num |-> 0]]
      BY <2>3, IteratorInFlight DEF TransmitPacket
    <3>2. Oldest' = Oldest /\ Turn = pi /\ Turn' = pi
      BY <1>2, <3>1 DEF Oldest, Turn
    <3>3. /\ tcb'[pi].first = TxDescIndex /\ tcb'[pi].num = 0
          /\ \A i \in Packets : i # pi => tcb'[i] = tcb[i]
      BY <1>1, <3>1 DEF TypeOK
    <3>4. Posted = At(pi) /\ Posted' = At(pi)
      BY <1>1, <1>3, <3>1, <3>2, <3>3 DEF Posted
    <3>5. ASSUME NEW i \in Packets, Live(i)'
          PROVE  TxDescIndex' = (tcb'[i].first + (Posted' - At(i)')) % NumTxDesc
      <4>1. CASE i = pi
        <5>1. tcb'[i].first + (Posted' - At(i)') = TxDescIndex /\ TxDescIndex \in Descriptors
          BY <1>1, <1>3, <3>3, <3>4, <4>1 DEF TypeOK, Descriptors
        <5>2. TxDescIndex % NumTxDesc = TxDescIndex
          BY <5>1, NumTxDescType DEF Descriptors
        <5> QED
          BY <1>2, <5>1, <5>2
      <4>2. CASE i # pi
        <5>1. Live(i)
          BY <1>3, <3>1, <3>2, <3>5, <4>2 DEF Live
        <5> QED
          BY <1>2, <1>3, <3>3, <3>4, <4>2, <5>1 DEF Lockstep, TcbsInStep
      <4> QED
        BY <4>1, <4>2
    <3>6. TcbsInStep'
      BY <3>5 DEF TcbsInStep
    <3>7. Unsent' = Unsent => Rung'
      BY <1>2, <3>1 DEF Rung, Lockstep
    <3> QED
      BY <3>2, <3>4, <3>6, <3>7
  <2>4. CASE PacketPosted
    <3>1. /\ pc = "post" /\ pc' = "packet" /\ pi' = Incr(NumPkt, pi) /\ tcb' = tcb
          /\ nic' = nic /\ pr' = pr /\ programmed' = TRUE /\ pi \in InFlight
          /\ tcb[pi].num = packet[pi].count
      BY <2>4, IteratorInFlight, PostedWhole DEF PacketPosted
    <3>2. Oldest' = Oldest /\ Turn = pi /\ Turn' = Incr(NumPkt, pi)
      BY <1>2, <3>1 DEF Oldest, Turn
    <3>3. At(Incr(NumPkt, pi)) = Past(pi) /\ Pos(Incr(NumPkt, pi)) = Pos(pi) + 1
      BY <1>1, <3>1 DEF Places, OrderInv, FragmentsConsecutive
    <3>4. Posted' = Posted
      BY <1>3, <3>1, <3>2, <3>3 DEF Posted, Past
    <3>5. ASSUME NEW i \in Packets, Live(i)' PROVE Live(i) /\ tcb'[i] = tcb[i]
      <4>1. /\ i \in InFlight /\ ~packet[i].ignore /\ Pos(Oldest) <= Pos(i)
            /\ Pos(i) < Pos(pi) + 1
        BY <1>3, <3>1, <3>2, <3>3, <3>5 DEF Live
      <4>2. Pos(i) < Pos(pi) \/ i = pi
        BY <1>1, <4>1 DEF Places
      <4> QED
        BY <3>1, <3>2, <4>1, <4>2 DEF Live
    <3>6. Rung'
      BY <1>2, <3>1 DEF Rung
    <3> QED
      BY <3>2, <3>4, <3>5, <3>6
  <2>5. CASE TransmitEnd
    <3>1. /\ pc = "packet" /\ pc' = "drain" /\ pi' = pr.begin /\ tcb' = tcb
          /\ pr'.next = pi /\ pr'.begin = pr.begin
          /\ nic'.poll = (nic.poll \/ (programmed /\ nic.on))
      BY <1>1, <2>5 DEF TransmitEnd, TypeOK, Ring, Doorbell
    <3>2. Oldest' = Oldest /\ Turn = pi /\ Turn' = pi
      BY <1>2, <3>1 DEF Oldest, Turn
    <3>3. Posted' = Posted
      BY <1>3, <3>1, <3>2 DEF Posted
    <3>4. \A i \in Packets : Live(i)' => Live(i) /\ tcb'[i] = tcb[i]
      BY <1>3, <3>1, <3>2 DEF Live
    <3>5. Unsent' = Unsent => Rung'
      BY <1>2, <3>1 DEF Rung, Lockstep, ResetInv
    <3> QED
      BY <3>2, <3>3, <3>4, <3>5
  <2> QED
    BY <2>1, <2>2, <2>3, <2>4, <2>5
<1>6. Fixed
  BY <1>2, <1>4, <1>5 DEF Fixed
<1>7. At(Oldest)' <= Wire
  BY <1>3, <1>5 DEF Lockstep, DescriptorsInStep
<1>8. DescriptorsInStep'
  BY <1>2, <1>6, <1>7, FixedKept DEF Lockstep, DescriptorsInStep
<1>9. FrameSoFar' /\ SentSoFar' /\ TcbsInStep' /\ Rung'
  BY <1>2, <1>5, <1>6, FixedKept DEF Lockstep, ghosts
<1> QED
  BY <1>2, <1>8, <1>9 DEF Lockstep
\* RtPostTxDescriptor writes all but OWN into a descriptor the NIC does not own, and
\* fills it as the fragment's place demands.
LEMMA PostBodyLock ==
    ASSUME OrderInv, OrderInv', Lockstep, PostDescriptorBody
    PROVE  Lockstep' /\ \A d \in Descriptors : desc[d].own => desc'[d] = desc[d]
<1> USE SizeAssumption
<1>1. /\ Bounds /\ TypeOK /\ pi \in Packets /\ tcb[pi].num \in Nat
      /\ packet[pi].count \in Nat /\ At(pi) \in Int
  <2>1. Bounds /\ Places /\ TypeOK
    BY BoundsHold, PlacesFound DEF OrderInv, IndInv
  <2>2. pi \in Packets /\ tcb[pi] \in Tcb /\ packet[pi] \in Packet
    BY <2>1 DEF TypeOK
  <2>3. At(pi) \in Int
    BY <2>1, <2>2 DEF Places
  <2> QED
    BY <2>1, <2>2, <2>3 DEF Tcb, Packet
<1>a. PICK r : r = [own |-> FALSE, fs |-> FirstSegment, ls |-> LastSegment,
                    eor |-> EndOfRing, buf |-> FragmentIndex]
  OBVIOUS
<1>b. PICK t, o : t = TxDescIndex /\ o = Posted
  OBVIOUS
<1>2. /\ Still /\ UNCHANGED <<pr, TxDescIndex, pi, tcb, nic, rpc, sent, stray, programmed>>
      /\ pc = "post" /\ pc' = "own" /\ slot' = TxDescIndex /\ HasAnyFragment
      /\ desc' = [desc EXCEPT ![TxDescIndex] = r]
  BY <1>a DEF PostDescriptorBody, Still, reset, ghosts
<1>3. ~desc[TxDescIndex].own /\ Posted < Past(pi)
  BY <1>2, RoomToPost DEF Lockstep
<1>4. /\ \A d \in Descriptors : d # TxDescIndex => desc'[d] = desc[d]
      /\ TxDescIndex \in Descriptors /\ desc'[TxDescIndex] = r
  BY <1>1, <1>2 DEF TypeOK
<1>5. Oldest' = Oldest /\ Turn = pi /\ Turn' = pi
  BY <1>2 DEF Oldest, Turn
<1>6. /\ InFlight' = InFlight /\ packet' = packet
      /\ \A i : Pos(i)' = Pos(i) /\ At(i)' = At(i) /\ Past(i)' = Past(i)
      /\ \A f : Off(f)' = Off(f)
  BY <1>2, PlacesKept DEF Still
<1>7. Posted' = Posted /\ Site' = Site /\ Posted = At(pi) + tcb[pi].num
  BY <1>2, <1>6 DEF Posted, Site
<1>8. \A d \in Descriptors : /\ desc'[d].own <=> desc[d].own
                             /\ desc[d].own => desc'[d] = desc[d]
  <2>1. ~desc'[TxDescIndex].own
    BY <1>a, <1>4
  <2> QED
    BY <1>3, <1>4, <2>1
<1>9. Fixed
  BY <1>2, <1>7, <1>8 DEF Fixed
<1>10. Describes(r, o, t)
  <2>1. pi \in InFlight /\ ~packet[pi].ignore
    BY <1>1, <1>2 DEF Bounds
  <2>2. tcb[pi].num <= packet[pi].count /\ At(pi) <= Posted
    BY <1>1, <1>3, <1>7 DEF Past
  <2>3. Off(FragmentIndex) = Posted
    BY <1>1, <1>7, <2>1, <2>2, FragmentPlace DEF FragmentIndex
  <2>4. r.eor = (TxDescIndex = NumTxDesc - 1) /\ r.buf = FragmentIndex
    BY <1>a DEF EndOfRing
  <2>5. r.fs = (Posted = At(pi)) /\ r.ls = (Posted + 1 = Past(pi))
    <3>1. (tcb[pi].num = 0) = (Posted = At(pi))
      BY <1>1, <1>7
    <3>2. (tcb[pi].num + 1 = packet[pi].count) = (Posted + 1 = Past(pi))
      BY <1>1, <1>7 DEF Past
    <3> QED
      BY <1>a, <3>1, <3>2 DEF FirstSegment, LastSegment
  <2> QED
    BY <1>b, <1>3, <2>1, <2>2, <2>3, <2>4, <2>5 DEF Describes
<1>11. slot' = TxDescIndex' /\ Describes(desc[slot], Posted, slot)'
  <2>1. desc'[slot'] = r /\ slot' = t /\ Posted' = o
    BY <1>b, <1>2, <1>4, <1>7
  <2>2. Describes(r, o, t)'
    BY <1>9, <1>10, FixedKept
  <2> QED
    BY <1>2, <2>1, <2>2
<1>12. At(Oldest)' <= Wire
  BY <1>5, <1>6 DEF Lockstep, DescriptorsInStep
<1>13. DescriptorsInStep'
  BY <1>2, <1>9, <1>11, <1>12, FixedKept DEF Lockstep, DescriptorsInStep
<1>14. \A i \in Packets : Live(i)' => Live(i) /\ tcb'[i] = tcb[i]
  BY <1>2, <1>5, <1>6 DEF Live
<1>15. FrameSoFar' /\ SentSoFar' /\ TcbsInStep'
  BY <1>2, <1>9, <1>14, FixedKept DEF Lockstep, ghosts
<1>16. Rung'
  BY <1>2, <1>9, FixedKept DEF Lockstep, Rung
<1> QED
  BY <1>8, <1>13, <1>15, <1>16 DEF Lockstep

\* Writing OWN gives the NIC one more descriptor, the one after those it has.
LEMMA PostOwnLock ==
    ASSUME OrderInv, OrderInv', Lockstep, PostDescriptorOwn
    PROVE  Lockstep' /\ \A d \in Descriptors : desc[d].own => desc'[d] = desc[d]
<1> USE SizeAssumption, NumTxDescType
<1>1. /\ Bounds /\ Places /\ TypeOK /\ pi \in Packets /\ tcb[pi] \in Tcb /\ UnsentDetermined'
      /\ TxDescIndex \in Descriptors /\ desc[TxDescIndex] \in TxDesc
  <2>1. Bounds /\ Places /\ TypeOK /\ UnsentDetermined'
    BY BoundsHold, PlacesFound, UnsentFound, PTL DEF OrderInv, IndInv
  <2> QED
    BY <2>1 DEF TypeOK
<1>2. /\ Still /\ UNCHANGED <<pr, pi, nic, rpc, sent, stray, programmed>>
      /\ pc = "own" /\ pc' = "post"
      /\ TxDescIndex' = (TxDescIndex + 1) % NumTxDesc
      /\ desc' = [desc EXCEPT ![slot].own = TRUE]
      /\ tcb' = [tcb EXCEPT ![pi].num = @ + 1]
  BY DEF PostDescriptorOwn, Still, reset, ghosts
<1>3. /\ slot = TxDescIndex /\ Describes(desc[TxDescIndex], Posted, TxDescIndex)
      /\ Unsent < NumTxDesc /\ Posted < Past(pi)
      /\ Ahead(TxDescIndex) = Unsent /\ ~desc[TxDescIndex].own
  BY <1>2, RoomToPost DEF Lockstep, DescriptorsInStep
<1>4. /\ Wire \in Nat /\ At(Oldest) <= Wire /\ Wire + Unsent = Posted
      /\ TxDescIndex = (Site + Unsent) % NumTxDesc /\ Unsent \in Nat
      /\ \A d \in Descriptors : desc[d].own <=> Ahead(d) < Unsent
  BY <1>1, WireBounds DEF Lockstep, Bounds
<1>5. /\ \A d \in Descriptors : d # TxDescIndex => desc'[d] = desc[d]
      /\ desc'[TxDescIndex] = [desc[TxDescIndex] EXCEPT !.own = TRUE]
  BY <1>1, <1>2, <1>3 DEF TypeOK
<1>6. /\ desc'[TxDescIndex].own /\ desc'[TxDescIndex].buf = desc[TxDescIndex].buf
      /\ desc'[TxDescIndex].fs = desc[TxDescIndex].fs
      /\ desc'[TxDescIndex].ls = desc[TxDescIndex].ls
      /\ desc'[TxDescIndex].eor = desc[TxDescIndex].eor
  BY <1>1, <1>5 DEF TxDesc
<1>7. /\ tcb'[pi].num = tcb[pi].num + 1 /\ tcb'[pi].first = tcb[pi].first
      /\ \A i \in Packets : i # pi => tcb'[i] = tcb[i]
  BY <1>1, <1>2 DEF Tcb, TypeOK
<1>8. Oldest' = Oldest /\ Turn = pi /\ Turn' = pi
  BY <1>2 DEF Oldest, Turn
<1>9. /\ InFlight' = InFlight /\ packet' = packet
      /\ \A i : /\ Pos(i)' = Pos(i) /\ At(i)' = At(i) /\ Past(i)' = Past(i)
                /\ FragmentsOf(i)' = FragmentsOf(i)
      /\ \A f : Off(f)' = Off(f)
      /\ Site' = Site
  BY <1>2, PlacesKept DEF Still, Site
<1>10. \A d : Ahead(d)' = Ahead(d)
  BY <1>9 DEF Ahead
<1>11. Posted = At(pi) + tcb[pi].num /\ Posted' = Posted + 1
  <2>1. At(pi) \in Int /\ tcb[pi].num \in Int
    BY <1>1 DEF Places, Tcb
  <2> QED
    BY <1>2, <1>7, <1>9, <2>1 DEF Posted
<1>12. PICK u \in 0 .. NumTxDesc : u = Unsent + 1
  BY <1>3, <1>4
<1>13. OwnedAhead(u)'
  <2>1. TxDescIndex' = (Site + u) % NumTxDesc
    <3>1. Site \in 0 .. NumTxDesc - 1 /\ Unsent \in 0 .. NumTxDesc - 1
      BY <1>1, <1>3, <1>4 DEF Bounds, Descriptors
    <3> QED
      BY <1>2, <1>4, <1>12, <3>1, IncrPlus
  <2>2. ASSUME NEW d \in Descriptors PROVE desc'[d].own <=> Ahead(d) < u
    <3>1. CASE d = TxDescIndex
      BY <1>3, <1>4, <1>6, <1>12, <3>1
    <3>2. CASE d # TxDescIndex
      <4>1. Ahead(d) # Ahead(TxDescIndex)
        BY <1>1, <3>2, SpanDistinct DEF Ahead, Bounds, Descriptors
      <4> QED
        BY <1>1, <1>3, <1>4, <1>5, <1>12, <3>2, <4>1 DEF Bounds
    <3> QED
      BY <3>1, <3>2
  <2> QED
    BY <1>9, <1>10, <2>1, <2>2 DEF OwnedAhead
<1>14. Unsent' = u /\ Wire' = Wire
  <2>1. Unsent' = u
    BY <1>1, <1>13 DEF UnsentDetermined
  <2> QED
    BY <1>4, <1>11, <1>12, <2>1 DEF Wire
<1>15. \A r, o, d : Describes(r, o, d)' <=> Describes(r, o, d)
  BY <1>9 DEF Describes
<1>16. DescriptorsInStep'
  <2>1. At(Oldest)' <= Wire'
    BY <1>4, <1>8, <1>9, <1>14
  <2>2. ASSUME NEW d \in Descriptors, desc'[d].own
        PROVE  Describes(desc[d], Wire + Ahead(d), d)'
    <3>1. PICK o : o = Wire + Ahead(d)
      OBVIOUS
    <3>2. Describes(desc'[d], o, d)
      <4>1. CASE d = TxDescIndex
        <5>1. o = Posted
          BY <1>3, <1>4, <3>1, <4>1
        <5> QED
          BY <1>3, <1>6, <4>1, <5>1 DEF Describes
      <4>2. CASE d # TxDescIndex
        BY <1>5, <2>2, <3>1, <4>2 DEF Lockstep, DescriptorsInStep
      <4> QED
        BY <4>1, <4>2
    <3>3. PICK r : r = desc'[d]
      OBVIOUS
    <3>4. Describes(r, o, d)'
      BY <1>15, <3>2, <3>3
    <3>5. o = Wire' + Ahead(d)'
      BY <1>10, <1>14, <3>1
    <3> QED
      BY <3>3, <3>4, <3>5
  <2>3. OwnedAhead(Unsent)'
    BY <1>13, <1>14
  <2> QED
    BY <1>2, <2>1, <2>2, <2>3 DEF DescriptorsInStep
<1>17. TcbsInStep'
  <2>1. ASSUME NEW i \in Packets, Live(i)'
        PROVE  TxDescIndex' = (tcb'[i].first + (Posted' - At(i)')) % NumTxDesc
    <3>1. Live(i) /\ tcb'[i].first = tcb[i].first
      BY <1>2, <1>7, <1>8, <1>9, <2>1 DEF Live
    <3>2. TxDescIndex = (tcb[i].first + (Posted - At(i))) % NumTxDesc
      BY <3>1 DEF Lockstep, TcbsInStep
    <3>3. At(i) <= Posted /\ At(i) \in Nat /\ Posted < NumTxDesc
      <4>1. Pos(i) <= Pos(pi) /\ Pos(pi) <= Pos(pr.end)
        BY <1>1, <1>8, <3>1 DEF Live, Places, Bounds
      <4>2. At(i) <= At(pi)
        BY <1>1, <4>1, PlacesGrow
      <4>3. Past(pi) <= At(pr.end) /\ pi \in InFlight /\ packet[pi].count \in Int
        BY <1>1, <1>2 DEF Bounds, Places, OrderInv, FragmentsConsecutive
      <4>4. At(i) \in Nat /\ At(pi) \in Nat /\ Past(pi) \in Int
        BY <1>1, <4>3, SizeAssumption DEF Places, Past
      <4> QED
        BY <1>1, <1>3, <1>11, <4>2, <4>3, <4>4 DEF Bounds, Tcb
    <3>4. tcb[i].first \in 0 .. NumTxDesc - 1
      BY <1>1 DEF TypeOK, Tcb, Descriptors
    <3>5. PICK y \in 0 .. NumTxDesc - 1 : y = Posted - At(i)
      BY <1>1, <3>3 DEF Bounds
    <3>6. Posted' - At(i)' = y + 1
      BY <1>1, <1>9, <1>11, <3>3, <3>5 DEF Bounds
    <3> QED
      BY <1>2, <3>1, <3>2, <3>4, <3>5, <3>6, IncrPlus
  <2> QED
    BY <2>1 DEF TcbsInStep
<1>18. FrameSoFar' /\ SentSoFar'
  BY <1>2, <1>9, <1>14 DEF Lockstep, FrameSoFar, SentSoFar
<1>19. Rung'
  BY <1>1, <1>2, <1>7 DEF Rung, Tcb
<1>20. \A d \in Descriptors : desc[d].own => desc'[d] = desc[d]
  BY <1>3, <1>5
<1> QED
  BY <1>16, <1>17, <1>18, <1>19, <1>20 DEF Lockstep
\* RtCompleteTransmitPackets writes to no descriptor the NIC owns, and passes no
\* packet that was not sent.
LEMMA CompletePacketLock ==
    ASSUME OrderInv, OrderInv', Lockstep, CompletePacket
    PROVE  Lockstep' /\ \A d \in Descriptors : desc[d].own => desc'[d] = desc[d]
<1> USE SizeAssumption
<1>1. Bounds /\ Places /\ TypeOK
  BY BoundsHold, PlacesFound DEF OrderInv, IndInv
<1>2. /\ Still /\ UNCHANGED <<pr, tcb, TxDescIndex, nic, rpc, sent, stray, programmed>>
      /\ pc = "drain" /\ pc' = "drain" /\ pi' = Incr(NumPkt, pi) /\ pi # pr.next
      /\ IsPacketTransferComplete(pi)
  BY <1>1 DEF CompletePacket, Still, reset, ghosts, TypeOK, Ring
<1>3. pi \in InFlight /\ Past(pi) <= Wire
  BY <1>2, IteratorInFlight, CompletedTaken DEF Lockstep
<1>4. \A d \in Descriptors : /\ desc'[d].own <=> desc[d].own
                             /\ desc[d].own => desc'[d] = desc[d]
  <2>1. CASE packet[pi].ignore
    BY <2>1 DEF CompletePacket
  <2>2. CASE ~packet[pi].ignore
    <3>1. \A d \in DescriptorsOf(pi) : ~desc[d].own
      BY <1>2, <2>2, CompletedTaken DEF Lockstep
    <3>2. desc' = [d \in Descriptors |->
                     IF d \in DescriptorsOf(pi)
                     THEN [desc[d] EXCEPT !.own = FALSE, !.fs = FALSE,
                                          !.ls = FALSE, !.eor = FALSE]
                     ELSE desc[d]]
      BY <2>2 DEF CompletePacket
    <3> TAKE d \in Descriptors
    <3>3. CASE d \in DescriptorsOf(pi)
      <4>1. desc[d] \in TxDesc
        BY <1>1 DEF TypeOK
      <4>2. desc'[d] = [desc[d] EXCEPT !.own = FALSE, !.fs = FALSE,
                                       !.ls = FALSE, !.eor = FALSE]
        BY <3>2, <3>3
      <4>3. ~desc'[d].own
        BY <4>1, <4>2 DEF TxDesc
      <4> QED
        BY <3>1, <3>3, <4>3
    <3>4. CASE d \notin DescriptorsOf(pi)
      BY <3>2, <3>4
    <3> QED
      BY <3>3, <3>4
  <2> QED
    BY <2>1, <2>2
<1>5. Oldest = pi /\ Oldest' = Incr(NumPkt, pi) /\ Turn' = Turn
  BY <1>2 DEF Oldest, Turn
<1>6. /\ InFlight' = InFlight /\ packet' = packet
      /\ \A i : Pos(i)' = Pos(i) /\ At(i)' = At(i)
  BY <1>2, PlacesKept DEF Still
<1>7. Posted' = Posted /\ Site' = Site
  BY <1>2, <1>5, <1>6 DEF Posted, Site
<1>8. Fixed
  BY <1>2, <1>4, <1>7 DEF Fixed
<1>9. At(Oldest)' <= Wire
  BY <1>3, <1>5, <1>6 DEF OrderInv, FragmentsConsecutive
<1>10. DescriptorsInStep'
  BY <1>2, <1>8, <1>9, FixedKept DEF Lockstep, DescriptorsInStep
<1>11. \A i \in Packets : Live(i)' => Live(i) /\ tcb'[i] = tcb[i]
  <2>1. \A i \in Packets : Pos(pi) + 1 <= Pos(i) => Pos(pi) <= Pos(i)
    BY <1>1, <1>3 DEF Places
  <2>2. Pos(Incr(NumPkt, pi)) = Pos(pi) + 1
    BY <1>1, <1>3 DEF Places
  <2> QED
    BY <1>2, <1>5, <1>6, <2>1, <2>2 DEF Live
<1>12. FrameSoFar' /\ SentSoFar' /\ TcbsInStep'
  BY <1>2, <1>8, <1>11, FixedKept DEF Lockstep, ghosts
<1>13. Rung'
  BY <1>2, <1>8, FixedKept DEF Lockstep, Rung
<1> QED
  BY <1>4, <1>10, <1>12, <1>13 DEF Lockstep

\* The NIC stops polling only when it has taken all it owns.
LEMMA NicIdleLock ==
    ASSUME OrderInv, ResetInv, Lockstep, NicIdle \/ EvtTxQueueCancel \/ UNCHANGED vars
    PROVE  Lockstep' /\ desc' = desc
<1>1. /\ Still /\ UNCHANGED <<pr, tcb, TxDescIndex, rpc, sent, stray, programmed, desc,
                              pc, pi, slot>>
      /\ nic'.at = nic.at /\ nic'.frame = nic.frame /\ nic'.on = nic.on
      /\ nic' = nic \/ NicIdle
  BY DEF NicIdle, EvtTxQueueCancel, vars, Still, driver, reset, ghosts, OrderInv, IndInv,
         TypeOK
<1>2. Oldest' = Oldest /\ Turn' = Turn
  BY <1>1 DEF Oldest, Turn
<1>3. /\ InFlight' = InFlight /\ packet' = packet
      /\ \A i : Pos(i)' = Pos(i) /\ At(i)' = At(i)
  BY <1>1, PlacesKept DEF Still
<1>4. Posted' = Posted /\ Site' = Site
  BY <1>1, <1>2, <1>3 DEF Posted, Site
<1>5. Fixed
  BY <1>1, <1>4 DEF Fixed
<1>6. At(Oldest)' <= Wire
  BY <1>2, <1>3 DEF Lockstep, DescriptorsInStep
<1>7. pc' = "own" => slot' = TxDescIndex' /\ Describes(desc[slot], Posted, slot)'
  <2>1. PICK r, o, d : r = desc[slot] /\ o = Posted /\ d = slot
    OBVIOUS
  <2>2. pc = "own" => Describes(r, o, d)' /\ slot = TxDescIndex
    BY <1>5, <2>1, FixedKept DEF Lockstep, DescriptorsInStep
  <2>3. desc'[slot'] = r /\ Posted' = o /\ slot' = d
    BY <1>1, <1>4, <2>1
  <2> QED
    BY <1>1, <2>2, <2>3
<1>8. DescriptorsInStep'
  BY <1>5, <1>6, <1>7, FixedKept DEF Lockstep, DescriptorsInStep
<1>9. \A i \in Packets : Live(i)' => Live(i) /\ tcb'[i] = tcb[i]
  BY <1>1, <1>2, <1>3 DEF Live
<1>10. FrameSoFar' /\ SentSoFar' /\ TcbsInStep'
  BY <1>1, <1>5, <1>9, FixedKept DEF Lockstep, ghosts
<1>11. Rung'
  <2>1. Unsent' = Unsent
    BY <1>5, FixedKept
  <2>2. CASE nic' = nic
    BY <1>1, <2>1, <2>2 DEF Lockstep, Rung
  <2>3. CASE NicIdle
    <3>1. Site = nic.at /\ Site \in Descriptors /\ ~desc[Site].own
      BY <2>3, BoundsHold DEF NicIdle, ResetInv, Site, Bounds
    <3> QED
      BY <2>1, <3>1 DEF Rung, Unsent
  <2> QED
    BY <1>1, <2>2, <2>3
<1> QED
  BY <1>1, <1>8, <1>10, <1>11 DEF Lockstep

\* With nothing in flight everything posted was taken.
LEMMA QuietTaken ==
    ASSUME OrderInv, DescriptorsInStep, Quiet
    PROVE  /\ Posted = 0 /\ Unsent = 0 /\ Wire = 0 /\ TxDescIndex = Site
           /\ At(Oldest) = 0 /\ \A d \in Descriptors : ~desc[d].own
<1> USE NumTxDescType
<1>1. Bounds /\ Places
  BY BoundsHold, PlacesFound DEF OrderInv, IndInv
<1>2. /\ Wire \in Nat /\ Wire + Unsent = Posted /\ TxDescIndex = (Site + Unsent) % NumTxDesc
      /\ \A d \in Descriptors : desc[d].own <=> Ahead(d) < Unsent
  BY WireBounds
<1>3. Posted = 0 /\ At(Oldest) = 0
  BY <1>1 DEF Quiet, Posted, Oldest, Turn, Places
<1>4. Unsent = 0 /\ Wire = 0
  BY <1>1, <1>2, <1>3 DEF Bounds
<1>5. TxDescIndex = Site
  <2>1. Site \in 0 .. NumTxDesc - 1
    BY <1>1 DEF Bounds, Descriptors
  <2>2. (Site + 0) % NumTxDesc = Site
    BY <2>1
  <2> QED
    BY <1>2, <1>4, <2>2
<1> QED
  BY <1>1, <1>2, <1>3, <1>4, <1>5 DEF Bounds

\* RtlResetLink, met by no packet in flight, sends both sides back to descriptor 0.
LEMMA ResetLock ==
    ASSUME OrderInv, OrderInv', Lockstep, Reset, ~torn'
    PROVE  Lockstep' /\ desc' = desc
<1> USE NumTxDescType
<1>1. /\ Quiet /\ Still /\ UNCHANGED <<pr, tcb, sent, stray, programmed, desc, pc, pi, slot>>
      /\ nic'.frame = nic.frame \/ nic'.frame = << >>
  BY DEF Reset, ResetStop, ResetQueues, ResetStart, ResetStep, driver, ghosts, Still,
         OrderInv, IndInv, TypeOK
<1>2. /\ Posted = 0 /\ Unsent = 0 /\ Wire = 0 /\ TxDescIndex = Site
      /\ At(Oldest) = 0 /\ \A d \in Descriptors : ~desc[d].own
  BY <1>1, QuietTaken DEF Lockstep
<1>3. Bounds /\ Bounds' /\ Places /\ UnsentDetermined'
  BY BoundsHold, PlacesFound, UnsentFound, PTL DEF OrderInv, IndInv
<1>4. Oldest' = Oldest /\ Turn' = Turn /\ Oldest = pr.begin /\ Turn = pr.begin
  BY <1>1 DEF Oldest, Turn, Quiet
<1>5. /\ InFlight' = InFlight /\ packet' = packet
      /\ \A i : /\ Pos(i)' = Pos(i) /\ At(i)' = At(i) /\ Past(i)' = Past(i)
                /\ FragmentsOf(i)' = FragmentsOf(i)
  BY <1>1, PlacesKept DEF Still
<1>6. TxDescIndex' = Site' /\ Posted' = 0 /\ At(Oldest)' = 0
  <2>1. TxDescIndex' = Site'
    BY <1>2 DEF Reset, ResetStop, ResetQueues, ResetStart, Site, FirstIndex, OrderInv,
                IndInv, TypeOK
  <2>2. Posted' = Posted
    BY <1>1, <1>4, <1>5 DEF Posted
  <2> QED
    BY <1>2, <1>4, <1>5, <2>1, <2>2
<1>7. PICK u \in 0 .. NumTxDesc : u = 0
  OBVIOUS
<1>8. OwnedAhead(u)'
  <2>1. PICK x \in 0 .. NumTxDesc - 1 : x = Site'
    BY <1>3 DEF Bounds, Descriptors
  <2>2. (x + u) % NumTxDesc = x
    BY <1>7
  <2>3. \A d \in Descriptors : ~desc'[d].own /\ ~(Ahead(d)' < u)
    BY <1>1, <1>2, <1>3, <1>7 DEF Bounds
  <2> QED
    BY <1>6, <2>1, <2>2, <2>3 DEF OwnedAhead
<1>9. Unsent' = 0 /\ Wire' = 0
  <2>1. Unsent' = 0
    BY <1>3, <1>7, <1>8 DEF UnsentDetermined
  <2> QED
    BY <1>6, <2>1 DEF Wire
<1>10. DescriptorsInStep'
  <2>1. OwnedAhead(Unsent)'
    BY <1>7, <1>8, <1>9
  <2>2. pc' # "own" /\ \A d \in Descriptors : ~desc'[d].own
    BY <1>1, <1>2 DEF Quiet
  <2> QED
    BY <1>6, <1>9, <2>1, <2>2 DEF DescriptorsInStep
<1>11. TcbsInStep'
  <2>1. \A i \in Packets : ~Live(i)'
    BY <1>1, <1>3, <1>4, <1>5 DEF Live, Places, Quiet
  <2> QED
    BY <2>1 DEF TcbsInStep
<1>12. FrameSoFar'
  <2>1. \A i \in InFlight : ~(At(i) < 0)
    BY <1>3 DEF Places
  <2>2. nic'.frame = << >>
    BY <1>1, <1>2, <2>1 DEF Lockstep, FrameSoFar
  <2> QED
    BY <1>5, <1>9, <2>1, <2>2 DEF FrameSoFar
<1>13. SentSoFar'
  BY <1>1, <1>2, <1>5, <1>9 DEF Lockstep, SentSoFar
<1>14. Rung'
  BY <1>9 DEF Rung
<1> QED
  BY <1>1, <1>10, <1>11, <1>12, <1>13, <1>14 DEF Lockstep
\* A packet that comes is in nobody's way.
LEMMA SubmitLock ==
    ASSUME OrderInv, OrderInv', Lockstep, Submit
    PROVE  Lockstep' /\ desc' = desc
<1> USE SizeAssumption
<1>1. Bounds /\ Places
  BY BoundsHold, PlacesFound DEF OrderInv, IndInv
<1>2. PICK e \in Packets : e = pr.end
  BY <1>1 DEF Places
<1>3. PICK n \in 0 .. MaxFrags : Added(e, n)
  BY <1>2, SubmitPlaces DEF OrderInv
<1>4. /\ pc = "idle" /\ pc' = "idle" /\ tcb' = tcb /\ pi' = pi
      /\ UNCHANGED <<desc, TxDescIndex, nic, rpc, sent, stray, programmed>>
  BY DEF Submit, reset, ghosts
<1>5. Oldest' = Oldest /\ Turn' = Turn /\ Oldest = pr.begin /\ Turn = pr.next
  BY <1>3, <1>4 DEF Oldest, Turn, Added
<1>6. /\ \A i : Pos(i)' = Pos(i)
      /\ \A f : Off(f)' = Off(f)
      /\ \A i \in Packets : Pos(i) <= Pos(e) => At(i)' = At(i)
      /\ InFlight' = InFlight \cup {e} /\ e \notin InFlight
      /\ \A i \in InFlight : /\ At(i)' = At(i) /\ Past(i)' = Past(i)
                             /\ packet'[i] = packet[i]
      /\ At(e)' = At(e) /\ Past(e)' = At(e) + n /\ packet'[e].ignore = (n = 0)
      /\ Site' = Site
  BY <1>3, <1>4 DEF Added, Site
<1>7. /\ At(Oldest)' = At(Oldest) /\ Posted' = Posted
      /\ Pos(Turn) <= Pos(e) /\ Posted <= At(e) /\ At(e) \in Int /\ Pos(e) \in Int
      /\ Pos(Turn) \in Int
  <2>1. /\ Pos(pr.begin) <= Pos(e) /\ Pos(pr.next) <= Pos(e)
        /\ Pos(e) \in Int /\ Pos(Turn) \in Int /\ At(e) \in Int
    BY <1>1, <1>2, <1>5 DEF Places, Bounds
  <2>2. At(pr.begin)' = At(pr.begin) /\ At(pr.next)' = At(pr.next)
    BY <1>1, <1>3, <1>6, <2>1 DEF Places, Added
  <2>3. At(Oldest)' = At(Oldest) /\ At(Turn)' = At(Turn)
    BY <1>3, <1>5, <2>2 DEF Added
  <2>4. Posted = At(Turn) /\ Posted' = At(Turn)'
    BY <1>4 DEF Posted
  <2> QED
    BY <1>1, <1>2, <1>5, <2>1, <2>3, <2>4 DEF Bounds
<1>8. \A d : Ahead(d)' = Ahead(d)
  BY <1>6 DEF Ahead
<1>9. Unsent' = Unsent /\ Wire' = Wire
  BY <1>4, <1>6, <1>7, <1>8 DEF Unsent, Wire
<1>10. Wire <= At(e) /\ Wire \in Nat
  BY <1>1, <1>7, WireBounds DEF Lockstep, Bounds
<1>11. \A r, o, d : Describes(r, o, d) => Describes(r, o, d)'
  BY <1>6 DEF Describes
<1>12. DescriptorsInStep'
  <2>1. OwnedAhead(Unsent)'
    BY <1>4, <1>6, <1>8, <1>9 DEF Lockstep, DescriptorsInStep, OwnedAhead
  <2>2. ASSUME NEW d \in Descriptors, desc'[d].own
        PROVE  Describes(desc[d], Wire + Ahead(d), d)'
    <3>1. PICK r, o : r = desc[d] /\ o = Wire + Ahead(d)
      OBVIOUS
    <3>2. Describes(r, o, d)'
      BY <1>4, <1>11, <2>2, <3>1 DEF Lockstep, DescriptorsInStep
    <3> QED
      BY <1>4, <1>8, <1>9, <3>1, <3>2
  <2> QED
    BY <1>4, <1>7, <1>9, <2>1, <2>2 DEF Lockstep, DescriptorsInStep
<1>13. TcbsInStep'
  <2>1. ASSUME NEW i \in Packets, Live(i)' PROVE Live(i)
    <3>1. Pos(i) < Pos(Turn) /\ Pos(Oldest) <= Pos(i) /\ i \in InFlight'
          /\ ~packet'[i].ignore
      BY <1>4, <1>5, <1>6, <2>1 DEF Live
    <3>2. i # e
      BY <1>7, <3>1
    <3> QED
      BY <1>6, <3>1, <3>2 DEF Live
  <2>2. \A i \in Packets : Live(i) => i \in InFlight
    BY DEF Live
  <2> QED
    BY <1>4, <1>6, <1>7, <2>1, <2>2 DEF Lockstep, TcbsInStep
<1>14. FrameSoFar'
  <2>1. \A i \in InFlight : FragmentsOf(i)' = FragmentsOf(i)
    BY <1>6 DEF FragmentsOf
  <2>2. ~(At(e) < Wire)
    BY <1>7, <1>10
  <2>3. \A i \in InFlight' : At(i)' < Wire' => i \in InFlight
    BY <1>6, <1>9, <2>2
  <2> QED
    BY <1>4, <1>6, <1>9, <2>1, <2>3 DEF Lockstep, FrameSoFar
<1>15. SentSoFar'
  <2>1. e \in sent' <=> ~packet'[e].ignore /\ Past(e)' <= Wire'
    <3>1. e \notin sent'
      BY <1>4, <1>6 DEF Lockstep, SentSoFar
    <3>2. Past(e)' <= Wire' => n = 0
      BY <1>6, <1>7, <1>9, <1>10
    <3> QED
      BY <1>6, <3>1, <3>2
  <2> QED
    BY <1>4, <1>6, <1>9, <2>1 DEF Lockstep, SentSoFar
<1>16. Rung'
  BY <1>4, <1>9 DEF Lockstep, Rung
<1> QED
  BY <1>4, <1>12, <1>13, <1>14, <1>15, <1>16 DEF Lockstep

\* What CompleteEnd hands back was sent, and what is still to be sent it keeps.
LEMMA CompleteEndLock ==
    ASSUME OrderInv, OrderInv', Lockstep, CompleteEnd
    PROVE  Lockstep' /\ desc' = desc
<1> USE SizeAssumption
<1>1. Bounds /\ Places /\ TypeOK
  BY BoundsHold, PlacesFound DEF OrderInv, IndInv
<1>2. PICK p \in Packets : p = pi
  BY <1>1 DEF TypeOK
<1>3. PICK e \in Packets : e = pr.end
  BY <1>1 DEF Places
<1>4. PICK x \in Packets : x = pr.next
  BY <1>1 DEF Places
<1>5. /\ Pos(p) <= Pos(e) /\ pr'.begin = p /\ pr'.end = e /\ pr'.next = x
      /\ pc = "drain" /\ pc' = "idle"
      /\ \A i \in Packets :
            /\ i \in InFlight' <=> i \in InFlight /\ Pos(p) <= Pos(i)
            /\ Pos(p) <= Pos(i) => Pos(i)' = Pos(i) - Pos(p)
            /\ Pos(p) <= Pos(i) /\ Pos(i) <= Pos(e) =>
                 /\ Start(i)' = Start(i) /\ At(i)' = At(i) - At(p)
      /\ \A f \in Fragments : At(p) <= Off(f) => Off(f)' = Off(f) - At(p)
      /\ \A i \in InFlight' : /\ packet'[i] = packet[i] /\ tcb'[i] = tcb[i]
                              /\ FragmentsOf(i)' = FragmentsOf(i)
                              /\ Past(i)' = Past(i) - At(p)
      /\ InFlight' \subseteq Packets /\ sent' = sent \cap InFlight'
  BY <1>2, <1>3, <1>4, CompleteEndPlaces
<1>6. /\ UNCHANGED <<desc, TxDescIndex, nic, rpc, stray, programmed>>
  BY DEF CompleteEnd, reset
<1>7. Oldest = p /\ Oldest' = p /\ Turn = x /\ Turn' = x
  BY <1>2, <1>4, <1>5 DEF Oldest, Turn
<1>8. /\ \A i \in Packets : Pos(i) \in Int /\ At(i) \in Int
      /\ \A i \in InFlight : /\ i \in Packets /\ Past(i) \in Int
                             /\ Pos(p) <= Pos(i) => i \in InFlight'
      /\ \A i \in InFlight' : /\ i \in InFlight /\ Pos(p) <= Pos(i) /\ Pos(i) < Pos(e)
                              /\ Pos(i)' = Pos(i) - Pos(p) /\ At(i)' = At(i) - At(p)
  BY <1>1, <1>3, <1>5 DEF Places, Past
<1>9. /\ Wire \in Nat /\ At(p) \in Nat /\ At(p) <= Wire /\ Unsent \in Nat /\ Posted \in Nat
      /\ Wire + Unsent = Posted
  BY <1>1, <1>7, WireBounds DEF Lockstep, Bounds
<1>10. Posted' = Posted - At(p) /\ At(Oldest)' = 0
  <2>1. Pos(p) <= Pos(x) /\ Pos(x) <= Pos(e)
    BY <1>2, <1>3, <1>4, <1>5 DEF OrderInv, IndicesOrdered
  <2>2. At(x)' = At(x) - At(p) /\ At(p)' = At(p) - At(p)
    BY <1>5, <1>8, <2>1
  <2> QED
    BY <1>5, <1>7, <1>9, <2>2 DEF Posted
<1>11. Site' = Site /\ \A d : Ahead(d)' = Ahead(d)
  <2>1. Site' = Site
    BY <1>6 DEF Site
  <2> QED
    BY <2>1 DEF Ahead
<1>12. Unsent' = Unsent /\ Wire' = Wire - At(p)
  <2>1. Unsent' = Unsent
    BY <1>6, <1>11 DEF Unsent
  <2> QED
    BY <1>9, <1>10, <2>1 DEF Wire
<1>13. ASSUME NEW i \in InFlight, NEW o \in Nat, At(p) <= o, o < Past(i)
       PROVE  i \in InFlight'
  <2>1. Pos(i) < Pos(p) => Past(i) <= At(p)
    BY <1>3, <1>5, <1>8, PlacesGrow
  <2> QED
    BY <1>8, <1>9, <1>13, <2>1
<1>14. DescriptorsInStep'
  <2>1. OwnedAhead(Unsent)'
    BY <1>6, <1>11, <1>12 DEF Lockstep, DescriptorsInStep, OwnedAhead
  <2>2. ASSUME NEW d \in Descriptors, desc'[d].own
        PROVE  Describes(desc[d], Wire + Ahead(d), d)'
    <3>1. PICK o \in Nat : o = Wire + Ahead(d)
      BY <1>1, <1>9 DEF Bounds
    <3>2. PICK r : r = desc[d] /\ r.buf \in Fragments
      BY <1>1 DEF TypeOK, TxDesc
    <3>3. Describes(r, o, d) /\ At(p) <= o
      BY <1>1, <1>6, <1>9, <2>2, <3>1, <3>2 DEF Lockstep, DescriptorsInStep, Bounds
    <3>4. PICK i \in InFlight : /\ ~packet[i].ignore /\ At(i) <= o /\ o < Past(i)
                                /\ r.fs <=> o = At(i)
                                /\ r.ls <=> o + 1 = Past(i)
      BY <3>3 DEF Describes
    <3>5. PICK q : q = o - At(p)
      OBVIOUS
    <3>6. /\ i \in InFlight' /\ ~packet'[i].ignore /\ At(i)' <= q /\ q < Past(i)'
          /\ (o = At(i)) = (q = At(i)') /\ (o + 1 = Past(i)) = (q + 1 = Past(i)')
      <4>1. i \in InFlight'
        BY <1>13, <3>3, <3>4
      <4>2. At(i)' = At(i) - At(p) /\ Past(i)' = Past(i) - At(p) /\ packet'[i] = packet[i]
            /\ At(i) \in Int /\ Past(i) \in Int
        BY <1>5, <1>8, <4>1
      <4> QED
        BY <1>9, <3>4, <3>5, <4>1, <4>2
    <3>7. Off(r.buf)' = q
      BY <1>5, <3>2, <3>3, <3>5 DEF Describes
    <3>8. Describes(r, q, d)'
      BY <3>3, <3>4, <3>6, <3>7 DEF Describes
    <3>9. q = Wire' + Ahead(d)'
      BY <1>1, <1>9, <1>11, <1>12, <3>1, <3>5 DEF Bounds
    <3> QED
      BY <1>6, <3>2, <3>8, <3>9
  <2>3. At(Oldest)' <= Wire'
    BY <1>9, <1>10, <1>12
  <2> QED
    BY <1>5, <2>1, <2>2, <2>3 DEF DescriptorsInStep
<1>15. TcbsInStep'
  <2>1. ASSUME NEW i \in Packets, Live(i)'
        PROVE  TxDescIndex' = (tcb'[i].first + (Posted' - At(i)')) % NumTxDesc
    <3>1. i \in InFlight' /\ ~packet'[i].ignore /\ Pos(i)' < Pos(x)'
      BY <1>5, <1>7, <2>1 DEF Live
    <3>2. Pos(p) <= Pos(x)
      BY <1>2, <1>4, <1>5 DEF OrderInv, IndicesOrdered
    <3>3. Live(i)
      BY <1>5, <1>7, <1>8, <3>1, <3>2 DEF Live
    <3>4. Posted' - At(i)' = Posted - At(i) /\ tcb'[i] = tcb[i]
      BY <1>5, <1>8, <1>9, <1>10, <3>1
    <3> QED
      BY <1>6, <3>3, <3>4 DEF Lockstep, TcbsInStep
  <2> QED
    BY <2>1 DEF TcbsInStep
<1>16. FrameSoFar'
  <2>1. ASSUME nic'.frame # << >>
        PROVE  \E i \in InFlight' : At(i)' < Wire' /\ Wire' < Past(i)'
    <3>1. PICK i \in InFlight : At(i) < Wire /\ Wire < Past(i)
      BY <1>6, <2>1 DEF Lockstep, FrameSoFar
    <3>2. i \in InFlight'
      BY <1>9, <1>13, <3>1
    <3>3. At(i)' < Wire' /\ Wire' < Past(i)'
      BY <1>5, <1>8, <1>9, <1>12, <3>1, <3>2
    <3> QED
      BY <3>2, <3>3
  <2>2. ASSUME NEW i \in InFlight', At(i)' < Wire', Wire' < Past(i)'
        PROVE  nic'.frame = SubSeq(FragmentsOf(i)', 1, Wire' - At(i)')
    <3>1. At(i) < Wire /\ Wire < Past(i) /\ Wire' - At(i)' = Wire - At(i)
      BY <1>5, <1>8, <1>9, <1>12, <2>2
    <3> QED
      BY <1>5, <1>6, <1>8, <3>1 DEF Lockstep, FrameSoFar
  <2> QED
    BY <2>1, <2>2 DEF FrameSoFar
<1>17. SentSoFar'
  <2>1. \A i \in InFlight' : Past(i)' <= Wire' <=> Past(i) <= Wire
    BY <1>5, <1>8, <1>9, <1>12
  <2> QED
    BY <1>5, <1>6, <1>8, <2>1 DEF Lockstep, SentSoFar
<1>18. Rung'
  BY <1>5, <1>6, <1>12 DEF Lockstep, Rung
<1> QED
  BY <1>6, <1>14, <1>15, <1>16, <1>17, <1>18 DEF Lockstep
-----------------------------------------------------------------------------
(* The NIC takes a descriptor. *)

\* A place belongs to one packet.
LEMMA OnePacket ==
    ASSUME OrderInv, NEW i \in InFlight, NEW j \in InFlight, NEW o \in Nat,
           At(i) <= o, o < Past(i), At(j) <= o, o < Past(j)
    PROVE  i = j
<1>1. Places /\ FragmentsConsecutive
  BY PlacesFound DEF OrderInv, IndInv
<1>2. /\ Pos(i) \in Int /\ Pos(j) \in Int /\ At(i) \in Int /\ At(j) \in Int
      /\ Past(i) \in Int /\ Past(j) \in Int
      /\ Pos(i) = Pos(j) => i = j
  BY <1>1 DEF Places, Past
<1>3. /\ Pos(i) < Pos(j) => Past(i) <= At(j)
      /\ Pos(j) < Pos(i) => Past(j) <= At(i)
  BY <1>1 DEF FragmentsConsecutive
<1> QED
  BY <1>2, <1>3

\* A buffer at a place is the fragment of that number of the packet it belongs to.
LEMMA FragmentAt ==
    ASSUME OrderInv, NEW i \in InFlight, NEW k \in Nat, k < packet[i].count,
           NEW b \in Fragments, Off(b) = At(i) + k
    PROVE  FragmentsOf(i)[k + 1] = b
<1>1. Places
  BY PlacesFound DEF OrderInv, IndInv
<1>2. /\ packet[i].count \in Nat /\ Start(pr.begin) \in 0 .. NumFrag - 1
      /\ NumFrag \in Nat \ {0} /\ k <= packet[i].count
  BY <1>1, SizeAssumption DEF Places, Fragments
<1>3. /\ (packet[i].frag + k) % NumFrag \in Fragments
      /\ Off((packet[i].frag + k) % NumFrag) = At(i) + k
  BY <1>2, FragmentPlace
<1>4. b = (packet[i].frag + k) % NumFrag
  BY <1>2, <1>3, SpanDistinct DEF Off, Fragments
<1>5. k + 1 \in 1 .. packet[i].count /\ packet[i].frag \in Int
  <2>1. i \in Packets
    BY <1>1 DEF Places
  <2>2. packet[i].frag \in Int
    BY <2>1 DEF OrderInv, IndInv, TypeOK, Packet, Fragments
  <2> QED
    BY <1>2, <2>2
<1>6. FragmentsOf(i)[k + 1] = (packet[i].frag + (k + 1) - 1) % NumFrag
  BY <1>5 DEF FragmentsOf
<1> QED
  BY <1>4, <1>5, <1>6

\* Appending the next element to a beginning of a sequence gives a longer one.
LEMMA OneMore ==
    ASSUME NEW S, NEW F \in Seq(S), NEW k \in Nat, k < Len(F)
    PROVE  Append(SubSeq(F, 1, k), F[k + 1]) = SubSeq(F, 1, k + 1)
  OBVIOUS

\* A sequence is its own longest beginning.
LEMMA WholeSeq == ASSUME NEW S, NEW F \in Seq(S) PROVE SubSeq(F, 1, Len(F)) = F
  OBVIOUS

\* The fragments of a packet, as a sequence.
LEMMA FragmentsOfType ==
    ASSUME OrderInv, NEW i \in InFlight
    PROVE  FragmentsOf(i) \in Seq(Fragments) /\ Len(FragmentsOf(i)) = packet[i].count
<1>1. Places /\ i \in Packets
  BY PlacesFound DEF OrderInv, IndInv, Places
<1>2. packet[i].count \in Nat /\ packet[i].frag \in Nat
  BY <1>1 DEF OrderInv, IndInv, TypeOK, Packet, Fragments
<1>3. \A k \in 1 .. packet[i].count : (packet[i].frag + k - 1) % NumFrag \in Fragments
  <2> TAKE k \in 1 .. packet[i].count
  <2>1. packet[i].frag + k - 1 \in Nat
    BY <1>2
  <2> QED
    BY <2>1, ModInRange, SizeAssumption DEF Fragments
<1> QED
  BY <1>2, <1>3 DEF FragmentsOf
\* What the NIC sends: with the descriptor it takes, it has gathered one fragment more
\* of the packet it is at, and that is the whole packet when the descriptor is its last.
Sends(i, frame) ==
    /\ i \in InFlight /\ ~packet[i].ignore /\ At(i) <= Wire /\ Wire < Past(i)
    /\ frame = SubSeq(FragmentsOf(i), 1, Wire + 1 - At(i))
    /\ desc[nic.at].ls <=> Wire + 1 = Past(i)
    /\ desc[nic.at].ls =>
         {j \in InFlight : ~packet[j].ignore /\ FragmentsOf(j) = frame} = {i}

\* Every fetch sends the next fragment of one packet.
LEMMA FetchSends ==
    ASSUME OrderInv, ResetInv, Lockstep, NicFetch
    PROVE  \E i \in Packets :
             Sends(i, IF desc[nic.at].fs THEN <<desc[nic.at].buf>>
                      ELSE Append(nic.frame, desc[nic.at].buf))
<1> USE SizeAssumption
<1>1. Bounds /\ Places /\ TypeOK
  BY BoundsHold, PlacesFound DEF OrderInv, IndInv
<1>2. Site = nic.at /\ desc[Site].own /\ Site \in Descriptors /\ Ahead(Site) = 0
  BY <1>1 DEF NicFetch, ResetInv, Site, Bounds
<1>3. Wire \in Nat
  BY WireBounds DEF Lockstep
<1>4. PICK r, frame : /\ r = desc[nic.at]
                      /\ frame = IF r.fs THEN <<r.buf>> ELSE Append(nic.frame, r.buf)
  OBVIOUS
<1>5. Describes(r, Wire, Site) /\ r.buf \in Fragments
  <2>1. Wire + Ahead(Site) = Wire
    BY <1>2, <1>3
  <2> QED
    BY <1>1, <1>2, <1>4, <2>1 DEF Lockstep, DescriptorsInStep, TypeOK, TxDesc
<1>6. PICK i \in InFlight : /\ ~packet[i].ignore /\ At(i) <= Wire /\ Wire < Past(i)
                            /\ r.fs <=> Wire = At(i)
                            /\ r.ls <=> Wire + 1 = Past(i)
  BY <1>5 DEF Describes
<1>7. /\ i \in Packets /\ At(i) \in Nat /\ packet[i].count \in Nat
      /\ Past(i) = At(i) + packet[i].count
  BY <1>1 DEF Places, Past
<1>8. PICK k \in Nat : k = Wire - At(i) /\ k < packet[i].count
  BY <1>3, <1>6, <1>7
<1>9. PICK F : /\ F = FragmentsOf(i) /\ F \in Seq(Fragments) /\ Len(F) = packet[i].count
               /\ F[k + 1] = r.buf
  <2>1. Off(r.buf) = At(i) + k
    BY <1>3, <1>5, <1>7, <1>8 DEF Describes
  <2> QED
    BY <1>5, <1>8, <2>1, FragmentAt, FragmentsOfType
<1>10. frame = SubSeq(F, 1, k + 1)
  <2>1. Append(SubSeq(F, 1, k), F[k + 1]) = SubSeq(F, 1, k + 1)
    BY <1>8, <1>9, OneMore
  <2>2. CASE r.fs
    <3>1. k = 0
      BY <1>6, <1>7, <1>8, <2>2
    <3>2. SubSeq(F, 1, 0) = << >>
      BY <1>9
    <3>3. Append(<< >>, r.buf) = <<r.buf>>
      OBVIOUS
    <3> QED
      BY <1>4, <1>9, <2>1, <2>2, <3>1, <3>2, <3>3
  <2>3. CASE ~r.fs
    <3>1. At(i) < Wire
      BY <1>3, <1>6, <1>7, <2>3
    <3>2. nic.frame = SubSeq(F, 1, k)
      BY <1>6, <1>8, <1>9, <3>1 DEF Lockstep, FrameSoFar
    <3> QED
      BY <1>4, <1>9, <2>1, <2>3, <3>2
  <2> QED
    BY <2>2, <2>3
<1>11. k + 1 = Wire + 1 - At(i)
  BY <1>3, <1>7, <1>8
<1>12. ASSUME r.ls
       PROVE  {j \in InFlight : ~packet[j].ignore /\ FragmentsOf(j) = frame} = {i}
  <2>1. k + 1 = Len(F)
    BY <1>3, <1>6, <1>7, <1>8, <1>9, <1>12
  <2>2. frame = F
    BY <1>9, <1>10, <2>1, WholeSeq
  <2>3. ASSUME NEW j \in InFlight, ~packet[j].ignore, FragmentsOf(j) = F
        PROVE  j = i
    <3>1. /\ j \in Packets /\ At(j) \in Nat /\ packet[j].count \in Nat
          /\ Past(j) = At(j) + packet[j].count /\ packet[j].count # 0
      BY <1>1, <2>3 DEF Places, Past, OrderInv, FragmentsConsecutive
    <3>2. packet[j].frag \in 0 .. NumFrag - 1 /\ packet[i].frag \in 0 .. NumFrag - 1
      BY <1>1, <1>7, <3>1 DEF TypeOK, Packet, Fragments
    <3>3. ASSUME NEW x \in InFlight, NEW f \in 0 .. NumFrag - 1, f = packet[x].frag,
                 1 \in 1 .. packet[x].count
          PROVE  FragmentsOf(x)[1] = f
      <4>1. FragmentsOf(x)[1] = (f + 1 - 1) % NumFrag
        BY <3>3 DEF FragmentsOf
      <4>2. f + 1 - 1 = f /\ f % NumFrag = f
        OBVIOUS
      <4> QED
        BY <4>1, <4>2
    <3>4. packet[j].frag = packet[i].frag
      <4>1. 1 \in 1 .. packet[j].count /\ 1 \in 1 .. packet[i].count
        BY <1>7, <1>8, <3>1
      <4> QED
        BY <1>9, <2>3, <3>2, <3>3, <4>1
    <3>5. At(j) = At(i)
      BY <1>1, <3>4 DEF Places, At
    <3> QED
      BY <1>7, <1>8, <3>1, <3>5, OnePacket
  <2> QED
    BY <1>6, <1>9, <2>2, <2>3
<1> QED
  BY <1>4, <1>6, <1>7, <1>9, <1>10, <1>11, <1>12 DEF Sends
\* What NicFetch sends is recorded: the packet it completes, and nothing else.
LEMMA FetchRecords ==
    ASSUME OrderInv, ResetInv, Lockstep, NicFetch
    PROVE  \E i, frame :
             /\ i \in Packets
             /\ Sends(i, frame)
             /\ nic'.frame = IF desc[nic.at].ls THEN << >> ELSE frame
             /\ sent' = IF desc[nic.at].ls THEN sent \cup {i} ELSE sent
             /\ ~stray' /\ i \notin sent
<1>1. PICK frame : frame = IF desc[nic.at].fs THEN <<desc[nic.at].buf>>
                           ELSE Append(nic.frame, desc[nic.at].buf)
  OBVIOUS
<1>2. PICK i \in Packets : Sends(i, frame)
  BY <1>1, FetchSends
<1>3. PICK whole : whole = {j \in InFlight : ~packet[j].ignore /\ FragmentsOf(j) = frame}
  OBVIOUS
<1>4. /\ nic' = [nic EXCEPT !.at    = IF desc[nic.at].eor THEN 0 ELSE @ + 1,
                            !.frame = IF desc[nic.at].ls THEN << >> ELSE frame]
      /\ IF desc[nic.at].ls
         THEN /\ sent' = sent \cup whole
              /\ stray' = (stray \/ whole = {} \/ whole \cap sent # {})
         ELSE UNCHANGED ghosts
  BY <1>1, <1>3 DEF NicFetch
<1>5. nic'.frame = IF desc[nic.at].ls THEN << >> ELSE frame
  BY <1>4 DEF OrderInv, IndInv, TypeOK
<1>6. i \notin sent /\ ~stray
  <2>1. Wire \in Nat /\ Past(i) \in Int /\ Wire < Past(i) /\ i \in InFlight
    <3>1. i \in InFlight /\ Wire < Past(i)
      BY <1>2 DEF Sends
    <3>2. Past(i) \in Int
      BY <3>1, PlacesFound DEF OrderInv, IndInv, Places, Past
    <3> QED
      BY <3>1, <3>2, WireBounds DEF Lockstep
  <2> QED
    BY <2>1 DEF Lockstep, SentSoFar
<1>7. CASE desc[nic.at].ls
  <2>1. whole = {i}
    BY <1>2, <1>3, <1>7 DEF Sends
  <2> QED
    BY <1>2, <1>4, <1>5, <1>6, <1>7, <2>1
<1>8. CASE ~desc[nic.at].ls
  BY <1>2, <1>4, <1>5, <1>6, <1>8 DEF ghosts
<1> QED
  BY <1>7, <1>8

\* The NIC takes the descriptor it is at: one more place was sent.
LEMMA NicFetchLock ==
    ASSUME OrderInv, OrderInv', ResetInv, Lockstep, NicFetch
    PROVE  Lockstep'
<1> USE SizeAssumption, NumTxDescType
<1>1. Bounds /\ Places /\ TypeOK /\ UnsentDetermined'
  BY BoundsHold, PlacesFound, UnsentFound, PTL DEF OrderInv, IndInv
<1>2. /\ Site = nic.at /\ desc[Site].own /\ Site \in Descriptors /\ Ahead(Site) = 0
      /\ rpc = "none" /\ nic.poll
  BY <1>1 DEF NicFetch, ResetInv, Site, Bounds
<1>3. /\ Wire \in Nat /\ At(Oldest) \in Nat /\ At(Oldest) <= Wire /\ Wire + Unsent = Posted
      /\ TxDescIndex = (Site + Unsent) % NumTxDesc /\ Unsent \in 0 .. NumTxDesc
      /\ \A d \in Descriptors : desc[d].own <=> Ahead(d) < Unsent
  BY <1>1, WireBounds DEF Lockstep, Bounds
<1>4. Unsent > 0
  BY <1>2, <1>3
<1>5. /\ Still /\ UNCHANGED <<pr, tcb, TxDescIndex, rpc, programmed, pc, pi, slot>>
      /\ desc' = [desc EXCEPT ![nic.at].own = FALSE]
      /\ nic' = [nic EXCEPT !.at = IF desc[nic.at].eor THEN 0 ELSE @ + 1, !.frame = nic'.frame]
  BY <1>1 DEF NicFetch, Still, driver, reset, TypeOK
<1>6. PICK i, frame :
             /\ i \in Packets
             /\ Sends(i, frame)
             /\ nic'.frame = IF desc[nic.at].ls THEN << >> ELSE frame
             /\ sent' = IF desc[nic.at].ls THEN sent \cup {i} ELSE sent
             /\ ~stray' /\ i \notin sent
  BY FetchRecords
<1>7. /\ i \in InFlight /\ ~packet[i].ignore /\ At(i) <= Wire /\ Wire < Past(i)
      /\ frame = SubSeq(FragmentsOf(i), 1, Wire + 1 - At(i))
      /\ desc[nic.at].ls <=> Wire + 1 = Past(i)
  BY <1>6 DEF Sends
<1>8. Oldest' = Oldest /\ Turn' = Turn
  BY <1>5 DEF Oldest, Turn
<1>9. /\ InFlight' = InFlight /\ packet' = packet
      /\ \A j : /\ Pos(j)' = Pos(j) /\ At(j)' = At(j) /\ Past(j)' = Past(j)
                /\ FragmentsOf(j)' = FragmentsOf(j)
      /\ \A f : Off(f)' = Off(f)
  BY <1>5, PlacesKept DEF Still
<1>10. Posted' = Posted
  BY <1>5, <1>8, <1>9 DEF Posted
<1>11. \A r, o, d : Describes(r, o, d)' <=> Describes(r, o, d)
  BY <1>9 DEF Describes
<1>12. /\ \A d \in Descriptors : d # Site => desc'[d] = desc[d]
       /\ ~desc'[Site].own
  BY <1>1, <1>2, <1>5 DEF TypeOK, TxDesc
<1>13. Site' = Incr(NumTxDesc, Site)
  <2>1. Describes(desc[Site], Wire, Site)
    <3>1. Wire + Ahead(Site) = Wire
      BY <1>2, <1>3
    <3> QED
      BY <1>2, <3>1 DEF Lockstep, DescriptorsInStep
  <2>2. desc[Site].eor <=> Site = NumTxDesc - 1
    BY <2>1 DEF Describes
  <2>3. Site' = IF desc[Site].eor THEN 0 ELSE Site + 1
    BY <1>1, <1>2, <1>5 DEF Site, TypeOK
  <2> QED
    BY <1>2, <2>2, <2>3, IncrValue DEF Descriptors
<1>14. \A d \in Descriptors : Ahead(d)' = IF d = Site THEN NumTxDesc - 1 ELSE Ahead(d) - 1
  <2>1. \A d : Ahead(d)' = Span(NumTxDesc, Incr(NumTxDesc, Site), d)
    BY <1>13 DEF Ahead
  <2> QED
    BY <1>2, <2>1, SpanAdvance DEF Ahead, Descriptors
<1>15. PICK u \in 0 .. NumTxDesc - 1 : u + 1 = Unsent
  BY <1>3, <1>4
<1>16. OwnedAhead(u)'
  <2>1. TxDescIndex' = (Site' + u) % NumTxDesc
    <3>1. Site \in 0 .. NumTxDesc - 1
      BY <1>2 DEF Descriptors
    <3> QED
      BY <1>3, <1>5, <1>13, <1>15, <3>1, IncrPlus
  <2>2. ASSUME NEW d \in Descriptors PROVE desc'[d].own <=> Ahead(d)' < u
    <3>1. CASE d = Site
      BY <1>12, <1>14, <1>15, <3>1
    <3>2. CASE d # Site
      BY <1>1, <1>3, <1>12, <1>14, <1>15, <3>2 DEF Bounds
    <3> QED
      BY <3>1, <3>2
  <2> QED
    BY <2>1, <2>2 DEF OwnedAhead
<1>17. Unsent' = u /\ Wire' = Wire + 1
  <2>1. Unsent' = u
    BY <1>1, <1>15, <1>16 DEF UnsentDetermined
  <2> QED
    BY <1>1, <1>3, <1>10, <1>15, <2>1 DEF Wire, Bounds
<1>18. DescriptorsInStep'
  <2>1. OwnedAhead(Unsent)' /\ At(Oldest)' <= Wire'
    BY <1>3, <1>8, <1>9, <1>16, <1>17
  <2>2. ASSUME NEW d \in Descriptors, desc'[d].own
        PROVE  Describes(desc[d], Wire + Ahead(d), d)'
    <3>1. d # Site /\ desc'[d] = desc[d]
      BY <1>12, <2>2
    <3>2. PICK r, o : r = desc[d] /\ o = Wire + Ahead(d)
      OBVIOUS
    <3>3. Describes(r, o, d)'
      BY <1>11, <2>2, <3>1, <3>2 DEF Lockstep, DescriptorsInStep
    <3>4. o = Wire' + Ahead(d)'
      BY <1>1, <1>3, <1>14, <1>17, <3>1, <3>2 DEF Bounds
    <3> QED
      BY <3>1, <3>2, <3>3, <3>4
  <2>3. ASSUME pc' = "own" PROVE slot' = TxDescIndex' /\ Describes(desc[slot], Posted, slot)'
    <3>1. pc = "own" /\ slot' = slot /\ slot = TxDescIndex
      BY <1>5, <2>3 DEF Lockstep, DescriptorsInStep
    <3>2. slot \in Descriptors /\ ~desc[slot].own
      BY <1>1, <3>1, RoomToPost DEF Lockstep, TypeOK
    <3>3. desc'[slot] = desc[slot]
      BY <1>2, <1>12, <3>2
    <3>4. PICK r, o, d : r = desc[slot] /\ o = Posted /\ d = slot
      OBVIOUS
    <3>5. Describes(r, o, d)'
      BY <1>11, <3>1, <3>4 DEF Lockstep, DescriptorsInStep
    <3> QED
      BY <1>5, <1>10, <3>1, <3>3, <3>4, <3>5
  <2> QED
    BY <2>1, <2>2, <2>3 DEF DescriptorsInStep
<1>19. TcbsInStep'
  <2>1. \A j \in Packets : Live(j)' <=> Live(j)
    BY <1>5, <1>8, <1>9 DEF Live
  <2> QED
    BY <1>5, <1>9, <1>10, <2>1 DEF Lockstep, TcbsInStep
<1>20. /\ At(i) \in Nat /\ Past(i) \in Nat /\ packet[i].count \in Nat
       /\ \A j \in InFlight : At(j) \in Nat /\ Past(j) \in Nat
  <2>1. \A j \in InFlight : At(j) \in Nat /\ packet[j].count \in Nat
    BY <1>1 DEF Places
  <2> QED
    BY <1>7, <2>1 DEF Past
<1>21. \A j \in InFlight : At(j) <= Wire /\ Wire < Past(j) => j = i
  BY <1>3, <1>7, OnePacket
<1>22. FrameSoFar'
  <2>1. CASE desc[nic.at].ls
    <3>1. Wire + 1 = Past(i) /\ nic'.frame = << >>
      BY <1>6, <1>7, <2>1
    <3>2. ASSUME NEW j \in InFlight, At(j) < Wire + 1, Wire + 1 < Past(j) PROVE FALSE
      <4>1. j = i
        BY <1>3, <1>20, <1>21, <3>2
      <4> QED
        BY <1>20, <3>1, <3>2, <4>1
    <3> QED
      BY <1>9, <1>17, <3>1, <3>2 DEF FrameSoFar
  <2>2. CASE ~desc[nic.at].ls
    <3>1. nic'.frame = SubSeq(FragmentsOf(i)', 1, Wire' - At(i)')
      <4>1. PICK F, n : F = FragmentsOf(i) /\ n = Wire + 1 - At(i)
        OBVIOUS
      <4>2. nic'.frame = SubSeq(F, 1, n)
        BY <1>6, <1>7, <2>2, <4>1
      <4>3. FragmentsOf(i)' = F
        BY <1>9, <4>1
      <4>4. Wire' = Wire + 1 /\ At(i)' = At(i)
        BY <1>9, <1>17
      <4>5. Wire' - At(i)' = n
        BY <1>3, <1>20, <4>1, <4>4
      <4> QED
        BY <4>2, <4>3, <4>5
    <3>2. At(i) < Wire + 1 /\ Wire + 1 < Past(i)
      <4>1. PICK w, a, p : w = Wire /\ a = At(i) /\ p = Past(i)
        OBVIOUS
      <4>2. w \in Nat /\ a \in Nat /\ p \in Nat
        BY <1>3, <1>20, <4>1
      <4>3. a <= w /\ w < p /\ w + 1 # p
        BY <1>7, <2>2, <4>1
      <4>4. a < w + 1 /\ w + 1 < p
        BY <4>2, <4>3
      <4> QED
        BY <4>1, <4>4
    <3>3. \A j \in InFlight : At(j) < Wire + 1 /\ Wire + 1 < Past(j) => j = i
      BY <1>3, <1>20, <1>21
    <3>4. \A j \in InFlight' : At(j)' < Wire' /\ Wire' < Past(j)' => j = i
      BY <1>9, <1>17, <3>3
    <3>5. i \in InFlight' /\ At(i)' < Wire' /\ Wire' < Past(i)'
      BY <1>7, <1>9, <1>17, <3>2
    <3> QED
      BY <3>1, <3>4, <3>5 DEF FrameSoFar
  <2> QED
    BY <2>1, <2>2
<1>23. SentSoFar'
  <2>1. ASSUME NEW j \in InFlight PROVE j \in sent' <=> ~packet[j].ignore /\ Past(j) <= Wire + 1
    <3>1. j \in sent <=> ~packet[j].ignore /\ Past(j) <= Wire
      BY DEF Lockstep, SentSoFar
    <3>2. CASE j = i
      <4>1. Wire + 1 = Past(i) <=> Past(i) <= Wire + 1
        BY <1>3, <1>7, <1>20
      <4>2. i \in sent' <=> desc[nic.at].ls
        BY <1>6
      <4> QED
        BY <1>7, <3>2, <4>1, <4>2
    <3>3. CASE j # i
      <4>1. j \in sent' <=> j \in sent
        BY <1>6, <3>3
      <4>2. ~packet[j].ignore /\ Past(j) <= Wire + 1 => Past(j) <= Wire
        <5>1. ~packet[j].ignore => At(j) < Past(j)
          BY <1>1, <1>20 DEF OrderInv, FragmentsConsecutive, Past, Places
        <5> QED
          BY <1>3, <1>20, <1>21, <3>3, <5>1
      <4> QED
        BY <1>3, <1>20, <3>1, <4>1, <4>2
    <3> QED
      BY <3>2, <3>3
  <2>2. sent' \subseteq InFlight
    BY <1>6, <1>7 DEF Lockstep, SentSoFar
  <2> QED
    BY <1>6, <1>9, <1>17, <2>1, <2>2 DEF SentSoFar
<1>24. Rung'
  BY <1>1, <1>2, <1>5 DEF Rung, TypeOK
<1> QED
  BY <1>18, <1>19, <1>22, <1>23, <1>24 DEF Lockstep
-----------------------------------------------------------------------------
(* The agreement is kept by every step, until a reset meets packets in flight. *)

\* Once a reset has met packets in flight, torn stays.
LEMMA TornStays == OrderInv /\ [Next]_vars /\ ~torn' => ~torn
BY DEF OrderInv, IndInv, TypeOK, Next, vars, Submit, EvtTxQueueCancel, EvtTxQueueAdvance,
       Transmit, TransmitPacket, PostDescriptorBody, PostDescriptorOwn, PacketPosted,
       TransmitEnd, CompleteTransmit, CompletePacket, CompleteEnd, Nic, NicFetch, NicIdle,
       Reset, ResetStop, ResetQueues, ResetStart, ResetStep

\* Only RtlResetLink turns the transmitter off, and it turns it on again.
LEMMA ResetKept == OrderInv /\ ResetInv /\ [Next]_vars => ResetInv'
<1> SUFFICES ASSUME OrderInv, ResetInv, [Next]_vars PROVE ResetInv'
  OBVIOUS
<1>1. /\ resets \in 0 .. MaxResets /\ MaxResets \in Nat
      /\ nic \in [on : BOOLEAN, poll : BOOLEAN, at : Descriptors, frame : Seq(Fragments)]
  BY SizeAssumption DEF OrderInv, IndInv, TypeOK
<1>2. ASSUME Reset PROVE ResetInv'
  <2>1. MaxResets # 0
    <3>1. resets < MaxResets \/ rpc # "none"
      BY <1>2 DEF Reset, ResetStop, ResetQueues, ResetStart
    <3> QED
      BY <1>1, <3>1 DEF ResetInv
  <2>2. nic'.on <=> rpc' = "none"
    BY <1>1, <1>2 DEF ResetInv, Reset, ResetStop, ResetQueues, ResetStart
  <2> QED
    BY <2>1, <2>2 DEF ResetInv
<1>3. ASSUME ~Reset PROVE UNCHANGED <<rpc, torn>> /\ nic'.on = nic.on
  BY <1>1, <1>3 DEF Next, vars, Submit, EvtTxQueueCancel, EvtTxQueueAdvance,
       Transmit, TransmitPacket, PostDescriptorBody, PostDescriptorOwn, PacketPosted,
       TransmitEnd, CompleteTransmit, CompletePacket, CompleteEnd, Nic, NicFetch, NicIdle,
       reset
<1> QED
  BY <1>2, <1>3 DEF ResetInv

\* In the initial state, and between calls with nothing outstanding, they agree.
LEMMA InitLock == Init => LockInv
<1> SUFFICES ASSUME Init PROVE LockInv
  OBVIOUS
<1> USE SizeAssumption, NumTxDescType
<1>1. OrderInv /\ Bounds /\ Places /\ UnsentDetermined
  BY InitOrder, BoundsHold, UnsentFound, PlacesFound DEF OrderInv, IndInv
<1>2. ResetInv
  BY DEF Init, ResetInv
<1>3. /\ pc = "idle" /\ nic.at = 0 /\ rpc = "none" /\ TxDescIndex = 0 /\ sent = {}
      /\ pr.begin = 0 /\ pr.next = 0 /\ pr.end = 0 /\ nic.frame = << >> /\ ~stray
      /\ \A d \in Descriptors : ~desc[d].own
  BY DEF Init, EmptyRing, ZeroDesc
<1>4. Site = 0 /\ Oldest = pr.begin /\ Turn = pr.next /\ InFlight = {}
  <2>1. \A i \in Packets : ~(Span(NumPkt, 0, i) < Span(NumPkt, 0, 0))
    BY SpanNone, SpanValue, ZeroInRings DEF Packets
  <2> QED
    BY <1>3, <2>1 DEF Site, Oldest, Turn, InFlight, Between, Packets
<1>5. Posted = 0 /\ At(Oldest) = 0 /\ Unsent = 0 /\ Wire = 0
  <2>1. At(pr.begin) = 0
    BY <1>1 DEF Places
  <2> QED
    BY <1>1, <1>3, <1>4, <2>1 DEF Posted, Unsent, Wire, Bounds
<1>6. OwnedAhead(0)
  BY <1>1, <1>3, <1>4 DEF OwnedAhead, Bounds
<1>7. DescriptorsInStep
  BY <1>3, <1>5, <1>6 DEF DescriptorsInStep
<1>8. TcbsInStep /\ FrameSoFar /\ SentSoFar /\ Rung
  BY <1>3, <1>4, <1>5 DEF TcbsInStep, Live, FrameSoFar, SentSoFar, Rung
<1> QED
  BY <1>1, <1>2, <1>7, <1>8 DEF LockInv, Lockstep

\* What one step does to the agreement and to the descriptors the NIC owns.
LEMMA StepLock ==
    ASSUME OrderInv, OrderInv', ResetInv, Lockstep, [Next]_vars
    PROVE  /\ ~torn' => Lockstep'
           /\ \A d \in Descriptors :
                 desc[d].own /\ desc'[d] # desc[d] =>
                   nic.at = d /\ nic.poll /\ desc'[d] = [desc[d] EXCEPT !.own = FALSE]
<1>1. CASE Submit
  BY <1>1, SubmitLock
<1>2. CASE EvtTxQueueCancel \/ NicIdle \/ UNCHANGED vars
  BY <1>2, NicIdleLock
<1>3. CASE EvtTxQueueAdvance \/ TransmitPacket \/ PacketPosted \/ TransmitEnd
  BY <1>3, TransmitLock
<1>4. CASE PostDescriptorBody
  BY <1>4, PostBodyLock
<1>5. CASE PostDescriptorOwn
  BY <1>5, PostOwnLock
<1>6. CASE CompletePacket
  BY <1>6, CompletePacketLock
<1>7. CASE CompleteEnd
  BY <1>7, CompleteEndLock
<1>8. CASE NicFetch
  <2>1. desc' = [desc EXCEPT ![nic.at].own = FALSE] /\ nic.poll
    BY <1>8 DEF NicFetch
  <2>2. desc \in [Descriptors -> TxDesc]
    BY DEF OrderInv, IndInv, TypeOK
  <2> QED
    BY <1>8, <2>1, <2>2, NicFetchLock
<1>9. CASE Reset
  <2>1. desc' = desc
    BY <1>9 DEF Reset, ResetStop, ResetQueues, ResetStart, ResetStep
  <2> QED
    BY <1>9, <2>1, ResetLock
<1> QED
  BY <1>1, <1>2, <1>3, <1>4, <1>5, <1>6, <1>7, <1>8, <1>9
     DEF Next, Transmit, CompleteTransmit, Nic

\* Every step keeps the invariant.
LEMMA NextLock == LockInv /\ [Next]_vars => LockInv'
<1> SUFFICES ASSUME LockInv, [Next]_vars PROVE LockInv'
  OBVIOUS
<1>1. OrderInv /\ ResetInv /\ (~torn => Lockstep)
  BY DEF LockInv
<1>2. OrderInv'
  BY <1>1, NextOrder
<1>3. ResetInv'
  BY <1>1, ResetKept
<1>4. ASSUME ~torn' PROVE Lockstep'
  <2>1. Lockstep
    BY <1>1, <1>4, TornStays
  <2> QED
    BY <1>1, <1>2, <1>4, <2>1, StepLock
<1> QED
  BY <1>2, <1>3, <1>4 DEF LockInv

LEMMA LockKept == Spec => []LockInv
  BY InitLock, NextLock, PTL DEF Spec

\* NoOwnedOverwrite: until a reset meets packets in flight, nobody but the NIC
\* changes a descriptor it owns, and all it does is to hand it back.
THEOREM NoOwnedOverwritten == Spec => NoOwnedOverwrite
<1>1. ASSUME LockInv, [Next]_vars
      PROVE  [\A d \in Descriptors :
                 desc[d].own /\ desc'[d] # desc[d] =>
                   \/ torn
                   \/ nic.at = d /\ nic.poll /\ desc'[d] = [desc[d] EXCEPT !.own = FALSE]
             ]_vars
  <2>1. CASE torn
    BY <2>1
  <2>2. CASE ~torn
    <3>1. OrderInv /\ OrderInv' /\ ResetInv /\ Lockstep
      BY <1>1, <2>2, NextOrder DEF LockInv
    <3> QED
      BY <1>1, <3>1, StepLock
  <2> QED
    BY <2>1, <2>2
<1> QED
  BY <1>1, LockKept, PTL DEF Spec, NoOwnedOverwrite
-----------------------------------------------------------------------------
(* What the agreement means for the operating system and the NIC. *)

\* ResetKeepsLockstep: RtlResetLink, run while nothing is in flight, leaves the NIC
\* and TxDescIndex at the same descriptor; so do completed packets.
THEOREM ResetInLockstep == Spec => []ResetKeepsLockstep
<1>1. ASSUME LockInv PROVE ResetKeepsLockstep
  <2> SUFFICES ASSUME ~torn, rpc = "none", Quiet PROVE nic.at = TxDescIndex
    BY DEF ResetKeepsLockstep
  <2>1. OrderInv /\ DescriptorsInStep
    BY <1>1 DEF LockInv, Lockstep
  <2> QED
    BY <2>1, QuietTaken DEF Site
<1> QED
  BY <1>1, LockKept, PTL

\* DoorbellNotLost: RtFlushTransation rings the doorbell once per call, and between
\* calls a NIC that stopped polling has taken every descriptor it owned.
THEOREM DoorbellHeard == Spec => []DoorbellNotLost
<1>1. ASSUME LockInv PROVE DoorbellNotLost
  <2> SUFFICES ASSUME pc = "idle", rpc = "none", ~torn, NEW d \in Descriptors, desc[d].own
               PROVE  nic.poll
    BY DEF DoorbellNotLost
  <2>1. OrderInv /\ DescriptorsInStep /\ Rung
    BY <1>1 DEF LockInv, Lockstep
  <2>2. Ahead(d) < Unsent /\ Ahead(d) \in 0 .. NumTxDesc - 1 /\ Unsent \in 0 .. NumTxDesc
    BY <2>1, WireBounds, BoundsHold DEF Bounds
  <2>3. Unsent > 0
    BY <2>2, NumTxDescType
  <2> QED
    BY <2>1, <2>3 DEF Rung
<1> QED
  BY <1>1, LockKept, PTL

\* NicReadsHeldBuffers: RtCompleteTransmitPackets looks at one descriptor of a packet
\* and hands all of its fragments back; the NIC owns a descriptor of none of them.
THEOREM HeldBuffersRead == Spec => []NicReadsHeldBuffers
<1>1. ASSUME LockInv PROVE NicReadsHeldBuffers
  <2> SUFFICES ASSUME ~torn, NEW d \in Descriptors, desc[d].own
               PROVE  desc[d].buf \in Between(NumFrag, fr.begin, fr.end)
    BY DEF NicReadsHeldBuffers
  <2>1. /\ OrderInv /\ DescriptorsInStep /\ Bounds /\ Places
        /\ desc[d].buf \in Fragments
    <3>1. OrderInv /\ DescriptorsInStep
      BY <1>1 DEF LockInv, Lockstep
    <3>2. desc[d] \in TxDesc
      BY <3>1 DEF OrderInv, IndInv, TypeOK
    <3> QED
      BY <3>1, <3>2, BoundsHold, PlacesFound DEF OrderInv, IndInv, TxDesc
  <2> DEFINE o == Wire + Ahead(d)
  <2>2. /\ o \in Nat /\ At(Oldest) <= o /\ At(Oldest) \in Nat
        /\ At(pr.end) \in Nat
    BY <2>1, WireBounds, NumTxDescType DEF Bounds
  <2>3. Off(desc[d].buf) = o
    BY <2>1 DEF DescriptorsInStep, Describes
  <2>4. PICK i \in InFlight : o < Past(i)
    BY <2>1 DEF DescriptorsInStep, Describes
  <2>5. Past(i) <= At(pr.end) /\ Past(i) \in Int
    BY <2>1 DEF OrderInv, FragmentsConsecutive, Places, Past
  <2>6. o < At(pr.end)
    BY <2>2, <2>4, <2>5
  <2>7. /\ fr.begin = Start(Oldest) /\ fr.end = Start(pr.end)
        /\ {Start(Oldest), Start(pr.end), Start(pr.begin)} \subseteq 0 .. NumFrag - 1
    BY <2>1 DEF OrderInv, RingsInStep, Start, Places, Bounds, Fragments
  <2>8. /\ Span(NumFrag, fr.begin, desc[d].buf) = o - At(Oldest)
        /\ Span(NumFrag, fr.begin, fr.end) = At(pr.end) - At(Oldest)
    <3>1. /\ Off(desc[d].buf) = Span(NumFrag, Start(pr.begin), desc[d].buf)
          /\ At(Oldest) = Span(NumFrag, Start(pr.begin), fr.begin)
          /\ At(pr.end) = Span(NumFrag, Start(pr.begin), fr.end)
      BY <2>7 DEF At, Off
    <3>2. {desc[d].buf, fr.begin, fr.end} \subseteq 0 .. NumFrag - 1
      BY <2>1, <2>7 DEF Fragments
    <3>3. NumFrag \in Nat \ {0}
      BY SizeAssumption
    <3>4. Span(NumFrag, fr.begin, desc[d].buf) = o - At(Oldest)
      <4>1. Span(NumFrag, Start(pr.begin), fr.begin)
              <= Span(NumFrag, Start(pr.begin), desc[d].buf)
        BY <2>2, <2>3, <3>1
      <4>2. Span(NumFrag, fr.begin, desc[d].buf)
              = Span(NumFrag, Start(pr.begin), desc[d].buf)
                  - Span(NumFrag, Start(pr.begin), fr.begin)
        BY <2>7, <3>2, <3>3, <4>1, SpanShift
      <4> QED
        BY <2>3, <3>1, <4>2
    <3>5. At(Oldest) <= At(pr.end)
      BY <2>2, <2>6
    <3>6. Span(NumFrag, fr.begin, fr.end) = At(pr.end) - At(Oldest)
      BY <2>7, <3>1, <3>2, <3>3, <3>5, SpanShift
    <3> QED
      BY <3>4, <3>6
  <2> QED
    BY <2>1, <2>2, <2>6, <2>8 DEF Between, Fragments
<1> QED
  BY <1>1, LockKept, PTL

\* FrameOfOldestPacket: although RtPostTxDescriptor hands a packet's descriptors over
\* one by one, the NIC never mixes, cuts short or reorders frames.
THEOREM FramesInOrder == Spec => []FrameOfOldestPacket
<1>1. ASSUME LockInv PROVE FrameOfOldestPacket
  <2> SUFFICES ASSUME ~torn PROVE FrameOfOldestPacket
    BY DEF FrameOfOldestPacket
  <2>1. OrderInv /\ DescriptorsInStep /\ FrameSoFar /\ SentSoFar /\ Places /\ Bounds
    BY <1>1, PlacesFound, BoundsHold DEF LockInv, Lockstep, OrderInv, IndInv
  <2>2. Wire \in Nat
    BY <2>1, WireBounds
  <2> SUFFICES ASSUME nic.frame # << >>
               PROVE  \E i \in InFlight :
                        /\ ~packet[i].ignore /\ i \notin sent
                        /\ Len(nic.frame) < packet[i].count
                        /\ nic.frame = SubSeq(FragmentsOf(i), 1, Len(nic.frame))
                        /\ \A j \in Between(NumPkt, pr.begin, i) :
                              packet[j].ignore \/ j \in sent
    BY <2>1 DEF FrameOfOldestPacket, SentSoFar
  <2>3. PICK i \in InFlight : At(i) < Wire /\ Wire < Past(i)
    BY <2>1 DEF FrameSoFar
  <2> DEFINE n == Wire - At(i)
             F == FragmentsOf(i)
  <2>4. /\ i \in Packets /\ At(i) \in Nat /\ packet[i].count \in Nat
        /\ Past(i) = At(i) + packet[i].count
    BY <2>1 DEF Places, Past
  <2>5. n \in Nat /\ n < packet[i].count
    BY <2>2, <2>3, <2>4
  <2>6. F \in Seq(Fragments) /\ Len(F) = packet[i].count
    BY <2>1, FragmentsOfType
  <2>7. nic.frame = SubSeq(F, 1, n)
    BY <2>1, <2>3 DEF FrameSoFar
  <2>8. Len(nic.frame) = n
    <3> HIDE DEF F, n
    <3> QED
      BY <2>5, <2>6, <2>7, <2>4
  <2>9. ~packet[i].ignore /\ i \notin sent
    <3>1. packet[i].ignore <=> packet[i].count = 0
      BY <2>1 DEF OrderInv, FragmentsConsecutive
    <3>2. i \in sent => Past(i) <= Wire
      BY <2>1 DEF SentSoFar
    <3> QED
      BY <2>2, <2>3, <2>4, <2>5, <3>1, <3>2
  <2>10. ASSUME NEW j \in Between(NumPkt, pr.begin, i) PROVE packet[j].ignore \/ j \in sent
    <3>1. j \in Packets /\ Pos(j) < Pos(i) /\ Pos(i) < Pos(pr.end)
      BY <2>1, <2>3 DEF Between, Pos, Packets, Places
    <3>2. Pos(i) <= Pos(pr.end)
      BY <2>1, <2>4, <3>1 DEF Places
    <3>3. j \in InFlight /\ Past(j) <= At(i)
      BY <2>1, <2>4, <3>1, <3>2, PlacesGrow
    <3>4. Past(j) \in Int
      BY <2>1, <3>3 DEF Places, Past
    <3>5. Past(j) <= Wire
      BY <2>2, <2>3, <2>4, <3>3, <3>4
    <3> QED
      BY <2>1, <3>3, <3>5 DEF SentSoFar
  <2> QED
    BY <2>5, <2>7, <2>8, <2>9, <2>10
<1> QED
  BY <1>1, LockKept, PTL
-----------------------------------------------------------------------------
(* TxQueue implements the safety part of TxService. *)

PacketStates == {"waiting", "sent", "ignored"}

\* q is the queue of TxService: at place k, counted from 1, the state of the packet
\* at place k - 1 of the ring.
Reads(q) ==
    /\ q \in Seq(PacketStates) /\ Len(q) = Pos(pr.end)
    /\ \A i \in InFlight : q[Pos(i) + 1] = PacketStateOf(i)

\* Every place of the ring up to its end is that of a packet in flight.
LEMMA PlacesFilled ==
    ASSUME OrderInv, NEW k \in 0 .. Pos(pr.end) - 1
    PROVE  \E i \in InFlight : Pos(i) = k
<1>1. Places /\ NumPkt \in Nat \ {0} /\ pr.begin \in 0 .. NumPkt - 1
  BY PlacesFound, SizeAssumption DEF OrderInv, IndInv, Places, Packets
<1>2. k \in 0 .. NumPkt - 1 /\ k < Pos(pr.end)
  BY <1>1 DEF Places
<1>3. PICK i \in 0 .. NumPkt - 1 : Span(NumPkt, pr.begin, i) = k
  BY <1>1, <1>2, SpanOnto
<1> QED
  BY <1>1, <1>2, <1>3 DEF Places, Packets, Pos

\* The refinement mapping gives such a queue.
LEMMA QueueReads == OrderInv => Reads(ServiceQueue)
<1> SUFFICES ASSUME OrderInv PROVE Reads(ServiceQueue)
  OBVIOUS
<1>1. Places /\ NumPkt \in Nat \ {0} /\ pr.begin \in 0 .. NumPkt - 1
  BY PlacesFound, SizeAssumption DEF OrderInv, IndInv, Places, Packets
<1>2. Pos(pr.end) \in Nat
  BY <1>1 DEF Places
<1>3. \A i : PacketStateOf(i) \in PacketStates
  BY DEF PacketStateOf, PacketStates
<1>4. ServiceQueue = [k \in 1 .. Pos(pr.end) |-> PacketStateOf((pr.begin + k - 1) % NumPkt)]
  BY DEF ServiceQueue, Pos
<1>5. ServiceQueue \in Seq(PacketStates) /\ Len(ServiceQueue) = Pos(pr.end)
  BY <1>2, <1>3, <1>4
<1>6. ASSUME NEW i \in InFlight PROVE ServiceQueue[Pos(i) + 1] = PacketStateOf(i)
  <2>1. i \in 0 .. NumPkt - 1 /\ Pos(i) \in Nat /\ Pos(i) < Pos(pr.end)
    BY <1>1 DEF Places, Packets
  <2>2. Pos(i) + 1 \in 1 .. Pos(pr.end)
    BY <1>2, <2>1
  <2>3. pr.begin + (Pos(i) + 1) - 1 = pr.begin + Pos(i)
    BY <1>1, <2>1
  <2>4. (pr.begin + Pos(i)) % NumPkt = i
    BY <1>1, <2>1, PlusSpan DEF Pos
  <2> QED
    BY <1>4, <2>2, <2>3, <2>4
<1> QED
  BY <1>5, <1>6 DEF Reads

\* A packet that no step moved and whose sending no step recorded stands as it did.
LEMMA QueueKept ==
    ASSUME Still, sent' = sent
    PROVE  ServiceQueue' = ServiceQueue
BY DEF Still, ServiceQueue, PacketStateOf
\* How sequences are recognised from their lengths and elements.
LEMMA SameSeq ==
    ASSUME NEW S, NEW s \in Seq(S), NEW t \in Seq(S), Len(s) = Len(t),
           \A k \in 1 .. Len(s) : s[k] = t[k]
    PROVE  s = t
  OBVIOUS

LEMMA AppendFound ==
    ASSUME NEW S, NEW q \in Seq(S), NEW r \in Seq(S), Len(r) = Len(q) + 1,
           \A k \in 1 .. Len(q) : r[k] = q[k]
    PROVE  r = Append(q, r[Len(q) + 1])
<1> DEFINE t == Append(q, r[Len(q) + 1])
<1>1. r[Len(q) + 1] \in S
  OBVIOUS
<1>2. t \in Seq(S) /\ Len(t) = Len(q) + 1
  BY <1>1
<1>3. \A k \in 1 .. Len(r) : t[k] = r[k]
  BY <1>1
<1> HIDE DEF t
<1>4. r = t
  BY <1>2, <1>3
<1> QED
  BY <1>4 DEF t

LEMMA TailFound ==
    ASSUME NEW S, NEW q \in Seq(S), NEW r \in Seq(S), NEW n \in Nat, n <= Len(q),
           Len(r) = Len(q) - n, \A k \in 1 .. Len(r) : r[k] = q[n + k]
    PROVE  r = SubSeq(q, n + 1, Len(q))
<1> DEFINE t == SubSeq(q, n + 1, Len(q))
<1>1. t \in Seq(S) /\ Len(t) = Len(q) - n
  OBVIOUS
<1>2. \A k \in 1 .. Len(r) : t[k] = q[n + k]
  OBVIOUS
<1> HIDE DEF t
<1>3. Len(t) = Len(r) /\ \A k \in 1 .. Len(r) : t[k] = r[k]
  BY <1>1, <1>2
<1>4. r = t
  BY <1>1, <1>3, SameSeq
<1> QED
  BY <1>4 DEF t

\* Places in the ring before a packet's are earlier in the queue.
LEMMA EarlierSent ==
    ASSUME OrderInv, Lockstep, NEW i \in Packets, Pos(i) <= Pos(pr.end), At(i) <= Wire
    PROVE  \A j \in InFlight : Pos(j) < Pos(i) => PacketStateOf(j) # "waiting"
<1> SUFFICES ASSUME NEW j \in InFlight, Pos(j) < Pos(i)
             PROVE  packet[j].ignore \/ j \in sent
  BY DEF PacketStateOf
<1>1. Places /\ Wire \in Nat /\ At(i) \in Int /\ j \in Packets /\ Past(j) \in Int
  BY PlacesFound, WireBounds DEF OrderInv, IndInv, Lockstep, Places, Past
<1>2. Past(j) <= At(i)
  BY <1>1, PlacesGrow
<1> QED
  BY <1>1, <1>2 DEF Lockstep, SentSoFar

\* Submit adds a packet at the end of the queue.
LEMMA SubmitServes ==
    ASSUME OrderInv, OrderInv', Lockstep, Submit
    PROVE  Service!Next
<1> USE SizeAssumption
<1>1. /\ Places /\ IndInv' /\ pr.end \in Packets /\ sent' = sent /\ sent \subseteq InFlight
      /\ Incr(NumPkt, pr.end) # pr.begin
  BY PlacesFound DEF OrderInv, IndInv, Places, Submit, ghosts, Lockstep, SentSoFar
<1>2. PICK e \in Packets : e = pr.end
  BY <1>1
<1>3. PICK n \in 0 .. MaxFrags : Added(e, n)
  BY <1>1, <1>2, SubmitPlaces
<1>4. PICK q, r : q = ServiceQueue /\ r = ServiceQueue'
  OBVIOUS
<1>5. Reads(q) /\ Reads(r)'
  <2>1. Reads(ServiceQueue) /\ Reads(ServiceQueue)'
    BY QueueReads, PTL
  <2> QED
    BY <1>4, <2>1 DEF Reads
<1>6. /\ q \in Seq(PacketStates) /\ r \in Seq(PacketStates)
      /\ Len(q) = Pos(e) /\ Len(r) = Pos(e) + 1 /\ Pos(e) \in Nat
  BY <1>1, <1>2, <1>3, <1>5 DEF Reads, Added, Places
<1>7. \A i \in InFlight : PacketStateOf(i)' = PacketStateOf(i) /\ Pos(i)' = Pos(i) /\ i \in InFlight'
  BY <1>1, <1>3 DEF PacketStateOf, Added
<1>8. ASSUME NEW k \in 1 .. Len(q) PROVE r[k] = q[k]
  <2>1. k - 1 \in 0 .. Pos(pr.end) - 1
    BY <1>2, <1>6
  <2>2. PICK i \in InFlight : Pos(i) = k - 1
    BY <2>1, PlacesFilled
  <2>3. q[Pos(i) + 1] = PacketStateOf(i) /\ r[Pos(i)' + 1] = PacketStateOf(i)'
    BY <1>5, <1>7, <2>2 DEF Reads
  <2> QED
    BY <1>6, <1>7, <2>2, <2>3
<1>9. r = Append(q, r[Len(q) + 1])
  BY <1>6, <1>8, AppendFound
<1>10. r[Len(q) + 1] \in {"waiting", "ignored"}
  <2>1. e \in InFlight' /\ Pos(e)' = Pos(e) /\ e \notin sent'
    BY <1>1, <1>3 DEF Added
  <2>2. r[Pos(e)' + 1] = PacketStateOf(e)'
    BY <1>5, <2>1 DEF Reads
  <2>3. PacketStateOf(e)' \in {"waiting", "ignored"}
    BY <2>1 DEF PacketStateOf
  <2> QED
    BY <1>6, <2>1, <2>2, <2>3
<1>11. Len(q) < NumPkt - 1
  <2>1. Span(NumPkt, pr.begin, Incr(NumPkt, e)) = Pos(e) + 1
    BY <1>1, <1>2, SpanNext DEF Places, Packets, Pos
  <2>2. Span(NumPkt, pr.begin, Incr(NumPkt, e)) \in 0 .. NumPkt - 1
    BY <1>1, <1>2, IncrPackets, SpanValue DEF Places, Packets
  <2> QED
    BY <1>6, <2>1, <2>2
<1> QED
  BY <1>4, <1>9, <1>10, <1>11 DEF Service!Next, Service!Submit

\* Taking the last descriptor of a packet puts the oldest waiting one on the wire.
LEMMA FetchServes ==
    ASSUME OrderInv, OrderInv', ResetInv, Lockstep, NicFetch
    PROVE  [Service!Next]_ServiceQueue
<1>1. Places /\ Still /\ Wire \in Nat
  BY PlacesFound, WireBounds DEF OrderInv, IndInv, NicFetch, Still, driver, Lockstep
<1>2. PICK i, frame :
         /\ i \in Packets
         /\ Sends(i, frame)
         /\ sent' = IF desc[nic.at].ls THEN sent \cup {i} ELSE sent
         /\ i \notin sent
  BY FetchRecords
<1>3. CASE ~desc[nic.at].ls
  BY <1>1, <1>2, <1>3, QueueKept
<1>4. CASE desc[nic.at].ls
  <2>1. PICK q, r : q = ServiceQueue /\ r = ServiceQueue'
    OBVIOUS
  <2>2. Reads(q) /\ Reads(r)'
    <3>1. Reads(ServiceQueue) /\ Reads(ServiceQueue)'
      BY QueueReads, PTL
    <3> QED
      BY <2>1, <3>1 DEF Reads
  <2>3. InFlight' = InFlight /\ \A j : Pos(j)' = Pos(j)
    BY <1>1, PlacesKept
  <2>4. /\ q \in Seq(PacketStates) /\ r \in Seq(PacketStates)
        /\ Len(q) = Pos(pr.end) /\ Len(r) = Len(q) /\ Pos(pr.end) \in Nat
    BY <1>1, <2>2, <2>3 DEF Reads, Places, Still
  <2>5. /\ i \in InFlight /\ ~packet[i].ignore /\ At(i) <= Wire /\ Pos(i) \in Nat
        /\ Pos(i) < Pos(pr.end) /\ sent' = sent \cup {i}
    BY <1>1, <1>2, <1>4 DEF Sends, Places
  <2> DEFINE x == Pos(i) + 1
  <2>6. x \in 1 .. Len(q)
    BY <2>4, <2>5
  <2>7. ASSUME NEW k \in 1 .. Len(q)
        PROVE  /\ r[k] = IF k = x THEN "sent" ELSE q[k]
               /\ k = x => q[k] = "waiting"
               /\ k < x => q[k] # "waiting"
    <3>1. k - 1 \in 0 .. Pos(pr.end) - 1
      BY <2>4
    <3>2. PICK j \in InFlight : Pos(j) = k - 1
      BY <3>1, PlacesFilled
    <3>3. q[k] = PacketStateOf(j) /\ r[k] = PacketStateOf(j)'
      <4>1. Pos(j) + 1 = k /\ Pos(j)' + 1 = k
        BY <2>3, <3>2
      <4> QED
        BY <2>2, <2>3, <4>1 DEF Reads
    <3>4. k = x <=> j = i
      <4>1. k = x <=> Pos(j) = Pos(i)
        BY <2>5, <3>2
      <4>2. i \in Packets /\ j \in Packets
        BY <1>1, <2>5 DEF Places
      <4> QED
        BY <1>1, <4>1, <4>2 DEF Places
    <3>5. k < x => PacketStateOf(j) # "waiting"
      <4>1. k < x => Pos(j) < Pos(i)
        BY <2>5, <3>2
      <4>2. Pos(i) <= Pos(pr.end)
        BY <2>4, <2>5
      <4> QED
        BY <1>2, <2>5, <4>1, <4>2, EarlierSent
    <3>6. packet' = packet
      BY <1>1 DEF Still
    <3>7. j = i => PacketStateOf(j) = "waiting" /\ PacketStateOf(j)' = "sent"
      BY <1>2, <2>5, <3>6 DEF PacketStateOf
    <3>8. j # i => PacketStateOf(j)' = PacketStateOf(j)
      BY <2>5, <3>6 DEF PacketStateOf
    <3> QED
      BY <3>3, <3>4, <3>5, <3>7, <3>8
  <2> HIDE DEF x
  <2>8. r = [q EXCEPT ![x] = "sent"]
    <3>1. [q EXCEPT ![x] = "sent"] \in Seq(PacketStates)
      BY <2>4, <2>6 DEF PacketStates
    <3>2. Len([q EXCEPT ![x] = "sent"]) = Len(q)
      BY <2>4, <2>6
    <3> QED
      BY <2>4, <2>6, <2>7, <3>1, <3>2
  <2>9. Service!Send
    <3>1. x \in DOMAIN q /\ q[x] = "waiting"
      BY <2>4, <2>6, <2>7
    <3>2. \A k \in 1 .. x - 1 : q[k] # "waiting"
      BY <2>4, <2>6, <2>7
    <3> QED
      BY <2>1, <2>8, <3>1, <3>2 DEF Service!Send
  <2> QED
    BY <2>9 DEF Service!Next
<1> QED
  BY <1>3, <1>4
\* Moving the ring's begin index hands back a whole number of packets, all of them
\* sent or marked Ignore.
LEMMA CompleteEndServes ==
    ASSUME OrderInv, OrderInv', Lockstep, CompleteEnd
    PROVE  [Service!Next]_ServiceQueue
<1>1. Places /\ pi \in Packets /\ pr.end \in Packets /\ Oldest = pi
  BY PlacesFound DEF OrderInv, IndInv, TypeOK, Places, CompleteEnd, Oldest
<1>2. PICK p \in Packets, e \in Packets : p = pi /\ e = pr.end
  BY <1>1
<1>3. /\ Pos(p) <= Pos(e) /\ pr'.end = e
      /\ \A i \in Packets :
            /\ i \in InFlight' <=> i \in InFlight /\ Pos(p) <= Pos(i)
            /\ Pos(p) <= Pos(i) => Pos(i)' = Pos(i) - Pos(p)
      /\ \A i \in InFlight' : packet'[i] = packet[i]
  BY <1>2, CompleteEndPlaces
<1>4. \A i \in InFlight' : i \in sent' <=> i \in sent
  <2>1. sent' = sent \cap InFlight'
    BY DEF OrderInv, IndInv, TypeOK, CompleteEnd, InFlight, Ring
  <2> QED
    BY <2>1
<1>5. \A i \in InFlight' : PacketStateOf(i)' = PacketStateOf(i)
  BY <1>3, <1>4 DEF PacketStateOf
<1>6. PICK q, r, n : q = ServiceQueue /\ r = ServiceQueue' /\ n = Pos(p)
  OBVIOUS
<1>7. Reads(q) /\ Reads(r)'
  <2>1. Reads(ServiceQueue) /\ Reads(ServiceQueue)'
    BY QueueReads, PTL
  <2> QED
    BY <1>6, <2>1 DEF Reads
<1>8. Pos(pr.end)' = Pos(e) - n /\ Pos(pr.end) = Pos(e) /\ n \in Nat /\ Pos(e) \in Nat
  <2>1. Pos(pr.end)' = Pos(e)'
    BY <1>3 DEF Pos
  <2>2. n \in Nat /\ Pos(e) \in Nat
    BY <1>1, <1>6 DEF Places
  <2> QED
    BY <1>2, <1>3, <1>6, <2>1, <2>2
<1>9. /\ q \in Seq(PacketStates) /\ r \in Seq(PacketStates)
      /\ Len(q) = Pos(e) /\ Len(r) = Len(q) - n /\ n <= Len(q)
  BY <1>3, <1>6, <1>7, <1>8 DEF Reads
<1>10. ASSUME NEW k \in 1 .. Len(r) PROVE r[k] = q[n + k]
  <2>1. n + k - 1 \in 0 .. Pos(pr.end) - 1
    BY <1>8, <1>9
  <2>2. PICK i \in InFlight : Pos(i) = n + k - 1
    BY <2>1, PlacesFilled
  <2>3. i \in Packets /\ Pos(p) <= Pos(i)
    BY <1>1, <1>6, <1>8, <2>2 DEF Places
  <2>4. i \in InFlight' /\ Pos(i)' = k - 1
    BY <1>3, <1>6, <1>8, <2>2, <2>3
  <2>5. q[Pos(i) + 1] = PacketStateOf(i) /\ r[Pos(i)' + 1] = PacketStateOf(i)'
    BY <1>7, <2>2, <2>4 DEF Reads
  <2>6. Pos(i) + 1 = n + k /\ Pos(i)' + 1 = k
    BY <1>8, <2>2, <2>4
  <2> QED
    BY <1>5, <2>4, <2>5, <2>6
<1>11. r = SubSeq(q, n + 1, Len(q))
  BY <1>8, <1>9, <1>10, TailFound
<1>12. CASE n = 0
  <2>1. r = q
    <3>1. \A k \in 1 .. Len(r) : r[k] = q[k]
      BY <1>9, <1>10, <1>12
    <3> QED
      BY <1>9, <1>12, <3>1, SameSeq
  <2> QED
    BY <1>6, <2>1
<1>13. CASE n # 0
  <2>1. n \in 1 .. Len(q)
    BY <1>8, <1>9, <1>13
  <2>2. ASSUME NEW k \in 1 .. n PROVE q[k] # "waiting"
    <3>1. k - 1 \in 0 .. Pos(pr.end) - 1 /\ k - 1 < n
      BY <1>8, <1>9, <2>1
    <3>2. PICK i \in InFlight : Pos(i) = k - 1
      BY <3>1, PlacesFilled
    <3>3. q[k] = PacketStateOf(i)
      <4>1. Pos(i) + 1 = k
        BY <3>2
      <4> QED
        BY <1>7, <4>1 DEF Reads
    <3>4. At(p) <= Wire /\ Pos(p) <= Pos(pr.end)
      BY <1>1, <1>2, <1>3 DEF Lockstep, DescriptorsInStep
    <3>5. Pos(i) < Pos(p)
      BY <1>6, <3>1, <3>2
    <3> QED
      BY <3>3, <3>4, <3>5, EarlierSent
  <2>3. Service!Complete
    BY <1>6, <1>11, <2>1, <2>2 DEF Service!Complete
  <2> QED
    BY <2>3 DEF Service!Next
<1> QED
  BY <1>12, <1>13

\* Every step is one of TxService, or nothing that the operating system sees.
LEMMA StepServes ==
    ASSUME OrderInv, OrderInv', ResetInv, Lockstep, [Next]_vars
    PROVE  [Service!Next]_ServiceQueue
<1>1. CASE Submit
  BY <1>1, SubmitServes
<1>2. CASE NicFetch
  BY <1>2, FetchServes
<1>3. CASE CompleteEnd
  BY <1>3, CompleteEndServes
<1>4. CASE EvtTxQueueCancel \/ NicIdle \/ UNCHANGED vars
  <2>1. Still /\ sent' = sent
    BY <1>4 DEF EvtTxQueueCancel, NicIdle, vars, Still, driver, ghosts
  <2> QED
    BY <2>1, QueueKept
<1>5. CASE EvtTxQueueAdvance \/ Transmit \/ CompletePacket
  <2>1. pr \in Ring(NumPkt) /\ fr \in Ring(NumFrag)
    BY DEF OrderInv, IndInv, TypeOK
  <2>2. Still /\ sent' = sent
    BY <1>5, <2>1
       DEF EvtTxQueueAdvance, Transmit, TransmitPacket, PostDescriptorBody,
           PostDescriptorOwn, PacketPosted, TransmitEnd, CompletePacket, Still, ghosts,
           Ring
  <2> QED
    BY <2>2, QueueKept
<1>6. CASE Reset
  <2>1. Still /\ sent' = sent
    BY <1>6 DEF Reset, ResetStop, ResetQueues, ResetStart, ResetStep, Still, driver, ghosts
  <2> QED
    BY <2>1, QueueKept
<1> QED
  BY <1>1, <1>2, <1>3, <1>4, <1>5, <1>6 DEF Next, CompleteTransmit, Nic

\* The queue of the initial state is empty.
LEMMA InitServes == Init => Service!Init
<1> SUFFICES ASSUME Init PROVE ServiceQueue = << >>
  BY DEF Service!Init
<1>1. OrderInv /\ Pos(pr.end) = 0
  <2>1. OrderInv /\ pr.end = pr.begin
    BY InitOrder DEF Init, EmptyRing
  <2> QED
    BY <2>1, PlacesFound DEF OrderInv, IndInv, Places
<1> QED
  BY <1>1, QueueReads DEF Reads

\* For as long as no reset meets packets in flight, TxQueue implements the safety of
\* TxService: packets leave once, whole, in order and before they are handed back.
THEOREM Serves == Spec /\ []~torn => Service!Safety
<1>1. ASSUME LockInv, LockInv', ~torn, [Next]_vars PROVE [Service!Next]_ServiceQueue
  BY <1>1, StepServes DEF LockInv
<1> QED
  BY <1>1, InitServes, LockKept, PTL DEF Spec, Service!Safety

\* Without a link reset nothing is ever torn.
THEOREM ServesWithoutReset == MaxResets = 0 => (Spec => Service!Safety)
<1> SUFFICES ASSUME MaxResets = 0 PROVE Spec => Service!Safety
  OBVIOUS
<1>1. LockInv => ~torn
  BY DEF LockInv, ResetInv
<1> QED
  BY <1>1, LockKept, Serves, PTL
=============================================================================
