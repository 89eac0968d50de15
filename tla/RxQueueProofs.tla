---------------------------- MODULE RxQueueProofs ----------------------------
(* Proofs about RxQueue, for rings of every size and any number of resets: the    *)
(* agreement of driver and NIC, and the order of the frames.                      *)
EXTENDS RxQueue, NetRingProofs

D(f)   == GetRxIndexFromFragment(f)
Off(f) == Span(NumFrag, fr.begin, f)    \* how far f is from the oldest fragment

(* The ring's indices are in order until a cancel throws them together.           *)
RingOrdered ==
    /\ cancelled # "done" => Off(fr.next) <= Off(fr.end)
    /\ cancelled = "done" => pc = "idle" /\ pr.begin = pr.end
    /\ cancelled = "begun" => pc \in {"look", "deliver", "ignore"}
    /\ pc = "ignore" => cancelled = "begun"
    /\ pc \in {"fill", "zeroed", "owned"} => cancelled = "no"
    /\ pc = "deliver" => fr.begin # fr.next /\ pr.begin # pr.end
    /\ pc \in {"zeroed", "owned"} => fr.next # fr.end

(* The descriptors the NIC owns end the ring at the last one, and only there,     *)
(* but for one that is half-written.                                              *)
EndMarked ==
    /\ \A d \in Descriptors :
          desc[d].own /\ ~(pc = "owned" /\ idx = d)
             => (desc[d].eor <=> d = NumRxDesc - 1)
    /\ nic.on /\ nic.at = NumRxDesc => "half" \in mishap

(* A reset that nothing overlaps posts the fragments one by one.                  *)
SlideInv ==
    /\ rpc \in {"none", "stopped", "slid"} => ri = 0
    /\ rpc # "none" => ~nic.on
    /\ rpc # "none" /\ mishap = {} =>
          /\ pc = "idle"
          /\ rpc \in {"slide", "slid"} =>
                /\ DescStartIdx = fr.begin /\ arrived = << >>
                /\ \A f \in Fragments :
                      f < ri \/ rpc = "slid" => desc[D(f)] = Posted(f, D(f))

(* Every descriptor holds its fragment's buffer; the frames that arrived fill the *)
(* posted fragments from the oldest on, and the NIC is at the one after them.     *)
Agreement ==
    /\ Len(arrived) <= Off(fr.next)
    /\ \A f \in Fragments :
          /\ desc[D(f)].buf = f
          /\ Off(f) < Len(arrived) => /\ arrived[Off(f) + 1] = D(f)
                                      /\ desc[D(f)].frame /\ ~desc[D(f)].own
          /\ Off(f) = Len(arrived) => nic.at = D(f)
          /\ Off(f) >= Len(arrived) => ~desc[D(f)].frame
          /\ Off(f) >= Len(arrived) /\ Off(f) < Off(fr.next) => desc[D(f)].own
    /\ pc = "deliver" => idx = D(fr.begin) /\ arrived # << >>
    /\ pc \in {"zeroed", "owned"} =>
          idx = D(fr.next) /\ (desc[idx].own <=> pc = "owned")

IndInv == TypeOK /\ RingOrdered /\ EndMarked /\ SlideInv /\ (Clean => Agreement)

-----------------------------------------------------------------------------
(* Type correctness. *)

\* The rings are not empty, and there is one descriptor per fragment.
LEMMA Sizes ==
    /\ NumRxDesc = NumFrag /\ NumFrag \in Nat \ {0} /\ NumPkt \in Nat \ {0}
    /\ Fragments = 0 .. NumFrag - 1 /\ Descriptors = Fragments
    /\ 0 \in Fragments /\ 0 \in 0 .. NumPkt - 1
  BY RxSizeAssumption DEF NumRxDesc, Fragments, Descriptors

\* The fragment after a fragment is one.
LEMMA IncrFragment == ASSUME NEW f \in Fragments PROVE Incr(NumFrag, f) \in Fragments
  BY Sizes, IncrValue

\* The packet after a packet is one.
LEMMA IncrPacket ==
    ASSUME NEW p \in 0 .. NumPkt - 1 PROVE Incr(NumPkt, p) \in 0 .. NumPkt - 1
  BY Sizes, IncrValue

\* GetRxIndexFromFragment is the distance from the fragment the ring starts at.
LEMMA IndexValue ==
    ASSUME NEW s \in Fragments, NEW f \in Fragments
    PROVE  /\ (f + NumRxDesc - s) % NumRxDesc = Span(NumFrag, s, f)
           /\ Span(NumFrag, s, f) \in Descriptors
  <1>1. f + NumRxDesc - s = f - s + NumFrag
    BY Sizes
  <1> QED
    BY <1>1, Sizes, SpanValue DEF Span

\* The descriptor of a fragment lies in the ring.
LEMMA DType == ASSUME TypeOK, NEW f \in Fragments
               PROVE  D(f) = Span(NumFrag, DescStartIdx, f) /\ D(f) \in Descriptors
  BY IndexValue DEF TypeOK, D, GetRxIndexFromFragment

\* What RtPostRxDescriptor writes is a descriptor.
LEMMA PostedType ==
    ASSUME NEW f \in Fragments, NEW d \in Descriptors PROVE Posted(f, d) \in RxDesc
  BY DEF Posted, EndOfRing, RxDesc

\* The initial state has the types.
LEMMA InitTyping == Init => TypeOK
  <1> SUFFICES ASSUME Init PROVE TypeOK
    OBVIOUS
  <1>1. \A d \in Descriptors : Posted(d, d) \in RxDesc
    BY PostedType, Sizes
  <1>2. desc \in [Descriptors -> RxDesc]
    BY <1>1 DEF Init
  <1>3. nic \in [on : BOOLEAN, at : 0 .. NumRxDesc]
    BY Sizes DEF Init
  <1>4. /\ pr \in [begin : 0 .. NumPkt - 1, end : 0 .. NumPkt - 1]
        /\ fr \in [begin : Fragments, next : Fragments, end : Fragments]
    BY Sizes DEF Init
  <1>5. resets \in 0 .. MaxResets
    BY RxSizeAssumption DEF Init
  <1> QED
    BY <1>2, <1>3, <1>4, <1>5, Sizes DEF Init, TypeOK

\* Changing one descriptor keeps the type of the ring.
LEMMA DescUpdate ==
    ASSUME desc \in [Descriptors -> RxDesc], NEW d, NEW r \in RxDesc
    PROVE  [desc EXCEPT ![d] = r] \in [Descriptors -> RxDesc]
  OBVIOUS

\* Changing one field of a descriptor does, too.
LEMMA FieldUpdate ==
    ASSUME NEW g \in [Descriptors -> RxDesc], NEW d \in Descriptors, NEW b \in BOOLEAN
    PROVE  /\ [g EXCEPT ![d].own = b] \in [Descriptors -> RxDesc]
           /\ [g EXCEPT ![d].eor = b] \in [Descriptors -> RxDesc]
           /\ [g EXCEPT ![d].frame = b] \in [Descriptors -> RxDesc]
  <1>1. /\ [g[d] EXCEPT !.own = b] \in RxDesc
        /\ [g[d] EXCEPT !.eor = b] \in RxDesc
        /\ [g[d] EXCEPT !.frame = b] \in RxDesc
    BY DEF RxDesc
  <1> QED
    BY <1>1

\* Appending an arrival and taking the oldest one keep the type of arrived.
LEMMA SequenceTypes ==
    ASSUME NEW s \in Seq(Descriptors), NEW d \in Descriptors
    PROVE  Append(s, d) \in Seq(Descriptors) /\ (s # << >> => Tail(s) \in Seq(Descriptors))
  OBVIOUS

\* Every step keeps the types.
LEMMA Typing == ASSUME TypeOK, [Next]_vars PROVE TypeOK'
  <1> USE Sizes DEF TypeOK, caller, reset
  <1>1. ASSUME Overlapping PROVE mishap' \subseteq Mishaps
    BY <1>1 DEF Overlapping, Mishaps
  <1>2. ASSUME NEW old \in SUBSET Mishaps, Interrupted(old)
        PROVE  mishap' \subseteq Mishaps
    BY <1>2 DEF Interrupted, Mishaps
  <1>3. CASE OfferFragment
    BY <1>3, IncrFragment DEF OfferFragment
  <1>4. CASE OfferPacket
    BY <1>4, IncrPacket DEF OfferPacket
  <1>5. CASE EvtRxQueueAdvance \/ IndicateEnd \/ PostEnd
    BY <1>1, <1>5 DEF EvtRxQueueAdvance, IndicateEnd, PostEnd
  <1>6. CASE IndicateTest
    <2>1. idx' \in Descriptors
      BY <1>6, DType DEF IndicateTest, Oldest, D
    <2> QED
      BY <1>1, <1>6, <2>1 DEF IndicateTest
  <1>7. CASE IndicateFrame
    <2>1. desc' \in [Descriptors -> RxDesc]
      BY <1>7, FieldUpdate DEF IndicateFrame
    <2>2. arrived' \in Seq(Descriptors)
      BY <1>7, SequenceTypes DEF IndicateFrame
    <2> QED
      BY <1>1, <1>7, <2>1, <2>2, IncrFragment, IncrPacket DEF IndicateFrame
  <1>8. CASE PostBuffer
    <2>1. idx' \in Descriptors
      BY <1>8, DType DEF PostBuffer, NextToPost, D
    <2>2. [own |-> FALSE, eor |-> FALSE, buf |-> NextToPost, frame |-> FALSE] \in RxDesc
      BY DEF RxDesc, NextToPost
    <2>3. desc' \in [Descriptors -> RxDesc]
      BY <1>8, <2>2, DescUpdate DEF PostBuffer
    <2> QED
      BY <1>1, <1>8, <2>1, <2>3 DEF PostBuffer
  <1>9. CASE PostOwnAlone
    <2>1. desc' \in [Descriptors -> RxDesc]
      BY <1>9, FieldUpdate DEF PostOwnAlone
    <2> QED
      BY <1>1, <1>9, <2>1 DEF PostOwnAlone
  <1>10. CASE PostComplete
    <2>1. desc' \in [Descriptors -> RxDesc]
      <3> DEFINE g == [desc EXCEPT ![idx].own = @ \/ pc = "zeroed"]
      <3>1. desc[idx].own \in BOOLEAN /\ idx \in Descriptors
        BY DEF RxDesc
      <3>2. g \in [Descriptors -> RxDesc]
        BY <3>1, FieldUpdate
      <3>3. desc' = [g EXCEPT ![idx].eor = EndOfRing(idx)]
        BY <1>10 DEF PostComplete
      <3> HIDE DEF g
      <3> QED
        BY <3>1, <3>2, <3>3, FieldUpdate DEF EndOfRing
    <2> QED
      BY <1>1, <1>10, <2>1, IncrFragment DEF PostComplete
  <1>11. CASE EvtRxQueueCancel
    BY <1>1, <1>11 DEF EvtRxQueueCancel
  <1>12. CASE CancelEnd
    BY <1>1, <1>12 DEF CancelEnd, PacketsBack
  <1>13. CASE NicReceive
    <2>1. desc' \in [Descriptors -> RxDesc]
      <3> DEFINE g == [desc EXCEPT ![nic.at].own = FALSE]
      <3>1. nic.at \in Descriptors
        BY <1>13 DEF NicReceive
      <3>2. g \in [Descriptors -> RxDesc]
        BY <3>1, FieldUpdate
      <3>3. desc' = [g EXCEPT ![nic.at].frame = TRUE]
        BY <1>13 DEF NicReceive
      <3> HIDE DEF g
      <3> QED
        BY <3>1, <3>2, <3>3, FieldUpdate
    <2>2. nic' \in [on : BOOLEAN, at : 0 .. NumRxDesc]
      <3>1. nic.at \in Descriptors /\ nic.at + 1 \in 0 .. NumRxDesc /\ 0 \in 0 .. NumRxDesc
        BY <1>13 DEF NicReceive
      <3> QED
        BY <1>13, <3>1 DEF NicReceive
    <2>3. arrived' \in Seq(Descriptors)
      <3>1. nic.at \in Descriptors
            /\ (arrived' = Append(arrived, nic.at) \/ arrived' = << >>)
        BY <1>13 DEF NicReceive
      <3>2. Append(arrived, nic.at) \in Seq(Descriptors)
        BY <3>1, SequenceTypes
      <3>3. << >> \in Seq(Descriptors)
        OBVIOUS
      <3> QED
        BY <3>1, <3>2, <3>3
    <2>4. mishap' \subseteq Mishaps
      BY <1>13 DEF NicReceive, Mishaps
    <2> QED
      BY <1>13, <2>1, <2>2, <2>3, <2>4 DEF NicReceive
  <1>14. CASE ResetStop
    <2>1. mishap' \subseteq Mishaps
      BY <1>2, <1>14 DEF ResetStop
    <2>2. resets' \in 0 .. MaxResets
      <3>1. resets \in 0 .. MaxResets /\ resets < MaxResets /\ resets' = resets + 1
        BY <1>14 DEF ResetStop
      <3> HIDE DEF TypeOK
      <3> QED
        BY <3>1, RxSizeAssumption
    <2> QED
      BY <1>14, <2>1, <2>2 DEF ResetStop
  <1>15. CASE SlideStart
    BY <1>2, <1>15 DEF SlideStart, SlideToBegin
  <1>16. CASE SlideBuffer
    <2>1. GetRxIndexFromFragment(ri) \in Descriptors
      BY DType DEF D
    <2>2. desc' \in [Descriptors -> RxDesc]
      BY <1>16, <2>1, PostedType, DescUpdate DEF SlideBuffer
    <2>3. ri' \in Fragments
      BY <1>16, IncrFragment DEF SlideBuffer
    <2> QED
      BY <1>2, <1>16, <2>2, <2>3 DEF SlideBuffer
  <1>17. CASE ResetStart
    BY <1>2, <1>17 DEF ResetStart
  <1>18. CASE UNCHANGED vars
    BY <1>18 DEF vars
  <1> QED
    BY <1>3, <1>4, <1>5, <1>6, <1>7, <1>8, <1>9, <1>10, <1>11, <1>12, <1>13, <1>14,
       <1>15, <1>16, <1>17, <1>18 DEF Next, Indicate, Post, Reset

-----------------------------------------------------------------------------
(* The ring's indices, and the end of the ring.                                   *)

\* Every step keeps BeginIndex, NextIndex and EndIndex in order until a cancel.
LEMMA RingStep ==
    ASSUME TypeOK, RingOrdered, [Next]_vars PROVE RingOrdered'
  <1> USE Sizes DEF TypeOK, RingOrdered, Off, caller, reset
  <1>1. CASE OfferFragment
    <2>1. Span(NumFrag, fr.begin, Incr(NumFrag, fr.end))
            = Span(NumFrag, fr.begin, fr.end) + 1
      BY <1>1, SpanNext DEF OfferFragment
    <2>2. /\ Span(NumFrag, fr.begin, fr.next) \in Nat
          /\ Span(NumFrag, fr.begin, fr.end) \in Nat
      BY SpanValue
    <2>3. fr'.begin = fr.begin /\ fr'.next = fr.next /\ fr'.end = Incr(NumFrag, fr.end)
      BY <1>1 DEF OfferFragment
    <2> QED
      BY <1>1, <2>1, <2>2, <2>3 DEF OfferFragment
  <1>2. CASE OfferPacket
    BY <1>2 DEF OfferPacket
  <1>3. CASE EvtRxQueueAdvance
    BY <1>3 DEF EvtRxQueueAdvance
  <1>4. CASE IndicateTest
    BY <1>4 DEF IndicateTest, MoreToIndicate
  <1>5. CASE IndicateFrame
    <2>1. fr.end # fr.begin
      <3>1. /\ Span(NumFrag, fr.begin, fr.next) # 0
            /\ Span(NumFrag, fr.begin, fr.next) \in Nat
        BY <1>5, SpanNone, SpanValue DEF IndicateFrame
      <3>2. Span(NumFrag, fr.begin, fr.end) # 0
        BY <1>5, <3>1, SpanValue DEF IndicateFrame
      <3> QED
        BY <3>2, SpanNone
    <2>2. /\ Span(NumFrag, Incr(NumFrag, fr.begin), fr.next)
               = Span(NumFrag, fr.begin, fr.next) - 1
          /\ Span(NumFrag, Incr(NumFrag, fr.begin), fr.end)
               = Span(NumFrag, fr.begin, fr.end) - 1
      BY <1>5, <2>1, SpanAdvance DEF IndicateFrame
    <2>3. /\ Span(NumFrag, fr.begin, fr.next) \in Nat
          /\ Span(NumFrag, fr.begin, fr.end) \in Nat
      BY SpanValue
    <2>4. fr'.begin = Incr(NumFrag, fr.begin) /\ fr'.next = fr.next /\ fr'.end = fr.end
      BY <1>5 DEF IndicateFrame
    <2> QED
      BY <1>5, <2>2, <2>3, <2>4 DEF IndicateFrame
  <1>6. CASE IndicateEnd
    BY <1>6 DEF IndicateEnd
  <1>7. CASE PostBuffer \/ PostOwnAlone \/ PostEnd
    BY <1>7 DEF PostBuffer, PostOwnAlone, PostEnd
  <1>8. CASE PostComplete
    <2>1. /\ Span(NumFrag, fr.begin, fr.next) \in 0 .. NumFrag - 1
          /\ Span(NumFrag, fr.begin, fr.end) \in 0 .. NumFrag - 1
      BY SpanValue
    <2>2. Span(NumFrag, fr.begin, fr.next) # Span(NumFrag, fr.begin, fr.end)
      BY <1>8, SpanDistinct DEF PostComplete
    <2>3. Span(NumFrag, fr.begin, fr.next) < Span(NumFrag, fr.begin, fr.end)
      BY <1>8, <2>1, <2>2 DEF PostComplete
    <2>4. Incr(NumFrag, fr.next) # fr.begin
      BY <2>1, <2>3, SpanNext
    <2>5. Span(NumFrag, fr.begin, Incr(NumFrag, fr.next))
             = Span(NumFrag, fr.begin, fr.next) + 1
      BY <2>4, SpanNext
    <2>6. fr'.begin = fr.begin /\ fr'.next = Incr(NumFrag, fr.next) /\ fr'.end = fr.end
      BY <1>8 DEF PostComplete
    <2>7. /\ pc \in {"zeroed", "owned"} /\ pc' = "fill"
          /\ cancelled' = cancelled /\ pr' = pr
      BY <1>8 DEF PostComplete
    <2>8. Off(fr.next)' <= Off(fr.end)'
      BY <2>1, <2>3, <2>5, <2>6
    <2> QED
      BY <2>7, <2>8
  <1>9. CASE EvtRxQueueCancel
    BY <1>9 DEF EvtRxQueueCancel
  <1>10. CASE CancelEnd
    BY <1>10 DEF CancelEnd, PacketsBack
  <1>11. CASE NicReceive \/ ResetStop \/ SlideStart \/ SlideBuffer \/ ResetStart
    BY <1>11 DEF NicReceive, ResetStop, SlideStart, SlideBuffer, ResetStart
  <1>12. CASE UNCHANGED vars
    BY <1>12 DEF vars
  <1> QED
    BY <1>1, <1>2, <1>3, <1>4, <1>5, <1>6, <1>7, <1>8, <1>9, <1>10, <1>11, <1>12
       DEF Next, Indicate, Post, Reset

\* Every step keeps EOR at the end of the ring, where the NIC relies on it.
LEMMA EndStep ==
    ASSUME TypeOK, EndMarked, SlideInv, [Next]_vars PROVE EndMarked'
  <1> USE Sizes DEF TypeOK, EndMarked, caller, reset
  <1>0. ASSUME Overlapping PROVE mishap \subseteq mishap'
    BY <1>0 DEF Overlapping
  <1>1. ASSUME UNCHANGED <<desc, nic>>, mishap \subseteq mishap',
               pc # "owned", pc' # "owned"
        PROVE  EndMarked'
    BY <1>1
  <1>2. CASE OfferFragment \/ OfferPacket
    BY <1>1, <1>2 DEF OfferFragment, OfferPacket
  <1>3. CASE EvtRxQueueAdvance \/ IndicateTest \/ IndicateEnd \/ PostEnd \/ CancelEnd
    BY <1>0, <1>1, <1>3
       DEF EvtRxQueueAdvance, IndicateTest, IndicateEnd, PostEnd, CancelEnd
  <1>4. CASE IndicateFrame
    <2>1. \A d \in Descriptors : desc'[d].own = desc[d].own /\ desc'[d].eor = desc[d].eor
      BY <1>4 DEF IndicateFrame, RxDesc
    <2> QED
      BY <1>0, <1>4, <2>1 DEF IndicateFrame
  <1>5. CASE PostBuffer
    <2>1. \A d \in Descriptors : desc'[d].own => desc[d].own /\ desc'[d].eor = desc[d].eor
      BY <1>5 DEF PostBuffer
    <2> QED
      BY <1>0, <1>5, <2>1 DEF PostBuffer
  <1>6. CASE PostOwnAlone
    <2>1. \A d \in Descriptors \ {idx} : desc'[d] = desc[d]
      BY <1>6 DEF PostOwnAlone
    <2> QED
      BY <1>0, <1>6, <2>1 DEF PostOwnAlone
  <1>7. CASE PostComplete
    <2>1. /\ \A d \in Descriptors \ {idx} : desc'[d] = desc[d]
          /\ desc'[idx].eor = EndOfRing(idx)
      BY <1>7 DEF PostComplete, RxDesc
    <2> QED
      BY <1>0, <1>7, <2>1 DEF PostComplete, EndOfRing
  <1>8. CASE EvtRxQueueCancel
    BY <1>0, <1>8 DEF EvtRxQueueCancel
  <1>9. CASE NicReceive
    <2>1. /\ nic.at \in Descriptors /\ desc[nic.at].own /\ nic.on
          /\ \A d \in Descriptors \ {nic.at} : desc'[d] = desc[d]
          /\ ~desc'[nic.at].own
      BY <1>9 DEF NicReceive, RxDesc
    <2>2. CASE pc = "owned" /\ idx = nic.at
      BY <1>9, <2>1, <2>2 DEF NicReceive
    <2>3. CASE ~(pc = "owned" /\ idx = nic.at)
      <3>1. nic'.at \in Descriptors
        <4>1. desc[nic.at].eor <=> nic.at = NumRxDesc - 1
          BY <2>1, <2>3
        <4>2. nic'.at = IF desc[nic.at].eor THEN 0 ELSE nic.at + 1
          BY <1>9 DEF NicReceive
        <4>3. nic.at \in 0 .. NumFrag - 1
          BY <2>1
        <4>4. CASE nic.at = NumRxDesc - 1
          BY <4>1, <4>2, <4>4
        <4>5. CASE nic.at # NumRxDesc - 1
          <5>1. nic'.at = nic.at + 1
            BY <4>1, <4>2, <4>5
          <5>2. nic.at + 1 \in 0 .. NumFrag - 1
            BY <4>3, <4>5
          <5> QED
            BY <5>1, <5>2
        <4> QED
          BY <4>4, <4>5
      <3> QED
        BY <1>9, <2>1, <3>1 DEF NicReceive
    <2> QED
      BY <2>2, <2>3
  <1>10. CASE ResetStop
    BY <1>10 DEF ResetStop
  <1>11. CASE SlideStart
    BY <1>11 DEF SlideStart, SlideInv
  <1>12. CASE SlideBuffer
    <2>1. \A d \in Descriptors : \/ desc'[d] = desc[d]
                                 \/ desc'[d].eor = EndOfRing(d)
      BY <1>12 DEF SlideBuffer, Posted
    <2> QED
      BY <1>12, <2>1 DEF SlideBuffer, SlideInv, EndOfRing
  <1>13. CASE ResetStart
    BY <1>13 DEF ResetStart
  <1>14. CASE UNCHANGED vars
    BY <1>14 DEF vars
  <1> QED
    BY <1>2, <1>3, <1>4, <1>5, <1>6, <1>7, <1>8, <1>9, <1>10, <1>11, <1>12, <1>13, <1>14
       DEF Next, Indicate, Post, Reset

-----------------------------------------------------------------------------
(* The slide. *)

\* Two fragments never share a descriptor.
LEMMA DDistinct ==
    ASSUME TypeOK, NEW f \in Fragments, NEW g \in Fragments, D(f) = D(g) PROVE f = g
  <1>1. Span(NumFrag, DescStartIdx, f) = Span(NumFrag, DescStartIdx, g)
    BY DType
  <1>2. DescStartIdx \in Fragments
    BY DEF TypeOK
  <1> QED
    BY <1>1, <1>2, Sizes, SpanDistinct

\* Every step of a reset that nothing overlaps adds to what it has posted.
LEMMA SlideStep ==
    ASSUME TypeOK, SlideInv, [Next]_vars PROVE SlideInv'
  <1> USE DEF SlideInv, caller, reset
  <1>1. ASSUME Overlapping PROVE rpc # "none" => mishap' # {}
    BY <1>1 DEF Overlapping
  <1>2. CASE OfferFragment \/ OfferPacket
    <2>1. fr'.begin = fr.begin
      BY <1>2 DEF OfferFragment, OfferPacket, TypeOK
    <2> QED
      BY <1>2, <2>1 DEF OfferFragment, OfferPacket, D, GetRxIndexFromFragment, Posted
  <1>3. CASE \/ EvtRxQueueAdvance \/ Indicate \/ Post \/ EvtRxQueueCancel \/ CancelEnd
    <2>1. /\ rpc # "none" => mishap' # {}
          /\ UNCHANGED <<rpc, ri>>
          /\ nic' = nic \/ nic' = [nic EXCEPT !.on = FALSE]
      BY <1>1, <1>3
         DEF EvtRxQueueAdvance, Indicate, IndicateTest, IndicateFrame, IndicateEnd, Post,
             PostBuffer, PostOwnAlone, PostComplete, PostEnd, EvtRxQueueCancel, CancelEnd
    <2> QED
      BY <2>1 DEF TypeOK
  <1>4. CASE NicReceive
    BY <1>4 DEF NicReceive
  <1>5. CASE ResetStop
    BY <1>5 DEF ResetStop, Interrupted, TypeOK
  <1>6. CASE SlideStart
    <2>1. /\ rpc' = "slide" /\ ri' = 0 /\ ~nic'.on /\ DescStartIdx' = fr'.begin
          /\ arrived' = << >> /\ (mishap' = {} => pc' = "idle")
      BY <1>6 DEF SlideStart, SlideToBegin, Interrupted
    <2>2. \A f \in Fragments : ~(f < 0)
      BY Sizes
    <2> QED
      BY <2>1, <2>2
  <1>7. CASE SlideBuffer
    <2>1. /\ desc' = [desc EXCEPT ![D(ri)] = Posted(ri, D(ri))]
          /\ ri' = Incr(NumFrag, ri) /\ rpc' = (IF ri' = 0 THEN "slid" ELSE "slide")
          /\ UNCHANGED <<DescStartIdx, fr, nic, arrived, pc>> /\ rpc = "slide"
          /\ mishap' = {} => mishap = {} /\ pc = "idle"
      BY <1>7 DEF SlideBuffer, D, Interrupted
    <2>2. ri \in 0 .. NumFrag - 1 /\ ri' = IF ri = NumFrag - 1 THEN 0 ELSE ri + 1
      BY <2>1, Sizes, IncrValue DEF TypeOK
    <2>3. D(ri) \in Descriptors /\ desc \in [Descriptors -> RxDesc] /\ ri \in Fragments
      BY DType DEF TypeOK
    <2>4. ASSUME mishap' = {}, NEW f \in Fragments, f < ri' \/ rpc' = "slid"
          PROVE  desc'[D(f)] = Posted(f, D(f))
      <3>1. f = ri \/ f < ri
        BY <2>1, <2>2, <2>4, Sizes
      <3>2. CASE f = ri
        BY <2>1, <2>3, <3>2
      <3>3. CASE f < ri
        <4>1. D(f) # D(ri)
          BY <2>3, <3>3, DDistinct, Sizes
        <4>2. desc[D(f)] = Posted(f, D(f))
          BY <2>1, <2>4, <3>3
        <4> QED
          BY <2>1, <4>1, <4>2
      <3> QED
        BY <3>1, <3>2, <3>3
    <2>5. \A f \in Fragments : D(f)' = D(f) /\ Posted(f, D(f))' = Posted(f, D(f))
      BY <2>1 DEF D, GetRxIndexFromFragment, Posted
    <2>6. rpc' = "slid" => ri' = 0
      BY <2>1
    <2>7. rpc' \in {"slide", "slid"}
      BY <2>1
    <2> QED
      BY <2>1, <2>4, <2>5, <2>6, <2>7
  <1>8. CASE ResetStart
    BY <1>8 DEF ResetStart
  <1>9. CASE UNCHANGED vars
    BY <1>9 DEF vars, D, GetRxIndexFromFragment, Posted
  <1> QED
    BY <1>2, <1>3, <1>4, <1>5, <1>6, <1>7, <1>8, <1>9 DEF Next, Reset

-----------------------------------------------------------------------------
(* The agreement.  What it says of a fragment f, with the length n of arrived,    *)
(* and where the thread and the NIC are:                                          *)
AgreesOn(f, n) ==
    /\ desc[D(f)].buf = f
    /\ Off(f) < n => /\ arrived[Off(f) + 1] = D(f)
                     /\ desc[D(f)].frame /\ ~desc[D(f)].own
    /\ Off(f) = n => nic.at = D(f)
    /\ Off(f) >= n => ~desc[D(f)].frame
    /\ Off(f) >= n /\ Off(f) < Off(fr.next) => desc[D(f)].own

CallerAgrees ==
    /\ pc = "deliver" => idx = D(fr.begin) /\ arrived # << >>
    /\ pc \in {"zeroed", "owned"} =>
          idx = D(fr.next) /\ (desc[idx].own <=> pc = "owned")

\* Agreement, split into what is said of each fragment and of the call.
LEMMA AgreementParts ==
    Agreement <=> /\ Len(arrived) <= Off(fr.next)
                  /\ \A f \in Fragments : AgreesOn(f, Len(arrived))
                  /\ CallerAgrees
  BY DEF Agreement, AgreesOn, CallerAgrees

\* The same for the state after a step.
LEMMA AgreementParts1 ==
    ASSUME (Len(arrived) <= Off(fr.next))',
           \A f \in Fragments : AgreesOn(f, Len(arrived))',
           CallerAgrees'
    PROVE  Agreement'
  BY DEF Agreement, AgreesOn, CallerAgrees

\* The types of the variables the agreement is about.
LEMMA Types ==
    ASSUME TypeOK
    PROVE  /\ fr.begin \in Fragments /\ fr.next \in Fragments /\ fr.end \in Fragments
           /\ DescStartIdx \in Fragments /\ desc \in [Descriptors -> RxDesc]
           /\ arrived \in Seq(Descriptors) /\ Len(arrived) \in Nat
           /\ \A f \in Fragments : Off(f) \in 0 .. NumFrag - 1 /\ Off(f) \in Nat
           /\ Off(fr.begin) = 0
  <1>1. fr.begin \in 0 .. NumFrag - 1 /\ NumFrag \in Nat \ {0}
    BY Sizes DEF TypeOK
  <1>2. Span(NumFrag, fr.begin, fr.begin) = 0
    BY <1>1, SpanNone
  <1>3. \A f \in Fragments : Off(f) \in 0 .. NumFrag - 1
    BY <1>1, Sizes, SpanValue DEF Off
  <1>4. /\ fr.next \in Fragments /\ fr.end \in Fragments /\ fr.begin \in Fragments
        /\ DescStartIdx \in Fragments /\ desc \in [Descriptors -> RxDesc]
        /\ arrived \in Seq(Descriptors)
    BY DEF TypeOK
  <1>5. Len(arrived) \in Nat
    BY <1>4
  <1>6. \A f \in Fragments : Off(f) \in Nat
    BY <1>1, <1>3
  <1>7. Off(fr.begin) = 0
    BY <1>2 DEF Off
  <1> QED
    BY <1>3, <1>4, <1>5, <1>6, <1>7

\* A step that changes neither the descriptors nor what the indices say of them.
LEMMA SameAgreement ==
    ASSUME Agreement, UNCHANGED <<DescStartIdx, arrived, desc>>,
           fr'.begin = fr.begin, fr'.next = fr.next, nic'.at = nic.at, CallerAgrees'
    PROVE  Agreement'
  <1>1. \A f \in Fragments : D(f)' = D(f) /\ Off(f)' = Off(f)
    BY DEF D, GetRxIndexFromFragment, Off
  <1>2. \A f \in Fragments : AgreesOn(f, Len(arrived))'
    BY <1>1 DEF Agreement, AgreesOn, Off, D, GetRxIndexFromFragment
  <1>3. (Len(arrived) <= Off(fr.next))'
    BY DEF Agreement, Off
  <1> QED
    BY <1>2, <1>3, AgreementParts1

\* The next fragment has the next descriptor.
LEMMA DNext ==
    ASSUME TypeOK, NEW f \in Fragments
    PROVE  D(Incr(NumFrag, f)) = IF D(f) = NumFrag - 1 THEN 0 ELSE D(f) + 1
  <1>1. /\ DescStartIdx \in 0 .. NumFrag - 1 /\ f \in 0 .. NumFrag - 1
        /\ Incr(NumFrag, f) \in Fragments /\ NumFrag \in Nat \ {0}
    BY Sizes, IncrFragment DEF TypeOK
  <1>2. /\ D(f) = Span(NumFrag, DescStartIdx, f)
        /\ D(f) \in 0 .. NumFrag - 1
        /\ D(Incr(NumFrag, f)) = Span(NumFrag, DescStartIdx, Incr(NumFrag, f))
        /\ D(Incr(NumFrag, f)) \in 0 .. NumFrag - 1
    BY <1>1, DType, Sizes
  <1>3. CASE Incr(NumFrag, f) = DescStartIdx
    BY <1>1, <1>2, <1>3, SpanNext, SpanNone
  <1>4. CASE Incr(NumFrag, f) # DescStartIdx
    <2>1. D(Incr(NumFrag, f)) = D(f) + 1
      BY <1>1, <1>2, <1>4, SpanNext
    <2> QED
      BY <1>2, <2>1
  <1> QED
    BY <1>3, <1>4

\* The oldest frame is indicated.
LEMMA IndicateAgreement ==
    ASSUME TypeOK, RingOrdered, Agreement, IndicateFrame PROVE Agreement'
  <1> DEFINE b == fr.begin
  <1>1. /\ idx = D(b) /\ arrived # << >> /\ fr.next # b
        /\ desc' = [desc EXCEPT ![D(b)].frame = FALSE]
        /\ arrived' = Tail(arrived)
        /\ fr'.begin = Incr(NumFrag, b) /\ fr'.next = fr.next
        /\ pc' = "look" /\ UNCHANGED <<DescStartIdx, nic>>
    BY DEF IndicateFrame, Agreement, RingOrdered, TypeOK, reset
  <1>2. /\ b \in Fragments /\ D(b) \in Descriptors
    BY Types, DType
  <1>3. /\ Len(arrived') = Len(arrived) - 1 /\ Len(arrived) \in Nat /\ Len(arrived) >= 1
        /\ \A i \in 1 .. Len(arrived) - 1 : arrived'[i] = arrived[i + 1]
    BY <1>1, Types
  <1>4. \A f \in Fragments :
           /\ Off(f)' = IF f = b THEN NumFrag - 1 ELSE Off(f) - 1
           /\ D(f)' = D(f)
           /\ f # b => D(f) # D(b) /\ desc'[D(f)] = desc[D(f)] /\ Off(f) # 0
    <2> SUFFICES ASSUME NEW f \in Fragments
                 PROVE  /\ Off(f)' = IF f = b THEN NumFrag - 1 ELSE Off(f) - 1
                        /\ D(f)' = D(f)
                        /\ f # b => /\ D(f) # D(b) /\ desc'[D(f)] = desc[D(f)]
                                    /\ Off(f) # 0
      OBVIOUS
    <2>1. Off(f)' = IF f = b THEN NumFrag - 1 ELSE Off(f) - 1
      BY <1>1, <1>2, Sizes, SpanAdvance DEF Off
    <2>2. D(f)' = D(f)
      BY <1>1 DEF D, GetRxIndexFromFragment
    <2>3. f # b => D(f) # D(b)
      BY <1>2, DDistinct
    <2>4. f # b => Off(f) # 0
      BY <1>2, Sizes, SpanNone DEF Off
    <2>5. D(f) \in Descriptors /\ desc \in [Descriptors -> RxDesc]
      BY DType, Types
    <2> QED
      BY <1>1, <2>1, <2>2, <2>3, <2>4, <2>5
  <1>5. ~desc'[D(b)].frame /\ desc'[D(b)].buf = desc[D(b)].buf
    BY <1>1, <1>2, Types DEF RxDesc
  <1>6. (Len(arrived) <= Off(fr.next))'
    <2>1. Off(fr.next)' = Off(fr.next) - 1
      BY <1>1, <1>4, Types DEF Off
    <2>2. Len(arrived) <= Off(fr.next) /\ Off(fr.next) \in Nat
      BY Types DEF Agreement
    <2> QED
      BY <1>3, <2>1, <2>2
  <1>7. ASSUME NEW f \in Fragments PROVE AgreesOn(f, Len(arrived))'
    <2>1. /\ AgreesOn(f, Len(arrived)) /\ AgreesOn(b, Len(arrived))
          /\ Len(arrived) <= Off(fr.next)
      BY <1>2, AgreementParts
    <2>2. Off(f) \in 0 .. NumFrag - 1 /\ Off(fr.next) \in 0 .. NumFrag - 1
      BY Types
    <2>3. Off(fr.next)' = Off(fr.next) - 1
      BY <1>1, <1>4, Types DEF Off
    <2>4. CASE f = b
      <3>1. Off(f)' = NumFrag - 1 /\ D(f)' = D(b)
        BY <1>4, <2>4
      <3> QED
        BY <1>3, <1>5, <2>1, <2>2, <2>3, <2>4, <3>1, Sizes DEF AgreesOn
    <2>5. CASE f # b
      <3>1. /\ Off(f)' = Off(f) - 1 /\ D(f)' = D(f) /\ desc'[D(f)] = desc[D(f)]
            /\ nic' = nic /\ Off(f) \in Nat /\ Off(f) # 0
        BY <1>1, <1>4, <2>2, <2>5
      <3>2. Off(f)' < Len(arrived') => arrived'[Off(f)' + 1] = arrived[Off(f) + 1]
        <4>1. Off(f)' + 1 = Off(f)
          BY <3>1
        <4>2. Off(f)' < Len(arrived') => Off(f) \in 1 .. Len(arrived) - 1
          BY <1>3, <3>1, <4>1
        <4> QED
          BY <1>3, <4>1, <4>2
      <3> QED
        BY <1>3, <2>1, <2>2, <2>3, <3>1, <3>2 DEF AgreesOn
    <2> QED
      BY <2>4, <2>5
  <1>8. CallerAgrees'
    BY <1>1 DEF CallerAgrees
  <1> QED
    BY <1>6, <1>7, <1>8, AgreementParts1

\* The fragment after the last frame that arrived is the one the NIC is at.
LEMMA NicFragment ==
    ASSUME TypeOK, Agreement
    PROVE  \E f \in Fragments : /\ Off(f) = Len(arrived) /\ nic.at = D(f)
                                /\ desc[D(f)].buf = f
  <1>1. Len(arrived) \in 0 .. NumFrag - 1
    <2>1. /\ Len(arrived) \in Nat /\ Off(fr.next) \in 0 .. NumFrag - 1
          /\ NumFrag \in Nat
      BY Types, Sizes
    <2>2. Len(arrived) <= Off(fr.next)
      BY DEF Agreement
    <2> QED
      BY <2>1, <2>2
  <1>2. PICK f \in Fragments : Off(f) = Len(arrived)
    BY <1>1, Types, Sizes, SpanOnto DEF Off
  <1> QED
    BY <1>2, AgreementParts DEF AgreesOn

\* What is posted lies between the oldest fragment and the next to post.
LEMMA HeldOff == TypeOK => \A f \in Fragments : f \in Held <=> Off(f) < Off(fr.next)
  BY Sizes DEF Held, Between, Off

\* A frame arrives and nothing goes wrong.
LEMMA NicAgreement ==
    ASSUME TypeOK, EndMarked, Agreement, NicReceive, mishap' = {} PROVE Agreement'
  <1>1. PICK a \in Fragments : /\ Off(a) = Len(arrived) /\ nic.at = D(a)
                               /\ desc[D(a)].buf = a
    BY NicFragment
  <1>2. /\ desc[D(a)].own /\ a \in Held /\ ~(pc = "owned" /\ idx = D(a))
        /\ desc' = [desc EXCEPT ![D(a)].own = FALSE, ![D(a)].frame = TRUE]
        /\ arrived' = Append(arrived, D(a))
        /\ UNCHANGED <<fr, pc, idx, DescStartIdx>>
    BY <1>1 DEF NicReceive, caller
  <1>3. D(a) \in Descriptors
    BY DType
  <1>4. nic'.at = D(Incr(NumFrag, a))
    <2>1. desc[D(a)].eor <=> D(a) = NumRxDesc - 1
      BY <1>2, <1>3 DEF EndMarked
    <2>2. nic'.at = IF desc[D(a)].eor THEN 0 ELSE D(a) + 1
      BY <1>1 DEF NicReceive, TypeOK
    <2> QED
      BY <2>1, <2>2, DNext, Sizes
  <1>5. /\ desc'[D(a)].frame /\ ~desc'[D(a)].own /\ desc'[D(a)].buf = a
        /\ \A d \in Descriptors \ {D(a)} : desc'[d] = desc[d]
    BY <1>1, <1>2, <1>3, Types DEF RxDesc
  <1>6. Off(a) < Off(fr.next)
    BY <1>2, HeldOff
  <1>7. ASSUME NEW f \in Fragments, Off(f) = Off(a) + 1 PROVE f = Incr(NumFrag, a)
    <2>1. /\ fr.begin \in 0 .. NumFrag - 1 /\ NumFrag \in Nat \ {0}
          /\ a \in 0 .. NumFrag - 1 /\ Incr(NumFrag, a) \in 0 .. NumFrag - 1
          /\ Off(f) \in 0 .. NumFrag - 1 /\ f \in 0 .. NumFrag - 1
      BY Types, Sizes, IncrFragment
    <2>2. Incr(NumFrag, a) # fr.begin
      <3>1. Incr(NumFrag, a) = fr.begin => Off(a) = NumFrag - 1
        BY <2>1, SpanNext DEF Off
      <3> QED
        BY <1>7, <2>1, <3>1
    <2>3. Span(NumFrag, fr.begin, Incr(NumFrag, a)) = Span(NumFrag, fr.begin, a) + 1
      BY <2>1, <2>2, SpanNext
    <2> QED
      BY <1>7, <2>1, <2>3, SpanDistinct DEF Off
  <1>8. /\ Len(arrived') = Len(arrived) + 1 /\ arrived'[Len(arrived) + 1] = D(a)
        /\ \A i \in 1 .. Len(arrived) : arrived'[i] = arrived[i]
        /\ arrived' # << >> /\ Len(arrived) \in Nat
    BY <1>2, <1>3, Types
  <1>9. ASSUME NEW f \in Fragments PROVE AgreesOn(f, Len(arrived))'
    <2>1. D(f)' = D(f) /\ Off(f)' = Off(f) /\ Off(fr.next)' = Off(fr.next)
      BY <1>2 DEF D, GetRxIndexFromFragment, Off
    <2>2. /\ AgreesOn(f, Len(arrived)) /\ Off(f) \in Nat /\ Off(fr.next) \in Nat
      BY AgreementParts, Types
    <2>3. CASE f = a
      <3>1. /\ Off(f) < Len(arrived') /\ arrived'[Off(f) + 1] = D(f)
        BY <1>1, <1>8, <2>3
      <3> QED
        BY <1>1, <1>5, <1>8, <2>1, <2>2, <2>3, <3>1 DEF AgreesOn
    <2>4. CASE f # a
      <3>1. D(f) # D(a) /\ D(f) \in Descriptors
        BY <2>4, DDistinct, DType
      <3>2. desc'[D(f)] = desc[D(f)]
        BY <1>5, <3>1
      <3>3. Off(f) # Off(a)
        BY <2>4, Types, Sizes, SpanDistinct DEF Off
      <3>4. Off(f) < Len(arrived') => Off(f) < Len(arrived)
        BY <1>1, <1>8, <2>2, <3>3
      <3>5. Off(f) < Len(arrived) => arrived'[Off(f) + 1] = arrived[Off(f) + 1]
        BY <1>8, <2>2
      <3>6. Off(f) = Len(arrived') => nic'.at = D(f)
        BY <1>1, <1>4, <1>7, <1>8
      <3>7. Off(f) >= Len(arrived') => Off(f) >= Len(arrived)
        BY <1>8, <2>2
      <3> QED
        BY <2>1, <2>2, <3>2, <3>4, <3>5, <3>6, <3>7 DEF AgreesOn
    <2> QED
      BY <2>3, <2>4
  <1>10. (Len(arrived) <= Off(fr.next))'
    <2>1. Off(fr.next)' = Off(fr.next) /\ Off(fr.next) \in Nat
      BY <1>2, Types DEF Off
    <2> QED
      BY <1>1, <1>6, <1>8, <2>1
  <1>11. CallerAgrees'
    <2>1. CallerAgrees
      BY AgreementParts
    <2>2. D(fr.begin)' = D(fr.begin) /\ D(fr.next)' = D(fr.next)
      BY <1>2 DEF D, GetRxIndexFromFragment
    <2>3. pc \in {"zeroed", "owned"} => desc'[idx] = desc[idx]
      <3>1. fr.next # a
        BY <1>6, Types
      <3>2. D(fr.next) # D(a) /\ D(fr.next) \in Descriptors
        BY <3>1, DDistinct, DType, Types
      <3> QED
        BY <1>5, <2>1, <3>2 DEF CallerAgrees
    <2> QED
      BY <1>2, <1>8, <2>1, <2>2, <2>3 DEF CallerAgrees
  <1> QED
    BY <1>9, <1>10, <1>11, AgreementParts1

\* RtPostRxDescriptor changes the descriptor of the next fragment only, which has
\* no frame in it, and at most adds that fragment to those that are posted.
LEMMA PostAgreement ==
    ASSUME TypeOK, Agreement, CallerAgrees',
           \A d \in Descriptors \ {D(fr.next)} : desc'[d] = desc[d],
           desc'[D(fr.next)].buf = fr.next, ~desc'[D(fr.next)].frame,
           UNCHANGED <<DescStartIdx, arrived, nic>>, fr'.begin = fr.begin,
           \/ fr'.next = fr.next
           \/ Off(fr.next)' = Off(fr.next) + 1 /\ desc'[D(fr.next)].own
    PROVE  Agreement'
  <1>1. \A f \in Fragments : D(f)' = D(f) /\ Off(f)' = Off(f)
    BY DEF D, GetRxIndexFromFragment, Off
  <1>2. /\ Off(fr.next) \in Nat /\ Len(arrived) \in Nat /\ fr.next \in Fragments
        /\ Off(fr.next)' \in {Off(fr.next), Off(fr.next) + 1}
        /\ Len(arrived) <= Off(fr.next)
    BY Types DEF Off, Agreement
  <1>3. ASSUME NEW f \in Fragments PROVE AgreesOn(f, Len(arrived))'
    <2>1. AgreesOn(f, Len(arrived)) /\ Off(f) \in Nat
      BY AgreementParts, Types
    <2>2. CASE f = fr.next
      BY <1>1, <1>2, <2>1, <2>2 DEF AgreesOn, Off
    <2>3. CASE f # fr.next
      <3>1. D(f) # D(fr.next) /\ D(f) \in Descriptors
        BY <1>2, <2>3, DDistinct, DType
      <3>2. Off(f) # Off(fr.next)
        BY <1>2, <2>3, Types, Sizes, SpanDistinct DEF Off
      <3>3. desc'[D(f)] = desc[D(f)]
        BY <3>1
      <3>4. Off(f) < Off(fr.next)' => Off(f) < Off(fr.next)
        BY <1>2, <2>1, <3>2
      <3> QED
        BY <1>1, <2>1, <3>3, <3>4 DEF AgreesOn
    <2> QED
      BY <2>2, <2>3
  <1>4. (Len(arrived) <= Off(fr.next))'
    BY <1>2
  <1> QED
    BY <1>3, <1>4, AgreementParts1

\* Posting a buffer keeps driver and NIC in agreement.
LEMMA PostStep ==
    ASSUME TypeOK, RingOrdered, Agreement, PostBuffer \/ PostOwnAlone \/ PostComplete
    PROVE  Agreement'
  <1> DEFINE d == D(fr.next)
  <1>1. /\ fr.next \in Fragments /\ d \in Descriptors /\ desc \in [Descriptors -> RxDesc]
        /\ fr.begin \in Fragments
    BY Types, DType
  <1>2. desc[d].buf = fr.next /\ ~desc[d].frame
    BY <1>1, Types DEF Agreement
  <1>3. pc \in {"zeroed", "owned"} => idx = d /\ (desc[idx].own <=> pc = "owned")
    BY DEF Agreement
  <1>4. CASE PostBuffer
    <2>1. /\ idx' = d
          /\ desc' = [desc EXCEPT ![d] = [own |-> FALSE, eor |-> FALSE,
                                          buf |-> fr.next, frame |-> FALSE]]
          /\ UNCHANGED <<DescStartIdx, arrived, nic, fr>> /\ pc' = "zeroed"
      BY <1>4 DEF PostBuffer, NextToPost, D
    <2>2. /\ ~desc'[d].own /\ desc'[d].buf = fr.next /\ ~desc'[d].frame
          /\ \A e \in Descriptors \ {d} : desc'[e] = desc[e]
      BY <1>1, <2>1
    <2>3. CallerAgrees'
      BY <2>1, <2>2 DEF CallerAgrees, D, GetRxIndexFromFragment
    <2> QED
      BY <2>1, <2>2, <2>3, PostAgreement
  <1>5. CASE PostOwnAlone
    <2>1. /\ desc' = [desc EXCEPT ![d].own = TRUE] /\ pc' = "owned" /\ idx' = d
          /\ UNCHANGED <<DescStartIdx, arrived, nic, fr>>
      BY <1>3, <1>5 DEF PostOwnAlone
    <2>2. /\ desc'[d].own /\ desc'[d].buf = fr.next /\ ~desc'[d].frame
          /\ \A e \in Descriptors \ {d} : desc'[e] = desc[e]
      BY <1>1, <1>2, <2>1 DEF RxDesc
    <2>3. CallerAgrees'
      BY <2>1, <2>2 DEF CallerAgrees, D, GetRxIndexFromFragment
    <2> QED
      BY <2>1, <2>2, <2>3, PostAgreement
  <1>6. CASE PostComplete
    <2>1. /\ desc' = [desc EXCEPT ![d].own = @ \/ pc = "zeroed",
                                  ![d].eor = EndOfRing(d)]
          /\ UNCHANGED <<DescStartIdx, arrived, nic>> /\ pc' = "fill"
          /\ fr'.begin = fr.begin /\ fr'.next = Incr(NumFrag, fr.next)
          /\ pc \in {"zeroed", "owned"}
      BY <1>3, <1>6 DEF PostComplete, TypeOK
    <2>2. /\ desc'[d].own /\ desc'[d].buf = fr.next /\ ~desc'[d].frame
          /\ \A e \in Descriptors \ {d} : desc'[e] = desc[e]
      BY <1>1, <1>2, <1>3, <2>1 DEF RxDesc
    <2>3. CallerAgrees'
      BY <2>1 DEF CallerAgrees
    <2>4. Off(fr.next)' = Off(fr.next) + 1
      <3>1. /\ Off(fr.next) \in 0 .. NumFrag - 1 /\ Off(fr.end) \in 0 .. NumFrag - 1
            /\ fr.end \in Fragments
        BY Types
      <3>2. fr.next # fr.end /\ cancelled = "no"
        BY <2>1 DEF RingOrdered
      <3>3. Off(fr.next) # Off(fr.end)
        BY <1>1, <3>1, <3>2, Sizes, SpanDistinct DEF Off
      <3>4. Off(fr.next) < NumFrag - 1
        BY <3>1, <3>2, <3>3, Sizes DEF RingOrdered
      <3>5. Incr(NumFrag, fr.next) # fr.begin
        <4>1. Incr(NumFrag, fr.next) = fr.begin => Off(fr.next) = NumFrag - 1
          BY <1>1, Sizes, SpanNext DEF Off
        <4> QED
          BY <3>1, <3>4, <4>1, Sizes
      <3> QED
        BY <1>1, <2>1, <3>5, Sizes, SpanNext DEF Off
    <2> QED
      BY <2>1, <2>2, <2>3, <2>4, PostAgreement
  <1> QED
    BY <1>4, <1>5, <1>6

\* A reset leaves every fragment posted, from the oldest on.
LEMMA ResetAgreement ==
    ASSUME TypeOK, SlideInv, ResetStart, mishap' = {} PROVE Agreement'
  <1>1. /\ rpc = "slid" /\ mishap = {} /\ pc = "idle" /\ DescStartIdx = fr.begin
        /\ arrived = << >>
        /\ \A f \in Fragments : desc[D(f)] = Posted(f, D(f))
    BY DEF ResetStart, Interrupted, SlideInv
  <1>2. /\ UNCHANGED <<pr, fr, pc, idx, DescStartIdx, desc, arrived>>
        /\ nic'.at = 0
    BY DEF ResetStart, caller
  <1>3. \A f \in Fragments : /\ D(f)' = D(f) /\ Off(f)' = Off(f) /\ D(f) = Off(f)
                             /\ Off(f) \in Nat
    <2>1. \A f \in Fragments : D(f)' = D(f) /\ Off(f)' = Off(f)
      BY <1>2 DEF D, GetRxIndexFromFragment, Off
    <2>2. \A f \in Fragments : D(f) = Off(f)
      BY <1>1, DType DEF Off
    <2> QED
      BY <2>1, <2>2, Types
  <1>4. Len(arrived') = 0 /\ arrived' = << >>
    BY <1>1, <1>2
  <1>5. ASSUME NEW f \in Fragments PROVE AgreesOn(f, Len(arrived))'
    <2>1. /\ desc'[D(f)'] = Posted(f, D(f))
          /\ Off(f)' \in Nat /\ D(f)' = Off(f)'
      BY <1>1, <1>2, <1>3
    <2> QED
      BY <1>2, <1>4, <2>1 DEF AgreesOn, Posted
  <1>6. (Len(arrived) <= Off(fr.next))'
    <2>1. Off(fr.next)' = Off(fr.next) /\ Off(fr.next) \in Nat
      BY <1>2, Types DEF Off
    <2> QED
      BY <1>4, <2>1
  <1>7. CallerAgrees'
    BY <1>1, <1>2 DEF CallerAgrees
  <1> QED
    BY <1>5, <1>6, <1>7, AgreementParts1

\* Every step after which nothing has gone wrong leaves them in agreement.
LEMMA AgreementStep ==
    ASSUME TypeOK, RingOrdered, EndMarked, SlideInv, Clean => Agreement, [Next]_vars,
           Clean'
    PROVE  Agreement'
  <1> USE DEF caller, reset
  <1>1. Overlapping => mishap = {} /\ rpc = "none"
    BY DEF Overlapping, Clean
  <1>2. CASE OfferFragment \/ OfferPacket
    <2>1. /\ fr'.begin = fr.begin /\ fr'.next = fr.next
          /\ UNCHANGED <<DescStartIdx, desc, arrived, nic, pc, idx, mishap, rpc, cancelled>>
      BY <1>2 DEF OfferFragment, OfferPacket, TypeOK
    <2>2. Agreement /\ CallerAgrees
      BY <2>1, AgreementParts DEF Clean
    <2>3. CallerAgrees'
      BY <2>1, <2>2 DEF CallerAgrees, D, GetRxIndexFromFragment
    <2> QED
      BY <2>1, <2>2, <2>3, SameAgreement
  <1>3. CASE EvtRxQueueAdvance \/ IndicateEnd \/ PostEnd
    <2>1. /\ UNCHANGED <<fr, DescStartIdx, desc, arrived, nic, cancelled>>
          /\ Overlapping /\ pc' \notin {"deliver", "zeroed", "owned"}
      BY <1>3 DEF EvtRxQueueAdvance, IndicateEnd, PostEnd
    <2> QED
      BY <1>1, <2>1, SameAgreement DEF Clean, CallerAgrees
  <1>4. CASE IndicateTest
    <2>1. /\ UNCHANGED <<fr, DescStartIdx, desc, arrived, nic, cancelled>>
          /\ Overlapping /\ pc' = "deliver" /\ idx' = D(fr.begin)
          /\ fr.begin # fr.next /\ ~desc[D(fr.begin)].own
      BY <1>4 DEF IndicateTest, MoreToIndicate, Oldest, D
    <2>2. Agreement
      BY <1>1, <2>1 DEF Clean
    <2>3. arrived # << >>
      <3>1. /\ fr.begin \in Fragments /\ AgreesOn(fr.begin, Len(arrived))
            /\ Off(fr.begin) = 0
        BY <2>2, AgreementParts, Types
      <3>2. Off(fr.next) # 0 /\ Off(fr.next) \in Nat
        BY <2>1, Types, Sizes, SpanNone DEF Off
      <3>3. arrived = << >> => Len(arrived) = 0
        OBVIOUS
      <3> QED
        BY <2>1, <3>1, <3>2, <3>3 DEF AgreesOn
    <2>4. CallerAgrees'
      BY <2>1, <2>3 DEF CallerAgrees, D, GetRxIndexFromFragment
    <2> QED
      BY <2>1, <2>2, <2>4, SameAgreement
  <1>5. CASE IndicateFrame
    BY <1>1, <1>5, IndicateAgreement DEF IndicateFrame, Clean
  <1>6. CASE PostBuffer \/ PostOwnAlone \/ PostComplete
    <2>1. Overlapping /\ cancelled' = cancelled
      BY <1>6 DEF PostBuffer, PostOwnAlone, PostComplete
    <2> QED
      BY <1>1, <1>6, <2>1, PostStep DEF Clean
  <1>7. CASE EvtRxQueueCancel \/ CancelEnd \/ ResetStop \/ SlideStart
    BY <1>7 DEF EvtRxQueueCancel, CancelEnd, ResetStop, SlideStart, Clean
  <1>8. CASE SlideBuffer
    BY <1>8 DEF SlideBuffer, Clean
  <1>9. CASE NicReceive
    <2>1. mishap \subseteq mishap' /\ UNCHANGED <<rpc, cancelled>>
      BY <1>9 DEF NicReceive
    <2> QED
      BY <1>9, <2>1, NicAgreement DEF Clean
  <1>10. CASE ResetStart
    BY <1>10, ResetAgreement DEF Clean
  <1>11. CASE UNCHANGED vars
    <2>1. Clean /\ CallerAgrees <=> Clean' /\ CallerAgrees'
      BY <1>11 DEF vars, Clean, CallerAgrees, D, GetRxIndexFromFragment
    <2>2. Clean
      BY <1>11 DEF vars, Clean
    <2>3. Agreement /\ CallerAgrees
      BY <2>2, AgreementParts
    <2> QED
      BY <1>11, <2>1, <2>2, <2>3, SameAgreement DEF vars
  <1> QED
    BY <1>2, <1>3, <1>4, <1>5, <1>6, <1>7, <1>8, <1>9, <1>10, <1>11
       DEF Next, Indicate, Post, Reset

-----------------------------------------------------------------------------
(* The theorems. *)

\* The initial state, all buffers posted in order, satisfies the invariant.
LEMMA InitInv == Init => IndInv
  <1> SUFFICES ASSUME Init PROVE IndInv
    OBVIOUS
  <1>1. TypeOK
    BY InitTyping
  <1>2. /\ fr = [begin |-> 0, next |-> 0, end |-> 0] /\ arrived = << >>
        /\ desc = [d \in Descriptors |-> Posted(d, d)] /\ DescStartIdx = 0
        /\ nic = [on |-> TRUE, at |-> 0] /\ pc = "idle" /\ rpc = "none" /\ ri = 0
        /\ cancelled = "no"
    BY DEF Init
  <1>3. \A f \in Fragments : Off(f) = D(f) /\ Off(f) = f
    <2> SUFFICES ASSUME NEW f \in Fragments PROVE Off(f) = D(f) /\ Off(f) = f
      OBVIOUS
    <2>1. D(f) = Span(NumFrag, 0, f) /\ Off(f) = Span(NumFrag, 0, f)
      BY <1>1, <1>2, DType DEF Off
    <2>2. Span(NumFrag, 0, f) = f
      BY Sizes, SpanValue
    <2> QED
      BY <2>1, <2>2
  <1>4. RingOrdered
    BY <1>2, <1>3, Sizes DEF RingOrdered
  <1>5. EndMarked
    BY <1>2, Sizes DEF EndMarked, Posted, EndOfRing
  <1>6. SlideInv
    BY <1>2 DEF SlideInv
  <1>7. Agreement
    <2>1. ASSUME NEW f \in Fragments PROVE AgreesOn(f, Len(arrived))
      <3>1. Off(f) = f /\ D(f) = f /\ desc[f] = Posted(f, f) /\ f \in Nat
        BY <1>2, <1>3, Sizes
      <3>2. Len(arrived) = 0 /\ Off(fr.next) = 0
        BY <1>2, <1>3, Sizes
      <3> QED
        BY <1>2, <3>1, <3>2 DEF AgreesOn, Posted
    <2>2. Len(arrived) <= Off(fr.next)
      BY <1>2, <1>3, Sizes
    <2>3. CallerAgrees
      BY <1>2 DEF CallerAgrees
    <2> QED
      BY <2>1, <2>2, <2>3, AgreementParts
  <1> QED
    BY <1>1, <1>4, <1>5, <1>6, <1>7 DEF IndInv

\* The inductive invariant.
THEOREM Invariance == Spec => []IndInv
  <1>1. IndInv /\ [Next]_vars => IndInv'
    <2> SUFFICES ASSUME IndInv, [Next]_vars PROVE IndInv'
      OBVIOUS
    <2> USE DEF IndInv
    <2>1. TypeOK'
      BY Typing
    <2>2. RingOrdered'
      BY RingStep
    <2>3. EndMarked'
      BY EndStep
    <2>4. SlideInv'
      BY SlideStep
    <2>5. (Clean => Agreement)'
      BY AgreementStep
    <2> QED
      BY <2>1, <2>2, <2>3, <2>4, <2>5
  <1> QED
    BY <1>1, InitInv, PTL DEF Spec

\* The variables of the receive queue keep their types.
THEOREM TypeCorrect == Spec => []TypeOK
  BY Invariance, PTL DEF IndInv

\* Driver and NIC agree on every posted buffer, wherever the ring starts.
THEOREM DriverAndNicAgree == Spec => []PostedHoldsFragment
  <1>1. IndInv => PostedHoldsFragment
    <2> SUFFICES ASSUME IndInv, Clean, NEW f \in Held
                 PROVE  desc[D(f)].buf = f /\ (desc[D(f)].own \/ desc[D(f)].frame)
      BY DEF PostedHoldsFragment, D
    <2>1. TypeOK /\ Agreement
      BY DEF IndInv
    <2>2. f \in Fragments
      BY Sizes DEF Held, Between
    <2>3. /\ AgreesOn(f, Len(arrived)) /\ Off(f) < Off(fr.next)
          /\ Off(f) \in Nat /\ Len(arrived) \in Nat
      BY <2>1, <2>2, AgreementParts, HeldOff, Types
    <2> QED
      BY <2>3 DEF AgreesOn
  <1> QED
    BY <1>1, Invariance, PTL

\* RxIndicateReceives indicates the frames in the order the NIC wrote them.
THEOREM IndicatedInOrder == Spec => []FramesInOrder
  <1>1. IndInv => FramesInOrder
    <2> SUFFICES ASSUME IndInv, Clean, pc = "deliver"
                 PROVE  /\ arrived # << >> /\ Head(arrived) = idx
                        /\ desc[idx].buf = fr.begin
      BY DEF FramesInOrder
    <2>1. TypeOK /\ Agreement
      BY DEF IndInv
    <2>2. /\ fr.begin \in Fragments /\ Off(fr.begin) = 0
          /\ AgreesOn(fr.begin, Len(arrived))
          /\ idx = D(fr.begin) /\ arrived # << >> /\ arrived \in Seq(Descriptors)
      BY <2>1, AgreementParts, Types DEF CallerAgrees
    <2>3. Len(arrived) > 0 /\ Head(arrived) = arrived[1]
      BY <2>2
    <2> QED
      BY <2>2, <2>3 DEF AgreesOn
  <1> QED
    BY <1>1, Invariance, PTL

\* Only a half-written descriptor lets the NIC run out of the ring.
THEOREM StaysInRing == Spec => []LeavesRingByHalfPost
  <1>1. IndInv => LeavesRingByHalfPost
    BY DEF IndInv, EndMarked, LeavesRingByHalfPost
  <1> QED
    BY <1>1, Invariance, PTL

\* The assertion of RxIndicateReceives never fails.
THEOREM AssertionHolds == Spec => []FragmentGuaranteed
  <1>1. IndInv => FragmentGuaranteed
    <2> SUFFICES ASSUME IndInv, pc = "deliver" PROVE pr.begin # pr.end /\ fr.begin # fr.end
      BY DEF FragmentGuaranteed
    <2>1. /\ fr.begin # fr.next /\ pr.begin # pr.end /\ cancelled # "done" /\ TypeOK
          /\ Off(fr.next) <= Off(fr.end)
      BY DEF IndInv, RingOrdered
    <2>2. /\ fr.begin \in Fragments /\ fr.next \in Fragments
          /\ Off(fr.next) \in Nat /\ Off(fr.end) \in Nat /\ Off(fr.begin) = 0
      BY <2>1, Types
    <2>3. Off(fr.next) # 0
      BY <2>1, <2>2, Sizes, SpanNone DEF Off
    <2> QED
      BY <2>1, <2>2, <2>3
  <1> QED
    BY <1>1, Invariance, PTL

\* RtPostRxDescriptor never wipes out a frame that was not indicated.
THEOREM FramesKept == Spec => NoFrameOverwritten
  <1> DEFINE A == Clean /\ pc = "fill" /\ pc' = "zeroed" => ~desc[idx'].frame
  <1>1. IndInv /\ [Next]_vars => [A]_vars
    <2> SUFFICES ASSUME IndInv, Next, Clean, pc = "fill", pc' = "zeroed"
                 PROVE  ~desc[idx'].frame
      OBVIOUS
    <2>1. PostBuffer
      BY DEF Next, OfferFragment, OfferPacket, EvtRxQueueAdvance, Indicate, IndicateTest,
             IndicateFrame, IndicateEnd, Post, PostOwnAlone, PostComplete, PostEnd,
             EvtRxQueueCancel, CancelEnd, NicReceive, Reset, ResetStop, SlideStart,
             SlideBuffer, ResetStart, caller
    <2>2. TypeOK /\ Agreement /\ idx' = D(fr.next)
      BY <2>1 DEF IndInv, PostBuffer, NextToPost, D
    <2>3. AgreesOn(fr.next, Len(arrived)) /\ Len(arrived) <= Off(fr.next)
      BY <2>2, AgreementParts, Types
    <2> QED
      BY <2>2, <2>3, Types DEF AgreesOn
  <1> QED
    BY <1>1, Invariance, PTL DEF Spec, NoFrameOverwritten

\* The NIC passes the posted buffers only once it has filled every one of them.
THEOREM OverrunOnlyFromFull == Spec => OverrunOnlyWhenFull
  <1> DEFINE A == Clean /\ "overrun" \in mishap' \ mishap
                     => \A f \in Held : desc[GetRxIndexFromFragment(f)].frame
  <1>1. IndInv /\ [Next]_vars => [A]_vars
    <2> SUFFICES ASSUME IndInv, Next, Clean, "overrun" \in mishap' \ mishap,
                        NEW f \in Held
                 PROVE  desc[D(f)].frame
      BY DEF D
    <2>1. NicReceive
      BY DEF Next, OfferFragment, OfferPacket, EvtRxQueueAdvance, Indicate, IndicateTest,
             IndicateFrame, IndicateEnd, Post, PostBuffer, PostOwnAlone, PostComplete,
             PostEnd, EvtRxQueueCancel, CancelEnd, Reset, ResetStop, SlideStart,
             SlideBuffer, ResetStart, Overlapping, Interrupted
    <2>2. TypeOK /\ Agreement
      BY DEF IndInv
    <2>3. PICK a \in Fragments : /\ Off(a) = Len(arrived) /\ nic.at = D(a)
                                 /\ desc[D(a)].buf = a
      BY <2>2, NicFragment
    <2>4. a \notin Held
      BY <2>1, <2>3 DEF NicReceive
    <2>5. f \in Fragments
      BY Sizes DEF Held, Between
    <2>6. /\ Off(a) >= Off(fr.next) /\ Off(f) < Off(fr.next)
          /\ Off(a) \in Nat /\ Off(f) \in Nat /\ Off(fr.next) \in Nat
      BY <2>2, <2>4, <2>5, HeldOff, Types
    <2>7. Off(f) < Len(arrived)
      BY <2>3, <2>6
    <2> QED
      BY <2>2, <2>5, <2>7, AgreementParts DEF AgreesOn
  <1> QED
    BY <1>1, Invariance, PTL DEF Spec, OverrunOnlyWhenFull
=============================================================================
