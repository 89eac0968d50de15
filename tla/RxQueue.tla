------------------------------- MODULE RxQueue -------------------------------
(* The receive queue of rxqueue.cpp: EvtRxQueueAdvance indicating the frames     *)
(* the NIC wrote and posting the buffers the operating system offers, the NIC    *)
(* writing frames at the same time, EvtRxQueueCancel, and RtlResetLink, which a  *)
(* DPC runs under another lock and which posts the whole ring anew.              *)
(*                                                                               *)
(* A buffer is named by the fragment it belongs to.  Of a frame only its place   *)
(* among the frames is kept.  Four things that are not meant to happen can, and  *)
(* history records them: properties say what holds until one of them does.       *)
EXTENDS NetRing, Sequences

CONSTANTS
    NumPkt,         \* elements of the packet ring
    NumFrag,        \* elements of the fragment ring
    UShortMax,      \* USHRT_MAX: NumRxDesc is a USHORT
    MaxResets       \* bound: link resets of one behaviour

\* The fragment ring has RE_RX_BUF_NUM elements, by the driver's hint, and
\* RxdArray, which is sized by the packet ring, has room for as many descriptors.
ASSUME RxSizeAssumption ==
    /\ NumFrag \in Nat \ {0, 1} /\ NumPkt \in Nat /\ NumPkt >= NumFrag
    /\ UShortMax \in Nat /\ NumFrag <= UShortMax
    /\ MaxResets \in Nat

NumRxDesc == IF NumFrag > UShortMax THEN UShortMax ELSE NumFrag

Fragments   == 0 .. NumFrag - 1
Descriptors == 0 .. NumRxDesc - 1

VARIABLES
    pr, fr,         \* packet ring: [begin, end]; fragment ring: [begin, next, end]
    DescStartIdx,   \* the fragment descriptor 0 belongs to
    desc,           \* the descriptors; "frame": one was written, not indicated yet
    pc,             \* where the thread calling into the driver is
    idx,            \* its RxDescIdx
    cancelled,      \* whether EvtRxQueueCancel has begun, and is done
    nic,            \* the NIC's receiver
    rpc, ri,        \* where RtlResetLink is, and the index in RxSlideBuffers
    resets,         \* how often it ran
    arrived,        \* history: descriptors with a frame not indicated, in order,
                    \* kept while nothing went wrong
    mishap          \* history: what went wrong since the last reset

caller == <<pr, fr, pc, idx, cancelled>>
reset  == <<rpc, ri, resets>>
vars   == <<pr, fr, DescStartIdx, desc, pc, idx, cancelled, nic, rpc, ri, resets,
            arrived, mishap>>

Mishaps == {"overrun",  \* the NIC took a descriptor of a buffer not posted
            "half",     \* the NIC took a descriptor that was not complete
            "overlap"}  \* a reset ran while the driver was being called

RxDesc == [own : BOOLEAN, eor : BOOLEAN, buf : Fragments, frame : BOOLEAN]

\* Faulty variant: the slide is forgotten.
IndexUnslid(f) == f % NumRxDesc

GetRxIndexFromFragment(f) == (f + NumRxDesc - DescStartIdx) % NumRxDesc

\* Faulty variant: the last descriptor is looked for one too far.
EndOfRingLate(d) == d = NumRxDesc
EndOfRing(d)     == d = NumRxDesc - 1

\* RtPostRxDescriptor once it is done.
Posted(f, d) == [own |-> TRUE, eor |-> EndOfRing(d), buf |-> f, frame |-> FALSE]

\* The queues have started: RtlFirstStart posted every descriptor.
Init ==
    /\ pr = [begin |-> 0, end |-> 0]
    /\ fr = [begin |-> 0, next |-> 0, end |-> 0]
    /\ DescStartIdx = 0
    /\ desc = [d \in Descriptors |-> Posted(d, d)]
    /\ pc = "idle" /\ idx = 0 /\ cancelled = "no"
    /\ nic = [on |-> TRUE, at |-> 0]
    /\ rpc = "none" /\ ri = 0 /\ resets = 0
    /\ arrived = << >> /\ mishap = {}

\* A step of the driver's queue callbacks while RtlResetLink runs.
Overlapping == mishap' = IF rpc = "none" THEN mishap ELSE mishap \cup {"overlap"}

\* The fragments that are posted.
Held == Between(NumFrag, fr.begin, fr.next)

-----------------------------------------------------------------------------
(* The operating system offers fragments, and no more packets than fragments.    *)

OfferFragment ==
    /\ pc = "idle" /\ cancelled = "no"
    /\ Incr(NumFrag, fr.end) # fr.begin
    /\ fr' = [fr EXCEPT !.end = Incr(NumFrag, @)]
    /\ UNCHANGED <<pr, DescStartIdx, desc, pc, idx, cancelled, nic, reset, arrived,
                   mishap>>

OfferPacket ==
    /\ pc = "idle" /\ cancelled = "no"
    /\ Span(NumPkt, pr.begin, pr.end) < Span(NumFrag, fr.begin, fr.end)
    /\ pr' = [pr EXCEPT !.end = Incr(NumPkt, @)]
    /\ UNCHANGED <<fr, DescStartIdx, desc, pc, idx, cancelled, nic, reset, arrived,
                   mishap>>

-----------------------------------------------------------------------------
(* RxIndicateReceives. *)

\* After a cancel it is called only while packets are outstanding.
EvtRxQueueAdvance ==
    /\ pc = "idle" /\ (cancelled = "no" \/ pr.begin # pr.end)
    /\ pc' = "look"
    /\ Overlapping
    /\ UNCHANGED <<pr, fr, DescStartIdx, desc, idx, cancelled, nic, reset, arrived>>

Oldest == GetRxIndexFromFragment(fr.begin)

\* Faulty variant: a packet to spare is all it takes.
SpareOnly == fr.begin # fr.next /\ pr.begin # pr.end

MoreToIndicate == /\ fr.begin # fr.next
                  /\ ~desc[Oldest].own
                  /\ pr.begin # pr.end

IndicateTest ==
    /\ pc = "look" /\ MoreToIndicate
    /\ idx' = Oldest
    /\ pc' = "deliver"
    /\ Overlapping
    /\ UNCHANGED <<pr, fr, DescStartIdx, desc, cancelled, nic, reset, arrived>>

\* The frame in descriptor idx becomes the packet at pr.begin.
IndicateFrame ==
    /\ pc = "deliver"
    /\ desc' = [desc EXCEPT ![idx].frame = FALSE]
    /\ arrived' = IF arrived = << >> THEN << >> ELSE Tail(arrived)
    /\ pr' = [pr EXCEPT !.begin = Incr(NumPkt, @)]
    /\ fr' = [fr EXCEPT !.begin = Incr(NumFrag, @)]
    /\ pc' = "look" /\ idx' = 0
    /\ Overlapping
    /\ UNCHANGED <<DescStartIdx, cancelled, nic, reset>>

IndicateEnd ==
    /\ pc = "look" /\ ~MoreToIndicate
    /\ pc' = IF cancelled = "begun" THEN "ignore" ELSE "fill"
    /\ Overlapping
    /\ UNCHANGED <<pr, fr, DescStartIdx, desc, idx, cancelled, nic, reset, arrived>>

-----------------------------------------------------------------------------
(* RxPostBuffers.  RtPostRxDescriptor sets OWN before EOR, in bit fields of one  *)
(* word that is not volatile: a build may store them together or in turn.        *)

\* Faulty variant: the fragments are posted from the first that is held.
PostFromBegin == fr.begin
NextToPost    == fr.next

\* RtlZeroMemory and the address of the buffer.
PostBuffer ==
    /\ pc = "fill" /\ fr.next # fr.end
    /\ idx' = GetRxIndexFromFragment(NextToPost)
    /\ desc' = [desc EXCEPT ![idx'] =
                  [own |-> FALSE, eor |-> FALSE, buf |-> NextToPost, frame |-> FALSE]]
    /\ pc' = "zeroed"
    /\ Overlapping
    /\ UNCHANGED <<pr, fr, DescStartIdx, cancelled, nic, reset, arrived>>

PostOwnAlone ==
    /\ pc = "zeroed"
    /\ desc' = [desc EXCEPT ![idx].own = TRUE]
    /\ pc' = "owned"
    /\ Overlapping
    /\ UNCHANGED <<pr, fr, DescStartIdx, idx, cancelled, nic, reset, arrived>>

\* The rest of the word, with OWN unless that is there already.
PostComplete ==
    /\ pc \in {"zeroed", "owned"}
    /\ desc' = [desc EXCEPT ![idx].own = @ \/ pc = "zeroed",
                            ![idx].eor = EndOfRing(idx)]
    /\ fr' = [fr EXCEPT !.next = Incr(NumFrag, @)]
    /\ pc' = "fill" /\ idx' = 0
    /\ Overlapping
    /\ UNCHANGED <<pr, DescStartIdx, cancelled, nic, reset, arrived>>

PostEnd ==
    /\ pc = "fill" /\ fr.next = fr.end
    /\ pc' = "idle"
    /\ Overlapping
    /\ UNCHANGED <<pr, fr, DescStartIdx, desc, idx, cancelled, nic, reset, arrived>>

-----------------------------------------------------------------------------
(* EvtRxQueueCancel: re_stop under adapter->Lock, RxIndicateReceives, and then   *)
(* every packet and fragment is handed back.                                     *)

EvtRxQueueCancel ==
    /\ pc = "idle" /\ cancelled = "no"
    /\ cancelled' = "begun"
    /\ nic' = [nic EXCEPT !.on = FALSE]
    /\ pc' = "look"
    /\ Overlapping
    /\ UNCHANGED <<pr, fr, DescStartIdx, desc, idx, reset, arrived>>

\* Faulty variant: the packets are not handed back.
NoPacketsBack == pr.begin
PacketsBack   == pr.end

CancelEnd ==
    /\ pc = "ignore"
    /\ pr' = [pr EXCEPT !.begin = PacketsBack]
    /\ fr' = [fr EXCEPT !.begin = fr.end]
    /\ pc' = "idle" /\ cancelled' = "done"
    /\ Overlapping
    /\ UNCHANGED <<DescStartIdx, desc, idx, nic, reset, arrived>>

-----------------------------------------------------------------------------
(* The NIC writes a frame into the descriptor it is at if it owns it.            *)

NicReceive ==
    /\ nic.on /\ nic.at \in Descriptors /\ desc[nic.at].own
    /\ desc' = [desc EXCEPT ![nic.at].own = FALSE, ![nic.at].frame = TRUE]
    /\ nic' = [nic EXCEPT !.at = IF desc[@].eor THEN 0 ELSE @ + 1]
    /\ mishap' = mishap
         \cup (IF pc = "owned" /\ idx = nic.at THEN {"half"} ELSE {})
         \cup (IF desc[nic.at].buf \in Held THEN {} ELSE {"overrun"})
    /\ arrived' = IF mishap' = {} THEN Append(arrived, nic.at) ELSE << >>
    /\ UNCHANGED <<caller, DescStartIdx, reset>>

-----------------------------------------------------------------------------
(* RtlResetLink, under the interrupt lock.                                       *)

Interrupted(old) == mishap' = IF pc = "idle" THEN old ELSE old \cup {"overlap"}

\* re_stop.
ResetStop ==
    /\ rpc = "none" /\ resets < MaxResets
    /\ nic' = [nic EXCEPT !.on = FALSE]
    /\ rpc' = "stopped" /\ resets' = resets + 1
    /\ Interrupted({})
    /\ UNCHANGED <<caller, DescStartIdx, desc, ri, arrived>>

\* Faulty variant: the ring is not slid.
StartKept    == DescStartIdx
SlideToBegin == fr.begin

\* RtResetQueues calls RxSlideBuffers: frames that were not indicated are lost.
SlideStart ==
    /\ rpc = "stopped"
    /\ DescStartIdx' = SlideToBegin
    /\ arrived' = << >>
    /\ rpc' = "slide"
    /\ Interrupted(mishap)
    /\ UNCHANGED <<caller, desc, nic, ri, resets>>

\* Every fragment of the ring is posted, whoever it belongs to.
SlideBuffer ==
    /\ rpc = "slide"
    /\ LET d == GetRxIndexFromFragment(ri)
       IN  desc' = [desc EXCEPT ![d] = Posted(ri, d)]
    /\ ri' = Incr(NumFrag, ri)
    /\ rpc' = IF ri' = 0 THEN "slid" ELSE "slide"
    /\ Interrupted(mishap)
    /\ UNCHANGED <<caller, DescStartIdx, nic, resets, arrived>>

\* re_hw_start_unlock: the receiver begins at the start of the ring.
ResetStart ==
    /\ rpc = "slid"
    /\ nic' = [on |-> TRUE, at |-> 0]
    /\ rpc' = "none"
    /\ Interrupted(mishap)
    /\ UNCHANGED <<caller, DescStartIdx, desc, ri, resets, arrived>>

-----------------------------------------------------------------------------
Indicate == IndicateTest \/ IndicateFrame \/ IndicateEnd
Post     == PostBuffer \/ PostOwnAlone \/ PostComplete \/ PostEnd
Reset    == ResetStop \/ SlideStart \/ SlideBuffer \/ ResetStart

Next == \/ OfferFragment \/ OfferPacket
        \/ EvtRxQueueAdvance \/ Indicate \/ Post
        \/ EvtRxQueueCancel \/ CancelEnd
        \/ NicReceive \/ Reset

\* The operating system polls, and between polls offers packets in the end; a call
\* into the driver returns, and a reset that began is completed.
Spec == /\ Init /\ [][Next]_vars
        /\ SF_vars(OfferPacket) /\ WF_vars(EvtRxQueueAdvance)
        /\ WF_vars(Indicate) /\ WF_vars(Post) /\ WF_vars(CancelEnd)
        /\ WF_vars(SlideStart \/ SlideBuffer \/ ResetStart)

-----------------------------------------------------------------------------
(* Properties. *)

\* Nothing has gone wrong since the last reset, and none is under way.
Clean == mishap = {} /\ rpc = "none" /\ cancelled = "no"

\* The variables have their types.
TypeOK ==
    /\ pr \in [begin : 0 .. NumPkt - 1, end : 0 .. NumPkt - 1]
    /\ fr \in [begin : Fragments, next : Fragments, end : Fragments]
    /\ DescStartIdx \in Fragments /\ desc \in [Descriptors -> RxDesc]
    /\ pc \in {"idle", "look", "deliver", "fill", "zeroed", "owned", "ignore"}
    /\ idx \in Descriptors /\ cancelled \in {"no", "begun", "done"}
    /\ nic \in [on : BOOLEAN, at : 0 .. NumRxDesc]
    /\ rpc \in {"none", "stopped", "slide", "slid"} /\ ri \in Fragments
    /\ resets \in 0 .. MaxResets
    /\ arrived \in Seq(Descriptors) /\ mishap \subseteq Mishaps

\* The driver and the NIC agree which buffer is whose, however the ring was slid:
\* the descriptor GetRxIndexFromFragment finds for a fragment that is posted holds
\* that fragment's buffer, and is the NIC's or has a frame in it.
PostedHoldsFragment ==
    Clean => \A f \in Held :
                LET d == desc[GetRxIndexFromFragment(f)]
                IN  d.buf = f /\ (d.own \/ d.frame)

\* Frames are indicated in the order they arrived, each with the buffer it is in,
\* and none that never arrived (its length would be 0 - ETHER_CRC_LEN).
FramesInOrder ==
    Clean /\ pc = "deliver" => /\ arrived # << >> /\ Head(arrived) = idx
                               /\ desc[idx].buf = fr.begin

\* RxPostBuffers never posts a descriptor whose frame was not indicated, nor one
\* the NIC owns, except those that the reset posted for it before.
NoFrameOverwritten ==
    [][Clean /\ pc = "fill" /\ pc' = "zeroed" => ~desc[idx'].frame]_vars

\* The NIC gets past the buffers that are posted only when it has filled them all
\* and none has been indicated yet; only the reset's extra descriptors let it.
OverrunOnlyWhenFull ==
    [][Clean /\ "overrun" \in mishap' \ mishap
         => \A f \in Held : desc[GetRxIndexFromFragment(f)].frame]_vars

\* Only a descriptor the NIC took half-written lets it out of the ring.
LeavesRingByHalfPost ==
    nic.on /\ nic.at = NumRxDesc => "half" \in mishap

\* The assertion at rxqueue.cpp:221: a packet to indicate has a fragment.
FragmentGuaranteed == pc = "deliver" => pr.begin # pr.end /\ fr.begin # fr.end

\* A frame that arrived is indicated, unless a reset or a cancel intervenes.
FrameIndicated ==
    \A d \in Descriptors :
       desc[d].frame ~> ~desc[d].frame \/ ~Clean

\* The comment of EvtRxQueueCancel, rxqueue.cpp:516: once it has disabled the
\* receiver no frame arrives.
RxDisabledByCancel ==
    [][cancelled # "no"
         => \A d \in Descriptors : desc'[d].frame => desc[d].frame]_vars
=============================================================================
