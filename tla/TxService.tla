------------------------------ MODULE TxService ------------------------------
(* What a transmit queue promises to the operating system, with rings,          *)
(* descriptors and DMA forgotten: packets leave in the order they were posted,  *)
(* each is put on the wire exactly once and whole, it is handed back only after *)
(* that (or untouched, if it was marked Ignore), and it is eventually handed    *)
(* back.  A packet is represented by its place in the queue and its state.      *)
EXTENDS Sequences, Naturals

CONSTANT Capacity       \* the most packets that can be outstanding

VARIABLE queue          \* the outstanding packets, oldest first

Init == queue = << >>

\* The operating system hands over one more packet.
Submit == /\ Len(queue) < Capacity
          /\ \E s \in {"waiting", "ignored"} : queue' = Append(queue, s)

\* The oldest packet still waiting goes onto the wire.
Send == \E i \in DOMAIN queue :
           /\ queue[i] = "waiting"
           /\ \A j \in 1 .. i - 1 : queue[j] # "waiting"
           /\ queue' = [queue EXCEPT ![i] = "sent"]

\* The oldest k packets go back to the operating system.
Complete == \E k \in 1 .. Len(queue) :
               /\ \A i \in 1 .. k : queue[i] # "waiting"
               /\ queue' = SubSeq(queue, k + 1, Len(queue))

Next == Submit \/ Send \/ Complete

Safety == Init /\ [][Next]_queue

Spec == Safety /\ WF_queue(Send) /\ WF_queue(Complete)
=============================================================================
