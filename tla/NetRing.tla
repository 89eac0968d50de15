------------------------------- MODULE NetRing -------------------------------
(* Index arithmetic of a NET_RING of n elements.  A ring carries three          *)
(* indices: the elements of [begin, next) have been handed to the driver and    *)
(* posted to the NIC, those of [next, end) are handed over but not yet posted,  *)
(* and the rest belong to the operating system.  netringiterator.h masks with   *)
(* ElementIndexMask, n being a power of two; % n is that for every n.           *)
EXTENDS Integers

\* NetRingIncrementIndex, as the iterators' Advance applies it.
Incr(n, i) == (i + 1) % n

\* How many elements lie in [a, b): NetPacketIteratorGetCount.
Span(n, a, b) == (b - a + n) % n

\* The indices of [a, b).
Between(n, a, b) == {i \in 0 .. n - 1 : Span(n, a, i) < Span(n, a, b)}
=============================================================================
