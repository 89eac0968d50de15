----------------------------- MODULE MCComponents -----------------------------
(* Values for the constants of Components.                                       *)
EXTENDS Components

\* One multicast address in each of the registers; six zeroes have a bit of their own.
Addresses == {"a1", "a2"}
Bits == [a \in Addresses \cup {"zero"} |-> CASE a = "a1" -> 7 [] a = "a2" -> 62
                                             [] a = "zero" -> 1]

Asked ==
    {[flags |-> {"directed", "broadcast"}, list |-> <<>>],
     [flags |-> {"directed", "multicast"}, list |-> <<"a1">>],
     [flags |-> {"multicast"}, list |-> <<"a2">>],
     [flags |-> {"directed", "multicast"}, list |-> <<"a2", "a1">>],
     [flags |-> {"promiscuous"}, list |-> <<"a1", "a2">>]}

\* IPv4 multicast addresses that differ in one byte, IPv6 ones that differ in two, and
\* short buffers with every value of their last byte.
Buffers ==
    {<<1, 0, 94, 0, 0, b>> : b \in {0, 1, 2, 4, 8, 16, 32, 64, 128, 251, 255}}
    \cup {<<51, 51, b, 0, c, 251>> : b \in {0, 255}, c \in {0, 1, 128}}
    \cup {<<b>> : b \in 0..255}
    \cup {<<>>, <<255, 255, 255, 255, 255, 255>>, <<0, 0, 0, 0, 0, 0>>}

\* Registers all clear, all set, and every byte unlike its neighbours, in either word.
Patterns ==
    {[a \in 0..7 |-> IF P[a] THEN {"b1"} ELSE {}] :
        P \in {[a \in 0..7 |-> a % 2 = 0], [a \in 0..7 |-> a \div 4 = 0],
               [a \in 0..7 |-> TRUE], [a \in 0..7 |-> a % 4 \in {0, 3}]}}

\* An EEPROM's identification and the three words of its address, at 0 and from 7 on.
Memory(id, address) == [a \in {0} \cup 7..9 |-> IF a = 0 THEN id ELSE address[a - 6]]

\* 0x8129, with an address of words unlike each other and one of words that differ in
\* their outer bits; and an identification that differs from it in one bit.
Images == {Memory(33065, <<57344, 4684, 26505>>), Memory(33065, <<32769, 32766, 1>>),
             Memory(33064, <<57344, 4684, 26505>>)}

\* What other ends advertise: without pause bits, and less than the chip, or more.
Ends == {{"10h", "100h", "100f", "1000f"}, {"10f", "2500f"},
         {"100f", "1000h", "1000f", "2500f", "5000f"}}

=============================================================================
