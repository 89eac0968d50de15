------------------------------- MODULE Eeprom -------------------------------
(* Reading the station address from a serial EEPROM, 93C46 or 93C56, whose four *)
(* wires are bits of EECMD (if_re.c): re_get_hw_mac_address on chips that have   *)
(* one, re_read_eeprom, re_eeprom_getword and what they call, up to the station  *)
(* address being set.  An action is one write of EECMD by the driver; the memory *)
(* answers within it, as it does within a half clock.  The driver's copy x of    *)
(* EECMD is what it last read from it or wrote to it, and nobody else writes it. *)
EXTENDS Naturals, Sequences

CONSTANTS
    Memories,   \* the contents the EEPROM may have: functions from WordAddresses
    Sizes       \* which EEPROMs there may be: 46 with 64 words, 56 with 256

RE_EE_ID == 0
RE_EE_EADDR == 7
WordAddresses == {RE_EE_ID} \cup RE_EE_EADDR..RE_EE_EADDR + 2

\* The constants.
EepromAssumption ==
    /\ Memories \subseteq [WordAddresses -> 0..65535]
    /\ Sizes \subseteq {46, 56}

VARIABLES
    memory, size,
    eecmd,      \* RE_EECMD: EEM1 and EEM0, EECS, EESK, EEDI
    eedo,       \* RE_EECMD: the EEPROM's output
    cell,       \* the EEPROM: what it waits for and the bits it has taken since
    pc,         \* which write of the register comes next
    todo,       \* ShiftOutBits: the bits below mask
    after,      \* ... and what follows when they are out
    d, i,       \* ShiftInBits: the word so far, and of how many bits
    addr,       \* the word that is read
    dest        \* the words that have been read

driver == <<pc, todo, after, d, i, addr, dest>>
vars == <<memory, size, eecmd, eedo, cell, driver>>

-----------------------------------------------------------------------------
(* External: the EEPROM.  A command is a start bit, an operation of two bits and *)
(* an address; each bit is taken when the clock rises.  After a read's address   *)
(* the output is 0, and the word follows, a bit for each rise, then the next.    *)

\* The number that bits spell, first bit first.
Number(bits) ==
    LET n[k \in 0..Len(bits)] == IF k = 0 THEN 0 ELSE 2 * n[k - 1] + bits[k]
    IN  n[Len(bits)]

\* The bits of v, the highest of count first.
Bits(v, count) == [k \in 1..count |-> (v \div (2^(count - k))) % 2]

Waiting == [state |-> "start", bits |-> <<>>, k |-> 0]
Pins == IF size = 46 THEN 6 ELSE 8
Reads(bits) == SubSeq(bits, 1, 2) = <<1, 0>>

\* A word of the EEPROM the driver has no use for is zero.
Stored(a) == IF a \in WordAddresses THEN memory[a] ELSE 0

\* The bit that comes out with the k-th rise after the address.
Output(bits, k) ==
    LET a == Number(SubSeq(bits, 3, Len(bits)))
    IN  Bits(Stored((a + ((k - 1) \div 16)) % (2^Pins)), 16)[1 + ((k - 1) % 16)]

Rise(di) ==
    LET bits == Append(cell.bits, di)
        last == Len(bits) = 2 + Pins
    IN CASE cell.state = "start" ->
                /\ cell' = IF di = 1 THEN [cell EXCEPT !.state = "command"] ELSE cell
                /\ eedo' = 1
         [] cell.state = "command" ->
                /\ cell' = [cell EXCEPT !.bits = bits,
                               !.state = IF ~last THEN "command"
                                         ELSE IF Reads(bits) THEN "out" ELSE "other"]
                /\ eedo' = IF last /\ Reads(bits) THEN 0 ELSE 1
         [] cell.state = "out" ->
                /\ cell' = [cell EXCEPT !.k = @ + 1]
                /\ eedo' = Output(cell.bits, cell.k + 1)
         [] cell.state = "other" -> UNCHANGED <<cell, eedo>>

\* A write of EECMD, and what the EEPROM makes of it: its wires are the register's
\* bits in programming mode only, and a command ends when it is not selected.
CsrWrite(y) ==
    /\ eecmd' = y
    /\ IF y.mode # "program" \/ y.cs = 0 THEN cell' = Waiting /\ eedo' = 1
       ELSE IF eecmd.sk = 0 /\ y.sk = 1 THEN Rise(y.di)
       ELSE UNCHANGED <<cell, eedo>>
    /\ UNCHANGED <<memory, size>>

-----------------------------------------------------------------------------
(* The driver.                                                                   *)

\* Faulty variant: the opcode next to it, which writes.
EEPROM_WRITE_OPCODE == 5

EEPROM_READ_OPCODE == 6

Idle == [mode |-> "normal", cs |-> 0, sk |-> 0, di |-> 0]

Init ==
    /\ memory \in Memories /\ size \in Sizes
    /\ eecmd = Idle /\ eedo = 1 /\ cell = Waiting
    /\ pc = "select" /\ todo = <<>> /\ after = "address" /\ d = 0 /\ i = 0
    /\ addr = RE_EE_ID /\ dest = <<>>

RaiseClock == CsrWrite([eecmd EXCEPT !.sk = 1])
LowerClock == CsrWrite([eecmd EXCEPT !.sk = 0])

\* The call of ShiftOutBits that comes next.
ShiftOut(data, count, next) == todo' = Bits(data, count) /\ after' = next /\ pc' = "bit"

\* Faulty variant: every EEPROM is a 93C46.
AddressBits46 == 6

\* How many bits of address RXCFG asks for.
AddressBits == IF size = 56 THEN 8 ELSE 6

\* re_eeprom_getword selects the EEPROM and shifts the operation out.
Select ==
    /\ pc = "select"
    /\ CsrWrite([mode |-> "program", cs |-> 1, sk |-> 0, di |-> 0])
    /\ ShiftOut(EEPROM_READ_OPCODE, 3, "address")
    /\ UNCHANGED <<d, i, addr, dest>>

\* re_eeprom_ShiftOutBits: a bit, with the clock low; the clock up and down; and the
\* wire low again when all are out.
ShiftOutBit ==
    \/ /\ pc = "bit" /\ pc' = "raise"
       /\ CsrWrite([eecmd EXCEPT !.di = Head(todo)])
       /\ UNCHANGED <<todo, after, d, i, addr, dest>>
    \/ /\ pc = "raise" /\ pc' = "lower" /\ RaiseClock
       /\ UNCHANGED <<todo, after, d, i, addr, dest>>
    \/ /\ pc = "lower" /\ LowerClock
       /\ todo' = Tail(todo) /\ pc' = IF todo' = <<>> THEN "release" ELSE "bit"
       /\ UNCHANGED <<after, d, i, addr, dest>>

\* The end of ShiftOutBits, and the call that follows.
ShiftOutEnd ==
    /\ pc = "release" /\ CsrWrite([eecmd EXCEPT !.di = 0])
    /\ IF after = "address" THEN ShiftOut(addr, AddressBits, "in") /\ UNCHANGED <<d, i>>
       ELSE /\ pc' = "in" /\ d' = 0 /\ i' = 0
            /\ UNCHANGED <<todo, after>>
    /\ UNCHANGED <<addr, dest>>

\* Faulty variant: the clock stays up after the last bit.
ShiftInBitHigh ==
    \/ /\ pc = "in" /\ pc' = "taken" /\ RaiseClock
       /\ UNCHANGED <<todo, after, d, i, addr, dest>>
    \/ /\ pc = "taken"
       /\ CsrWrite([eecmd EXCEPT !.sk = IF i = 15 THEN 1 ELSE 0])
       /\ d' = (2 * d + eedo) % 65536 /\ i' = i + 1
       /\ pc' = IF i' = 16 THEN "cleanup" ELSE "in"
       /\ UNCHANGED <<todo, after, addr, dest>>

\* re_eeprom_ShiftInBits: the clock up, the output read, the clock down.
ShiftInBit ==
    \/ /\ pc = "in" /\ pc' = "taken" /\ RaiseClock
       /\ UNCHANGED <<todo, after, d, i, addr, dest>>
    \/ /\ pc = "taken"
       /\ CsrWrite([eecmd EXCEPT !.sk = 0, !.di = 0])
       /\ d' = (2 * d + eedo) % 65536 /\ i' = i + 1
       /\ pc' = IF i' = 16 THEN "cleanup" ELSE "in"
       /\ UNCHANGED <<todo, after, addr, dest>>

\* re_eeprom_EEpromCleanup, and the word in its place.
EEpromCleanup ==
    \/ /\ pc = "cleanup" /\ pc' = "up"
       /\ CsrWrite([eecmd EXCEPT !.cs = 0, !.di = 0])
       /\ UNCHANGED <<todo, after, d, i, addr, dest>>
    \/ /\ pc = "up" /\ pc' = "down" /\ RaiseClock
       /\ UNCHANGED <<todo, after, d, i, addr, dest>>
    \/ /\ pc = "down" /\ pc' = "word" /\ LowerClock
       /\ UNCHANGED <<todo, after, d, i, addr, dest>>

\* Whether re_get_hw_mac_address takes an address from an EEPROM identified so.
HasAddress(id) == id = 33065                                        \* 0x8129

\* The end of re_eeprom_getword: re_read_eeprom goes to its next word, and
\* re_get_hw_mac_address reads three for an address.
NextWord ==
    /\ pc = "word"
    /\ dest' = Append(dest, d)
    /\ IF addr = RE_EE_ID /\ HasAddress(d)
       THEN addr' = RE_EE_EADDR /\ pc' = "select"
       ELSE IF addr \in RE_EE_EADDR..RE_EE_EADDR + 1
       THEN addr' = addr + 1 /\ pc' = "select"
       ELSE addr' = addr /\ pc' = "unlock"
    /\ UNCHANGED <<memory, size, eecmd, eedo, cell, todo, after, d, i>>

\* Faulty variant: the mode is only left where the write needs another.
RarSetUnlocked ==
    /\ pc = "unlock" /\ pc' = "done"
    /\ UNCHANGED <<memory, size, eecmd, eedo, cell, todo, after, d, i, addr, dest>>

\* re_rar_set: the address registers are written between these two.
RarSet ==
    \/ /\ pc = "unlock" /\ pc' = "lock" /\ CsrWrite([eecmd EXCEPT !.mode = "config"])
       /\ UNCHANGED <<todo, after, d, i, addr, dest>>
    \/ /\ pc = "lock" /\ pc' = "done" /\ CsrWrite([eecmd EXCEPT !.mode = "normal"])
       /\ UNCHANGED <<todo, after, d, i, addr, dest>>

Next == Select \/ ShiftOutBit \/ ShiftOutEnd \/ ShiftInBit \/ EEpromCleanup \/ NextWord
        \/ RarSet

Spec == Init /\ [][Next]_vars

-----------------------------------------------------------------------------
(* Properties.                                                                   *)

Bit == {0, 1}

\* Types; no word is read but those that have a use, and the EEPROM never has to
\* carry out anything but a read.
TypeOK ==
    /\ memory \in Memories /\ size \in Sizes
    /\ eecmd \in [mode : {"normal", "program", "config"}, cs : Bit, sk : Bit, di : Bit]
    /\ eedo \in Bit /\ cell.state \in {"start", "command", "out"}
    /\ d \in 0..65535 /\ i \in 0..16 /\ addr \in WordAddresses /\ Len(dest) <= 4

\* What has been read is what the EEPROM holds at those addresses, bit for bit: on
\* either size neither side is a clock ahead of the other, and no word begins where
\* the last one was left.
WordsAreStored ==
    \A k \in 1..Len(dest) :
        dest[k] = memory[IF k = 1 THEN RE_EE_ID ELSE RE_EE_EADDR + k - 2]

\* The EEPROM is let go of, and EECMD is out of the programming mode that the reads
\* leave behind, before the chip is used; a station address is read if and only if
\* the EEPROM says it has one.
LeftAlone ==
    pc = "done" => /\ eecmd.mode = "normal" /\ eecmd.cs = 0 /\ cell = Waiting
                   /\ Len(dest) = IF HasAddress(memory[RE_EE_ID]) THEN 4 ELSE 1

\* The EEPROM may take its input while the clock is high: the input and the selection
\* only change while it is low.
HeldWhileClockHigh ==
    [][eecmd.sk = 1 /\ eecmd'.sk = 1 => eecmd' = eecmd]_vars

=============================================================================
