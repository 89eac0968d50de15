------------------------------ MODULE EriWindow ------------------------------
(* Registers behind ERIAR and ERIDR (if_re.c): re_eri_read and re_eri_write of   *)
(* one to four bytes through a window of words, with polls that give up, and the *)
(* read, change and write that callers make of them.  real_ocp_read and          *)
(* real_ocp_write do the same through OCPAR and OCPDR, where allowed.            *)
(*                                                                               *)
(* A step is one write of the address register or one poll of it.  A value is    *)
(* four bytes, the lowest first, and a byte the set of its bits that are set.    *)
EXTENDS Naturals, FiniteSets

CONSTANTS
    BitsOfByte,     \* the bits a byte has: the code treats them all alike
    Contents,       \* what the registers may hold: functions from Space
    WaitCount       \* how often the driver polls (10 or 20 in the code)

Space == 0..7       \* the addresses: two words
Byte == SUBSET BitsOfByte
Value == [0..3 -> Byte]

\* The constants.
WindowAssumption ==
    /\ BitsOfByte # {} /\ Contents \subseteq [Space -> Byte]
    /\ WaitCount \in Nat \ {0}

VARIABLES
    mem,        \* external: the registers
    allowed,    \* AllowAccessDashOcp; TRUE for ERIAR
    eriar,      \* the window: address, flag, and whether it is a write
    eridr,      \* its data
    served,     \* the chip has done what eriar says
    call,       \* the access that was asked for
    pc,         \* idle, or what comes next
    op,         \* the function it is in: read or write
    addr, len, shift, value,    \* its variables; value is value2 when it reads
    polls,
    before,     \* the registers when the call began
    timely      \* every poll since ended with the chip's answer

locals == <<op, addr, len, shift, value>>
history == <<before, timely>>
vars == <<mem, allowed, eriar, eridr, served, call, pc, locals, polls, history>>

-----------------------------------------------------------------------------

Zeroes == [k \in 0..3 |-> {}]
Ones == [k \in 0..3 |-> BitsOfByte]
Align(a) == a - (a % 4)
Low(v, n) == [k \in 0..3 |-> IF k < n THEN v[k] ELSE {}]
Word(m, a) == [k \in 0..3 |-> m[Align(a) + k]]

\* The bytes of a word that an access of n bytes from its byte s on takes: mask.
Mask(s, n) == {k \in 0..3 : s <= k /\ k < s + n}

\* A value moved up or down by bytes; what leaves it is lost.
ShiftUp(v, n) == [k \in 0..3 |-> IF k >= n THEN v[k - n] ELSE {}]
ShiftDown(v, n) == [k \in 0..3 |-> IF k + n <= 3 THEN v[k + n] ELSE {}]
And(v, ks) == [k \in 0..3 |-> IF k \in ks THEN v[k] ELSE {}]
Or(v, w) == [k \in 0..3 |-> v[k] \cup w[k]]

\* Faulty variant: the bytes of the second word go where those of the first are.
ReadMergeFlat(v, word, s, n, up) == Or(v, ShiftDown(And(word, Mask(s, n)), s))

\* What a read makes of the word it found at byte s, after shift bytes of others.
ReadMerge(v, word, s, n, up) == Or(v, ShiftUp(ShiftDown(And(word, Mask(s, n)), s), up))

\* Faulty variant: the bytes around those written are not kept.
WriteMergeBare(v, word, s, n, down) == ShiftDown(ShiftUp(v, s), down)

\* What a write makes of the word it is about to change.
WriteMerge(v, word, s, n, down) ==
    Or(And(word, (0..3) \ Mask(s, n)), ShiftDown(ShiftUp(v, s), down))

\* Faulty variant: a part that ends with the word is followed by another.
LastStrict(s, n) == n < 4 - s

\* Whether n bytes from byte s on are the end of it.
Last(s, n) == n <= 4 - s

-----------------------------------------------------------------------------

CallKinds == {"read", "write", "update"}

\* An update reads from bytes, sets or clears bits of the lowest and writes to bytes.
Calls ==
    {[kind |-> "read", addr |-> a, n |-> k] : a \in Space, k \in 0..5}
    \cup {[kind |-> "write", addr |-> a, n |-> k, v |-> v] :
             a \in Space, k \in 0..5, v \in Value}
    \cup {[kind |-> "update", addr |-> a, from |-> k[1], n |-> k[2], low |-> b] :
             a \in {0, 4}, k \in {<<4, 4>>, <<4, 1>>, <<1, 1>>}, b \in Byte}

\* The calls there are: within the registers, with a value of no more bytes than are
\* written.
Legal(c) ==
    /\ c.addr + c.n <= 8
    /\ c.kind = "write" => c.v = Low(c.v, c.n) /\ (c.n \in 1..4 \/ c.v = Zeroes)

Idle == [kind |-> "none"]

Init ==
    /\ mem \in Contents /\ allowed \in BOOLEAN
    /\ eriar = [addr |-> 0, flag |-> FALSE, write |-> FALSE] /\ eridr = Zeroes
    /\ served = TRUE
    /\ call = Idle /\ pc = "idle" /\ op = "read" /\ addr = 0 /\ len = 0 /\ shift = 0
    /\ value = Zeroes /\ polls = 0 /\ before = mem /\ timely = TRUE

\* Faulty variant: neither the length nor the permission is looked at.
EnterUnchecked(o, a, n, v) ==
    op' = o /\ addr' = a /\ len' = n /\ shift' = 0 /\ pc' = "word" /\ value' = v

\* The start of re_eri_read or re_eri_write; a length they cannot do, and a register
\* they may not touch, make the read all ones and the write nothing.
Enter(o, a, n, v) ==
    /\ op' = o /\ addr' = a /\ len' = n /\ shift' = 0
    /\ IF n \in 1..4 /\ allowed THEN pc' = "word" /\ value' = v
       ELSE pc' = "done" /\ value' = IF o = "read" THEN Ones ELSE v

Begin ==
    /\ pc = "idle"
    /\ \E c \in Calls :
        /\ Legal(c) /\ call' = c
        /\ IF c.kind = "write" THEN Enter("write", c.addr, c.n, c.v)
           ELSE Enter("read", c.addr, IF c.kind = "update" THEN c.from ELSE c.n, Zeroes)
    /\ before' = mem /\ timely' = TRUE
    /\ UNCHANGED <<mem, allowed, eriar, eridr, served, polls>>

\* The first half of the loop: the word is asked for, by a read of four bytes where a
\* write is under way.
AskWord ==
    /\ pc = "word" /\ pc' = "reading" /\ polls' = 0
    /\ eriar' = [addr |-> Align(addr), flag |-> FALSE, write |-> FALSE]
    /\ served' = FALSE
    /\ UNCHANGED <<mem, allowed, eridr, call, locals, history>>

\* External: the chip does what the window says and turns its flag over.
Chip ==
    /\ ~served /\ served' = TRUE
    /\ eriar' = [eriar EXCEPT !.flag = ~eriar.write]
    /\ IF eriar.write
       THEN /\ mem' = [a \in Space |-> IF Align(a) = eriar.addr THEN eridr[a % 4]
                                       ELSE mem[a]]
            /\ UNCHANGED eridr
       ELSE eridr' = Word(mem, eriar.addr) /\ UNCHANGED mem
    /\ UNCHANGED <<allowed, call, pc, locals, polls, history>>

\* The end of the loop's body: the rest is in the next word.
Continue(s) ==
    IF Last(s, len) THEN pc' = "done" /\ UNCHANGED <<addr, len, shift>>
    ELSE /\ pc' = "word" /\ addr' = Align(addr) + 4
         /\ len' = len - (4 - s) /\ shift' = 4 - s

\* What follows the polls of a read and of a write.
AfterRead ==
    LET s == addr % 4
    IN  IF op = "read"
        THEN /\ value' = ReadMerge(value, eridr, s, len, shift) /\ Continue(s)
             /\ UNCHANGED <<op, eriar, eridr, served>>
        ELSE /\ eridr' = WriteMerge(value, eridr, s, len, shift)
             /\ eriar' = [addr |-> Align(addr), flag |-> TRUE, write |-> TRUE]
             /\ served' = FALSE /\ pc' = "writing"
             /\ UNCHANGED locals

AfterWrite == Continue(addr % 4) /\ UNCHANGED <<op, value, eriar, eridr, served>>

Answered == eriar.flag = (pc = "reading")

\* One poll, which may come before the chip's answer; after WaitCount of them the
\* driver goes on with what there is.
Poll ==
    /\ pc \in {"reading", "writing"}
    /\ IF Answered \/ polls + 1 = WaitCount
       THEN /\ polls' = 0 /\ timely' = (timely /\ Answered)
            /\ IF pc = "reading" THEN AfterRead ELSE AfterWrite
       ELSE /\ polls' = polls + 1
            /\ UNCHANGED <<pc, locals, eriar, eridr, served, timely>>
    /\ UNCHANGED <<mem, allowed, call, before>>

\* The caller of an update writes what it read with other bits in the lowest byte.
Update ==
    /\ pc = "done" /\ call.kind = "update" /\ op = "read"
    /\ Enter("write", call.addr, call.n, [value EXCEPT ![0] = call.low])
    /\ UNCHANGED <<mem, allowed, eriar, eridr, served, call, polls, history>>

Next == Begin \/ AskWord \/ Chip \/ Poll \/ Update

Spec == Init /\ [][Next]_vars
-----------------------------------------------------------------------------
(* Properties.                                                                   *)

\* Types; a word is only asked for where there is one.
TypeOK ==
    /\ mem \in [Space -> Byte] /\ allowed \in BOOLEAN /\ served \in BOOLEAN
    /\ eriar \in [addr : {0, 4}, flag : BOOLEAN, write : BOOLEAN] /\ eridr \in Value
    /\ pc \in {"idle", "word", "reading", "writing", "done"} /\ op \in {"read", "write"}
    /\ addr \in 0..8 /\ len \in 0..5 /\ shift \in 0..3 /\ value \in Value
    /\ polls \in 0..WaitCount - 1 /\ timely \in BOOLEAN

Done(kind) == pc = "done" /\ call.kind = kind /\ call.n \in 1..4 /\ allowed
Over(a) == a \in call.addr..call.addr + call.n - 1

\* A read returns the bytes that were asked for, in order and nothing above them,
\* also where they lie in two words, unless the chip was late.
ReadIsExact ==
    Done("read") /\ timely =>
        value = [k \in 0..3 |-> IF k < call.n THEN mem[call.addr + k] ELSE {}]

\* A write changes the bytes it is of and no others, unless the chip was late.
WriteIsExact ==
    Done("write") /\ timely =>
        mem = [a \in Space |-> IF Over(a) THEN call.v[a - call.addr] ELSE before[a]]

\* Bits are set and cleared in the lowest byte only, although callers hand four bytes
\* to a write of one, which puts the others over those it keeps.
UpdateIsLocal ==
    Done("update") /\ op = "write" /\ timely =>
        mem = [before EXCEPT ![call.addr] = call.low]

\* However late the chip is, nothing changes outside the words of the call, and
\* nothing at all where the call is refused or only reads.
LateStaysInWords ==
    pc # "idle" =>
        \A a \in Space : mem[a] # before[a] =>
            /\ call.kind # "read" /\ call.n \in 1..4 /\ allowed
            /\ \E b \in Space : Over(b) /\ Align(b) = Align(a)

=============================================================================
