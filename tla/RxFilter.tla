------------------------------- MODULE RxFilter -------------------------------
(* The receive filter: EvtSetReceiveFilter (adapter.cpp) stores the filter       *)
(* NetAdapterCx asks for and writes it to the chip with                          *)
(* re_set_rx_packet_filter (if_re.c); RtlResetLink writes it again whenever it   *)
(* starts the chip.  The two run on different processors and share no lock.      *)
(*                                                                               *)
(* A step is one store to the adapter or one register access; the loop over the  *)
(* multicast list takes one step per address.                                    *)
EXTENDS Integers, Sequences, FiniteSets

CONSTANTS
    Address,      \* multicast addresses
    Zero,         \* the address of six zeroes, which RtlZeroMemory leaves
    MulticastBit, \* GetMulticastBit, the bit of MAR0/MAR4 an address hashes to
    MaxList,      \* RT_MAX_MCAST_LIST
    Filters,      \* what is asked for in this instance: packet filters and a list
    MaxRequests   \* bound: filters asked for

PacketFilters == {"directed", "multicast", "broadcast", "promiscuous", "allmulticast"}
MarBits == 0..63

\* The constants.
FilterAssumption ==
    /\ Zero \notin Address
    /\ MulticastBit \in [Address \cup {Zero} -> MarBits]
    /\ MaxList \in Nat \ {0} /\ MaxRequests \in Nat
    /\ \A f \in Filters : /\ f.flags \subseteq PacketFilters
                          /\ f.list \in Seq(Address) /\ Len(f.list) <= MaxList

Nothing == [flags |-> {}, list |-> <<>>]
Actors  == {"request", "reset"}

VARIABLES
    want,               \* the filter last asked for
    PacketFilterFlags, MCAddressCount, MCList,
    rxcfg,              \* the accept bits of RXCFG
    mar,                \* the bits set in MAR0 and in MAR4
    pc,                 \* where each actor is
    flags, i, mask,     \* its locals in re_set_rx_packet_filter
    alone,              \* nobody else has been at it since it began
    settled,            \* the last one to program the chip was alone
    recent,             \* the filters the chip may have been programmed with since
    requests

adapter == <<PacketFilterFlags, MCAddressCount, MCList>>
locals  == <<flags, i, mask>>
history == <<alone, settled, recent>>
vars    == <<want, adapter, rxcfg, mar, pc, locals, history, requests>>

Init ==
    /\ want = Nothing
    /\ PacketFilterFlags = {} /\ MCAddressCount = 0 /\ MCList = [n \in 1..MaxList |-> Zero]
    /\ rxcfg = {} /\ mar = [w \in {0, 4} |-> {}] 
    /\ pc = [a \in Actors |-> "idle"]
    /\ flags = [a \in Actors |-> {}] /\ i = [a \in Actors |-> 1]
    /\ mask = [a \in Actors |-> {}]
    /\ alone = [a \in Actors |-> TRUE] /\ settled = TRUE /\ recent = {Nothing}
    /\ requests = 0

-----------------------------------------------------------------------------

\* RE_RXCFG_RX_ALLPHYS, _INDIV, _MULTI and _BROAD; runts and errors go with
\* promiscuous mode.  Any multicast filter makes the chip accept all nodes.
Accept(f) ==
    IF "promiscuous" \in f THEN {"allphys", "indiv", "multi", "broad", "runt", "errpkt"}
    ELSE {b \in {"allphys", "multi"} : f \cap {"multicast", "allmulticast"} # {}}
         \cup {b \in {"broad"} : "broadcast" \in f}
         \cup {b \in {"indiv"} : "directed" \in f}

AllNodes(f) == f \cap {"promiscuous", "allmulticast"} # {}

Word(w) == IF w = 0 THEN 0..31 ELSE 32..63

\* What the registers hold when the chip has been programmed with a filter.
MarOf(f) == IF AllNodes(f.flags) THEN MarBits
            ELSE {MulticastBit[f.list[n]] : n \in DOMAIN f.list}

Other(a) == CHOOSE b \in Actors : b # a

\* a begins; what filters the chip may hold before that is known if it settled.
Begin(a, asked) ==
    /\ alone' = [alone EXCEPT ![a] = pc[Other(a)] = "idle", ![Other(a)] = FALSE]
    /\ settled' = FALSE
    /\ recent' = (IF settled THEN {want} ELSE recent) \cup asked

Goto(a, l) == pc' = [pc EXCEPT ![a] = l]

-----------------------------------------------------------------------------
(* EvtSetReceiveFilter.                                                          *)

Request ==
    /\ pc["request"] = "idle" /\ requests < MaxRequests /\ requests' = requests + 1
    /\ \E f \in Filters :
         /\ want' = f /\ PacketFilterFlags' = f.flags
         /\ Begin("request", {f})
    /\ Goto("request", "count")
    /\ UNCHANGED <<MCAddressCount, MCList, rxcfg, mar, locals>>

StoreCount ==
    /\ pc["request"] = "count" /\ Goto("request", "zero")
    /\ MCAddressCount' = Len(want.list)
    /\ UNCHANGED <<want, PacketFilterFlags, MCList, rxcfg, mar, locals, history,
                   requests>>

ZeroList ==
    /\ pc["request"] = "zero" /\ Goto("request", "copy")
    /\ MCList' = [n \in 1..MaxList |-> Zero]
    /\ UNCHANGED <<want, PacketFilterFlags, MCAddressCount, rxcfg, mar, locals,
                   history, requests>>

CopyList ==
    /\ pc["request"] = "copy" /\ Goto("request", "read")
    /\ MCList' = [n \in 1..MaxList |-> IF n <= MCAddressCount THEN want.list[n]
                                                             ELSE MCList[n]]
    /\ UNCHANGED <<want, PacketFilterFlags, MCAddressCount, rxcfg, mar, locals,
                   history, requests>>

-----------------------------------------------------------------------------
(* RtlResetLink, which holds the interrupt lock until it has programmed the filter.             *)

\* re_stop: re_clear_all_rx_packet_filter and the reset of the chip.
ResetBegin ==
    /\ pc["reset"] = "idle"
    /\ Begin("reset", {})
    /\ rxcfg' = {}
    /\ Goto("reset", "read")
    /\ UNCHANGED <<want, adapter, mar, locals, requests>>

-----------------------------------------------------------------------------
(* re_set_rx_packet_filter.                                                      *)

ReadFlags(a) ==
    /\ pc[a] = "read" /\ Goto(a, "cfg")
    /\ flags' = [flags EXCEPT ![a] = PacketFilterFlags]
    /\ UNCHANGED <<want, adapter, rxcfg, mar, i, mask, history, requests>>

WriteRxCfg(a) ==
    /\ pc[a] = "cfg"
    /\ rxcfg' = Accept(flags[a])
    /\ i' = [i EXCEPT ![a] = 1]
    /\ mask' = [mask EXCEPT ![a] = IF AllNodes(flags[a]) THEN MarBits ELSE {}]
    /\ Goto(a, IF AllNodes(flags[a]) THEN "mar0" ELSE "hash")
    /\ UNCHANGED <<want, adapter, mar, flags, history, requests>>

HashNext(a) ==
    /\ pc[a] = "hash"
    /\ IF i[a] <= MCAddressCount
       THEN /\ mask' = [mask EXCEPT ![a] = @ \cup {MulticastBit[MCList[i[a]]]}]
            /\ i' = [i EXCEPT ![a] = @ + 1] /\ UNCHANGED pc
       ELSE Goto(a, "mar0") /\ UNCHANGED <<i, mask>>
    /\ UNCHANGED <<want, adapter, rxcfg, mar, flags, history, requests>>

WriteMar0(a) ==
    /\ pc[a] = "mar0" /\ Goto(a, "mar4")
    /\ mar' = [mar EXCEPT ![0] = mask[a] \cap Word(0)]
    /\ UNCHANGED <<want, adapter, rxcfg, locals, history, requests>>

\* Faulty variant: bits are added to MAR4 and never taken from it.
AddMar4(a) ==
    /\ pc[a] = "mar4"
    /\ mar' = [mar EXCEPT ![4] = @ \cup (mask[a] \cap Word(4))]
    /\ Goto(a, "idle")
    /\ settled' = alone[a]
    /\ UNCHANGED <<want, adapter, rxcfg, locals, alone, recent, requests>>

WriteMar4(a) ==
    /\ pc[a] = "mar4"
    /\ mar' = [mar EXCEPT ![4] = mask[a] \cap Word(4)]
    /\ Goto(a, "idle")
    /\ settled' = alone[a]
    /\ UNCHANGED <<want, adapter, rxcfg, locals, alone, recent, requests>>

SetRxPacketFilter(a) ==
    ReadFlags(a) \/ WriteRxCfg(a) \/ HashNext(a) \/ WriteMar0(a) \/ WriteMar4(a)

-----------------------------------------------------------------------------

Next ==
    \/ Request \/ StoreCount \/ ZeroList \/ CopyList
    \/ ResetBegin
    \/ \E a \in Actors : SetRxPacketFilter(a)

Spec == Init /\ [][Next]_vars

-----------------------------------------------------------------------------
(* Properties.                                                                   *)

Pcs == {"idle", "count", "zero", "copy", "read", "cfg", "hash", "mar0", "mar4"}

\* Types; the loop over the list never looks past the end of MCList.
TypeOK ==
    /\ want \in Filters \cup {Nothing}
    /\ PacketFilterFlags \in SUBSET PacketFilters /\ MCAddressCount \in 0..MaxList
    /\ MCList \in [1..MaxList -> Address \cup {Zero}]
    /\ rxcfg \subseteq {"allphys", "indiv", "multi", "broad", "runt", "errpkt"}
    /\ \A w \in {0, 4} : mar[w] \subseteq Word(w)
    /\ pc \in [Actors -> Pcs]
    /\ flags \in [Actors -> SUBSET PacketFilters] /\ i \in [Actors -> 1..MaxList + 1]
    /\ mask \in [Actors -> SUBSET MarBits]
    /\ requests \in 0..MaxRequests

\* A filter that was set, or set again by a reset, with nobody else at the
\* registers is the filter the chip has: what a reset and a request left when they
\* ran into each other is put right by the next one.
FilterSettled ==
    settled => /\ rxcfg = Accept(want.flags)
               /\ mar[0] \cup mar[4] = MarOf(want)

\* Even when they do run into each other the chip accepts nothing that no filter
\* since the last settled one has asked for, except what hashes like six zeroes.
AcceptsOnlyRecent ==
    /\ rxcfg \subseteq UNION {Accept(f.flags) : f \in recent}
    /\ mar[0] \cup mar[4] \subseteq (UNION {MarOf(f) : f \in recent}) \cup {MulticastBit[Zero]}

=============================================================================
