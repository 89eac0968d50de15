--------------------------- MODULE ChipStartProofs ---------------------------
(* What holds of every chip type and every register sequence of ChipStart,       *)
(* whatever versions there are and wherever a cancel comes in.  The sequences    *)
(* are put together from parts that open the configuration registers and close   *)
(* them again, so that it is enough to know the parts.                           *)
EXTENDS ChipStart, TLAPS

Guards  == {"cfg", "aspmOff", "aspmOn"}
StopOps == {"noAccept", "maskOff16", "maskOff32", "stopReq", "awaitIdle", "reset"}
MainOps == {"lock", "accept", "maskOn16", "maskOn32", "trOff", "enable", "gateShut",
            "gateOpen", "oobOff", "rxcfg", "phy"}
Ops     == Guards \cup StopOps \cup MainOps \cup {"unlock"}

-----------------------------------------------------------------------------
(* Sequences that open the registers before they change one, and close them. *)

\* After the first k accesses of s the registers are open.
Opened(s, k) == \E j \in 1 .. k : s[j] = "unlock" /\ \A m \in j + 1 .. k : s[m] # "lock"

Guarded(s) == /\ \A k \in 1 .. Len(s) : s[k] \in Guards => Opened(s, k - 1)
              /\ ~Opened(s, Len(s))

\* The same of what is left of a sequence, when the registers are open or not.
OpenedNow(s, k, open) == Opened(s, k) \/ (open /\ \A m \in 1 .. k : s[m] # "lock")

GuardedNow(s, open) ==
    /\ \A k \in 1 .. Len(s) : s[k] \in Guards => OpenedNow(s, k - 1, open)
    /\ ~OpenedNow(s, Len(s), open)

\* Two guarded sequences in a row are one.
LEMMA GuardedConcat ==
    ASSUME NEW s \in Seq(Ops), NEW t \in Seq(Ops), Guarded(s), Guarded(t)
    PROVE  s \o t \in Seq(Ops) /\ Guarded(s \o t)
<1> DEFINE u == s \o t
<1>1. /\ u \in Seq(Ops) /\ Len(u) = Len(s) + Len(t)
      /\ Len(s) \in Nat /\ Len(t) \in Nat
      /\ \A k \in 1 .. Len(s) : u[k] = s[k]
      /\ \A k \in 1 .. Len(t) : u[Len(s) + k] = t[k]
  OBVIOUS
<1> HIDE DEF u
<1>2. ASSUME NEW k \in 1 .. Len(u), u[k] \in Guards PROVE Opened(u, k - 1)
  <2>1. CASE k <= Len(s)
    <3>1. PICK j \in 1 .. k - 1 : s[j] = "unlock" /\ \A m \in j + 1 .. k - 1 : s[m] # "lock"
      BY <1>1, <1>2, <2>1 DEF Guarded, Opened
    <3>2. u[j] = "unlock" /\ \A m \in j + 1 .. k - 1 : u[m] # "lock"
      <4>1. j \in 1 .. Len(s) /\ \A m \in j + 1 .. k - 1 : m \in 1 .. Len(s)
        BY <1>1, <2>1
      <4> QED
        BY <1>1, <3>1, <4>1
    <3> QED
      BY <3>2 DEF Opened
  <2>2. CASE k > Len(s)
    <3> DEFINE h == k - Len(s)
    <3>1. h \in 1 .. Len(t) /\ t[h] \in Guards
      BY <1>1, <1>2, <2>2
    <3>2. PICK j \in 1 .. h - 1 : t[j] = "unlock" /\ \A m \in j + 1 .. h - 1 : t[m] # "lock"
      BY <3>1 DEF Guarded, Opened
    <3>3. u[Len(s) + j] = "unlock" /\ Len(s) + j \in 1 .. k - 1
      BY <1>1, <3>1, <3>2
    <3>4. ASSUME NEW m \in Len(s) + j + 1 .. k - 1 PROVE u[m] # "lock"
      <4>1. m - Len(s) \in j + 1 .. h - 1 /\ m - Len(s) \in 1 .. Len(t)
        BY <1>1, <3>1, <3>2
      <4>2. u[Len(s) + (m - Len(s))] = t[m - Len(s)]
        BY <1>1, <4>1
      <4>3. Len(s) + (m - Len(s)) = m
        BY <1>1
      <4> QED
        BY <3>2, <4>1, <4>2, <4>3
    <3> QED
      BY <3>3, <3>4 DEF Opened
  <2> QED
    BY <1>1, <2>1, <2>2
<1>3. ASSUME Opened(u, Len(u)) PROVE FALSE
  <2>1. PICK j \in 1 .. Len(u) : u[j] = "unlock" /\ \A m \in j + 1 .. Len(u) : u[m] # "lock"
    BY <1>3 DEF Opened
  <2>2. CASE j <= Len(s)
    <3>1. Opened(s, Len(s))
      BY <1>1, <2>1, <2>2 DEF Opened
    <3> QED
      BY <3>1 DEF Guarded
  <2>3. CASE j > Len(s)
    <3> DEFINE h == j - Len(s)
    <3>1. h \in 1 .. Len(t) /\ Len(s) + h = j
      BY <1>1, <2>1, <2>3
    <3>2. t[h] = "unlock"
      BY <1>1, <2>1, <3>1
    <3>3. \A m \in h + 1 .. Len(t) : t[m] # "lock"
      <4> TAKE m \in h + 1 .. Len(t)
      <4>1. Len(s) + m \in j + 1 .. Len(u) /\ m \in 1 .. Len(t)
        BY <1>1, <3>1
      <4> QED
        BY <1>1, <2>1, <4>1
    <3>4. Opened(t, Len(t))
      BY <3>1, <3>2, <3>3 DEF Opened
    <3> QED
      BY <3>4 DEF Guarded
  <2> QED
    BY <1>1, <2>1, <2>2, <2>3
<1> QED
  BY <1>1, <1>2, <1>3 DEF Guarded, u

\* Accesses that neither open nor need the registers open are guarded.
LEMMA GuardedPlain ==
    ASSUME NEW s \in Seq(StopOps \cup MainOps)
    PROVE  s \in Seq(Ops) /\ Guarded(s)
<1>1. s \in Seq(Ops)
  BY DEF Ops
<1>2. \A k \in 1 .. Len(s) : s[k] \notin Guards /\ s[k] # "unlock"
  BY DEF StopOps, MainOps, Guards
<1> QED
  BY <1>1, <1>2 DEF Guarded, Opened

\* So are accesses between opening the registers and closing them.
LEMMA GuardedUnlocked ==
    ASSUME NEW ops \in Seq(Guards \cup {"gateOpen"})
    PROVE  Unlocked(ops) \in Seq(Ops) /\ Guarded(Unlocked(ops))
<1> DEFINE u == Unlocked(ops)
           n == Len(ops)
<1>1. /\ ops \in Seq(Ops) /\ n \in Nat
      /\ \A k \in 1 .. n : ops[k] # "lock"
  BY DEF Guards, Ops, MainOps
<1>2. /\ u \in Seq(Ops) /\ Len(u) = n + 2 /\ u[1] = "unlock" /\ u[n + 2] = "lock"
      /\ \A k \in 1 .. n : u[k + 1] = ops[k]
  BY <1>1 DEF Unlocked, Ops, MainOps
<1> HIDE DEF u, n
<1>3. ASSUME NEW m \in 2 .. n + 1 PROVE u[m] # "lock"
  <2>1. m - 1 \in 1 .. n /\ (m - 1) + 1 = m
    BY <1>1
  <2> QED
    BY <1>1, <1>2, <2>1 DEF n
<1>4. ASSUME NEW k \in 1 .. Len(u), u[k] \in Guards PROVE Opened(u, k - 1)
  <2>1. k # 1 /\ k # n + 2
    BY <1>2, <1>4 DEF Guards
  <2>2. 1 \in 1 .. k - 1 /\ \A m \in 1 + 1 .. k - 1 : u[m] # "lock"
    BY <1>1, <1>2, <1>3, <2>1
  <2> QED
    BY <1>2, <2>2 DEF Opened
<1>5. ~Opened(u, Len(u))
  <2> SUFFICES ASSUME NEW j \in 1 .. Len(u), u[j] = "unlock",
                      \A m \in j + 1 .. Len(u) : u[m] # "lock"
               PROVE  FALSE
    BY DEF Opened
  <2>1. j = n + 2
    BY <1>1, <1>2
  <2> QED
    BY <1>2, <2>1
<1> QED
  BY <1>2, <1>4, <1>5 DEF Guarded, u

\* What is left of a guarded sequence is guarded.
LEMMA GuardedTail ==
    ASSUME NEW s \in Seq(Ops), s # << >>, NEW open \in BOOLEAN, GuardedNow(s, open)
    PROVE  /\ Tail(s) \in Seq(Ops) /\ Head(s) \in Ops
           /\ Head(s) \in Guards => open
           /\ GuardedNow(Tail(s), IF Head(s) = "unlock" THEN TRUE
                                  ELSE IF Head(s) = "lock" THEN FALSE ELSE open)
<1> DEFINE t == Tail(s)
           now == IF Head(s) = "unlock" THEN TRUE
                  ELSE IF Head(s) = "lock" THEN FALSE ELSE open
<1>1. /\ t \in Seq(Ops) /\ Head(s) \in Ops /\ Head(s) = s[1] /\ Len(t) = Len(s) - 1
      /\ Len(s) \in Nat \ {0} /\ \A k \in 1 .. Len(t) : t[k] = s[k + 1]
  OBVIOUS
<1>2. now \in BOOLEAN
  OBVIOUS
<1> HIDE DEF t, now
<1>3. Head(s) \in Guards => open
  BY <1>1 DEF GuardedNow, OpenedNow, Opened
<1>4. ASSUME NEW k \in 0 .. Len(t)
      PROVE  OpenedNow(t, k, now) <=> OpenedNow(s, k + 1, open)
  <2>1. ASSUME Opened(t, k) PROVE Opened(s, k + 1)
    <3>1. PICK j \in 1 .. k : t[j] = "unlock" /\ \A m \in j + 1 .. k : t[m] # "lock"
      BY <2>1 DEF Opened
    <3>2. s[j + 1] = "unlock" /\ j + 1 \in 1 .. k + 1
      BY <1>1, <3>1
    <3>3. \A m \in j + 2 .. k + 1 : s[m] # "lock"
      <4> TAKE m \in j + 2 .. k + 1
      <4>1. m - 1 \in j + 1 .. k /\ m - 1 \in 1 .. Len(t) /\ (m - 1) + 1 = m
        BY <1>1, <3>1
      <4> QED
        BY <1>1, <3>1, <4>1
    <3>4. (j + 1) + 1 = j + 2
      BY <3>1
    <3> QED
      BY <3>2, <3>3, <3>4 DEF Opened
  <2>2. ASSUME now, \A m \in 1 .. k : t[m] # "lock" PROVE OpenedNow(s, k + 1, open)
    <3>1. \A m \in 2 .. k + 1 : s[m] # "lock"
      <4> TAKE m \in 2 .. k + 1
      <4>1. m - 1 \in 1 .. k /\ m - 1 \in 1 .. Len(t) /\ (m - 1) + 1 = m
        BY <1>1
      <4> QED
        BY <1>1, <2>2, <4>1
    <3>2. CASE Head(s) = "unlock"
      BY <1>1, <3>1, <3>2 DEF OpenedNow, Opened
    <3>3. CASE Head(s) # "unlock"
      <4>1. open /\ s[1] # "lock"
        BY <1>1, <2>2, <3>3 DEF now
      <4> QED
        BY <1>1, <3>1, <4>1 DEF OpenedNow
    <3> QED
      BY <3>2, <3>3
  <2>3. ASSUME Opened(s, k + 1) PROVE OpenedNow(t, k, now)
    <3>1. PICK j \in 1 .. k + 1 : s[j] = "unlock" /\ \A m \in j + 1 .. k + 1 : s[m] # "lock"
      BY <2>3 DEF Opened
    <3>2. ASSUME NEW m \in 1 .. k, m >= j PROVE t[m] # "lock"
      BY <1>1, <3>1, <3>2
    <3>3. CASE j = 1
      BY <1>1, <3>1, <3>2, <3>3 DEF OpenedNow, now
    <3>4. CASE j # 1
      <4>1. j - 1 \in 1 .. k /\ t[j - 1] = "unlock"
        BY <1>1, <3>1, <3>4
      <4>2. \A m \in (j - 1) + 1 .. k : t[m] # "lock"
        BY <3>1, <3>2, <4>1
      <4> QED
        BY <4>1, <4>2 DEF OpenedNow, Opened
    <3> QED
      BY <3>3, <3>4
  <2>4. ASSUME open, \A m \in 1 .. k + 1 : s[m] # "lock" PROVE OpenedNow(t, k, now)
    <3>1. now
      BY <1>1, <2>4 DEF now
    <3>2. \A m \in 1 .. k : t[m] # "lock"
      BY <1>1, <2>4
    <3> QED
      BY <3>1, <3>2 DEF OpenedNow
  <2> QED
    BY <2>1, <2>2, <2>3, <2>4 DEF OpenedNow
<1>5. GuardedNow(t, now)
  <2>1. ASSUME NEW k \in 1 .. Len(t), t[k] \in Guards PROVE OpenedNow(t, k - 1, now)
    <3>1. k + 1 \in 1 .. Len(s) /\ s[k + 1] \in Guards /\ k - 1 \in 0 .. Len(t)
      BY <1>1, <2>1
    <3>2. OpenedNow(s, (k + 1) - 1, open) /\ (k + 1) - 1 = (k - 1) + 1
      BY <3>1 DEF GuardedNow
    <3> QED
      BY <1>4, <3>1, <3>2
  <2>2. ~OpenedNow(t, Len(t), now)
    <3>1. Len(t) \in 0 .. Len(t) /\ Len(t) + 1 = Len(s)
      BY <1>1
    <3> QED
      BY <1>4, <3>1 DEF GuardedNow
  <2> QED
    BY <2>1, <2>2 DEF GuardedNow
<1> QED
  BY <1>1, <1>3, <1>5 DEF t, now

\* With the registers closed both definitions are one, and with nothing left to do the
\* registers are closed.
LEMMA GuardedStart ==
    /\ \A s : Guarded(s) => GuardedNow(s, FALSE)
    /\ \A open \in BOOLEAN : GuardedNow(<< >>, open) <=> ~open
<1>1. \A s : Guarded(s) => GuardedNow(s, FALSE)
  BY DEF Guarded, GuardedNow, OpenedNow
<1>2. ASSUME NEW open \in BOOLEAN PROVE GuardedNow(<< >>, open) <=> ~open
  BY DEF GuardedNow, OpenedNow, Opened
<1> QED
  BY <1>1, <1>2
-----------------------------------------------------------------------------
(* The functions of if_re.c. *)

LEMMA WhenSeq == ASSUME NEW X, NEW c, NEW ops \in Seq(X) PROVE When(c, ops) \in Seq(X)
  BY DEF When

LEMMA ConcatSeq ==
    ASSUME NEW X, NEW s \in Seq(X), NEW t \in Seq(X)
    PROVE  s \o t \in Seq(X)
  OBVIOUS

Safe(s) == s \in Seq(Ops) /\ Guarded(s)

LEMMA SafeConcat == ASSUME NEW s, NEW t, Safe(s), Safe(t) PROVE Safe(s \o t)
  BY GuardedConcat DEF Safe

LEMMA SafePlain == ASSUME NEW s \in Seq(StopOps \cup MainOps) PROVE Safe(s)
  BY GuardedPlain DEF Safe

LEMMA SafeUnlocked ==
    ASSUME NEW ops \in Seq(Guards \cup {"gateOpen"})
    PROVE  Safe(Unlocked(ops))
  BY GuardedUnlocked DEF Safe

LEMMA SafeWhen == ASSUME NEW c, NEW ops, Safe(ops) PROVE Safe(When(c, ops))
<1>1. Safe(<< >>)
  <2>1. << >> \in Seq(StopOps \cup MainOps)
    OBVIOUS
  <2> QED
    BY <2>1, SafePlain
<1> QED
  BY <1>1 DEF When

\* re_stop and re_reset never touch the lock: a cancel may run them at any time.
LEMMA StopPlain == re_stop \in Seq(StopOps) /\ re_reset \in Seq(StopOps)
<1>1. /\ <<"noAccept">> \in Seq(StopOps) /\ <<"stopReq">> \in Seq(StopOps)
      /\ <<"awaitIdle">> \in Seq(StopOps) /\ <<"reset">> \in Seq(StopOps)
      /\ <<"noAccept", IF re_type \in Since8125 THEN "maskOff32" ELSE "maskOff16">>
            \in Seq(StopOps)
  BY DEF StopOps
<1>2. re_reset \in Seq(StopOps)
  <2>1. \A c : When(c, <<"stopReq">>) \in Seq(StopOps) /\ When(c, <<"awaitIdle">>) \in Seq(StopOps)
    BY <1>1, WhenSeq
  <2>2. \A b, c : <<"noAccept">> \o When(b, <<"stopReq">>) \o When(c, <<"awaitIdle">>)
                     \o <<"reset">> \in Seq(StopOps)
    BY <1>1, <2>1, ConcatSeq
  <2> QED
    BY <2>2 DEF re_reset
<1> QED
  BY <1>1, <1>2, ConcatSeq DEF re_stop

\* Every function opens the configuration registers before it writes to them, and
\* closes them.
LEMMA FunctionsSafe ==
    /\ Safe(re_stop) /\ Safe(re_rar_set) /\ Safe(RtlResetLink)
    /\ Safe(TakeOver) /\ Safe(<<"rxcfg">> \o TakeOver)
    /\ Safe(re_exit_oob) /\ Safe(re_hw_init) /\ Safe(re_reset)
<1>1. \A op \in StopOps \cup MainOps : Safe(<<op>>)
  <2> TAKE op \in StopOps \cup MainOps
  <2>1. <<op>> \in Seq(StopOps \cup MainOps)
    OBVIOUS
  <2> QED
    BY <2>1, SafePlain
<1>2. \A op \in Guards \cup {"gateOpen"} : <<op>> \in Seq(Guards \cup {"gateOpen"})
  OBVIOUS
<1>3. Safe(re_stop) /\ Safe(re_reset)
  <2>1. re_stop \in Seq(StopOps \cup MainOps) /\ re_reset \in Seq(StopOps \cup MainOps)
    BY StopPlain
  <2> QED
    BY <2>1, SafePlain
<1>4. Safe(re_rar_set)
  BY <1>2, SafeUnlocked DEF re_rar_set, Guards
<1>5. Safe(Unlocked(<<"aspmOff">>)) /\ Safe(Unlocked(<<"cfg">>))
  BY <1>2, SafeUnlocked DEF Guards
<1>6. Safe(re_hw_mac_mcu_config)
  BY <1>5, SafeWhen DEF re_hw_mac_mcu_config
<1>7. Safe(re_exit_oob)
  <2>1. Safe(<<"lock">>) /\ Safe(<<"stopReq">>) /\ Safe(<<"oobOff">>)
    BY <1>1 DEF StopOps, MainOps
  <2>2. Safe(<<"gateShut", "trOff">>)
    <3>1. <<"gateShut", "trOff">> \in Seq(StopOps \cup MainOps)
      BY DEF MainOps
    <3> QED
      BY <3>1, SafePlain
  <2> QED
    BY <1>6, <2>1, <2>2, SafeWhen, SafeConcat DEF re_exit_oob
<1>8. Safe(re_hw_init)
  <2>1. Safe(Unlocked(When(re_type \notin MagicOutside, <<"cfg">>)))
    BY <1>2, WhenSeq, SafeUnlocked DEF Guards
  <2> QED
    BY <1>5, <2>1, SafeWhen, SafeConcat DEF re_hw_init
<1>9. Safe(re_hw_start_unlock) /\ Safe(re_hw_start_unlock_8125)
  <2>1. /\ <<"cfg", "gateOpen">> \in Seq(Guards \cup {"gateOpen"})
        /\ <<"enable", "accept">> \in Seq(StopOps \cup MainOps)
        /\ <<"accept", "enable">> \in Seq(StopOps \cup MainOps)
        /\ <<"accept", "enable", "maskOn32">> \in Seq(StopOps \cup MainOps)
    BY DEF Guards, MainOps
  <2>2. /\ Safe(<<"enable", "accept">>) /\ Safe(<<"accept", "enable">>)
        /\ Safe(<<"accept", "enable", "maskOn32">>) /\ Safe(<<"maskOn16">>)
    BY <1>1, <2>1, SafePlain DEF MainOps
  <2>3. Safe(Unlocked(When(re_type \in Since8168E \cup Since8168G, <<"aspmOff">>)
                      \o When(macver \in StartConfigures, <<"cfg">>)
                      \o When(macver \in StartOpensGate, <<"gateOpen">>)
                      \o When(re_type \in LeavesL23, <<"cfg">>)
                      \o When(re_type \in Since8168E \cup Since8168G, <<"aspmOn">>)))
    BY <1>2, WhenSeq, ConcatSeq, SafeUnlocked DEF Guards
  <2>4. Safe(re_hw_start_unlock)
    BY <2>2, <2>3, SafeConcat DEF re_hw_start_unlock
  <2>5. \A c : Safe(Unlocked(<<"aspmOff">> \o When(c, <<"cfg", "gateOpen">>) \o <<"aspmOn">>))
    <3>1. \A c : <<"aspmOff">> \o When(c, <<"cfg", "gateOpen">>) \o <<"aspmOn">>
                    \in Seq(Guards \cup {"gateOpen"})
      BY <1>2, <2>1, WhenSeq, ConcatSeq DEF Guards
    <3> QED
      BY <3>1, SafeUnlocked
  <2>6. Safe(re_hw_start_unlock_8125)
    BY <2>2, <2>5, SafeConcat DEF re_hw_start_unlock_8125
  <2> QED
    BY <2>4, <2>6
<1>10. Safe(RtlResetLink)
  BY <1>3, <1>4, <1>9, SafeConcat DEF RtlResetLink
<1>11. Safe(TakeOver)
  <2>1. Safe(<<"phy">>)
    BY <1>1 DEF MainOps
  <2> QED
    BY <1>3, <1>7, <1>8, <2>1, SafeConcat DEF TakeOver
<1>12. Safe(<<"rxcfg">> \o TakeOver)
  <2>1. Safe(<<"rxcfg">>)
    BY <1>1 DEF MainOps
  <2> QED
    BY <1>11, <2>1, SafeConcat
<1> QED
  BY <1>3, <1>4, <1>7, <1>8, <1>10, <1>11, <1>12
-----------------------------------------------------------------------------
(* The registers are locked whenever one is not meant to be written. *)

GuardInv ==
    /\ todo \in [Threads -> Seq(Ops)] /\ todo["cancel"] \in Seq(StopOps)
    /\ chip \in Chip /\ lost = FALSE
    /\ GuardedNow(todo["main"], chip.open)

\* The versions of the PHY's programs are numbers.
LEMMA RamCodeNat == re_sw_ram_code_ver \in Nat
<1>1. \A r \in SwRamCode : r[2] \in Nat
  BY DEF SwRamCode
<1> QED
  BY <1>1 DEF re_sw_ram_code_ver

\* What an access leaves of the registers.
LEMMA AfterAccess ==
    ASSUME NEW op \in Ops, NEW c \in Chip, NEW d \in After(op, c)
    PROVE  /\ d \in Chip
           /\ d.open = (IF op = "unlock" THEN TRUE ELSE IF op = "lock" THEN FALSE
                        ELSE c.open)
           /\ d.enabled => c.enabled \/ op = "enable"
           /\ op = "reset" => ~d.enabled
           /\ d.mask => c.mask \/ op \in {"maskOn16", "maskOn32"}
           /\ op = (IF re_type \in Since8125 THEN "maskOff32" ELSE "maskOff16") => ~d.mask
<1>1. CASE op \in StopOps
  <2>1. CASE op = "reset"
    <3>1. PICK m \in BOOLEAN :
             /\ m => c.mask
             /\ d = [c EXCEPT !.enabled = FALSE, !.stop = FALSE, !.idle = TRUE, !.mask = m]
      BY <2>1 DEF After, Chip
    <3> QED
      BY <2>1, <3>1 DEF Chip
  <2>2. CASE op \in {"noAccept", "stopReq", "awaitIdle"}
    BY <2>2 DEF After, Chip
  <2>3. CASE op \in {"maskOff16", "maskOff32"}
    BY <2>3 DEF After, Chip
  <2> QED
    BY <1>1, <2>1, <2>2, <2>3 DEF StopOps
<1>2. CASE op \in Guards \cup {"unlock"}
  BY <1>2 DEF Guards, After, Chip
<1>3. CASE op \in MainOps \ {"phy"}
  <2>1. CASE op \in {"lock", "accept", "trOff", "enable"}
    BY <2>1 DEF After, Chip
  <2>2. CASE op \in {"maskOn16", "maskOn32"}
    BY <2>2 DEF After, Chip
  <2>3. CASE op \in {"gateShut", "gateOpen", "oobOff", "rxcfg"}
    BY <2>3 DEF After, Chip
  <2> QED
    BY <1>3, <2>1, <2>2, <2>3 DEF MainOps
<1>4. CASE op = "phy"
  <2>1. d = re_hw_phy_config(c) \/ (re_type \in ChecksRam /\ d = c)
    BY <1>4 DEF After
  <2>2. re_hw_phy_config(c) \in Chip
    BY RamCodeNat DEF re_hw_phy_config, Chip
  <2>3. /\ re_hw_phy_config(c).open = c.open /\ re_hw_phy_config(c).mask = c.mask
        /\ re_hw_phy_config(c).enabled = c.enabled
    BY DEF re_hw_phy_config, Chip
  <2> QED
    BY <1>4, <2>1, <2>2, <2>3
<1> QED
  BY <1>1, <1>2, <1>3, <1>4 DEF Ops

\* Only re_hw_phy_config touches the PHY's program.
LEMMA AfterProgram ==
    ASSUME NEW op \in Ops, NEW c \in Chip, NEW d \in After(op, c)
    PROVE  IF op = "phy" THEN d = re_hw_phy_config(c) \/ (re_type \in ChecksRam /\ d = c)
                         ELSE d.ram = c.ram /\ d.loaded = c.loaded
<1>1. CASE op = "phy"
  BY <1>1 DEF After
<1>2. CASE op = "reset"
  <2>1. PICK m : d = [c EXCEPT !.enabled = FALSE, !.stop = FALSE, !.idle = TRUE, !.mask = m]
    BY <1>2 DEF After, Chip
  <2> QED
    BY <1>2, <2>1 DEF Chip
<1>3. CASE op \in StopOps \ {"reset"}
  BY <1>3 DEF StopOps, After, Chip
<1>4. CASE op \in Guards \cup {"unlock"}
  BY <1>4 DEF Guards, After, Chip
<1>5. CASE op \in MainOps \ {"phy"}
  <2>1. CASE op \in {"lock", "accept", "trOff", "enable"}
    BY <2>1 DEF After, Chip
  <2>2. CASE op \in {"maskOn16", "maskOn32"}
    BY <2>2 DEF After, Chip
  <2>3. CASE op \in {"gateShut", "gateOpen", "oobOff", "rxcfg"}
    BY <2>3 DEF After, Chip
  <2> QED
    BY <1>5, <2>1, <2>2, <2>3 DEF MainOps
<1> QED
  BY <1>1, <1>2, <1>3, <1>4, <1>5 DEF Ops

\* A chip that comes to power has its registers locked.
LEMMA PowerOnChip ==
    \A c \in PowerOn : /\ c \in Chip /\ ~c.open /\ ~c.enabled /\ ~c.mask
                       /\ c.ram = 0 /\ ~c.loaded
<1> SUFFICES ASSUME NEW c \in PowerOn
             PROVE  /\ c \in Chip /\ ~c.open /\ ~c.enabled /\ ~c.mask
                    /\ c.ram = 0 /\ ~c.loaded
  OBVIOUS
<1>1. c \in [open: {FALSE}, aspm: BOOLEAN, gate: BOOLEAN, oob: BOOLEAN,
             stop: {FALSE}, enabled: {FALSE}, accept: {FALSE}, idle: {TRUE},
             rxcfg: {FALSE}, mask: {FALSE}, ram: {0}, loaded: {FALSE}]
  BY DEF PowerOn
<1>2. c \in Chip
  <2>1. {FALSE} \subseteq BOOLEAN /\ {TRUE} \subseteq BOOLEAN /\ {0} \subseteq Nat
    OBVIOUS
  <2> QED
    BY <1>1, <2>1, Zenon DEF Chip
<1> QED
  BY <1>1, <1>2

LEMMA InitGuard == Init => GuardInv
<1> SUFFICES ASSUME Init PROVE GuardInv
  OBVIOUS
<1>1. todo["main"] = << >> /\ todo["cancel"] = << >> /\ todo \in [Threads -> Seq(Ops)]
  BY DEF Init, Threads
<1>2. chip \in Chip /\ chip.open = FALSE /\ lost = FALSE
  BY PowerOnChip DEF Init, Chip
<1>3. << >> \in Seq(StopOps)
  OBVIOUS
<1>4. GuardedNow(<< >>, chip.open)
  <2>1. chip.open \in BOOLEAN /\ ~chip.open
    BY <1>2 DEF Chip
  <2> QED
    BY <2>1, GuardedStart
<1> QED
  BY <1>1, <1>2, <1>3, <1>4 DEF GuardInv

\* A callback that begins a function finds the registers locked, and so begins it.
LEMMA GuardBegin ==
    ASSUME GuardInv, NEW ops, Safe(ops), Idle("main"), Begin(ops), lost' = lost,
           chip' \in Chip, ~chip'.open \/ chip'.open = chip.open
    PROVE  GuardInv'
<1>1. todo'["main"] = ops /\ todo'["cancel"] = todo["cancel"] /\ todo' \in [Threads -> Seq(Ops)]
  BY DEF GuardInv, Begin, Safe, Threads
<1>2. chip.open \in BOOLEAN /\ chip'.open \in BOOLEAN
  BY DEF GuardInv, Chip
<1>3. ~chip.open
  BY <1>2, GuardedStart DEF GuardInv, Idle
<1>4. GuardedNow(ops, chip'.open)
  <2>1. chip'.open = FALSE
    BY <1>2, <1>3
  <2>2. GuardedNow(ops, FALSE)
    BY GuardedStart DEF Safe
  <2> QED
    BY <2>1, <2>2
<1> QED
  BY <1>1, <1>4 DEF GuardInv

\* An access is made with the registers as it needs them.
LEMMA GuardStep == ASSUME GuardInv, NEW t \in Threads, Step(t) PROVE GuardInv'
<1> DEFINE s == todo[t]
           op == Head(s)
<1>1. s \in Seq(Ops) /\ s # << >> /\ op \in Ops /\ Tail(s) \in Seq(Ops)
  BY DEF GuardInv, Step
<1>2. /\ chip \in Chip /\ chip' \in After(op, chip) /\ todo' = [todo EXCEPT ![t] = Tail(@)]
      /\ lost' = (lost \/ (op \in {"cfg", "aspmOff", "aspmOn"} /\ ~chip.open))
  BY DEF GuardInv, Step
<1>3. /\ chip' \in Chip /\ chip.open \in BOOLEAN
      /\ chip'.open = IF op = "unlock" THEN TRUE ELSE IF op = "lock" THEN FALSE ELSE chip.open
  BY <1>1, <1>2, AfterAccess DEF Chip
<1>4. todo' \in [Threads -> Seq(Ops)] /\ todo'[t] = Tail(s)
  BY <1>1, <1>2 DEF GuardInv
<1>5. CASE t = "main"
  <2>1. todo'["cancel"] = todo["cancel"]
    BY <1>2, <1>5 DEF GuardInv, Threads
  <2>2. GuardedNow(s, chip.open)
    BY <1>5 DEF GuardInv
  <2> HIDE DEF s
  <2>3. GuardedNow(Tail(s), chip'.open) /\ (op \in Guards => chip.open)
    BY <1>1, <1>3, <2>2, GuardedTail
  <2>4. lost' = FALSE
    BY <1>2, <2>3 DEF GuardInv, Guards
  <2> QED
    BY <1>3, <1>4, <1>5, <2>1, <2>3, <2>4 DEF GuardInv
<1>6. CASE t = "cancel"
  <2>1. s \in Seq(StopOps)
    BY <1>6 DEF GuardInv
  <2>2. Tail(s) \in Seq(StopOps) /\ op \in StopOps
    BY <1>1, <2>1
  <2>3. todo'["main"] = todo["main"]
    BY <1>2, <1>6 DEF GuardInv, Threads
  <2>4. chip'.open = chip.open /\ lost' = FALSE
    BY <1>2, <1>3, <2>2 DEF StopOps, GuardInv
  <2> QED
    BY <1>3, <1>4, <1>6, <2>2, <2>3, <2>4 DEF GuardInv
<1> QED
  BY <1>5, <1>6 DEF Threads

LEMMA NextGuard == GuardInv /\ [Next]_vars => GuardInv'
<1> SUFFICES ASSUME GuardInv, [Next]_vars PROVE GuardInv'
  OBVIOUS
<1>1. CASE \E t \in Threads : Step(t)
  BY <1>1, GuardStep
<1>2. CASE EvtDevicePrepareHardware
  <2>1. CASE Known = {}
    BY <1>2, <2>1 DEF EvtDevicePrepareHardware, GuardInv
  <2>2. CASE Known # {}
    <3>1. Begin(<<"rxcfg">> \o TakeOver) /\ UNCHANGED <<chip, lost>> /\ Idle("main")
      BY <1>2, <2>2 DEF EvtDevicePrepareHardware
    <3> QED
      BY <3>1, FunctionsSafe, GuardBegin DEF GuardInv
  <2> QED
    BY <2>1, <2>2
<1>3. CASE RtlFirstStart \/ LinkChange
  <2>1. Begin(RtlResetLink) /\ UNCHANGED <<chip, lost>> /\ Idle("main")
    BY <1>3 DEF RtlFirstStart, LinkChange
  <2> QED
    BY <2>1, FunctionsSafe, GuardBegin DEF GuardInv
<1>4. CASE EvtRxQueueCancel
  <2>1. todo' = [todo EXCEPT !["cancel"] = re_stop] /\ UNCHANGED <<chip, lost>>
    BY <1>4 DEF EvtRxQueueCancel
  <2>2. /\ todo' \in [Threads -> Seq(Ops)] /\ todo'["cancel"] = re_stop
        /\ todo'["main"] = todo["main"]
    BY <2>1, FunctionsSafe DEF GuardInv, Threads, Safe
  <2> QED
    BY <2>1, <2>2, StopPlain DEF GuardInv
<1>5. CASE EvtSetReceiveFilter \/ Transmit \/ Drain
  <2>1. chip' \in Chip /\ chip'.open = chip.open /\ UNCHANGED <<todo, lost>>
    BY <1>5 DEF EvtSetReceiveFilter, Transmit, Drain, GuardInv, Chip
  <2> QED
    BY <2>1 DEF GuardInv
<1>6. CASE Sleep
  <2>1. Begin(re_stop) /\ UNCHANGED <<chip, lost>> /\ Idle("main")
    BY <1>6 DEF Sleep
  <2> QED
    BY <2>1, FunctionsSafe, GuardBegin DEF GuardInv
<1>7. CASE EvtDeviceD0Entry
  <2>1. Begin(TakeOver) /\ lost' = lost /\ Idle("main")
    BY <1>7 DEF EvtDeviceD0Entry
  <2>2. chip' = chip \/ chip' \in PowerOn
    BY <1>7 DEF EvtDeviceD0Entry
  <2>3. chip' \in Chip /\ (~chip'.open \/ chip'.open = chip.open)
    BY <2>2, PowerOnChip DEF GuardInv
  <2> QED
    BY <2>1, <2>3, FunctionsSafe, GuardBegin
<1>8. CASE FinalExit
  <2>1. Begin(re_rar_set) /\ UNCHANGED <<chip, lost>> /\ Idle("main")
    BY <1>8 DEF FinalExit
  <2> QED
    BY <2>1, FunctionsSafe, GuardBegin DEF GuardInv
<1>9. CASE UNCHANGED vars
  BY <1>9 DEF vars, GuardInv
<1> QED
  BY <1>1, <1>2, <1>3, <1>4, <1>5, <1>6, <1>7, <1>8, <1>9 DEF Next

LEMMA GuardKept == Spec => []GuardInv
  BY InitGuard, NextGuard, PTL DEF Spec

\* ConfigGuarded: each of the functions of if_re.c unlocks CFG9346 before it writes a
\* configuration register, for every chip type, and re_stop, which a cancel runs in
\* between, neither locks nor unlocks.
THEOREM RegistersGuarded == Spec => []ConfigGuarded
<1>1. ASSUME GuardInv PROVE ConfigGuarded
  <2>1. chip.open \in BOOLEAN
    BY <1>1 DEF GuardInv, Chip
  <2> QED
    BY <1>1, <2>1, GuardedStart DEF GuardInv, ConfigGuarded, AtRest, Idle
<1> QED
  BY <1>1, GuardKept, PTL
-----------------------------------------------------------------------------
(* What a function that has come back must have done. *)

Has(s, op) == \E k \in 1 .. Len(s) : s[k] = op

LEMMA HasConcat ==
    ASSUME NEW s \in Seq(Ops), NEW t \in Seq(Ops), NEW op
    PROVE  Has(s \o t, op) <=> Has(s, op) \/ Has(t, op)
<1> DEFINE u == s \o t
<1>1. /\ Len(u) = Len(s) + Len(t) /\ Len(s) \in Nat /\ Len(t) \in Nat
      /\ \A k \in 1 .. Len(s) : u[k] = s[k]
      /\ \A k \in 1 .. Len(t) : u[Len(s) + k] = t[k]
      /\ \A k \in 1 .. Len(u) : k > Len(s) => u[k] = t[k - Len(s)]
  OBVIOUS
<1> HIDE DEF u
<1>2. ASSUME Has(s, op) PROVE Has(u, op)
  BY <1>1, <1>2 DEF Has
<1>3. ASSUME Has(t, op) PROVE Has(u, op)
  <2>1. PICK k \in 1 .. Len(t) : t[k] = op
    BY <1>3 DEF Has
  <2>2. Len(s) + k \in 1 .. Len(u) /\ u[Len(s) + k] = op
    BY <1>1, <2>1
  <2> QED
    BY <2>2 DEF Has
<1>4. ASSUME Has(u, op) PROVE Has(s, op) \/ Has(t, op)
  <2>1. PICK k \in 1 .. Len(u) : u[k] = op
    BY <1>4 DEF Has
  <2>2. CASE k <= Len(s)
    <3>1. k \in 1 .. Len(s) /\ s[k] = op
      BY <1>1, <2>1, <2>2
    <3> QED
      BY <3>1 DEF Has
  <2>3. CASE k > Len(s)
    <3>1. k - Len(s) \in 1 .. Len(t) /\ t[k - Len(s)] = op
      BY <1>1, <2>1, <2>3
    <3> QED
      BY <3>1 DEF Has
  <2> QED
    BY <1>1, <2>1, <2>2, <2>3
<1> QED
  BY <1>2, <1>3, <1>4 DEF u

LEMMA HasTail ==
    ASSUME NEW s \in Seq(Ops), s # << >>, NEW op, Has(s, op)
    PROVE  Head(s) = op \/ Has(Tail(s), op)
<1>1. PICK k \in 1 .. Len(s) : s[k] = op
  BY DEF Has
<1>2. CASE k = 1
  BY <1>1, <1>2
<1>3. CASE k # 1
  <2> DEFINE t == Tail(s)
  <2>1. k - 1 \in 1 .. Len(t) /\ t[k - 1] = op
    BY <1>1, <1>3
  <2> HIDE DEF t
  <2>2. Has(t, op)
    BY <2>1 DEF Has
  <2> QED
    BY <2>2 DEF t
<1> QED
  BY <1>2, <1>3

LEMMA HasNone == \A op : ~Has(<< >>, op)
  BY DEF Has

\* Where this chip has its interrupt mask.
MaskOff == IF re_type \in Since8125 THEN "maskOff32" ELSE "maskOff16"

\* re_stop masks the interrupts where this chip has its mask, and resets it.
LEMMA StopDoes == Has(re_stop, MaskOff) /\ Has(re_stop, "reset")
<1> DEFINE first == <<"noAccept", MaskOff>>
<1>1. first \in Seq(Ops) /\ Has(first, MaskOff)
  <2>1. first \in Seq(Ops) /\ Len(first) = 2 /\ first[2] = MaskOff
    BY DEF Ops, StopOps, MaskOff
  <2> HIDE DEF first
  <2> QED
    BY <2>1 DEF Has
<1>2. re_stop = first \o re_reset
  BY DEF re_stop, MaskOff
<1> HIDE DEF first
<1>3. re_reset \in Seq(Ops) /\ Has(re_reset, "reset")
  <2>1. /\ <<"noAccept">> \in Seq(Ops) /\ <<"stopReq">> \in Seq(Ops)
        /\ <<"awaitIdle">> \in Seq(Ops) /\ <<"reset">> \in Seq(Ops)
    BY DEF Ops, StopOps
  <2>2. \A c : When(c, <<"stopReq">>) \in Seq(Ops) /\ When(c, <<"awaitIdle">>) \in Seq(Ops)
    BY <2>1, WhenSeq
  <2>3. Has(<<"reset">>, "reset")
    BY DEF Has
  <2>4. \A b, c : Has(<<"noAccept">> \o When(b, <<"stopReq">>) \o When(c, <<"awaitIdle">>)
                        \o <<"reset">>, "reset")
    BY <2>1, <2>2, <2>3, ConcatSeq, HasConcat
  <2> QED
    BY <2>4, StopPlain DEF re_reset, Ops
<1> QED
  BY <1>1, <1>2, <1>3, HasConcat

\* re_hw_phy_config is the last thing of taking the chip over.
LEMMA TakeOverDoes == Has(TakeOver, "phy") /\ Has(<<"rxcfg">> \o TakeOver, "phy")
<1> DEFINE rest == re_exit_oob \o re_hw_init \o re_reset
<1>1. <<"phy">> \in Seq(Ops) /\ <<"rxcfg">> \in Seq(Ops) /\ Has(<<"phy">>, "phy")
  BY DEF Ops, MainOps, Has
<1>2. TakeOver \in Seq(Ops)
  BY FunctionsSafe DEF Safe
<1>3. rest \in Seq(Ops)
  BY FunctionsSafe, ConcatSeq DEF Safe
<1>4. TakeOver = rest \o <<"phy">>
  BY DEF TakeOver
<1> HIDE DEF rest
<1>5. Has(TakeOver, "phy")
  BY <1>1, <1>3, <1>4, HasConcat
<1> QED
  BY <1>1, <1>2, <1>5, HasConcat
\* The chip stays the chip it is.
LEMMA SameType ==
    ASSUME UNCHANGED <<version, stepping>>
    PROVE  re_type' = re_type /\ MaskOff' = MaskOff
           /\ re_sw_ram_code_ver' = re_sw_ram_code_ver
<1>1. Known' = Known
  BY DEF Known
<1>2. re_type' = re_type
  BY <1>1 DEF re_type
<1> QED
  BY <1>2 DEF MaskOff, re_sw_ram_code_ver

LEMMA TypeKept == [Next]_vars => UNCHANGED <<version, stepping>>
BY DEF Next, vars, Step, EvtDevicePrepareHardware, RtlFirstStart, LinkChange,
       EvtRxQueueCancel, EvtSetReceiveFilter, Sleep, EvtDeviceD0Entry, FinalExit,
       Transmit, Drain

-----------------------------------------------------------------------------
(* A chip that sleeps is quiet. *)

\* On the way to sleep what is still to be switched off is still to come.
QuietInv ==
    where = "asleep" =>
      /\ Idle("cancel") /\ todo["main"] \in Seq(StopOps)
      /\ Has(todo["main"], "reset") \/ ~chip.enabled
      /\ Has(todo["main"], MaskOff) \/ ~chip.mask

LEMMA NextQuiet == GuardInv /\ QuietInv /\ [Next]_vars => QuietInv'
<1> SUFFICES ASSUME GuardInv, QuietInv, [Next]_vars, where' = "asleep" PROVE QuietInv'
  BY DEF QuietInv
<1>1. MaskOff' = MaskOff
  BY SameType, TypeKept
<1>2. ASSUME NEW t \in Threads, Step(t) PROVE QuietInv'
  <2>1. where = "asleep" /\ t = "main"
    BY <1>2 DEF Step, QuietInv, Idle, Threads
  <2> DEFINE s == todo["main"]
  <2>2. /\ s \in Seq(StopOps) /\ s # << >> /\ chip \in Chip
        /\ chip' \in After(Head(s), chip) /\ todo'["main"] = Tail(s)
        /\ todo'["cancel"] = todo["cancel"]
    BY <1>2, <2>1 DEF Step, QuietInv, GuardInv, Threads
  <2> HIDE DEF s
  <2>3. s \in Seq(Ops) /\ Head(s) \in StopOps /\ Head(s) \in Ops /\ Tail(s) \in Seq(StopOps)
    BY <2>2 DEF Ops
  <2>4. Head(s) \notin {"enable", "maskOn16", "maskOn32"}
    BY <2>3 DEF StopOps
  <2>5. /\ chip'.enabled => chip.enabled
        /\ chip'.mask => chip.mask
        /\ Head(s) = "reset" => ~chip'.enabled
        /\ Head(s) = MaskOff => ~chip'.mask
    BY <2>2, <2>3, <2>4, AfterAccess DEF MaskOff
  <2>6. Has(s, "reset") \/ ~chip.enabled
    BY <2>1 DEF QuietInv, s
  <2>7. Has(s, MaskOff) \/ ~chip.mask
    BY <2>1 DEF QuietInv, s
  <2>8. Has(Tail(s), "reset") \/ ~chip'.enabled
    BY <2>2, <2>3, <2>5, <2>6, HasTail
  <2>9. Has(Tail(s), MaskOff) \/ ~chip'.mask
    BY <2>2, <2>3, <2>5, <2>7, HasTail
  <2>10. todo'["cancel"] = << >>
    BY <2>1, <2>2 DEF QuietInv, Idle
  <2> QED
    BY <1>1, <2>2, <2>3, <2>8, <2>9, <2>10 DEF QuietInv, Idle
<1>3. CASE Sleep
  <2>1. todo'["main"] = re_stop /\ todo'["cancel"] = << >>
    BY <1>3 DEF Sleep, Begin, Idle, GuardInv, Threads
  <2> QED
    BY <1>1, <2>1, StopPlain, StopDoes DEF QuietInv, Idle
<1>4. CASE Transmit \/ Drain
  <2>1. /\ where = "asleep" /\ todo' = todo /\ chip'.enabled = chip.enabled
        /\ chip'.mask = chip.mask
    BY <1>4 DEF Transmit, Drain, GuardInv, Chip
  <2> QED
    BY <1>1, <2>1 DEF QuietInv, Idle
<1>5. CASE UNCHANGED vars
  <2>1. UNCHANGED <<where, todo, chip>>
    BY <1>5 DEF vars
  <2> QED
    BY <1>1, <2>1 DEF QuietInv, Idle
<1>6. CASE EvtDevicePrepareHardware \/ RtlFirstStart \/ LinkChange \/ EvtRxQueueCancel
           \/ EvtSetReceiveFilter \/ EvtDeviceD0Entry \/ FinalExit
  BY <1>6 DEF EvtDevicePrepareHardware, RtlFirstStart, LinkChange, EvtRxQueueCancel,
              EvtSetReceiveFilter, EvtDeviceD0Entry, FinalExit
<1> QED
  BY <1>2, <1>3, <1>4, <1>5, <1>6 DEF Next

\* QuietAsleep: re_stop masks the interrupts of this chip, in the register it has them
\* in, and resets the transmitter and receiver; nothing turns them on again.
THEOREM AsleepQuiet == Spec => []QuietAsleep
<1>1. Init => QuietInv
  BY DEF Init, QuietInv
<1>2. ASSUME QuietInv PROVE QuietAsleep
  BY <1>2, HasNone DEF QuietInv, QuietAsleep, AtRest, Idle
<1> QED
  BY <1>1, <1>2, NextQuiet, GuardKept, PTL DEF Spec

-----------------------------------------------------------------------------
(* A chip with a program runs with it. *)

\* The version in the PHY is the driver's only if the program is there, and where the
\* program is not there, loading it is still to come.
ProgramInv ==
    re_type \in HasProgram \ ChecksRam =>
      /\ re_type \in KeepsRamCodeVer /\ chip.ram = re_sw_ram_code_ver => chip.loaded
      /\ where = "up" => chip.loaded \/ Has(todo["main"], "phy")
      /\ where = "running" => chip.loaded

\* A chip with a program has a version that is not that of a PHY without power.
LEMMA VersionNotZero == re_type \in HasProgram => re_sw_ram_code_ver # 0
<1> SUFFICES ASSUME re_type \in HasProgram PROVE re_sw_ram_code_ver # 0
  OBVIOUS
<1>1. PICK k : k = re_type
  OBVIOUS
<1>2. k \in HasProgram
  BY <1>1
<1>3. \E r \in SwRamCode : r[1] = k
  BY <1>2 DEF HasProgram, SwRamCode
<1>4. \A r \in SwRamCode : r[2] = 0 => r[1] = 75
  BY DEF SwRamCode
<1>5. k # 75
  BY <1>2 DEF HasProgram
<1> QED
  BY <1>1, <1>3, <1>4, <1>5 DEF re_sw_ram_code_ver

\* re_hw_phy_config leaves the program in the PHY.
LEMMA ProgramLoaded ==
    ASSUME NEW c \in Chip, re_type \in HasProgram,
           re_type \in KeepsRamCodeVer /\ c.ram = re_sw_ram_code_ver => c.loaded
    PROVE  re_hw_phy_config(c).loaded
BY DEF re_hw_phy_config, Chip

LEMMA NextProgram == GuardInv /\ ProgramInv /\ [Next]_vars => ProgramInv'
<1> SUFFICES ASSUME GuardInv, ProgramInv, [Next]_vars, re_type \in HasProgram \ ChecksRam
             PROVE  ProgramInv'
  BY SameType, TypeKept DEF ProgramInv
<1>1. re_type' = re_type /\ re_sw_ram_code_ver' = re_sw_ram_code_ver
  BY SameType, TypeKept
<1>2. ASSUME NEW t \in Threads, Step(t) PROVE ProgramInv'
  <2> DEFINE s == todo[t]
             op == Head(s)
  <2>1. /\ s \in Seq(Ops) /\ s # << >> /\ op \in Ops /\ chip \in Chip
        /\ chip' \in After(op, chip) /\ todo'[t] = Tail(s) /\ where' = where
        /\ \A u \in Threads : u # t => todo'[u] = todo[u]
    BY <1>2 DEF Step, GuardInv
  <2> HIDE DEF op
  <2>2. /\ op # "phy" => chip'.ram = chip.ram /\ chip'.loaded = chip.loaded
        /\ op = "phy" => chip' = re_hw_phy_config(chip)
    <3>1. op \in Ops /\ chip \in Chip /\ chip' \in After(op, chip)
      BY <2>1
    <3> HIDE DEF s
    <3> QED
      BY <3>1, AfterProgram
  <2>3. CASE op = "phy"
    <3>1. chip' = re_hw_phy_config(chip)
      BY <2>2, <2>3
    <3>2. chip'.loaded
      BY <2>1, <3>1, ProgramLoaded DEF ProgramInv
    <3> QED
      BY <3>2 DEF ProgramInv
  <2>4. CASE op # "phy"
    <3>1. chip'.ram = chip.ram /\ chip'.loaded = chip.loaded
      BY <2>2, <2>4
    <3>2. Has(todo["main"], "phy") => Has(todo'["main"], "phy")
      <4>1. CASE t = "main"
        BY <2>1, <2>4, <4>1, HasTail DEF op
      <4>2. CASE t # "main"
        BY <2>1, <4>2 DEF Threads
      <4> QED
        BY <4>1, <4>2
    <3> QED
      BY <1>1, <2>1, <3>1, <3>2 DEF ProgramInv
  <2> QED
    BY <2>3, <2>4
<1>3. CASE EvtDevicePrepareHardware
  <2>1. UNCHANGED chip /\ where' # "running"
    BY <1>3 DEF EvtDevicePrepareHardware
  <2>2. where' = "up" => todo'["main"] = <<"rxcfg">> \o TakeOver
    BY <1>3 DEF EvtDevicePrepareHardware, Begin, GuardInv, Threads
  <2>3. where' = "up" => Has(todo'["main"], "phy")
    BY <2>2, TakeOverDoes
  <2> QED
    BY <1>1, <2>1, <2>3 DEF ProgramInv
<1>4. CASE RtlFirstStart \/ LinkChange
  <2>1. UNCHANGED chip /\ where' = "running" /\ Idle("main") /\ where \in {"up", "running"}
    BY <1>4 DEF RtlFirstStart, LinkChange, QueuesOff
  <2>2. chip.loaded
    BY <2>1, HasNone DEF ProgramInv, Idle
  <2> QED
    BY <2>1, <2>2 DEF ProgramInv
<1>5. CASE EvtRxQueueCancel
  <2>1. UNCHANGED <<chip, where>> /\ where = "running"
    BY <1>5 DEF EvtRxQueueCancel
  <2> QED
    BY <1>1, <2>1 DEF ProgramInv
<1>6. CASE EvtSetReceiveFilter \/ Transmit \/ Drain \/ UNCHANGED vars
  <2>1. UNCHANGED <<where, todo>> /\ chip'.ram = chip.ram /\ chip'.loaded = chip.loaded
    BY <1>6 DEF EvtSetReceiveFilter, Transmit, Drain, vars, GuardInv, Chip
  <2> QED
    BY <1>1, <2>1 DEF ProgramInv
<1>7. CASE Sleep \/ FinalExit
  <2>1. UNCHANGED chip /\ where' \in {"asleep", "out"}
    BY <1>7 DEF Sleep, FinalExit
  <2> QED
    BY <1>1, <2>1 DEF ProgramInv
<1>8. CASE EvtDeviceD0Entry
  <2>1. where' = "up" /\ todo'["main"] = TakeOver
    BY <1>8 DEF EvtDeviceD0Entry, Begin, GuardInv, Threads
  <2>2. Has(todo'["main"], "phy")
    BY <2>1, TakeOverDoes
  <2>3. chip' = chip \/ chip'.ram = 0
    BY <1>8, PowerOnChip DEF EvtDeviceD0Entry
  <2> QED
    BY <1>1, <2>1, <2>2, <2>3, VersionNotZero DEF ProgramInv
<1> QED
  BY <1>2, <1>3, <1>4, <1>5, <1>6, <1>7, <1>8 DEF Next

\* ProgrammedWhenUp: the tables of versions and of programs agree on every chip type, so
\* a PHY that lost its program in a low-power state is never taken for one that has it.
THEOREM RunsWithProgram == Spec => []ProgrammedWhenUp
<1>1. Init => ProgramInv
  <2> SUFFICES ASSUME Init PROVE ProgramInv
    OBVIOUS
  <2>1. chip.ram = 0 /\ where = "out"
    BY PowerOnChip DEF Init
  <2> QED
    BY <2>1, VersionNotZero DEF ProgramInv
<1>2. ASSUME ProgramInv PROVE ProgrammedWhenUp
  BY <1>2, HasNone DEF ProgramInv, ProgrammedWhenUp, AtRest, Idle
<1> QED
  BY <1>1, <1>2, NextProgram, GuardKept, PTL DEF Spec
-----------------------------------------------------------------------------
(* A chip that was started has everything on again. *)

\* With s still to be done, and cur the state now, the last access of s that turns a
\* thing on or off turns it on.
LeftOn(s, on, off, cur) ==
    \/ \E j \in 1 .. Len(s) : s[j] \in on /\ \A m \in j + 1 .. Len(s) : s[m] \notin off
    \/ cur /\ \A m \in 1 .. Len(s) : s[m] \notin off

LEMMA LeftNone == \A on, off : \A cur \in BOOLEAN : LeftOn(<< >>, on, off, cur) <=> cur
  BY DEF LeftOn

\* An access that turns the thing on, or leaves it on, brings that state about.
LEMMA LeftTail ==
    ASSUME NEW s \in Seq(Ops), s # << >>, NEW on, NEW off, NEW cur \in BOOLEAN,
           NEW now \in BOOLEAN, LeftOn(s, on, off, cur),
           Head(s) \in on \/ (cur /\ Head(s) \notin off) => now
    PROVE  LeftOn(Tail(s), on, off, now)
<1> DEFINE t == Tail(s)
<1>1. /\ Head(s) = s[1] /\ Len(t) = Len(s) - 1 /\ Len(s) \in Nat \ {0}
      /\ \A k \in 1 .. Len(t) : t[k] = s[k + 1]
  OBVIOUS
<1> HIDE DEF t
<1>2. ASSUME NEW j \in 1 .. Len(s), s[j] \in on, \A m \in j + 1 .. Len(s) : s[m] \notin off
      PROVE  LeftOn(t, on, off, now)
  <2>1. CASE j = 1
    <3>1. \A m \in 1 .. Len(t) : t[m] \notin off
      BY <1>1, <1>2, <2>1
    <3> QED
      BY <1>1, <1>2, <2>1, <3>1 DEF LeftOn
  <2>2. CASE j # 1
    <3>1. j - 1 \in 1 .. Len(t) /\ t[j - 1] \in on
      BY <1>1, <1>2, <2>2
    <3>2. \A m \in (j - 1) + 1 .. Len(t) : t[m] \notin off
      <4> TAKE m \in (j - 1) + 1 .. Len(t)
      <4>1. m + 1 \in j + 1 .. Len(s) /\ m \in 1 .. Len(t)
        BY <1>1, <2>2
      <4> QED
        BY <1>1, <1>2, <4>1
    <3> QED
      BY <3>1, <3>2 DEF LeftOn
  <2> QED
    BY <2>1, <2>2
<1>3. ASSUME cur, \A m \in 1 .. Len(s) : s[m] \notin off PROVE LeftOn(t, on, off, now)
  <2>1. now
    BY <1>1, <1>3
  <2>2. \A m \in 1 .. Len(t) : t[m] \notin off
    BY <1>1, <1>3
  <2> QED
    BY <2>1, <2>2 DEF LeftOn
<1> QED
  BY <1>2, <1>3 DEF LeftOn, t

\* What comes before does not matter, nor what comes after and turns nothing off.
LEMMA LeftConcat ==
    ASSUME NEW s \in Seq(Ops), NEW t \in Seq(Ops), NEW on, NEW off, NEW cur,
           LeftOn(t, on, off, FALSE)
    PROVE  LeftOn(s \o t, on, off, cur)
<1> DEFINE u == s \o t
<1>1. /\ Len(u) = Len(s) + Len(t) /\ Len(s) \in Nat /\ Len(t) \in Nat
      /\ \A k \in 1 .. Len(t) : u[Len(s) + k] = t[k]
  OBVIOUS
<1> HIDE DEF u
<1>2. PICK j \in 1 .. Len(t) : t[j] \in on /\ \A m \in j + 1 .. Len(t) : t[m] \notin off
  BY DEF LeftOn
<1>3. Len(s) + j \in 1 .. Len(u) /\ u[Len(s) + j] \in on
  BY <1>1, <1>2
<1>4. \A m \in Len(s) + j + 1 .. Len(u) : u[m] \notin off
  <2> TAKE m \in Len(s) + j + 1 .. Len(u)
  <2>1. m - Len(s) \in j + 1 .. Len(t) /\ m - Len(s) \in 1 .. Len(t)
    BY <1>1, <1>2
  <2>2. u[Len(s) + (m - Len(s))] = t[m - Len(s)] /\ Len(s) + (m - Len(s)) = m
    BY <1>1, <2>1
  <2> QED
    BY <1>2, <2>1, <2>2
<1> QED
  BY <1>3, <1>4 DEF LeftOn, u

LEMMA LeftBefore ==
    ASSUME NEW s \in Seq(Ops), NEW t \in Seq(Ops), NEW on, NEW off, NEW cur,
           LeftOn(s, on, off, cur), \A m \in 1 .. Len(t) : t[m] \notin off
    PROVE  LeftOn(s \o t, on, off, cur)
<1> DEFINE u == s \o t
<1>1. /\ Len(u) = Len(s) + Len(t) /\ Len(s) \in Nat /\ Len(t) \in Nat
      /\ \A k \in 1 .. Len(s) : u[k] = s[k]
      /\ \A k \in 1 .. Len(u) : k > Len(s) => u[k] = t[k - Len(s)]
  OBVIOUS
<1> HIDE DEF u
<1>2. \A k \in 1 .. Len(u) : k > Len(s) => u[k] \notin off
  <2> TAKE k \in 1 .. Len(u)
  <2>1. k > Len(s) => k - Len(s) \in 1 .. Len(t)
    BY <1>1
  <2> QED
    BY <1>1, <2>1
<1>3. ASSUME NEW j \in 1 .. Len(s), s[j] \in on, \A m \in j + 1 .. Len(s) : s[m] \notin off
      PROVE  LeftOn(u, on, off, cur)
  <2>1. j \in 1 .. Len(u) /\ u[j] \in on
    BY <1>1, <1>3
  <2>2. \A m \in j + 1 .. Len(u) : u[m] \notin off
    BY <1>1, <1>2, <1>3
  <2> QED
    BY <2>1, <2>2 DEF LeftOn
<1>4. ASSUME cur, \A m \in 1 .. Len(s) : s[m] \notin off PROVE LeftOn(u, on, off, cur)
  <2>1. \A m \in 1 .. Len(u) : u[m] \notin off
    BY <1>1, <1>2, <1>4
  <2> QED
    BY <1>4, <2>1 DEF LeftOn
<1> QED
  BY <1>3, <1>4 DEF LeftOn, u

\* One access that turns the thing on is enough.
LEMMA LeftOne == ASSUME NEW op, NEW on, NEW off, op \in on PROVE LeftOn(<<op>>, on, off, FALSE)
  BY DEF LeftOn
\* What a chip that runs needs: on, and off, are the accesses that see to it and that
\* undo it.
Switches == {"enabled", "accept", "mask", "stop", "aspm", "gate", "oob", "rxcfg"}

On(f) ==
    CASE f = "enabled" -> {"enable"}
      [] f = "accept"  -> {"accept"}
      [] f = "mask"    -> {IF re_type \in Since8125 THEN "maskOn32" ELSE "maskOn16"}
      [] f = "stop"    -> {"enable", "reset"}
      [] f = "aspm"    -> {"aspmOn"}
      [] f = "gate"    -> {"gateOpen"}
      [] f = "oob"     -> {"oobOff"}
      [] f = "rxcfg"   -> {"rxcfg"}

Off(f) ==
    CASE f = "enabled" -> {"reset", "trOff"}
      [] f = "accept"  -> {"noAccept"}
      [] f = "mask"    -> {MaskOff, "reset"}
      [] f = "stop"    -> {"stopReq"}
      [] f = "aspm"    -> {"aspmOff"}
      [] f = "gate"    -> {"gateShut"}
      [] f \in {"oob", "rxcfg"} -> {}

Is(c, f) ==
    CASE f = "enabled" -> c.enabled
      [] f = "accept"  -> c.accept
      [] f = "mask"    -> c.mask
      [] f = "stop"    -> ~c.stop
      [] f = "aspm"    -> c.aspm
      [] f = "gate"    -> ~c.gate
      [] f = "oob"     -> ~c.oob
      [] f = "rxcfg"   -> c.rxcfg

LEMMA IsBoolean == \A c \in Chip : \A f \in Switches : Is(c, f) \in BOOLEAN
<1> SUFFICES ASSUME NEW c \in Chip, NEW f \in Switches PROVE Is(c, f) \in BOOLEAN
  OBVIOUS
<1> QED
  BY DEF Is, Chip, Switches

\* With the registers open where they have to be, an access does what it is for.
LEMMA AfterSwitch ==
    ASSUME NEW op \in Ops, NEW c \in Chip, NEW d \in After(op, c), op \in Guards => c.open,
           NEW f \in Switches, op \in On(f) \/ (Is(c, f) /\ op \notin Off(f))
    PROVE  Is(d, f)
<1>1. CASE op = "reset"
  <2>1. PICK m \in BOOLEAN :
           d = [c EXCEPT !.enabled = FALSE, !.stop = FALSE, !.idle = TRUE, !.mask = m]
    BY <1>1 DEF After, Chip
  <2>2. /\ ~d.stop /\ d.accept = c.accept /\ d.aspm = c.aspm /\ d.gate = c.gate
        /\ d.oob = c.oob /\ d.rxcfg = c.rxcfg
    BY <2>1 DEF Chip
  <2>3. f \notin {"enabled", "mask"}
    BY <1>1 DEF On, Off, MaskOff
  <2>4. CASE f = "stop"
    BY <2>2, <2>4 DEF Is
  <2>5. CASE f \in {"accept", "aspm", "gate", "oob", "rxcfg"}
    <3>1. Is(c, f)
      BY <1>1, <2>5 DEF On
    <3> QED
      BY <2>2, <2>5, <3>1 DEF Is
  <2> QED
    BY <2>3, <2>4, <2>5 DEF Switches
<1>2. CASE op = "phy"
  <2>1. d = re_hw_phy_config(c) \/ d = c
    BY <1>2 DEF After
  <2>2. /\ d.enabled = c.enabled /\ d.accept = c.accept /\ d.mask = c.mask
        /\ d.stop = c.stop /\ d.aspm = c.aspm /\ d.gate = c.gate /\ d.oob = c.oob
        /\ d.rxcfg = c.rxcfg
    BY <2>1 DEF re_hw_phy_config, Chip
  <2>3. op \notin On(f)
    BY <1>2 DEF On, Switches
  <2> QED
    BY <2>2, <2>3 DEF Is, Switches
<1>3. CASE op \in (StopOps \ {"reset"}) \cup Guards \cup {"unlock"} \cup (MainOps \ {"phy"})
  <2>1. CASE op \in {"noAccept", "accept"}
    <3>1. /\ d.enabled = c.enabled /\ d.mask = c.mask /\ d.stop = c.stop /\ d.aspm = c.aspm
          /\ d.gate = c.gate /\ d.oob = c.oob /\ d.rxcfg = c.rxcfg
      BY <2>1 DEF After, Chip
    <3>2. CASE f = "accept"
      BY <2>1, <3>2 DEF After, Chip, Is, On, Off
    <3>3. CASE f # "accept"
      <4>1. op \notin On(f)
        BY <2>1, <3>3 DEF On, Switches
      <4> QED
        BY <3>1, <3>3, <4>1 DEF Is, Switches
    <3> QED
      BY <3>2, <3>3
  <2>2. CASE op \in {"maskOff16", "maskOff32", "maskOn16", "maskOn32"}
    <3>1. /\ d.enabled = c.enabled /\ d.accept = c.accept /\ d.stop = c.stop /\ d.aspm = c.aspm
          /\ d.gate = c.gate /\ d.oob = c.oob /\ d.rxcfg = c.rxcfg
      BY <2>2 DEF After, Chip
    <3>2. CASE f = "mask"
      <4>1. CASE op \in On(f)
        BY <2>2, <3>2, <4>1 DEF After, Chip, Is, On
      <4>2. CASE Is(c, f) /\ op \notin Off(f)
        BY <2>2, <3>2, <4>2 DEF After, Chip, Is, Off, MaskOff
      <4> QED
        BY <4>1, <4>2
    <3>3. CASE f # "mask"
      <4>1. op \notin On(f)
        BY <2>2, <3>3 DEF On, Switches
      <4> QED
        BY <3>1, <3>3, <4>1 DEF Is, Switches
    <3> QED
      BY <3>2, <3>3
  <2>3. CASE op \in {"stopReq", "awaitIdle", "trOff", "enable"}
    <3>1. /\ d.accept = c.accept /\ d.mask = c.mask /\ d.aspm = c.aspm /\ d.gate = c.gate
          /\ d.oob = c.oob /\ d.rxcfg = c.rxcfg
      BY <2>3 DEF After, Chip
    <3>2. CASE f \in {"enabled", "stop"}
      <4>1. CASE f = "enabled"
        BY <2>3, <4>1 DEF After, Chip, Is, On, Off
      <4>2. CASE f = "stop"
        BY <2>3, <4>2 DEF After, Chip, Is, On, Off
      <4> QED
        BY <3>2, <4>1, <4>2
    <3>3. CASE f \notin {"enabled", "stop"}
      <4>1. op \notin On(f)
        BY <2>3, <3>3 DEF On, Switches
      <4> QED
        BY <3>1, <3>3, <4>1 DEF Is, Switches
    <3> QED
      BY <3>2, <3>3
  <2>4. CASE op \in {"unlock", "lock", "cfg"}
    <3>1. /\ d.enabled = c.enabled /\ d.accept = c.accept /\ d.mask = c.mask /\ d.stop = c.stop
          /\ d.aspm = c.aspm /\ d.gate = c.gate /\ d.oob = c.oob /\ d.rxcfg = c.rxcfg
      BY <2>4 DEF After, Chip
    <3>2. op \notin On(f)
      BY <2>4 DEF On, Switches
    <3> QED
      BY <3>1, <3>2 DEF Is, Switches
  <2>5. CASE op \in {"aspmOff", "aspmOn"}
    <3>1. /\ d.enabled = c.enabled /\ d.accept = c.accept /\ d.mask = c.mask /\ d.stop = c.stop
          /\ d.gate = c.gate /\ d.oob = c.oob /\ d.rxcfg = c.rxcfg
      BY <2>5 DEF After, Chip
    <3>2. CASE f = "aspm"
      <4>1. c.open
        BY <2>5 DEF Guards
      <4> QED
        BY <2>5, <3>2, <4>1 DEF After, Chip, Is, On, Off
    <3>3. CASE f # "aspm"
      <4>1. op \notin On(f)
        BY <2>5, <3>3 DEF On, Switches
      <4> QED
        BY <3>1, <3>3, <4>1 DEF Is, Switches
    <3> QED
      BY <3>2, <3>3
  <2>6. CASE op \in {"gateShut", "gateOpen"}
    <3>1. /\ d.enabled = c.enabled /\ d.accept = c.accept /\ d.mask = c.mask /\ d.stop = c.stop
          /\ d.aspm = c.aspm /\ d.oob = c.oob /\ d.rxcfg = c.rxcfg
      BY <2>6 DEF After, Chip
    <3>2. CASE f = "gate"
      BY <2>6, <3>2 DEF After, Chip, Is, On, Off
    <3>3. CASE f # "gate"
      <4>1. op \notin On(f)
        BY <2>6, <3>3 DEF On, Switches
      <4> QED
        BY <3>1, <3>3, <4>1 DEF Is, Switches
    <3> QED
      BY <3>2, <3>3
  <2>7. CASE op \in {"oobOff"}
    <3>1. /\ d.enabled = c.enabled /\ d.accept = c.accept /\ d.mask = c.mask /\ d.stop = c.stop
          /\ d.aspm = c.aspm /\ d.gate = c.gate /\ d.rxcfg = c.rxcfg
      BY <2>7 DEF After, Chip
    <3>2. CASE f = "oob"
      BY <2>7, <3>2 DEF After, Chip, Is, On, Off
    <3>3. CASE f # "oob"
      <4>1. op \notin On(f)
        BY <2>7, <3>3 DEF On, Switches
      <4> QED
        BY <3>1, <3>3, <4>1 DEF Is, Switches
    <3> QED
      BY <3>2, <3>3
  <2>8. CASE op \in {"rxcfg"}
    <3>1. /\ d.enabled = c.enabled /\ d.accept = c.accept /\ d.mask = c.mask /\ d.stop = c.stop
          /\ d.aspm = c.aspm /\ d.gate = c.gate /\ d.oob = c.oob
      BY <2>8 DEF After, Chip
    <3>2. CASE f = "rxcfg"
      BY <2>8, <3>2 DEF After, Chip, Is, On, Off
    <3>3. CASE f # "rxcfg"
      <4>1. op \notin On(f)
        BY <2>8, <3>3 DEF On, Switches
      <4> QED
        BY <3>1, <3>3, <4>1 DEF Is, Switches
    <3> QED
      BY <3>2, <3>3
  <2> QED
    BY <1>3, <2>1, <2>2, <2>3, <2>4, <2>5, <2>6, <2>7, <2>8
       DEF StopOps, Guards, MainOps
<1> QED
  BY <1>1, <1>2, <1>3 DEF Ops
-----------------------------------------------------------------------------
(* The two start functions turn on what their chips need. *)

\* s turns f on, whatever it was; s does not turn f off.
Turns(s, f) == s \in Seq(Ops) /\ LeftOn(s, On(f), Off(f), FALSE)
Keeps(s, f) == s \in Seq(Ops) /\ \A m \in 1 .. Len(s) : s[m] \notin Off(f)

LEMMA TurnsAfter ==
    ASSUME NEW s \in Seq(Ops), NEW t, NEW f, Turns(t, f)
    PROVE  Turns(s \o t, f)
<1>1. t \in Seq(Ops) /\ LeftOn(t, On(f), Off(f), FALSE)
  BY DEF Turns
<1>2. LeftOn(s \o t, On(f), Off(f), FALSE)
  BY <1>1, LeftConcat
<1> QED
  BY <1>1, <1>2, ConcatSeq DEF Turns

LEMMA TurnsThen ==
    ASSUME NEW s, NEW t, NEW f, Turns(s, f), Keeps(t, f)
    PROVE  Turns(s \o t, f)
<1>1. s \in Seq(Ops) /\ LeftOn(s, On(f), Off(f), FALSE)
  BY DEF Turns
<1>2. t \in Seq(Ops) /\ \A m \in 1 .. Len(t) : t[m] \notin Off(f)
  BY DEF Keeps
<1>3. LeftOn(s \o t, On(f), Off(f), FALSE)
  BY <1>1, <1>2, LeftBefore
<1> QED
  BY <1>1, <1>2, <1>3, ConcatSeq DEF Turns

LEMMA TurnsOne == ASSUME NEW op \in Ops, NEW f, op \in On(f) PROVE Turns(<<op>>, f)
<1>1. <<op>> \in Seq(Ops)
  OBVIOUS
<1> QED
  BY <1>1, LeftOne DEF Turns

LEMMA KeepsOne == ASSUME NEW op \in Ops, NEW f, op \notin Off(f) PROVE Keeps(<<op>>, f)
  BY DEF Keeps

LEMMA KeepsWhen == ASSUME NEW c, NEW s, NEW f, Keeps(s, f) PROVE Keeps(When(c, s), f)
  BY DEF Keeps, When

\* For the chips re_hw_start_unlock_8125 is for, and for the others, by the version in
\* TXCFG: the table of types in device.cpp and the two of versions in if_re.c agree with
\* that of re_check_mac_version.
Mac(v) == 64 * (v \div 64) + (IF v % 16 >= 8 THEN 8 ELSE 0)

LEMMA TypeVersions ==
    \A k \in TypesPci \cup TypesPcie \cup Types8168 \cup Types8125 : \A v \in k[2] :
        /\ k[1] \in 3 .. 92
        /\ k[1] \in Since8168G => Mac(v) \in StartOpensGate
        /\ k[1] \in Since8125 \ (84..87) => Mac(v) \in {\h608, \h640, \h648, \h680, \h688}
<1> SUFFICES ASSUME NEW k \in TypesPci \cup TypesPcie \cup Types8168 \cup Types8125,
                    NEW v \in k[2]
             PROVE  /\ k[1] \in 3 .. 92
                    /\ k[1] \in Since8168G => Mac(v) \in StartOpensGate
                    /\ k[1] \in Since8125 \ (84..87)
                         => Mac(v) \in {\h608, \h640, \h648, \h680, \h688}
  OBVIOUS
<1>1. CASE k \in TypesPci
  BY <1>1 DEF TypesPci, Since8168G, Since8125
<1>2. CASE k \in TypesPcie
  BY <1>2 DEF TypesPcie, Since8168G, Since8125
<1>3. CASE k \in Types8168
  BY <1>3 DEF Types8168, Since8168G, Since8125, Mac, StartOpensGate
<1>4. CASE k \in Types8125
  BY <1>4 DEF Types8125, Since8168G, Since8125, Mac, StartOpensGate
<1> QED
  BY <1>1, <1>2, <1>3, <1>4
\* The type that was found fits the version the start functions look at.
LEMMA StartFits ==
    ASSUME Known # {}
    PROVE  /\ re_type \in Since8168G => macver \in StartOpensGate
           /\ re_type \in Since8125 \ (84..87)
                => macver \in {\h608, \h640, \h648, \h680, \h688}
<1> DEFINE k == CHOOSE k \in Known : TRUE
<1>1. k \in Known
  OBVIOUS
<1>2. /\ k \in TypesPci \cup TypesPcie \cup Types8168 \cup Types8125
      /\ version \in k[2]
  BY <1>1 DEF Known
<1>3. macver = Mac(version)
  BY DEF macver, Mac
<1>4. /\ k[1] \in 3 .. 92
      /\ k[1] \in Since8168G => macver \in StartOpensGate
      /\ k[1] \in Since8125 \ (84..87) => macver \in {\h608, \h640, \h648, \h680, \h688}
  BY <1>2, <1>3, TypeVersions
<1>5. re_type = k[1] \/ (k[1] = 69 /\ re_type \in {74, 75})
  BY DEF re_type
<1> QED
  BY <1>4, <1>5 DEF Since8168G, Since8125

\* device.cpp chooses the start function by type.
LEMMA StartChosen == re_type \notin 84..87 => (isRTL8125 <=> re_type \in Since8125)
  BY DEF isRTL8125, Since8125

\* What a start has to turn on, for this chip.
Needed == {"enabled", "accept", "mask", "stop"}
          \cup (IF re_type \in Since8168E \cup Since8168G \cup Since8125 THEN {"aspm"} ELSE {})
          \cup (IF re_type \in Since8168G \cup Since8125 THEN {"gate"} ELSE {})

\* Of two accesses one that turns f on and is not undone.
LEMMA TurnsTwo ==
    ASSUME NEW a \in Ops, NEW b \in Ops, NEW f, b \in On(f) \/ (a \in On(f) /\ b \notin Off(f))
    PROVE  Turns(<<a, b>>, f)
<1> DEFINE u == <<a, b>>
<1>1. u \in Seq(Ops) /\ Len(u) = 2 /\ u[1] = a /\ u[2] = b
  OBVIOUS
<1> HIDE DEF u
<1>2. LeftOn(u, On(f), Off(f), FALSE)
  <2>1. CASE b \in On(f)
    <3>1. 2 \in 1 .. Len(u) /\ u[2] \in On(f) /\ \A m \in 2 + 1 .. Len(u) : u[m] \notin Off(f)
      BY <1>1, <2>1
    <3> QED
      BY <3>1 DEF LeftOn
  <2>2. CASE a \in On(f) /\ b \notin Off(f)
    <3>1. 1 \in 1 .. Len(u) /\ u[1] \in On(f) /\ \A m \in 1 + 1 .. Len(u) : u[m] \notin Off(f)
      BY <1>1, <2>2
    <3> QED
      BY <3>1 DEF LeftOn
  <2> QED
    BY <2>1, <2>2
<1> QED
  BY <1>1, <1>2 DEF Turns, u

\* Enabling and accepting, in either order, before the mask is written.
LEMMA EnableTurns ==
    ASSUME NEW f \in {"enabled", "accept", "stop"}
    PROVE  Turns(<<"enable", "accept">>, f) /\ Turns(<<"accept", "enable">>, f)
<1>1. "enable" \in Ops /\ "accept" \in Ops
  BY DEF Ops, MainOps
<1>2. "accept" \in On(f) \/ ("enable" \in On(f) /\ "accept" \notin Off(f))
  BY DEF On, Off
<1>3. "enable" \in On(f) \/ ("accept" \in On(f) /\ "enable" \notin Off(f))
  BY DEF On, Off
<1> QED
  BY <1>1, <1>2, <1>3, TurnsTwo

\* Of the registers only the lock bits, ASPM's and the gate are changed between unlocking
\* and locking.
LEMMA UnlockedTurns ==
    ASSUME NEW ops, NEW f \in Switches, Turns(ops, f)
    PROVE  Turns(Unlocked(ops), f)
<1>1. "unlock" \in Ops /\ "lock" \in Ops
  BY DEF Ops, MainOps
<1>2. "lock" \notin Off(f)
  BY DEF Off, Switches, MaskOff
<1>3. Keeps(<<"lock">>, f)
  BY <1>1, <1>2, KeepsOne
<1>4. <<"unlock">> \in Seq(Ops)
  BY <1>1
<1>5. Turns(<<"unlock">> \o ops, f)
  BY <1>4, TurnsAfter
<1>6. Turns((<<"unlock">> \o ops) \o <<"lock">>, f)
  BY <1>3, <1>5, TurnsThen
<1> QED
  BY <1>6 DEF Unlocked

\* re_hw_start_unlock.
LEMMA StartTurns ==
    ASSUME Known # {}, re_type \notin Since8125, NEW f \in Needed
    PROVE  Turns(re_hw_start_unlock, f)
<1> DEFINE early == re_type \in Since8168E \cup Since8168G
           w1 == When(early, <<"aspmOff">>)
           w2 == When(macver \in StartConfigures, <<"cfg">>)
           w3 == When(macver \in StartOpensGate, <<"gateOpen">>)
           w4 == When(re_type \in LeavesL23, <<"cfg">>)
           w5 == When(early, <<"aspmOn">>)
           w  == w1 \o w2 \o w3 \o w4 \o w5
           e  == IF card = "8169" THEN <<"enable", "accept">> ELSE <<"accept", "enable">>
           m  == <<"maskOn16">>
<1>1. re_hw_start_unlock = (Unlocked(w) \o e) \o m
  BY DEF re_hw_start_unlock
<1>2. {"aspmOff", "cfg", "gateOpen", "aspmOn", "maskOn16", "enable", "accept"} \subseteq Ops
  BY DEF Ops, Guards, MainOps
<1>3. /\ w1 \in Seq(Ops) /\ w2 \in Seq(Ops) /\ w3 \in Seq(Ops) /\ w4 \in Seq(Ops)
      /\ w5 \in Seq(Ops)
  <2>1. /\ <<"aspmOff">> \in Seq(Ops) /\ <<"cfg">> \in Seq(Ops)
        /\ <<"gateOpen">> \in Seq(Ops) /\ <<"aspmOn">> \in Seq(Ops)
    BY <1>2
  <2> QED
    BY <2>1, WhenSeq
<1>4. /\ e \in Seq(Ops) /\ m \in Seq(Ops)
  BY <1>2
<1>5. f \in {"enabled", "accept", "stop"} \/ f = "mask" \/ (f = "aspm" /\ early)
        \/ (f = "gate" /\ macver \in StartOpensGate)
  BY StartFits DEF Needed
<1>6. early => w5 = <<"aspmOn">>
  BY DEF When
<1>7. macver \in StartOpensGate => w3 = <<"gateOpen">>
  BY DEF When
<1>8. f \in Switches
  BY DEF Needed, Switches
<1>9. Keeps(<<"cfg">>, "gate") /\ Keeps(<<"aspmOn">>, "gate")
  <2>1. "cfg" \notin Off("gate") /\ "aspmOn" \notin Off("gate")
    BY DEF Off
  <2> QED
    BY <1>2, <2>1, KeepsOne
<1>10. Keeps(w4, "gate") /\ Keeps(w5, "gate")
  BY <1>9, KeepsWhen
<1>11. f # "mask" => Keeps(m, f)
  <2>1. "maskOn16" \notin Off(f)
    BY <1>8 DEF Off, MaskOff, Switches
  <2> QED
    BY <1>2, <2>1, KeepsOne
<1>12. f \in {"aspm", "gate"} => Keeps(e, f)
  <2>1. ASSUME f \in {"aspm", "gate"} PROVE Keeps(e, f)
    <3>1. "enable" \notin Off(f) /\ "accept" \notin Off(f)
      BY <2>1 DEF Off
    <3> QED
      BY <1>4, <3>1 DEF Keeps
  <2> QED
    BY <2>1
<1>13. f \in {"enabled", "accept", "stop"} => Turns(e, f)
  BY EnableTurns
<1>14. f = "mask" => Turns(m, f)
  <2>1. f = "mask" => "maskOn16" \in On(f)
    BY DEF On
  <2> QED
    BY <1>2, <2>1, TurnsOne
<1> HIDE DEF w1, w2, w3, w4, w5, early, e, m
<1>15. w \in Seq(Ops)
  BY <1>3, ConcatSeq
<1>16. f = "aspm" => Turns(w, f)
  <2>1. f = "aspm" => Turns(w5, f)
    <3>1. "aspmOn" \in On("aspm") /\ "aspmOn" \in Ops
      BY <1>2 DEF On
    <3> QED
      BY <1>5, <1>6, <3>1, TurnsOne
  <2>2. w1 \o w2 \o w3 \o w4 \in Seq(Ops)
    BY <1>3, ConcatSeq
  <2> QED
    BY <2>1, <2>2, TurnsAfter
<1>17. f = "gate" => Turns(w, f)
  <2>1. SUFFICES ASSUME f = "gate" PROVE Turns(w, f)
    OBVIOUS
  <2>2. Turns(w3, "gate")
    <3>1. "gateOpen" \in On("gate") /\ "gateOpen" \in Ops
      BY <1>2 DEF On
    <3> QED
      BY <1>5, <1>7, <2>1, <3>1, TurnsOne
  <2>3. w1 \o w2 \in Seq(Ops)
    BY <1>3, ConcatSeq
  <2>4. Turns(w1 \o w2 \o w3, "gate")
    BY <2>2, <2>3, TurnsAfter
  <2>5. Turns(w1 \o w2 \o w3 \o w4, "gate")
    BY <1>10, <2>4, TurnsThen
  <2> QED
    BY <1>10, <2>1, <2>5, TurnsThen
<1> HIDE DEF w
<1>18. Unlocked(w) \in Seq(Ops)
  BY <1>2, <1>15, ConcatSeq DEF Unlocked, Ops, MainOps
<1>19. f \in {"aspm", "gate"} => Turns(Unlocked(w), f)
  BY <1>8, <1>16, <1>17, UnlockedTurns
<1>20. f # "mask" => Turns(Unlocked(w) \o e, f)
  <2>1. f \in {"aspm", "gate"} => Turns(Unlocked(w) \o e, f)
    BY <1>12, <1>19, TurnsThen
  <2>2. f \in {"enabled", "accept", "stop"} => Turns(Unlocked(w) \o e, f)
    BY <1>13, <1>18, TurnsAfter
  <2> QED
    BY <1>5, <2>1, <2>2
<1>21. Unlocked(w) \o e \in Seq(Ops)
  BY <1>4, <1>18, ConcatSeq
<1>22. Turns((Unlocked(w) \o e) \o m, f)
  <2>1. f # "mask" => Turns((Unlocked(w) \o e) \o m, f)
    BY <1>11, <1>20, TurnsThen
  <2>2. f = "mask" => Turns((Unlocked(w) \o e) \o m, f)
    BY <1>14, <1>21, TurnsAfter
  <2> QED
    BY <2>1, <2>2
<1> QED
  BY <1>1, <1>22
\* re_hw_start_unlock_8125.
LEMMA Start8125Turns ==
    ASSUME Known # {}, re_type \in Since8125 \ (84..87), NEW f \in Needed
    PROVE  Turns(re_hw_start_unlock_8125, f)
<1> DEFINE w == <<"aspmOff">> \o <<"cfg", "gateOpen">> \o <<"aspmOn">>
           e == <<"accept", "enable", "maskOn32">>
<1>1. re_hw_start_unlock_8125 = Unlocked(w) \o e
  BY StartFits DEF re_hw_start_unlock_8125, When
<1>2. {"aspmOff", "cfg", "gateOpen", "aspmOn", "maskOn32", "enable", "accept"} \subseteq Ops
  BY DEF Ops, Guards, MainOps
<1>3. /\ e \in Seq(Ops) /\ Len(e) = 3 /\ e[1] = "accept" /\ e[2] = "enable" /\ e[3] = "maskOn32"
  BY <1>2
<1>4. f \in {"enabled", "accept", "stop", "mask", "aspm", "gate"} /\ f \in Switches
  BY DEF Needed, Switches
<1>5. f \in {"aspm", "gate"} => Turns(w, f)
  <2>1. Turns(<<"cfg", "gateOpen">>, "gate") /\ Turns(<<"aspmOn">>, "aspm")
    <3>1. "gateOpen" \in On("gate") /\ "aspmOn" \in On("aspm")
      BY DEF On
    <3> QED
      BY <1>2, <3>1, TurnsOne, TurnsTwo
  <2>2. <<"aspmOff">> \in Seq(Ops) /\ <<"cfg", "gateOpen">> \in Seq(Ops)
    BY <1>2
  <2>3. Keeps(<<"aspmOn">>, "gate")
    <3>1. "aspmOn" \notin Off("gate")
      BY DEF Off
    <3> QED
      BY <1>2, <3>1, KeepsOne
  <2>4. Turns(<<"aspmOff">> \o <<"cfg", "gateOpen">>, "gate")
    BY <2>1, <2>2, TurnsAfter
  <2>5. Turns(w, "gate")
    BY <2>3, <2>4, TurnsThen
  <2>6. <<"aspmOff">> \o <<"cfg", "gateOpen">> \in Seq(Ops)
    BY <2>2, ConcatSeq
  <2>7. Turns(w, "aspm")
    BY <2>1, <2>6, TurnsAfter
  <2> QED
    BY <2>5, <2>7
<1>6. Unlocked(w) \in Seq(Ops)
  <2>1. <<"aspmOff">> \in Seq(Guards \cup {"gateOpen"}) /\ <<"aspmOn">> \in Seq(Guards \cup {"gateOpen"})
        /\ <<"cfg", "gateOpen">> \in Seq(Guards \cup {"gateOpen"})
    BY DEF Guards
  <2>2. w \in Seq(Guards \cup {"gateOpen"})
    BY <2>1, ConcatSeq
  <2> QED
    BY <2>2, GuardedUnlocked
<1> HIDE DEF w, e
<1>7. CASE f \in {"aspm", "gate"}
  <2>1. "accept" \notin Off(f) /\ "enable" \notin Off(f) /\ "maskOn32" \notin Off(f)
    BY <1>7 DEF Off
  <2>2. Keeps(e, f)
    BY <1>3, <2>1 DEF Keeps
  <2>3. Turns(Unlocked(w), f)
    BY <1>4, <1>5, <1>7, UnlockedTurns
  <2> QED
    BY <1>1, <2>2, <2>3, TurnsThen
<1>8. CASE f \in {"enabled", "accept", "stop", "mask"}
  <2>1. PICK j \in 1 .. 3 : e[j] \in On(f) /\ \A m \in j + 1 .. 3 : e[m] \notin Off(f)
    <3>1. CASE f = "accept"
      <4>1. "accept" \in On(f) /\ "enable" \notin Off(f) /\ "maskOn32" \notin Off(f)
        BY <3>1 DEF On, Off
      <4> QED
        BY <1>3, <4>1
    <3>2. CASE f \in {"enabled", "stop"}
      <4>1. "enable" \in On(f) /\ "maskOn32" \notin Off(f)
        BY <3>2 DEF On, Off
      <4> QED
        BY <1>3, <4>1
    <3>3. CASE f = "mask"
      <4>1. "maskOn32" \in On(f)
        BY <3>3 DEF On
      <4> QED
        BY <1>3, <4>1
    <3> QED
      BY <1>8, <3>1, <3>2, <3>3
  <2>2. Turns(e, f)
    BY <1>3, <2>1 DEF Turns, LeftOn
  <2> QED
    BY <1>1, <1>6, <2>2, TurnsAfter
<1> QED
  BY <1>4, <1>7, <1>8

\* A reset of the link turns on all that the chip needs, whatever was on before.
LEMMA ResetTurns ==
    ASSUME Known # {}, re_type \notin 84..87, NEW f \in Needed
    PROVE  Turns(RtlResetLink, f)
<1> DEFINE start == IF isRTL8125 THEN re_hw_start_unlock_8125 ELSE re_hw_start_unlock
<1>1. Turns(start, f)
  BY StartTurns, Start8125Turns, StartChosen
<1>2. re_stop \o re_rar_set \in Seq(Ops)
  BY FunctionsSafe, ConcatSeq DEF Safe
<1>3. RtlResetLink = (re_stop \o re_rar_set) \o start
  BY DEF RtlResetLink
<1> HIDE DEF start
<1> QED
  BY <1>1, <1>2, <1>3, TurnsAfter

\* Taking a chip over frees it of its firmware, and the first time writes RXCFG.
LEMMA TakeOverTurns ==
    /\ re_type \in NowIsOob => \E k \in 1 .. Len(TakeOver) : TakeOver[k] = "oobOff"
    /\ re_type \in NowIsOob =>
         \E k \in 1 .. Len(<<"rxcfg">> \o TakeOver) : (<<"rxcfg">> \o TakeOver)[k] = "oobOff"
    /\ (<<"rxcfg">> \o TakeOver)[1] = "rxcfg" /\ Len(<<"rxcfg">> \o TakeOver) \in Nat \ {0}
<1>1. TakeOver \in Seq(Ops) /\ <<"rxcfg">> \in Seq(Ops)
  BY FunctionsSafe DEF Safe, Ops, MainOps
<1>2. re_type \in NowIsOob => Has(re_exit_oob, "oobOff")
  <2> SUFFICES ASSUME re_type \in NowIsOob PROVE Has(re_exit_oob, "oobOff")
    OBVIOUS
  <2>1. /\ <<"lock">> \in Seq(Ops) /\ <<"gateShut", "trOff">> \in Seq(Ops)
        /\ <<"stopReq">> \in Seq(Ops) /\ <<"oobOff">> \in Seq(Ops)
    BY DEF Ops, StopOps, MainOps
  <2>2. \A c : When(c, <<"gateShut", "trOff">>) \in Seq(Ops) /\ When(c, <<"stopReq">>) \in Seq(Ops)
    BY <2>1, WhenSeq
  <2>3. Has(When(re_type \in NowIsOob, <<"oobOff">>), "oobOff")
    BY DEF When, Has
  <2>4. re_hw_mac_mcu_config \in Seq(Ops)
    <3>1. <<"aspmOff">> \in Seq(Guards \cup {"gateOpen"})
      BY DEF Guards
    <3> QED
      BY <3>1, GuardedUnlocked, WhenSeq DEF re_hw_mac_mcu_config
  <2>5. When(re_type \in NowIsOob, <<"oobOff">>) \in Seq(Ops)
    BY <2>1, WhenSeq
  <2> DEFINE x == When(re_type \in NowIsOob, <<"oobOff">>)
             a == <<"lock">> \o When(re_type \in Since8168G \cup Since8125, <<"gateShut", "trOff">>)
                    \o When(re_type \in (82..87) \cup (90..92), <<"stopReq">>)
  <2>6. a \in Seq(Ops)
    BY <2>1, <2>2, ConcatSeq
  <2>7. re_exit_oob = (a \o x) \o re_hw_mac_mcu_config
    BY DEF re_exit_oob
  <2> HIDE DEF a, x
  <2>8. a \o x \in Seq(Ops) /\ Has(a \o x, "oobOff")
    BY <2>3, <2>5, <2>6, HasConcat, ConcatSeq DEF x
  <2> QED
    BY <2>4, <2>7, <2>8, HasConcat
<1>3. re_type \in NowIsOob => Has(TakeOver, "oobOff")
  <2>1. re_exit_oob \in Seq(Ops) /\ re_hw_init \in Seq(Ops) /\ re_reset \in Seq(Ops)
        /\ <<"phy">> \in Seq(Ops)
    BY FunctionsSafe DEF Safe, Ops, MainOps
  <2>2. \A a, b, c, d \in Seq(Ops) : Has(a, "oobOff") => Has(a \o b \o c \o d, "oobOff")
    BY HasConcat, ConcatSeq
  <2> QED
    BY <1>2, <2>1, <2>2 DEF TakeOver
<1>4. re_type \in NowIsOob => Has(<<"rxcfg">> \o TakeOver, "oobOff")
  BY <1>1, <1>3, HasConcat
<1>5. (<<"rxcfg">> \o TakeOver)[1] = "rxcfg" /\ Len(<<"rxcfg">> \o TakeOver) \in Nat \ {0}
  <2> DEFINE t == TakeOver
  <2>1. t \in Seq(Ops)
    BY <1>1
  <2> HIDE DEF t
  <2>2. (<<"rxcfg">> \o t)[1] = "rxcfg" /\ Len(<<"rxcfg">> \o t) \in Nat \ {0}
    BY <2>1
  <2> QED
    BY <2>2 DEF t
<1> QED
  BY <1>3, <1>4, <1>5 DEF Has
-----------------------------------------------------------------------------
(* A chip whose queues run is ready. *)

\* With what is left to do, f is on in the end.
Left(f) == LeftOn(todo["main"], On(f), Off(f), Is(chip, f))

ReadyInv ==
    /\ where \notin {"out", "refused"} => Known # {}
    /\ where \in {"up", "running"} /\ re_type \in NowIsOob => Left("oob")
    /\ where \notin {"out", "refused"} /\ ~unpowered => Left("rxcfg")
    /\ where = "running" /\ ~cancelled =>
         /\ Idle("cancel")
         /\ re_type \notin 84..87 => \A f \in Needed : Left(f)

\* The tables are those of the chip, which stays what it is.
LEMMA SameSwitches ==
    ASSUME UNCHANGED <<version, stepping>>
    PROVE  /\ Known' = Known /\ re_type' = re_type /\ Needed' = Needed
           /\ \A f \in Switches : On(f)' = On(f) /\ Off(f)' = Off(f)
<1>1. Known' = Known /\ re_type' = re_type /\ MaskOff' = MaskOff
  BY SameType DEF Known
<1>2. Needed' = Needed
  BY <1>1 DEF Needed
<1>3. ASSUME NEW f \in Switches PROVE On(f)' = On(f) /\ Off(f)' = Off(f)
  BY <1>1 DEF On, Off
<1> QED
  BY <1>1, <1>2, <1>3

\* Nothing is done, and f is not turned off.
LEMMA LeftSame ==
    ASSUME GuardInv, UNCHANGED <<version, stepping>>, todo'["main"] = todo["main"],
           NEW f \in Switches, Is(chip, f) => Is(chip', f), Left(f)
    PROVE  Left(f)'
<1>1. On(f)' = On(f) /\ Off(f)' = Off(f)
  BY SameSwitches
<1>2. LeftOn(todo["main"], On(f), Off(f), Is(chip', f))
  BY DEF Left, LeftOn
<1>3. Left(f)' <=> LeftOn(todo'["main"], On(f)', Off(f)', Is(chip', f))
  BY DEF Left, LeftOn, Is
<1> QED
  BY <1>1, <1>2, <1>3

\* A function is begun with f on, or one that turns f on.
LEMMA LeftBegin ==
    ASSUME GuardInv, UNCHANGED <<version, stepping>>, NEW ops, Begin(ops),
           NEW f \in Switches, LeftOn(ops, On(f), Off(f), Is(chip', f))
    PROVE  Left(f)'
<1>1. On(f)' = On(f) /\ Off(f)' = Off(f)
  BY SameSwitches
<1>2. todo'["main"] = ops
  BY DEF Begin, GuardInv, Threads
<1>3. Left(f)' <=> LeftOn(todo'["main"], On(f)', Off(f)', Is(chip', f))
  BY DEF Left, LeftOn, Is
<1> QED
  BY <1>1, <1>2, <1>3

\* The next access is made.
LEMMA LeftStep ==
    ASSUME GuardInv, Step("main"), NEW f \in Switches, Left(f)
    PROVE  Left(f)'
<1> DEFINE s == todo["main"]
           op == Head(s)
<1>1. /\ s \in Seq(Ops) /\ s # << >> /\ op \in Ops /\ chip \in Chip
      /\ chip' \in After(op, chip) /\ todo'["main"] = Tail(s)
      /\ UNCHANGED <<version, stepping>> /\ GuardedNow(s, chip.open)
  BY DEF Step, GuardInv, Threads
<1>2. chip' \in Chip /\ chip.open \in BOOLEAN
  BY <1>1, AfterAccess DEF Chip
<1>3. op \in Guards => chip.open
  <2>1. s \in Seq(Ops) /\ s # << >> /\ GuardedNow(s, chip.open)
    BY <1>1
  <2> HIDE DEF s
  <2> QED
    BY <1>2, <2>1, GuardedTail
<1>4. On(f)' = On(f) /\ Off(f)' = Off(f)
  BY <1>1, SameSwitches
<1>5. Is(chip, f) \in BOOLEAN /\ Is(chip', f) \in BOOLEAN
  BY <1>1, <1>2, IsBoolean
<1>6. op \in On(f) \/ (Is(chip, f) /\ op \notin Off(f)) => Is(chip', f)
  <2>1. op \in Ops /\ chip \in Chip /\ chip' \in After(op, chip)
    BY <1>1
  <2> HIDE DEF op
  <2> QED
    BY <1>3, <2>1, AfterSwitch
<1>7. LeftOn(s, On(f), Off(f), Is(chip, f))
  BY DEF Left
<1>8. Left(f)' <=> LeftOn(todo'["main"], On(f)', Off(f)', Is(chip', f))
  BY DEF Left, LeftOn, Is
<1>9. LeftOn(Tail(s), On(f), Off(f), Is(chip', f))
  <2>1. s \in Seq(Ops) /\ s # << >>
    BY <1>1
  <2> HIDE DEF s
  <2> QED
    BY <1>5, <1>6, <1>7, <2>1, LeftTail DEF op
<1> QED
  BY <1>1, <1>4, <1>8, <1>9
\* What a link reset leaves, and what it does not touch.
LEMMA ReadyReset ==
    ASSUME GuardInv, ReadyInv, UNCHANGED <<version, stepping, chip, unpowered>>,
           where \in {"up", "running"}, where' = "running", Idle("main"), Begin(RtlResetLink),
           ~cancelled' => Idle("cancel")
    PROVE  ReadyInv'
<1>1. /\ Known' = Known /\ re_type' = re_type /\ Needed' = Needed /\ Known # {}
  BY SameSwitches DEF ReadyInv
<1>2. ASSUME NEW f \in {"oob", "rxcfg"}, Left(f) PROVE Left(f)'
  <2>1. f \in Switches /\ Is(chip, f) \in BOOLEAN
    BY IsBoolean DEF Switches, GuardInv
  <2>2. Is(chip', f)
    BY <1>2, <2>1, LeftNone DEF Left, Idle
  <2>3. LeftOn(RtlResetLink, On(f), Off(f), Is(chip', f))
    BY <1>2, <2>2 DEF LeftOn, Off
  <2> QED
    BY <2>1, <2>3, LeftBegin
<1>3. ASSUME re_type \notin 84..87, NEW f \in Needed PROVE Left(f)'
  <2>1. f \in Switches
    BY DEF Needed, Switches
  <2>2. LeftOn(RtlResetLink, On(f), Off(f), FALSE)
    BY <1>1, <1>3, ResetTurns DEF Turns
  <2>3. LeftOn(RtlResetLink, On(f), Off(f), Is(chip', f))
    BY <2>2 DEF LeftOn
  <2> QED
    BY <2>1, <2>3, LeftBegin
<1>4. todo'["cancel"] = todo["cancel"]
  BY DEF Begin, GuardInv, Threads
<1>5. re_type \in NowIsOob => Left("oob")'
  BY <1>2 DEF ReadyInv
<1>6. ~unpowered' => Left("rxcfg")'
  BY <1>2 DEF ReadyInv
<1>7. ASSUME re_type \notin 84..87, NEW f \in Needed' PROVE Left(f)'
  BY <1>1, <1>3, <1>7
<1>8. ~cancelled' => Idle("cancel")'
  BY <1>4 DEF Idle
<1> QED
  BY <1>1, <1>5, <1>6, <1>7, <1>8 DEF ReadyInv

\* Nothing is begun, and the chip loses nothing that it has to have.
LEMMA ReadySame ==
    ASSUME GuardInv, ReadyInv, UNCHANGED <<version, stepping, todo, where, cancelled, unpowered>>,
           \A f \in Switches : Is(chip, f) => Is(chip', f)
    PROVE  ReadyInv'
<1>1. /\ Known' = Known /\ re_type' = re_type /\ Needed' = Needed
  BY SameSwitches
<1>2. ASSUME NEW f \in Switches, Left(f) PROVE Left(f)'
  BY <1>2, LeftSame
<1>3. Needed \subseteq Switches /\ "oob" \in Switches /\ "rxcfg" \in Switches
  BY DEF Needed, Switches
<1>4. /\ Left("oob") => Left("oob")'
      /\ Left("rxcfg") => Left("rxcfg")'
      /\ (\A f \in Needed : Left(f)) => (\A f \in Needed' : Left(f)')
  BY <1>1, <1>2, <1>3
<1>5. Idle("cancel")' = Idle("cancel")
  BY DEF Idle
<1> QED
  BY <1>1, <1>4, <1>5 DEF ReadyInv

LEMMA ReadyStep == ASSUME GuardInv, ReadyInv, NEW t \in Threads, Step(t) PROVE ReadyInv'
<1>1. UNCHANGED <<version, stepping, where, cancelled, unpowered>>
  BY DEF Step
<1>2. /\ Known' = Known /\ re_type' = re_type /\ Needed' = Needed
  BY <1>1, SameSwitches
<1>3. Needed \subseteq Switches /\ "oob" \in Switches /\ "rxcfg" \in Switches
  BY DEF Needed, Switches
<1>4. CASE t = "main"
  <2>1. ASSUME NEW f \in Switches, Left(f) PROVE Left(f)'
    BY <1>4, <2>1, LeftStep
  <2>2. todo'["cancel"] = todo["cancel"]
    BY <1>4 DEF Step, GuardInv, Threads
  <2>3. /\ Left("oob") => Left("oob")'
        /\ Left("rxcfg") => Left("rxcfg")'
        /\ (\A f \in Needed : Left(f)) => (\A f \in Needed' : Left(f)')
    BY <1>2, <1>3, <2>1
  <2>4. Idle("cancel")' = Idle("cancel")
    BY <2>2 DEF Idle
  <2> QED
    BY <1>1, <1>2, <2>3, <2>4 DEF ReadyInv
<1>5. CASE t = "cancel"
  <2> DEFINE op == Head(todo["cancel"])
  <2>1. /\ op \in StopOps /\ chip \in Chip /\ chip' \in After(op, chip)
        /\ todo'["main"] = todo["main"] /\ ~Idle("cancel")
    BY <1>5 DEF Step, GuardInv, Threads, Idle
  <2>2. ASSUME NEW f \in {"oob", "rxcfg"}, Left(f) PROVE Left(f)'
    <3>1. op \in Ops /\ op \notin Guards /\ op \notin Off(f) /\ f \in Switches
      BY <2>1 DEF Ops, Guards, StopOps, Off, Switches
    <3>2. Is(chip, f) => Is(chip', f)
      <4>1. chip \in Chip /\ chip' \in After(op, chip)
        BY <2>1
      <4> HIDE DEF op
      <4> QED
        BY <3>1, <4>1, AfterSwitch
    <3> QED
      BY <1>1, <2>1, <2>2, <3>1, <3>2, LeftSame
  <2>3. (Left("oob") => Left("oob")') /\ (Left("rxcfg") => Left("rxcfg")')
    BY <2>2
  <2>4. ~(where = "running" /\ ~cancelled)
    BY <2>1 DEF ReadyInv
  <2> QED
    BY <1>1, <1>2, <2>3, <2>4 DEF ReadyInv
<1> QED
  BY <1>4, <1>5 DEF Threads

LEMMA NextReady == GuardInv /\ ReadyInv /\ [Next]_vars => ReadyInv'
<1> SUFFICES ASSUME GuardInv, ReadyInv, [Next]_vars PROVE ReadyInv'
  OBVIOUS
<1>0. /\ UNCHANGED <<version, stepping>>
      /\ Known' = Known /\ re_type' = re_type /\ Needed' = Needed
  BY TypeKept, SameSwitches
<1>1. CASE \E t \in Threads : Step(t)
  BY <1>1, ReadyStep
<1>2. CASE EvtDevicePrepareHardware
  <2>1. CASE Known = {}
    BY <1>2, <2>1 DEF EvtDevicePrepareHardware, ReadyInv
  <2>2. CASE Known # {}
    <3> DEFINE s == <<"rxcfg">> \o TakeOver
    <3>1. Begin(s) /\ where' = "up"
      BY <1>2, <2>2 DEF EvtDevicePrepareHardware
    <3>2. Len(s) \in Nat \ {0} /\ s[1] = "rxcfg"
      BY TakeOverTurns
    <3>3. re_type \in NowIsOob => \E k \in 1 .. Len(s) : s[k] = "oobOff"
      BY TakeOverTurns
    <3> HIDE DEF s
    <3>4. Left("rxcfg")'
      <4>1. LeftOn(s, On("rxcfg"), Off("rxcfg"), Is(chip', "rxcfg"))
        BY <3>2 DEF LeftOn, On, Off
      <4> QED
        BY <1>0, <3>1, <4>1, LeftBegin DEF Switches
    <3>5. re_type \in NowIsOob => Left("oob")'
      <4>1. re_type \in NowIsOob => LeftOn(s, On("oob"), Off("oob"), Is(chip', "oob"))
        BY <3>3 DEF LeftOn, On, Off
      <4> QED
        BY <1>0, <3>1, <4>1, LeftBegin DEF Switches
    <3> QED
      BY <1>0, <2>2, <3>1, <3>4, <3>5 DEF ReadyInv
  <2> QED
    BY <2>1, <2>2
<1>3. CASE RtlFirstStart
  BY <1>3, ReadyReset DEF RtlFirstStart, QueuesOff
<1>4. CASE LinkChange
  BY <1>4, ReadyReset DEF LinkChange, ReadyInv
<1>5. CASE EvtRxQueueCancel
  <2>1. /\ todo'["main"] = todo["main"] /\ cancelled'
        /\ UNCHANGED <<chip, where, unpowered>>
    BY <1>5 DEF EvtRxQueueCancel, GuardInv, Threads
  <2>2. (Left("oob") => Left("oob")') /\ (Left("rxcfg") => Left("rxcfg")')
    BY <1>0, <2>1, LeftSame DEF Switches
  <2> QED
    BY <1>0, <2>1, <2>2 DEF ReadyInv
<1>6. CASE EvtSetReceiveFilter \/ Transmit \/ Drain \/ UNCHANGED vars
  <2>1. UNCHANGED <<version, stepping, todo, where, cancelled, unpowered>>
    BY <1>6 DEF EvtSetReceiveFilter, Transmit, Drain, vars
  <2>2. /\ chip'.enabled = chip.enabled /\ (chip.accept => chip'.accept)
        /\ chip'.mask = chip.mask /\ chip'.stop = chip.stop /\ chip'.aspm = chip.aspm
        /\ chip'.gate = chip.gate /\ chip'.oob = chip.oob /\ chip'.rxcfg = chip.rxcfg
    BY <1>6 DEF EvtSetReceiveFilter, Transmit, Drain, vars, GuardInv, Chip
  <2>3. \A f \in Switches : Is(chip, f) => Is(chip', f)
    BY <2>2 DEF Is, Switches
  <2> QED
    BY <2>1, <2>3, ReadySame
<1>7. CASE Sleep
  <2>1. /\ where' = "asleep" /\ where \in {"up", "running"} /\ Idle("main")
        /\ UNCHANGED <<chip, unpowered>> /\ Begin(re_stop)
    BY <1>7 DEF Sleep, QueuesOff
  <2>2. ASSUME ~unpowered PROVE Left("rxcfg")'
    <3>1. Left("rxcfg") /\ Is(chip, "rxcfg") \in BOOLEAN /\ "rxcfg" \in Switches
      BY <2>1, <2>2, IsBoolean DEF ReadyInv, GuardInv, Switches
    <3>2. Is(chip', "rxcfg")
      BY <2>1, <3>1, LeftNone DEF Left, Idle
    <3>3. LeftOn(re_stop, On("rxcfg"), Off("rxcfg"), Is(chip', "rxcfg"))
      BY <3>2 DEF LeftOn, Off
    <3> QED
      BY <1>0, <2>1, <3>1, <3>3, LeftBegin
  <2> QED
    BY <1>0, <2>1, <2>2 DEF ReadyInv
<1>8. CASE EvtDeviceD0Entry
  <2>1. /\ where' = "up" /\ where = "asleep" /\ Idle("main") /\ Begin(TakeOver)
        /\ UNCHANGED <<chip, unpowered>> \/ unpowered'
    BY <1>8 DEF EvtDeviceD0Entry
  <2>2. ASSUME ~unpowered' PROVE Left("rxcfg")'
    <3>1. Left("rxcfg") /\ Is(chip, "rxcfg") \in BOOLEAN /\ "rxcfg" \in Switches
      BY <2>1, <2>2, IsBoolean DEF ReadyInv, GuardInv, Switches
    <3>2. Is(chip', "rxcfg")
      BY <2>1, <2>2, <3>1, LeftNone DEF Left, Idle
    <3>3. LeftOn(TakeOver, On("rxcfg"), Off("rxcfg"), Is(chip', "rxcfg"))
      BY <3>2 DEF LeftOn, Off
    <3> QED
      BY <1>0, <2>1, <3>1, <3>3, LeftBegin
  <2>3. re_type \in NowIsOob => Left("oob")'
    <3>1. re_type \in NowIsOob => LeftOn(TakeOver, On("oob"), Off("oob"), Is(chip', "oob"))
      BY TakeOverTurns DEF LeftOn, On, Off
    <3> QED
      BY <1>0, <2>1, <3>1, LeftBegin DEF Switches
  <2> QED
    BY <1>0, <2>1, <2>2, <2>3 DEF ReadyInv
<1>9. CASE FinalExit
  <2>1. where' = "out"
    BY <1>9 DEF FinalExit
  <2> QED
    BY <2>1 DEF ReadyInv
<1> QED
  BY <1>1, <1>2, <1>3, <1>4, <1>5, <1>6, <1>7, <1>8, <1>9 DEF Next

\* ReadyWhenRunning: whatever a take-over, a stop or a reset closed, a chip of any type
\* but the four has open again when the link reset has come back, and the two start
\* functions, the test of types in device.cpp that chooses between them and the tests of
\* versions inside them agree.
THEOREM ReadyToRun == Spec => []ReadyWhenRunning
<1>1. Init => ReadyInv
  BY DEF Init, ReadyInv
<1>2. ASSUME GuardInv, ReadyInv PROVE ReadyWhenRunning
  <2> SUFFICES ASSUME Running, re_type \notin 84..87
               PROVE  /\ chip.enabled /\ chip.accept /\ chip.mask /\ ~chip.stop
                      /\ chip.rxcfg \/ unpowered
                      /\ re_type \in Since8168E \cup Since8168G \cup Since8125
                           => chip.aspm /\ ~chip.oob
                      /\ re_type \in Since8168G \cup Since8125 => ~chip.gate
    BY DEF ReadyWhenRunning
  <2>1. todo["main"] = << >> /\ where = "running" /\ ~cancelled
    BY DEF Running, AtRest, Idle
  <2>2. \A f \in Switches : Left(f) => Is(chip, f)
    BY <1>2, <2>1, IsBoolean, LeftNone DEF Left, GuardInv
  <2>3. \A f \in Needed : Is(chip, f)
    BY <1>2, <2>1, <2>2 DEF ReadyInv, Needed, Switches
  <2>4. /\ re_type \in NowIsOob => Is(chip, "oob")
        /\ ~unpowered => Is(chip, "rxcfg")
    BY <1>2, <2>1, <2>2 DEF ReadyInv, Switches
  <2>5. chip.enabled /\ chip.accept /\ chip.mask /\ ~chip.stop
    <3>1. Is(chip, "enabled") /\ Is(chip, "accept") /\ Is(chip, "mask") /\ Is(chip, "stop")
      BY <2>3 DEF Needed
    <3> QED
      BY <3>1 DEF Is
  <2>6. re_type \in Since8168E \cup Since8168G \cup Since8125 => chip.aspm /\ ~chip.oob
    BY <2>3, <2>4 DEF Needed, Is, NowIsOob
  <2>7. re_type \in Since8168G \cup Since8125 => ~chip.gate
    BY <2>3 DEF Needed, Is
  <2>8. chip.rxcfg \/ unpowered
    BY <2>4 DEF Is
  <2> QED
    BY <2>5, <2>6, <2>7, <2>8
<1> QED
  BY <1>1, <1>2, NextReady, GuardKept, PTL DEF Spec
=============================================================================
