---------------------------- MODULE I2cLocksProofs ----------------------------
(***************************************************************************)
(* Theorems about I2cLocks, whatever the client transfers, however often   *)
(* the clock changes, and with or without callbacks of other peripherals.  *)
(***************************************************************************)
EXTENDS I2cLocks, Integers, TLAPS, WellFoundedInduction

-----------------------------------------------------------------------------
(* Induction over the natural numbers, for sets instead of predicates: the  *)
(* induction theorems of the library take the predicate as a parameter,     *)
(* which the provers cannot instantiate.                                    *)

Below == {p \in Nat \X Nat : p[1] < p[2]}

LEMMA BelowIsWellFounded == IsWellFoundedOn(Below, Nat)
BY NatLessThanWellFounded DEF OpToRel, Below

\* A set of numbers that is not empty has a least element.
LEMMA Least ==
    ASSUME NEW T \in SUBSET Nat, T # {}
    PROVE  \E x \in T : \A y \in T : x <= y
<1>1. PICK x \in T : \A y \in T : ~ (<<y, x>> \in Below)
    BY BelowIsWellFounded, WFMin
<1>2. ASSUME NEW y \in T PROVE x <= y
    <2>1. ~ (y < x)
        BY <1>1 DEF Below
    <2> QED BY <2>1
<1> QED BY <1>2

\* A set with 0 in it, and with the successor of each number in it, has them all.
LEMMA Induct ==
    ASSUME NEW S, 0 \in S, \A n \in Nat : n \in S => n + 1 \in S
    PROVE  \A n \in Nat : n \in S
<1>1. SUFFICES ASSUME Nat \ S # {} PROVE FALSE
    OBVIOUS
<1>2. PICK x \in Nat \ S : \A y \in Nat \ S : x <= y
    BY <1>1, Least
<1>3. x - 1 \in Nat /\ x - 1 \in S
    BY <1>2
<1> QED BY <1>2, <1>3

\* Of the numbers up to a bound, a set that is not empty has a greatest one.
LEMMA Greatest ==
    ASSUME NEW n \in Nat, NEW T \in SUBSET (0 .. n), T # {}
    PROVE  \E x \in T : \A y \in T : y <= x
<1> DEFINE D == {n - x : x \in T}
<1>1. D \in SUBSET Nat /\ D # {}
    <2>1. \A x \in T : n - x \in Nat
        OBVIOUS
    <2>2. PICK x \in T : n - x \in D
        OBVIOUS
    <2> QED BY <2>1, <2>2
<1>2. PICK d \in D : \A e \in D : d <= e
    BY <1>1, Least
<1>3. PICK x \in T : d = n - x
    BY <1>2
<1>4. ASSUME NEW y \in T PROVE y <= x
    <2>1. n - y \in D
        OBVIOUS
    <2> QED BY <2>1, <1>2, <1>3
<1> QED BY <1>4

-----------------------------------------------------------------------------
(* The locks. *)

\* LocksOK becomes inductive with what the callback relies on: a change that has
\* locked the bus finds the callback still there when it comes to unlock it.
Held ==
    /\ at \in {"out", "install", "run", "init", "remove", "initialized", "frequency"}
    /\ i2cOwner \in {"none", "client", "clock"} /\ apbOwner \in {"none", "clock"}
    /\ announced \in BOOLEAN /\ installed \in BOOLEAN
    /\ ck \in {"before", "walk before"} => ~announced
    /\ announced /\ ck \in {"change", "after", "walk after"} => installed

LocksInv == Held /\ LocksOK

LEMMA ClientKeepsLocks ==
    ASSUME LocksInv, (Client /\ UNCHANGED lockVars) \/ Busy \/ Driver PROVE LocksInv'
<1> USE DEF LocksInv, Held, LocksOK, Clock
<1>1. CASE Client /\ UNCHANGED lockVars
    BY <1>1 DEF lockVars
<1>9. CASE Busy
    <2>1. /\ at = "out" /\ at' \in {"out", "init"}
          /\ UNCHANGED <<i2cOwner, apbOwner, installed, Clock>>
        BY <1>9 DEF Busy
    <2> QED BY <2>1
<1>2. CASE Enter
    BY <1>2 DEF Enter
<1>5. CASE Install
    BY <1>5 DEF Install
<1>3. CASE Run
    <2>1. /\ at = "run" /\ i2cOwner' = "none" /\ at' \in {"out", "init"}
          /\ UNCHANGED <<apbOwner, installed, Clock>>
        BY <1>3 DEF Run
    <2> QED BY <2>1
<1>4. CASE InitLock
    BY <1>4 DEF InitLock
<1>6. CASE Remove
    BY <1>6 DEF Remove
<1>7. CASE InitUnlock
    BY <1>7 DEF InitUnlock
<1>8. CASE InitFrequency
    <2>1. /\ at = "frequency" /\ i2cOwner = "none" /\ at' = "out"
          /\ UNCHANGED <<i2cOwner, apbOwner, installed, Clock>>
        BY <1>8 DEF InitFrequency
    <2> QED BY <2>1
<1> QED BY <1>1, <1>2, <1>3, <1>4, <1>5, <1>6, <1>7, <1>8, <1>9 DEF Driver

LEMMA ClockKeepsLocks ==
    ASSUME LocksInv, ClockTask PROVE LocksInv'
<1> USE DEF LocksInv, Held, LocksOK, User
<1>1. CASE ClockStart
    BY <1>1 DEF ClockStart
<1>2. CASE TakeList
    BY <1>2 DEF TakeList
<1>3. CASE WalkBefore
    BY <1>3 DEF WalkBefore
<1>4. CASE Change
    BY <1>4 DEF Change, HasCallbacks
<1>5. CASE WalkAfter
    BY <1>5 DEF WalkAfter
<1> QED BY <1>1, <1>2, <1>3, <1>4, <1>5 DEF ClockTask

LEMMA LocksInvariant == Spec => []LocksInv
<1>1. Init => LocksInv
    BY DEF Init, LocksInv, Held, LocksOK
<1>2. LocksInv /\ UNCHANGED vars => LocksInv'
    <2>1. UNCHANGED vars =>
              UNCHANGED <<i2cOwner, apbOwner, installed, at, ck, announced>>
        BY DEF vars, lockVars
    <2> QED BY <2>1 DEF LocksInv, Held, LocksOK
<1>3. LocksInv /\ [Next]_vars => LocksInv'
    BY <1>2, ClientKeepsLocks, ClockKeepsLocks DEF Next
<1> QED BY <1>1, <1>3, PTL DEF Spec

\* Between the client, i2cInit and the callback no lock is given away or kept: what
\* i2cApbChangeCallback locks before a change it unlocks after it.
THEOREM LocksAreBalanced == Spec => []LocksOK
<1>1. LocksInv => LocksOK
    BY DEF LocksInv
<1> QED BY LocksInvariant, <1>1, PTL

\* No transfer sees the clock change under it once the callback was told.
THEOREM ClockIsSteady == Spec => ClockSteady
<1>1. LocksInv /\ [Next]_vars => [Change /\ at = "run" => slow \/ ~announced]_vars
    BY DEF LocksInv, LocksOK, Change
<1> QED BY LocksInvariant, <1>1, PTL DEF Spec, ClockSteady

-----------------------------------------------------------------------------
(* What the client writes and reads.  First the queue of the driver: its   *)
(* entries, and the bytes that they hold for a direction, one after the    *)
(* other.                                                                  *)

Bit   == {0, 1}
Entry == [mode : {"READ", "WRITE"}, at : Nat, num : Nat, want : Seq(Bit)]

Num(e, mode) == IF e.mode = mode THEN e.num ELSE 0

LEMMA NumType ==
    ASSUME NEW e \in Entry, NEW mode PROVE Num(e, mode) \in Nat
BY DEF Num, Entry

LEMMA BytesDef ==
    ASSUME NEW s \in Seq(Entry), NEW mode
    PROVE  /\ Bytes(s, mode) \in [0 .. Len(s) -> Nat]
           /\ Bytes(s, mode)[0] = 0
           /\ \A k \in 1 .. Len(s) :
                Bytes(s, mode)[k] = Bytes(s, mode)[k - 1] + Num(s[k], mode)
<1> DEFINE Upto(m) == {f \in [0 .. m -> Nat] : /\ f[0] = 0
                          /\ \A k \in 1 .. m : f[k] = f[k - 1] + Num(s[k], mode)}
           Ok == {m \in Nat : m <= Len(s) => Upto(m) # {}}
<1>1. 0 \in Ok
    <2>1. [k \in 0 .. 0 |-> 0] \in Upto(0)
        OBVIOUS
    <2> QED BY <2>1
<1>2. ASSUME NEW m \in Nat, m \in Ok PROVE m + 1 \in Ok
    <2>1. SUFFICES ASSUME m + 1 <= Len(s) PROVE Upto(m + 1) # {}
        <3> HIDE DEF Upto
        <3> QED OBVIOUS
    <2>2. PICK f \in Upto(m) : TRUE
        BY <1>2, <2>1
    <2> DEFINE num == Num(s[m + 1], mode)
               g   == [k \in 0 .. m + 1 |-> IF k = m + 1 THEN f[m] + num ELSE f[k]]
    <2>3. num \in Nat /\ f[m] \in Nat
        BY <2>1, <2>2, NumType
    <2>4. g \in [0 .. m + 1 -> Nat] /\ g[0] = 0
        <3> HIDE DEF num
        <3> QED BY <2>2, <2>3
    <2>5. ASSUME NEW k \in 1 .. m + 1 PROVE g[k] = g[k - 1] + Num(s[k], mode)
        <3>1. CASE k = m + 1
            BY <3>1
        <3>2. CASE k # m + 1
            <4>1. k \in 1 .. m /\ k - 1 \in 0 .. m
                BY <3>2
            <4> QED BY <4>1, <2>2
        <3> QED BY <3>1, <3>2
    <2> QED BY <2>4, <2>5
<1>3. Upto(Len(s)) # {}
    <2>1. \A n \in Nat : n \in Ok
        <3> HIDE DEF Ok
        <3> QED BY <1>1, <1>2, Induct
    <2> QED BY <2>1
<1>4. PICK f \in Upto(Len(s)) : TRUE
    BY <1>3
<1>5. f = [k \in 0 .. Len(s) |-> IF k = 0 THEN 0 ELSE f[k - 1]
                                   + (IF s[k].mode = mode THEN s[k].num ELSE 0)]
    BY <1>4 DEF Num
<1> DEFINE b == Bytes(s, mode)
<1>6. b = [k \in 0 .. Len(s) |-> IF k = 0 THEN 0 ELSE b[k - 1]
                                   + (IF s[k].mode = mode THEN s[k].num ELSE 0)]
    BY <1>5 DEF Bytes
<1> HIDE DEF b
<1>7. b[0] = 0 /\ \A k \in 1 .. Len(s) : b[k] = b[k - 1] + Num(s[k], mode)
    BY <1>6 DEF Num
<1>8. b \in [0 .. Len(s) -> Nat]
    <2> DEFINE T == {m \in Nat : m <= Len(s) => b[m] \in Nat}
    <2>1. 0 \in T
        BY <1>7
    <2>2. ASSUME NEW n \in Nat, n \in T PROVE n + 1 \in T
        <3>1. SUFFICES ASSUME n + 1 <= Len(s) PROVE b[n + 1] \in Nat
            OBVIOUS
        <3>2. b[n + 1] = b[n] + Num(s[n + 1], mode)
            BY <3>1, <1>7
        <3> QED BY <3>1, <3>2, <2>2, NumType
    <2>3. \A n \in Nat : n \in T
        <3> HIDE DEF T
        <3> QED BY <2>1, <2>2, Induct
    <2> QED BY <2>3, <1>6
<1> QED BY <1>7, <1>8 DEF b

LEMMA BytesAppend ==
    ASSUME NEW s \in Seq(Entry), NEW e \in Entry, NEW mode
    PROVE  /\ \A k \in 0 .. Len(s) : Bytes(Append(s, e), mode)[k] = Bytes(s, mode)[k]
           /\ Bytes(Append(s, e), mode)[Len(s) + 1]
                = Bytes(s, mode)[Len(s)] + Num(e, mode)
<1> DEFINE t == Append(s, e)
           b == Bytes(s, mode)
           c == Bytes(t, mode)
<1>1. /\ t \in Seq(Entry) /\ Len(t) = Len(s) + 1 /\ t[Len(s) + 1] = e
      /\ \A k \in 1 .. Len(s) : t[k] = s[k]
    OBVIOUS
<1>2. b[0] = 0 /\ \A k \in 1 .. Len(s) : b[k] = b[k - 1] + Num(s[k], mode)
    BY BytesDef
<1>3. c[0] = 0 /\ \A k \in 1 .. Len(t) : c[k] = c[k - 1] + Num(t[k], mode)
    BY <1>1, BytesDef
<1> HIDE DEF t, b, c
<1> DEFINE T == {m \in Nat : m <= Len(s) => c[m] = b[m]}
<1>4. 0 \in T
    BY <1>2, <1>3
<1>5. ASSUME NEW n \in Nat, n \in T PROVE n + 1 \in T
    <2>1. SUFFICES ASSUME n + 1 <= Len(s) PROVE c[n + 1] = b[n + 1]
        OBVIOUS
    <2>2. c[n + 1] = c[n] + Num(t[n + 1], mode) /\ b[n + 1] = b[n] + Num(s[n + 1], mode)
        BY <2>1, <1>1, <1>2, <1>3
    <2> QED BY <2>1, <2>2, <1>1, <1>5
<1>6. \A n \in Nat : n \in T
    <2> HIDE DEF T
    <2> QED BY <1>4, <1>5, Induct
<1>7. c[Len(s) + 1] = c[Len(s)] + Num(e, mode)
    BY <1>1, <1>3
<1> QED BY <1>6, <1>7 DEF t, b, c

LEMMA BytesMonotone ==
    ASSUME NEW s \in Seq(Entry), NEW mode, NEW j \in 0 .. Len(s), NEW k \in j .. Len(s)
    PROVE  Bytes(s, mode)[j] <= Bytes(s, mode)[k]
<1> DEFINE b == Bytes(s, mode)
           T == {m \in Nat : j + m <= Len(s) => b[j] <= b[j + m]}
<1>1. /\ b \in [0 .. Len(s) -> Nat]
      /\ \A i \in 1 .. Len(s) : b[i] = b[i - 1] + Num(s[i], mode)
    BY BytesDef
<1> HIDE DEF b
<1>2. 0 \in T
    BY <1>1
<1>3. ASSUME NEW n \in Nat, n \in T PROVE n + 1 \in T
    <2>1. SUFFICES ASSUME j + (n + 1) <= Len(s) PROVE b[j] <= b[j + (n + 1)]
        OBVIOUS
    <2>2. b[j + (n + 1)] = b[j + n] + Num(s[j + (n + 1)], mode)
        BY <2>1, <1>1
    <2>3. Num(s[j + (n + 1)], mode) \in Nat
        BY <2>1, NumType
    <2>4. b[j + n] \in Nat /\ b[j] \in Nat /\ b[j] <= b[j + n]
        BY <2>1, <1>1, <1>3
    <2> HIDE DEF b
    <2> QED BY ONLY <2>2, <2>3, <2>4
<1>4. \A n \in Nat : n \in T
    <2> HIDE DEF T
    <2> QED BY <1>2, <1>3, Induct
<1>5. k - j \in T
    BY <1>4
<1> QED BY <1>5 DEF b

\* Each byte that is queued belongs to one of the entries.
LEMMA BytesFind ==
    ASSUME NEW s \in Seq(Entry), NEW mode, NEW i \in Nat, i < Bytes(s, mode)[Len(s)]
    PROVE  \E q \in DOMAIN s : /\ s[q].mode = mode
                              /\ Bytes(s, mode)[q - 1] <= i
                              /\ i < Bytes(s, mode)[q - 1] + s[q].num
<1> DEFINE b == Bytes(s, mode)
           T == {k \in 0 .. Len(s) : i < b[k]}
<1>1. /\ b \in [0 .. Len(s) -> Nat] /\ b[0] = 0
      /\ \A k \in 1 .. Len(s) : b[k] = b[k - 1] + Num(s[k], mode)
    BY BytesDef
<1>2. PICK q \in T : \A k \in T : q <= k
    <2>1. Len(s) \in T /\ T \in SUBSET Nat
        OBVIOUS
    <2> QED BY <2>1, Least
<1> HIDE DEF b
<1>3. q # 0
    BY <1>1, <1>2
<1>4. q \in 1 .. Len(s) /\ q - 1 \in 0 .. Len(s)
    BY <1>2, <1>3
<1>5. b[q - 1] <= i
    <2>1. q - 1 \notin T
        BY <1>2, <1>4
    <2>2. ~(i < b[q - 1])
        BY <1>4, <2>1
    <2>3. b[q - 1] \in Nat
        BY <1>1, <1>4
    <2> QED BY <2>2, <2>3
<1>6. i < b[q - 1] + Num(s[q], mode)
    BY <1>1, <1>2, <1>4
<1>7. Num(s[q], mode) > 0
    <2>1. Num(s[q], mode) \in Nat /\ b[q - 1] \in Nat
        BY <1>1, <1>4, NumType
    <2> QED BY <1>5, <1>6, <2>1
<1>8. s[q].mode = mode /\ Num(s[q], mode) = s[q].num
    BY <1>7 DEF Num
<1>9. b[q - 1] <= i /\ i < b[q - 1] + s[q].num
    BY <1>5, <1>6, <1>8
<1>10. q \in DOMAIN s
    BY <1>4
<1>11. SUFFICES /\ s[q].mode = mode
                /\ Bytes(s, mode)[q - 1] <= i
                /\ i < Bytes(s, mode)[q - 1] + s[q].num
    BY <1>10, Zenon
<1> QED BY <1>8, <1>9 DEF b

LEMMA BytesNone ==
    ASSUME NEW s \in Seq(Entry), NEW mode, Bytes(s, mode)[Len(s)] = 0
    PROVE  \A q \in DOMAIN s : s[q].mode = mode => s[q].num = 0
<1> DEFINE b == Bytes(s, mode)
<1>1. SUFFICES ASSUME NEW q \in 1 .. Len(s), s[q].mode = mode PROVE s[q].num = 0
    OBVIOUS
<1>2. /\ b \in [0 .. Len(s) -> Nat]
      /\ b[q] = b[q - 1] + Num(s[q], mode)
    BY BytesDef
<1>3. b[q] <= b[Len(s)]
    BY BytesMonotone
<1> HIDE DEF b
<1>4. Num(s[q], mode) \in Nat /\ q - 1 \in 0 .. Len(s)
    BY NumType
<1>5. Num(s[q], mode) = 0
    BY <1>2, <1>3, <1>4 DEF b
<1> QED BY <1>1, <1>5 DEF Num

-----------------------------------------------------------------------------
(* The invariant of TwoWire.  Counts that agree with the queue agree with  *)
(* it part by part, and only a call that found them so promises its client *)
(* anything: the counts are what all the rest depends on.                  *)

Count == [index : Nat, length : Nat, queued : 0 .. BufLen]

WireTypes ==
    /\ tx \in Count /\ rx \in Count
    /\ tx.index <= BufLen /\ tx.length <= BufLen /\ rx.index <= rx.length
    /\ txBuffer \in [0 .. BufLen - 1 -> Bit]
    /\ rxBuffer \in [0 .. BufLen - 1 -> Int]
    /\ transmitting \in BOOLEAN /\ skewed \in BOOLEAN
    /\ dq \in Seq(Entry)
    /\ pc \in {"ready", "called", "returned"}
    /\ call \in [op : {"none", "end", "request"}, cnt : Nat]
    /\ result \in [err : {"OK", "ACK", "BUSY"}, count : Nat]
    /\ wrote \in Seq(Bit)
    /\ blame \in {"none", "empty", "end"}

\* Where the client is in a call: no request is made inside a transmission, and the
\* driver's step is that of the call.
Calling ==
    /\ pc = "ready" <=> call.op = "none"
    /\ call.op = "request" => ~transmitting /\ rx.queued > 0
    /\ at # "out" => pc = "called"
    /\ at \in {"out", "install", "run", "init", "remove", "initialized", "frequency"}

\* What was written since beginTransmission lies behind what is queued.
Writing ==
    pc = "ready" /\ transmitting =>
        /\ tx.index = tx.length
        /\ tx.length = tx.queued + Len(wrote)
        /\ \A i \in 1 .. Len(wrote) : wrote[i] = txBuffer[tx.queued + i - 1]

\* Each entry lies in its buffer; a read has some bytes, and all that is to be sent is there.
Whole ==
    \A q \in DOMAIN dq :
        /\ dq[q].at + dq[q].num <= BufLen
        /\ dq[q].mode = "READ" => dq[q].num > 0
        /\ dq[q].mode = "WRITE" => Len(dq[q].want) = dq[q].num

Sent(q) == \A i \in 1 .. dq[q].num : dq[q].want[i] = txBuffer[dq[q].at + i - 1]

\* Counts that agree with the queue agree with it entry by entry.
ReadsTile ==
    rx.queued = Pending("READ") =>
        \A q \in DOMAIN dq : dq[q].mode = "READ" => dq[q].at = Before(q)

WritesApart ==
    pc = "ready" /\ tx.queued = Pending("WRITE") =>
        \A q \in DOMAIN dq : dq[q].mode = "WRITE" /\ dq[q].num > 0 =>
            dq[q].at + dq[q].num <= tx.queued /\ Sent(q)

\* A call that began with the right counts keeps them to its end, and brings an answer
\* whose bytes lie in order.
Called ==
    pc # "ready" /\ ~skewed =>
        /\ rx.queued = Pending("READ")
        /\ \A q \in DOMAIN dq : dq[q].mode = "WRITE" => Sent(q)
        /\ pc = "returned" =>
             /\ result.count <= rx.queued
             /\ result.err = "OK" => result.count = rx.queued
             /\ \A i \in 0 .. result.count - 1 : rxBuffer[i] = i

\* What is left to be read is the last answer, also while a call that reads nothing is
\* under way, unless a request of no bytes has given up what was queued.
Kept ==
    rx.queued = 0 /\ ~skewed =>
        IF blame = "empty"
        THEN rx.index = rx.length \/ Pending("READ") > 0
        ELSE \A i \in rx.index .. rx.length - 1 : rxBuffer[i] = i

Readable == ~skewed /\ call.op # "request" => rx.length <= BufLen

WireInv ==
    /\ WireTypes /\ Calling /\ Writing /\ Whole /\ ReadsTile /\ WritesApart
    /\ Called /\ Kept /\ Readable /\ CountsAgree

-----------------------------------------------------------------------------
(* Every call keeps it. *)

LEMMA Counts ==
    ASSUME NEW c \in Count
    PROVE  c.index \in Nat /\ c.length \in Nat /\ c.queued \in 0 .. BufLen
BY WireAssumption DEF Count

LEMMA CountsSet ==
    ASSUME NEW c \in Count, NEW i \in Nat, NEW n \in Nat, NEW k \in 0 .. BufLen
    PROVE  /\ [index |-> i, length |-> n, queued |-> k] \in Count
           /\ [c EXCEPT !.index = i, !.length = n]
                 = [index |-> i, length |-> n, queued |-> c.queued]
           /\ [c EXCEPT !.index = i] = [index |-> i, length |-> c.length, queued |-> c.queued]
           /\ [c EXCEPT !.queued = k] = [index |-> c.index, length |-> c.length, queued |-> k]
<1> USE WireAssumption
<1> DEFINE d == [c EXCEPT !.index = i, !.length = n]
           e == [c EXCEPT !.index = i]
           f == [c EXCEPT !.queued = k]
<1>1. /\ d \in Count /\ d.index = i /\ d.length = n /\ d.queued = c.queued
      /\ e \in Count /\ e.index = i /\ e.length = c.length /\ e.queued = c.queued
      /\ f \in Count /\ f.index = c.index /\ f.length = c.length /\ f.queued = k
    BY DEF Count
<1>2. \A g \in Count : g = [index |-> g.index, length |-> g.length, queued |-> g.queued]
    BY DEF Count
<1> HIDE DEF d, e, f
<1>3. [index |-> i, length |-> n, queued |-> k] \in Count
    BY DEF Count
<1> QED BY <1>1, <1>2, <1>3 DEF d, e, f

LEMMA WireInitially == Init => WireInv
<1>1. SUFFICES ASSUME Init PROVE WireInv
    OBVIOUS
<1> USE <1>1, WireAssumption DEF Init, WireInit
<1>2. dq = <<>> /\ <<>> \in Seq(Entry) /\ \A mode : Pending(mode) = 0
    BY BytesDef DEF Pending
<1>3. WireTypes
    <2>1. Nothing \in Count /\ Nothing.index = 0 /\ Nothing.length = 0
        BY DEF Nothing, Count
    <2>2. /\ txBuffer \in [0 .. BufLen - 1 -> Bit] /\ rxBuffer \in [0 .. BufLen - 1 -> Int]
          /\ wrote \in Seq(Bit)
        BY DEF Bit, Stale
    <2>3. call \in [op : {"none", "end", "request"}, cnt : Nat]
        OBVIOUS
    <2>4. result \in [err : {"OK", "ACK", "BUSY"}, count : Nat]
        OBVIOUS
    <2>5. tx \in Count /\ rx \in Count
          /\ tx.index <= BufLen /\ tx.length <= BufLen /\ rx.index <= rx.length
        BY <2>1
    <2>6. dq \in Seq(Entry)
        BY <1>2
    <2> QED BY <2>2, <2>3, <2>4, <2>5, <2>6 DEF WireTypes
<1>4. Calling /\ Writing /\ Whole /\ Called /\ Kept /\ Readable
    BY <1>2 DEF Calling, Writing, Whole, Called, Kept, Readable, Nothing
<1>5. ReadsTile /\ WritesApart /\ CountsAgree
    BY <1>2 DEF ReadsTile, WritesApart, CountsAgree, Skew, Nothing
<1> QED BY <1>3, <1>4, <1>5 DEF WireInv

LEMMA BeginKeeps ==
    ASSUME WireInv, beginTransmission, UNCHANGED lockVars PROVE WireInv'
<1>0. tx \in Count
    BY DEF WireInv, WireTypes
<1>1. /\ pc = "ready" /\ transmitting' = TRUE
      /\ tx' = [index |-> tx.queued, length |-> tx.queued, queued |-> tx.queued]
      /\ wrote' = <<>>
      /\ UNCHANGED <<rx, txBuffer, rxBuffer, dq, pc, call, result, blame, skewed, at>>
      /\ tx.queued \in 0 .. BufLen
    <2>1. tx.queued \in 0 .. BufLen /\ tx.queued \in Nat
        BY <1>0, Counts, WireAssumption
    <2>2. tx' = [tx EXCEPT !.index = tx.queued, !.length = tx.queued]
        BY DEF beginTransmission
    <2>3. tx' = [index |-> tx.queued, length |-> tx.queued, queued |-> tx.queued]
        BY <1>0, <2>1, <2>2, CountsSet
    <2> QED BY <2>1, <2>3 DEF beginTransmission, lockVars
<1>2. tx' \in Count
    BY <1>1, WireAssumption DEF Count
<1>3. WireTypes'
    BY <1>1, <1>2 DEF WireTypes, WireInv
<1>4. Calling' /\ Writing' /\ Whole' /\ Readable'
    BY <1>1 DEF Calling, Writing, Whole, Readable, WireInv
<1>5. \A mode : Pending(mode)' = Pending(mode)
    BY <1>1 DEF Pending
<1>6. ReadsTile' /\ WritesApart' /\ CountsAgree'
    BY <1>1, <1>5 DEF ReadsTile, WritesApart, CountsAgree, Skew, Sent, Before, WireInv
<1>7. Called' /\ Kept'
    BY <1>1, <1>5 DEF Called, Kept, Sent, WireInv
<1> QED BY <1>3, <1>4, <1>6, <1>7 DEF WireInv

LEMMA WriteKeeps ==
    ASSUME WireInv, write, UNCHANGED lockVars PROVE WireInv'
<1> DEFINE data == (Len(dq) + Len(wrote)) % 2
<1>0. tx \in Count
    BY DEF WireInv, WireTypes
<1>1. /\ wrote \in Seq(Bit) /\ dq \in Seq(Entry) /\ BufLen \in Nat
      /\ tx.index \in Nat /\ tx.length \in Nat /\ tx.queued \in 0 .. BufLen
      /\ txBuffer \in [0 .. BufLen - 1 -> Bit]
    BY <1>0, WireAssumption, Counts DEF WireInv, WireTypes
<1>2. /\ pc = "ready" /\ transmitting /\ tx.length < BufLen
      /\ txBuffer' = [txBuffer EXCEPT ![tx.index] = data]
      /\ wrote' = Append(wrote, data)
      /\ UNCHANGED <<rx, rxBuffer, transmitting, dq, pc, call, result, blame, skewed, at>>
    BY DEF write, lockVars
<1>3. tx' = [index |-> tx.index + 1, length |-> tx.index + 1, queued |-> tx.queued]
    <2>1. tx' = [tx EXCEPT !.index = tx.index + 1, !.length = tx.index + 1]
        BY DEF write
    <2>2. tx.index + 1 \in Nat /\ tx.queued \in 0 .. BufLen
        BY <1>1
    <2> QED BY <1>0, <2>1, <2>2, CountsSet
<1>4. data \in Bit
    BY <1>1 DEF Bit
<1> HIDE DEF data
<1>5. /\ tx.index = tx.length /\ tx.length = tx.queued + Len(wrote)
      /\ tx.index \in 0 .. BufLen - 1
    <2>1. tx.index = tx.length /\ tx.length = tx.queued + Len(wrote)
        BY <1>2 DEF Writing, WireInv
    <2> QED BY <1>1, <1>2, <2>1
<1>6. WireTypes'
    <2>1. tx' \in Count /\ tx'.index <= BufLen /\ tx'.length <= BufLen
        BY <1>1, <1>3, <1>5, WireAssumption DEF Count
    <2>2. wrote' \in Seq(Bit)
        BY <1>1, <1>2, <1>4
    <2>3. txBuffer' \in [0 .. BufLen - 1 -> Bit]
        BY <1>1, <1>2, <1>4, <1>5
    <2> QED BY <1>2, <2>1, <2>2, <2>3 DEF WireTypes, WireInv
<1>7. Calling' /\ Whole' /\ Readable'
    BY <1>2 DEF Calling, Whole, Readable, WireInv
<1>8. Writing'
    <2>1. Len(wrote') = Len(wrote) + 1 /\ wrote'[Len(wrote) + 1] = data
        BY <1>1, <1>2, <1>4
    <2>2. ASSUME NEW i \in 1 .. Len(wrote) + 1
          PROVE  wrote'[i] = txBuffer'[tx.queued + i - 1]
        <3>1. CASE i = Len(wrote) + 1
            <4>1. tx.queued + i - 1 = tx.index
                BY <1>1, <1>5, <3>1
            <4> QED BY <1>1, <1>2, <1>5, <2>1, <3>1, <4>1
        <3>2. CASE i # Len(wrote) + 1
            <4>1. i \in 1 .. Len(wrote) /\ wrote'[i] = wrote[i]
                BY <1>1, <1>2, <3>2
            <4>2. tx.queued + i - 1 \in 0 .. BufLen - 1 /\ tx.queued + i - 1 # tx.index
                BY <1>1, <1>5, <4>1, SMTT(30)
            <4>3. txBuffer'[tx.queued + i - 1] = txBuffer[tx.queued + i - 1]
                BY <1>1, <1>2, <4>2, SMTT(30)
            <4> QED BY <1>2, <4>1, <4>3 DEF Writing, WireInv
        <3> QED BY <3>1, <3>2
    <2>3. tx'.index = tx'.length /\ tx'.queued = tx.queued
          /\ tx'.length = tx'.queued + Len(wrote')
        BY <1>1, <1>3, <1>5, <2>1
    <2> QED BY <2>1, <2>2, <2>3 DEF Writing
<1>9. \A mode : Pending(mode)' = Pending(mode)
    BY <1>2 DEF Pending
<1>10. ReadsTile' /\ CountsAgree' /\ Called' /\ Kept'
    BY <1>2, <1>3, <1>9 DEF ReadsTile, CountsAgree, Skew, Before, Called, Kept, WireInv
<1>11. WritesApart'
    <2>1. SUFFICES ASSUME tx.queued = Pending("WRITE"), NEW q \in DOMAIN dq,
                          dq[q].mode = "WRITE", dq[q].num > 0
                   PROVE  dq[q].at + dq[q].num <= tx.queued /\ Sent(q)'
        BY <1>2, <1>3, <1>9 DEF WritesApart
    <2>2. dq[q].at + dq[q].num <= tx.queued /\ Sent(q)
        BY <1>2, <2>1 DEF WritesApart, WireInv
    <2>3. dq[q].at \in Nat /\ dq[q].num \in Nat
        <3>1. dq[q] \in Entry
            BY <1>1
        <3> QED BY <3>1 DEF Entry
    <2>4. ASSUME NEW i \in 1 .. dq[q].num
          PROVE  dq[q].want[i] = txBuffer'[dq[q].at + i - 1]
        <3>1. dq[q].at + i - 1 \in 0 .. BufLen - 1 /\ dq[q].at + i - 1 # tx.index
            <4>1. Len(wrote) \in Nat
                BY <1>1
            <4>2. tx.queued <= tx.index /\ tx.index < BufLen
                BY <1>1, <1>5, <4>1
            <4>3. dq[q].at + i <= tx.queued
                BY <1>1, <2>2, <2>3
            <4>4. dq[q].at + i - 1 \in Nat
                BY <2>3
            <4>5. dq[q].at + i - 1 < tx.index
                BY <1>1, <2>3, <4>2, <4>3
            <4> QED BY <1>1, <4>2, <4>4, <4>5
        <3>2. txBuffer'[dq[q].at + i - 1] = txBuffer[dq[q].at + i - 1]
            BY <1>1, <1>2, <3>1
        <3> QED BY <2>2, <3>2 DEF Sent
    <2> QED BY <1>2, <2>2, <2>4 DEF Sent
<1> QED BY <1>6, <1>7, <1>8, <1>10, <1>11 DEF WireInv

LEMMA ReadKeeps ==
    ASSUME WireInv, read, UNCHANGED lockVars PROVE WireInv'
<1>0. rx \in Count
    BY DEF WireInv, WireTypes
<1>1. rx.index \in Nat /\ rx.length \in Nat /\ rx.queued \in 0 .. BufLen
    BY <1>0, Counts
<1>2. /\ pc = "ready" /\ rx.index < rx.length
      /\ rx' = [index |-> rx.index + 1, length |-> rx.length, queued |-> rx.queued]
      /\ UNCHANGED <<tx, txBuffer, rxBuffer, transmitting, dq, pc, call, result,
                     wrote, blame, skewed, at>>
    <2>1. rx' = [rx EXCEPT !.index = rx.index + 1]
        BY DEF read
    <2>3. rx.index + 1 \in Nat
        BY <1>1
    <2>2. rx' = [index |-> rx.index + 1, length |-> rx.length, queued |-> rx.queued]
        BY <1>0, <1>1, <2>1, <2>3, CountsSet
    <2> QED BY <2>2 DEF read, lockVars
<1>3. WireTypes'
    <2>1. rx' \in Count /\ rx'.index <= rx'.length
        BY <1>0, <1>1, <1>2 DEF Count
    <2> QED BY <1>2, <2>1 DEF WireTypes, WireInv
<1>4. Calling' /\ Writing' /\ Whole' /\ Readable'
    BY <1>2 DEF Calling, Writing, Whole, Readable, WireInv
<1>5. \A mode : Pending(mode)' = Pending(mode)
    BY <1>2 DEF Pending
<1>6. ReadsTile' /\ WritesApart' /\ CountsAgree' /\ Called'
    BY <1>2, <1>5 DEF ReadsTile, WritesApart, CountsAgree, Skew, Sent, Before, Called, WireInv
<1>7. Kept'
    BY <1>1, <1>2, <1>5 DEF Kept, WireInv
<1> QED BY <1>3, <1>4, <1>6, <1>7 DEF WireInv

LEMMA Appended ==
    ASSUME dq \in Seq(Entry), NEW e \in Entry, dq' = Append(dq, e)
    PROVE  /\ dq' \in Seq(Entry) /\ dq'[Len(dq) + 1] = e
           /\ DOMAIN dq = 1 .. Len(dq) /\ DOMAIN dq' = 1 .. Len(dq) + 1 /\ Len(dq) \in Nat
           /\ \A q \in DOMAIN dq : dq'[q] = dq[q] /\ Before(q)' = Before(q)
           /\ \A q \in DOMAIN dq' : q = Len(dq) + 1 => Before(q)' = Pending("READ")
           /\ Pending("READ") \in Nat /\ Pending("WRITE") \in Nat
           /\ Pending("READ")' = Pending("READ") + Num(e, "READ")
           /\ Pending("WRITE")' = Pending("WRITE") + Num(e, "WRITE")
<1>1. /\ dq' \in Seq(Entry) /\ Len(dq') = Len(dq) + 1 /\ dq'[Len(dq) + 1] = e
      /\ DOMAIN dq = 1 .. Len(dq) /\ DOMAIN dq' = 1 .. Len(dq) + 1 /\ Len(dq) \in Nat
      /\ \A q \in DOMAIN dq : dq'[q] = dq[q]
    OBVIOUS
<1>2. \A k \in 0 .. Len(dq) : Bytes(dq', "READ")[k] = Bytes(dq, "READ")[k]
    BY BytesAppend
<1>3. /\ Bytes(dq', "READ")[Len(dq) + 1] = Bytes(dq, "READ")[Len(dq)] + Num(e, "READ")
      /\ Bytes(dq', "WRITE")[Len(dq) + 1] = Bytes(dq, "WRITE")[Len(dq)] + Num(e, "WRITE")
    BY BytesAppend
<1>4. \A q \in DOMAIN dq : q - 1 \in 0 .. Len(dq)
    BY <1>1
<1>5. \A q \in DOMAIN dq : Before(q)' = Before(q)
    BY <1>2, <1>4 DEF Before
<1>6. ASSUME NEW q \in DOMAIN dq', q = Len(dq) + 1 PROVE Before(q)' = Pending("READ")
    <2>1. q - 1 = Len(dq)
        BY <1>1, <1>6
    <2>2. Bytes(dq', "READ")[Len(dq)] = Bytes(dq, "READ")[Len(dq)]
        BY <1>1, <1>2
    <2> QED BY <2>1, <2>2 DEF Before, Pending
<1>7. Pending("READ") \in Nat /\ Pending("WRITE") \in Nat
    BY BytesDef, <1>1 DEF Pending
<1> QED BY <1>1, <1>3, <1>5, <1>6, <1>7 DEF Pending

LEMMA Emptied ==
    ASSUME dq' = <<>>
    PROVE  /\ dq' \in Seq(Entry) /\ DOMAIN dq' = {}
           /\ Pending("READ")' = 0 /\ Pending("WRITE")' = 0
<1>1. <<>> \in Seq(Entry) /\ Len(<<>>) = 0 /\ DOMAIN <<>> = {}
    OBVIOUS
<1>2. Bytes(<<>>, "READ")[0] = 0 /\ Bytes(<<>>, "WRITE")[0] = 0
    BY <1>1, BytesDef
<1> QED BY <1>1, <1>2 DEF Pending

\* A call that is refused forgets all that is queued.
LEMMA FlushKeeps ==
    ASSUME WireInv, pc = "ready", ~transmitting, flush,
           UNCHANGED <<transmitting, pc, call, txBuffer, result, at>>,
           rxBuffer' \in [0 .. BufLen - 1 -> Int], skewed' \in BOOLEAN, wrote' \in Seq(Bit)
    PROVE  WireInv'
<1>1. /\ dq' \in Seq(Entry) /\ DOMAIN dq' = {}
      /\ Pending("READ")' = 0 /\ Pending("WRITE")' = 0
    BY Emptied DEF flush
<1>2. /\ tx' \in Count /\ rx' \in Count
      /\ tx'.index = 0 /\ tx'.length = 0 /\ rx'.index = 0 /\ rx'.length = 0
      /\ tx'.queued = 0 /\ rx'.queued = 0 /\ blame' = "none" /\ BufLen \in Nat
    BY WireAssumption DEF flush, Nothing, Count
<1>3. WireTypes'
    BY <1>1, <1>2 DEF WireTypes, WireInv
<1>4. Calling' /\ Writing' /\ Whole' /\ ReadsTile' /\ WritesApart' /\ Called'
    BY <1>1, <1>2 DEF Calling, Writing, Whole, ReadsTile, WritesApart, Called, WireInv
<1>5. Kept' /\ Readable' /\ CountsAgree'
    BY <1>1, <1>2 DEF Kept, Readable, CountsAgree, Skew
<1> QED BY <1>3, <1>4, <1>5 DEF WireInv

LEMMA EndKeeps ==
    ASSUME WireInv, NEW sendStop \in BOOLEAN, endTransmission(sendStop), UNCHANGED lockVars
    PROVE  WireInv'
<1>0. tx \in Count /\ rx \in Count /\ dq \in Seq(Entry) /\ wrote \in Seq(Bit)
      /\ BufLen \in Nat /\ 0 \in 0 .. BufLen
    BY WireAssumption DEF WireInv, WireTypes
<1>1. tx.index \in Nat /\ tx.length \in Nat /\ tx.queued \in 0 .. BufLen
    BY <1>0, Counts
<1>2. /\ pc = "ready" /\ wrote' = <<>>
      /\ UNCHANGED <<txBuffer, rxBuffer, result, at>>
    BY DEF endTransmission, lockVars
<1>3. CASE ~transmitting
    <2>1. /\ flush /\ UNCHANGED <<transmitting, pc, call, skewed>>
        BY <1>3 DEF endTransmission
    <2>2. rxBuffer' \in [0 .. BufLen - 1 -> Int] /\ skewed' \in BOOLEAN /\ wrote' \in Seq(Bit)
        BY <1>2, <2>1 DEF WireInv, WireTypes
    <2> QED BY <1>2, <1>3, <2>1, <2>2, FlushKeeps
<1>4. CASE transmitting
    <2> DEFINE num == tx.length - tx.queued
               e   == [mode |-> "WRITE", at |-> tx.queued, num |-> num, want |-> wrote]
    <2>1. /\ dq' = Append(dq, e) /\ skewed' = (skewed \/ Skew)
          /\ UNCHANGED <<rx, blame>>
        BY <1>4 DEF endTransmission, AddQueue
    <2>2. tx.length = tx.queued + Len(wrote) /\ tx.length <= BufLen
        BY <1>2, <1>4 DEF Writing, WireInv, WireTypes
    <2>3. e \in Entry /\ num = Len(wrote)
        BY <1>0, <1>1, <2>2 DEF Entry
    <2> HIDE DEF num
    <2>4. /\ dq' \in Seq(Entry) /\ dq'[Len(dq) + 1] = e
          /\ DOMAIN dq = 1 .. Len(dq) /\ DOMAIN dq' = 1 .. Len(dq) + 1 /\ Len(dq) \in Nat
          /\ \A q \in DOMAIN dq : dq'[q] = dq[q] /\ Before(q)' = Before(q)
          /\ Pending("READ")' = Pending("READ")
          /\ Pending("WRITE")' = Pending("WRITE") + num /\ Pending("WRITE") \in Nat
        <3>1. Num(e, "READ") = 0 /\ Num(e, "WRITE") = num
            BY DEF Num
        <3> HIDE DEF e
        <3> QED BY <1>0, <2>1, <2>3, <3>1, Appended
    <2>5. Whole'
        <3>1. \A q \in DOMAIN dq' : q \in DOMAIN dq \/ q = Len(dq) + 1
            BY <2>4
        <3>2. tx.queued + num <= BufLen
            BY <1>1, <2>2, <2>3
        <3> QED BY <2>3, <2>4, <3>1, <3>2 DEF Whole, WireInv
    <2>6. ReadsTile'
        <3>1. \A q \in DOMAIN dq' : q \in DOMAIN dq \/ dq'[q].mode = "WRITE"
            BY <2>4
        <3> QED BY <2>1, <2>4, <3>1 DEF ReadsTile, WireInv
    <2>7. rx' = rx /\ skewed' \in BOOLEAN /\ (skewed => skewed')
        BY <2>1 DEF WireInv, WireTypes
    <2>8. Kept' /\ Readable'
        <3>1. call.op # "request"
            BY <1>2 DEF WireInv, Calling
        <3> QED BY <1>2, <2>1, <2>4, <2>7, <3>1 DEF Kept, Readable, WireInv
    \* the part that was written is there to be sent, and so is what was queued before
    <2>9. ASSUME tx.queued = Pending("WRITE"), NEW q \in DOMAIN dq', dq'[q].mode = "WRITE"
          PROVE  Sent(q)' /\ (dq'[q].num > 0 => dq'[q].at + dq'[q].num <= tx.length)
        <3>1. CASE q = Len(dq) + 1
            <4>1. ASSUME NEW i \in 1 .. num
                  PROVE  wrote[i] = txBuffer[tx.queued + i - 1]
                BY <1>2, <1>4, <2>3 DEF Writing, WireInv
            <4>2. dq'[q].want = wrote /\ dq'[q].num = num /\ dq'[q].at = tx.queued
                BY <2>4, <3>1
            <4> QED BY <1>1, <1>2, <2>2, <2>3, <4>1, <4>2 DEF Sent
        <3>2. CASE q # Len(dq) + 1
            <4>1. q \in DOMAIN dq /\ dq'[q] = dq[q] /\ dq[q] \in Entry
                BY <1>0, <2>4, <3>2
            <4>2. dq[q].num \in Nat /\ dq[q].at \in Nat
                BY <4>1 DEF Entry
            <4>3. CASE dq[q].num > 0
                <5>1. dq[q].at + dq[q].num <= tx.queued /\ Sent(q)
                    BY <1>2, <2>9, <4>1, <4>3 DEF WritesApart, WireInv
                <5> QED BY <1>1, <1>2, <2>2, <2>3, <4>1, <4>2, <5>1 DEF Sent
            <4>4. CASE dq[q].num = 0
                BY <4>1, <4>4 DEF Sent
            <4> QED BY <4>2, <4>3, <4>4
        <3> QED BY <3>1, <3>2
    <2>10. CASE sendStop
        <3>1. pc' = "called" /\ call' = [op |-> "end", cnt |-> 0] /\ UNCHANGED <<tx, transmitting>>
            BY <1>4, <2>10 DEF endTransmission
        <3>2. WireTypes'
            <4>1. call' \in [op : {"none", "end", "request"}, cnt : Nat] /\ wrote' \in Seq(Bit)
                BY <1>2, <3>1
            <4> QED BY <1>2, <2>1, <2>4, <2>7, <3>1, <4>1 DEF WireTypes, WireInv
        <3>3. Calling' /\ Writing' /\ WritesApart' /\ CountsAgree'
            BY <1>2, <3>1 DEF Calling, Writing, WritesApart, CountsAgree, WireInv
        <3>4. Called'
            <4>1. ~skewed' => rx.queued = Pending("READ") /\ tx.queued = Pending("WRITE")
                BY <2>1 DEF Skew
            <4> QED BY <2>4, <2>7, <2>9, <3>1, <4>1 DEF Called
        <3> QED BY <2>5, <2>6, <2>8, <3>2, <3>3, <3>4 DEF WireInv
    <2>11. CASE ~sendStop
        <3>1. /\ tx' = [index |-> 0, length |-> 0, queued |-> tx.length]
              /\ transmitting' = FALSE /\ UNCHANGED <<pc, call>>
            BY <1>4, <2>11 DEF endTransmission
        <3>2. WireTypes'
            <4>1. wrote' \in Seq(Bit)
                BY <1>2
            <4>2. tx' \in Count /\ tx'.index <= BufLen /\ tx'.length <= BufLen
                BY <1>0, <1>1, <2>2, <3>1 DEF Count
            <4> QED BY <1>2, <2>1, <2>4, <2>7, <3>1, <4>1, <4>2 DEF WireTypes, WireInv
        <3>3. Calling' /\ Writing' /\ Called'
            BY <1>2, <3>1 DEF Calling, Writing, Called, WireInv
        <3>4. tx'.queued = Pending("WRITE")' <=> tx.queued = Pending("WRITE")
            BY <1>1, <2>2, <2>3, <2>4, <3>1
        <3>5. WritesApart'
            <4>1. tx'.queued = tx.length
                BY <3>1
            <4> QED BY <2>9, <3>4, <4>1 DEF WritesApart
        <3>6. CountsAgree'
            <4>1. /\ tx.queued >= Pending("WRITE") => tx'.queued >= Pending("WRITE")'
                  /\ tx.queued <= Pending("WRITE") => tx'.queued <= Pending("WRITE")'
                BY <1>1, <2>2, <2>3, <2>4, <3>1
            <4> QED BY <1>2, <2>1, <2>4, <2>7, <4>1 DEF CountsAgree, WireInv
        <3> QED BY <2>5, <2>6, <2>8, <3>2, <3>3, <3>5, <3>6 DEF WireInv
    <2> QED BY <2>10, <2>11
<1> QED BY <1>3, <1>4

LEMMA RequestKeeps ==
    ASSUME WireInv, NEW size \in Sizes, NEW sendStop \in BOOLEAN,
           requestFrom(size, sendStop), UNCHANGED lockVars
    PROVE  WireInv'
<1> DEFINE cnt == rx.queued
<1>0. tx \in Count /\ rx \in Count /\ dq \in Seq(Entry) /\ wrote \in Seq(Bit)
      /\ BufLen \in Nat \ {0} /\ size \in Nat
    BY WireAssumption DEF WireInv, WireTypes
<1>1. tx.index \in Nat /\ tx.length \in Nat /\ tx.queued \in 0 .. BufLen /\ cnt \in 0 .. BufLen
    BY <1>0, Counts
<1>2. /\ pc = "ready" /\ ~transmitting /\ skewed' = Skew
      /\ UNCHANGED <<txBuffer, transmitting, result, wrote, at>>
      /\ rxBuffer' \in [0 .. BufLen - 1 -> Int]
    BY DEF requestFrom, Forget, Stale, lockVars
<1>3. skewed' \in BOOLEAN
    BY <1>2 DEF Skew
<1>4. ~skewed' => rx.queued = Pending("READ") /\ tx.queued = Pending("WRITE")
    BY <1>2 DEF Skew
<1>5. CASE ~(cnt < BufLen - 1 /\ size + cnt <= BufLen)
    <2>1. flush /\ UNCHANGED <<pc, call>>
        BY <1>5 DEF requestFrom
    <2> QED BY <1>0, <1>2, <1>3, <2>1, FlushKeeps
<1>6. CASE (cnt < BufLen - 1 /\ size + cnt <= BufLen) /\ size = 0
    <2>1. /\ rx' = [index |-> 0, length |-> cnt, queued |-> 0]
          /\ tx' = [tx EXCEPT !.queued = 0]
          /\ blame' = "empty" /\ UNCHANGED <<dq, pc, call>>
        BY <1>6 DEF requestFrom
    <2>2. tx' = [index |-> tx.index, length |-> tx.length, queued |-> 0]
        <3>1. 0 \in 0 .. BufLen
            BY <1>0
        <3> QED BY <1>0, <1>1, <2>1, <3>1, CountsSet
    <2>3. WireTypes'
        <3>1. /\ rx' \in Count /\ rx'.index <= rx'.length /\ tx' \in Count
              /\ tx'.index = tx.index /\ tx'.length = tx.length
            BY <1>0, <1>1, <2>1, <2>2 DEF Count
        <3> QED BY <1>2, <1>3, <2>1, <3>1 DEF WireTypes, WireInv
    <2>4. Calling' /\ Writing' /\ Whole' /\ Called'
        BY <1>2, <2>1 DEF Calling, Writing, Whole, Called, WireInv
    <2>5. \A mode : Pending(mode)' = Pending(mode)
        BY <2>1 DEF Pending
    <2>8. CountsAgree'
        <3>1. Pending("READ") \in Nat /\ Pending("WRITE") \in Nat
            BY <1>0, BytesDef DEF Pending
        <3>2. blame' = "empty" /\ rx'.queued = 0 /\ tx'.queued = 0
            BY <2>1, <2>2
        <3> QED BY <2>5, <3>1, <3>2 DEF CountsAgree
    <2>6. ReadsTile' /\ WritesApart'
        <3>1. \A q \in DOMAIN dq : Pending(dq[q].mode) = 0 => dq[q].num = 0
            BY <1>0, BytesNone DEF Pending
        <3> QED BY <2>1, <2>2, <2>5, <3>1 DEF ReadsTile, WritesApart, Whole, WireInv
    <2>7. Kept' /\ Readable'
        <3>1. Pending("READ") = cnt => cnt = 0 \/ Pending("READ") > 0
            BY <1>1
        <3> QED BY <1>1, <1>4, <2>1, <2>5, <3>1 DEF Kept, Readable
    <2> QED BY <2>3, <2>4, <2>6, <2>7, <2>8 DEF WireInv
<1>7. CASE (cnt < BufLen - 1 /\ size + cnt <= BufLen) /\ size # 0
    <2> DEFINE e == [mode |-> "READ", at |-> cnt, num |-> size, want |-> <<>>]
    <2>1. dq' = Append(dq, e) /\ UNCHANGED <<tx, blame>>
        BY <1>7 DEF requestFrom, AddQueue
    <2>2. e \in Entry
        BY <1>0, <1>1 DEF Entry
    <2>3. /\ dq' \in Seq(Entry) /\ dq'[Len(dq) + 1] = e
          /\ DOMAIN dq = 1 .. Len(dq) /\ DOMAIN dq' = 1 .. Len(dq) + 1 /\ Len(dq) \in Nat
          /\ \A q \in DOMAIN dq : dq'[q] = dq[q] /\ Before(q)' = Before(q)
          /\ \A q \in DOMAIN dq' : q = Len(dq) + 1 => Before(q)' = Pending("READ")
          /\ Pending("READ")' = Pending("READ") + size /\ Pending("READ") \in Nat
          /\ Pending("WRITE")' = Pending("WRITE")
        <3>1. Num(e, "READ") = size /\ Num(e, "WRITE") = 0
            BY DEF Num
        <3>2. Pending("WRITE") \in Nat => Pending("WRITE") + 0 = Pending("WRITE")
            OBVIOUS
        <3> HIDE DEF e
        <3> QED BY <1>0, <2>1, <2>2, <3>1, <3>2, Appended
    <2>4. \A q \in DOMAIN dq' : q \in DOMAIN dq \/ (q = Len(dq) + 1 /\ dq'[q] = e)
        BY <2>3
    <2>5. rx'.queued = cnt + size
        <3>1. CASE sendStop
            <4>1. rx' = [rx EXCEPT !.queued = cnt + size]
                BY <1>7, <3>1 DEF requestFrom
            <4> QED BY <1>0, <4>1 DEF Count
        <3>2. CASE ~sendStop
            BY <1>7, <3>2 DEF requestFrom
        <3> QED BY <3>1, <3>2
    <2>6. Whole'
        <3>1. e.at + e.num <= BufLen /\ e.num > 0 /\ e.mode = "READ"
            BY <1>0, <1>1, <1>7
        <3> HIDE DEF e
        <3> QED BY <2>3, <2>4, <3>1 DEF Whole, WireInv
    <2>7. rx'.queued = Pending("READ")' <=> rx.queued = Pending("READ")
        BY <1>0, <1>1, <2>3, <2>5
    <2>8. ReadsTile'
        BY <2>3, <2>4, <2>7 DEF ReadsTile, WireInv
    <2>9. Kept'
        BY <1>0, <1>1, <1>7, <2>5 DEF Kept
    <2>10. Writing'
        BY <1>2 DEF Writing
    <2>11. ASSUME tx.queued = Pending("WRITE"), NEW q \in DOMAIN dq', dq'[q].mode = "WRITE"
           PROVE  Sent(q)' /\ (dq'[q].num > 0 => dq'[q].at + dq'[q].num <= tx.queued)
        <3>1. q \in DOMAIN dq /\ dq'[q] = dq[q] /\ dq[q] \in Entry
            BY <1>0, <2>3, <2>4, <2>11
        <3>2. dq[q].num \in Nat
            BY <3>1 DEF Entry
        <3>3. CASE dq[q].num > 0
            BY <1>2, <2>11, <3>1, <3>3 DEF WritesApart, Sent, WireInv
        <3>4. CASE dq[q].num = 0
            BY <3>1, <3>4 DEF Sent
        <3> QED BY <3>2, <3>3, <3>4
    <2>12. CASE sendStop
        <3>1. /\ pc' = "called" /\ call' = [op |-> "request", cnt |-> cnt]
              /\ rx' = [rx EXCEPT !.queued = cnt + size]
            BY <1>7, <2>12 DEF requestFrom
        <3>2. WireTypes'
            <4>1. call' \in [op : {"none", "end", "request"}, cnt : Nat]
                BY <1>1, <3>1
            <4>2. rx' \in Count /\ rx'.index = rx.index /\ rx'.length = rx.length
                <5>1. cnt + size \in 0 .. BufLen /\ rx.index \in Nat /\ rx.length \in Nat
                    BY <1>0, <1>1, <1>7, Counts
                <5>2. rx' = [index |-> rx.index, length |-> rx.length, queued |-> cnt + size]
                    BY <1>0, <3>1, <5>1, CountsSet
                <5> QED BY <1>0, <5>1, <5>2, CountsSet
            <4> QED BY <1>2, <1>3, <2>1, <2>3, <3>1, <4>1, <4>2 DEF WireTypes, WireInv
        <3>3. Calling'
            <4>1. rx'.queued > 0
                BY <1>0, <1>1, <1>7, <2>5
            <4> QED BY <1>2, <3>1, <4>1 DEF Calling, WireInv
        <3>4. WritesApart' /\ CountsAgree' /\ Readable'
            BY <3>1 DEF WritesApart, CountsAgree, Readable
        <3>5. Called'
            BY <1>4, <2>7, <2>11, <3>1 DEF Called
        <3> QED BY <2>6, <2>8, <2>9, <2>10, <3>2, <3>3, <3>4, <3>5 DEF WireInv
    <2>13. CASE ~sendStop
        <3>1. /\ rx' = [index |-> 0, length |-> cnt, queued |-> cnt + size]
              /\ UNCHANGED <<pc, call>>
            BY <1>7, <2>13 DEF requestFrom
        <3>2. WireTypes'
            <4>1. rx' \in Count /\ rx'.index <= rx'.length
                BY <1>0, <1>1, <1>7, <3>1 DEF Count
            <4> QED BY <1>2, <1>3, <2>1, <2>3, <3>1, <4>1 DEF WireTypes, WireInv
        <3>3. Calling' /\ Called' /\ Readable'
            BY <1>1, <1>2, <3>1 DEF Calling, Called, Readable, WireInv
        <3>4. WritesApart'
            BY <2>1, <2>3, <2>11 DEF WritesApart
        <3>5. CountsAgree'
            <4>1. /\ rx.queued >= Pending("READ") => rx'.queued >= Pending("READ")'
                  /\ rx.queued <= Pending("READ") => rx'.queued <= Pending("READ")'
                BY <1>0, <1>1, <2>3, <2>5
            <4> QED BY <1>2, <2>1, <2>3, <4>1 DEF CountsAgree, WireInv
        <3> QED BY <2>6, <2>8, <2>9, <2>10, <3>2, <3>3, <3>4, <3>5 DEF WireInv
    <2> QED BY <2>12, <2>13
<1> QED BY <1>5, <1>6, <1>7

-----------------------------------------------------------------------------
(* The driver keeps it, and its answer is in order. *)

\* A byte of the buffer is as it was, or comes from a read that holds it.
LEMMA AnswerByte ==
    ASSUME dq \in Seq(Entry), BufLen \in Nat, NEW count \in Nat, NEW i \in 0 .. BufLen - 1
    PROVE  \/ /\ Answer(count)[i] = rxBuffer[i]
              /\ \A q \in DOMAIN dq : dq[q].mode = "READ" =>
                    ~ (/\ i \in dq[q].at .. dq[q].at + dq[q].num - 1
                       /\ Before(q) + i - dq[q].at < count)
           \/ \E q \in DOMAIN dq : /\ dq[q].mode = "READ"
                                   /\ Answer(count)[i] = Before(q) + i - dq[q].at
                                   /\ Before(q) + i - dq[q].at < count
<1> DEFINE holds == {q \in DOMAIN dq : /\ dq[q].mode = "READ"
                                      /\ i \in dq[q].at .. dq[q].at + dq[q].num - 1
                                      /\ Before(q) + i - dq[q].at < count}
           q == CHOOSE h \in holds : \A g \in holds : g <= h
<1>1. Answer(count)[i] = IF holds = {} THEN rxBuffer[i] ELSE Before(q) + i - dq[q].at
    BY DEF Answer
<1>2. CASE holds = {}
    BY <1>1, <1>2
<1>3. CASE holds # {}
    <2>1. holds \in SUBSET (0 .. Len(dq)) /\ Len(dq) \in Nat
        OBVIOUS
    <2>2. \E h \in holds : \A g \in holds : g <= h
        <3> HIDE DEF holds
        <3> QED BY <1>3, <2>1, Greatest
    <2>3. q \in holds
        <3> HIDE DEF holds
        <3> QED BY <2>2
    <2> HIDE DEF q
    <2> QED BY <1>1, <1>3, <2>3
<1> QED BY <1>2, <1>3

LEMMA AnswerType ==
    ASSUME dq \in Seq(Entry), BufLen \in Nat, NEW count \in Nat,
           rxBuffer \in [0 .. BufLen - 1 -> Int]
    PROVE  Answer(count) \in [0 .. BufLen - 1 -> Int]
<1>1. ASSUME NEW i \in 0 .. BufLen - 1 PROVE Answer(count)[i] \in Int
    <2>1. ASSUME NEW q \in DOMAIN dq PROVE dq[q].at \in Nat /\ Before(q) \in Nat
        <3>1. dq[q] \in Entry /\ q - 1 \in 0 .. Len(dq)
            OBVIOUS
        <3> QED BY <3>1, BytesDef DEF Entry, Before
    <2>2. CASE Answer(count)[i] = rxBuffer[i]
        BY <2>2
    <2>3. CASE \E q \in DOMAIN dq : Answer(count)[i] = Before(q) + i - dq[q].at
        BY <2>1, <2>3
    <2> QED BY <2>2, <2>3, AnswerByte
<1>2. Answer(count) = [i \in 0 .. BufLen - 1 |-> Answer(count)[i]]
    BY DEF Answer
<1> QED BY <1>1, <1>2

LEMMA TransferKeeps ==
    ASSUME WireInv, Transfer, pc = "called", pc' = "returned", at' = "out"
    PROVE  WireInv'
<1>0. tx \in Count /\ rx \in Count /\ dq \in Seq(Entry) /\ BufLen \in Nat
      /\ rxBuffer \in [0 .. BufLen - 1 -> Int]
    BY WireAssumption DEF WireInv, WireTypes
<1>1. rx.queued \in 0 .. BufLen /\ Pending("READ") \in Nat
    <2>1. Len(dq) \in 0 .. Len(dq)
        BY <1>0
    <2> QED BY <1>0, <2>1, Counts, BytesDef DEF Pending
<1>2. UNCHANGED <<tx, rx, txBuffer, transmitting, dq, call, wrote, blame, skewed>>
    BY DEF Transfer
<1>3. PICK count \in 0 .. Pending("READ") :
            /\ \/ result' = [err |-> "OK", count |-> count] /\ count = Pending("READ")
               \/ result' = [err |-> "ACK", count |-> count]
            /\ result'.count = count
    <2>1. CASE result' = [err |-> "OK", count |-> Pending("READ")]
        BY <1>1, <2>1
    <2>2. CASE \E count \in 0 .. Pending("READ") - 1 : result' = [err |-> "ACK", count |-> count]
        BY <1>1, <2>2
    <2>3. CASE Pending("READ") = 0 /\ result' = [err |-> "ACK", count |-> 0]
        BY <1>1, <2>3
    <2> QED BY <2>1, <2>2, <2>3 DEF Transfer
<1>4. rxBuffer' = Answer(count) /\ count \in Nat
    BY <1>1, <1>3 DEF Transfer
<1>5. WireTypes'
    <2>1. rxBuffer' \in [0 .. BufLen - 1 -> Int]
        BY <1>0, <1>4, AnswerType
    <2>2. result' \in [err : {"OK", "ACK", "BUSY"}, count : Nat]
        BY <1>3, <1>4
    <2> QED BY <1>2, <2>1, <2>2 DEF WireTypes, WireInv
<1>6. Calling' /\ Writing' /\ Whole' /\ WritesApart' /\ CountsAgree' /\ Readable'
    BY <1>2 DEF Calling, Writing, Whole, WritesApart, CountsAgree, Readable, WireInv
<1>7. \A mode : Pending(mode)' = Pending(mode)
    BY <1>2 DEF Pending
<1>8. ReadsTile'
    BY <1>2, <1>7 DEF ReadsTile, Before, WireInv
<1>9. ASSUME ~skewed
      PROVE  /\ rx.queued = Pending("READ")
             /\ \A q \in DOMAIN dq : dq[q].mode = "READ" => dq[q].at = Before(q)
    BY <1>9 DEF Called, ReadsTile, WireInv
<1>10. ASSUME NEW q \in DOMAIN dq
       PROVE  dq[q].at \in Nat /\ dq[q].num \in Nat /\ Before(q) \in Nat
    <2>1. dq[q] \in Entry /\ q - 1 \in 0 .. Len(dq)
        BY <1>0
    <2> QED BY <1>0, <2>1, BytesDef DEF Entry, Before
<1>11. Called'
    <2>1. SUFFICES ASSUME ~skewed
                   PROVE  /\ rx.queued = Pending("READ")
                          /\ \A q \in DOMAIN dq : dq[q].mode = "WRITE" => Sent(q)
                          /\ count <= rx.queued
                          /\ result'.err = "OK" => count = rx.queued
                          /\ \A i \in 0 .. count - 1 : rxBuffer'[i] = i
        BY <1>2, <1>3, <1>7 DEF Called, Sent
    <2>2. \A q \in DOMAIN dq : dq[q].mode = "WRITE" => Sent(q)
        BY <2>1 DEF Called, WireInv
    <2>3. ASSUME NEW i \in 0 .. count - 1 PROVE rxBuffer'[i] = i
        <3>1. i \in 0 .. BufLen - 1 /\ i \in Nat /\ i < Pending("READ")
            <4>1. Pending("READ") <= BufLen
                BY <1>0, <1>1, <1>9, <2>1
            <4> QED BY <1>0, <1>1, <2>3, <4>1
        <3>2. PICK q \in DOMAIN dq : /\ dq[q].mode = "READ" /\ Before(q) <= i
                                     /\ i < Before(q) + dq[q].num
            BY <1>0, <3>1, BytesFind DEF Pending, Before
        <3>3. /\ i \in dq[q].at .. dq[q].at + dq[q].num - 1
              /\ Before(q) + i - dq[q].at < count
            BY <1>9, <1>10, <2>1, <2>3, <3>1, <3>2
        <3>4. PICK p \in DOMAIN dq : dq[p].mode = "READ" /\ rxBuffer'[i] = Before(p) + i - dq[p].at
            BY <1>0, <1>4, <3>1, <3>2, <3>3, AnswerByte
        <3> QED BY <1>9, <1>10, <2>1, <3>1, <3>4
    <2> QED BY <1>1, <1>3, <1>9, <2>1, <2>2, <2>3
<1>12. Kept'
    <2>1. SUFFICES ASSUME rx.queued = 0, ~skewed PROVE rxBuffer' = rxBuffer
        BY <1>2, <1>7 DEF Kept, WireInv
    <2>2. count = 0
        BY <1>1, <1>3, <1>9, <2>1
    <2>3. ASSUME NEW i \in 0 .. BufLen - 1 PROVE rxBuffer'[i] = rxBuffer[i]
        <3>1. \A q \in DOMAIN dq : dq[q].mode = "READ" => ~ (Before(q) + i - dq[q].at < 0)
            BY <1>9, <1>10, <2>1
        <3> QED BY <1>0, <1>4, <2>2, <3>1, AnswerByte
    <2>4. rxBuffer' \in [0 .. BufLen - 1 -> Int]
        BY <1>5 DEF WireTypes
    <2> QED BY <1>0, <2>3, <2>4
<1> QED BY <1>5, <1>6, <1>8, <1>11, <1>12 DEF WireInv

LEMMA SameWire ==
    ASSUME WireInv, UNCHANGED wireVars, Calling' PROVE WireInv'
<1> USE DEF wireVars
<1>1. WireTypes' /\ Writing' /\ Whole' /\ Readable'
    BY DEF WireTypes, Writing, Whole, Readable, WireInv
<1>2. \A mode : Pending(mode)' = Pending(mode)
    BY DEF Pending
<1>3. ReadsTile' /\ WritesApart' /\ Called' /\ Kept' /\ CountsAgree'
    BY <1>2 DEF ReadsTile, WritesApart, Called, Kept, CountsAgree, Skew, Sent, Before, WireInv
<1> QED BY <1>1, <1>3 DEF WireInv

LEMMA DriverKeeps ==
    ASSUME WireInv, Busy \/ Driver PROVE WireInv'
<1>1. CASE UNCHANGED wireVars
    <2>1. Calling'
        <3>1. at' # "out" => pc = "called"
            <4>1. at # "out" => pc = "called"
                BY DEF WireInv, Calling
            <4> QED BY <4>1 DEF Busy, Driver, Enter, Install, Run, InitLock, Remove,
                                InitUnlock, InitFrequency
        <3>2. at' \in {"out", "install", "run", "init", "remove", "initialized", "frequency"}
            BY DEF WireInv, Calling, Busy, Driver, Enter, Install, Run, InitLock, Remove,
                   InitUnlock, InitFrequency
        <3> QED BY <1>1, <3>1, <3>2 DEF Calling, WireInv, wireVars
    <2> QED BY <1>1, <2>1, SameWire
<1>2. CASE Transfer /\ at = "run" /\ pc' = "returned" /\ at' = "out"
    <2>1. pc = "called"
        BY <1>2 DEF WireInv, Calling
    <2> QED BY <1>2, <2>1, TransferKeeps
<1>3. CASE /\ at \in {"run", "frequency"} \/ pc = "called"
           /\ at' = "out" /\ BusyReported
    <2> USE DEF BusyReported
    <2>1. pc = "called"
        BY <1>3 DEF WireInv, Calling
    <2>2. WireTypes'
        <3>1. result' \in [err : {"OK", "ACK", "BUSY"}, count : Nat]
            BY <1>3
        <3> QED BY <1>3, <3>1 DEF WireTypes, WireInv
    <2>3. \A mode : Pending(mode)' = Pending(mode)
        BY <1>3 DEF Pending
    <2>4. Calling' /\ Writing' /\ Whole' /\ WritesApart' /\ CountsAgree' /\ Readable'
        BY <1>3, <2>1 DEF Calling, Writing, Whole, WritesApart, CountsAgree, Readable, WireInv
    <2>5. ReadsTile' /\ Kept'
        BY <1>3, <2>3 DEF ReadsTile, Before, Kept, WireInv
    <2>6. Called'
        <3>1. rx.queued \in 0 .. BufLen /\ BufLen \in Nat
            BY WireAssumption, Counts DEF WireInv, WireTypes
        <3> QED BY <1>3, <2>1, <2>3, <3>1 DEF Called, Sent, WireInv
    <2> QED BY <2>2, <2>4, <2>5, <2>6 DEF WireInv
<1> QED BY <1>1, <1>2, <1>3 DEF Busy, Driver, Enter, Install, Run, InitLock, Remove,
                               InitUnlock, InitFrequency

LEMMA FinishKeeps ==
    ASSUME WireInv, Finish, UNCHANGED lockVars PROVE WireInv'
<1>0. tx \in Count /\ rx \in Count /\ BufLen \in Nat /\ 0 \in 0 .. BufLen
      /\ result.count \in Nat
    BY WireAssumption DEF WireInv, WireTypes
<1>1. tx.index \in Nat /\ tx.length \in Nat /\ tx.queued \in 0 .. BufLen
      /\ rx.index \in Nat /\ rx.length \in Nat /\ rx.queued \in 0 .. BufLen
    BY <1>0, Counts
<1>2. /\ pc = "returned" /\ pc' = "ready" /\ call' = [op |-> "none", cnt |-> 0]
      /\ result' = [err |-> "OK", count |-> 0]
      /\ UNCHANGED <<txBuffer, rxBuffer, wrote, skewed, at>>
    BY DEF Finish, lockVars
<1>3. /\ dq' \in Seq(Entry) /\ DOMAIN dq' = {}
      /\ Pending("READ")' = 0 /\ Pending("WRITE")' = 0
    BY Emptied DEF Finish
<1>4. /\ call' \in [op : {"none", "end", "request"}, cnt : Nat]
      /\ result' \in [err : {"OK", "ACK", "BUSY"}, count : Nat]
    BY <1>2
<1>5. Whole' /\ ReadsTile' /\ WritesApart' /\ Called' /\ Calling'
    BY <1>2, <1>3 DEF Whole, ReadsTile, WritesApart, Called, Calling, WireInv
<1>6. ~skewed => /\ rx.queued = Pending("READ") /\ result.count <= rx.queued
                 /\ result.err = "OK" => result.count = rx.queued
                 /\ \A i \in 0 .. result.count - 1 : rxBuffer[i] = i
    BY <1>2 DEF WireInv, Called
<1>7. CASE FinishRequest
    <2>1. /\ call.op = "request" /\ rx' = [index |-> 0, length |-> result.count, queued |-> 0]
          /\ tx' = [tx EXCEPT !.queued = 0] /\ blame' = "none"
          /\ ~transmitting' /\ transmitting' \in BOOLEAN
        BY <1>7 DEF FinishRequest, WireInv, WireTypes, Calling
    <2>2. tx' = [index |-> tx.index, length |-> tx.length, queued |-> 0]
        BY <1>0, <1>1, <2>1, CountsSet
    <2>3. WireTypes'
        <3>1. /\ rx' \in Count /\ rx'.index <= rx'.length /\ tx' \in Count
              /\ tx'.index = tx.index /\ tx'.length = tx.length
            BY <1>0, <1>1, <2>1, <2>2 DEF Count
        <3> QED BY <1>2, <1>3, <1>4, <2>1, <3>1 DEF WireTypes, WireInv
    <2>4. Writing' /\ CountsAgree'
        BY <1>2, <1>3, <2>1, <2>2 DEF Writing, CountsAgree, Skew
    <2>5. Kept' /\ Readable'
        BY <1>0, <1>1, <1>2, <1>6, <2>1 DEF Kept, Readable
    <2> QED BY <1>5, <2>3, <2>4, <2>5 DEF WireInv
<1>8. CASE FinishEnd
    <2>1. call.op = "end" /\ ~transmitting' /\ transmitting' \in BOOLEAN
        BY <1>8 DEF FinishEnd
    <2>2. Writing'
        BY <2>1 DEF Writing
    <2>3. CASE result.err = "OK"
        <3>1. /\ rx' = [index |-> 0, length |-> rx.queued, queued |-> 0]
              /\ tx' = [index |-> 0, length |-> 0, queued |-> 0] /\ blame' = "none"
            BY <1>8, <2>3 DEF FinishEnd, Nothing
        <3>2. WireTypes'
            <4>1. /\ rx' \in Count /\ rx'.index <= rx'.length /\ tx' \in Count
                  /\ tx'.index <= BufLen /\ tx'.length <= BufLen
                BY <1>0, <1>1, <3>1 DEF Count
            <4> QED BY <1>2, <1>3, <1>4, <2>1, <3>1, <4>1 DEF WireTypes, WireInv
        <3>3. CountsAgree'
            BY <1>3, <3>1 DEF CountsAgree, Skew
        <3>4. Kept' /\ Readable'
            BY <1>0, <1>1, <1>2, <1>6, <2>3, <3>1 DEF Kept, Readable
        <3> QED BY <1>5, <2>2, <3>2, <3>3, <3>4 DEF WireInv
    <2>4. CASE result.err # "OK"
        <3>1. /\ rx' = rx /\ tx' = [index |-> 0, length |-> 0, queued |-> tx.queued]
              /\ blame' = "end"
            BY <1>8, <2>4 DEF FinishEnd
        <3>2. WireTypes'
            <4>1. tx' \in Count /\ tx'.index <= BufLen /\ tx'.length <= BufLen
                BY <1>0, <1>1, <3>1 DEF Count
            <4> QED BY <1>2, <1>3, <1>4, <2>1, <3>1, <4>1 DEF WireTypes, WireInv
        <3>3. CountsAgree'
            <4>1. tx'.queued = tx.queued /\ rx'.queued = rx.queued /\ blame' = "end"
                BY <3>1
            <4> QED BY <1>0, <1>1, <1>3, <4>1 DEF CountsAgree
        <3>4. Readable'
            BY <1>2, <2>1, <3>1 DEF Readable, WireInv
        <3>5. Kept'
            <4>1. SUFFICES ASSUME rx.queued = 0, ~skewed
                           PROVE  \A i \in rx.index .. rx.length - 1 : rxBuffer[i] = i
                BY <1>2, <3>1 DEF Kept
            <4>2. CASE blame = "empty"
                BY <1>1, <1>6, <4>1, <4>2 DEF Kept, WireInv
            <4>3. CASE blame # "empty"
                BY <4>1, <4>3 DEF Kept, WireInv
            <4> QED BY <4>2, <4>3
        <3> QED BY <1>5, <2>2, <3>2, <3>3, <3>4, <3>5 DEF WireInv
    <2> QED BY <2>3, <2>4
<1> QED BY <1>7, <1>8 DEF Finish

LEMMA WireInvariant == Spec => []WireInv
<1>1. WireInv /\ [Next]_vars => WireInv'
    <2> SUFFICES ASSUME WireInv, [Next]_vars PROVE WireInv'
        OBVIOUS
    <2>1. CASE Client /\ UNCHANGED lockVars
        BY <2>1, BeginKeeps, WriteKeeps, ReadKeeps, EndKeeps, RequestKeeps, FinishKeeps
        DEF Client, Calls
    <2>2. CASE Busy \/ Driver
        BY <2>2, DriverKeeps
    <2>3. CASE ClockTask \/ UNCHANGED vars
        <3>1. UNCHANGED <<wireVars, at>>
            BY <2>3 DEF ClockTask, ClockStart, TakeList, WalkBefore, Change, WalkAfter, User,
                        vars, lockVars
        <3>2. Calling'
            BY <3>1 DEF Calling, WireInv, wireVars
        <3> QED BY <3>1, <3>2, SameWire
    <2> QED BY <2>1, <2>2, <2>3 DEF Next
<1> QED BY <1>1, WireInitially, PTL DEF Spec

\* One client, which makes no request inside a transmission: the indices of what is sent
\* and the entries in the driver's queue stay in the buffers, whatever their size.  Of what
\* is received the position is never beyond the end; the end is in the buffer between two
\* calls, but not after a call that found the driver's queue other than the object counts
\* it (after a failed endTransmission or a request of no bytes).
THEOREM IndicesInBuffers == Spec => []WireTypeOK
<1>1. WireInv => WireTypeOK
    <2> SUFFICES ASSUME WireInv PROVE WireTypeOK
        OBVIOUS
    <2>1. tx \in Count /\ rx \in Count /\ BufLen \in Nat
        BY WireAssumption DEF WireInv, WireTypes
    <2>2. tx.index \in Nat /\ tx.length \in Nat /\ tx.queued \in 0 .. BufLen
          /\ rx.index \in Nat /\ rx.length \in Nat /\ rx.queued \in 0 .. BufLen
        BY <2>1, Counts
    <2>3. tx.index \in 0 .. BufLen /\ tx.length \in 0 .. BufLen /\ rx.index <= rx.length
          /\ pc \in {"ready", "called", "returned"}
        BY <2>1, <2>2 DEF WireInv, WireTypes
    <2>4. pc = "ready" /\ ~skewed => rx.length <= BufLen
        BY DEF WireInv, Readable, Calling
    <2>5. \A q \in DOMAIN dq : dq[q].at + dq[q].num <= BufLen
        BY DEF WireInv, Whole
    <2> QED BY <2>2, <2>3, <2>4, <2>5 DEF WireTypeOK
<1> QED BY <1>1, WireInvariant, PTL

\* Between two calls the object and the driver agree about what is queued.  Two calls may
\* leave them apart, each in one direction: a failed endTransmission leaves the object
\* with no less than the driver holds, a request of no bytes with no more.
THEOREM CountsStayTrue == Spec => []CountsAgree
<1>1. WireInv => CountsAgree
    BY DEF WireInv
<1> QED BY <1>1, WireInvariant, PTL

\* read() gives the bytes of the last answer, in the order in which they were asked for.
\* Not so, and not claimed, while reads are still queued, after a request of no bytes, and
\* in an answer to which a call belongs that began with counts other than the driver's.
THEOREM ReadsAreFresh == Spec => []FreshReads
<1>1. WireInv => FreshReads
    BY DEF WireInv, FreshReads, Kept
<1> QED BY <1>1, WireInvariant, PTL

\* What goes over the bus are the bytes that the client wrote, part by part, in every
\* call that, like all since the last request, began with the driver's counts; after a
\* failed endTransmission the next one does not, and nothing is claimed of it.
THEOREM SendsWhatWasWritten == Spec => []SentAsWritten
<1>1. WireInv => SentAsWritten
    <2> SUFFICES ASSUME WireInv, pc = "called", ~skewed,
                        NEW q \in DOMAIN dq, dq[q].mode = "WRITE"
                 PROVE  dq[q].want = [i \in 1 .. dq[q].num |-> txBuffer[dq[q].at + i - 1]]
        BY DEF SentAsWritten
    <2>1. Sent(q) /\ Len(dq[q].want) = dq[q].num
        BY DEF WireInv, Called, Whole
    <2>2. dq[q] \in Entry
        BY DEF WireInv, WireTypes
    <2>3. dq[q].want \in Seq(Bit)
        BY <2>2 DEF Entry
    <2>4. dq[q].want = [i \in 1 .. dq[q].num |-> dq[q].want[i]]
        BY <2>1, <2>3
    <2> QED BY <2>1, <2>4 DEF Sent
<1> QED BY <1>1, WireInvariant, PTL

-----------------------------------------------------------------------------
(* Who waits for whom.  StuckOnlyInEmbrace says so with ENABLED, which is  *)
(* out of the provers' reach; here the guards of the steps are spelt out.  *)

ClientCanGoOn ==
    \/ pc = "called" /\ at = "out" /\ i2cOwner = "none"      \* Enter
    \/ at \in {"install", "remove"} /\ apbOwner = "none"     \* Install, Remove
    \/ at \in {"init", "frequency"} /\ i2cOwner = "none"     \* InitLock, InitFrequency
    \/ at \in {"run", "initialized"}                         \* Run, InitUnlock

ClockCanGoOn ==
    \/ ck \in {"before", "after"} /\ apbOwner = "none"                   \* TakeList
    \/ ck = "walk before" /\ (installed /\ ~slow => i2cOwner = "none")   \* WalkBefore
    \/ ck = "change"                                                     \* Change
    \/ ck = "walk after" /\ (installed => i2cOwner \in {"none", "clock"}) \* WalkAfter

\* A client that installs its callback is not in the list that is walked through.
ClockLabels ==
    /\ ck \in {"idle", "before", "walk before", "change", "after", "walk after"}
    /\ at = "install" => ~installed

LEMMA ClockLabelled == Spec => []ClockLabels
<1>1. Init => ClockLabels
    BY DEF Init, ClockLabels
<1>2. ClockLabels /\ [Next]_vars => ClockLabels'
    <2> SUFFICES ASSUME ClockLabels, [Next]_vars PROVE ClockLabels'
        OBVIOUS
    <2> USE DEF ClockLabels, Clock, User
    <2>4. CASE Busy
        <3>1. at' \in {"out", "init"} /\ UNCHANGED <<installed, ck>>
            BY <2>4 DEF Busy
        <3> QED BY <3>1
    <2>1. CASE Driver
        <3>1. CASE Enter
            BY <3>1 DEF Enter
        <3>2. CASE Install
            BY <3>2 DEF Install
        <3>3. CASE Run
            <4>1. at' \in {"out", "init"} /\ UNCHANGED Clock
                BY <3>3 DEF Run
            <4> QED BY <4>1
        <3>4. CASE InitLock
            BY <3>4 DEF InitLock
        <3>5. CASE Remove
            BY <3>5 DEF Remove
        <3>6. CASE InitUnlock
            BY <3>6 DEF InitUnlock
        <3>7. CASE InitFrequency
            BY <3>7 DEF InitFrequency
        <3> QED BY <2>1, <3>1, <3>2, <3>3, <3>4, <3>5, <3>6, <3>7 DEF Driver
    <2>2. CASE ClockTask
        <3>1. UNCHANGED <<at, installed>>
            BY <2>2 DEF ClockTask, ClockStart, TakeList, WalkBefore, Change, WalkAfter
        <3>2. ck' \in {"idle", "before", "walk before", "change", "after", "walk after"}
            BY <2>2 DEF ClockTask, ClockStart, TakeList, WalkBefore, Change, WalkAfter
        <3> QED BY <3>1, <3>2
    <2>3. CASE UNCHANGED lockVars
        BY <2>3 DEF ClockLabels, lockVars
    <2> QED BY <2>1, <2>2, <2>3, <2>4 DEF Next, vars
<1> QED BY <1>1, <1>2, PTL DEF Spec

\* While a call or a change of the clock is under way, the two tasks do not both wait
\* for a lock, but for the embrace of i2cReleaseISR and triggerApbChangeCallback.
THEOREM WaitsOnlyInEmbrace ==
    Spec => [](pc # "ready" \/ ck # "idle" =>
                   Embrace \/ ClientCanGoOn \/ ClockCanGoOn \/ pc = "returned")
<1>1. ASSUME LocksInv, WireInv, ClockLabels, pc # "ready" \/ ck # "idle"
      PROVE  Embrace \/ ClientCanGoOn \/ ClockCanGoOn \/ pc = "returned"
    <2> USE <1>1 DEF LocksInv, Held, LocksOK, Embrace, ClientCanGoOn, ClockCanGoOn
    <2>1. pc \in {"ready", "called", "returned"} /\ (at # "out" => pc = "called")
        BY DEF WireInv, WireTypes, Calling
    <2>2. CASE apbOwner = "clock"
        BY <2>1, <2>2 DEF ClockLabels
    <2>3. CASE apbOwner = "none"
        BY <2>1, <2>3 DEF ClockLabels
    <2> QED BY <2>2, <2>3
<1> QED BY <1>1, LocksInvariant, WireInvariant, ClockLabelled, PTL

==============================================================================
