--------------------------- MODULE I2cQueueProofs ---------------------------
(***************************************************************************)
(* What the operators of I2cTransfer do, for every queue, list of commands *)
(* and FIFO.  The loops of fillCmdQueue, fillTxFifo and emptyRxFifo are    *)
(* run round by round: each has a lemma that names the states it goes      *)
(* through.  The part of the transfer that lies between a position of the  *)
(* queue and a position of the list, the FIFOs or the wire is a window of  *)
(* its script, and each operator moves the edge of one window.             *)
(* At the end: the sum over the entries that BytesMoved folds, and the     *)
(* walk of i2c_update_error_byte_cnt.                                      *)
(***************************************************************************)
EXTENDS I2cTransfer, TLAPS, WellFoundedInduction, FiniteSetTheorems

-----------------------------------------------------------------------------
(* Induction over the natural numbers, for sets instead of predicates: the  *)
(* induction theorems of the library take the predicate as a parameter,     *)
(* which the provers cannot instantiate.                                    *)

Below == {p \in Nat \X Nat : p[1] < p[2]}

LEMMA BelowIsWellFounded == IsWellFoundedOn(Below, Nat)
BY NatLessThanWellFounded DEF OpToRel, Below

\* A set of numbers that is not empty has a least element.
LEMMA Least ==
    ASSUME NEW T \in SUBSET Nat, T # {}
    PROVE  \E x \in T : \A y \in T : x <= y
<1>1. PICK x \in T : \A y \in T : ~ (<<y, x>> \in Below)
    BY BelowIsWellFounded, WFMin
<1>2. ASSUME NEW y \in T PROVE x <= y
    <2>1. ~ (y < x)
        BY <1>1 DEF Below
    <2> QED BY <2>1
<1> QED BY <1>2

\* A set with 0 in it, and with the successor of each number in it, has them all.
LEMMA Induct ==
    ASSUME NEW S, 0 \in S, \A n \in Nat : n \in S => n + 1 \in S
    PROVE  \A n \in Nat : n \in S
<1>1. SUFFICES ASSUME Nat \ S # {} PROVE FALSE
    OBVIOUS
<1>2. PICK x \in Nat \ S : \A y \in Nat \ S : x <= y
    BY <1>1, Least
<1>3. x - 1 \in Nat /\ x - 1 \in S
    BY <1>2
<1> QED BY <1>2, <1>3

\* Of the numbers up to a bound, a set that is not empty has a greatest one.
LEMMA Greatest ==
    ASSUME NEW n \in Nat, NEW T \in SUBSET (0 .. n), T # {}
    PROVE  \E x \in T : \A y \in T : y <= x
<1> DEFINE D == {n - x : x \in T}
<1>1. D \in SUBSET Nat /\ D # {}
    <2>1. \A x \in T : n - x \in Nat
        OBVIOUS
    <2>2. PICK x \in T : n - x \in D
        OBVIOUS
    <2> QED BY <2>1, <2>2
<1>2. PICK d \in D : \A e \in D : d <= e
    BY <1>1, Least
<1>3. PICK x \in T : d = n - x
    BY <1>2
<1>4. ASSUME NEW y \in T PROVE y <= x
    <2>1. n - y \in D
        OBVIOUS
    <2> QED BY <2>1, <1>2, <1>3
<1> QED BY <1>4

\* The ways to take n steps of g from s.
StepsOf(g, s, n) == {f \in [0 .. n -> DOMAIN g] :
                        f[0] = s /\ \A k \in 1 .. n : f[k] = g[f[k - 1]]}

\* A loop whose rounds do not leave S can go on.
LEMMA Iterated ==
    ASSUME NEW S, NEW g \in [S -> S], NEW s \in S, NEW n \in Nat
    PROVE  \E f : f \in StepsOf(g, s, n)
<1> DEFINE Ok == {m \in Nat : StepsOf(g, s, m) # {}}
<1>1. 0 \in Ok
    <2>1. [k \in 0 .. 0 |-> s] \in StepsOf(g, s, 0)
        BY DEF StepsOf
    <2> QED BY <2>1
<1>2. ASSUME NEW m \in Nat, m \in Ok PROVE m + 1 \in Ok
    <2>1. PICK f \in StepsOf(g, s, m) : TRUE
        BY <1>2
    <2> DEFINE h == [k \in 0 .. m + 1 |-> IF k = m + 1 THEN g[f[m]] ELSE f[k]]
    <2>2. h \in [0 .. m + 1 -> S] /\ h[0] = s
        BY <2>1 DEF StepsOf
    <2>3. ASSUME NEW k \in 1 .. m + 1 PROVE h[k] = g[h[k - 1]]
        <3>1. CASE k = m + 1
            BY <3>1
        <3>2. CASE k # m + 1
            <4>1. k \in 1 .. m /\ k - 1 \in 0 .. m
                BY <3>2
            <4> QED BY <4>1, <2>1 DEF StepsOf
        <3> QED BY <3>1, <3>2
    <2>4. h \in StepsOf(g, s, m + 1)
        BY <2>2, <2>3 DEF StepsOf
    <2> QED BY <2>4
<1>3. n \in Ok
    <2>1. \A m \in Nat : m \in Ok
        <3> HIDE DEF Ok
        <3> QED BY <1>1, <1>2, Induct
    <2> QED BY <2>1
<1> QED BY <1>3

\* What a recursive definition of such a loop chooses, does not leave S either.
LEMMA Looped ==
    ASSUME NEW S, NEW g \in [S -> S], NEW s \in S, NEW n \in Nat, NEW a,
           a[0] = s, \A k \in 1 .. n : a[k - 1] \in S => a[k] = g[a[k - 1]]
    PROVE  /\ \A k \in 0 .. n : a[k] \in S
           /\ \A k \in 1 .. n : a[k] = g[a[k - 1]]
<1> DEFINE T == {m \in Nat : m <= n => a[m] \in S}
<1>1. \A m \in Nat : m \in T
    <2>1. 0 \in T
        OBVIOUS
    <2>2. ASSUME NEW m \in Nat, m \in T PROVE m + 1 \in T
        <3>1. SUFFICES ASSUME m + 1 <= n PROVE a[m + 1] \in S
            OBVIOUS
        <3>2. m + 1 \in 1 .. n /\ a[m] \in S /\ (m + 1) - 1 = m
            BY <2>2, <3>1
        <3>3. a[m + 1] = g[a[m]]
            BY <3>2
        <3> QED BY <3>2, <3>3
    <2> HIDE DEF T
    <2> QED BY <2>1, <2>2, Induct
<1>2. \A k \in 0 .. n : a[k] \in S
    BY <1>1
<1> QED BY <1>2

-----------------------------------------------------------------------------
(* The loops, round by round. *)

LEMMA AddBlocksRounds ==
    ASSUME NEW S, \A x \in S : AddBlock(x) \in S, NEW s \in S
    PROVE  \E f \in [0 .. Slots -> S] :
               /\ f[0] = s
               /\ \A k \in 1 .. Slots : f[k] = AddBlock(f[k - 1])
               /\ AddBlocks(s) = f[Slots]
<1> DEFINE n == Slots
           g == [x \in S |-> AddBlock(x)]
           a == CHOOSE h : h = [k \in 0 .. n |-> IF k = 0 THEN s ELSE AddBlock(h[k - 1])]
<1>1. n \in Nat /\ g \in [S -> S] /\ s \in S
    BY CommandsAssumption
<1> HIDE DEF n
<1>2. AddBlocks(s) = a[n]
    BY DEF AddBlocks, Rounds, n
<1>3. a = [k \in 0 .. n |-> IF k = 0 THEN s ELSE AddBlock(a[k - 1])]
    <2>1. PICK f : f \in StepsOf(g, s, n)
        <3> HIDE DEF g
        <3> QED BY <1>1, Iterated
    <2>2. /\ DOMAIN g = S /\ f \in [0 .. n -> S] /\ f[0] = s
          /\ \A k \in 1 .. n : f[k] = g[f[k - 1]]
        BY <2>1 DEF StepsOf
    <2>3. ASSUME NEW k \in 1 .. n PROVE k - 1 \in 0 .. n /\ f[k] = AddBlock(f[k - 1])
        <3>1. k - 1 \in 0 .. n
            BY <1>1
        <3>2. f[k - 1] \in S
            BY <2>2, <3>1
        <3> QED BY <2>2, <3>1, <3>2
    <2>4. f = [k \in 0 .. n |-> IF k = 0 THEN s ELSE AddBlock(f[k - 1])]
        BY <2>2, <2>3
    <2> QED BY <2>4
<1> HIDE DEF a
<1>4. a[0] = s /\ \A k \in 1 .. n : a[k - 1] \in S => a[k] = g[a[k - 1]]
    BY ONLY <1>1, <1>3
<1>5. (\A k \in 0 .. n : a[k] \in S) /\ \A k \in 1 .. n : a[k] = g[a[k - 1]]
    <2> HIDE DEF g
    <2> QED BY ONLY <1>1, <1>4, Looped
<1>6. ASSUME NEW k \in 1 .. n PROVE a[k] = AddBlock(a[k - 1])
    <2>1. k - 1 \in 0 .. n
        BY <1>1
    <2> QED BY <1>5, <2>1
<1>7. a \in [0 .. n -> S]
    BY <1>3, <1>5
<1> QED BY <1>2, <1>4, <1>6, <1>7 DEF n

LEMMA FillEntriesRounds ==
    ASSUME NEW S, \A x \in S : FillEntry(x) \in S, NEW s \in S, Len(s.dq) \in Nat
    PROVE  \E f \in [0 .. Len(s.dq) -> S] :
               /\ f[0] = s
               /\ \A k \in 1 .. Len(s.dq) : f[k] = FillEntry(f[k - 1])
               /\ FillEntries(s) = f[Len(s.dq)]
<1> DEFINE n == Len(s.dq)
           g == [x \in S |-> FillEntry(x)]
           a == CHOOSE h : h = [k \in 0 .. n |-> IF k = 0 THEN s ELSE FillEntry(h[k - 1])]
<1>1. n \in Nat /\ g \in [S -> S] /\ s \in S
    OBVIOUS
<1> HIDE DEF n
<1>2. FillEntries(s) = a[n]
    BY DEF FillEntries, Rounds, n
<1>3. a = [k \in 0 .. n |-> IF k = 0 THEN s ELSE FillEntry(a[k - 1])]
    <2>1. PICK f : f \in StepsOf(g, s, n)
        <3> HIDE DEF g
        <3> QED BY <1>1, Iterated
    <2>2. /\ DOMAIN g = S /\ f \in [0 .. n -> S] /\ f[0] = s
          /\ \A k \in 1 .. n : f[k] = g[f[k - 1]]
        BY <2>1 DEF StepsOf
    <2>3. ASSUME NEW k \in 1 .. n PROVE k - 1 \in 0 .. n /\ f[k] = FillEntry(f[k - 1])
        <3>1. k - 1 \in 0 .. n
            BY <1>1
        <3>2. f[k - 1] \in S
            BY <2>2, <3>1
        <3> QED BY <2>2, <3>1, <3>2
    <2>4. f = [k \in 0 .. n |-> IF k = 0 THEN s ELSE FillEntry(f[k - 1])]
        BY <2>2, <2>3
    <2> QED BY <2>4
<1> HIDE DEF a
<1>4. a[0] = s /\ \A k \in 1 .. n : a[k - 1] \in S => a[k] = g[a[k - 1]]
    BY ONLY <1>1, <1>3
<1>5. (\A k \in 0 .. n : a[k] \in S) /\ \A k \in 1 .. n : a[k] = g[a[k - 1]]
    <2> HIDE DEF g
    <2> QED BY ONLY <1>1, <1>4, Looped
<1>6. ASSUME NEW k \in 1 .. n PROVE a[k] = FillEntry(a[k - 1])
    <2>1. k - 1 \in 0 .. n
        BY <1>1
    <2> QED BY <1>5, <2>1
<1>7. a \in [0 .. n -> S]
    BY <1>3, <1>5
<1> QED BY <1>2, <1>4, <1>6, <1>7 DEF n

LEMMA emptyRxFifoRounds ==
    ASSUME NEW S, \A x \in S : StoreBytes(x) \in S, NEW r \in S, Len(r.rx) \in Nat
    PROVE  \E f \in [0 .. Len(r.rx) -> S] :
               /\ f[0] = r
               /\ \A k \in 1 .. Len(r.rx) : f[k] = StoreBytes(f[k - 1])
               /\ emptyRxFifo(r) = f[Len(r.rx)]
<1> DEFINE n == Len(r.rx)
           g == [x \in S |-> StoreBytes(x)]
           a == CHOOSE h : h = [k \in 0 .. n |-> IF k = 0 THEN r ELSE StoreBytes(h[k - 1])]
<1>1. n \in Nat /\ g \in [S -> S] /\ r \in S
    OBVIOUS
<1> HIDE DEF n
<1>2. emptyRxFifo(r) = a[n]
    BY DEF emptyRxFifo, Rounds, n
<1>3. a = [k \in 0 .. n |-> IF k = 0 THEN r ELSE StoreBytes(a[k - 1])]
    <2>1. PICK f : f \in StepsOf(g, r, n)
        <3> HIDE DEF g
        <3> QED BY <1>1, Iterated
    <2>2. /\ DOMAIN g = S /\ f \in [0 .. n -> S] /\ f[0] = r
          /\ \A k \in 1 .. n : f[k] = g[f[k - 1]]
        BY <2>1 DEF StepsOf
    <2>3. ASSUME NEW k \in 1 .. n PROVE k - 1 \in 0 .. n /\ f[k] = StoreBytes(f[k - 1])
        <3>1. k - 1 \in 0 .. n
            BY <1>1
        <3>2. f[k - 1] \in S
            BY <2>2, <3>1
        <3> QED BY <2>2, <3>1, <3>2
    <2>4. f = [k \in 0 .. n |-> IF k = 0 THEN r ELSE StoreBytes(f[k - 1])]
        BY <2>2, <2>3
    <2> QED BY <2>4
<1> HIDE DEF a
<1>4. a[0] = r /\ \A k \in 1 .. n : a[k - 1] \in S => a[k] = g[a[k - 1]]
    BY ONLY <1>1, <1>3
<1>5. (\A k \in 0 .. n : a[k] \in S) /\ \A k \in 1 .. n : a[k] = g[a[k - 1]]
    <2> HIDE DEF g
    <2> QED BY ONLY <1>1, <1>4, Looped
<1>6. ASSUME NEW k \in 1 .. n PROVE a[k] = StoreBytes(a[k - 1])
    <2>1. k - 1 \in 0 .. n
        BY <1>1
    <2> QED BY <1>5, <2>1
<1>7. a \in [0 .. n -> S]
    BY <1>3, <1>5
<1> QED BY <1>2, <1>4, <1>6, <1>7 DEF n

LEMMA fillTxFifoRounds ==
    ASSUME NEW S, \A x \in S : SendEntry(x) \in S, NEW s \in S,
           NEW q, NEW p, NEW t, Len(q) \in Nat,
           s = [dq |-> q, queuePos |-> p, tx |-> t, met |-> FALSE, at |-> p]
    PROVE  \E f \in [0 .. Len(q) -> S] :
               /\ f[0] = s
               /\ \A k \in 1 .. Len(q) : f[k] = SendEntry(f[k - 1])
               /\ fillTxFifo(q, p, t) = f[Len(q)]
<1> DEFINE n == Len(q)
           g == [x \in S |-> SendEntry(x)]
           a == CHOOSE h : h = [k \in 0 .. n |-> IF k = 0 THEN s ELSE SendEntry(h[k - 1])]
<1>1. n \in Nat /\ g \in [S -> S] /\ s \in S
    OBVIOUS
<1> HIDE DEF n
<1>2. fillTxFifo(q, p, t) = a[n]
    BY DEF fillTxFifo, Rounds, n
<1>3. a = [k \in 0 .. n |-> IF k = 0 THEN s ELSE SendEntry(a[k - 1])]
    <2>1. PICK f : f \in StepsOf(g, s, n)
        <3> HIDE DEF g
        <3> QED BY <1>1, Iterated
    <2>2. /\ DOMAIN g = S /\ f \in [0 .. n -> S] /\ f[0] = s
          /\ \A k \in 1 .. n : f[k] = g[f[k - 1]]
        BY <2>1 DEF StepsOf
    <2>3. ASSUME NEW k \in 1 .. n PROVE k - 1 \in 0 .. n /\ f[k] = SendEntry(f[k - 1])
        <3>1. k - 1 \in 0 .. n
            BY <1>1
        <3>2. f[k - 1] \in S
            BY <2>2, <3>1
        <3> QED BY <2>2, <3>1, <3>2
    <2>4. f = [k \in 0 .. n |-> IF k = 0 THEN s ELSE SendEntry(f[k - 1])]
        BY <2>2, <2>3
    <2> QED BY <2>4
<1> HIDE DEF a
<1>4. a[0] = s /\ \A k \in 1 .. n : a[k - 1] \in S => a[k] = g[a[k - 1]]
    BY ONLY <1>1, <1>3
<1>5. (\A k \in 0 .. n : a[k] \in S) /\ \A k \in 1 .. n : a[k] = g[a[k - 1]]
    <2> HIDE DEF g
    <2> QED BY ONLY <1>1, <1>4, Looped
<1>6. ASSUME NEW k \in 1 .. n PROVE a[k] = SendEntry(a[k - 1])
    <2>1. k - 1 \in 0 .. n
        BY <1>1
    <2> QED BY <1>5, <2>1
<1>7. a \in [0 .. n -> S]
    BY <1>3, <1>5
<1> QED BY <1>2, <1>4, <1>6, <1>7 DEF n

-----------------------------------------------------------------------------
(* Types.  An element of the queue, the command list, and what fillCmdQueue *)
(* works on while it adds the commands of entry qp.                         *)

Item == {e \in [mode : {"READ", "WRITE"}, length : Nat, stop : BOOLEAN, position : Nat,
                cmdBytesNeeded : Nat, addrReq : {1, 2}, addrSent : Nat, rw : Nat,
                startCmdSent : BOOLEAN, addrCmdSent : BOOLEAN, stopCmdSent : BOOLEAN] :
            /\ e.position <= e.length /\ e.cmdBytesNeeded <= e.length
            /\ e.addrSent <= e.addrReq
            /\ e.stopCmdSent => e.addrCmdSent
            /\ e.addrCmdSent => e.startCmdSent}

Command == [op : {"RSTART", "WRITE", "READ", "STOP", "END"}, num : Nat, nak : BOOLEAN]

CommandList == [0 .. Slots - 1 -> Command]

Filling(n) == [dq : [1 .. n -> Item], command : CommandList, cmdIdx : Nat,
               qp : 1 .. n, done : BOOLEAN, ena : SUBSET Interrupts]

\* u is s with cmd in the next slot and with e in the place of its entry
Lists(s, u, cmd, e) ==
    /\ u.command = [s.command EXCEPT ![s.cmdIdx] = cmd]
    /\ u.cmdIdx = s.cmdIdx + 1
    /\ u.dq = [s.dq EXCEPT ![s.qp] = e]
    /\ u.qp = s.qp

LEMMA SetCmdTyped ==
    ASSUME NEW n \in Nat, NEW s \in Filling(n), NEW cmd \in Command
    PROVE  LET t == SetCmd(s, cmd)
           IN  /\ t \in Filling(n) /\ t.dq = s.dq /\ t.qp = s.qp /\ t.done = s.done
               /\ t.ena = s.ena /\ t.cmdIdx = s.cmdIdx + 1
               /\ t.command = [s.command EXCEPT ![s.cmdIdx] = cmd]
<1>1. [s.command EXCEPT ![s.cmdIdx] = cmd] \in CommandList
    BY DEF Filling, CommandList
<1>2. s.cmdIdx + 1 \in Nat
    BY DEF Filling
<1>3. SetCmd(s, cmd) \in Filling(n)
    BY <1>1, <1>2 DEF Filling, SetCmd
<1>4. /\ SetCmd(s, cmd).dq = s.dq /\ SetCmd(s, cmd).qp = s.qp
      /\ SetCmd(s, cmd).done = s.done /\ SetCmd(s, cmd).ena = s.ena
      /\ SetCmd(s, cmd).cmdIdx = s.cmdIdx + 1
      /\ SetCmd(s, cmd).command = [s.command EXCEPT ![s.cmdIdx] = cmd]
    BY DEF Filling, SetCmd
<1> QED BY <1>3, <1>4

\* an entry that is marked, with the interrupts it now needs, and the end of the loop
Mark(c, e, i, d) == [c EXCEPT !.dq = [c.dq EXCEPT ![c.qp] = e], !.ena = i, !.done = d]

LEMMA Marked ==
    ASSUME NEW n \in Nat, NEW c \in Filling(n), NEW e \in Item,
           NEW i \in SUBSET Interrupts, NEW d \in BOOLEAN
    PROVE  LET u == Mark(c, e, i, d)
           IN  /\ u \in Filling(n) /\ u.dq = [c.dq EXCEPT ![c.qp] = e]
               /\ u.ena = i /\ u.done = d
               /\ u.qp = c.qp /\ u.cmdIdx = c.cmdIdx /\ u.command = c.command
<1> DEFINE u == Mark(c, e, i, d)
<1>1. [c.dq EXCEPT ![c.qp] = e] \in [1 .. n -> Item]
    BY DEF Filling
<1>2. u \in Filling(n)
    BY <1>1 DEF Filling, Mark
<1>3. /\ u.dq = [c.dq EXCEPT ![c.qp] = e] /\ u.ena = i /\ u.done = d
      /\ u.qp = c.qp /\ u.cmdIdx = c.cmdIdx /\ u.command = c.command
    BY DEF Filling, Mark
<1> QED BY <1>2, <1>3

LEMMA AddStartDoes ==
    ASSUME NEW n \in Nat, NEW s \in Filling(n)
    PROVE  LET e == s.dq[s.qp]
               u == AddStart(s)
           IN  /\ u \in Filling(n) /\ u.done = s.done
               /\ IF ~e.startCmdSent /\ s.cmdIdx < Slots - 2
                  THEN /\ [e EXCEPT !.startCmdSent = TRUE] \in Item
                       /\ Lists(s, u, Cmd("RSTART", 0, FALSE), [e EXCEPT !.startCmdSent = TRUE])
                  ELSE u = s
<1> DEFINE e == s.dq[s.qp]
           c == SetCmd(s, Cmd("RSTART", 0, FALSE))
           f == [e EXCEPT !.startCmdSent = TRUE]
           u == [c EXCEPT !.dq[s.qp].startCmdSent = TRUE]
<1>1. /\ c \in Filling(n) /\ c.dq = s.dq /\ c.qp = s.qp /\ c.done = s.done
      /\ c.cmdIdx = s.cmdIdx + 1
      /\ c.command = [s.command EXCEPT ![s.cmdIdx] = Cmd("RSTART", 0, FALSE)]
    <2>1. Cmd("RSTART", 0, FALSE) \in Command
        BY DEF Cmd, Command
    <2> QED BY <2>1, SetCmdTyped
<1>2. e \in Item /\ s.qp \in 1 .. n
    BY DEF Filling
<1>3. f \in Item
    <2> HIDE DEF e
    <2> QED BY <1>2 DEF Item
<1>4. u = Mark(c, f, c.ena, c.done)
    <2> HIDE DEF c
    <2> QED BY <1>1, <1>2 DEF Filling, Mark
<1>5. c.ena \in SUBSET Interrupts /\ c.done \in BOOLEAN
    <2> HIDE DEF c
    <2> QED BY <1>1 DEF Filling
<1>6. /\ u \in Filling(n) /\ u.dq = [c.dq EXCEPT ![c.qp] = f] /\ u.done = c.done
      /\ u.qp = c.qp /\ u.cmdIdx = c.cmdIdx /\ u.command = c.command
    <2> HIDE DEF c, f, u
    <2> QED BY <1>1, <1>3, <1>4, <1>5, Marked
<1>7. Lists(s, u, Cmd("RSTART", 0, FALSE), f)
    <2> HIDE DEF c, f, u
    <2> QED BY <1>1, <1>6 DEF Lists
<1>8. AddStart(s) = IF ~e.startCmdSent /\ s.cmdIdx < Slots - 2 THEN u ELSE s
    BY DEF AddStart
<1> HIDE DEF u, f, e
<1> QED BY <1>1, <1>3, <1>6, <1>7, <1>8 DEF f, e

\* a command and a mark, which end the loop when the list is full
LEMMA Listed ==
    ASSUME NEW n \in Nat, NEW s \in Filling(n), NEW cmd \in Command, NEW e \in Item,
           NEW i \in SUBSET Interrupts
    PROVE  LET t == Mark(SetCmd(s, cmd), e, i, s.done)
               u == [t EXCEPT !.done = Full(t)]
           IN  u \in Filling(n) /\ Lists(s, u, cmd, e) /\ u.done = Full(u)
<1> DEFINE c == SetCmd(s, cmd)
           t == Mark(c, e, i, s.done)
           d == Full(t)
           u == [t EXCEPT !.done = d]
<1>1. /\ c \in Filling(n) /\ c.dq = s.dq /\ c.qp = s.qp /\ c.done = s.done
      /\ c.cmdIdx = s.cmdIdx + 1 /\ c.command = [s.command EXCEPT ![s.cmdIdx] = cmd]
    BY SetCmdTyped
<1>2. s.done \in BOOLEAN
    BY DEF Filling
<1>3. /\ t \in Filling(n) /\ t.dq = [c.dq EXCEPT ![c.qp] = e]
      /\ t.qp = c.qp /\ t.cmdIdx = c.cmdIdx /\ t.command = c.command
    <2> HIDE DEF c, t
    <2> QED BY <1>1, <1>2, Marked DEF t
<1>4. d \in BOOLEAN
    BY DEF Full
<1> HIDE DEF t, c
<1>5. /\ u \in Filling(n) /\ u.dq = t.dq /\ u.qp = t.qp /\ u.cmdIdx = t.cmdIdx
      /\ u.command = t.command /\ u.done = d
    <2> HIDE DEF d
    <2> QED BY <1>3, <1>4 DEF Filling
<1>6. u.done = Full(u)
    <2> HIDE DEF u
    <2> QED BY <1>5 DEF Full
<1>7. Lists(s, u, cmd, e)
    <2> HIDE DEF u
    <2> QED BY <1>1, <1>3, <1>5 DEF Lists
<1> QED BY <1>5, <1>6, <1>7 DEF t, c

LEMMA AddAddressDoes ==
    ASSUME NEW n \in Nat, NEW s \in Filling(n)
    PROVE  LET e == s.dq[s.qp]
               f == [e EXCEPT !.addrCmdSent = TRUE]
               u == AddAddress(s)
           IN  /\ u \in Filling(n)
               /\ IF e.startCmdSent /\ ~e.addrCmdSent
                  THEN /\ f \in Item /\ Lists(s, u, Cmd("WRITE", e.addrReq, FALSE), f)
                       /\ u.done = Full(u)
                  ELSE u = s
<1> DEFINE e == s.dq[s.qp]
           f == [e EXCEPT !.addrCmdSent = TRUE]
           cmd == Cmd("WRITE", e.addrReq, FALSE)
           i == s.ena \cup {"tx_empty"}
           c == SetCmd(s, cmd)
           t == [c EXCEPT !.dq[s.qp].addrCmdSent = TRUE, !.ena = @ \cup {"tx_empty"}]
           u == [t EXCEPT !.done = Full(t)]
<1>1. e \in Item /\ s.qp \in 1 .. n /\ i \in SUBSET Interrupts
    BY DEF Filling, Interrupts
<1>2. cmd \in Command
    BY <1>1 DEF Cmd, Command, Item
<1>3. CASE ~(e.startCmdSent /\ ~e.addrCmdSent)
    BY <1>3 DEF AddAddress
<1>4. CASE e.startCmdSent /\ ~e.addrCmdSent
    <2>1. f \in Item
        <3> HIDE DEF e
        <3> QED BY <1>1, <1>4 DEF Item
    <2>2. c \in Filling(n) /\ c.dq = s.dq /\ c.qp = s.qp /\ c.ena = s.ena /\ c.done = s.done
        <3> HIDE DEF cmd
        <3> QED BY <1>2, SetCmdTyped
    <2>3. t = Mark(c, f, i, s.done)
        <3> HIDE DEF c
        <3> QED BY <1>1, <2>2 DEF Filling, Mark
    <2>4. u \in Filling(n) /\ Lists(s, u, cmd, f) /\ u.done = Full(u)
        <3> HIDE DEF t, f, i, cmd
        <3> QED BY <1>1, <1>2, <2>1, <2>3, Listed DEF c
    <2>5. AddAddress(s) = u
        BY <1>4 DEF AddAddress
    <2> HIDE DEF u
    <2> QED BY <1>4, <2>1, <2>4, <2>5
<1> QED BY <1>3, <1>4

\* what the loop over the blocks leaves for AddLastRead
Kept(e) == IF e.mode = "READ" THEN 1 ELSE 0

LEMMA AddBlockDoes ==
    ASSUME NEW n \in Nat, NEW s \in Filling(n)
    PROVE  LET e == s.dq[s.qp]
               u == AddBlock(s)
           IN  IF ~s.done /\ e.cmdBytesNeeded > Kept(e)
               THEN /\ u \in Filling(n) /\ u.done = Full(u)
                    /\ \E k \in Nat, num \in Nat :
                          /\ k + num = e.cmdBytesNeeded /\ k >= Kept(e)
                          /\ [e EXCEPT !.cmdBytesNeeded = k] \in Item
                          /\ Lists(s, u, Cmd(e.mode, num, FALSE), [e EXCEPT !.cmdBytesNeeded = k])
               ELSE u = s
<1> DEFINE e == s.dq[s.qp]
           kept == IF e.mode = "READ" THEN 1 ELSE 0
           blk  == IF e.cmdBytesNeeded > BlkMax THEN BlkMax ELSE e.cmdBytesNeeded - kept
           k == e.cmdBytesNeeded - blk
           f == [e EXCEPT !.cmdBytesNeeded = k]
           cmd == Cmd(e.mode, blk, FALSE)
           int == IF e.mode = "READ" THEN "rx_full" ELSE "tx_empty"
           i == s.ena \cup {int}
           c == SetCmd(s, cmd)
           t == [c EXCEPT !.dq[s.qp].cmdBytesNeeded = @ - blk, !.ena = @ \cup {int}]
           u == [t EXCEPT !.done = Full(t)]
<1>1. e \in Item /\ s.qp \in 1 .. n /\ i \in SUBSET Interrupts
    BY DEF Filling, Interrupts
<1>2. AddBlock(s) = IF ~s.done /\ e.cmdBytesNeeded > kept THEN u ELSE s
    BY DEF AddBlock
<1>3. CASE ~(~s.done /\ e.cmdBytesNeeded > kept)
    BY <1>2, <1>3 DEF Kept
<1>4. CASE ~s.done /\ e.cmdBytesNeeded > kept
    <2>1. /\ blk \in Nat /\ k \in Nat /\ k <= e.cmdBytesNeeded
          /\ k + blk = e.cmdBytesNeeded /\ k >= Kept(e)
        <3>1. e.cmdBytesNeeded \in Nat
            BY <1>1 DEF Item
        <3> HIDE DEF e
        <3> QED BY <1>4, <3>1, CommandsAssumption DEF Kept
    <2>2. f \in Item
        <3> HIDE DEF e, k
        <3> QED BY <1>1, <2>1 DEF Item
    <2>3. cmd \in Command
        <3>1. e.mode \in {"READ", "WRITE"}
            BY <1>1 DEF Item
        <3> HIDE DEF e, blk
        <3> QED BY <2>1, <3>1 DEF Cmd, Command
    <2>4. c \in Filling(n) /\ c.dq = s.dq /\ c.qp = s.qp /\ c.ena = s.ena /\ c.done = s.done
        <3> HIDE DEF cmd
        <3> QED BY <2>3, SetCmdTyped
    <2>5. t = Mark(c, f, i, s.done)
        <3> HIDE DEF c, blk, int
        <3> QED BY <1>1, <2>4 DEF Filling, Mark
    <2>6. u \in Filling(n) /\ Lists(s, u, cmd, f) /\ u.done = Full(u)
        <3> HIDE DEF t, f, i, cmd
        <3> QED BY <1>1, <2>2, <2>3, <2>5, Listed DEF c
    <2>7. AddBlock(s) = u
        BY <1>2, <1>4
    <2>8. Lists(s, u, Cmd(e.mode, blk, FALSE), [e EXCEPT !.cmdBytesNeeded = k])
        BY <2>6
    <2>9. e.cmdBytesNeeded > Kept(e)
        BY <1>4 DEF Kept
    <2> HIDE DEF u, blk, k, e
    <2> QED BY <1>4, <2>1, <2>2, <2>6, <2>7, <2>8, <2>9 DEF e
<1> QED BY <1>3, <1>4

LEMMA AddLastReadDoes ==
    ASSUME NEW n \in Nat, NEW s \in Filling(n)
    PROVE  LET e == s.dq[s.qp]
               f == [e EXCEPT !.cmdBytesNeeded = 0]
               u == AddLastRead(s)
           IN  IF ~s.done /\ e.mode = "READ" /\ e.cmdBytesNeeded = 1
               THEN /\ u \in Filling(n) /\ u.done = Full(u)
                    /\ f \in Item /\ Lists(s, u, Cmd("READ", 1, TRUE), f)
               ELSE u = s
<1> DEFINE e == s.dq[s.qp]
           f == [e EXCEPT !.cmdBytesNeeded = 0]
           cmd == Cmd("READ", 1, TRUE)
           i == s.ena \cup {"rx_full"}
           c == SetCmd(s, cmd)
           t == [c EXCEPT !.dq[s.qp].cmdBytesNeeded = 0, !.ena = @ \cup {"rx_full"}]
           u == [t EXCEPT !.done = Full(t)]
<1>1. e \in Item /\ s.qp \in 1 .. n /\ i \in SUBSET Interrupts
    BY DEF Filling, Interrupts
<1>2. cmd \in Command
    BY DEF Cmd, Command
<1>3. f \in Item
    <2>1. \A x \in Item : [x EXCEPT !.cmdBytesNeeded = 0] \in Item
        BY DEF Item
    <2> HIDE DEF e
    <2> QED BY <1>1, <2>1
<1>4. c \in Filling(n) /\ c.dq = s.dq /\ c.qp = s.qp /\ c.ena = s.ena /\ c.done = s.done
    <2> HIDE DEF cmd
    <2> QED BY <1>2, SetCmdTyped
<1>5. t = Mark(c, f, i, s.done)
    <2> HIDE DEF c
    <2> QED BY <1>1, <1>4 DEF Filling, Mark
<1>6. u \in Filling(n) /\ Lists(s, u, cmd, f) /\ u.done = Full(u)
    <2> HIDE DEF t, f, i, cmd
    <2> QED BY <1>1, <1>2, <1>3, <1>5, Listed DEF c
<1>7. AddLastRead(s) = IF ~s.done /\ e.mode = "READ" /\ e.cmdBytesNeeded = 1 THEN u ELSE s
    BY DEF AddLastRead
<1> HIDE DEF u, f, e
<1> QED BY <1>3, <1>6, <1>7 DEF e, f

LEMMA AddStopDoes ==
    ASSUME NEW n \in Nat, NEW s \in Filling(n), s.dq[s.qp].addrCmdSent
    PROVE  LET e == s.dq[s.qp]
               f == [e EXCEPT !.stopCmdSent = TRUE]
               u == AddStop(s)
           IN  IF ~s.done /\ e.cmdBytesNeeded = 0 /\ ~e.stopCmdSent
               THEN /\ u \in Filling(n) /\ f \in Item
                    /\ IF e.stop THEN Lists(s, u, Cmd("STOP", 0, FALSE), f) /\ u.done = Full(u)
                       ELSE /\ u.dq = [s.dq EXCEPT ![s.qp] = f] /\ u.qp = s.qp /\ u.done = FALSE
                            /\ u.command = s.command /\ u.cmdIdx = s.cmdIdx
               ELSE u = s
<1> DEFINE e == s.dq[s.qp]
           f == [e EXCEPT !.stopCmdSent = TRUE]
           cmd == Cmd("STOP", 0, FALSE)
           c == SetCmd(s, cmd)
           t == IF e.stop THEN c ELSE s
           d == e.stop /\ Full(t)
           u == [t EXCEPT !.dq[s.qp].stopCmdSent = TRUE, !.done = d]
<1>1. e \in Item /\ s.qp \in 1 .. n /\ e.stop \in BOOLEAN
    BY DEF Filling, Item
<1>2. cmd \in Command
    BY DEF Cmd, Command
<1>3. f \in Item
    <2>1. e.addrCmdSent
        OBVIOUS
    <2> HIDE DEF e
    <2> QED BY <1>1, <2>1 DEF Item
<1>4. /\ c \in Filling(n) /\ c.dq = s.dq /\ c.qp = s.qp /\ c.ena = s.ena
      /\ c.cmdIdx = s.cmdIdx + 1 /\ c.command = [s.command EXCEPT ![s.cmdIdx] = cmd]
    <2> HIDE DEF cmd
    <2> QED BY <1>2, SetCmdTyped
<1>5. t \in Filling(n) /\ t.dq = s.dq /\ t.qp = s.qp /\ t.ena \in SUBSET Interrupts
    <2> HIDE DEF c
    <2> QED BY <1>4 DEF Filling
<1>6. d \in BOOLEAN
    BY DEF Full
<1>7. u = Mark(t, f, t.ena, d)
    <2> HIDE DEF t, d
    <2> QED BY <1>1, <1>5 DEF Filling, Mark
<1>8. /\ u \in Filling(n) /\ u.dq = [t.dq EXCEPT ![t.qp] = f] /\ u.done = d
      /\ u.qp = t.qp /\ u.cmdIdx = t.cmdIdx /\ u.command = t.command
    <2> HIDE DEF t, f, d, u
    <2> QED BY <1>3, <1>5, <1>6, <1>7, Marked
<1>9. AddStop(s) = IF ~s.done /\ e.cmdBytesNeeded = 0 /\ ~e.stopCmdSent THEN u ELSE s
    BY DEF AddStop
<1>10. CASE e.stop
    <2>1. t = c
        BY <1>10
    <2>2. Lists(s, u, cmd, f)
        <3> HIDE DEF c, u, t, f, cmd
        <3> QED BY <1>4, <1>8, <2>1 DEF Lists
    <2>3. u.done = Full(u)
        <3>1. d = Full(t)
            BY <1>1, <1>10 DEF Full
        <3> HIDE DEF c, u, t, d
        <3> QED BY <1>8, <3>1 DEF Full
    <2> HIDE DEF u, f, e
    <2> QED BY <1>3, <1>8, <1>9, <1>10, <2>2, <2>3 DEF e, f
<1>11. CASE ~e.stop
    <2>1. t = s /\ d = FALSE
        BY <1>11
    <2> HIDE DEF u, f, e, t, d
    <2> QED BY <1>3, <1>8, <1>9, <1>11, <2>1 DEF e, f
<1> QED BY <1>10, <1>11

\* no command of the data takes an address away
Addressed(n) == {s \in Filling(n) : s.dq[s.qp].addrCmdSent}

LEMMA AddBlockAddressed ==
    ASSUME NEW n \in Nat, NEW s \in Addressed(n)
    PROVE  AddBlock(s) \in Addressed(n)
<1> DEFINE u == AddBlock(s)
           e == s.dq[s.qp]
<1>1. s \in Filling(n) /\ s.qp \in 1 .. n /\ e.addrCmdSent /\ e \in Item
      /\ s.dq \in [1 .. n -> Item]
    BY DEF Addressed, Filling
<1>2. u = s \/ \E k \in Nat, num \in Nat :
                  u \in Filling(n) /\ Lists(s, u, Cmd(e.mode, num, FALSE),
                                            [e EXCEPT !.cmdBytesNeeded = k])
    BY <1>1, AddBlockDoes
<1>3. ASSUME NEW k \in Nat, NEW num \in Nat,
             u \in Filling(n), Lists(s, u, Cmd(e.mode, num, FALSE), [e EXCEPT !.cmdBytesNeeded = k])
      PROVE  u.dq[u.qp].addrCmdSent
    <2> HIDE DEF u, e
    <2>1. u.qp = s.qp /\ u.dq[s.qp] = [e EXCEPT !.cmdBytesNeeded = k]
        BY <1>1, <1>3 DEF Lists
    <2> QED BY <1>1, <2>1 DEF Item
<1> QED BY <1>2, <1>3 DEF Addressed

LEMMA AddDataTyped ==
    ASSUME NEW n \in Nat, NEW s \in Filling(n)
    PROVE  AddData(s) \in Filling(n)
<1>1. SUFFICES ASSUME s.dq[s.qp].addrCmdSent
               PROVE  AddStop(AddLastRead(AddBlocks(s))) \in Filling(n)
    BY DEF AddData
<1> DEFINE b == AddBlocks(s)
           e == b.dq[b.qp]
           l == AddLastRead(b)
<1>2. b \in Addressed(n)
    <2>1. s \in Addressed(n) /\ \A x \in Addressed(n) : AddBlock(x) \in Addressed(n)
        BY <1>1, AddBlockAddressed DEF Addressed
    <2>2. PICK f \in [0 .. Slots -> Addressed(n)] : b = f[Slots]
        BY <2>1, AddBlocksRounds
    <2> QED BY <2>2, CommandsAssumption
<1> HIDE DEF b
<1>3. b \in Filling(n) /\ b.qp \in 1 .. n /\ e.addrCmdSent /\ e \in Item /\ b.dq \in [1 .. n -> Item]
    BY <1>2 DEF Addressed, Filling
<1>4. \/ l = b
      \/ l \in Filling(n) /\ Lists(b, l, Cmd("READ", 1, TRUE), [e EXCEPT !.cmdBytesNeeded = 0])
    BY <1>3, AddLastReadDoes
<1>5. l \in Filling(n) /\ l.dq[l.qp].addrCmdSent
    <2>1. CASE l = b
        BY <1>3, <2>1
    <2>2. CASE l \in Filling(n)
               /\ Lists(b, l, Cmd("READ", 1, TRUE), [e EXCEPT !.cmdBytesNeeded = 0])
        <3> HIDE DEF e, l
        <3>1. l.qp = b.qp /\ l.dq[b.qp] = [e EXCEPT !.cmdBytesNeeded = 0]
            BY <1>3, <2>2 DEF Lists
        <3> QED BY <1>3, <2>2, <3>1 DEF Item
    <2> QED BY <1>4, <2>1, <2>2
<1> HIDE DEF l
<1>6. AddStop(l) \in Filling(n)
    BY <1>5, AddStopDoes
<1> QED BY <1>6 DEF l, b

\* the slot that Stretch turns into a dummy
LEMMA Stretched ==
    ASSUME NEW n \in Nat, NEW s \in Filling(n)
    PROVE  \E at \in 0 .. Slots - 3 :
               /\ at # 0 => s.command[at].op \in {"READ", "WRITE"}
               /\ \A j \in 1 .. Slots - 3 : s.command[j].op \in {"READ", "WRITE"} => j <= at
               /\ Stretch(s) =
                    IF s.cmdIdx = Slots - 2 /\ ~s.dq[s.qp].startCmdSent
                    THEN [s EXCEPT !.done = TRUE, !.cmdIdx = Slots - 1,
                                   !.command = [i \in 0 .. Slots - 1 |->
                                       IF i = at THEN [s.command[at] EXCEPT !.num = 0]
                                       ELSE IF i \in at + 1 .. Slots - 2 THEN s.command[i - 1]
                                       ELSE s.command[i]]]
                    ELSE s
<1> DEFINE moves == {0} \cup {i \in 1 .. Slots - 3 : s.command[i].op \in {"READ", "WRITE"}}
           at    == CHOOSE i \in moves : \A j \in moves : j <= i
<1>1. at \in moves /\ \A j \in moves : j <= at
    <2>1. Slots - 3 \in Nat /\ moves \in SUBSET (0 .. Slots - 3) /\ moves # {}
        BY CommandsAssumption
    <2> HIDE DEF moves
    <2>2. \E i \in moves : \A j \in moves : j <= i
        BY <2>1, Greatest
    <2> QED BY <2>2
<1>2. at \in 0 .. Slots - 3
    <2>1. Slots - 3 \in Nat
        BY CommandsAssumption
    <2> HIDE DEF at
    <2> QED BY <1>1, <2>1
<1>3. /\ at # 0 => s.command[at].op \in {"READ", "WRITE"}
      /\ \A j \in 1 .. Slots - 3 : s.command[j].op \in {"READ", "WRITE"} => j <= at
    <2> HIDE DEF at
    <2> QED BY <1>1
<1> QED BY <1>2, <1>3 DEF Stretch

LEMMA StretchTyped ==
    ASSUME NEW n \in Nat, NEW s \in Filling(n)
    PROVE  Stretch(s) \in Filling(n)
<1>1. PICK at \in 0 .. Slots - 3 :
          Stretch(s) = IF s.cmdIdx = Slots - 2 /\ ~s.dq[s.qp].startCmdSent
                       THEN [s EXCEPT !.done = TRUE, !.cmdIdx = Slots - 1,
                                      !.command = [i \in 0 .. Slots - 1 |->
                                          IF i = at THEN [s.command[at] EXCEPT !.num = 0]
                                          ELSE IF i \in at + 1 .. Slots - 2 THEN s.command[i - 1]
                                          ELSE s.command[i]]]
                       ELSE s
    BY Stretched
<1> DEFINE list == [i \in 0 .. Slots - 1 |->
                       IF i = at THEN [s.command[at] EXCEPT !.num = 0]
                       ELSE IF i \in at + 1 .. Slots - 2 THEN s.command[i - 1]
                       ELSE s.command[i]]
<1>2. s.command \in CommandList
    BY DEF Filling
<1>3. ASSUME NEW i \in 0 .. Slots - 1 PROVE list[i] \in Command
    <2>1. CASE i = at
        <3>1. s.command[at] \in Command
            BY <1>2, <2>1 DEF CommandList
        <3> QED BY <2>1, <3>1 DEF Command
    <2>2. CASE i # at /\ i \in at + 1 .. Slots - 2
        <3>1. i - 1 \in 0 .. Slots - 1
            BY <2>2, CommandsAssumption
        <3> QED BY <1>2, <2>2, <3>1 DEF CommandList
    <2>3. CASE i # at /\ i \notin at + 1 .. Slots - 2
        BY <1>2, <2>3 DEF CommandList
    <2> QED BY <2>1, <2>2, <2>3
<1>4. list \in CommandList
    BY <1>3 DEF CommandList
<1>5. Slots - 1 \in Nat
    BY CommandsAssumption
<1> HIDE DEF list
<1>6. [s EXCEPT !.done = TRUE, !.cmdIdx = Slots - 1, !.command = list] \in Filling(n)
    BY <1>4, <1>5 DEF Filling
<1> QED BY <1>1, <1>6 DEF list

LEMMA AddEndTyped ==
    ASSUME NEW n \in Nat, NEW s \in Filling(n)
    PROVE  AddEnd(s) \in Filling(n)
<1> DEFINE t == SetCmd(s, Cmd("END", 0, FALSE))
<1>1. t \in Filling(n)
    BY SetCmdTyped DEF Cmd, Command
<1>2. [t EXCEPT !.done = TRUE, !.ena = @ \cup {"end_detect"}] \in Filling(n)
    <2> HIDE DEF t
    <2>1. t.ena \cup {"end_detect"} \in SUBSET Interrupts
        BY <1>1 DEF Filling, Interrupts
    <2> QED BY <1>1, <2>1 DEF Filling
<1> QED BY <1>2 DEF AddEnd

\* between the rounds, qp can be past the queue, when everything is done
Filled(n) == {s \in [dq : [1 .. n -> Item], command : CommandList, cmdIdx : Nat,
                     qp : 1 .. n + 1, done : BOOLEAN, ena : SUBSET Interrupts] :
                 s.done \/ s.qp \in 1 .. n}

LEMMA NextEntryTyped ==
    ASSUME NEW n \in Nat, NEW s \in Filling(n)
    PROVE  NextEntry(s) \in Filled(n)
<1>1. Len(s.dq) = n /\ s.qp \in 1 .. n /\ s.qp + 1 \in 1 .. n + 1
    BY DEF Filling
<1>2. CASE ~s.done /\ s.dq[s.qp].stopCmdSent
    <2> DEFINE d == s.qp = n
    <2>1. d \in BOOLEAN
        OBVIOUS
    <2>2. d \/ s.qp + 1 \in 1 .. n
        BY <1>1
    <2> HIDE DEF d
    <2>3. [s EXCEPT !.qp = s.qp + 1, !.done = d] \in Filled(n)
        BY <1>1, <2>1, <2>2 DEF Filling, Filled
    <2> QED BY <1>1, <1>2, <2>3 DEF NextEntry, d
<1>3. CASE ~(~s.done /\ s.dq[s.qp].stopCmdSent)
    BY <1>1, <1>3 DEF Filling, Filled, NextEntry
<1> QED BY <1>2, <1>3

LEMMA FillEntryTyped ==
    ASSUME NEW n \in Nat, NEW s \in Filled(n)
    PROVE  FillEntry(s) \in Filled(n)
<1>1. CASE s.done
    BY <1>1 DEF FillEntry
<1>2. CASE ~s.done
    <2>1. s \in Filling(n)
        BY <1>2 DEF Filled, Filling
    <2>2. AddData(AddAddress(AddStart(s))) \in Filling(n)
        BY <2>1, AddStartDoes, AddAddressDoes, AddDataTyped
    <2>3. NextEntry(AddEnd(Stretch(AddData(AddAddress(AddStart(s)))))) \in Filled(n)
        BY <2>2, StretchTyped, AddEndTyped, NextEntryTyped
    <2> QED BY <1>2, <2>3 DEF FillEntry
<1> QED BY <1>1, <1>2

LEMMA FillEntriesTyped ==
    ASSUME NEW n \in Nat, NEW s \in Filled(n)
    PROVE  FillEntries(s) \in Filled(n)
<1>1. Len(s.dq) = n
    BY DEF Filled
<1>2. \A x \in Filled(n) : FillEntry(x) \in Filled(n)
    BY FillEntryTyped
<1>3. PICK f \in [0 .. Len(s.dq) -> Filled(n)] : FillEntries(s) = f[Len(s.dq)]
    <2>1. Len(s.dq) \in Nat
        BY <1>1
    <2> QED BY <1>2, <2>1, FillEntriesRounds
<1> QED BY <1>1, <1>3

\* where fillCmdQueue begins
Begun(d, c, q, end) ==
    [dq |-> d, command |-> c, cmdIdx |-> 0, qp |-> q, done |-> end, ena |-> {}]

LEMMA FillBegins ==
    ASSUME NEW n \in Nat, NEW d \in [1 .. n -> Item], NEW p \in 1 .. n + 1,
           NEW c \in CommandList
    PROVE  \/ /\ \A q \in p .. n : d[q].stopCmdSent
              /\ fillCmdQueue(d, p, c) = Begun(d, c, 0, TRUE)
           \/ \E q \in p .. n :
                 /\ ~d[q].stopCmdSent
                 /\ \A r \in p .. q - 1 : d[r].stopCmdSent
                 /\ fillCmdQueue(d, p, c) = FillEntries(Begun(d, c, q, FALSE))
<1> DEFINE open == {q \in p .. n : ~d[q].stopCmdSent}
           none == open = {}
           s    == Begun(d, c, 0, none)
           q0   == CHOOSE q \in open : \A r \in open : q <= r
<1>1. Len(d) = n
    OBVIOUS
<1>2. fillCmdQueue(d, p, c) = IF open = {} THEN s ELSE FillEntries([s EXCEPT !.qp = q0])
    BY <1>1 DEF fillCmdQueue, Begun
<1>3. CASE open = {}
    <2>1. \A q \in p .. n : d[q].stopCmdSent
        BY <1>3
    <2>2. none = TRUE
        BY <1>3
    <2> QED BY <1>2, <1>3, <2>1, <2>2
<1>4. CASE open # {}
    <2>1. q0 \in open /\ \A r \in open : q0 <= r
        <3>1. open \in SUBSET Nat
            OBVIOUS
        <3> HIDE DEF open
        <3>2. \E q \in open : \A r \in open : q <= r
            BY <1>4, <3>1, Least
        <3> QED BY <3>2
    <2>2. [s EXCEPT !.qp = q0] = Begun(d, c, q0, FALSE)
        <3>1. none = FALSE
            BY <1>4
        <3> HIDE DEF q0, none
        <3>2. [s EXCEPT !.qp = q0] = Begun(d, c, q0, none)
            <4>1. \A x, y, z : [Begun(d, c, z, x) EXCEPT !.qp = y] = Begun(d, c, y, x)
                BY DEF Begun
            <4> QED BY <4>1
        <3> QED BY <3>1, <3>2
    <2>3. q0 \in p .. n /\ ~d[q0].stopCmdSent /\ \A r \in p .. q0 - 1 : d[r].stopCmdSent
        <3> HIDE DEF q0
        <3> QED BY <2>1
    <2> HIDE DEF q0, s
    <2> QED BY <1>2, <1>4, <2>2, <2>3
<1> QED BY <1>3, <1>4

LEMMA fillCmdQueueTyped ==
    ASSUME NEW n \in Nat, NEW d \in [1 .. n -> Item], NEW p \in 1 .. n + 1,
           NEW c \in CommandList
    PROVE  LET s == fillCmdQueue(d, p, c)
           IN  s.dq \in [1 .. n -> Item] /\ s.command \in CommandList /\ s.ena \subseteq Interrupts
<1> DEFINE s == fillCmdQueue(d, p, c)
<1>1. CASE s = Begun(d, c, 0, TRUE)
    BY <1>1 DEF Begun
<1>2. ASSUME NEW q \in p .. n,
             s = FillEntries(Begun(d, c, q, FALSE))
      PROVE  s \in Filled(n)
    <2>1. q \in 1 .. n /\ q \in 1 .. n + 1
        OBVIOUS
    <2>2. Begun(d, c, q, FALSE) \in Filled(n)
        BY <2>1 DEF Begun, Filled
    <2> QED BY <1>2, <2>2, FillEntriesTyped
<1>3. ASSUME s \in Filled(n)
      PROVE  s.dq \in [1 .. n -> Item] /\ s.command \in CommandList /\ s.ena \subseteq Interrupts
    <2> HIDE DEF s
    <2> QED BY <1>3 DEF Filled
<1> HIDE DEF s
<1>4. \/ s = Begun(d, c, 0, TRUE)
      \/ \E q \in p .. n : s = FillEntries(Begun(d, c, q, FALSE))
    <2>1. \/ /\ \A q \in p .. n : d[q].stopCmdSent
             /\ fillCmdQueue(d, p, c) = Begun(d, c, 0, TRUE)
          \/ \E q \in p .. n :
                /\ ~d[q].stopCmdSent
                /\ \A r \in p .. q - 1 : d[r].stopCmdSent
                /\ fillCmdQueue(d, p, c) = FillEntries(Begun(d, c, q, FALSE))
        BY FillBegins
    <2> QED BY <2>1 DEF s
<1> QED BY <1>1, <1>2, <1>3, <1>4 DEF s

-----------------------------------------------------------------------------
(* Types of fillTxFifo and emptyRxFifo.  The transmit FIFO never overflows: *)
(* it is why an address waits for room for both of its bytes.               *)

TxByte == [q : Nat, b : Int, rw : Nat]

TxFifo == {t \in Seq(TxByte) : Len(t) <= FifoLen}

Sending(n) == [dq : [1 .. n -> Item], queuePos : 1 .. n + 1, tx : TxFifo,
               met : BOOLEAN, at : 1 .. n + 1]

LEMMA SendAddressTyped ==
    ASSUME NEW n \in Nat, NEW s \in Sending(n), NEW q \in 1 .. n, Room(s.tx)
    PROVE  SendAddress(s, q) \in Sending(n)
<1> DEFINE e   == s.dq[q]
           num == IF e.addrReq = e.addrSent THEN 0
                  ELSE IF e.addrReq - e.addrSent = 2 /\ Len(s.tx) = FifoLen - 2 THEN 1
                  ELSE e.addrReq - e.addrSent
           b   == SubSeq(AddressBytes(e, q), 1, num)
<1>1. /\ e \in Item /\ s.tx \in Seq(TxByte) /\ Len(s.tx) \in Nat /\ Len(s.tx) < FifoLen - 1
      /\ FifoLen \in Nat
    BY CommandsAssumption DEF Sending, TxFifo, Room
<1>2. /\ e.addrReq \in {1, 2} /\ e.addrSent \in Nat /\ e.addrSent <= e.addrReq /\ e.rw \in Nat
    BY <1>1 DEF Item
<1>3. /\ num \in Nat /\ e.addrSent + num <= e.addrReq /\ Len(s.tx) + num <= FifoLen
    <2> HIDE DEF e
    <2> QED BY <1>1, <1>2
<1>4. b \in Seq(TxByte) /\ Len(b) = num
    <2> DEFINE m == e.addrReq - e.addrSent
    <2>1. m \in Nat /\ num <= m
        BY <1>2, <1>3
    <2>2. AddressBytes(e, q) \in [1 .. m -> TxByte]
        <3> HIDE DEF e
        <3> QED BY <1>2 DEF AddressBytes, TxByte
    <2>3. AddressBytes(e, q) \in Seq(TxByte) /\ Len(AddressBytes(e, q)) = m
        <3> HIDE DEF m
        <3> QED BY <2>1, <2>2
    <2> HIDE DEF m, num
    <2> QED BY <1>3, <2>1, <2>3
<1>5. s.tx \o b \in TxFifo
    <2> HIDE DEF b, num
    <2> QED BY <1>1, <1>3, <1>4 DEF TxFifo
<1>6. [s.dq EXCEPT ![q].addrSent = @ + num] \in [1 .. n -> Item]
    <2> HIDE DEF num
    <2>1. [e EXCEPT !.addrSent = @ + num] \in Item
        <3> DEFINE v == e.addrSent + num
        <3>1. v \in Nat /\ v <= e.addrReq /\ e \in Item
            <4> HIDE DEF e, num
            <4> QED BY ONLY <1>1, <1>2, <1>3
        <3> HIDE DEF e, v
        <3>2. [e EXCEPT !.addrSent = v] \in Item
            BY ONLY <3>1 DEF Item
        <3> QED BY <3>2 DEF v
    <2> QED BY <2>1 DEF Sending
<1> HIDE DEF b, num
<1>7. [s EXCEPT !.tx = @ \o b, !.dq[q].addrSent = @ + num] \in Sending(n)
    BY <1>5, <1>6 DEF Sending
<1> QED BY <1>7 DEF SendAddress, b, num

LEMMA Advanced ==
    ASSUME NEW e \in Item, NEW num \in Nat, e.position + num <= e.length
    PROVE  [e EXCEPT !.position = @ + num] \in Item
<1>1. e.position + num \in Nat
    BY DEF Item
<1> QED BY <1>1 DEF Item

LEMMA SendDataTyped ==
    ASSUME NEW n \in Nat, NEW s \in Sending(n), NEW q \in 1 .. n
    PROVE  SendData(s, q) \in Sending(n)
<1> DEFINE e   == s.dq[q]
           num == LesserOf(FifoLen - Len(s.tx), e.length - e.position)
           b   == DataBytes(e, q, num)
<1>1. /\ e \in Item /\ s.tx \in Seq(TxByte) /\ Len(s.tx) \in Nat /\ Len(s.tx) <= FifoLen
      /\ FifoLen \in Nat
    BY CommandsAssumption DEF Sending, TxFifo
<1>2. e.position \in Nat /\ e.length \in Nat /\ e.position <= e.length
    BY <1>1 DEF Item
<1>3. /\ num \in Nat /\ e.position + num <= e.length /\ Len(s.tx) + num <= FifoLen
    <2> HIDE DEF e
    <2> QED BY <1>1, <1>2 DEF LesserOf
<1>4. b \in Seq(TxByte) /\ Len(b) = num
    <2>1. b \in [1 .. num -> TxByte]
        <3> HIDE DEF e, num
        <3> QED BY <1>2, <1>3 DEF DataBytes, TxByte
    <2> HIDE DEF num, b
    <2> QED BY <1>3, <2>1
<1>5. s.tx \o b \in TxFifo
    <2> HIDE DEF b, num
    <2> QED BY <1>1, <1>3, <1>4 DEF TxFifo
<1>6. [s.dq EXCEPT ![q].position = @ + num] \in [1 .. n -> Item]
    <2> HIDE DEF num
    <2>1. [e EXCEPT !.position = @ + num] \in Item
        BY <1>1, <1>3, Advanced
    <2> QED BY <2>1 DEF Sending
<1> HIDE DEF b, num
<1>7. [s EXCEPT !.tx = @ \o b, !.dq[q].position = @ + num] \in Sending(n)
    BY <1>5, <1>6 DEF Sending
<1> QED BY <1>7 DEF SendData, b, num

LEMMA SendEntryTyped ==
    ASSUME NEW n \in Nat, NEW s \in Sending(n)
    PROVE  SendEntry(s) \in Sending(n)
<1> DEFINE q == s.at
           a == SendAddress(s, q)
           d == SendData(a, q)
           t == MeetRead(d, q)
<1>1. Len(s.dq) = n /\ q \in 1 .. n + 1
    BY DEF Sending
<1>2. CASE q > n \/ ~Room(s.tx)
    BY <1>1, <1>2 DEF SendEntry
<1>3. CASE q <= n /\ Room(s.tx)
    <2>1. q \in 1 .. n
        BY <1>1, <1>3
    <2>2. a \in Sending(n)
        BY <1>3, <2>1, SendAddressTyped
    <2>3. d \in Sending(n)
        BY <2>1, <2>2, SendDataTyped
    <2>4. t \in Sending(n) /\ t.at = d.at
        <3> HIDE DEF d
        <3> QED BY <2>1, <2>3 DEF MeetRead, Sending
    <2>5. d.at = q
        <3>1. a.at = q
            BY DEF SendAddress, Sending
        <3> HIDE DEF a
        <3> QED BY <2>2, <3>1 DEF SendData, Sending
    <2>6. [t EXCEPT !.at = @ + 1] \in Sending(n)
        <3> HIDE DEF t, d
        <3> QED BY <2>1, <2>4, <2>5 DEF Sending
    <2> QED BY <1>1, <1>3, <2>4, <2>6 DEF SendEntry
<1> QED BY <1>1, <1>2, <1>3

LEMMA fillTxFifoTyped ==
    ASSUME NEW n \in Nat, NEW d \in [1 .. n -> Item], NEW p \in 1 .. n + 1, NEW t \in TxFifo
    PROVE  fillTxFifo(d, p, t) \in Sending(n)
<1> DEFINE s == [dq |-> d, queuePos |-> p, tx |-> t, met |-> FALSE, at |-> p]
<1>1. s \in Sending(n)
    BY DEF Sending
<1>2. \A x \in Sending(n) : SendEntry(x) \in Sending(n)
    BY SendEntryTyped
<1>3. Len(d) = n
    OBVIOUS
<1>4. PICK f \in [0 .. Len(d) -> Sending(n)] : fillTxFifo(d, p, t) = f[Len(d)]
    <2>1. Len(d) \in Nat
        BY <1>3
    <2> QED BY <1>1, <1>2, <2>1, fillTxFifoRounds
<1> QED BY <1>3, <1>4

RxFifo(X) == {r \in Seq(X) : Len(r) <= FifoLen}

Storing(n, X) == [dq : [1 .. n -> Item], queuePos : 1 .. n + 1, rx : RxFifo(X),
                  misplaced : BOOLEAN]

LEMMA StoreBytesTyped ==
    ASSUME NEW n \in Nat, NEW X, NEW r \in Storing(n, X)
    PROVE  StoreBytes(r) \in Storing(n, X)
<1> DEFINE free == {q \in r.queuePos .. Len(r.dq) : r.dq[q].position < r.dq[q].length}
           first == CHOOSE q \in free : \A p \in free : q <= p
           to   == IF free = {} THEN Len(r.dq) + 1 ELSE first
           e    == r.dq[to]
           num  == LesserOf(Len(r.rx), e.length - e.position)
           lost == [r EXCEPT !.rx = <<>>, !.queuePos = to, !.misplaced = TRUE]
           m    == \E i \in 1 .. num : r.rx[i] # [q |-> to, b |-> e.position + i - 1]
           kept == [r EXCEPT !.queuePos = to,
                             !.rx = SubSeq(r.rx, num + 1, Len(r.rx)),
                             !.dq[to].position = @ + num,
                             !.misplaced = @ \/ m]
<1>1. /\ Len(r.dq) = n /\ r.queuePos \in 1 .. n + 1 /\ r.dq \in [1 .. n -> Item]
      /\ r.rx \in Seq(X) /\ Len(r.rx) \in Nat /\ Len(r.rx) <= FifoLen /\ FifoLen \in Nat
      /\ r.misplaced \in BOOLEAN
    BY CommandsAssumption DEF Storing, RxFifo
<1>2. to \in 1 .. n + 1 /\ (free # {} => to \in free /\ to \in 1 .. n)
    <2>1. free \in SUBSET Nat /\ free \subseteq 1 .. n
        BY <1>1
    <2> HIDE DEF free
    <2>2. free # {} => \E q \in free : \A p \in free : q <= p
        BY <2>1, Least
    <2>3. free # {} => first \in free
        BY <2>2
    <2> HIDE DEF first
    <2>4. CASE free = {}
        BY <1>1, <2>4
    <2>5. CASE free # {}
        <3>1. first \in free /\ first \in 1 .. n /\ to = first
            BY <2>1, <2>3, <2>5
        <3> HIDE DEF to
        <3> QED BY <3>1
    <2> HIDE DEF to
    <2> QED BY <2>4, <2>5
<1>3. StoreBytes(r) = r \/ StoreBytes(r) = lost \/ (free # {} /\ StoreBytes(r) = kept)
    BY DEF StoreBytes
<1>4. lost \in Storing(n, X)
    <2>1. <<>> \in RxFifo(X)
        BY <1>1 DEF RxFifo
    <2> HIDE DEF to
    <2> QED BY <1>2, <2>1 DEF Storing
<1>5. ASSUME free # {} PROVE kept \in Storing(n, X)
    <2>1. to \in 1 .. n /\ e \in Item /\ e.position < e.length
        <3>1. to \in free /\ to \in 1 .. n
            BY <1>2, <1>5
        <3> HIDE DEF to
        <3> QED BY <1>1, <3>1
    <2>2. e.position \in Nat /\ e.length \in Nat
        BY <2>1 DEF Item
    <2>3. num \in Nat /\ num <= Len(r.rx) /\ e.position + num <= e.length
        <3> HIDE DEF e
        <3> QED BY <1>1, <2>1, <2>2 DEF LesserOf
    <2>4. SubSeq(r.rx, num + 1, Len(r.rx)) \in RxFifo(X)
        <3> HIDE DEF num
        <3> QED BY <1>1, <2>3 DEF RxFifo
    <2>5. [r.dq EXCEPT ![to].position = @ + num] \in [1 .. n -> Item]
        <3> HIDE DEF num, to
        <3>1. [e EXCEPT !.position = @ + num] \in Item
            BY <2>1, <2>3, Advanced
        <3> QED BY <1>1, <2>1, <3>1
    <2>6. (r.misplaced \/ m) \in BOOLEAN
        OBVIOUS
    <2>7. \A a \in 1 .. n + 1, b \in RxFifo(X), c \in [1 .. n -> Item], d \in BOOLEAN :
             [r EXCEPT !.queuePos = a, !.rx = b, !.dq = c, !.misplaced = d] \in Storing(n, X)
        BY DEF Storing
    <2>8. to \in 1 .. n + 1
        BY <2>1
    <2> HIDE DEF num, to, m
    <2>9. r.rx \in RxFifo(X) /\ kept = [r EXCEPT !.queuePos = to,
                                              !.rx = SubSeq(r.rx, num + 1, Len(r.rx)),
                                              !.dq = [r.dq EXCEPT ![to].position = @ + num],
                                              !.misplaced = r.misplaced \/ m]
        BY <1>1 DEF Storing
    <2> HIDE DEF kept
    <2> QED BY <2>4, <2>5, <2>6, <2>7, <2>8, <2>9
<1> HIDE DEF lost, kept, free
<1> QED BY <1>3, <1>4, <1>5

LEMMA emptyRxFifoTyped ==
    ASSUME NEW n \in Nat, NEW X, NEW r \in Storing(n, X)
    PROVE  emptyRxFifo(r) \in Storing(n, X)
<1>1. \A x \in Storing(n, X) : StoreBytes(x) \in Storing(n, X)
    BY StoreBytesTyped
<1>2. Len(r.rx) \in Nat
    BY DEF Storing, RxFifo
<1>3. PICK f \in [0 .. Len(r.rx) -> Storing(n, X)] : emptyRxFifo(r) = f[Len(r.rx)]
    BY <1>1, <1>2, emptyRxFifoRounds
<1> QED BY <1>2, <1>3

-----------------------------------------------------------------------------
(* The command list.  Of its first k commands, those that one pass of       *)
(* fillCmdQueue has written, each START has its address behind it, and, at  *)
(* the end of the pass, one of them stops the controller.                   *)

StartsWrite(c, k) ==
    \A i \in 0 .. Slots - 1 :
        i < k /\ c[i].op = "RSTART" => i + 1 < k /\ c[i + 1].op = "WRITE"

Ends(c, k) == \E i \in 0 .. Slots - 1 : i < k /\ c[i].op \in {"STOP", "END"}

WellFormed(c) ==
    \E last \in 0 .. Slots - 1 :
        /\ c[last].op \in {"STOP", "END"}
        /\ \A i \in 0 .. last - 1 :
              /\ c[i].op \notin {"STOP", "END"}
              /\ c[i].op = "RSTART" => c[i + 1].op = "WRITE"

LEMMA ListWritten ==
    ASSUME NEW c \in CommandList, NEW k \in 0 .. Slots, StartsWrite(c, k), Ends(c, k)
    PROVE  WellFormed(c)
<1> DEFINE T == {i \in 0 .. Slots - 1 : c[i].op \in {"STOP", "END"}}
<1>1. PICK j \in T : j < k
    BY DEF Ends
<1>2. PICK last \in T : \A i \in T : last <= i
    <2>1. T \in SUBSET Nat /\ T # {}
        BY <1>1
    <2> HIDE DEF T
    <2> QED BY <2>1, Least
<1>3. last < k /\ last \in 0 .. Slots - 1 /\ k \in Nat /\ Slots \in Nat
    BY <1>1, <1>2, CommandsAssumption
<1>4. ASSUME NEW i \in 0 .. last - 1
      PROVE  c[i].op \notin {"STOP", "END"} /\ (c[i].op = "RSTART" => c[i + 1].op = "WRITE")
    <2>1. i \in 0 .. Slots - 1 /\ i < k /\ i < last
        BY <1>3
    <2>2. i \notin T
        BY <1>2, <2>1
    <2> QED BY <2>1, <2>2 DEF StartsWrite
<1> QED BY <1>2, <1>4 DEF WellFormed

\* a command more, which is not a START
LEMMA ListGrows ==
    ASSUME NEW c \in CommandList, NEW k \in 0 .. Slots - 1, NEW cmd \in Command,
           cmd.op # "RSTART", StartsWrite(c, k)
    PROVE  LET d == [c EXCEPT ![k] = cmd]
           IN  /\ d \in CommandList /\ StartsWrite(d, k + 1)
               /\ cmd.op \in {"STOP", "END"} \/ Ends(c, k) => Ends(d, k + 1)
<1> DEFINE d == [c EXCEPT ![k] = cmd]
<1>1. /\ Slots \in Nat /\ d[k] = cmd /\ \A i \in 0 .. Slots - 1 : i # k => d[i] = c[i]
      /\ d \in CommandList
    BY CommandsAssumption DEF CommandList
<1> HIDE DEF d
<1>2. ASSUME NEW i \in 0 .. Slots - 1, i < k + 1, d[i].op = "RSTART"
      PROVE  i + 1 < k + 1 /\ d[i + 1].op = "WRITE"
    <2>1. i # k /\ i < k /\ d[i] = c[i]
        BY <1>1, <1>2
    <2>2. i + 1 < k /\ c[i + 1].op = "WRITE"
        BY <1>2, <2>1 DEF StartsWrite
    <2>3. d[i + 1] = c[i + 1]
        BY <1>1, <2>2
    <2> QED BY <2>2, <2>3
<1>3. StartsWrite(d, k + 1)
    BY <1>2 DEF StartsWrite
<1>4. cmd.op \in {"STOP", "END"} => Ends(d, k + 1)
    <2>1. k < k + 1
        OBVIOUS
    <2> QED BY <1>1, <2>1 DEF Ends
<1>5. Ends(c, k) => Ends(d, k + 1)
    <2>1. ASSUME NEW i \in 0 .. Slots - 1, i < k, c[i].op \in {"STOP", "END"}
          PROVE  i < k + 1 /\ d[i].op \in {"STOP", "END"}
        BY <1>1, <2>1
    <2> QED BY <2>1 DEF Ends
<1> QED BY <1>1, <1>3, <1>4, <1>5 DEF d

\* a START with its address
LEMMA ListStarts ==
    ASSUME NEW c \in CommandList, NEW k \in 0 .. Slots - 2, NEW start \in Command,
           NEW addr \in Command, addr.op = "WRITE", StartsWrite(c, k)
    PROVE  LET d == [[c EXCEPT ![k] = start] EXCEPT ![k + 1] = addr]
           IN  d \in CommandList /\ StartsWrite(d, k + 2)
<1> DEFINE d == [[c EXCEPT ![k] = start] EXCEPT ![k + 1] = addr]
<1>1. Slots \in Nat /\ k \in 0 .. Slots - 1 /\ k + 1 \in 0 .. Slots - 1
    BY CommandsAssumption
<1>2. /\ d[k] = start /\ d[k + 1] = addr /\ d \in CommandList
      /\ \A i \in 0 .. Slots - 1 : i # k /\ i # k + 1 => d[i] = c[i]
    BY <1>1 DEF CommandList
<1> HIDE DEF d
<1>3. ASSUME NEW i \in 0 .. Slots - 1, i < k + 2, d[i].op = "RSTART"
      PROVE  i + 1 < k + 2 /\ d[i + 1].op = "WRITE"
    <2>1. CASE i = k
        BY <1>2, <2>1
    <2>2. CASE i # k
        <3>1. i # k + 1 /\ i < k /\ d[i] = c[i]
            BY <1>2, <1>3, <2>2
        <3>2. i + 1 < k /\ c[i + 1].op = "WRITE"
            BY <1>3, <3>1 DEF StartsWrite
        <3>3. d[i + 1] = c[i + 1]
            BY <1>1, <1>2, <3>2
        <3> QED BY <3>2, <3>3
    <2> QED BY <2>1, <2>2
<1> QED BY <1>2, <1>3 DEF StartsWrite, d

\* A full list is stretched in front of what cannot be a START.
LEMMA ListStretches ==
    ASSUME NEW c \in CommandList, NEW at \in 0 .. Slots - 3,
           at # 0 => c[at].op \in {"READ", "WRITE"},
           \A j \in 1 .. Slots - 3 : c[j].op \in {"READ", "WRITE"} => j <= at,
           StartsWrite(c, Slots - 2)
    PROVE  StartsWrite([i \in 0 .. Slots - 1 |->
                           IF i = at THEN [c[at] EXCEPT !.num = 0]
                           ELSE IF i \in at + 1 .. Slots - 2 THEN c[i - 1]
                           ELSE c[i]], Slots - 1)
<1> DEFINE d == [i \in 0 .. Slots - 1 |->
                    IF i = at THEN [c[at] EXCEPT !.num = 0]
                    ELSE IF i \in at + 1 .. Slots - 2 THEN c[i - 1]
                    ELSE c[i]]
<1>1. Slots \in Nat /\ Slots >= 6 /\ at \in 0 .. Slots - 1
    BY CommandsAssumption
<1>2. d[at].op = c[at].op
    <2>1. \A x \in Command : [x EXCEPT !.num = 0].op = x.op
        BY DEF Command
    <2>2. c[at] \in Command
        BY <1>1 DEF CommandList
    <2> QED BY <1>1, <2>1, <2>2
<1>3. ASSUME NEW i \in 0 .. Slots - 1, i < at PROVE d[i] = c[i]
    BY <1>1, <1>3
<1>4. ASSUME NEW i \in 0 .. Slots - 1, at < i, i < Slots - 1 PROVE d[i] = c[i - 1]
    BY <1>1, <1>4
<1> HIDE DEF d
<1>5. ASSUME NEW i \in 0 .. Slots - 1, i < Slots - 1, d[i].op = "RSTART"
      PROVE  i + 1 < Slots - 1 /\ d[i + 1].op = "WRITE"
    <2>1. CASE i < at
        <3>1. c[i].op = "RSTART" /\ i < Slots - 2
            BY <1>1, <1>3, <1>5, <2>1
        <3>2. c[i + 1].op = "WRITE"
            BY <3>1 DEF StartsWrite
        <3>3. i + 1 \in 0 .. Slots - 1 /\ i + 1 < Slots - 1 /\ (i + 1 = at \/ i + 1 < at)
            BY <1>1, <2>1
        <3> QED BY <1>2, <1>3, <3>2, <3>3
    <2>2. CASE i = at
        <3>1. at = 0 /\ c[0].op = "RSTART"
            BY <1>2, <1>5, <2>2
        <3>2. c[1].op = "WRITE"
            <4>1. 0 \in 0 .. Slots - 1 /\ 0 < Slots - 2 /\ 0 + 1 = 1
                BY <1>1
            <4> QED BY <3>1, <4>1 DEF StartsWrite
        <3>3. 1 <= at
            <4>1. 1 \in 1 .. Slots - 3
                BY <1>1
            <4> QED BY <3>2, <4>1
        <3> QED BY <3>1, <3>3
    <2>3. CASE at < i
        <3>1. c[i - 1].op = "RSTART"
            BY <1>4, <1>5, <2>3
        <3>2. i - 1 \in 0 .. Slots - 1 /\ i - 1 < Slots - 2 /\ (i - 1) + 1 = i
            BY <1>1, <1>5, <2>3
        <3>3. i < Slots - 2 /\ c[i].op = "WRITE"
            BY <3>1, <3>2 DEF StartsWrite
        <3>4. i <= at
            <4>1. i \in 1 .. Slots - 3
                BY <1>1, <2>3, <3>3
            <4> QED BY <3>3, <4>1
        <3> QED BY <1>1, <2>3, <3>4
    <2> QED BY <1>1, <2>1, <2>2, <2>3
<1>6. StartsWrite(d, Slots - 1)
    BY <1>5 DEF StartsWrite
<1> QED BY <1>6 DEF d

-----------------------------------------------------------------------------
(* One round of fillCmdQueue, from state s. *)

\* only the entry of the round is touched, and a START has its address
Round(n, s) ==
    {x \in Filling(n) :
        /\ x.qp = s.qp
        /\ \A r \in 1 .. n : r # s.qp => x.dq[r] = s.dq[r]
        /\ x.dq[s.qp].stop = s.dq[s.qp].stop
        /\ x.dq[s.qp].startCmdSent => x.dq[s.qp].addrCmdSent
        /\ StartsWrite(x.command, x.cmdIdx)
        /\ x.cmdIdx <= Slots}

\* before its STOP: a full list ends the loop, and only in front of the slot that is
\* left for END was there no room for the START
Open(n, s) ==
    {x \in Round(n, s) :
        /\ ~x.dq[s.qp].stopCmdSent
        /\ x.done <=> Full(x)
        /\ x.cmdIdx < Slots
        /\ x.dq[s.qp].startCmdSent \/ x.cmdIdx = Slots - 2}

\* at the beginning
Begins(n, s) ==
    /\ s \in Filling(n) /\ ~s.done /\ s.cmdIdx <= Slots - 2
    /\ StartsWrite(s.command, s.cmdIdx)
    /\ s.dq[s.qp].startCmdSent => s.dq[s.qp].addrCmdSent
    /\ ~s.dq[s.qp].stopCmdSent

LEMMA RoundStarts ==
    ASSUME NEW n \in Nat, NEW s, Begins(n, s)
    PROVE  AddAddress(AddStart(s)) \in Open(n, s)
<1> DEFINE e == s.dq[s.qp]
           a == AddStart(s)
           b == AddAddress(a)
           ea == [e EXCEPT !.startCmdSent = TRUE]
<1>1. /\ s \in Filling(n) /\ s.qp \in 1 .. n /\ e \in Item /\ s.dq \in [1 .. n -> Item]
      /\ s.cmdIdx \in Nat /\ Slots \in Nat /\ s.command \in CommandList /\ s.done = FALSE
    BY CommandsAssumption DEF Begins, Filling
<1>2. CASE ~e.startCmdSent /\ s.cmdIdx < Slots - 2
    <2>1. /\ a \in Filling(n) /\ ea \in Item /\ Lists(s, a, Cmd("RSTART", 0, FALSE), ea)
        BY <1>1, <1>2, AddStartDoes
    <2>2. /\ a.dq[a.qp] = ea /\ a.qp = s.qp /\ a.cmdIdx = s.cmdIdx + 1
          /\ \A r \in 1 .. n : r # s.qp => a.dq[r] = s.dq[r]
          /\ a.command = [s.command EXCEPT ![s.cmdIdx] = Cmd("RSTART", 0, FALSE)]
        <3> HIDE DEF a, ea, e
        <3> QED BY <1>1, <2>1 DEF Lists
    <2>3. /\ ea.startCmdSent /\ ~ea.addrCmdSent /\ ~ea.stopCmdSent /\ ea.stop = e.stop
        <3> HIDE DEF e
        <3> QED BY <1>1, <1>2 DEF Item
    <2> DEFINE eb == [ea EXCEPT !.addrCmdSent = TRUE]
               w  == Cmd("WRITE", ea.addrReq, FALSE)
    <2>4. b \in Filling(n) /\ eb \in Item /\ Lists(a, b, w, eb) /\ b.done = Full(b)
        <3> HIDE DEF a, ea
        <3> QED BY <2>1, <2>2, <2>3, AddAddressDoes
    <2>5. /\ eb.startCmdSent /\ eb.addrCmdSent /\ ~eb.stopCmdSent /\ eb.stop = e.stop
        <3> HIDE DEF ea
        <3> QED BY <2>1, <2>3 DEF Item
    <2>6. /\ b.dq[s.qp] = eb /\ b.qp = s.qp /\ b.cmdIdx = s.cmdIdx + 2
          /\ \A r \in 1 .. n : r # s.qp => b.dq[r] = s.dq[r]
          /\ b.command = [[s.command EXCEPT ![s.cmdIdx] = Cmd("RSTART", 0, FALSE)]
                             EXCEPT ![s.cmdIdx + 1] = w]
        <3>1. a.dq \in [1 .. n -> Item]
            BY <2>1 DEF Filling
        <3> HIDE DEF a, b, eb, ea, e, w
        <3> QED BY <1>1, <2>2, <2>4, <3>1 DEF Lists
    <2>7. StartsWrite(b.command, s.cmdIdx + 2)
        <3>1. s.cmdIdx \in 0 .. Slots - 2 /\ StartsWrite(s.command, s.cmdIdx)
            BY <1>1 DEF Begins
        <3>2. Cmd("RSTART", 0, FALSE) \in Command /\ w \in Command /\ w.op = "WRITE"
            <4>1. ea.addrReq \in {1, 2}
                BY <2>1 DEF Item
            <4> QED BY <4>1 DEF Cmd, Command
        <3>3. s.command \in CommandList
            BY <1>1
        <3> HIDE DEF w, b
        <3> DEFINE r == Cmd("RSTART", 0, FALSE)
        <3>4. b.command = [[s.command EXCEPT ![s.cmdIdx] = r] EXCEPT ![s.cmdIdx + 1] = w]
            BY <2>6
        <3>5. r \in Command
            BY <3>2
        <3> HIDE DEF r
        <3>6. StartsWrite([[s.command EXCEPT ![s.cmdIdx] = r] EXCEPT ![s.cmdIdx + 1] = w],
                          s.cmdIdx + 2)
            BY <3>1, <3>2, <3>3, <3>5, ListStarts
        <3> QED BY ONLY <3>4, <3>6
    <2>8. s.cmdIdx + 2 <= Slots /\ s.cmdIdx + 2 < Slots
        BY <1>1, <1>2
    <2>9. b \in Open(n, s)
        <3> HIDE DEF b, eb
        <3> QED BY <2>4, <2>5, <2>6, <2>7, <2>8 DEF Open, Round
    <2> QED BY <2>9
<1>3. CASE ~(~e.startCmdSent /\ s.cmdIdx < Slots - 2)
    <2>1. a = s
        BY <1>1, <1>3, AddStartDoes
    <2>2. b = s
        <3>1. ~(e.startCmdSent /\ ~e.addrCmdSent)
            BY DEF Begins
        <3> HIDE DEF a
        <3> QED BY <1>1, <2>1, <3>1, AddAddressDoes
    <2>3. s.cmdIdx <= Slots /\ s.cmdIdx < Slots /\ s.cmdIdx <= Slots - 2
        BY <1>1 DEF Begins
    <2>4. e.startCmdSent \/ s.cmdIdx = Slots - 2
        <3> HIDE DEF e
        <3> QED BY <1>1, <1>3, <2>3
    <2>5. ~s.done /\ ~Full(s)
        BY <1>1, <2>3 DEF Full
    <2>6. s \in Open(n, s)
        BY <1>1, <2>3, <2>4, <2>5 DEF Open, Round, Begins
    <2> QED BY <2>2, <2>6
<1> QED BY <1>2, <1>3

\* a READ or WRITE command for the entry leaves the round open
LEMMA RoundLists ==
    ASSUME NEW n \in Nat, NEW s, NEW x \in Open(n, s), NEW u \in Filling(n),
           NEW cmd \in Command, NEW f \in Item,
           ~x.done, cmd.op # "RSTART", Lists(x, u, cmd, f), u.done = Full(u),
           f.stop = x.dq[s.qp].stop, f.startCmdSent, f.addrCmdSent, ~f.stopCmdSent
    PROVE  u \in Open(n, s) /\ u.dq[u.qp] = f
<1>1. /\ x \in Filling(n) /\ x.qp = s.qp /\ x.qp \in 1 .. n /\ x.dq \in [1 .. n -> Item]
      /\ x.cmdIdx \in Nat /\ Slots \in Nat /\ x.command \in CommandList /\ ~Full(x)
      /\ StartsWrite(x.command, x.cmdIdx)
    BY CommandsAssumption DEF Open, Round, Filling
<1>2. x.cmdIdx \in 0 .. Slots - 1 /\ x.cmdIdx + 1 < Slots
    BY <1>1 DEF Full
<1>3. /\ u.qp = s.qp /\ u.dq[s.qp] = f /\ u.cmdIdx = x.cmdIdx + 1
      /\ \A r \in 1 .. n : r # s.qp => u.dq[r] = x.dq[r]
      /\ u.command = [x.command EXCEPT ![x.cmdIdx] = cmd]
    BY <1>1 DEF Lists
<1>4. StartsWrite(u.command, u.cmdIdx)
    BY <1>1, <1>2, <1>3, ListGrows
<1>5. \A r \in 1 .. n : r # s.qp => u.dq[r] = s.dq[r]
    BY <1>3 DEF Open, Round
<1>6. u.dq[s.qp].stop = s.dq[s.qp].stop
    BY <1>3 DEF Open, Round
<1>7. u \in Round(n, s)
    <2>1. u.cmdIdx <= Slots
        BY <1>1, <1>2, <1>3
    <2> QED BY <1>3, <1>4, <1>5, <1>6, <2>1 DEF Round
<1> QED BY <1>2, <1>3, <1>7 DEF Open

\* the round has its address
Going(n, s) == {x \in Open(n, s) : x.dq[s.qp].addrCmdSent}

LEMMA RoundBlock ==
    ASSUME NEW n \in Nat, NEW s, NEW x \in Going(n, s)
    PROVE  LET u == AddBlock(x)
               e == x.dq[s.qp]
           IN  /\ u \in Going(n, s)
               /\ IF ~x.done /\ e.cmdBytesNeeded > Kept(e) THEN u.cmdIdx = x.cmdIdx + 1 ELSE u = x
<1> DEFINE u == AddBlock(x)
           e == x.dq[s.qp]
<1>1. /\ x \in Filling(n) /\ x.qp = s.qp /\ e \in Item /\ x \in Open(n, s)
      /\ e.addrCmdSent /\ e.startCmdSent /\ ~e.stopCmdSent
    BY DEF Going, Open, Round, Filling, Item
<1>2. CASE ~(~x.done /\ e.cmdBytesNeeded > Kept(e))
    BY <1>1, <1>2, AddBlockDoes
<1>3. CASE ~x.done /\ e.cmdBytesNeeded > Kept(e)
    <2>1. PICK k \in Nat, num \in Nat :
              /\ u \in Filling(n) /\ u.done = Full(u)
              /\ [e EXCEPT !.cmdBytesNeeded = k] \in Item
              /\ Lists(x, u, Cmd(e.mode, num, FALSE), [e EXCEPT !.cmdBytesNeeded = k])
        BY <1>1, <1>3, AddBlockDoes
    <2> DEFINE f == [e EXCEPT !.cmdBytesNeeded = k]
               cmd == Cmd(e.mode, num, FALSE)
    <2>2. f.stop = e.stop /\ f.startCmdSent /\ f.addrCmdSent /\ ~f.stopCmdSent
        <3> HIDE DEF e
        <3> QED BY <1>1 DEF Item
    <2>3. cmd \in Command /\ cmd.op # "RSTART"
        <3>1. e.mode \in {"READ", "WRITE"}
            BY <1>1 DEF Item
        <3> HIDE DEF e
        <3> QED BY <3>1 DEF Cmd, Command
    <2>4. u \in Open(n, s) /\ u.dq[u.qp] = f
        <3>1. u \in Filling(n) /\ u.done = Full(u) /\ f \in Item /\ Lists(x, u, cmd, f)
            BY <2>1
        <3> HIDE DEF u, f, cmd
        <3> QED BY <1>1, <1>3, <2>2, <2>3, <3>1, RoundLists
    <2>5. u.qp = s.qp /\ u.cmdIdx = x.cmdIdx + 1
        BY <1>1, <2>1 DEF Lists
    <2>6. u \in Going(n, s)
        <3> HIDE DEF u, f
        <3> QED BY <2>2, <2>4, <2>5 DEF Going
    <2> QED BY <1>3, <2>5, <2>6
<1> QED BY <1>2, <1>3

\* Slots rounds are enough: each takes a slot.
LEMMA RoundBlocks ==
    ASSUME NEW n \in Nat, NEW s, NEW x \in Going(n, s)
    PROVE  LET u == AddBlocks(x)
           IN  u \in Going(n, s) /\ (u.done \/ u.dq[s.qp].cmdBytesNeeded <= Kept(u.dq[s.qp]))
<1> DEFINE More(y) == ~y.done /\ y.dq[s.qp].cmdBytesNeeded > Kept(y.dq[s.qp])
<1>1. \A y \in Going(n, s) : AddBlock(y) \in Going(n, s)
    BY RoundBlock
<1>2. PICK f \in [0 .. Slots -> Going(n, s)] :
          /\ f[0] = x /\ \A k \in 1 .. Slots : f[k] = AddBlock(f[k - 1])
          /\ AddBlocks(x) = f[Slots]
    BY <1>1, AddBlocksRounds
<1>3. \A y \in Going(n, s) : IF More(y) THEN AddBlock(y).cmdIdx = y.cmdIdx + 1 ELSE AddBlock(y) = y
    BY RoundBlock
<1>4. \A y \in Going(n, s) : y.cmdIdx \in Nat /\ y.cmdIdx < Slots
    BY DEF Going, Open, Round, Filling
<1> HIDE DEF More
<1> DEFINE T == {k \in Nat : k <= Slots => ~More(f[k]) \/ f[k].cmdIdx >= k}
<1>5. \A k \in Nat : k \in T
    <2>1. 0 \in T
        <3>1. 0 \in 0 .. Slots
            BY CommandsAssumption
        <3>2. f[0].cmdIdx \in Nat
            BY <1>2, <1>4, <3>1
        <3> QED BY <3>2
    <2>2. ASSUME NEW k \in Nat, k \in T PROVE k + 1 \in T
        <3>1. SUFFICES ASSUME k + 1 <= Slots PROVE ~More(f[k + 1]) \/ f[k + 1].cmdIdx >= k + 1
            OBVIOUS
        <3>2. k \in 0 .. Slots /\ k + 1 \in 1 .. Slots /\ (k + 1) - 1 = k /\ Slots \in Nat
            BY <3>1, CommandsAssumption
        <3>3. f[k] \in Going(n, s) /\ f[k + 1] = AddBlock(f[k])
            BY <1>2, <3>2
        <3>4. CASE ~More(f[k])
            BY <1>3, <3>3, <3>4
        <3>5. CASE More(f[k])
            <4>1. f[k].cmdIdx >= k /\ f[k].cmdIdx \in Nat
                <5>1. k <= Slots
                    BY <3>2
                <5>2. f[k].cmdIdx >= k
                    BY <2>2, <3>5, <5>1
                <5> QED BY <1>4, <3>3, <5>2
            <4>2. f[k + 1].cmdIdx = f[k].cmdIdx + 1
                BY <1>3, <3>3, <3>5
            <4> QED BY <4>1, <4>2
        <3> QED BY <3>4, <3>5
    <2> HIDE DEF T
    <2> QED BY <2>1, <2>2, Induct
<1>6. f[Slots] \in Going(n, s) /\ Slots \in Nat
    BY <1>2, CommandsAssumption
<1>7. ~More(f[Slots])
    <2>1. ~More(f[Slots]) \/ f[Slots].cmdIdx >= Slots
        BY <1>5, <1>6
    <2> QED BY <1>4, <1>6, <2>1
<1>8. \A y \in Going(n, s) : y.dq[s.qp] \in Item
    BY DEF Going, Open, Round, Filling
<1>9. \A e \in Item : e.cmdBytesNeeded \in Nat /\ Kept(e) \in Nat
    BY DEF Item, Kept
<1> QED BY <1>2, <1>6, <1>7, <1>8, <1>9 DEF More

LEMMA RoundLastRead ==
    ASSUME NEW n \in Nat, NEW s, NEW x \in Going(n, s),
           x.done \/ x.dq[s.qp].cmdBytesNeeded <= Kept(x.dq[s.qp])
    PROVE  LET u == AddLastRead(x)
           IN  u \in Going(n, s) /\ (u.done \/ u.dq[s.qp].cmdBytesNeeded = 0)
<1> DEFINE u == AddLastRead(x)
           e == x.dq[s.qp]
           f == [e EXCEPT !.cmdBytesNeeded = 0]
           cmd == Cmd("READ", 1, TRUE)
<1>1. /\ x \in Filling(n) /\ x.qp = s.qp /\ e \in Item /\ x \in Open(n, s)
      /\ e.addrCmdSent /\ e.startCmdSent /\ ~e.stopCmdSent
    BY DEF Going, Open, Round, Filling, Item
<1>2. CASE ~(~x.done /\ e.mode = "READ" /\ e.cmdBytesNeeded = 1)
    <2>1. u = x
        BY <1>1, <1>2, AddLastReadDoes
    <2>2. x.done \/ e.cmdBytesNeeded = 0
        <3>1. e.cmdBytesNeeded \in Nat /\ e.mode \in {"READ", "WRITE"}
            BY <1>1 DEF Item
        <3> QED BY <1>2, <3>1 DEF Kept
    <2> QED BY <2>1, <2>2
<1>3. CASE ~x.done /\ e.mode = "READ" /\ e.cmdBytesNeeded = 1
    <2>1. u \in Filling(n) /\ u.done = Full(u) /\ f \in Item /\ Lists(x, u, cmd, f)
        BY <1>1, <1>3, AddLastReadDoes
    <2>2. /\ f.stop = e.stop /\ f.startCmdSent /\ f.addrCmdSent /\ ~f.stopCmdSent
          /\ f.cmdBytesNeeded = 0
        <3> HIDE DEF e
        <3> QED BY <1>1 DEF Item
    <2>3. cmd \in Command /\ cmd.op # "RSTART"
        BY DEF Cmd, Command
    <2>4. u \in Open(n, s) /\ u.dq[u.qp] = f
        <3> HIDE DEF u, f, cmd
        <3> QED BY <1>1, <1>3, <2>1, <2>2, <2>3, RoundLists
    <2>5. u.qp = s.qp
        BY <1>1, <2>1 DEF Lists
    <2>6. u \in Going(n, s) /\ u.dq[s.qp].cmdBytesNeeded = 0
        <3> HIDE DEF u, f
        <3> QED BY <2>2, <2>4, <2>5 DEF Going
    <2> QED BY <2>6
<1> QED BY <1>2, <1>3

\* the commands of the entry are in the list, or the list is full
Commanded(n, s) ==
    {x \in Round(n, s) :
        /\ x.dq[s.qp].startCmdSent
        /\ x.done => x.cmdIdx = Slots - 1
        /\ ~x.done => /\ x.cmdIdx <= Slots - 2 /\ x.dq[s.qp].stopCmdSent
                      /\ x.dq[s.qp].stop => Ends(x.command, x.cmdIdx)}

LEMMA RoundStop ==
    ASSUME NEW n \in Nat, NEW s, NEW x \in Going(n, s),
           x.done \/ x.dq[s.qp].cmdBytesNeeded = 0
    PROVE  AddStop(x) \in Commanded(n, s)
<1> DEFINE u == AddStop(x)
           e == x.dq[s.qp]
           f == [e EXCEPT !.stopCmdSent = TRUE]
           cmd == Cmd("STOP", 0, FALSE)
<1>1. /\ x \in Filling(n) /\ x.qp = s.qp /\ e \in Item /\ x \in Open(n, s) /\ x \in Round(n, s)
      /\ e.addrCmdSent /\ e.startCmdSent /\ ~e.stopCmdSent
      /\ x.done <=> Full(x)
      /\ x.cmdIdx < Slots /\ x.cmdIdx \in Nat /\ Slots \in Nat /\ x.command \in CommandList
      /\ x.dq \in [1 .. n -> Item] /\ x.qp \in 1 .. n
    BY CommandsAssumption DEF Going, Open, Round, Filling, Item
<1>2. CASE x.done
    <2>1. u = x
        BY <1>1, <1>2, AddStopDoes
    <2>2. x.cmdIdx = Slots - 1
        BY <1>1, <1>2 DEF Full
    <2> QED BY <1>1, <1>2, <2>1, <2>2 DEF Commanded
<1>3. CASE ~x.done
    <2>1. e.cmdBytesNeeded = 0
        BY <1>3
    <2>2. /\ u \in Filling(n) /\ f \in Item
          /\ IF e.stop THEN Lists(x, u, cmd, f) /\ u.done = Full(u)
             ELSE /\ u.dq = [x.dq EXCEPT ![x.qp] = f] /\ u.qp = x.qp /\ u.done = FALSE
                  /\ u.command = x.command /\ u.cmdIdx = x.cmdIdx
        BY <1>1, <1>3, <2>1, AddStopDoes
    <2>3. f.stop = e.stop /\ f.startCmdSent /\ f.addrCmdSent /\ f.stopCmdSent
        <3> HIDE DEF e
        <3> QED BY <1>1 DEF Item
    <2>4. x.cmdIdx \in 0 .. Slots - 1 /\ x.cmdIdx <= Slots - 2 /\ x.cmdIdx + 1 <= Slots - 1
        BY <1>1, <1>3 DEF Full
    <2>5. u.dq = [x.dq EXCEPT ![x.qp] = f] /\ u.qp = x.qp
        <3> HIDE DEF u, f, e
        <3> QED BY <2>2 DEF Lists
    <2>6. /\ u.qp = s.qp /\ u.dq[s.qp] = f
          /\ \A r \in 1 .. n : r # s.qp => u.dq[r] = x.dq[r]
        <3> HIDE DEF u, f
        <3> QED BY <1>1, <2>5
    <2>7. /\ \A r \in 1 .. n : r # s.qp => u.dq[r] = s.dq[r]
          /\ f.stop = s.dq[s.qp].stop
        <3> HIDE DEF u, f
        <3> QED BY <1>1, <2>3, <2>6 DEF Round
    <2>8. CASE e.stop
        <3>1. u.cmdIdx = x.cmdIdx + 1 /\ u.command = [x.command EXCEPT ![x.cmdIdx] = cmd]
              /\ u.done = Full(u)
            <4> HIDE DEF u, f, e, cmd
            <4> QED BY <2>2, <2>8 DEF Lists
        <3>2. cmd \in Command /\ cmd.op = "STOP"
            BY DEF Cmd, Command
        <3>3. StartsWrite(u.command, u.cmdIdx) /\ Ends(u.command, u.cmdIdx)
            <4>1. StartsWrite(x.command, x.cmdIdx)
                BY <1>1 DEF Round
            <4> HIDE DEF u, cmd
            <4> QED BY <1>1, <2>4, <3>1, <3>2, <4>1, ListGrows
        <3>4. u \in Round(n, s)
            <4>1. u.cmdIdx <= Slots
                BY <1>1, <2>4, <3>1
            <4> HIDE DEF u, f
            <4> QED BY <2>2, <2>3, <2>6, <2>7, <3>3, <4>1 DEF Round
        <3>5. /\ u.done => u.cmdIdx = Slots - 1
              /\ ~u.done => u.cmdIdx <= Slots - 2
            <4> HIDE DEF u
            <4>1. u.cmdIdx \in Nat /\ u.cmdIdx <= Slots - 1
                BY <1>1, <2>4, <3>1
            <4>2. Full(u) <=> u.cmdIdx > Slots - 2
                BY DEF Full
            <4> QED BY <1>1, <3>1, <4>1, <4>2
        <3>6. u \in Commanded(n, s)
            <4> HIDE DEF u, f
            <4> QED BY <2>3, <2>6, <3>3, <3>4, <3>5 DEF Commanded
        <3> QED BY <3>6
    <2>9. CASE ~e.stop
        <3>1. u.cmdIdx = x.cmdIdx /\ u.command = x.command /\ u.done = FALSE
            <4> HIDE DEF u, f, e, cmd
            <4> QED BY <2>2, <2>9
        <3>2. u \in Round(n, s)
            <4> HIDE DEF u, f
            <4> QED BY <1>1, <2>2, <2>3, <2>6, <2>7, <3>1 DEF Round
        <3>3. ~f.stop
            BY <2>3, <2>9
        <3>4. u \in Commanded(n, s)
            <4> HIDE DEF u, f
            <4> QED BY <2>3, <2>4, <2>6, <3>1, <3>2, <3>3 DEF Commanded
        <3> QED BY <3>4
    <2> QED BY <2>8, <2>9
<1> QED BY <1>2, <1>3

\* without a START, the round waits in front of END
Waiting(n, s) ==
    {x \in Round(n, s) : ~x.dq[s.qp].startCmdSent /\ x.cmdIdx = Slots - 2}

LEMMA RoundData ==
    ASSUME NEW n \in Nat, NEW s, NEW x \in Open(n, s)
    PROVE  AddData(x) \in Commanded(n, s) \cup Waiting(n, s)
<1>1. /\ x \in Filling(n) /\ x.qp = s.qp /\ x.dq[s.qp] \in Item /\ x \in Round(n, s)
      /\ x.done <=> Full(x)
      /\ x.cmdIdx < Slots /\ x.cmdIdx \in Nat /\ Slots \in Nat
    BY CommandsAssumption DEF Open, Round, Filling
<1>2. CASE ~x.dq[s.qp].addrCmdSent
    <2>1. ~x.dq[s.qp].startCmdSent /\ x.cmdIdx = Slots - 2
        BY <1>2 DEF Open, Round
    <2>2. AddData(x) = x
        BY <1>1, <1>2 DEF AddData
    <2> QED BY <1>1, <2>1, <2>2 DEF Waiting
<1>3. CASE x.dq[s.qp].addrCmdSent /\ x.done
    <2>1. x.cmdIdx = Slots - 1
        BY <1>1, <1>3 DEF Full
    <2>2. x.dq[s.qp].startCmdSent
        BY <1>1, <1>3 DEF Item
    <2>3. AddData(x) = x
        BY <1>3 DEF AddData
    <2> QED BY <1>1, <1>3, <2>1, <2>2, <2>3 DEF Commanded
<1>4. CASE x.dq[s.qp].addrCmdSent /\ ~x.done
    <2>1. x \in Going(n, s)
        BY <1>4 DEF Going
    <2>2. AddStop(AddLastRead(AddBlocks(x))) \in Commanded(n, s)
        BY <2>1, RoundBlocks, RoundLastRead, RoundStop
    <2>3. AddData(x) = AddStop(AddLastRead(AddBlocks(x)))
        BY <1>1, <1>4 DEF AddData
    <2> QED BY <2>2, <2>3
<1> QED BY <1>2, <1>3, <1>4

\* the end of the list is written: what the round leaves for NextEntry
Written(n, s) ==
    {x \in Round(n, s) :
        /\ x.done => Ends(x.command, x.cmdIdx) /\ "end_detect" \in x.ena
        /\ ~x.done => /\ x.cmdIdx <= Slots - 2 /\ x.dq[s.qp].stopCmdSent
                      /\ x.dq[s.qp].stop => Ends(x.command, x.cmdIdx)}

LEMMA RoundStretches ==
    ASSUME NEW n \in Nat, NEW s, NEW x \in Waiting(n, s)
    PROVE  Stretch(x) \in Round(n, s) /\ Stretch(x).cmdIdx = Slots - 1
<1> DEFINE u == Stretch(x)
<1>1. /\ x \in Filling(n) /\ x.qp = s.qp /\ x \in Round(n, s) /\ x.command \in CommandList
      /\ Slots \in Nat /\ ~x.dq[x.qp].startCmdSent /\ x.cmdIdx = Slots - 2
      /\ StartsWrite(x.command, Slots - 2)
    BY CommandsAssumption DEF Waiting, Round, Filling
<1>2. PICK at \in 0 .. Slots - 3 :
          /\ at # 0 => x.command[at].op \in {"READ", "WRITE"}
          /\ \A j \in 1 .. Slots - 3 : x.command[j].op \in {"READ", "WRITE"} => j <= at
          /\ u = IF x.cmdIdx = Slots - 2 /\ ~x.dq[x.qp].startCmdSent
                 THEN [x EXCEPT !.done = TRUE, !.cmdIdx = Slots - 1,
                                !.command = [i \in 0 .. Slots - 1 |->
                                    IF i = at THEN [x.command[at] EXCEPT !.num = 0]
                                    ELSE IF i \in at + 1 .. Slots - 2 THEN x.command[i - 1]
                                    ELSE x.command[i]]]
                 ELSE x
    BY <1>1, Stretched
<1> DEFINE list == [i \in 0 .. Slots - 1 |->
                       IF i = at THEN [x.command[at] EXCEPT !.num = 0]
                       ELSE IF i \in at + 1 .. Slots - 2 THEN x.command[i - 1]
                       ELSE x.command[i]]
<1>3. StartsWrite(list, Slots - 1)
    <2> DEFINE c == x.command
    <2>1. /\ c \in CommandList
          /\ at # 0 => c[at].op \in {"READ", "WRITE"}
          /\ \A j \in 1 .. Slots - 3 : c[j].op \in {"READ", "WRITE"} => j <= at
          /\ StartsWrite(c, Slots - 2)
        BY <1>1, <1>2
    <2>2. list = [i \in 0 .. Slots - 1 |->
                    IF i = at THEN [c[at] EXCEPT !.num = 0]
                    ELSE IF i \in at + 1 .. Slots - 2 THEN c[i - 1]
                    ELSE c[i]]
        OBVIOUS
    <2> HIDE DEF c, list
    <2>3. StartsWrite([i \in 0 .. Slots - 1 |->
                    IF i = at THEN [c[at] EXCEPT !.num = 0]
                    ELSE IF i \in at + 1 .. Slots - 2 THEN c[i - 1]
                    ELSE c[i]], Slots - 1)
        BY ONLY <1>2, <2>1, ListStretches
    <2> QED BY ONLY <2>2, <2>3
<1>4. u = [x EXCEPT !.done = TRUE, !.cmdIdx = Slots - 1, !.command = list]
    BY <1>1, <1>2
<1>5. u \in Filling(n)
    BY <1>1, StretchTyped
<1> HIDE DEF u, list
<1>6. u.qp = x.qp /\ u.dq = x.dq /\ u.cmdIdx = Slots - 1 /\ u.command = list
    BY <1>1, <1>4 DEF Filling
<1>7. u.cmdIdx <= Slots
    BY <1>1, <1>6
<1>8. u \in Round(n, s)
    BY <1>1, <1>3, <1>5, <1>6, <1>7 DEF Round
<1> QED BY <1>6, <1>8 DEF u

LEMMA RoundEnds ==
    ASSUME NEW n \in Nat, NEW s, NEW x \in Round(n, s), x.cmdIdx = Slots - 1
    PROVE  AddEnd(x) \in Written(n, s)
<1> DEFINE u == AddEnd(x)
           cmd == Cmd("END", 0, FALSE)
           t == SetCmd(x, cmd)
<1>1. /\ x \in Filling(n) /\ x.command \in CommandList /\ Slots \in Nat
      /\ x.cmdIdx \in 0 .. Slots - 1 /\ x.cmdIdx + 1 = Slots
      /\ StartsWrite(x.command, x.cmdIdx)
    BY CommandsAssumption DEF Round, Filling
<1>2. cmd \in Command /\ cmd.op = "END"
    BY DEF Cmd, Command
<1>3. /\ t \in Filling(n) /\ t.dq = x.dq /\ t.qp = x.qp
      /\ t.cmdIdx = Slots /\ t.command = [x.command EXCEPT ![x.cmdIdx] = cmd]
    <2> HIDE DEF cmd
    <2> QED BY <1>1, <1>2, SetCmdTyped
<1>4. u = [t EXCEPT !.done = TRUE, !.ena = @ \cup {"end_detect"}] /\ u \in Filling(n)
    BY <1>1, AddEndTyped DEF AddEnd
<1>5. u.dq = x.dq /\ u.qp = x.qp /\ u.cmdIdx = Slots /\ u.done = TRUE
      /\ u.command = [x.command EXCEPT ![x.cmdIdx] = cmd] /\ "end_detect" \in u.ena
    <2> HIDE DEF t, u, cmd
    <2> QED BY <1>3, <1>4 DEF Filling
<1>6. StartsWrite(u.command, u.cmdIdx) /\ Ends(u.command, u.cmdIdx)
    <2> HIDE DEF u, cmd
    <2> QED BY <1>1, <1>2, <1>5, ListGrows
<1>7. u \in Written(n, s)
    <2>1. u.cmdIdx <= Slots
        BY <1>1, <1>5
    <2> HIDE DEF u
    <2> QED BY <1>4, <1>5, <1>6, <2>1 DEF Written, Round
<1> QED BY <1>7

LEMMA RoundWritten ==
    ASSUME NEW n \in Nat, NEW s, NEW x \in Commanded(n, s) \cup Waiting(n, s)
    PROVE  AddEnd(Stretch(x)) \in Written(n, s)
<1>1. /\ x \in Round(n, s) /\ x.qp = s.qp /\ x \in Filling(n) /\ Slots \in Nat
    BY CommandsAssumption DEF Commanded, Waiting, Round
<1>2. CASE x \in Waiting(n, s)
    BY <1>2, RoundStretches, RoundEnds
<1>3. CASE x \in Commanded(n, s)
    <2>1. Stretch(x) = x
        <3>1. x.dq[x.qp].startCmdSent
            BY <1>1, <1>3 DEF Commanded
        <3> QED BY <1>1, <3>1, Stretched
    <2>2. CASE x.cmdIdx = Slots - 1
        BY <1>1, <2>1, <2>2, RoundEnds
    <2>3. CASE x.cmdIdx # Slots - 1
        <3>1. AddEnd(x) = x
            BY <2>3 DEF AddEnd
        <3>2. ~x.done
            BY <1>3, <2>3 DEF Commanded
        <3>3. x \in Written(n, s)
            BY <1>3, <3>2 DEF Commanded, Written
        <3> QED BY <2>1, <3>1, <3>3
    <2> QED BY <2>2, <2>3
<1> QED BY <1>2, <1>3

-----------------------------------------------------------------------------
(* One pass of fillCmdQueue over a queue of n entries, from entry p: the    *)
(* entries before qp have all their commands, those behind it not yet.      *)

StartsAddressed(d) ==
    \A q \in DOMAIN d : d[q].startCmdSent => d[q].addrCmdSent

\* from p on, the entries get their commands one after another
InOrder(n, d, p) ==
    \A q, r \in 1 .. n : p <= q /\ q < r /\ d[r].stopCmdSent => d[q].stopCmdSent

Passing(n, p) ==
    {s \in Filled(n) :
        /\ s.dq[n].stop
        /\ StartsAddressed(s.dq)
        /\ \A r \in 1 .. n : p <= r /\ r < s.qp => s.dq[r].stopCmdSent
        /\ \A r \in 1 .. n : s.qp < r => ~s.dq[r].stopCmdSent
        /\ StartsWrite(s.command, s.cmdIdx)
        /\ s.cmdIdx <= Slots
        /\ s.done => /\ Ends(s.command, s.cmdIdx)
                     /\ "end_detect" \in s.ena \/ s.dq[n].stopCmdSent
        /\ ~s.done => s.cmdIdx <= Slots - 2 /\ ~s.dq[s.qp].stopCmdSent}

LEMMA EntryPasses ==
    ASSUME NEW n \in Nat \ {0}, NEW p \in 1 .. n + 1, NEW s \in Passing(n, p), ~s.done
    PROVE  LET u == FillEntry(s)
           IN  u \in Passing(n, p) /\ (u.done \/ u.qp = s.qp + 1)
<1> DEFINE x == AddEnd(Stretch(AddData(AddAddress(AddStart(s)))))
           u == FillEntry(s)
<1>1. /\ s \in Filled(n) /\ s.qp \in 1 .. n /\ n \in Nat /\ Slots \in Nat
      /\ s.dq \in [1 .. n -> Item]
    BY CommandsAssumption DEF Passing, Filled
<1>2. Begins(n, s)
    <2>1. s \in Filling(n)
        BY <1>1 DEF Filled, Filling
    <2> QED BY <1>1, <2>1 DEF Begins, Passing, StartsAddressed
<1>3. x \in Written(n, s)
    <2>1. AddAddress(AddStart(s)) \in Open(n, s)
        BY <1>1, <1>2, RoundStarts
    <2>2. AddData(AddAddress(AddStart(s))) \in Commanded(n, s) \cup Waiting(n, s)
        BY <1>1, <2>1, RoundData
    <2> QED BY <1>1, <2>2, RoundWritten
<1>4. u = NextEntry(x)
    BY DEF FillEntry
<1> HIDE DEF x, u
<1>5. /\ x \in Round(n, s) /\ x \in Filling(n) /\ x.qp = s.qp /\ x.dq \in [1 .. n -> Item]
      /\ Len(x.dq) = n /\ x.cmdIdx \in Nat
    BY <1>3 DEF Written, Round, Filling
<1>6. /\ \A r \in 1 .. n : r # s.qp => x.dq[r] = s.dq[r]
      /\ x.dq[n].stop /\ StartsAddressed(x.dq)
      /\ StartsWrite(x.command, x.cmdIdx)
      /\ x.cmdIdx <= Slots
    <2>1. /\ \A r \in 1 .. n : r # s.qp => x.dq[r] = s.dq[r]
          /\ x.dq[s.qp].stop = s.dq[s.qp].stop
          /\ x.dq[s.qp].startCmdSent => x.dq[s.qp].addrCmdSent
          /\ StartsWrite(x.command, x.cmdIdx)
          /\ x.cmdIdx <= Slots
        BY <1>5 DEF Round
    <2>2. s.dq[n].stop /\ \A r \in 1 .. n : s.dq[r].startCmdSent => s.dq[r].addrCmdSent
        BY <1>1 DEF Passing, StartsAddressed
    <2>3. x.dq[n].stop
        BY <2>1, <2>2
    <2>4. StartsAddressed(x.dq)
        BY <1>5, <2>1, <2>2 DEF StartsAddressed
    <2> QED BY <2>1, <2>3, <2>4
<1>7. /\ \A r \in 1 .. n : p <= r /\ r < s.qp => x.dq[r].stopCmdSent
      /\ \A r \in 1 .. n : s.qp < r => ~x.dq[r].stopCmdSent
    <2>1. /\ \A r \in 1 .. n : p <= r /\ r < s.qp => s.dq[r].stopCmdSent
          /\ \A r \in 1 .. n : s.qp < r => ~s.dq[r].stopCmdSent
        BY DEF Passing
    <2>2. \A r \in 1 .. n : r < s.qp \/ s.qp < r => r # s.qp
        BY <1>1
    <2> QED BY ONLY <1>6, <2>1, <2>2
<1>8. CASE x.done
    <2>1. u = x
        BY <1>4, <1>8 DEF NextEntry
    <2>2. x \in Filled(n)
        BY <1>5, <1>8 DEF Filled, Filling
    <2>3. Ends(x.command, x.cmdIdx) /\ "end_detect" \in x.ena
        BY <1>3, <1>8 DEF Written
    <2>4. x \in Passing(n, p)
        BY <1>5, <1>6, <1>7, <1>8, <2>2, <2>3 DEF Passing
    <2> QED BY <1>8, <2>1, <2>4 DEF u
<1>9. CASE ~x.done
    <2>1. /\ x.cmdIdx <= Slots - 2 /\ x.dq[s.qp].stopCmdSent
          /\ x.dq[s.qp].stop => Ends(x.command, x.cmdIdx)
        BY <1>3, <1>9 DEF Written
    <2> DEFINE end == x.qp = n
    <2>2. u = [x EXCEPT !.qp = x.qp + 1, !.done = end]
        BY <1>4, <1>5, <1>9, <2>1 DEF NextEntry
    <2>3. u \in Filled(n)
        BY <1>4, <1>5, NextEntryTyped
    <2>4. end \in BOOLEAN /\ (end <=> s.qp = n)
        BY <1>5
    <2> HIDE DEF end
    <2>5. /\ u.qp = s.qp + 1 /\ u.done = end /\ u.dq = x.dq /\ u.command = x.command
          /\ u.cmdIdx = x.cmdIdx
        BY <1>5, <2>2 DEF Filling
    <2>6. /\ \A r \in 1 .. n : p <= r /\ r < u.qp => u.dq[r].stopCmdSent
          /\ \A r \in 1 .. n : u.qp < r => ~u.dq[r].stopCmdSent
        BY <1>1, <1>7, <2>1, <2>5
    <2>7. u.done => Ends(u.command, u.cmdIdx) /\ u.dq[n].stopCmdSent
        BY <1>6, <2>1, <2>4, <2>5
    <2>8. ~u.done => u.cmdIdx <= Slots - 2 /\ ~u.dq[u.qp].stopCmdSent
        <3>1. ASSUME ~u.done PROVE u.qp \in 1 .. n /\ s.qp < u.qp
            BY <1>1, <2>4, <2>5, <3>1
        <3> QED BY <1>7, <2>1, <2>5, <3>1
    <2>9. u \in Passing(n, p)
        BY <1>6, <2>3, <2>5, <2>6, <2>7, <2>8 DEF Passing
    <2> QED BY <2>5, <2>9 DEF u
<1> QED BY <1>8, <1>9

\* A pass ends, and with a command that stops the controller.
LEMMA PassEnds ==
    ASSUME NEW n \in Nat \ {0}, NEW p \in 1 .. n + 1, NEW s \in Passing(n, p)
    PROVE  LET u == FillEntries(s)
           IN  u \in Passing(n, p) /\ u.done
<1>1. /\ n \in Nat /\ s \in Filled(n) /\ Len(s.dq) = n
    BY DEF Passing, Filled
<1>2. \A y \in Passing(n, p) : y.done => FillEntry(y) = y
    BY DEF FillEntry
<1>3. \A y \in Passing(n, p) : FillEntry(y) \in Passing(n, p)
    BY <1>2, EntryPasses
<1>4. PICK f \in [0 .. n -> Passing(n, p)] :
          /\ f[0] = s /\ \A k \in 1 .. n : f[k] = FillEntry(f[k - 1])
          /\ FillEntries(s) = f[n]
    <2>1. Len(s.dq) \in Nat
        BY <1>1
    <2>2. \E f \in [0 .. Len(s.dq) -> Passing(n, p)] :
              /\ f[0] = s /\ \A k \in 1 .. Len(s.dq) : f[k] = FillEntry(f[k - 1])
              /\ FillEntries(s) = f[Len(s.dq)]
        BY <1>3, <2>1, FillEntriesRounds
    <2> QED BY <1>1, <2>2
<1>5. \A y \in Passing(n, p) : y.qp \in 1 .. n + 1 /\ (y.done \/ y.qp \in 1 .. n)
    BY DEF Passing, Filled
<1> DEFINE T == {k \in Nat : k <= n => f[k].done \/ f[k].qp >= k + 1}
<1>6. \A k \in Nat : k \in T
    <2>1. 0 \in T
        <3>1. f[0].qp \in 1 .. n + 1
            BY <1>1, <1>4, <1>5
        <3> QED BY <3>1
    <2>2. ASSUME NEW k \in Nat, k \in T PROVE k + 1 \in T
        <3>1. SUFFICES ASSUME k + 1 <= n PROVE f[k + 1].done \/ f[k + 1].qp >= (k + 1) + 1
            OBVIOUS
        <3>2. k \in 0 .. n /\ k + 1 \in 1 .. n /\ (k + 1) - 1 = k /\ k <= n
            BY <1>1, <3>1
        <3>3. f[k] \in Passing(n, p) /\ f[k + 1] = FillEntry(f[k])
            BY <1>4, <3>2
        <3>4. CASE f[k].done
            BY <1>2, <3>3, <3>4
        <3>5. CASE ~f[k].done
            <4>1. f[k + 1].done \/ f[k + 1].qp = f[k].qp + 1
                BY <3>3, <3>5, EntryPasses
            <4>2. f[k].qp >= k + 1 /\ f[k].qp \in 1 .. n + 1
                BY <1>5, <2>2, <3>2, <3>3, <3>5
            <4> QED BY <1>1, <4>1, <4>2
        <3> QED BY <3>4, <3>5
    <2> HIDE DEF T
    <2> QED BY <2>1, <2>2, Induct
<1>7. f[n] \in Passing(n, p) /\ (f[n].done \/ f[n].qp >= n + 1)
    BY <1>1, <1>4, <1>6
<1>8. f[n].done
    BY <1>1, <1>5, <1>7
<1> QED BY <1>4, <1>7, <1>8

\* The list that fillCmdQueue leaves, if it has anything to add, is well formed, and
\* the order in which entries get their commands is kept; as long as something remains to
\* be added, the interrupt at the end of the list is wanted.
LEMMA fillCmdQueueWellFormed ==
    ASSUME NEW n \in Nat \ {0}, NEW d \in [1 .. n -> Item], NEW p \in 1 .. n + 1,
           NEW c \in CommandList,
           d[n].stop, StartsAddressed(d), InOrder(n, d, p)
    PROVE  LET s == fillCmdQueue(d, p, c)
           IN  /\ s.dq \in [1 .. n -> Item] /\ s.dq[n].stop
               /\ StartsAddressed(s.dq) /\ InOrder(n, s.dq, p)
               /\ \/ WellFormed(s.command)
                  \/ s.command = c /\ \A q \in p .. n : d[q].stopCmdSent
               /\ p <= n => "end_detect" \in s.ena \/ s.dq[n].stopCmdSent
<1> DEFINE s == fillCmdQueue(d, p, c)
<1>1. CASE /\ \A q \in p .. n : d[q].stopCmdSent
           /\ s = Begun(d, c, 0, TRUE)
    <2>1. s.dq = d /\ s.command = c
        BY <1>1 DEF Begun
    <2> HIDE DEF s
    <2>2. s.dq \in [1 .. n -> Item] /\ s.dq[n].stop /\ StartsAddressed(s.dq) /\ InOrder(n, s.dq, p)
        BY <2>1
    <2>3. ASSUME p <= n PROVE s.dq[n].stopCmdSent
        <3>1. n \in p .. n
            BY <2>3
        <3>2. d[n].stopCmdSent
            BY <1>1, <3>1
        <3> QED BY <2>1, <3>2
    <2> QED BY <1>1, <2>1, <2>2, <2>3 DEF s
<1>2. ASSUME NEW q \in p .. n,
             ~d[q].stopCmdSent, \A r \in p .. q - 1 : d[r].stopCmdSent,
             s = FillEntries(Begun(d, c, q, FALSE))
      PROVE  /\ s.dq \in [1 .. n -> Item] /\ s.dq[n].stop
             /\ StartsAddressed(s.dq) /\ InOrder(n, s.dq, p)
             /\ WellFormed(s.command)
             /\ "end_detect" \in s.ena \/ s.dq[n].stopCmdSent
    <2> DEFINE b == Begun(d, c, q, FALSE)
    <2>1. /\ b.dq = d /\ b.command = c /\ b.cmdIdx = 0 /\ b.qp = q /\ b.done = FALSE
          /\ q \in 1 .. n /\ n \in Nat
        BY DEF Begun
    <2>2. b \in Filled(n)
        <3>1. q \in 1 .. n + 1
            BY <2>1
        <3> QED BY <2>1, <3>1 DEF Begun, Filled
    <2> HIDE DEF b, s
    <2>3. \A r \in 1 .. n : p <= r /\ r < b.qp => b.dq[r].stopCmdSent
        BY <1>2, <2>1
    <2>4. \A r \in 1 .. n : b.qp < r => ~b.dq[r].stopCmdSent
        BY <1>2, <2>1 DEF InOrder
    <2>5. StartsWrite(b.command, b.cmdIdx)
        BY <2>1 DEF StartsWrite
    <2>6. b.cmdIdx <= Slots /\ b.cmdIdx <= Slots - 2
        BY <2>1, CommandsAssumption
    <2>7. b \in Passing(n, p)
        BY <1>2, <2>1, <2>2, <2>3, <2>4, <2>5, <2>6 DEF Passing
    <2>8. s \in Passing(n, p) /\ s.done
        BY <1>2, <2>7, PassEnds DEF b
    <2>9. /\ s \in Filled(n) /\ s.dq[n].stop /\ StartsAddressed(s.dq)
          /\ s.cmdIdx \in 0 .. Slots /\ s.command \in CommandList
          /\ StartsWrite(s.command, s.cmdIdx) /\ Ends(s.command, s.cmdIdx)
          /\ s.qp \in 1 .. n + 1 /\ s.dq \in [1 .. n -> Item]
          /\ "end_detect" \in s.ena \/ s.dq[n].stopCmdSent
        BY <2>8, CommandsAssumption DEF Passing, Filled
    <2>10. InOrder(n, s.dq, p)
        BY <2>1, <2>8, <2>9 DEF Passing, InOrder
    <2>11. WellFormed(s.command)
        BY <2>9, ListWritten
    <2> QED BY <2>9, <2>10, <2>11
<1>3. \/ /\ \A q \in p .. n : d[q].stopCmdSent
         /\ s = Begun(d, c, 0, TRUE)
      \/ \E q \in p .. n :
            /\ ~d[q].stopCmdSent
            /\ \A r \in p .. q - 1 : d[r].stopCmdSent
            /\ s = FillEntries(Begun(d, c, q, FALSE))
    BY FillBegins
<1> HIDE DEF s
<1> QED BY <1>1, <1>2, <1>3 DEF s

-----------------------------------------------------------------------------
(* The FIFOs: what moves bytes leaves the flags of the entries alone, and   *)
(* goes on in the queue, never back.                                        *)

Moves(e, f) ==
    /\ f.mode = e.mode /\ f.length = e.length /\ f.stop = e.stop /\ f.addrReq = e.addrReq
    /\ f.rw = e.rw /\ f.cmdBytesNeeded = e.cmdBytesNeeded
    /\ f.startCmdSent = e.startCmdSent /\ f.addrCmdSent = e.addrCmdSent
    /\ f.stopCmdSent = e.stopCmdSent

SameFlags(n, d, e) == \A q \in 1 .. n : Moves(d[q], e[q])

LEMMA MovesItself ==
    ASSUME NEW n \in Nat, NEW d
    PROVE  SameFlags(n, d, d)
BY DEF SameFlags, Moves

LEMMA FlagsOfOne ==
    ASSUME NEW n \in Nat, NEW d \in [1 .. n -> Item], NEW q \in 1 .. n, NEW x, Moves(d[q], x)
    PROVE  SameFlags(n, d, [d EXCEPT ![q] = x])
BY DEF SameFlags, Moves

LEMMA FlagsTogether ==
    ASSUME NEW n \in Nat, NEW c, NEW d, NEW e, SameFlags(n, c, d), SameFlags(n, d, e)
    PROVE  SameFlags(n, c, e)
BY DEF SameFlags, Moves

LEMMA SendAddressFlags ==
    ASSUME NEW n \in Nat, NEW s \in Sending(n), NEW q \in 1 .. n
    PROVE  LET u == SendAddress(s, q)
           IN  SameFlags(n, s.dq, u.dq) /\ u.queuePos = s.queuePos
<1>1. PICK num, b : SendAddress(s, q) = [s EXCEPT !.tx = @ \o b, !.dq[q].addrSent = @ + num]
    BY DEF SendAddress
<1>2. \A e \in Item : \A v : Moves(e, [e EXCEPT !.addrSent = v])
    BY DEF Item, Moves
<1> DEFINE e == s.dq[q]
           x == [e EXCEPT !.addrSent = @ + num]
           u == SendAddress(s, q)
<1>3. s.dq \in [1 .. n -> Item] /\ e \in Item
    BY DEF Sending
<1>4. u.dq = [s.dq EXCEPT ![q] = x] /\ u.queuePos = s.queuePos
    BY <1>1 DEF Sending
<1>5. SameFlags(n, s.dq, [s.dq EXCEPT ![q] = x])
    BY <1>2, <1>3, FlagsOfOne
<1> QED BY <1>4, <1>5

LEMMA SendDataFlags ==
    ASSUME NEW n \in Nat, NEW s \in Sending(n), NEW q \in 1 .. n
    PROVE  LET u == SendData(s, q)
           IN  SameFlags(n, s.dq, u.dq) /\ u.queuePos = s.queuePos
<1>1. PICK num, b : \/ SendData(s, q) = s
                    \/ SendData(s, q) = [s EXCEPT !.tx = @ \o b, !.dq[q].position = @ + num]
    BY DEF SendData
<1>2. \A e \in Item : \A v : Moves(e, [e EXCEPT !.position = v])
    BY DEF Item, Moves
<1> DEFINE e == s.dq[q]
           x == [e EXCEPT !.position = @ + num]
           u == SendData(s, q)
<1>3. s.dq \in [1 .. n -> Item] /\ e \in Item
    BY DEF Sending
<1>4. \/ u = s
      \/ u.dq = [s.dq EXCEPT ![q] = x] /\ u.queuePos = s.queuePos
    BY <1>1 DEF Sending
<1>5. SameFlags(n, s.dq, [s.dq EXCEPT ![q] = x]) /\ SameFlags(n, s.dq, s.dq)
    BY <1>2, <1>3, FlagsOfOne, MovesItself
<1> HIDE DEF u, x
<1>6. SameFlags(n, s.dq, u.dq) /\ u.queuePos = s.queuePos
    BY <1>4, <1>5
<1> QED BY <1>6 DEF u

LEMMA SendEntryFlags ==
    ASSUME NEW n \in Nat, NEW s \in Sending(n)
    PROVE  LET u == SendEntry(s)
           IN  SameFlags(n, s.dq, u.dq) /\ s.queuePos <= u.queuePos
<1> DEFINE q == s.at
           a == SendAddress(s, q)
           d == SendData(a, q)
           t == MeetRead(d, q)
           u == SendEntry(s)
<1>1. Len(s.dq) = n /\ q \in 1 .. n + 1 /\ s.queuePos \in 1 .. n + 1
    BY DEF Sending
<1>2. CASE q > n \/ ~Room(s.tx)
    <2>1. u = s
        BY <1>1, <1>2 DEF SendEntry
    <2>2. SameFlags(n, s.dq, s.dq) /\ s.queuePos <= s.queuePos
        BY <1>1, MovesItself
    <2> QED BY <2>1, <2>2
<1>3. CASE q <= n /\ Room(s.tx)
    <2>1. q \in 1 .. n
        BY <1>1, <1>3
    <2>2. a \in Sending(n) /\ SameFlags(n, s.dq, a.dq) /\ a.queuePos = s.queuePos
        BY <1>3, <2>1, SendAddressTyped, SendAddressFlags
    <2>3. d \in Sending(n) /\ SameFlags(n, a.dq, d.dq) /\ d.queuePos = a.queuePos
        <3> HIDE DEF a
        <3> QED BY <2>1, <2>2, SendDataTyped, SendDataFlags
    <2>4. t.dq = d.dq /\ d.queuePos <= t.queuePos /\ t \in Sending(n)
        <3> HIDE DEF d
        <3>1. d.queuePos \in 1 .. n + 1
            BY <2>3 DEF Sending
        <3>2. d.dq \in [1 .. n -> Item]
            BY <2>3 DEF Sending
        <3>3. \/ t = d
              \/ t = [d EXCEPT !.met = TRUE, !.queuePos = IF q > @ THEN q ELSE @]
            BY DEF MeetRead
        <3> DEFINE v == IF q > d.queuePos THEN q ELSE d.queuePos
        <3>4. v \in 1 .. n + 1 /\ d.queuePos <= v
            BY <2>1, <3>1
        <3>5. t = d \/ t = [d EXCEPT !.met = TRUE, !.queuePos = v]
            BY <3>3
        <3> HIDE DEF v, t
        <3>6. ASSUME t = [d EXCEPT !.met = TRUE, !.queuePos = v]
              PROVE  t.dq = d.dq /\ t.queuePos = v /\ t \in Sending(n)
            BY ONLY <2>3, <3>4, <3>6 DEF Sending
        <3> QED BY <2>3, <3>1, <3>4, <3>5, <3>6
    <2>5. u = t \/ u = [t EXCEPT !.at = @ + 1]
        BY <1>1, <1>3 DEF SendEntry
    <2> HIDE DEF a, d, t, u
    <2>6. u.dq = t.dq /\ u.queuePos = t.queuePos
        BY <2>4, <2>5 DEF Sending
    <2>7. SameFlags(n, s.dq, u.dq) /\ s.queuePos <= u.queuePos
        BY <2>2, <2>3, <2>4, <2>6, FlagsTogether
    <2> QED BY <2>7 DEF u
<1> QED BY <1>1, <1>2, <1>3

LEMMA fillTxFifoFlags ==
    ASSUME NEW n \in Nat, NEW d \in [1 .. n -> Item], NEW p \in 1 .. n + 1, NEW t \in TxFifo
    PROVE  LET u == fillTxFifo(d, p, t)
           IN  SameFlags(n, d, u.dq) /\ p <= u.queuePos
<1> DEFINE s == [dq |-> d, queuePos |-> p, tx |-> t, met |-> FALSE, at |-> p]
           S == {x \in Sending(n) : SameFlags(n, d, x.dq) /\ p <= x.queuePos}
<1>1. s \in S
    BY MovesItself DEF Sending
<1>2. \A x \in S : SendEntry(x) \in S
    <2>1. SUFFICES ASSUME NEW x \in S PROVE SendEntry(x) \in S
        OBVIOUS
    <2>2. /\ SendEntry(x) \in Sending(n) /\ SameFlags(n, x.dq, SendEntry(x).dq)
          /\ x.queuePos <= SendEntry(x).queuePos
        BY SendEntryTyped, SendEntryFlags
    <2>3. x.queuePos \in 1 .. n + 1 /\ SendEntry(x).queuePos \in 1 .. n + 1
        BY <2>2 DEF Sending
    <2>4. SameFlags(n, d, SendEntry(x).dq)
        BY <2>2, FlagsTogether
    <2> QED BY <2>2, <2>3, <2>4
<1>3. Len(d) = n
    OBVIOUS
<1> HIDE DEF S
<1>4. PICK f \in [0 .. Len(d) -> S] : fillTxFifo(d, p, t) = f[Len(d)]
    <2>1. Len(d) \in Nat
        BY <1>3
    <2> QED BY <1>1, <1>2, <2>1, fillTxFifoRounds
<1>5. fillTxFifo(d, p, t) \in S
    BY <1>3, <1>4
<1> QED BY <1>5 DEF S

LEMMA StoreBytesFlags ==
    ASSUME NEW n \in Nat, NEW X, NEW r \in Storing(n, X)
    PROVE  LET u == StoreBytes(r)
           IN  SameFlags(n, r.dq, u.dq) /\ r.queuePos <= u.queuePos
<1> DEFINE free == {q \in r.queuePos .. Len(r.dq) : r.dq[q].position < r.dq[q].length}
           first == CHOOSE q \in free : \A p \in free : q <= p
           to   == IF free = {} THEN Len(r.dq) + 1 ELSE first
           u    == StoreBytes(r)
<1>1. /\ Len(r.dq) = n /\ r.queuePos \in 1 .. n + 1 /\ r.dq \in [1 .. n -> Item]
    BY DEF Storing
<1>2. r.queuePos <= to /\ (free # {} => to \in 1 .. n)
    <2>1. free \in SUBSET Nat /\ free \subseteq 1 .. n /\ \A q \in free : r.queuePos <= q
        BY <1>1
    <2> HIDE DEF free
    <2>2. free # {} => \E q \in free : \A p \in free : q <= p
        BY <2>1, Least
    <2>3. free # {} => first \in free
        BY <2>2
    <2> HIDE DEF first
    <2>4. CASE free = {}
        BY <1>1, <2>4
    <2>5. CASE free # {}
        <3>1. r.queuePos <= first /\ first \in 1 .. n /\ to = first
            BY <2>1, <2>3, <2>5
        <3> HIDE DEF to
        <3> QED BY <3>1
    <2> HIDE DEF to
    <2> QED BY <2>4, <2>5
<1>3. \/ u = r
      \/ u = [r EXCEPT !.rx = <<>>, !.queuePos = to, !.misplaced = TRUE]
      \/ free # {} /\ \E num, m : u = [r EXCEPT !.queuePos = to,
                                         !.rx = SubSeq(r.rx, num + 1, Len(r.rx)),
                                         !.dq[to].position = @ + num,
                                         !.misplaced = @ \/ m]
    <2> DEFINE num  == LesserOf(Len(r.rx), r.dq[to].length - r.dq[to].position)
               m    == \E i \in 1 .. num : r.rx[i] # [q |-> to, b |-> r.dq[to].position + i - 1]
               lost == [r EXCEPT !.rx = <<>>, !.queuePos = to, !.misplaced = TRUE]
               kept == [r EXCEPT !.queuePos = to, !.rx = SubSeq(r.rx, num + 1, Len(r.rx)),
                                 !.dq[to].position = @ + num, !.misplaced = @ \/ m]
    <2>1. u = r \/ u = lost \/ (free # {} /\ u = kept)
        BY DEF StoreBytes
    <2> HIDE DEF num, m, u, free, to
    <2> QED BY <2>1
<1> HIDE DEF to, free, u
<1>4. \A e \in Item : \A v : Moves(e, [e EXCEPT !.position = v])
    BY DEF Item, Moves
<1>5. SameFlags(n, r.dq, r.dq) /\ r.queuePos <= r.queuePos
    BY <1>1, MovesItself
<1>6. CASE u = r
    BY <1>5, <1>6 DEF u
<1>7. CASE u = [r EXCEPT !.rx = <<>>, !.queuePos = to, !.misplaced = TRUE]
    <2>1. u.dq = r.dq /\ u.queuePos = to
        BY <1>7 DEF Storing
    <2> QED BY <1>2, <1>5, <2>1 DEF u
<1>8. ASSUME free # {}, NEW num, NEW m,
             u = [r EXCEPT !.queuePos = to, !.rx = SubSeq(r.rx, num + 1, Len(r.rx)),
                           !.dq[to].position = @ + num, !.misplaced = @ \/ m]
      PROVE  SameFlags(n, r.dq, u.dq) /\ r.queuePos <= u.queuePos
    <2> DEFINE x == [r.dq[to] EXCEPT !.position = @ + num]
    <2>1. u.dq = [r.dq EXCEPT ![to] = x] /\ u.queuePos = to
        BY <1>8 DEF Storing
    <2>2. to \in 1 .. n /\ r.dq[to] \in Item
        BY <1>1, <1>2, <1>8
    <2>3. SameFlags(n, r.dq, [r.dq EXCEPT ![to] = x])
        BY <1>1, <1>4, <2>2, FlagsOfOne
    <2> QED BY <1>2, <2>1, <2>3
<1> QED BY <1>3, <1>6, <1>7, <1>8 DEF u

LEMMA emptyRxFifoFlags ==
    ASSUME NEW n \in Nat, NEW X, NEW r \in Storing(n, X)
    PROVE  LET u == emptyRxFifo(r)
           IN  SameFlags(n, r.dq, u.dq) /\ r.queuePos <= u.queuePos
<1> DEFINE S == {x \in Storing(n, X) : SameFlags(n, r.dq, x.dq) /\ r.queuePos <= x.queuePos}
<1>1. r \in S /\ Len(r.rx) \in Nat
    BY MovesItself DEF Storing, RxFifo
<1>2. \A x \in S : StoreBytes(x) \in S
    <2>1. SUFFICES ASSUME NEW x \in S PROVE StoreBytes(x) \in S
        OBVIOUS
    <2>2. /\ StoreBytes(x) \in Storing(n, X) /\ SameFlags(n, x.dq, StoreBytes(x).dq)
          /\ x.queuePos <= StoreBytes(x).queuePos
        BY StoreBytesTyped, StoreBytesFlags
    <2>3. /\ r.queuePos \in 1 .. n + 1 /\ x.queuePos \in 1 .. n + 1
          /\ StoreBytes(x).queuePos \in 1 .. n + 1
        BY <2>2 DEF Storing
    <2>4. SameFlags(n, r.dq, StoreBytes(x).dq)
        BY <2>2, FlagsTogether
    <2> QED BY <2>2, <2>3, <2>4
<1> HIDE DEF S
<1>3. PICK f \in [0 .. Len(r.rx) -> S] : emptyRxFifo(r) = f[Len(r.rx)]
    BY <1>1, <1>2, emptyRxFifoRounds
<1>4. emptyRxFifo(r) \in S
    BY <1>1, <1>3
<1> QED BY <1>4 DEF S

-----------------------------------------------------------------------------
(* fillCmdQueue leaves alone what is to be moved, and what was moved; an    *)
(* entry that has its START keeps it.                                       *)

Alike(e, f) ==
    /\ f.mode = e.mode /\ f.length = e.length /\ f.stop = e.stop /\ f.addrReq = e.addrReq
    /\ f.position = e.position /\ f.addrSent = e.addrSent /\ f.rw = e.rw
    /\ (e.startCmdSent => f.startCmdSent) /\ (e.stopCmdSent => f.stopCmdSent)

Continues(n, d, e) == \A q \in 1 .. n : Alike(d[q], e[q])

LEMMA OneContinues ==
    ASSUME NEW n \in Nat, NEW d, NEW s \in Filling(n), Continues(n, d, s.dq),
           NEW e, Alike(s.dq[s.qp], e)
    PROVE  Continues(n, d, [s.dq EXCEPT ![s.qp] = e])
<1>1. s.dq \in [1 .. n -> Item] /\ s.qp \in 1 .. n
    BY DEF Filling
<1>2. \A a, b : Alike(a, b) /\ Alike(b, e) => Alike(a, e)
    BY DEF Alike
<1> QED BY <1>1, <1>2 DEF Continues

LEMMA DataContinues ==
    ASSUME NEW n \in Nat, NEW d, NEW s \in Filling(n), Continues(n, d, s.dq)
    PROVE  Continues(n, d, AddData(s).dq)
<1> DEFINE S == {x \in Addressed(n) : Continues(n, d, x.dq)}
<1>1. SUFFICES ASSUME s \in S PROVE Continues(n, d, AddStop(AddLastRead(AddBlocks(s))).dq)
    BY DEF AddData, Addressed
<1>2. /\ \A e \in Item : \A v : Alike(e, [e EXCEPT !.cmdBytesNeeded = v])
      /\ \A e \in Item : \A v : [e EXCEPT !.cmdBytesNeeded = v].addrCmdSent = e.addrCmdSent
      /\ \A e \in Item : Alike(e, [e EXCEPT !.stopCmdSent = TRUE])
    BY DEF Item, Alike
<1>3. \A x \in S : x \in Filling(n) /\ x.dq[x.qp] \in Item /\ x.dq[x.qp].addrCmdSent
                   /\ x.dq \in [1 .. n -> Item] /\ x.qp \in 1 .. n
    BY DEF Addressed, Filling
<1>4. ASSUME NEW x \in S PROVE AddBlock(x) \in S
    <2>1. AddBlock(x) \in Addressed(n)
        BY AddBlockAddressed
    <2>2. \/ AddBlock(x) = x
          \/ \E k \in Nat : AddBlock(x).dq = [x.dq EXCEPT ![x.qp] =
                                                [x.dq[x.qp] EXCEPT !.cmdBytesNeeded = k]]
        BY <1>3, AddBlockDoes DEF Lists
    <2>3. ASSUME NEW k \in Nat
          PROVE  Continues(n, d, [x.dq EXCEPT ![x.qp] = [x.dq[x.qp] EXCEPT !.cmdBytesNeeded = k]])
        BY <1>2, <1>3, OneContinues
    <2>4. Continues(n, d, AddBlock(x).dq)
        BY <2>2, <2>3
    <2> QED BY <2>1, <2>4
<1> DEFINE b == AddBlocks(s)
           l == AddLastRead(b)
           u == AddStop(l)
<1>5. b \in S
    <2> HIDE DEF S
    <2>1. PICK f \in [0 .. Slots -> S] : b = f[Slots]
        BY <1>1, <1>4, AddBlocksRounds
    <2> QED BY <2>1, CommandsAssumption
<1> HIDE DEF b
<1>6. l \in S
    <2>1. \/ l = b
          \/ /\ l \in Filling(n) /\ l.qp = b.qp
             /\ l.dq = [b.dq EXCEPT ![b.qp] = [b.dq[b.qp] EXCEPT !.cmdBytesNeeded = 0]]
        BY <1>3, <1>5, AddLastReadDoes DEF Lists
    <2> HIDE DEF l
    <2>2. Continues(n, d, [b.dq EXCEPT ![b.qp] = [b.dq[b.qp] EXCEPT !.cmdBytesNeeded = 0]])
        BY <1>2, <1>3, <1>5, OneContinues
    <2>3. /\ b.dq \in [1 .. n -> Item] /\ b.qp \in 1 .. n /\ b.dq[b.qp] \in Item
          /\ b.dq[b.qp].addrCmdSent
        BY <1>3, <1>5
    <2>4. [b.dq[b.qp] EXCEPT !.cmdBytesNeeded = 0].addrCmdSent
        BY <1>2, <2>3
    <2>5. CASE l = b
        BY <1>5, <2>5
    <2>6. CASE /\ l \in Filling(n) /\ l.qp = b.qp
               /\ l.dq = [b.dq EXCEPT ![b.qp] = [b.dq[b.qp] EXCEPT !.cmdBytesNeeded = 0]]
        <3>1. l.dq[l.qp] = [b.dq[b.qp] EXCEPT !.cmdBytesNeeded = 0]
            BY <2>3, <2>6
        <3> QED BY <2>2, <2>4, <2>6, <3>1 DEF Addressed
    <2> QED BY <2>1, <2>5, <2>6
<1> HIDE DEF l
<1>7. \/ u = l
      \/ u.dq = [l.dq EXCEPT ![l.qp] = [l.dq[l.qp] EXCEPT !.stopCmdSent = TRUE]]
    BY <1>3, <1>6, AddStopDoes DEF Lists
<1> HIDE DEF u
<1>8. Continues(n, d, u.dq)
    <2>1. Continues(n, d, [l.dq EXCEPT ![l.qp] = [l.dq[l.qp] EXCEPT !.stopCmdSent = TRUE]])
        BY <1>2, <1>3, <1>6, OneContinues
    <2> QED BY <1>6, <1>7, <2>1
<1> QED BY <1>8 DEF u, l, b

LEMMA EntryContinues ==
    ASSUME NEW n \in Nat, NEW d, NEW s \in Filled(n), Continues(n, d, s.dq)
    PROVE  Continues(n, d, FillEntry(s).dq)
<1>1. SUFFICES ASSUME ~s.done
               PROVE  Continues(n, d, NextEntry(AddEnd(Stretch(AddData(AddAddress(AddStart(s)))))).dq)
    BY DEF FillEntry
<1>2. s \in Filling(n)
    BY <1>1 DEF Filled, Filling
<1>3. /\ \A e \in Item : Alike(e, [e EXCEPT !.startCmdSent = TRUE])
      /\ \A e \in Item : \A v : Alike(e, [e EXCEPT !.addrCmdSent = v])
    BY DEF Item, Alike
<1>4. \A x \in Filling(n) : x.dq[x.qp] \in Item
    BY DEF Filling
<1> DEFINE a == AddStart(s)
           b == AddAddress(a)
           c == AddData(b)
           f == Stretch(c)
           g == AddEnd(f)
           h == NextEntry(g)
<1>5. a \in Filling(n) /\ Continues(n, d, a.dq)
    <2>1. /\ a \in Filling(n)
          /\ \/ a = s
             \/ a.dq = [s.dq EXCEPT ![s.qp] = [s.dq[s.qp] EXCEPT !.startCmdSent = TRUE]]
        BY <1>2, AddStartDoes DEF Lists
    <2>2. Continues(n, d, [s.dq EXCEPT ![s.qp] = [s.dq[s.qp] EXCEPT !.startCmdSent = TRUE]])
        BY <1>2, <1>3, <1>4, OneContinues
    <2> HIDE DEF a
    <2> QED BY <2>1, <2>2
<1> HIDE DEF a
<1>6. b \in Filling(n) /\ Continues(n, d, b.dq)
    <2>1. /\ b \in Filling(n)
          /\ \/ b = a
             \/ b.dq = [a.dq EXCEPT ![a.qp] = [a.dq[a.qp] EXCEPT !.addrCmdSent = TRUE]]
        BY <1>5, AddAddressDoes DEF Lists
    <2>2. Continues(n, d, [a.dq EXCEPT ![a.qp] = [a.dq[a.qp] EXCEPT !.addrCmdSent = TRUE]])
        BY <1>3, <1>4, <1>5, OneContinues
    <2> HIDE DEF b
    <2> QED BY <1>5, <2>1, <2>2
<1> HIDE DEF b
<1>7. c \in Filling(n) /\ Continues(n, d, c.dq)
    BY <1>6, AddDataTyped, DataContinues
<1> HIDE DEF c
<1>8. f \in Filling(n) /\ f.dq = c.dq
    <2>1. \E list : f = c \/ f = [c EXCEPT !.done = TRUE, !.cmdIdx = Slots - 1, !.command = list]
        BY DEF Stretch
    <2> QED BY <1>7, <2>1, StretchTyped DEF Filling
<1> HIDE DEF f
<1>9. g \in Filling(n) /\ g.dq = f.dq
    BY <1>8, AddEndTyped DEF AddEnd, SetCmd, Filling
<1> HIDE DEF g
<1>10. h.dq = g.dq
    BY <1>9 DEF NextEntry, Filling
<1> QED BY <1>7, <1>8, <1>9, <1>10 DEF g, f, c, b, a

LEMMA fillCmdQueueContinues ==
    ASSUME NEW n \in Nat, NEW d \in [1 .. n -> Item], NEW p \in 1 .. n + 1,
           NEW c \in CommandList
    PROVE  Continues(n, d, fillCmdQueue(d, p, c).dq)
<1> DEFINE s == fillCmdQueue(d, p, c)
           S == {x \in Filled(n) : Continues(n, d, x.dq)}
<1>1. ASSUME NEW q \in p .. n PROVE Continues(n, d, FillEntries(Begun(d, c, q, FALSE)).dq)
    <2> DEFINE b == Begun(d, c, q, FALSE)
    <2>1. b \in Filled(n) /\ b.dq = d /\ Len(b.dq) = n
        <3>1. q \in 1 .. n /\ q \in 1 .. n + 1
            OBVIOUS
        <3> QED BY <3>1 DEF Begun, Filled
    <2> HIDE DEF b
    <2>2. b \in S
        BY <2>1 DEF Continues, Alike
    <2>3. \A x \in S : FillEntry(x) \in S
        BY FillEntryTyped, EntryContinues
    <2> HIDE DEF S
    <2>4. PICK f \in [0 .. Len(b.dq) -> S] : FillEntries(b) = f[Len(b.dq)]
        <3>1. Len(b.dq) \in Nat
            BY <2>1
        <3> QED BY <2>2, <2>3, <3>1, FillEntriesRounds
    <2>5. FillEntries(b) \in S
        BY <2>1, <2>4
    <2> QED BY <2>5 DEF S, b
<1>2. \/ s = Begun(d, c, 0, TRUE)
      \/ \E q \in p .. n : s = FillEntries(Begun(d, c, q, FALSE))
    <2>1. \/ /\ \A q \in p .. n : d[q].stopCmdSent
             /\ fillCmdQueue(d, p, c) = Begun(d, c, 0, TRUE)
          \/ \E q \in p .. n :
                /\ ~d[q].stopCmdSent
                /\ \A r \in p .. q - 1 : d[r].stopCmdSent
                /\ fillCmdQueue(d, p, c) = FillEntries(Begun(d, c, q, FALSE))
        BY FillBegins
    <2> HIDE DEF S
    <2> QED BY <2>1
<1> HIDE DEF s, S
<1>3. CASE s = Begun(d, c, 0, TRUE)
    <2>1. s.dq = d
        BY <1>3 DEF Begun
    <2> QED BY <2>1 DEF Continues, Alike, s
<1> QED BY <1>1, <1>2, <1>3 DEF s

-----------------------------------------------------------------------------
(* The script of a transfer: its events, entry after entry.                 *)

Static(n, d, e) ==
    \A q \in 1 .. n : /\ e[q].mode = d[q].mode /\ e[q].length = d[q].length
                      /\ e[q].stop = d[q].stop /\ e[q].addrReq = d[q].addrReq

TransferOf(d) ==
    CHOOSE f : f = [n \in 0 .. MaxEntries |->
                       IF n = 0 THEN <<>> ELSE f[n - 1] \o EntryEvents(d[n], n)]

Size(e) == 1 + e.addrReq + e.length + (IF e.stop THEN 1 ELSE 0)

EventOf(e, q, j) ==
    IF j = 1 THEN Event("START", 0, 0, FALSE)
    ELSE IF j <= 1 + e.addrReq THEN Event("WRITE", q, j - 2 - e.addrReq, FALSE)
    ELSE IF j <= 1 + e.addrReq + e.length
         THEN Event(e.mode, q, j - 2 - e.addrReq, e.mode = "READ" /\ j = 1 + e.addrReq + e.length)
    ELSE Event("STOP", 0, 0, FALSE)

\* B[q] events come before entry q
Script(n, d, B, T) ==
    /\ B \in [1 .. n + 1 -> Nat] /\ B[1] = 0
    /\ \A q \in 1 .. n : B[q + 1] = B[q] + Size(d[q])
    /\ Len(T) = B[n + 1]
    /\ \A q \in 1 .. n : \A j \in 1 .. Size(d[q]) : T[B[q] + j] = EventOf(d[q], q, j)
    /\ \A i \in 1 .. Len(T) : \E q \in 1 .. n : \E j \in 1 .. Size(d[q]) : i = B[q] + j
    /\ \A p, q \in 1 .. n : p < q => B[p] + Size(d[p]) <= B[q]

Bases(n, d) == [q \in 1 .. n + 1 |-> Len(TransferOf(d)[q - 1])]

\* cmd moves the bus from event i to event j of T
Takes(cmd, T, i, j) ==
    /\ j \in i .. Len(T)
    /\ \/ cmd.op = "RSTART" /\ j = i + 1 /\ T[j].ev = "START"
       \/ cmd.op = "STOP" /\ j = i + 1 /\ T[j].ev = "STOP"
       \/ /\ cmd.op \in {"READ", "WRITE"} /\ j = i + cmd.num
          /\ \A m \in i + 1 .. j : T[m].ev = cmd.op /\ T[m].nak = cmd.nak

Program(c, T, last, cur, l) ==
    /\ last \in 0 .. Slots - 1 /\ cur \in [0 .. last -> 0 .. l]
    /\ \A i \in 0 .. last - 1 : Takes(c[i], T, cur[i], cur[i + 1])
    /\ \/ c[last].op = "END" /\ cur[last] = l /\ l < Len(T)
       \/ c[last].op = "STOP" /\ Takes(c[last], T, cur[last], l) /\ l = Len(T)

\* the events that are listed when entry e, which begins after b events, is the next
ListedOf(e, b) ==
    IF ~e.startCmdSent THEN b
    ELSE IF ~e.addrCmdSent THEN b + 1
    ELSE b + 1 + e.addrReq + (e.length - e.cmdBytesNeeded)
           + (IF e.stopCmdSent /\ e.stop THEN 1 ELSE 0)

Unlisted(e) ==
    ~e.startCmdSent /\ ~e.addrCmdSent /\ ~e.stopCmdSent /\ e.cmdBytesNeeded = e.length

Frontier(n, d, f) ==
    /\ f \in 1 .. n
    /\ \A r \in 1 .. n : r < f => d[r].stopCmdSent
    /\ \A r \in 1 .. n : f < r => Unlisted(d[r])
    /\ ~d[f].startCmdSent => Unlisted(d[f])
    /\ d[f].startCmdSent => d[f].addrCmdSent
    /\ d[f].stopCmdSent => d[f].cmdBytesNeeded = 0

\* s is what T has of one kind after event lo and up to event hi
Window(T, ev, lo, hi, s) ==
    \E x \in [1 .. Len(s) -> lo + 1 .. hi] :
        /\ \A j \in 1 .. Len(s) : T[x[j]].ev = ev /\ T[x[j]].q = s[j].q /\ T[x[j]].b = s[j].b
        /\ \A i, j \in 1 .. Len(s) : i < j => x[i] < x[j]
        /\ \A m \in lo + 1 .. hi : T[m].ev = ev => \E j \in 1 .. Len(s) : x[j] = m

Put(d, w) == IF w.b < 0 THEN w.b < d[w.q].addrSent - d[w.q].addrReq
                        ELSE w.b < d[w.q].position

PutUpTo(T, d, g) ==
    \A i \in 1 .. Len(T) : T[i].ev = "WRITE" => (Put(d, T[i]) <=> i <= g)

StoredUpTo(T, d, h) ==
    \A i \in 1 .. Len(T) : T[i].ev = "READ" => (T[i].b < d[T[i].q].position <=> i <= h)

Fresh(d) ==
    \A q \in DOMAIN d : /\ Unlisted(d[q]) /\ d[q].position = 0 /\ d[q].addrSent = 0
                        /\ d[q].rw = 0

OnlyLastStops(n, d) == n # 0 /\ \A q \in 1 .. n : d[q].stop <=> q = n

\* What is defined entry by entry.
LEMMA TransferUnfolds ==
    ASSUME NEW d
    PROVE  /\ TransferOf(d)[0] = <<>>
           /\ \A n \in 1 .. MaxEntries :
                 TransferOf(d)[n] = TransferOf(d)[n - 1] \o EntryEvents(d[n], n)
<1> DEFINE Up(m, f) == f = [n \in 0 .. m |-> IF n = 0 THEN <<>> ELSE f[n - 1] \o EntryEvents(d[n], n)]
           Ok == {m \in Nat : \E f : Up(m, f)}
<1>1. 0 \in Ok
    <2>1. Up(0, [n \in 0 .. 0 |-> <<>>])
        OBVIOUS
    <2> QED BY <2>1
<1>2. ASSUME NEW m \in Nat, m \in Ok PROVE m + 1 \in Ok
    <2>1. PICK f : Up(m, f)
        BY <1>2
    <2> DEFINE h == [n \in 0 .. m + 1 |-> IF n = m + 1 THEN f[m] \o EntryEvents(d[m + 1], m + 1) ELSE f[n]]
    <2>2. ASSUME NEW n \in 0 .. m + 1
          PROVE  h[n] = IF n = 0 THEN <<>> ELSE h[n - 1] \o EntryEvents(d[n], n)
        <3>1. CASE n = m + 1
            <4>1. n # 0 /\ n - 1 = m /\ m \in 0 .. m + 1 /\ m # m + 1 /\ n \in 0 .. m + 1
                BY <3>1
            <4>3. h[n] = f[m] \o EntryEvents(d[n], n)
                BY <3>1, <4>1
            <4>2. h[m] = f[m]
                BY <4>1
            <4> HIDE DEF h
            <4> QED BY <4>1, <4>2, <4>3
        <3>2. CASE n # m + 1
            <4>1. n \in 0 .. m
                BY <3>2
            <4>2. h[n] = f[n] /\ f[n] = IF n = 0 THEN <<>> ELSE f[n - 1] \o EntryEvents(d[n], n)
                BY <2>1, <3>2, <4>1
            <4>3. n # 0 => n - 1 \in 0 .. m + 1 /\ n - 1 # m + 1 /\ h[n - 1] = f[n - 1]
                BY <4>1
            <4> HIDE DEF h
            <4> QED BY <4>2, <4>3
        <3> QED BY <3>1, <3>2
    <2>3. Up(m + 1, h)
        BY <2>2
    <2> HIDE DEF Up
    <2> QED BY <2>3
<1>3. MaxEntries \in Ok
    <2>1. MaxEntries \in Nat
        BY TransferAssumption
    <2> HIDE DEF Ok
    <2> QED BY <1>1, <1>2, <2>1, Induct
<1>4. Up(MaxEntries, TransferOf(d))
    BY <1>3 DEF TransferOf
<1> DEFINE t == TransferOf(d)
<1>5. t = [n \in 0 .. MaxEntries |-> IF n = 0 THEN <<>> ELSE t[n - 1] \o EntryEvents(d[n], n)]
    BY <1>4
<1>6. MaxEntries \in Nat
    BY TransferAssumption
<1> HIDE DEF t
<1>7. t[0] = <<>> /\ \A n \in 1 .. MaxEntries : t[n] = t[n - 1] \o EntryEvents(d[n], n)
    BY <1>5, <1>6
<1> QED BY <1>7 DEF t

EventSet == [ev : {"START", "WRITE", "READ", "STOP"}, q : Nat, b : Int, nak : BOOLEAN]

LEMMA Joined ==
    ASSUME NEW X, NEW s \in Seq(X), NEW t \in Seq(X)
    PROVE  /\ s \o t \in Seq(X) /\ Len(s \o t) = Len(s) + Len(t)
           /\ \A j \in 1 .. Len(s) : (s \o t)[j] = s[j]
           /\ \A j \in Len(s) + 1 .. Len(s) + Len(t) : (s \o t)[j] = t[j - Len(s)]
OBVIOUS

LEMMA Listing ==
    ASSUME NEW X, NEW n \in Nat, NEW f \in [1 .. n -> X]
    PROVE  f \in Seq(X) /\ Len(f) = n
OBVIOUS

\* The events of an entry, one by one.
LEMMA EventsOfEntry ==
    ASSUME NEW e \in Item, NEW q \in Nat
    PROVE  /\ Size(e) \in Nat /\ Size(e) >= 2
           /\ EntryEvents(e, q) \in Seq(EventSet) /\ Len(EntryEvents(e, q)) = Size(e)
           /\ \A j \in 1 .. Size(e) : EntryEvents(e, q)[j] = EventOf(e, q, j)
<1> DEFINE start == Event("START", 0, 0, FALSE)
           stop == Event("STOP", 0, 0, FALSE)
           r == e.addrReq
           n == e.length
           B(i) == Event("WRITE", q, i - 1 - r, FALSE)
           C(i) == Event(e.mode, q, i - 1, e.mode = "READ" /\ i = n)
           a == <<start>>
           b == [i \in 1 .. r |-> B(i)]
           c == [i \in 1 .. n |-> C(i)]
           s == IF e.stop THEN <<stop>> ELSE <<>>
           ab == a \o b
           abc == ab \o c
           z == abc \o s
<1>1. /\ r \in {1, 2} /\ r \in Nat /\ n \in Nat /\ e.stop \in BOOLEAN /\ e.mode \in {"READ", "WRITE"}
    BY DEF Item
<1>2. /\ EntryEvents(e, q) = z
      /\ Size(e) = 1 + r + n + (IF e.stop THEN 1 ELSE 0)
    BY DEF EntryEvents, Size
<1>3. start \in EventSet /\ stop \in EventSet
    BY DEF EventSet, Event
<1>4. \A i \in 1 .. r : B(i) \in EventSet
    <2> TAKE i \in 1 .. r
    <2>1. i - 1 - r \in Int
        BY <1>1
    <2> QED BY <2>1 DEF EventSet, Event
<1>5. \A i \in 1 .. n : C(i) \in EventSet
    <2> TAKE i \in 1 .. n
    <2>1. i - 1 \in Int /\ (e.mode = "READ" /\ i = n) \in BOOLEAN
        BY <1>1
    <2> QED BY <1>1, <2>1 DEF EventSet, Event
<1>6. \A j \in 1 .. Size(e) :
          EventOf(e, q, j) = IF j = 1 THEN start
                             ELSE IF j <= 1 + r THEN B(j - 1)
                             ELSE IF j <= 1 + r + n THEN C(j - (1 + r))
                             ELSE stop
    <2> TAKE j \in 1 .. Size(e)
    <2>1. j \in Nat /\ (j - 1) - 1 - r = j - 2 - r /\ (j - (1 + r)) - 1 = j - 2 - r
          /\ (j - (1 + r) = n <=> j = 1 + r + n)
        <3> HIDE DEF r, n
        <3> QED BY <1>1, <1>2
    <2>2. (e.mode = "READ" /\ j - (1 + r) = n) = (e.mode = "READ" /\ j = 1 + r + n)
        BY <2>1
    <2>3. B(j - 1) = Event("WRITE", q, j - 2 - r, FALSE)
        BY <2>1
    <2>4. C(j - (1 + r)) = Event(e.mode, q, j - 2 - r, e.mode = "READ" /\ j = 1 + r + n)
        BY <2>1, <2>2
    <2> HIDE DEF B, C
    <2> QED BY <2>3, <2>4 DEF EventOf
<1>7. a \in Seq(EventSet) /\ Len(a) = 1 /\ a[1] = start
    <2> HIDE DEF start
    <2> QED BY <1>3
<1>8. b \in Seq(EventSet) /\ Len(b) = r /\ \A i \in 1 .. r : b[i] = B(i)
    <2> HIDE DEF B, r
    <2>1. b \in [1 .. r -> EventSet]
        BY <1>4
    <2> QED BY <1>1, <2>1, Listing
<1>9. c \in Seq(EventSet) /\ Len(c) = n /\ \A i \in 1 .. n : c[i] = C(i)
    <2> HIDE DEF C, n
    <2>1. c \in [1 .. n -> EventSet]
        BY <1>5
    <2> QED BY <1>1, <2>1, Listing
<1>10. s \in Seq(EventSet) /\ Len(s) = (IF e.stop THEN 1 ELSE 0) /\ (e.stop => s[1] = stop)
    <2> HIDE DEF stop
    <2> QED BY <1>3
<1> HIDE DEF a, b, c, s, B, C, start, stop
<1>11. /\ ab \in Seq(EventSet) /\ Len(ab) = 1 + r
       /\ ab[1] = start /\ \A j \in 2 .. 1 + r : ab[j] = B(j - 1)
    <2>1. /\ ab \in Seq(EventSet) /\ Len(ab) = Len(a) + Len(b)
          /\ \A j \in 1 .. Len(a) : ab[j] = a[j]
          /\ \A j \in Len(a) + 1 .. Len(a) + Len(b) : ab[j] = b[j - Len(a)]
        BY <1>7, <1>8, Joined
    <2> HIDE DEF ab, r
    <2>2. ab[1] = start
        BY <1>7, <2>1
    <2>3. \A j \in 2 .. 1 + r : ab[j] = B(j - 1)
        <3> TAKE j \in 2 .. 1 + r
        <3>1. j \in Len(a) + 1 .. Len(a) + Len(b) /\ j - 1 \in 1 .. r
            BY <1>1, <1>7, <1>8
        <3> QED BY <2>1, <3>1, <1>7, <1>8
    <2> QED BY <2>1, <2>2, <2>3, <1>7, <1>8
<1> HIDE DEF ab
<1>12. /\ abc \in Seq(EventSet) /\ Len(abc) = 1 + r + n
       /\ \A j \in 1 .. 1 + r : abc[j] = ab[j]
       /\ \A j \in 2 + r .. 1 + r + n : abc[j] = C(j - (1 + r))
    <2>1. /\ abc \in Seq(EventSet) /\ Len(abc) = Len(ab) + Len(c)
          /\ \A j \in 1 .. Len(ab) : abc[j] = ab[j]
          /\ \A j \in Len(ab) + 1 .. Len(ab) + Len(c) : abc[j] = c[j - Len(ab)]
        BY <1>11, <1>9, Joined
    <2> HIDE DEF abc, r, n
    <2>2. \A j \in 2 + r .. 1 + r + n : abc[j] = C(j - (1 + r))
        <3> TAKE j \in 2 + r .. 1 + r + n
        <3>1. j \in Len(ab) + 1 .. Len(ab) + Len(c) /\ j - (1 + r) \in 1 .. n
            BY <1>1, <1>11, <1>9
        <3> QED BY <2>1, <3>1, <1>9, <1>11
    <2> QED BY <2>1, <2>2, <1>9, <1>11
<1> HIDE DEF abc
<1>13. /\ z \in Seq(EventSet) /\ Len(z) = Size(e)
       /\ \A j \in 1 .. 1 + r + n : z[j] = abc[j]
       /\ \A j \in 2 + r + n .. Size(e) : z[j] = stop
    <2>1. /\ z \in Seq(EventSet) /\ Len(z) = Len(abc) + Len(s)
          /\ \A j \in 1 .. Len(abc) : z[j] = abc[j]
          /\ \A j \in Len(abc) + 1 .. Len(abc) + Len(s) : z[j] = s[j - Len(abc)]
        BY <1>12, <1>10, Joined
    <2> HIDE DEF z, r, n
    <2>2. \A j \in 2 + r + n .. Size(e) : z[j] = stop
        <3> TAKE j \in 2 + r + n .. Size(e)
        <3>1. e.stop /\ j \in Len(abc) + 1 .. Len(abc) + Len(s) /\ j - Len(abc) = 1
            BY <1>1, <1>2, <1>12, <1>10
        <3> QED BY <2>1, <3>1, <1>10
    <2>3. Len(z) = Size(e)
        BY <1>2, <1>10, <1>12, <2>1
    <2> QED BY <2>1, <2>2, <2>3, <1>12
<1> HIDE DEF z
<1>14. ASSUME NEW j \in 1 .. Size(e) PROVE z[j] = EventOf(e, q, j)
    <2> HIDE DEF r, n
    <2>1. j \in Nat /\ j >= 1 /\ Size(e) \in Nat
        BY <1>1, <1>2
    <2>2. CASE j = 1
        <3>1. j \in 1 .. 1 + r + n /\ j \in 1 .. 1 + r
            BY <2>2, <1>1
        <3> QED BY <1>6, <1>11, <1>12, <1>13, <2>2, <3>1
    <2>3. CASE j # 1 /\ j <= 1 + r
        <3>1. j \in 1 .. 1 + r + n /\ j \in 1 .. 1 + r /\ j \in 2 .. 1 + r
            BY <2>1, <2>3, <1>1
        <3> QED BY <1>6, <1>11, <1>12, <1>13, <2>3, <3>1
    <2>4. CASE j > 1 + r /\ j <= 1 + r + n
        <3>1. j \in 1 .. 1 + r + n /\ j \in 2 + r .. 1 + r + n /\ j # 1 /\ ~(j <= 1 + r)
            BY <2>1, <2>4, <1>1
        <3> QED BY <1>6, <1>12, <1>13, <2>4, <3>1
    <2>5. CASE j > 1 + r + n
        <3>1. j \in 2 + r + n .. Size(e) /\ j # 1 /\ ~(j <= 1 + r) /\ ~(j <= 1 + r + n)
            BY <2>1, <2>5, <1>1
        <3> QED BY <1>6, <1>13, <3>1
    <2>6. j = 1 \/ (j # 1 /\ j <= 1 + r) \/ (j > 1 + r /\ j <= 1 + r + n) \/ j > 1 + r + n
        BY <1>1, <2>1
    <2> QED BY <2>2, <2>3, <2>4, <2>5, <2>6
<1>15. Size(e) \in Nat /\ Size(e) >= 2
    BY <1>1, <1>2
<1> QED BY <1>2, <1>13, <1>14, <1>15

\* The transfer of a queue is its script.
LEMMA ScriptOf ==
    ASSUME NEW n \in Nat, n <= MaxEntries, NEW d \in [1 .. n -> Item]
    PROVE  /\ Script(n, d, Bases(n, d), TransferOf(d)[n])
           /\ TransferOf(d)[n] \in Seq(EventSet)
<1> DEFINE t == TransferOf(d)
           B == Bases(n, d)
<1>1. MaxEntries \in Nat /\ 1 .. n \subseteq 1 .. MaxEntries
    BY TransferAssumption
<1>2. t[0] = <<>> /\ \A k \in 1 .. n : t[k] = t[k - 1] \o EntryEvents(d[k], k)
    BY <1>1, TransferUnfolds
<1>3. \A k \in 1 .. n : /\ d[k] \in Item /\ k \in Nat
                        /\ Size(d[k]) \in Nat /\ Size(d[k]) >= 2
                        /\ EntryEvents(d[k], k) \in Seq(EventSet)
                        /\ Len(EntryEvents(d[k], k)) = Size(d[k])
                        /\ \A j \in 1 .. Size(d[k]) : EntryEvents(d[k], k)[j] = EventOf(d[k], k, j)
    <2> TAKE k \in 1 .. n
    <2>1. d[k] \in Item /\ k \in Nat
        OBVIOUS
    <2> QED BY <2>1, EventsOfEntry
<1> HIDE DEF t
<1>4. \A k \in Nat : k <= n => t[k] \in Seq(EventSet)
    <2> DEFINE T == {k \in Nat : k <= n => t[k] \in Seq(EventSet)}
    <2>1. 0 \in T
        <3>1. <<>> \in Seq(EventSet)
            OBVIOUS
        <3> QED BY <1>2, <3>1
    <2>2. ASSUME NEW k \in Nat, k \in T PROVE k + 1 \in T
        <3>1. SUFFICES ASSUME k + 1 <= n PROVE t[k + 1] \in Seq(EventSet)
            OBVIOUS
        <3>2. k + 1 \in 1 .. n /\ (k + 1) - 1 = k /\ t[k] \in Seq(EventSet)
            BY <2>2, <3>1
        <3>3. t[k + 1] = t[k] \o EntryEvents(d[k + 1], k + 1)
            BY <1>2, <3>2
        <3> QED BY <1>3, <3>2, <3>3, Joined
    <2>3. \A k \in Nat : k \in T
        <3> HIDE DEF T
        <3> QED BY <2>1, <2>2, Induct
    <2> QED BY <2>3
<1>5. \A k \in 1 .. n : /\ k - 1 \in Nat /\ k - 1 <= n /\ k \in Nat /\ k <= n
                        /\ Len(t[k - 1]) \in Nat
                        /\ Len(t[k]) = Len(t[k - 1]) + Size(d[k])
                        /\ \A j \in 1 .. Len(t[k - 1]) : t[k][j] = t[k - 1][j]
                        /\ \A j \in 1 .. Size(d[k]) : t[k][Len(t[k - 1]) + j] = EventOf(d[k], k, j)
    <2> TAKE k \in 1 .. n
    <2>1. k - 1 \in Nat /\ k - 1 <= n /\ k \in Nat /\ k <= n
        OBVIOUS
    <2> DEFINE s == t[k - 1]
               e == EntryEvents(d[k], k)
    <2>2. s \in Seq(EventSet) /\ e \in Seq(EventSet) /\ Len(e) = Size(d[k])
          /\ t[k] = s \o e
        BY <1>2, <1>3, <1>4, <2>1
    <2>3. \A j \in 1 .. Size(d[k]) : e[j] = EventOf(d[k], k, j)
        BY <1>3
    <2> HIDE DEF s, e
    <2>4. /\ Len(s) \in Nat /\ Len(s \o e) = Len(s) + Size(d[k])
          /\ \A j \in 1 .. Len(s) : (s \o e)[j] = s[j]
          /\ \A j \in Len(s) + 1 .. Len(s) + Size(d[k]) : (s \o e)[j] = e[j - Len(s)]
        <3>1. /\ Len(s \o e) = Len(s) + Len(e)
              /\ \A j \in 1 .. Len(s) : (s \o e)[j] = s[j]
              /\ \A j \in Len(s) + 1 .. Len(s) + Len(e) : (s \o e)[j] = e[j - Len(s)]
            BY ONLY <2>2, Joined
        <3>2. Len(s) \in Nat
            BY <2>2
        <3> QED BY <2>2, <3>1, <3>2
    <2>5. ASSUME NEW j \in 1 .. Size(d[k]) PROVE (s \o e)[Len(s) + j] = EventOf(d[k], k, j)
        <3>1. Size(d[k]) \in Nat
            BY <1>3
        <3>2. Len(s) + j \in Len(s) + 1 .. Len(s) + Size(d[k]) /\ (Len(s) + j) - Len(s) = j
            BY <2>4, <3>1
        <3> QED BY <2>3, <2>4, <3>2
    <2> QED BY <2>1, <2>2, <2>4, <2>5 DEF s
<1>6. /\ B \in [1 .. n + 1 -> Nat] /\ B[1] = 0
      /\ \A q \in 1 .. n : B[q] = Len(t[q - 1]) /\ B[q + 1] = Len(t[q])
      /\ B[n + 1] = Len(t[n])
    <2>1. \A q \in 1 .. n + 1 : q - 1 \in Nat /\ q - 1 <= n
        OBVIOUS
    <2>2. \A q \in 1 .. n + 1 : Len(t[q - 1]) \in Nat
        BY <1>4, <2>1
    <2>3. B = [q \in 1 .. n + 1 |-> Len(t[q - 1])]
        BY DEF Bases, t
    <2> HIDE DEF B
    <2>4. B[1] = 0
        <3>1. 1 \in 1 .. n + 1 /\ 1 - 1 = 0 /\ Len(<<>>) = 0
            OBVIOUS
        <3> QED BY <1>2, <2>3, <3>1
    <2>5. \A q \in 1 .. n : q \in 1 .. n + 1 /\ q + 1 \in 1 .. n + 1 /\ (q + 1) - 1 = q
        OBVIOUS
    <2>6. n + 1 \in 1 .. n + 1 /\ (n + 1) - 1 = n
        OBVIOUS
    <2> QED BY <2>2, <2>3, <2>4, <2>5, <2>6
<1> HIDE DEF B
<1>7. \A q \in 1 .. n : B[q + 1] = B[q] + Size(d[q]) /\ B[q] \in Nat
    <2> TAKE q \in 1 .. n
    <2> QED BY <1>5, <1>6
<1> DEFINE Part(k) ==
        /\ \A q \in 1 .. k : \A j \in 1 .. Size(d[q]) : t[k][B[q] + j] = EventOf(d[q], q, j)
        /\ \A i \in 1 .. Len(t[k]) : \E q \in 1 .. k : \E j \in 1 .. Size(d[q]) : i = B[q] + j
        /\ \A p, q \in 1 .. k : p < q => B[p] + Size(d[p]) <= B[q]
        /\ \A q \in 1 .. k : B[q] + Size(d[q]) <= Len(t[k])
<1>8. \A k \in Nat : k <= n => Part(k)
    <2> DEFINE S == {k \in Nat : k <= n => Part(k)}
    <2>1. 0 \in S
        <3>1. Len(t[0]) = 0
            BY <1>2
        <3>2. Part(0)
            BY <3>1
        <3> HIDE DEF Part
        <3> QED BY <3>2
    <2>2. ASSUME NEW k \in Nat, k \in S PROVE k + 1 \in S
        <3> DEFINE m == k + 1
        <3>1. SUFFICES ASSUME m <= n PROVE Part(m)
            OBVIOUS
        <3>2. m \in 1 .. n /\ m - 1 = k /\ Part(k)
            <4> HIDE DEF Part
            <4> QED BY <2>2, <3>1
        <3>3. /\ Len(t[k]) \in Nat /\ Len(t[m]) = Len(t[k]) + Size(d[m])
              /\ \A j \in 1 .. Len(t[k]) : t[m][j] = t[k][j]
              /\ \A j \in 1 .. Size(d[m]) : t[m][Len(t[k]) + j] = EventOf(d[m], m, j)
              /\ B[m] = Len(t[k]) /\ Size(d[m]) \in Nat
            <4> HIDE DEF m, Part
            <4>1. /\ Len(t[m - 1]) \in Nat
                  /\ Len(t[m]) = Len(t[m - 1]) + Size(d[m])
                  /\ \A j \in 1 .. Len(t[m - 1]) : t[m][j] = t[m - 1][j]
                  /\ \A j \in 1 .. Size(d[m]) : t[m][Len(t[m - 1]) + j] = EventOf(d[m], m, j)
                BY <3>2, <1>5
            <4>2. B[m] = Len(t[m - 1]) /\ Size(d[m]) \in Nat
                BY <3>2, <1>6, <1>3
            <4> QED BY <3>2, <4>1, <4>2
        <3>4. \A q \in 1 .. m : q \in 1 .. k \/ q = m
            BY <3>2
        <3>5. \A q \in 1 .. k : q \in 1 .. n /\ B[q] \in Nat /\ Size(d[q]) \in Nat
                                /\ B[q] + Size(d[q]) <= Len(t[k])
            <4>1. \A q \in 1 .. k : q \in 1 .. n
                BY <3>2
            <4> QED BY <4>1, <3>2, <1>7, <1>3
        <3> HIDE DEF m
        <3>6. ASSUME NEW q \in 1 .. m, NEW j \in 1 .. Size(d[q])
              PROVE  t[m][B[q] + j] = EventOf(d[q], q, j)
            <4>1. CASE q = m
                BY <3>3, <4>1
            <4>2. CASE q \in 1 .. k
                <5>1. t[k][B[q] + j] = EventOf(d[q], q, j)
                    BY <3>2, <4>2
                <5>2. B[q] + j \in 1 .. Len(t[k])
                    <6>1. B[q] \in Nat /\ Size(d[q]) \in Nat /\ B[q] + Size(d[q]) <= Len(t[k])
                          /\ Len(t[k]) \in Nat
                        BY <3>3, <3>5, <4>2
                    <6> QED BY ONLY <6>1, j \in 1 .. Size(d[q])
                <5> QED BY <3>3, <5>1, <5>2
            <4> QED BY <3>4, <4>1, <4>2
        <3>7. ASSUME NEW i \in 1 .. Len(t[m])
              PROVE  \E q \in 1 .. m : \E j \in 1 .. Size(d[q]) : i = B[q] + j
            <4>1. CASE i \in 1 .. Len(t[k])
                <5>1. PICK q \in 1 .. k : \E j \in 1 .. Size(d[q]) : i = B[q] + j
                    BY <3>2, <4>1
                <5>2. q \in 1 .. m
                    BY <3>2 DEF m
                <5> QED BY <5>1, <5>2
            <4>2. CASE i \notin 1 .. Len(t[k])
                <5>1. i - Len(t[k]) \in 1 .. Size(d[m]) /\ i = B[m] + (i - Len(t[k])) /\ m \in 1 .. m
                    BY <3>2, <3>3, <4>2
                <5> QED BY <5>1
            <4> QED BY <4>1, <4>2
        <3>8. ASSUME NEW p \in 1 .. m, NEW q \in 1 .. m, p < q
              PROVE  B[p] + Size(d[p]) <= B[q]
            <4>1. p \in 1 .. k
                BY <3>2, <3>8
            <4>2. CASE q = m
                BY <3>3, <3>5, <4>1, <4>2
            <4>3. CASE q \in 1 .. k
                BY <3>2, <3>8, <4>1, <4>3
            <4> QED BY <3>4, <4>2, <4>3
        <3>9. ASSUME NEW q \in 1 .. m PROVE B[q] + Size(d[q]) <= Len(t[m])
            <4>1. CASE q = m
                BY <3>3, <4>1
            <4>2. CASE q \in 1 .. k
                BY <3>3, <3>5, <4>2
            <4> QED BY <3>4, <4>1, <4>2
        <3> QED BY <3>6, <3>7, <3>8, <3>9
    <2>3. \A k \in Nat : k \in S
        <3> HIDE DEF S
        <3> QED BY <2>1, <2>2, Induct
    <2> HIDE DEF Part
    <2> QED BY <2>3
<1>9. Part(n)
    <2> HIDE DEF Part
    <2> QED BY <1>8
<1>10. Script(n, d, B, t[n])
    BY <1>6, <1>7, <1>9 DEF Script
<1>11. t[n] \in Seq(EventSet)
    BY <1>4
<1> QED BY <1>10, <1>11 DEF t, B

\* It does not depend on how far the queue has come.
LEMMA ScriptStays ==
    ASSUME NEW n \in Nat, n <= MaxEntries, NEW d \in [1 .. n -> Item],
           NEW e \in [1 .. n -> Item], Static(n, d, e)
    PROVE  TransferOf(e)[n] = TransferOf(d)[n] /\ Bases(n, e) = Bases(n, d)
<1> DEFINE t == TransferOf(d)
           u == TransferOf(e)
<1>1. MaxEntries \in Nat /\ 1 .. n \subseteq 1 .. MaxEntries
    BY TransferAssumption
<1>2. /\ t[0] = <<>> /\ \A k \in 1 .. n : t[k] = t[k - 1] \o EntryEvents(d[k], k)
      /\ u[0] = <<>> /\ \A k \in 1 .. n : u[k] = u[k - 1] \o EntryEvents(e[k], k)
    BY <1>1, TransferUnfolds
<1>3. \A k \in 1 .. n : EntryEvents(e[k], k) = EntryEvents(d[k], k)
    BY DEF Static, EntryEvents
<1>4. \A k \in Nat : k <= n => u[k] = t[k]
    <2> HIDE DEF t, u
    <2> DEFINE T == {k \in Nat : k <= n => u[k] = t[k]}
    <2>1. 0 \in T
        BY <1>2
    <2>2. ASSUME NEW k \in Nat, k \in T PROVE k + 1 \in T
        <3>1. SUFFICES ASSUME k + 1 <= n PROVE u[k + 1] = t[k + 1]
            OBVIOUS
        <3>2. k + 1 \in 1 .. n /\ (k + 1) - 1 = k /\ u[k] = t[k]
            BY <2>2, <3>1
        <3> QED BY <1>2, <1>3, <3>2
    <2>3. \A k \in Nat : k \in T
        <3> HIDE DEF T
        <3> QED BY <2>1, <2>2, Induct
    <2> QED BY <2>3
<1>5. \A q \in 1 .. n + 1 : u[q - 1] = t[q - 1]
    <2>1. \A q \in 1 .. n + 1 : q - 1 \in Nat /\ q - 1 <= n
        OBVIOUS
    <2> QED BY <1>4, <2>1
<1> QED BY <1>4, <1>5 DEF Bases

-----------------------------------------------------------------------------
(* A FIFO holds a window of the script: what it moves on one side, and what *)
(* leaves it on the other.                                                  *)

Matches(w, ev, y) == w.ev = ev /\ w.q = y.q /\ w.b = y.b

LEMMA WindowPush ==
    ASSUME NEW T, NEW ev, NEW lo \in Nat, NEW hi \in Nat, NEW X, NEW s \in Seq(X), NEW t \in Seq(X),
           lo <= hi, Window(T, ev, lo, hi, s), \A i \in 1 .. Len(t) : Matches(T[hi + i], ev, t[i])
    PROVE  Window(T, ev, lo, hi + Len(t), s \o t)
<1> DEFINE n == Len(s)
           k == Len(t)
           u == s \o t
<1>1. PICK x \in [1 .. n -> lo + 1 .. hi] :
          /\ \A j \in 1 .. n : T[x[j]].ev = ev /\ T[x[j]].q = s[j].q /\ T[x[j]].b = s[j].b
          /\ \A i, j \in 1 .. n : i < j => x[i] < x[j]
          /\ \A m \in lo + 1 .. hi : T[m].ev = ev => \E j \in 1 .. n : x[j] = m
    BY DEF Window
<1>2. /\ n \in Nat /\ k \in Nat /\ Len(u) = n + k
      /\ \A j \in 1 .. n : u[j] = s[j]
      /\ \A j \in n + 1 .. n + k : u[j] = t[j - n]
    BY Joined
<1> HIDE DEF n, k, u
<1> DEFINE y == [j \in 1 .. n + k |-> IF j <= n THEN x[j] ELSE hi + (j - n)]
<1>3. \A j \in 1 .. n : j \in 1 .. n + k /\ j <= n /\ y[j] = x[j] /\ x[j] \in lo + 1 .. hi
    BY <1>1, <1>2
<1>4. \A j \in n + 1 .. n + k : /\ j \in 1 .. n + k /\ y[j] = hi + (j - n)
                                /\ j - n \in 1 .. k
    BY <1>2
<1>5. \A j \in 1 .. n + k : j \in 1 .. n \/ j \in n + 1 .. n + k
    BY <1>2
<1>6. y \in [1 .. n + k -> lo + 1 .. hi + k]
    <2>1. \A j \in 1 .. n : y[j] \in lo + 1 .. hi + k
        BY <1>2, <1>3
    <2>2. \A j \in n + 1 .. n + k : y[j] \in lo + 1 .. hi + k
        BY <1>2, <1>4
    <2>3. \A j \in 1 .. n + k : y[j] \in lo + 1 .. hi + k
        BY <1>5, <2>1, <2>2
    <2> QED BY <2>3
<1> HIDE DEF y
<1>7. ASSUME NEW j \in 1 .. n + k
      PROVE  T[y[j]].ev = ev /\ T[y[j]].q = u[j].q /\ T[y[j]].b = u[j].b
    <2>1. CASE j \in 1 .. n
        BY <1>1, <1>2, <1>3, <2>1
    <2>2. CASE j \in n + 1 .. n + k
        <3>1. Matches(T[hi + (j - n)], ev, t[j - n])
            BY <1>4, <2>2 DEF k
        <3> QED BY <1>2, <1>4, <2>2, <3>1 DEF Matches
    <2> QED BY <1>5, <2>1, <2>2
<1>8. ASSUME NEW i \in 1 .. n + k, NEW j \in 1 .. n + k, i < j PROVE y[i] < y[j]
    <2>1. CASE i \in 1 .. n /\ j \in 1 .. n
        BY <1>1, <1>3, <1>8, <2>1
    <2>2. CASE i \in 1 .. n /\ j \in n + 1 .. n + k
        <3>1. y[i] \in lo + 1 .. hi /\ y[j] = hi + (j - n) /\ j - n \in 1 .. k
            BY <1>3, <1>4, <2>2
        <3> QED BY <3>1
    <2>3. CASE i \in n + 1 .. n + k /\ j \in n + 1 .. n + k
        <3>1. y[i] = hi + (i - n) /\ y[j] = hi + (j - n)
            BY <1>4, <2>3
        <3> QED BY <1>2, <1>8, <3>1
    <2>4. ~(i \in n + 1 .. n + k /\ j \in 1 .. n)
        BY <1>2, <1>8
    <2> QED BY <1>5, <2>1, <2>2, <2>3, <2>4
<1>9. ASSUME NEW m \in lo + 1 .. hi + k, T[m].ev = ev PROVE \E j \in 1 .. n + k : y[j] = m
    <2>1. CASE m \in lo + 1 .. hi
        <3>1. PICK j \in 1 .. n : x[j] = m
            BY <1>1, <1>9, <2>1
        <3> QED BY <1>3, <3>1
    <2>2. CASE m \notin lo + 1 .. hi
        <3>1. n + (m - hi) \in n + 1 .. n + k /\ hi + ((n + (m - hi)) - n) = m
            BY <1>2, <2>2
        <3> QED BY <1>4, <3>1
    <2> QED BY <2>1, <2>2
<1>10. Window(T, ev, lo, hi + k, u)
    <2>1. Len(u) = n + k
        BY <1>2
    <2> DEFINE c == n + k
    <2> HIDE DEF c
    <2>2. y \in [1 .. c -> lo + 1 .. hi + k]
        BY <1>6 DEF c
    <2>3. \A j \in 1 .. c : T[y[j]].ev = ev /\ T[y[j]].q = u[j].q /\ T[y[j]].b = u[j].b
        BY <1>7 DEF c
    <2>4. \A i, j \in 1 .. c : i < j => y[i] < y[j]
        BY <1>8 DEF c
    <2>5. \A m \in lo + 1 .. hi + k : T[m].ev = ev => \E j \in 1 .. c : y[j] = m
        BY <1>9 DEF c
    <2>6. Len(u) = c
        BY <2>1 DEF c
    <2> QED BY ONLY <2>2, <2>3, <2>4, <2>5, <2>6 DEF Window
<1> QED BY <1>10 DEF k, u

\* no events of the kind on either side
LEMMA WindowSkip ==
    ASSUME NEW T, NEW ev, NEW lo \in Nat, NEW hi \in Nat, NEW s, Len(s) \in Nat,
           NEW l \in Nat, NEW h \in Nat, lo <= l, hi <= h, l <= hi,
           Window(T, ev, lo, hi, s),
           \A m \in lo + 1 .. l : T[m].ev # ev, \A m \in hi + 1 .. h : T[m].ev # ev
    PROVE  Window(T, ev, l, h, s)
<1> DEFINE n == Len(s)
<1>1. PICK x \in [1 .. n -> lo + 1 .. hi] :
          /\ \A j \in 1 .. n : T[x[j]].ev = ev /\ T[x[j]].q = s[j].q /\ T[x[j]].b = s[j].b
          /\ \A i, j \in 1 .. n : i < j => x[i] < x[j]
          /\ \A m \in lo + 1 .. hi : T[m].ev = ev => \E j \in 1 .. n : x[j] = m
    BY DEF Window
<1> HIDE DEF n
<1>2. ASSUME NEW j \in 1 .. n PROVE x[j] \in l + 1 .. h
    <2>1. x[j] \in lo + 1 .. hi /\ T[x[j]].ev = ev
        BY <1>1
    <2>2. x[j] \notin lo + 1 .. l
        BY <2>1
    <2> QED BY <2>1, <2>2
<1>3. x \in [1 .. n -> l + 1 .. h]
    BY <1>1, <1>2
<1>4. ASSUME NEW m \in l + 1 .. h, T[m].ev = ev PROVE \E j \in 1 .. n : x[j] = m
    <2>1. m \notin hi + 1 .. h
        BY <1>4
    <2>2. m \in lo + 1 .. hi
        BY <2>1
    <2> QED BY <1>1, <1>4, <2>2
<1> QED BY <1>1, <1>3, <1>4 DEF Window, n

\* the first of the window
LEMMA WindowFirst ==
    ASSUME NEW T, NEW ev, NEW lo \in Nat, NEW hi \in Nat, NEW s, Len(s) \in Nat, Len(s) > 0,
           Window(T, ev, lo, hi, s)
    PROVE  \E m \in lo + 1 .. hi : Matches(T[m], ev, s[1]) /\ \A i \in lo + 1 .. m - 1 : T[i].ev # ev
<1> DEFINE n == Len(s)
<1>1. PICK x \in [1 .. n -> lo + 1 .. hi] :
          /\ \A j \in 1 .. n : T[x[j]].ev = ev /\ T[x[j]].q = s[j].q /\ T[x[j]].b = s[j].b
          /\ \A i, j \in 1 .. n : i < j => x[i] < x[j]
          /\ \A m \in lo + 1 .. hi : T[m].ev = ev => \E j \in 1 .. n : x[j] = m
    BY DEF Window
<1>2. n \in Nat /\ 1 \in 1 .. n
    OBVIOUS
<1> HIDE DEF n
<1>3. x[1] \in lo + 1 .. hi /\ Matches(T[x[1]], ev, s[1])
    BY <1>1, <1>2 DEF Matches
<1>4. ASSUME NEW i \in lo + 1 .. x[1] - 1, T[i].ev = ev PROVE FALSE
    <2>1. i \in lo + 1 .. hi /\ i < x[1]
        BY <1>3
    <2>2. PICK j \in 1 .. n : x[j] = i
        BY <1>1, <1>4, <2>1
    <2>3. j = 1 \/ 1 < j
        BY <1>2
    <2>4. x[j] \in lo + 1 .. hi
        BY <1>1
    <2> QED BY <1>1, <1>2, <1>3, <2>1, <2>2, <2>3, <2>4
<1> QED BY <1>3, <1>4

\* an event of the kind that comes first in the window leaves it
LEMMA WindowPop ==
    ASSUME NEW T, NEW ev, NEW lo \in Nat, NEW hi \in Nat, NEW X, NEW s \in Seq(X), s # <<>>,
           Window(T, ev, lo, hi, s), T[lo + 1].ev = ev
    PROVE  /\ lo + 1 <= hi /\ Matches(T[lo + 1], ev, s[1])
           /\ Window(T, ev, lo + 1, hi, Tail(s))
<1> DEFINE n == Len(s)
           t == Tail(s)
<1>1. PICK x \in [1 .. n -> lo + 1 .. hi] :
          /\ \A j \in 1 .. n : T[x[j]].ev = ev /\ T[x[j]].q = s[j].q /\ T[x[j]].b = s[j].b
          /\ \A i, j \in 1 .. n : i < j => x[i] < x[j]
          /\ \A m \in lo + 1 .. hi : T[m].ev = ev => \E j \in 1 .. n : x[j] = m
    BY DEF Window
<1>2. /\ n \in Nat /\ n >= 1 /\ Len(t) = n - 1 /\ n - 1 \in Nat
      /\ \A j \in 1 .. n - 1 : t[j] = s[j + 1]
    OBVIOUS
<1>3. PICK m \in lo + 1 .. hi : Matches(T[m], ev, s[1]) /\ \A i \in lo + 1 .. m - 1 : T[i].ev # ev
    <2>1. Len(s) \in Nat /\ Len(s) > 0
        BY <1>2
    <2> QED BY ONLY <2>1, WindowFirst, lo \in Nat, hi \in Nat, Window(T, ev, lo, hi, s)
<1> HIDE DEF n, t
<1>4. m = lo + 1
    BY <1>3
<1>5. \A j \in 1 .. n - 1 : j + 1 \in 1 .. n /\ 1 \in 1 .. n /\ 1 < j + 1
    BY <1>2
<1> DEFINE y == [j \in 1 .. n - 1 |-> x[j + 1]]
<1>6. \A j \in 1 .. n - 1 : y[j] = x[j + 1] /\ y[j] \in (lo + 1) + 1 .. hi
    <2> TAKE j \in 1 .. n - 1
    <2>1. x[1] \in lo + 1 .. hi /\ x[j + 1] \in lo + 1 .. hi /\ x[1] < x[j + 1]
        BY <1>1, <1>5
    <2> QED BY <2>1
<1>7. y \in [1 .. n - 1 -> (lo + 1) + 1 .. hi]
    BY <1>6
<1> HIDE DEF y
<1>8. \A j \in 1 .. n - 1 : T[y[j]].ev = ev /\ T[y[j]].q = t[j].q /\ T[y[j]].b = t[j].b
    <2> TAKE j \in 1 .. n - 1
    <2>1. y[j] = x[j + 1] /\ t[j] = s[j + 1] /\ j + 1 \in 1 .. n
        BY <1>2, <1>5, <1>6
    <2>2. /\ T[x[j + 1]].ev = ev /\ T[x[j + 1]].q = s[j + 1].q /\ T[x[j + 1]].b = s[j + 1].b
        BY <1>1, <2>1
    <2> QED BY ONLY <2>1, <2>2
<1>9. ASSUME NEW i \in 1 .. n - 1, NEW j \in 1 .. n - 1, i < j PROVE y[i] < y[j]
    <2>1. i + 1 < j + 1
        BY <1>9
    <2> QED BY <1>1, <1>5, <1>6, <2>1
<1>10. ASSUME NEW k \in (lo + 1) + 1 .. hi, T[k].ev = ev PROVE \E j \in 1 .. n - 1 : y[j] = k
    <2>1. PICK j \in 1 .. n : x[j] = k
        BY <1>1, <1>10
    <2>2. j # 1
        <3>1. SUFFICES ASSUME j = 1 PROVE FALSE
            OBVIOUS
        <3>2. PICK i \in 1 .. n : x[i] = lo + 1
            <4>1. T[lo + 1].ev = ev /\ lo + 1 \in lo + 1 .. hi
                BY <1>4
            <4> QED BY <1>1, <4>1
        <3>3. 1 < i \/ i = 1
            OBVIOUS
        <3> QED BY <1>1, <2>1, <3>1, <3>2, <3>3
    <2>3. j - 1 \in 1 .. n - 1 /\ (j - 1) + 1 = j
        BY <1>2, <2>2
    <2> QED BY <1>6, <2>1, <2>3
<1>11. Window(T, ev, lo + 1, hi, t)
    <2> DEFINE c == n - 1
               l == lo + 1
    <2> HIDE DEF c, l
    <2>2. y \in [1 .. c -> l + 1 .. hi]
        BY <1>7 DEF c, l
    <2>3. \A j \in 1 .. c : T[y[j]].ev = ev /\ T[y[j]].q = t[j].q /\ T[y[j]].b = t[j].b
        BY <1>8 DEF c
    <2>4. \A i, j \in 1 .. c : i < j => y[i] < y[j]
        BY <1>9 DEF c
    <2>5. \A k \in l + 1 .. hi : T[k].ev = ev => \E j \in 1 .. c : y[j] = k
        BY <1>10 DEF c, l
    <2>6. Len(t) = c
        BY <1>2 DEF c
    <2>7. Window(T, ev, l, hi, t)
        BY ONLY <2>2, <2>3, <2>4, <2>5, <2>6 DEF Window
    <2> QED BY <2>7 DEF l
<1> QED BY <1>3, <1>4, <1>11 DEF t

\* what is left of a sequence without its first m elements
LEMMA Rest ==
    ASSUME NEW X, NEW s \in Seq(X), NEW m \in Nat, m + 1 \in 1 .. Len(s)
    PROVE  LET r == SubSeq(s, m + 1, Len(s))
           IN  /\ r \in Seq(X) /\ r # <<>> /\ r[1] = s[m + 1]
               /\ Tail(r) = SubSeq(s, (m + 1) + 1, Len(s))
<1> DEFINE n == Len(s)
           r == SubSeq(s, m + 1, n)
           u == SubSeq(s, (m + 1) + 1, n)
           k == n - m
<1>1. n \in Nat /\ k \in Nat /\ k >= 1
    OBVIOUS
<1>2. r \in Seq(X) /\ Len(r) = k /\ \A j \in 1 .. k : r[j] = s[m + j]
    OBVIOUS
<1>3. u \in Seq(X) /\ Len(u) = k - 1 /\ \A j \in 1 .. k - 1 : u[j] = s[m + (j + 1)]
    OBVIOUS
<1> HIDE DEF n, r, u, k
<1>4. r # <<>> /\ r[1] = s[m + 1]
    BY <1>1, <1>2
<1>5. Tail(r) \in Seq(X) /\ Len(Tail(r)) = k - 1 /\ \A j \in 1 .. k - 1 : Tail(r)[j] = r[j + 1]
    BY <1>1, <1>2, <1>4
<1>6. \A j \in 1 .. k - 1 : Tail(r)[j] = u[j]
    <2> TAKE j \in 1 .. k - 1
    <2>1. j + 1 \in 1 .. k
        BY <1>1
    <2> QED BY <1>2, <1>3, <1>5, <2>1
<1> DEFINE v == Tail(r)
<1> HIDE DEF v
<1>7. v = u
    <2>1. \A z \in Seq(X) : z = [j \in 1 .. Len(z) |-> z[j]]
        OBVIOUS
    <2>2. v \in Seq(X) /\ u \in Seq(X) /\ Len(v) = Len(u) /\ \A j \in 1 .. Len(u) : v[j] = u[j]
        BY <1>3, <1>5, <1>6 DEF v
    <2>3. v = [j \in 1 .. Len(u) |-> v[j]] /\ u = [j \in 1 .. Len(u) |-> u[j]]
        BY <2>1, <2>2
    <2> QED BY ONLY <2>2, <2>3
<1> QED BY <1>2, <1>4, <1>7 DEF n, r, u, v

\* several of them
LEMMA WindowPops ==
    ASSUME NEW T, NEW ev, NEW lo \in Nat, NEW hi \in Nat, NEW X, NEW s \in Seq(X),
           NEW num \in Nat, num <= Len(s), lo <= hi,
           Window(T, ev, lo, hi, s), \A i \in 1 .. num : T[lo + i].ev = ev
    PROVE  /\ lo + num <= hi /\ \A i \in 1 .. num : Matches(T[lo + i], ev, s[i])
           /\ Window(T, ev, lo + num, hi, SubSeq(s, num + 1, Len(s)))
<1> DEFINE r(m) == SubSeq(s, m + 1, Len(s))
           Ok(m) == /\ lo + m <= hi /\ \A i \in 1 .. m : Matches(T[lo + i], ev, s[i])
                    /\ Window(T, ev, lo + m, hi, r(m))
           S == {m \in Nat : m <= num => Ok(m)}
<1>1. 0 \in S
    <2>1. r(0) = s
        OBVIOUS
    <2>2. lo + 0 = lo
        OBVIOUS
    <2> HIDE DEF r
    <2>3. Window(T, ev, lo + 0, hi, r(0))
        BY <2>1, <2>2
    <2>4. Ok(0)
        BY <2>3
    <2> HIDE DEF Ok
    <2> QED BY <2>4
<1>2. ASSUME NEW m \in Nat, m \in S PROVE m + 1 \in S
    <2>1. SUFFICES ASSUME m + 1 <= num PROVE Ok(m + 1)
        OBVIOUS
    <2>2. Ok(m)
        BY <1>2, <2>1
    <2>3. /\ r(m) \in Seq(X) /\ r(m) # <<>> /\ r(m)[1] = s[m + 1]
          /\ Tail(r(m)) = r(m + 1)
        <3> HIDE DEF Ok, S
        <3>1. m + 1 \in 1 .. Len(s)
            BY <2>1
        <3> QED BY ONLY <3>1, s \in Seq(X), m \in Nat, Rest
    <2>4. T[(lo + m) + 1].ev = ev /\ lo + m \in Nat /\ (lo + m) + 1 = lo + (m + 1)
        <3> HIDE DEF Ok, S
        <3>1. m + 1 \in 1 .. num /\ (lo + m) + 1 = lo + (m + 1) /\ lo + m \in Nat
            BY <2>1
        <3>2. T[lo + (m + 1)].ev = ev
            BY ONLY <3>1, \A i \in 1 .. num : T[lo + i].ev = ev
        <3> QED BY <3>1, <3>2
    <2> HIDE DEF r
    <2>5. Window(T, ev, lo + m, hi, r(m))
        BY <2>2
    <2>6. /\ (lo + m) + 1 <= hi /\ Matches(T[(lo + m) + 1], ev, s[m + 1])
          /\ Window(T, ev, (lo + m) + 1, hi, r(m + 1))
        BY <2>3, <2>4, <2>5, WindowPop
    <2>7. \A i \in 1 .. m + 1 : i \in 1 .. m \/ i = m + 1
        OBVIOUS
    <2> QED BY <2>2, <2>4, <2>6, <2>7
<1>3. \A m \in Nat : m \in S
    <2> HIDE DEF S
    <2> QED BY <1>1, <1>2, Induct
<1>4. Ok(num)
    BY <1>3
<1> QED BY <1>4

-----------------------------------------------------------------------------
(* The command list runs through the script: what each command takes of it. *)

\* the kinds of the events of an entry
LEMMA EventStart ==
    ASSUME NEW e, NEW q
    PROVE  EventOf(e, q, 1).ev = "START"
BY DEF EventOf, Event

LEMMA EventAddress ==
    ASSUME NEW e \in Item, NEW q, NEW j \in Nat, j > 1, j <= 1 + e.addrReq
    PROVE  LET v == EventOf(e, q, j)
           IN  v.ev = "WRITE" /\ v.q = q /\ v.b = j - 2 - e.addrReq /\ ~v.nak
<1>1. j # 1
    OBVIOUS
<1>2. EventOf(e, q, j) = Event("WRITE", q, j - 2 - e.addrReq, FALSE)
    BY <1>1 DEF EventOf
<1> DEFINE b == j - 2 - e.addrReq
<1> HIDE DEF b
<1>3. EventOf(e, q, j) = [ev |-> "WRITE", q |-> q, b |-> b, nak |-> FALSE]
    BY <1>2 DEF Event, b
<1>4. LET v == EventOf(e, q, j) IN v.ev = "WRITE" /\ v.q = q /\ v.b = b /\ ~v.nak
    BY ONLY <1>3
<1> QED BY ONLY <1>4 DEF b

LEMMA EventData ==
    ASSUME NEW e \in Item, NEW q, NEW j \in Nat, j > 1 + e.addrReq, j <= 1 + e.addrReq + e.length
    PROVE  LET v == EventOf(e, q, j)
           IN  /\ v.ev = e.mode /\ v.q = q /\ v.b = j - 2 - e.addrReq
               /\ v.nak = (e.mode = "READ" /\ j = 1 + e.addrReq + e.length)
<1>1. e.addrReq \in Nat /\ e.length \in Nat
    BY DEF Item
<1>2. j # 1 /\ ~(j <= 1 + e.addrReq)
    BY <1>1
<1>3. EventOf(e, q, j) = Event(e.mode, q, j - 2 - e.addrReq,
                                 e.mode = "READ" /\ j = 1 + e.addrReq + e.length)
    BY <1>2 DEF EventOf
<1> DEFINE b == j - 2 - e.addrReq
           x == (e.mode = "READ" /\ j = 1 + e.addrReq + e.length)
           m == e.mode
<1> HIDE DEF b, x, m
<1>4. EventOf(e, q, j) = [ev |-> m, q |-> q, b |-> b, nak |-> x]
    BY <1>3 DEF Event, b, x, m
<1>5. LET v == EventOf(e, q, j) IN v.ev = m /\ v.q = q /\ v.b = b /\ v.nak = x
    BY ONLY <1>4
<1> QED BY ONLY <1>5 DEF b, x, m

LEMMA EventStop ==
    ASSUME NEW e \in Item, NEW q, NEW j \in Nat, j > 1 + e.addrReq + e.length
    PROVE  EventOf(e, q, j).ev = "STOP"
<1>1. e.addrReq \in Nat /\ e.length \in Nat
    BY DEF Item
<1>2. j # 1 /\ ~(j <= 1 + e.addrReq) /\ ~(j <= 1 + e.addrReq + e.length)
    BY <1>1
<1> QED BY <1>2 DEF EventOf, Event

LEMMA EventIsStop ==
    ASSUME NEW e \in Item, NEW q, NEW j \in Nat \ {0}
    PROVE  EventOf(e, q, j).ev = "STOP" <=> j > 1 + e.addrReq + e.length
<1>0. e.addrReq \in Nat /\ e.length \in Nat /\ e.mode \in {"READ", "WRITE"}
    BY DEF Item
<1>1. CASE j = 1
    <2>1. EventOf(e, q, 1).ev = "START"
        BY EventStart
    <2>2. ~(j > 1 + e.addrReq + e.length)
        BY <1>0, <1>1
    <2> QED BY ONLY <1>1, <2>1, <2>2
<1>2. CASE j > 1 /\ j <= 1 + e.addrReq
    <2>1. j \in Nat /\ j > 1 /\ j <= 1 + e.addrReq /\ ~(j > 1 + e.addrReq + e.length)
        BY <1>0, <1>2
    <2>2. EventOf(e, q, j).ev = "WRITE"
        BY <2>1, EventAddress
    <2> QED BY ONLY <2>1, <2>2
<1>3. CASE j > 1 + e.addrReq /\ j <= 1 + e.addrReq + e.length
    <2>1. EventOf(e, q, j).ev = e.mode
        BY <1>3, EventData
    <2>2. ~(j > 1 + e.addrReq + e.length) /\ e.mode # "STOP"
        BY <1>0, <1>3
    <2> QED BY ONLY <2>1, <2>2
<1>4. CASE j > 1 + e.addrReq + e.length
    BY <1>4, EventStop
<1>5. \/ j = 1
      \/ j > 1 /\ j <= 1 + e.addrReq
      \/ j > 1 + e.addrReq /\ j <= 1 + e.addrReq + e.length
      \/ j > 1 + e.addrReq + e.length
    BY <1>0
<1> QED BY <1>1, <1>2, <1>3, <1>4, <1>5

LEMMA ScriptFits ==
    ASSUME NEW n \in Nat, NEW d \in [1 .. n -> Item], NEW B, NEW T, Script(n, d, B, T),
           NEW q \in 1 .. n
    PROVE  /\ B[q] \in Nat /\ Size(d[q]) \in Nat /\ Len(T) \in Nat
           /\ B[q] + Size(d[q]) <= Len(T)
           /\ q = n => B[q] + Size(d[q]) = Len(T)
<1>1. \A p \in 1 .. n : B[p] \in Nat /\ Size(d[p]) \in Nat
    <2> TAKE p \in 1 .. n
    <2>1. d[p] \in Item /\ p \in Nat /\ p \in 1 .. n + 1
        OBVIOUS
    <2> QED BY <2>1, EventsOfEntry DEF Script
<1>2. n \in 1 .. n /\ B[n + 1] = B[n] + Size(d[n]) /\ Len(T) = B[n + 1]
    BY DEF Script
<1>3. CASE q = n
    BY <1>1, <1>2, <1>3
<1>4. CASE q # n
    <2>1. q < n
        BY <1>4
    <2>2. B[q] + Size(d[q]) <= B[n]
        BY <1>2, <2>1 DEF Script
    <2>3. B[q] \in Nat /\ Size(d[q]) \in Nat /\ B[n] \in Nat /\ Size(d[n]) \in Nat
        BY <1>1, <1>2
    <2> QED BY ONLY <1>2, <1>4, <2>2, <2>3
<1> QED BY <1>3, <1>4

LEMMA ScriptEvent ==
    ASSUME NEW n \in Nat, NEW d \in [1 .. n -> Item], NEW B, NEW T, Script(n, d, B, T),
           NEW q \in 1 .. n, NEW j \in 1 .. Size(d[q])
    PROVE  B[q] + j \in 1 .. Len(T) /\ T[B[q] + j] = EventOf(d[q], q, j)
<1>1. B[q] \in Nat /\ Size(d[q]) \in Nat /\ Len(T) \in Nat /\ B[q] + Size(d[q]) <= Len(T)
    BY ScriptFits
<1>2. B[q] + j \in 1 .. Len(T)
    BY <1>1
<1> QED BY <1>2 DEF Script

\* the parts of an entry, as the commands take them
LEMMA TakesEntry ==
    ASSUME NEW n \in Nat, NEW d \in [1 .. n -> Item], NEW B, NEW T, Script(n, d, B, T),
           NEW q \in 1 .. n
    PROVE  LET e == d[q]
               b == B[q]
               r == e.addrReq
               w == e.length
           IN  /\ Takes(Cmd("RSTART", 0, FALSE), T, b, b + 1)
               /\ Takes(Cmd("WRITE", r, FALSE), T, b + 1, b + 1 + r)
               /\ \A i, num \in Nat :
                     i + num <= w /\ (e.mode = "READ" => i + num < w) =>
                         Takes(Cmd(e.mode, num, FALSE), T, b + 1 + r + i, b + 1 + r + i + num)
               /\ e.mode = "READ" /\ w > 0 =>
                     Takes(Cmd("READ", 1, TRUE), T, b + 1 + r + w - 1, b + 1 + r + w)
               /\ e.stop => Takes(Cmd("STOP", 0, FALSE), T, b + 1 + r + w, b + 2 + r + w)
<1> DEFINE e == d[q]
           b == B[q]
           r == e.addrReq
           w == e.length
           z == Len(T)
<1>1. /\ e \in Item /\ r \in {1, 2} /\ r \in Nat /\ w \in Nat /\ e.stop \in BOOLEAN
      /\ e.mode \in {"READ", "WRITE"}
    <2>1. e \in Item
        OBVIOUS
    <2> HIDE DEF e
    <2> QED BY ONLY <2>1 DEF Item
<1>2. b \in Nat /\ z \in Nat /\ b + Size(e) <= z /\ Size(e) = 1 + r + w + (IF e.stop THEN 1 ELSE 0)
    <2>1. b \in Nat /\ z \in Nat /\ b + Size(e) <= z
        BY ScriptFits
    <2>2. Size(e) = 1 + r + w + (IF e.stop THEN 1 ELSE 0)
        BY DEF Size
    <2> QED BY ONLY <2>1, <2>2
<1>3. \A j \in 1 .. Size(e) : T[b + j] = EventOf(e, q, j)
    BY ScriptEvent
<1>4. /\ 1 \in 1 .. Size(e) /\ \A j \in 2 .. 1 + r + w : j \in 1 .. Size(e)
      /\ b + 1 + r + w <= z /\ (e.stop => 2 + r + w \in 1 .. Size(e) /\ b + 2 + r + w <= z)
    <2> HIDE DEF b, r, w, z
    <2> QED BY <1>1, <1>2
<1>5. T[b + 1].ev = "START"
    <2>1. T[b + 1] = EventOf(e, q, 1)
        BY <1>3, <1>4
    <2> QED BY <2>1, EventStart
<1>6. \A j \in 2 .. 1 + r : T[b + j].ev = "WRITE" /\ ~T[b + j].nak
    <2> TAKE j \in 2 .. 1 + r
    <2>1. j \in 1 .. Size(e) /\ j \in Nat /\ j > 1 /\ j <= 1 + r
        <3> HIDE DEF e, b, r, w, z
        <3> QED BY <1>1, <1>2, <1>4
    <2>2. T[b + j] = EventOf(e, q, j)
        BY <1>3, <2>1
    <2>3. EventOf(e, q, j).ev = "WRITE" /\ ~EventOf(e, q, j).nak
        <3> HIDE DEF e
        <3> QED BY <1>1, <2>1, EventAddress
    <2> QED BY <2>2, <2>3
<1>7. \A j \in 2 + r .. 1 + r + w :
          T[b + j].ev = e.mode /\ T[b + j].nak = (e.mode = "READ" /\ j = 1 + r + w)
    <2> TAKE j \in 2 + r .. 1 + r + w
    <2>1. j \in 1 .. Size(e) /\ j \in Nat /\ j > 1 + r /\ j <= 1 + r + w
        <3> HIDE DEF e, b, r, w, z
        <3> QED BY <1>1, <1>2, <1>4
    <2>2. T[b + j] = EventOf(e, q, j)
        BY <1>3, <2>1
    <2>3. /\ EventOf(e, q, j).ev = e.mode
          /\ EventOf(e, q, j).nak = (e.mode = "READ" /\ j = 1 + r + w)
        <3> HIDE DEF e
        <3> QED BY <1>1, <2>1, EventData
    <2> QED BY <2>2, <2>3
<1>8. e.stop => T[b + (2 + r + w)].ev = "STOP"
    <2> SUFFICES ASSUME e.stop PROVE T[b + (2 + r + w)].ev = "STOP"
        OBVIOUS
    <2> DEFINE j == 2 + r + w
    <2>1. j \in 1 .. Size(e) /\ j \in Nat /\ j > 1 + r + w
        <3> HIDE DEF e, b, r, w, z
        <3> QED BY <1>1, <1>2, <1>4
    <2> HIDE DEF j
    <2>2. T[b + j] = EventOf(e, q, j)
        BY <1>3, <2>1
    <2>3. EventOf(e, q, j).ev = "STOP"
        <3> HIDE DEF e
        <3> QED BY <1>1, <2>1, EventStop
    <2> QED BY <2>2, <2>3 DEF j
<1> HIDE DEF b, r, w, z
<1>9. Takes(Cmd("RSTART", 0, FALSE), T, b, b + 1)
    BY <1>1, <1>2, <1>4, <1>5 DEF Takes, Cmd, z
<1>10. Takes(Cmd("WRITE", r, FALSE), T, b + 1, b + 1 + r)
    <2>1. \A m \in (b + 1) + 1 .. b + 1 + r : T[m].ev = "WRITE" /\ T[m].nak = FALSE
        <3> TAKE m \in (b + 1) + 1 .. b + 1 + r
        <3>1. m - b \in 2 .. 1 + r /\ b + (m - b) = m
            BY <1>1, <1>2
        <3> QED BY <1>6, <3>1
    <2>2. b + 1 + r \in b + 1 .. z /\ b + 1 + r = (b + 1) + r
        BY <1>1, <1>2, <1>4
    <2> QED BY <2>1, <2>2 DEF Takes, Cmd, z
<1>11. ASSUME NEW i \in Nat, NEW num \in Nat, i + num <= w, e.mode = "READ" => i + num < w
       PROVE  Takes(Cmd(e.mode, num, FALSE), T, b + 1 + r + i, b + 1 + r + i + num)
    <2>1. \A m \in (b + 1 + r + i) + 1 .. b + 1 + r + i + num : T[m].ev = e.mode /\ T[m].nak = FALSE
        <3> TAKE m \in (b + 1 + r + i) + 1 .. b + 1 + r + i + num
        <3>1. m - b \in 2 + r .. 1 + r + w /\ b + (m - b) = m /\ (e.mode = "READ" => m - b # 1 + r + w)
            <4> HIDE DEF e
            <4> QED BY <1>1, <1>2, <1>11
        <3>2. T[m].ev = e.mode /\ T[m].nak = (e.mode = "READ" /\ m - b = 1 + r + w)
            BY <1>7, <3>1
        <3> QED BY <3>1, <3>2
    <2>2. b + 1 + r + i + num \in b + 1 + r + i .. z /\ b + 1 + r + i + num = (b + 1 + r + i) + num
        BY <1>1, <1>2, <1>4, <1>11
    <2> DEFINE x == b + 1 + r + i
               y == b + 1 + r + i + num
    <2> HIDE DEF x, y, e
    <2>3. y \in x .. z /\ y = x + num /\ \A m \in x + 1 .. y : T[m].ev = e.mode /\ T[m].nak = FALSE
        BY <2>1, <2>2 DEF x, y
    <2>4. Takes(Cmd(e.mode, num, FALSE), T, x, y)
        BY <1>1, <2>3 DEF Takes, Cmd, z
    <2> QED BY <2>4 DEF x, y
<1>12. ASSUME e.mode = "READ", w > 0
       PROVE  Takes(Cmd("READ", 1, TRUE), T, b + 1 + r + w - 1, b + 1 + r + w)
    <2> DEFINE x == b + 1 + r + w - 1
               y == b + 1 + r + w
    <2>1. \A m \in x + 1 .. y : T[m].ev = "READ" /\ T[m].nak = TRUE
        <3> TAKE m \in x + 1 .. y
        <3>1. m - b = 1 + r + w /\ m - b \in 2 + r .. 1 + r + w /\ b + (m - b) = m
            BY <1>1, <1>2, <1>12
        <3> QED BY <1>7, <1>12, <3>1
    <2>2. y \in x .. z /\ y = x + 1
        BY <1>1, <1>2, <1>4, <1>12
    <2> HIDE DEF x, y
    <2>4. Takes(Cmd("READ", 1, TRUE), T, x, y)
        BY <2>1, <2>2 DEF Takes, Cmd, z
    <2> QED BY <2>4 DEF x, y
<1>13. ASSUME e.stop PROVE Takes(Cmd("STOP", 0, FALSE), T, b + 1 + r + w, b + 2 + r + w)
    <2> DEFINE x == b + 1 + r + w
               y == b + 2 + r + w
    <2>1. y \in x .. z /\ y = x + 1 /\ y = b + (2 + r + w)
        BY <1>1, <1>2, <1>4, <1>13
    <2> HIDE DEF x, y
    <2>2. T[y].ev = "STOP"
        BY <1>8, <1>13, <2>1
    <2>4. Takes(Cmd("STOP", 0, FALSE), T, x, y)
        BY <2>1, <2>2 DEF Takes, Cmd, z
    <2> QED BY <2>4 DEF x, y
<1> QED BY <1>9, <1>10, <1>11, <1>12, <1>13 DEF b, r, w

\* nothing follows a STOP, and a transfer ends with one
LEMMA ScriptStops ==
    ASSUME NEW n \in Nat \ {0}, NEW d \in [1 .. n -> Item], NEW B, NEW T, Script(n, d, B, T),
           OnlyLastStops(n, d)
    PROVE  /\ Len(T) \in Nat \ {0} /\ T[Len(T)].ev = "STOP"
           /\ \A i \in 1 .. Len(T) : T[i].ev = "STOP" => i = Len(T)
<1>1. n \in 1 .. n /\ n \in Nat /\ d[n].stop
    BY DEF OnlyLastStops
<1>2. B[n] + Size(d[n]) = Len(T) /\ B[n] \in Nat /\ Size(d[n]) \in Nat /\ Len(T) \in Nat
    BY <1>1, ScriptFits
<1>3. \A q \in 1 .. n : /\ Size(d[q]) = 1 + d[q].addrReq + d[q].length + (IF d[q].stop THEN 1 ELSE 0)
                        /\ d[q].addrReq \in Nat /\ d[q].length \in Nat /\ d[q].mode \in {"READ", "WRITE"}
    <2> TAKE q \in 1 .. n
    <2>1. d[q] \in Item
        OBVIOUS
    <2> QED BY <2>1 DEF Size, Item
<1>4. \A q \in 1 .. n : \A j \in 1 .. Size(d[q]) :
          EventOf(d[q], q, j).ev = "STOP" <=> j > 1 + d[q].addrReq + d[q].length
    <2> TAKE q \in 1 .. n
    <2> TAKE j \in 1 .. Size(d[q])
    <2>1. d[q] \in Item /\ j \in Nat \ {0}
        BY <1>3
    <2> QED BY <2>1, EventIsStop
<1>5. T[Len(T)].ev = "STOP" /\ Len(T) # 0
    <2> DEFINE j == Size(d[n])
    <2>1. j > 1 + d[n].addrReq + d[n].length /\ j \in 1 .. Size(d[n])
        <3>1. Size(d[n]) = 1 + d[n].addrReq + d[n].length + 1 /\ d[n].addrReq \in Nat /\ d[n].length \in Nat
            BY <1>1, <1>3
        <3> QED BY <1>2, <3>1
    <2>2. T[B[n] + j] = EventOf(d[n], n, j) /\ B[n] + j \in 1 .. Len(T)
        BY <1>1, <2>1, ScriptEvent
    <2> QED BY <1>1, <1>2, <1>4, <2>1, <2>2
<1>6. ASSUME NEW i \in 1 .. Len(T), T[i].ev = "STOP" PROVE i = Len(T)
    <2>0. PICK q \in 1 .. n : \E j \in 1 .. Size(d[q]) : i = B[q] + j
        BY DEF Script
    <2>1. PICK j \in 1 .. Size(d[q]) : i = B[q] + j
        BY <2>0
    <2>2. T[i] = EventOf(d[q], q, j)
        BY <2>1, ScriptEvent
    <2>3. j > 1 + d[q].addrReq + d[q].length
        BY <1>4, <1>6, <2>2
    <2>4. d[q].stop /\ j = Size(d[q])
        <3> DEFINE e == d[q]
        <3>1. /\ Size(e) = 1 + e.addrReq + e.length + (IF e.stop THEN 1 ELSE 0)
              /\ e.addrReq \in Nat /\ e.length \in Nat
            BY <1>3
        <3>2. j \in 1 .. Size(e) /\ j > 1 + e.addrReq + e.length
            BY <2>1, <2>3
        <3> HIDE DEF e
        <3>3. e.stop /\ j = Size(e)
            BY ONLY <3>1, <3>2
        <3> QED BY <3>3 DEF e
    <2>5. q = n
        BY <2>4 DEF OnlyLastStops
    <2> QED BY <1>2, <2>1, <2>4, <2>5
<1> QED BY <1>2, <1>5, <1>6

-----------------------------------------------------------------------------
(* What fillCmdQueue lists is the script, from where the list before it     *)
(* ended: its commands are a chain from event l0 to event l.                *)

HasChain(c, T, k, l0, l) ==
    \E cur \in [0 .. k -> 0 .. l] :
        /\ cur[0] = l0 /\ cur[k] = l
        /\ \A i \in 0 .. k - 1 : Takes(c[i], T, cur[i], cur[i + 1])

LEMMA ChainKept ==
    ASSUME NEW c, NEW d, NEW T, NEW k \in Nat, NEW l0, NEW l, HasChain(c, T, k, l0, l),
           \A i \in 0 .. k - 1 : d[i] = c[i]
    PROVE  HasChain(d, T, k, l0, l)
BY DEF HasChain

LEMMA ChainGrows ==
    ASSUME NEW c \in CommandList, NEW k \in 0 .. Slots - 1, NEW cmd, NEW T, Len(T) \in Nat,
           NEW l0, NEW l \in Nat, NEW m, HasChain(c, T, k, l0, l), Takes(cmd, T, l, m)
    PROVE  HasChain([c EXCEPT ![k] = cmd], T, k + 1, l0, m)
<1> DEFINE d == [c EXCEPT ![k] = cmd]
<1>1. PICK cur \in [0 .. k -> 0 .. l] :
          /\ cur[0] = l0 /\ cur[k] = l
          /\ \A i \in 0 .. k - 1 : Takes(c[i], T, cur[i], cur[i + 1])
    BY DEF HasChain
<1>2. m \in Nat /\ l <= m
    BY DEF Takes
<1>3. /\ k \in Nat /\ Slots \in Nat /\ d[k] = cmd /\ \A i \in 0 .. k - 1 : d[i] = c[i]
    BY CommandsAssumption DEF CommandList
<1> HIDE DEF d
<1> DEFINE new == [i \in 0 .. k + 1 |-> IF i <= k THEN cur[i] ELSE m]
<1>4. /\ new \in [0 .. k + 1 -> 0 .. m] /\ new[k + 1] = m
      /\ \A i \in 0 .. k : new[i] = cur[i]
    <2>1. \A i \in 0 .. k : i \in 0 .. k + 1 /\ i <= k /\ cur[i] \in 0 .. m
        BY <1>1, <1>2, <1>3
    <2>2. \A i \in 0 .. k + 1 : (IF i <= k THEN cur[i] ELSE m) \in 0 .. m
        BY <1>2, <1>3, <2>1
    <2> QED BY <1>2, <1>3, <2>1, <2>2
<1> HIDE DEF new
<1>5. new[0] = l0
    BY <1>1, <1>3, <1>4
<1>6. ASSUME NEW i \in 0 .. (k + 1) - 1 PROVE Takes(d[i], T, new[i], new[i + 1])
    <2>1. CASE i = k
        BY <1>1, <1>3, <1>4, <2>1
    <2>2. CASE i # k
        <3>1. i \in 0 .. k - 1 /\ i \in 0 .. k /\ i + 1 \in 0 .. k
            BY <1>3, <2>2
        <3> QED BY <1>1, <1>3, <1>4, <3>1
    <2> QED BY <2>1, <2>2
<1> QED BY <1>4, <1>5, <1>6 DEF HasChain, d

\* A full list is stretched: what moves down still comes after the same.
LEMMA ChainStretches ==
    ASSUME NEW c \in CommandList, NEW at \in 0 .. Slots - 3, NEW T, Len(T) \in Nat,
           NEW l0, NEW l \in Nat, HasChain(c, T, Slots - 2, l0, l),
           c[at].op \in {"READ", "WRITE"}
    PROVE  HasChain([i \in 0 .. Slots - 1 |->
                        IF i = at THEN [c[at] EXCEPT !.num = 0]
                        ELSE IF i \in at + 1 .. Slots - 2 THEN c[i - 1]
                        ELSE c[i]], T, Slots - 1, l0, l)
<1> DEFINE z == Slots - 2
           d == [i \in 0 .. Slots - 1 |->
                    IF i = at THEN [c[at] EXCEPT !.num = 0]
                    ELSE IF i \in at + 1 .. Slots - 2 THEN c[i - 1]
                    ELSE c[i]]
<1>0. z \in Nat /\ at \in Nat /\ at < z /\ Slots - 1 = z + 1 /\ 0 <= at
    BY CommandsAssumption
<1>1. PICK cur \in [0 .. z -> 0 .. l] :
          /\ cur[0] = l0 /\ cur[z] = l
          /\ \A i \in 0 .. z - 1 : Takes(c[i], T, cur[i], cur[i + 1])
    BY DEF HasChain
<1>2. /\ d[at] = [c[at] EXCEPT !.num = 0]
      /\ \A i \in 0 .. at - 1 : d[i] = c[i]
      /\ \A i \in at + 1 .. z : d[i] = c[i - 1]
    <2>1. /\ at \in 0 .. Slots - 1
          /\ \A i \in 0 .. at - 1 : i \in 0 .. Slots - 1 /\ i # at /\ i \notin at + 1 .. Slots - 2
          /\ \A i \in at + 1 .. z : i \in 0 .. Slots - 1 /\ i # at /\ i \in at + 1 .. Slots - 2
        BY <1>0
    <2> HIDE DEF z
    <2> QED BY <2>1
<1>3. c[at] \in Command
    BY <1>0 DEF CommandList
<1> HIDE DEF z, d
<1> DEFINE new == [i \in 0 .. z + 1 |-> IF i <= at THEN cur[i] ELSE cur[i - 1]]
<1>4. /\ new \in [0 .. z + 1 -> 0 .. l]
      /\ \A i \in 0 .. at : new[i] = cur[i]
      /\ \A i \in at + 1 .. z + 1 : new[i] = cur[i - 1]
    <2>1. \A i \in 0 .. z + 1 : (IF i <= at THEN cur[i] ELSE cur[i - 1]) \in 0 .. l
        <3> TAKE i \in 0 .. z + 1
        <3>1. CASE i <= at
            BY <1>0, <1>1, <3>1
        <3>2. CASE ~(i <= at)
            <4>1. i - 1 \in 0 .. z
                BY <1>0, <3>2
            <4> QED BY <1>1, <3>2, <4>1
        <3> QED BY <3>1, <3>2
    <2>2. \A i \in 0 .. at : i \in 0 .. z + 1 /\ i <= at
        BY <1>0
    <2>3. \A i \in at + 1 .. z + 1 : i \in 0 .. z + 1 /\ ~(i <= at)
        BY <1>0
    <2> QED BY <2>1, <2>2, <2>3
<1> HIDE DEF new
<1>5. new[0] = l0 /\ new[z + 1] = l
    <2>1. 0 \in 0 .. at /\ z + 1 \in at + 1 .. z + 1 /\ (z + 1) - 1 = z
        BY <1>0
    <2> QED BY <1>1, <1>4, <2>1
<1>6. ASSUME NEW i \in 0 .. (z + 1) - 1 PROVE Takes(d[i], T, new[i], new[i + 1])
    <2>1. CASE i < at
        <3>1. i \in 0 .. at - 1 /\ i \in 0 .. at /\ i + 1 \in 0 .. at /\ i \in 0 .. z - 1
            BY <1>0, <2>1
        <3> QED BY <1>1, <1>2, <1>4, <3>1
    <2>2. CASE i = at
        <3>1. at \in 0 .. at /\ at + 1 \in at + 1 .. z + 1 /\ (at + 1) - 1 = at /\ at \in 0 .. z
              /\ at \in 0 .. z - 1
            BY <1>0
        <3>2. new[i] = cur[at] /\ new[i + 1] = cur[at] /\ cur[at] \in Nat
            BY <1>1, <1>4, <2>2, <3>1
        <3>3. d[i].op = c[at].op /\ d[i].num = 0
            BY <1>2, <1>3, <2>2 DEF Command
        <3>4. cur[at] <= Len(T)
            <4>1. Takes(c[at], T, cur[at], cur[at + 1])
                BY <1>1, <3>1
            <4> QED BY <3>2, <4>1 DEF Takes
        <3>5. cur[at] \in cur[at] .. Len(T) /\ cur[at] = cur[at] + 0
              /\ \A m \in cur[at] + 1 .. cur[at] : FALSE
            BY <3>2, <3>4
        <3> QED BY <3>2, <3>3, <3>5 DEF Takes
    <2>3. CASE i > at
        <3>1. /\ i \in at + 1 .. z /\ i \in at + 1 .. z + 1 /\ i + 1 \in at + 1 .. z + 1
              /\ (i + 1) - 1 = i /\ i - 1 \in 0 .. z - 1 /\ (i - 1) + 1 = i
            BY <1>0, <2>3
        <3>2. new[i] = cur[i - 1] /\ new[i + 1] = cur[i] /\ d[i] = c[i - 1]
            BY <1>2, <1>4, <3>1
        <3> QED BY <1>1, <3>1, <3>2
    <2> QED BY <1>0, <2>1, <2>2, <2>3
<1>7. HasChain(d, T, z + 1, l0, l)
    BY <1>4, <1>5, <1>6 DEF HasChain
<1> QED BY <1>0, <1>7 DEF d

\* the first command of a full list that a START waits for is not a STOP, or the start of
\* an entry: if no other command moves bytes, it does
LEMMA FirstMoves ==
    ASSUME NEW c \in CommandList, NEW T, Len(T) \in Nat,
           NEW l0, NEW l \in Nat, HasChain(c, T, Slots - 2, l0, l),
           \A i \in 1 .. Len(T) : T[i].ev = "STOP" => i = Len(T),
           StartsWrite(c, Slots - 2),
           \A j \in 1 .. Slots - 3 : c[j].op \notin {"READ", "WRITE"}
    PROVE  c[0].op \in {"READ", "WRITE"}
<1> DEFINE z == Slots - 2
<1>0. z \in Nat /\ 2 < z /\ Slots \in Nat
    BY CommandsAssumption
<1>1. PICK cur \in [0 .. z -> 0 .. l] :
          \A i \in 0 .. z - 1 : Takes(c[i], T, cur[i], cur[i + 1])
    BY DEF HasChain
<1>2. 0 \in 0 .. z - 1 /\ 1 \in 0 .. z - 1 /\ 1 \in 1 .. Slots - 3 /\ 0 \in 0 .. Slots - 1
      /\ 0 < z /\ 0 + 1 = 1 /\ 1 + 1 = 2 /\ {0, 1, 2} \subseteq 0 .. z
    BY <1>0
<1>3. Takes(c[0], T, cur[0], cur[1]) /\ Takes(c[1], T, cur[1], cur[2])
    BY <1>1, <1>2
<1>4. cur[0] \in Nat /\ cur[1] \in Nat /\ cur[2] \in Nat
    BY <1>1, <1>2
<1>5. c[1].op \notin {"READ", "WRITE"}
    BY <1>2
<1>6. c[0].op # "RSTART"
    BY <1>2, <1>5 DEF StartsWrite, z
<1> HIDE DEF z
<1>7. c[0].op # "STOP"
    <2> SUFFICES ASSUME c[0].op = "STOP" PROVE FALSE
        OBVIOUS
    <2>1. cur[1] = cur[0] + 1 /\ cur[1] \in 1 .. Len(T) /\ T[cur[1]].ev = "STOP"
        BY <1>3, <1>4 DEF Takes
    <2>2. cur[1] = Len(T)
        BY <2>1
    <2>3. cur[2] = cur[1] + 1 /\ cur[2] <= Len(T)
        BY <1>3, <1>4, <1>5 DEF Takes
    <2> QED BY <1>4, <2>2, <2>3
<1>8. c[0].op \in {"RSTART", "STOP", "READ", "WRITE"}
    BY <1>3 DEF Takes
<1> QED BY <1>6, <1>7, <1>8

\* a chain that stops the controller is a program
LEMMA ChainStops ==
    ASSUME NEW c \in CommandList, NEW T, Len(T) \in Nat, NEW k \in 0 .. Slots - 1,
           NEW l0 \in Nat, NEW l \in Nat, HasChain(c, T, k, l0, l), l0 < Len(T), l <= Len(T),
           T[Len(T)].ev = "STOP", l = Len(T) \/ c[k].op = "END"
    PROVE  \E last, cur : Program(c, T, last, cur, l) /\ cur[0] = l0
<1>0. k \in Nat /\ Slots \in Nat
    BY CommandsAssumption
<1>1. PICK cur \in [0 .. k -> 0 .. l] :
          /\ cur[0] = l0 /\ cur[k] = l
          /\ \A i \in 0 .. k - 1 : Takes(c[i], T, cur[i], cur[i + 1])
    BY DEF HasChain
<1>2. CASE l # Len(T)
    <2>1. Program(c, T, k, cur, l)
        BY <1>1, <1>2 DEF Program
    <2> QED BY <1>1, <2>1
<1>3. CASE l = Len(T)
    <2> DEFINE S == {i \in 0 .. k : cur[i] = l}
    <2>1. PICK m \in S : \A i \in S : m <= i
        <3>1. k \in S /\ \A i \in S : i \in Nat
            BY <1>0, <1>1
        <3>2. S \in SUBSET Nat /\ S # {}
            BY <3>1
        <3> HIDE DEF S
        <3> QED BY <3>2, Least
    <2>2. m # 0 /\ m \in Nat /\ m <= k
        BY <1>0, <1>1, <1>3, <2>1
    <2> DEFINE p == m - 1
    <2>3. /\ p \in 0 .. k - 1 /\ p \in 0 .. k /\ p \in Nat /\ p + 1 = m /\ p < m
          /\ p \in 0 .. Slots - 1
        BY <1>0, <2>2
    <2> HIDE DEF p
    <2>4. cur[p] # l /\ cur[p] \in Nat /\ cur[p] <= l
        <3>1. p \notin S
            BY <2>1, <2>2, <2>3
        <3> QED BY <1>1, <2>3, <3>1
    <2>5. Takes(c[p], T, cur[p], l)
        BY <1>1, <2>1, <2>3
    <2>6. c[p].op = "STOP"
        <3>1. l \in cur[p] + 1 .. l
            BY <2>4
        <3> QED BY <1>3, <2>5, <3>1 DEF Takes
    <2> DEFINE new == [i \in 0 .. p |-> cur[i]]
    <2>7. \A i \in 0 .. p : i \in 0 .. k
        BY <1>0, <2>3
    <2>8. new \in [0 .. p -> 0 .. l] /\ \A i \in 0 .. p : new[i] = cur[i]
        BY <1>1, <2>7
    <2> HIDE DEF new
    <2>9. \A i \in 0 .. p - 1 : Takes(c[i], T, new[i], new[i + 1])
        <3> TAKE i \in 0 .. p - 1
        <3>1. i \in 0 .. k - 1 /\ i \in 0 .. p /\ i + 1 \in 0 .. p
            BY <1>0, <2>3
        <3> QED BY <1>1, <2>8, <3>1
    <2>10. new[p] = cur[p] /\ new[0] = l0
        <3>1. p \in 0 .. p /\ 0 \in 0 .. p
            BY <2>3
        <3> QED BY <1>1, <2>8, <3>1
    <2>11. Program(c, T, p, new, l)
        BY <1>3, <2>3, <2>5, <2>6, <2>8, <2>9, <2>10 DEF Program
    <2> QED BY <2>10, <2>11
<1> QED BY <1>2, <1>3

-----------------------------------------------------------------------------
(* One round of fillCmdQueue follows the script.                            *)

FlagsAgree(e) ==
    /\ ~e.addrCmdSent => e.cmdBytesNeeded = e.length
    /\ e.stopCmdSent => e.cmdBytesNeeded = 0

Tracks(n, d, B, T, l0) ==
    {x \in Filling(n) :
        /\ Continues(n, d, x.dq)
        /\ FlagsAgree(x.dq[x.qp])
        /\ HasChain(x.command, T, x.cmdIdx, l0, ListedOf(x.dq[x.qp], B[x.qp]))}

LEMMA ItemTyped ==
    ASSUME NEW e \in Item
    PROVE  /\ e.length \in Nat /\ e.addrReq \in Nat /\ e.cmdBytesNeeded \in Nat /\ e.position \in Nat
           /\ e.addrSent \in Nat /\ e.rw \in Nat /\ e.cmdBytesNeeded <= e.length
           /\ e.position <= e.length /\ e.addrSent <= e.addrReq /\ e.addrReq \in {1, 2}
           /\ e.mode \in {"READ", "WRITE"}
BY DEF Item

LEMMA ListedTyped ==
    ASSUME NEW e \in Item, NEW b \in Nat
    PROVE  ListedOf(e, b) \in Nat
BY DEF ListedOf, Item

\* a command for the entry, which takes the events up to its new state
LEMMA TracksCommand ==
    ASSUME NEW n \in Nat, NEW d \in [1 .. n -> Item], NEW B, NEW T, Script(n, d, B, T), NEW l0,
           NEW x \in Tracks(n, d, B, T, l0), x.cmdIdx <= Slots - 1,
           NEW u \in Filling(n), NEW cmd, NEW f \in Item, Lists(x, u, cmd, f),
           Alike(x.dq[x.qp], f), FlagsAgree(f),
           Takes(cmd, T, ListedOf(x.dq[x.qp], B[x.qp]), ListedOf(f, B[x.qp]))
    PROVE  u \in Tracks(n, d, B, T, l0)
<1> DEFINE l == ListedOf(x.dq[x.qp], B[x.qp])
           m == ListedOf(f, B[x.qp])
<1>1. /\ x \in Filling(n) /\ x.qp \in 1 .. n /\ x.dq \in [1 .. n -> Item] /\ x.command \in CommandList
      /\ x.cmdIdx \in 0 .. Slots - 1 /\ x.dq[x.qp] \in Item
    <2>1. x \in Filling(n)
        BY DEF Tracks
    <2>2. x.cmdIdx \in Nat /\ Slots \in Nat
        BY <2>1, CommandsAssumption DEF Filling
    <2> QED BY <2>1, <2>2 DEF Filling
<1>2. B[x.qp] \in Nat /\ Len(T) \in Nat
    BY <1>1, ScriptFits
<1>3. l \in Nat /\ HasChain(x.command, T, x.cmdIdx, l0, l) /\ Continues(n, d, x.dq)
    BY <1>1, <1>2, ListedTyped DEF Tracks
<1>4. /\ u.command = [x.command EXCEPT ![x.cmdIdx] = cmd] /\ u.cmdIdx = x.cmdIdx + 1
      /\ u.dq = [x.dq EXCEPT ![x.qp] = f] /\ u.qp = x.qp
    BY DEF Lists
<1>5. u.dq[u.qp] = f
    BY <1>1, <1>4
<1>6. HasChain(u.command, T, u.cmdIdx, l0, m)
    <2>1. Takes(cmd, T, l, m)
        OBVIOUS
    <2> HIDE DEF l, m
    <2> QED BY <1>1, <1>2, <1>3, <1>4, <2>1, ChainGrows
<1>7. Continues(n, d, u.dq)
    <2>1. Continues(n, d, [x.dq EXCEPT ![x.qp] = f])
        BY <1>1, <1>3, OneContinues
    <2> QED BY <1>4, <2>1
<1> QED BY <1>4, <1>5, <1>6, <1>7 DEF Tracks

\* what the commands of an entry take, from what is already listed of it
LEMMA EntryTakes ==
    ASSUME NEW n \in Nat, NEW d \in [1 .. n -> Item], NEW B, NEW T, Script(n, d, B, T),
           NEW q \in 1 .. n, NEW e \in Item, Alike(d[q], e), FlagsAgree(e)
    PROVE  /\ LET f == [e EXCEPT !.startCmdSent = TRUE]
              IN  ~e.startCmdSent =>
                      /\ Alike(e, f) /\ FlagsAgree(f)
                      /\ Takes(Cmd("RSTART", 0, FALSE), T, ListedOf(e, B[q]), ListedOf(f, B[q]))
           /\ LET f == [e EXCEPT !.addrCmdSent = TRUE]
              IN  e.startCmdSent /\ ~e.addrCmdSent =>
                      /\ Alike(e, f) /\ FlagsAgree(f)
                      /\ Takes(Cmd("WRITE", e.addrReq, FALSE), T, ListedOf(e, B[q]), ListedOf(f, B[q]))
           /\ \A k, num \in Nat :
                  LET f == [e EXCEPT !.cmdBytesNeeded = k]
                  IN  e.addrCmdSent /\ ~e.stopCmdSent /\ k + num = e.cmdBytesNeeded /\ k >= Kept(e) =>
                          /\ Alike(e, f) /\ FlagsAgree(f)
                          /\ Takes(Cmd(e.mode, num, FALSE), T, ListedOf(e, B[q]), ListedOf(f, B[q]))
           /\ LET f == [e EXCEPT !.cmdBytesNeeded = 0]
              IN  e.addrCmdSent /\ ~e.stopCmdSent /\ e.mode = "READ" /\ e.cmdBytesNeeded = 1 =>
                      /\ Alike(e, f) /\ FlagsAgree(f)
                      /\ Takes(Cmd("READ", 1, TRUE), T, ListedOf(e, B[q]), ListedOf(f, B[q]))
<1> DEFINE b == B[q]
           r == e.addrReq
           w == e.length
           c == e.cmdBytesNeeded
<1>1. /\ b \in Nat /\ r \in Nat /\ w \in Nat /\ c \in Nat /\ c <= w /\ e.mode \in {"READ", "WRITE"}
      /\ e.stop \in BOOLEAN
    <2>1. b \in Nat
        BY ScriptFits
    <2>2. /\ r \in Nat /\ w \in Nat /\ c \in Nat /\ c <= w /\ e.mode \in {"READ", "WRITE"}
          /\ e.stop \in BOOLEAN
        BY DEF Item
    <2> QED BY <2>1, <2>2
<1>2. d[q].mode = e.mode /\ d[q].length = w /\ d[q].addrReq = r /\ (d[q].stop <=> e.stop)
    BY DEF Alike
<1>3. /\ Takes(Cmd("RSTART", 0, FALSE), T, b, b + 1)
      /\ Takes(Cmd("WRITE", r, FALSE), T, b + 1, b + 1 + r)
      /\ \A i, num \in Nat :
             i + num <= w /\ (e.mode = "READ" => i + num < w) =>
                 Takes(Cmd(e.mode, num, FALSE), T, b + 1 + r + i, b + 1 + r + i + num)
      /\ e.mode = "READ" /\ w > 0 =>
             Takes(Cmd("READ", 1, TRUE), T, b + 1 + r + w - 1, b + 1 + r + w)
      /\ e.stop => Takes(Cmd("STOP", 0, FALSE), T, b + 1 + r + w, b + 2 + r + w)
    BY <1>2, TakesEntry
<1>5. ASSUME ~e.startCmdSent
      PROVE  LET f == [e EXCEPT !.startCmdSent = TRUE]
             IN  /\ Alike(e, f) /\ FlagsAgree(f)
                 /\ Takes(Cmd("RSTART", 0, FALSE), T, ListedOf(e, b), ListedOf(f, b))
    <2> DEFINE f == [e EXCEPT !.startCmdSent = TRUE]
    <2>1. /\ ~e.addrCmdSent /\ ~e.stopCmdSent /\ c = w
          /\ f.startCmdSent /\ ~f.addrCmdSent /\ ~f.stopCmdSent
          /\ f.cmdBytesNeeded = f.length /\ Alike(e, f)
        BY <1>5 DEF Item, FlagsAgree, Alike
    <2> HIDE DEF f
    <2>2. ListedOf(e, b) = b /\ ListedOf(f, b) = b + 1 /\ FlagsAgree(f)
        BY <1>5, <2>1 DEF ListedOf, FlagsAgree
    <2> HIDE DEF b
    <2> QED BY <1>3, <1>5, <2>1, <2>2 DEF b, f
<1>6. ASSUME e.startCmdSent, ~e.addrCmdSent
      PROVE  LET f == [e EXCEPT !.addrCmdSent = TRUE]
             IN  /\ Alike(e, f) /\ FlagsAgree(f)
                 /\ Takes(Cmd("WRITE", r, FALSE), T, ListedOf(e, b), ListedOf(f, b))
    <2> DEFINE f == [e EXCEPT !.addrCmdSent = TRUE]
    <2>1. /\ ~e.stopCmdSent /\ c = w
          /\ f.startCmdSent /\ f.addrCmdSent /\ ~f.stopCmdSent
          /\ f.cmdBytesNeeded = w /\ f.length = w /\ f.addrReq = r /\ Alike(e, f)
        BY <1>6 DEF Item, FlagsAgree, Alike
    <2> HIDE DEF f
    <2>2. ListedOf(e, b) = b + 1 /\ FlagsAgree(f)
        BY <1>6, <2>1 DEF ListedOf, FlagsAgree
    <2>3. ListedOf(f, b) = b + 1 + r
        <3>1. ListedOf(f, b) = b + 1 + r + (w - w) + 0
            BY <2>1 DEF ListedOf
        <3> HIDE DEF b, r, w
        <3> QED BY <1>1, <3>1
    <2> HIDE DEF b, r
    <2>4. Takes(Cmd("WRITE", r, FALSE), T, ListedOf(e, b), ListedOf(f, b))
        BY <1>3, <2>2, <2>3
    <2> QED BY <1>6, <2>1, <2>2, <2>4 DEF b, r, f
<1>7. ASSUME e.addrCmdSent, ~e.stopCmdSent
      PROVE  /\ \A k, num \in Nat :
                    LET f == [e EXCEPT !.cmdBytesNeeded = k]
                    IN  k + num = c /\ k >= Kept(e) =>
                            /\ Alike(e, f) /\ FlagsAgree(f)
                            /\ Takes(Cmd(e.mode, num, FALSE), T, ListedOf(e, b), ListedOf(f, b))
             /\ LET f == [e EXCEPT !.cmdBytesNeeded = 0]
                IN  e.mode = "READ" /\ c = 1 =>
                        /\ Alike(e, f) /\ FlagsAgree(f)
                        /\ Takes(Cmd("READ", 1, TRUE), T, ListedOf(e, b), ListedOf(f, b))
    <2>1. e.startCmdSent /\ ListedOf(e, b) = b + 1 + r + (w - c)
        <3>1. e.startCmdSent /\ ListedOf(e, b) = b + 1 + r + (w - c) + 0
            BY <1>7 DEF ListedOf, Item
        <3> HIDE DEF b, r, w, c
        <3> QED BY <1>1, <3>1
    <2>2. ASSUME NEW k \in Nat, k <= w
          PROVE  LET f == [e EXCEPT !.cmdBytesNeeded = k]
                 IN  Alike(e, f) /\ FlagsAgree(f) /\ ListedOf(f, b) = b + 1 + r + (w - k)
        <3> DEFINE f == [e EXCEPT !.cmdBytesNeeded = k]
        <3>1. /\ f.startCmdSent /\ f.addrCmdSent /\ ~f.stopCmdSent
              /\ f.cmdBytesNeeded = k /\ f.length = w /\ f.addrReq = r /\ Alike(e, f)
            BY <1>7, <2>1 DEF Item, Alike
        <3> HIDE DEF f
        <3>2. ListedOf(f, b) = b + 1 + r + (w - k) + 0 /\ FlagsAgree(f)
            BY <3>1 DEF ListedOf, FlagsAgree
        <3>3. ListedOf(f, b) = b + 1 + r + (w - k)
            <4> HIDE DEF b, r, w
            <4> QED BY <1>1, <2>2, <3>2
        <3> QED BY <3>1, <3>2, <3>3 DEF f
    <2>3. ASSUME NEW k \in Nat, NEW num \in Nat, k + num = c, k >= Kept(e)
          PROVE  LET f == [e EXCEPT !.cmdBytesNeeded = k]
                 IN  /\ Alike(e, f) /\ FlagsAgree(f)
                     /\ Takes(Cmd(e.mode, num, FALSE), T, ListedOf(e, b), ListedOf(f, b))
        <3> DEFINE f == [e EXCEPT !.cmdBytesNeeded = k]
                   i == w - c
        <3>1. k <= w /\ i \in Nat /\ i + num <= w /\ (e.mode = "READ" => i + num < w)
              /\ b + 1 + r + (w - k) = b + 1 + r + i + num /\ b + 1 + r + (w - c) = b + 1 + r + i
            <4>1. e.mode = "READ" => k >= 1
                BY <2>3 DEF Kept
            <4> HIDE DEF b, r, w, c
            <4> QED BY <1>1, <2>3, <4>1
        <3>2. Alike(e, f) /\ FlagsAgree(f) /\ ListedOf(f, b) = b + 1 + r + i + num
            BY <2>2, <3>1
        <3> HIDE DEF f, i, b, r, w, c
        <3>3. Takes(Cmd(e.mode, num, FALSE), T, b + 1 + r + i, b + 1 + r + i + num)
            BY <1>3, <3>1
        <3>4. ListedOf(e, b) = b + 1 + r + i
            BY <2>1, <3>1
        <3>5. Takes(Cmd(e.mode, num, FALSE), T, ListedOf(e, b), ListedOf(f, b))
            BY <3>2, <3>3, <3>4
        <3> QED BY <3>2, <3>5 DEF f
    <2>4. ASSUME e.mode = "READ", c = 1
          PROVE  LET f == [e EXCEPT !.cmdBytesNeeded = 0]
                 IN  /\ Alike(e, f) /\ FlagsAgree(f)
                     /\ Takes(Cmd("READ", 1, TRUE), T, ListedOf(e, b), ListedOf(f, b))
        <3> DEFINE f == [e EXCEPT !.cmdBytesNeeded = 0]
        <3>1. 0 \in Nat /\ 0 <= w /\ w > 0
              /\ b + 1 + r + (w - 0) = b + 1 + r + w /\ b + 1 + r + (w - c) = b + 1 + r + w - 1
            <4> HIDE DEF b, r, w, c
            <4> QED BY <1>1, <2>4
        <3>2. Alike(e, f) /\ FlagsAgree(f) /\ ListedOf(f, b) = b + 1 + r + w
            BY <2>2, <3>1
        <3> HIDE DEF f, b, r, w, c
        <3>3. Takes(Cmd("READ", 1, TRUE), T, b + 1 + r + w - 1, b + 1 + r + w)
            BY <1>3, <2>4, <3>1
        <3>4. ListedOf(e, b) = b + 1 + r + w - 1
            BY <2>1, <3>1
        <3>5. Takes(Cmd("READ", 1, TRUE), T, ListedOf(e, b), ListedOf(f, b))
            BY <3>2, <3>3, <3>4
        <3> QED BY <3>2, <3>5 DEF f
    <2> QED BY <2>3, <2>4
<1> QED BY <1>5, <1>6, <1>7

\* its STOP, if it has one, is the last
LEMMA StopTakes ==
    ASSUME NEW n \in Nat, NEW d \in [1 .. n -> Item], NEW B, NEW T, Script(n, d, B, T),
           NEW q \in 1 .. n, NEW e \in Item, Alike(d[q], e),
           e.addrCmdSent, ~e.stopCmdSent, e.cmdBytesNeeded = 0
    PROVE  LET f == [e EXCEPT !.stopCmdSent = TRUE]
           IN  /\ Alike(e, f) /\ FlagsAgree(f)
               /\ e.stop => Takes(Cmd("STOP", 0, FALSE), T, ListedOf(e, B[q]), ListedOf(f, B[q]))
<1> DEFINE b == B[q]
           r == e.addrReq
           w == e.length
           f == [e EXCEPT !.stopCmdSent = TRUE]
<1>1. b \in Nat /\ r \in Nat /\ w \in Nat /\ e.stop \in BOOLEAN /\ e.startCmdSent
    <2>1. b \in Nat
        BY ScriptFits
    <2>2. r \in Nat /\ w \in Nat /\ e.stop \in BOOLEAN
        <3>1. e \in Item
            OBVIOUS
        <3> QED BY ONLY <3>1 DEF Item
    <2>3. e.startCmdSent
        BY DEF Item
    <2> QED BY <2>1, <2>2, <2>3
<1>2. d[q].length = w /\ d[q].addrReq = r /\ (d[q].stop <=> e.stop)
    BY DEF Alike
<1>3. e.stop => Takes(Cmd("STOP", 0, FALSE), T, b + 1 + r + w, b + 2 + r + w)
    BY <1>2, TakesEntry
<1>4. /\ f.startCmdSent /\ f.addrCmdSent /\ f.stopCmdSent /\ f.stop = e.stop
      /\ f.cmdBytesNeeded = 0 /\ f.length = w /\ f.addrReq = r /\ Alike(e, f)
    BY <1>1 DEF Item, Alike
<1> HIDE DEF f
<1>5. /\ ListedOf(e, b) = b + 1 + r + (w - 0) + 0
      /\ ListedOf(f, b) = b + 1 + r + (w - 0) + (IF e.stop THEN 1 ELSE 0)
      /\ FlagsAgree(f)
    BY <1>1, <1>4 DEF ListedOf, FlagsAgree
<1> HIDE DEF b, r, w
<1>6. CASE e.stop
    <2>1. ListedOf(e, b) = b + 1 + r + w /\ ListedOf(f, b) = b + 2 + r + w
        BY <1>1, <1>5, <1>6
    <2>2. Takes(Cmd("STOP", 0, FALSE), T, ListedOf(e, b), ListedOf(f, b))
        BY <1>3, <1>6, <2>1
    <2> QED BY <1>4, <1>5, <1>6, <2>2 DEF f, b
<1>7. CASE ~e.stop
    BY <1>4, <1>5, <1>7 DEF f, b
<1> QED BY <1>1, <1>6, <1>7

\* without a STOP it is all listed when its data is
LEMMA NoStopTakes ==
    ASSUME NEW e \in Item, NEW b \in Nat, ~e.stop, e.addrCmdSent, e.cmdBytesNeeded = 0
    PROVE  ListedOf([e EXCEPT !.stopCmdSent = TRUE], b) = ListedOf(e, b)
<1> DEFINE f == [e EXCEPT !.stopCmdSent = TRUE]
<1>1. /\ f.startCmdSent = e.startCmdSent /\ f.addrCmdSent = e.addrCmdSent /\ f.stop = e.stop
      /\ f.cmdBytesNeeded = e.cmdBytesNeeded /\ f.length = e.length /\ f.addrReq = e.addrReq
    BY DEF Item
<1> HIDE DEF f
<1>2. ListedOf(f, b) = ListedOf(e, b)
    BY <1>1 DEF ListedOf
<1> QED BY <1>2 DEF f

LEMMA TracksTyped ==
    ASSUME NEW n \in Nat, NEW d \in [1 .. n -> Item], NEW B, NEW T, Script(n, d, B, T), NEW l0,
           NEW x \in Tracks(n, d, B, T, l0)
    PROVE  /\ x \in Filling(n) /\ x.qp \in 1 .. n /\ x.dq[x.qp] \in Item
           /\ Alike(d[x.qp], x.dq[x.qp]) /\ FlagsAgree(x.dq[x.qp])
           /\ x.cmdIdx \in Nat /\ x.command \in CommandList
           /\ ListedOf(x.dq[x.qp], B[x.qp]) \in Nat
<1>1. x \in Filling(n) /\ Continues(n, d, x.dq) /\ FlagsAgree(x.dq[x.qp])
    BY DEF Tracks
<1>2. x.qp \in 1 .. n /\ x.dq[x.qp] \in Item /\ x.cmdIdx \in Nat /\ x.command \in CommandList
    BY <1>1 DEF Filling
<1>3. Alike(d[x.qp], x.dq[x.qp])
    BY <1>1, <1>2 DEF Continues
<1>4. B[x.qp] \in Nat
    BY <1>2, ScriptFits
<1> QED BY <1>1, <1>2, <1>3, <1>4, ListedTyped

LEMMA StartTracks ==
    ASSUME NEW n \in Nat, NEW d \in [1 .. n -> Item], NEW B, NEW T, Script(n, d, B, T), NEW l0,
           NEW s \in Tracks(n, d, B, T, l0), Begins(n, s)
    PROVE  AddAddress(AddStart(s)) \in Tracks(n, d, B, T, l0)
<1> DEFINE x == AddStart(s)
           e == s.dq[s.qp]
           f == [e EXCEPT !.startCmdSent = TRUE]
           start == Cmd("RSTART", 0, FALSE)
<1>0. Slots \in Nat
    BY CommandsAssumption
<1>1. /\ s \in Filling(n) /\ s.qp \in 1 .. n /\ e \in Item /\ Alike(d[s.qp], e) /\ FlagsAgree(e)
      /\ s.cmdIdx \in Nat
    BY TracksTyped
<1>2. /\ x \in Filling(n)
      /\ IF ~e.startCmdSent /\ s.cmdIdx < Slots - 2 THEN f \in Item /\ Lists(s, x, start, f) ELSE x = s
    BY <1>1, AddStartDoes
<1>3. x \in Tracks(n, d, B, T, l0)
    <2>1. CASE ~(~e.startCmdSent /\ s.cmdIdx < Slots - 2)
        BY <1>2, <2>1
    <2>2. CASE ~e.startCmdSent /\ s.cmdIdx < Slots - 2
        <3>1. Alike(e, f) /\ FlagsAgree(f) /\ Takes(start, T, ListedOf(e, B[s.qp]), ListedOf(f, B[s.qp]))
            <4> HIDE DEF e
            <4> QED BY <1>1, <2>2, EntryTakes
        <3>2. s.cmdIdx <= Slots - 1
            BY <1>0, <1>1, <2>2
        <3> HIDE DEF x, f, start
        <3> QED BY <1>2, <2>2, <3>1, <3>2, TracksCommand
    <2> QED BY <2>1, <2>2
<1>4. x.dq[x.qp].startCmdSent /\ ~x.dq[x.qp].addrCmdSent => x.cmdIdx <= Slots - 1
    <2>1. CASE ~(~e.startCmdSent /\ s.cmdIdx < Slots - 2)
        <3>1. e.startCmdSent => e.addrCmdSent
            BY DEF Begins
        <3> QED BY <1>2, <2>1, <3>1
    <2>2. CASE ~e.startCmdSent /\ s.cmdIdx < Slots - 2
        <3>1. x.cmdIdx = s.cmdIdx + 1
            <4> HIDE DEF x, f, start
            <4> QED BY <1>2, <2>2 DEF Lists
        <3> QED BY <1>0, <1>1, <2>2, <3>1
    <2> QED BY <2>1, <2>2
<1> HIDE DEF x
<1> DEFINE y == AddAddress(x)
           g == x.dq[x.qp]
           h == [g EXCEPT !.addrCmdSent = TRUE]
           addr == Cmd("WRITE", g.addrReq, FALSE)
<1>5. /\ x \in Filling(n) /\ x.qp \in 1 .. n /\ g \in Item /\ Alike(d[x.qp], g) /\ FlagsAgree(g)
    BY <1>3, TracksTyped
<1>6. /\ y \in Filling(n)
      /\ IF g.startCmdSent /\ ~g.addrCmdSent THEN h \in Item /\ Lists(x, y, addr, h) ELSE y = x
    BY <1>5, AddAddressDoes
<1>7. y \in Tracks(n, d, B, T, l0)
    <2>1. CASE ~(g.startCmdSent /\ ~g.addrCmdSent)
        BY <1>3, <1>6, <2>1
    <2>2. CASE g.startCmdSent /\ ~g.addrCmdSent
        <3>1. Alike(g, h) /\ FlagsAgree(h) /\ Takes(addr, T, ListedOf(g, B[x.qp]), ListedOf(h, B[x.qp]))
            <4> HIDE DEF g
            <4> QED BY <1>5, <2>2, EntryTakes
        <3>2. x.cmdIdx <= Slots - 1
            BY <1>4, <2>2
        <3> HIDE DEF y, h, addr
        <3> QED BY <1>3, <1>6, <2>2, <3>1, <3>2, TracksCommand
    <2> QED BY <2>1, <2>2
<1> QED BY <1>7 DEF x, y

\* a round that has its address has room for a command
LEMMA GoingTyped ==
    ASSUME NEW n \in Nat, NEW s, NEW x \in Going(n, s)
    PROVE  /\ x \in Filling(n) /\ x.qp = s.qp /\ x.cmdIdx <= Slots - 1
           /\ x.dq[x.qp].addrCmdSent /\ ~x.dq[x.qp].stopCmdSent
<1>1. x \in Filling(n) /\ x.qp = s.qp /\ x.cmdIdx < Slots /\ x.dq[s.qp].addrCmdSent /\ ~x.dq[s.qp].stopCmdSent
    BY DEF Going, Open, Round
<1>2. x.cmdIdx \in Nat /\ Slots \in Nat
    BY <1>1, CommandsAssumption DEF Filling
<1> QED BY <1>1, <1>2

LEMMA BlockTracks ==
    ASSUME NEW n \in Nat, NEW d \in [1 .. n -> Item], NEW B, NEW T, Script(n, d, B, T), NEW l0,
           NEW s, NEW x \in Going(n, s), x \in Tracks(n, d, B, T, l0)
    PROVE  AddBlock(x) \in Tracks(n, d, B, T, l0)
<1> DEFINE u == AddBlock(x)
           e == x.dq[x.qp]
<1>1. /\ x \in Filling(n) /\ x.qp \in 1 .. n /\ e \in Item /\ Alike(d[x.qp], e) /\ FlagsAgree(e)
      /\ x.cmdIdx <= Slots - 1 /\ e.addrCmdSent /\ ~e.stopCmdSent
    BY TracksTyped, GoingTyped
<1>2. CASE ~(~x.done /\ e.cmdBytesNeeded > Kept(e))
    BY <1>1, <1>2, AddBlockDoes
<1>3. CASE ~x.done /\ e.cmdBytesNeeded > Kept(e)
    <2>1. PICK k \in Nat, num \in Nat :
              /\ k + num = e.cmdBytesNeeded /\ k >= Kept(e) /\ u \in Filling(n)
              /\ [e EXCEPT !.cmdBytesNeeded = k] \in Item
              /\ Lists(x, u, Cmd(e.mode, num, FALSE), [e EXCEPT !.cmdBytesNeeded = k])
        BY <1>1, <1>3, AddBlockDoes
    <2> DEFINE f == [e EXCEPT !.cmdBytesNeeded = k]
               cmd == Cmd(e.mode, num, FALSE)
    <2>2. Alike(e, f) /\ FlagsAgree(f) /\ Takes(cmd, T, ListedOf(e, B[x.qp]), ListedOf(f, B[x.qp]))
        <3> HIDE DEF e
        <3> QED BY <1>1, <2>1, EntryTakes
    <2>3. f \in Item /\ Lists(x, u, cmd, f)
        BY <2>1
    <2>4. u \in Tracks(n, d, B, T, l0)
        <3> HIDE DEF u, f, cmd
        <3> QED BY <1>1, <2>1, <2>2, <2>3, TracksCommand
    <2> QED BY <2>4
<1> QED BY <1>2, <1>3

LEMMA BlocksTrack ==
    ASSUME NEW n \in Nat, NEW d \in [1 .. n -> Item], NEW B, NEW T, Script(n, d, B, T), NEW l0,
           NEW s, NEW x \in Going(n, s), x \in Tracks(n, d, B, T, l0)
    PROVE  AddBlocks(x) \in Tracks(n, d, B, T, l0)
<1> DEFINE S == Going(n, s) \cap Tracks(n, d, B, T, l0)
<1>1. \A y \in S : AddBlock(y) \in S
    BY RoundBlock, BlockTracks
<1>2. x \in S
    OBVIOUS
<1> HIDE DEF S
<1>3. PICK f \in [0 .. Slots -> S] : AddBlocks(x) = f[Slots]
    BY <1>1, <1>2, AddBlocksRounds
<1>4. Slots \in 0 .. Slots
    BY CommandsAssumption
<1> QED BY <1>3, <1>4 DEF S

LEMMA LastReadTracks ==
    ASSUME NEW n \in Nat, NEW d \in [1 .. n -> Item], NEW B, NEW T, Script(n, d, B, T), NEW l0,
           NEW s, NEW x \in Going(n, s), x \in Tracks(n, d, B, T, l0)
    PROVE  AddLastRead(x) \in Tracks(n, d, B, T, l0)
<1> DEFINE u == AddLastRead(x)
           e == x.dq[x.qp]
           f == [e EXCEPT !.cmdBytesNeeded = 0]
           cmd == Cmd("READ", 1, TRUE)
<1>1. /\ x \in Filling(n) /\ x.qp \in 1 .. n /\ e \in Item /\ Alike(d[x.qp], e) /\ FlagsAgree(e)
      /\ x.cmdIdx <= Slots - 1 /\ e.addrCmdSent /\ ~e.stopCmdSent
    BY TracksTyped, GoingTyped
<1>2. CASE ~(~x.done /\ e.mode = "READ" /\ e.cmdBytesNeeded = 1)
    BY <1>1, <1>2, AddLastReadDoes
<1>3. CASE ~x.done /\ e.mode = "READ" /\ e.cmdBytesNeeded = 1
    <2>1. u \in Filling(n) /\ f \in Item /\ Lists(x, u, cmd, f)
        BY <1>1, <1>3, AddLastReadDoes
    <2>2. Alike(e, f) /\ FlagsAgree(f) /\ Takes(cmd, T, ListedOf(e, B[x.qp]), ListedOf(f, B[x.qp]))
        <3> HIDE DEF e
        <3> QED BY <1>1, <1>3, EntryTakes
    <2>3. u \in Tracks(n, d, B, T, l0)
        <3> HIDE DEF u, f, cmd
        <3> QED BY <1>1, <2>1, <2>2, TracksCommand
    <2> QED BY <2>3
<1> QED BY <1>2, <1>3

LEMMA StopTracks ==
    ASSUME NEW n \in Nat, NEW d \in [1 .. n -> Item], NEW B, NEW T, Script(n, d, B, T), NEW l0,
           NEW s, NEW x \in Going(n, s), x \in Tracks(n, d, B, T, l0)
    PROVE  AddStop(x) \in Tracks(n, d, B, T, l0)
<1> DEFINE u == AddStop(x)
           e == x.dq[x.qp]
           f == [e EXCEPT !.stopCmdSent = TRUE]
           cmd == Cmd("STOP", 0, FALSE)
<1>1. /\ x \in Filling(n) /\ x.qp \in 1 .. n /\ e \in Item /\ Alike(d[x.qp], e) /\ FlagsAgree(e)
      /\ x.cmdIdx <= Slots - 1 /\ e.addrCmdSent /\ ~e.stopCmdSent
    BY TracksTyped, GoingTyped
<1>2. CASE ~(~x.done /\ e.cmdBytesNeeded = 0)
    BY <1>1, <1>2, AddStopDoes
<1>3. CASE ~x.done /\ e.cmdBytesNeeded = 0
    <2>1. /\ u \in Filling(n) /\ f \in Item
          /\ IF e.stop THEN Lists(x, u, cmd, f)
             ELSE /\ u.dq = [x.dq EXCEPT ![x.qp] = f] /\ u.qp = x.qp
                  /\ u.command = x.command /\ u.cmdIdx = x.cmdIdx
        BY <1>1, <1>3, AddStopDoes
    <2>2. /\ Alike(e, f) /\ FlagsAgree(f)
          /\ e.stop => Takes(cmd, T, ListedOf(e, B[x.qp]), ListedOf(f, B[x.qp]))
          /\ ~e.stop => ListedOf(f, B[x.qp]) = ListedOf(e, B[x.qp])
        <3>1. B[x.qp] \in Nat
            BY <1>1, ScriptFits
        <3> HIDE DEF e
        <3>2. /\ Alike(e, f) /\ FlagsAgree(f)
              /\ e.stop => Takes(cmd, T, ListedOf(e, B[x.qp]), ListedOf(f, B[x.qp]))
            BY <1>1, <1>3, StopTakes
        <3>3. ~e.stop => ListedOf(f, B[x.qp]) = ListedOf(e, B[x.qp])
            BY <1>1, <1>3, <3>1, NoStopTakes
        <3> QED BY <3>2, <3>3
    <2>3. CASE e.stop
        <3>1. Lists(x, u, cmd, f) /\ Takes(cmd, T, ListedOf(e, B[x.qp]), ListedOf(f, B[x.qp]))
            BY <2>1, <2>2, <2>3
        <3>2. u \in Tracks(n, d, B, T, l0)
            <4> HIDE DEF u, f, cmd
            <4> QED BY <1>1, <2>1, <2>2, <3>1, TracksCommand
        <3> QED BY <3>2
    <2>4. CASE ~e.stop
        <3>1. /\ u.dq = [x.dq EXCEPT ![x.qp] = f] /\ u.qp = x.qp
              /\ u.command = x.command /\ u.cmdIdx = x.cmdIdx
            BY <2>1, <2>4
        <3>2. x.dq \in [1 .. n -> Item] /\ Continues(n, d, x.dq)
            BY <1>1 DEF Filling, Tracks
        <3>3. u.dq[u.qp] = f
            <4> HIDE DEF u, f
            <4> QED BY <1>1, <3>1, <3>2
        <3>4. Continues(n, d, u.dq)
            <4> HIDE DEF f
            <4>1. Continues(n, d, [x.dq EXCEPT ![x.qp] = f])
                BY <1>1, <2>2, <3>2, OneContinues
            <4> QED BY <3>1, <4>1
        <3>5. HasChain(u.command, T, u.cmdIdx, l0, ListedOf(f, B[x.qp]))
            <4>1. HasChain(x.command, T, x.cmdIdx, l0, ListedOf(e, B[x.qp]))
                BY DEF Tracks
            <4> QED BY <2>2, <2>4, <3>1, <4>1
        <3>6. u \in Tracks(n, d, B, T, l0)
            <4> HIDE DEF u, f
            <4> QED BY <2>1, <2>2, <3>1, <3>3, <3>4, <3>5 DEF Tracks
        <3> QED BY <3>6
    <2> QED BY <2>3, <2>4
<1> QED BY <1>2, <1>3

LEMMA DataTracks ==
    ASSUME NEW n \in Nat, NEW d \in [1 .. n -> Item], NEW B, NEW T, Script(n, d, B, T), NEW l0,
           NEW s, NEW x \in Open(n, s), x \in Tracks(n, d, B, T, l0)
    PROVE  AddData(x) \in Tracks(n, d, B, T, l0)
<1>1. x.qp = s.qp
    BY DEF Open, Round
<1>2. CASE ~(~x.done /\ x.dq[x.qp].addrCmdSent)
    BY <1>2 DEF AddData
<1>3. CASE ~x.done /\ x.dq[x.qp].addrCmdSent
    <2>1. x \in Going(n, s)
        BY <1>1, <1>3 DEF Going
    <2>2. AddBlocks(x) \in Tracks(n, d, B, T, l0)
        BY <2>1, BlocksTrack
    <2> DEFINE y == AddBlocks(x)
    <2>3. y \in Going(n, s) /\ (y.done \/ y.dq[s.qp].cmdBytesNeeded <= Kept(y.dq[s.qp]))
        BY <2>1, RoundBlocks
    <2> DEFINE z == AddLastRead(y)
    <2>4. z \in Going(n, s) /\ z \in Tracks(n, d, B, T, l0)
        <3> HIDE DEF y
        <3>1. z \in Going(n, s)
            BY <2>3, RoundLastRead
        <3> QED BY <2>2, <2>3, <3>1, LastReadTracks DEF y
    <2>5. AddStop(z) \in Tracks(n, d, B, T, l0)
        <3> HIDE DEF z
        <3> QED BY <2>4, StopTracks
    <2> QED BY <1>3, <2>5 DEF AddData
<1> QED BY <1>2, <1>3

LEMMA StretchTracks ==
    ASSUME NEW n \in Nat, NEW d \in [1 .. n -> Item], NEW B, NEW T, Script(n, d, B, T), NEW l0,
           \A i \in 1 .. Len(T) : T[i].ev = "STOP" => i = Len(T), Len(T) \in Nat,
           NEW s, NEW x \in Waiting(n, s), x \in Tracks(n, d, B, T, l0)
    PROVE  Stretch(x) \in Tracks(n, d, B, T, l0)
<1> DEFINE c == x.command
           l == ListedOf(x.dq[x.qp], B[x.qp])
<1>1. /\ x \in Filling(n) /\ c \in CommandList /\ l \in Nat /\ x.qp = s.qp
      /\ ~x.dq[x.qp].startCmdSent /\ x.cmdIdx = Slots - 2 /\ StartsWrite(c, Slots - 2)
      /\ HasChain(c, T, Slots - 2, l0, l) /\ Continues(n, d, x.dq) /\ FlagsAgree(x.dq[x.qp])
    BY TracksTyped DEF Waiting, Round, Tracks
<1>2. PICK at \in 0 .. Slots - 3 :
          /\ at # 0 => c[at].op \in {"READ", "WRITE"}
          /\ \A j \in 1 .. Slots - 3 : c[j].op \in {"READ", "WRITE"} => j <= at
          /\ Stretch(x) =
               IF x.cmdIdx = Slots - 2 /\ ~x.dq[x.qp].startCmdSent
               THEN [x EXCEPT !.done = TRUE, !.cmdIdx = Slots - 1,
                              !.command = [i \in 0 .. Slots - 1 |->
                                  IF i = at THEN [c[at] EXCEPT !.num = 0]
                                  ELSE IF i \in at + 1 .. Slots - 2 THEN c[i - 1]
                                  ELSE c[i]]]
               ELSE x
    BY <1>1, Stretched
<1>3. c[at].op \in {"READ", "WRITE"}
    <2>1. CASE at # 0
        BY <1>2, <2>1
    <2>2. CASE at = 0
        <3>1. \A j \in 1 .. Slots - 3 : c[j].op \notin {"READ", "WRITE"}
            BY <1>2, <2>2
        <3> HIDE DEF c, l
        <3> QED BY <1>1, <2>2, <3>1, FirstMoves
    <2> QED BY <2>1, <2>2
<1> DEFINE new == [i \in 0 .. Slots - 1 |->
                       IF i = at THEN [c[at] EXCEPT !.num = 0]
                       ELSE IF i \in at + 1 .. Slots - 2 THEN c[i - 1]
                       ELSE c[i]]
<1>4. HasChain(new, T, Slots - 1, l0, l)
    <2> HIDE DEF c, l
    <2> QED BY <1>1, <1>3, ChainStretches
<1>5. Stretch(x) \in Filling(n)
    BY <1>1, StretchTyped
<1>6. Stretch(x) = [x EXCEPT !.done = TRUE, !.cmdIdx = Slots - 1, !.command = new]
    BY <1>1, <1>2
<1> HIDE DEF new, c
<1>7. /\ Stretch(x).dq = x.dq /\ Stretch(x).qp = x.qp /\ Stretch(x).cmdIdx = Slots - 1
      /\ Stretch(x).command = new
    BY <1>1, <1>6 DEF Filling
<1> QED BY <1>1, <1>4, <1>5, <1>7 DEF Tracks

-----------------------------------------------------------------------------
(* One pass of fillCmdQueue follows the script.                             *)

LEMMA RoundFrontier ==
    ASSUME NEW n \in Nat, NEW d \in [1 .. n -> Item], NEW B, NEW T, Script(n, d, B, T), NEW l0,
           NEW s, s.qp \in 1 .. n, Frontier(n, s.dq, s.qp),
           NEW x \in Round(n, s), x \in Tracks(n, d, B, T, l0)
    PROVE  Frontier(n, x.dq, s.qp)
<1> DEFINE e == x.dq[s.qp]
<1>1. x.qp = s.qp /\ e \in Item /\ FlagsAgree(e) /\ (e.startCmdSent => e.addrCmdSent)
    BY TracksTyped DEF Round
<1>2. \A r \in 1 .. n : r # s.qp => x.dq[r] = s.dq[r]
    BY DEF Round
<1>3. ~e.startCmdSent => Unlisted(e)
    BY <1>1 DEF Unlisted, FlagsAgree, Item
<1>4. /\ \A r \in 1 .. n : r < s.qp => x.dq[r].stopCmdSent
      /\ \A r \in 1 .. n : s.qp < r => Unlisted(x.dq[r])
    BY <1>2 DEF Frontier
<1> HIDE DEF e
<1> QED BY <1>1, <1>3, <1>4 DEF Frontier, FlagsAgree, e

LEMMA EndTracks ==
    ASSUME NEW n \in Nat, NEW d \in [1 .. n -> Item], NEW B, NEW T, Script(n, d, B, T), NEW l0,
           NEW x \in Tracks(n, d, B, T, l0), x.cmdIdx = Slots - 1
    PROVE  LET u == AddEnd(x)
           IN  /\ u.dq = x.dq /\ u.qp = x.qp /\ u.done /\ u.command[Slots - 1].op = "END"
               /\ HasChain(u.command, T, Slots - 1, l0, ListedOf(x.dq[x.qp], B[x.qp]))
<1> DEFINE u == AddEnd(x)
           cmd == Cmd("END", 0, FALSE)
           t == SetCmd(x, cmd)
           l == ListedOf(x.dq[x.qp], B[x.qp])
<1>1. /\ x \in Filling(n) /\ x.command \in CommandList /\ Slots - 1 \in 0 .. Slots - 1
      /\ Slots - 1 \in Nat
    BY TracksTyped, CommandsAssumption
<1>2. cmd \in Command /\ cmd.op = "END"
    BY DEF Cmd, Command
<1>3. /\ t \in Filling(n) /\ t.dq = x.dq /\ t.qp = x.qp
      /\ t.command = [x.command EXCEPT ![x.cmdIdx] = cmd]
    <2> HIDE DEF cmd
    <2> QED BY <1>1, <1>2, SetCmdTyped
<1>4. u = [t EXCEPT !.done = TRUE, !.ena = @ \cup {"end_detect"}]
    BY <1>1 DEF AddEnd
<1>5. /\ u.dq = x.dq /\ u.qp = x.qp /\ u.done = TRUE
      /\ u.command = [x.command EXCEPT ![Slots - 1] = cmd]
    <2> HIDE DEF t, u, cmd
    <2> QED BY <1>3, <1>4 DEF Filling
<1>6. HasChain(x.command, T, Slots - 1, l0, l)
    BY DEF Tracks
<1> HIDE DEF u, cmd, l
<1>7. u.command[Slots - 1] = cmd /\ \A i \in 0 .. (Slots - 1) - 1 : u.command[i] = x.command[i]
    BY <1>1, <1>5 DEF CommandList
<1>8. HasChain(u.command, T, Slots - 1, l0, l)
    BY <1>1, <1>6, <1>7, ChainKept
<1> QED BY <1>2, <1>5, <1>7, <1>8 DEF u, l

\* where the pass has come to
Reached(n, B, T, l0, s) ==
    \E g \in 1 .. n, k \in 0 .. Slots - 1 :
        /\ Frontier(n, s.dq, g)
        /\ HasChain(s.command, T, k, l0, ListedOf(s.dq[g], B[g]))
        /\ ListedOf(s.dq[g], B[g]) = Len(T) \/ s.command[k].op = "END"

\* entry q, the first that is added, gets its START
Following(n, d, B, T, l0, p, q) ==
    {s \in Passing(n, p) :
        /\ Continues(n, d, s.dq)
        /\ s.dq[q].startCmdSent \/ (~s.done /\ s.qp = q /\ s.cmdIdx = 0)
        /\ IF s.done THEN Reached(n, B, T, l0, s)
           ELSE Frontier(n, s.dq, s.qp) /\ s \in Tracks(n, d, B, T, l0)}

LEMMA FirstStarts ==
    ASSUME NEW n \in Nat, NEW s \in Filling(n), ~s.done, s.cmdIdx = 0
    PROVE  FillEntry(s).dq[s.qp].startCmdSent
<1> DEFINE t == AddStart(s)
           e == s.dq[s.qp]
           f == [e EXCEPT !.startCmdSent = TRUE]
<1>1. t \in Filling(n) /\ t.done = s.done /\ t.qp = s.qp /\ t.dq[t.qp].startCmdSent
    <2>1. /\ t \in Filling(n) /\ t.done = s.done
          /\ IF ~e.startCmdSent /\ s.cmdIdx < Slots - 2
             THEN f \in Item /\ Lists(s, t, Cmd("RSTART", 0, FALSE), f) ELSE t = s
        BY AddStartDoes
    <2>2. 0 < Slots - 2 /\ s.qp \in 1 .. n /\ s.dq \in [1 .. n -> Item] /\ e \in Item
        BY CommandsAssumption DEF Filling
    <2>3. CASE e.startCmdSent
        BY <2>1, <2>3
    <2>4. CASE ~e.startCmdSent
        <3>1. t.dq = [s.dq EXCEPT ![s.qp] = f] /\ t.qp = s.qp
            <4> HIDE DEF t, f
            <4> QED BY <2>1, <2>2, <2>4 DEF Lists
        <3>2. f.startCmdSent
            BY <2>2 DEF Item
        <3>3. t.dq[t.qp] = f
            <4> HIDE DEF t, f
            <4> QED BY <2>2, <3>1
        <3> QED BY <2>1, <3>1, <3>2, <3>3
    <2> QED BY <2>3, <2>4
<1> HIDE DEF t
<1>2. AddStart(t) = t
    BY <1>1, AddStartDoes
<1>3. FillEntry(s) = FillEntry(t)
    BY <1>1, <1>2 DEF FillEntry, t
<1>4. t \in Filled(n) /\ t.qp \in 1 .. n
    <2>1. t.qp \in 1 .. n /\ t.qp \in 1 .. n + 1
        BY <1>1 DEF Filling
    <2> QED BY <1>1, <2>1 DEF Filling, Filled
<1>5. Continues(n, t.dq, t.dq)
    BY DEF Continues, Alike
<1>6. Continues(n, t.dq, FillEntry(t).dq)
    BY <1>4, <1>5, EntryContinues
<1> QED BY <1>1, <1>3, <1>4, <1>6 DEF Continues, Alike

LEMMA EntryFollows ==
    ASSUME NEW n \in Nat \ {0}, NEW d \in [1 .. n -> Item], NEW B, NEW T, Script(n, d, B, T),
           OnlyLastStops(n, d), NEW l0, NEW p \in 1 .. n + 1, NEW q \in 1 .. n,
           NEW s \in Following(n, d, B, T, l0, p, q), ~s.done
    PROVE  FillEntry(s) \in Following(n, d, B, T, l0, p, q)
<1> DEFINE K == Tracks(n, d, B, T, l0)
           x == AddData(AddAddress(AddStart(s)))
           y == AddEnd(Stretch(x))
           u == FillEntry(s)
<1>1. /\ n \in Nat /\ s \in Passing(n, p) /\ s \in K /\ Frontier(n, s.dq, s.qp)
      /\ s \in Filled(n) /\ s.qp \in 1 .. n /\ Slots \in Nat /\ s \in Filling(n)
      /\ Continues(n, d, s.dq)
    BY CommandsAssumption DEF Following, Passing, Filled, Tracks
<1>2. Begins(n, s)
    BY <1>1 DEF Begins, Passing, StartsAddressed, Filling
<1>3. u \in Passing(n, p) /\ (u.done \/ u.qp = s.qp + 1) /\ Continues(n, d, u.dq)
    BY <1>1, EntryPasses, EntryContinues
<1>4. u.dq[q].startCmdSent
    <2>1. CASE s.dq[q].startCmdSent
        <3>1. Continues(n, s.dq, s.dq)
            BY DEF Continues, Alike
        <3>2. Continues(n, s.dq, u.dq)
            BY <1>1, <3>1, EntryContinues
        <3> QED BY <2>1, <3>2 DEF Continues, Alike
    <2>2. CASE s.qp = q /\ s.cmdIdx = 0
        BY <1>1, <2>2, FirstStarts
    <2> QED BY <2>1, <2>2 DEF Following
<1>5. x \in Commanded(n, s) \cup Waiting(n, s) /\ x \in K
    <2>1. AddAddress(AddStart(s)) \in Open(n, s)
        BY <1>1, <1>2, RoundStarts
    <2>2. AddAddress(AddStart(s)) \in K
        BY <1>1, <1>2, StartTracks
    <2> QED BY <1>1, <2>1, <2>2, RoundData, DataTracks
<1>6. u = NextEntry(y)
    BY DEF FillEntry
<1> HIDE DEF x, y, u
<1>7. Len(T) \in Nat /\ \A i \in 1 .. Len(T) : T[i].ev = "STOP" => i = Len(T)
    BY ScriptStops
<1>8. PICK z \in Round(n, s) :
          /\ z \in K /\ y = AddEnd(z)
          /\ z.cmdIdx = Slots - 1 \/ (~z.done /\ z.cmdIdx # Slots - 1 /\ z.dq[s.qp].stopCmdSent)
    <2> DEFINE z == Stretch(x)
    <2>1. CASE x \in Waiting(n, s)
        <3>1. z \in K
            <4> HIDE DEF K
            <4> QED BY <1>1, <1>5, <1>7, <2>1, StretchTracks DEF K
        <3>2. z \in Round(n, s) /\ z.cmdIdx = Slots - 1
            BY <1>1, <2>1, RoundStretches
        <3> QED BY <3>1, <3>2 DEF y
    <2>2. CASE x \in Commanded(n, s)
        <3>1. /\ x \in Round(n, s) /\ x.qp = s.qp /\ x \in Filling(n) /\ x.dq[s.qp].startCmdSent
              /\ x.done => x.cmdIdx = Slots - 1
              /\ ~x.done => x.cmdIdx <= Slots - 2 /\ x.dq[s.qp].stopCmdSent
            BY <2>2 DEF Commanded, Round
        <3>2. z = x
            BY <1>1, <3>1, Stretched
        <3> QED BY <1>5, <3>1, <3>2 DEF y
    <2> QED BY <1>5, <2>1, <2>2
<1> DEFINE e == z.dq[s.qp]
           l == ListedOf(e, B[s.qp])
<1>9. /\ z.qp = s.qp /\ z \in Filling(n) /\ z.dq \in [1 .. n -> Item] /\ z.cmdIdx \in Nat /\ e \in Item
      /\ Continues(n, d, z.dq) /\ Alike(d[s.qp], e) /\ FlagsAgree(e)
      /\ HasChain(z.command, T, z.cmdIdx, l0, l)
    <2>1. z.qp = s.qp /\ z \in Filling(n)
        BY DEF Round
    <2>2. z \in Tracks(n, d, B, T, l0)
        BY <1>8
    <2>3. z.cmdIdx \in Nat /\ e \in Item /\ Alike(d[s.qp], e) /\ FlagsAgree(e)
        <3> HIDE DEF K
        <3> QED BY <1>1, <2>1, <2>2, TracksTyped
    <2>4. Continues(n, d, z.dq) /\ HasChain(z.command, T, z.cmdIdx, l0, l)
        BY <2>1, <2>2 DEF Tracks
    <2>5. z.dq \in [1 .. n -> Item]
        BY <2>1 DEF Filling
    <2> QED BY <2>1, <2>3, <2>4, <2>5
<1>10. Frontier(n, z.dq, s.qp)
    BY <1>1, <1>8, RoundFrontier
<1>11. CASE z.cmdIdx = Slots - 1
    <2>1. /\ y.dq = z.dq /\ y.qp = z.qp /\ y.done /\ y.command[Slots - 1].op = "END"
          /\ HasChain(y.command, T, Slots - 1, l0, l)
        BY <1>1, <1>8, <1>9, <1>11, EndTracks
    <2>2. u = y
        BY <1>6, <2>1 DEF NextEntry
    <2>3. Reached(n, B, T, l0, u)
        <3>1. Slots - 1 \in 0 .. Slots - 1 /\ s.qp \in 1 .. n
            BY <1>1, CommandsAssumption
        <3>2. Frontier(n, u.dq, s.qp) /\ HasChain(u.command, T, Slots - 1, l0, ListedOf(u.dq[s.qp], B[s.qp]))
              /\ u.command[Slots - 1].op = "END"
            BY <1>10, <2>1, <2>2
        <3> QED BY <3>1, <3>2 DEF Reached
    <2>4. u.done
        BY <2>1, <2>2
    <2> QED BY <1>3, <1>4, <2>3, <2>4 DEF Following, u
<1>12. CASE ~z.done /\ z.cmdIdx # Slots - 1 /\ e.stopCmdSent
    <2>1. y = z
        BY <1>8, <1>12 DEF AddEnd
    <2> DEFINE end == z.qp = Len(z.dq)
    <2>2. u = [z EXCEPT !.qp = z.qp + 1, !.done = end]
        BY <1>6, <1>9, <1>12, <2>1 DEF NextEntry
    <2>3. Len(z.dq) = n /\ (end <=> s.qp = n)
        BY <1>1, <1>9
    <2> HIDE DEF end
    <2>4. /\ u.qp = s.qp + 1 /\ (u.done <=> s.qp = n) /\ u.dq = z.dq /\ u.command = z.command
          /\ u.cmdIdx = z.cmdIdx
        BY <1>9, <2>2, <2>3 DEF Filling
    <2>5. /\ e.cmdBytesNeeded = 0 /\ e.startCmdSent /\ e.addrCmdSent
        BY <1>9, <1>12 DEF FlagsAgree, Item
    <2>6. /\ l = B[s.qp] + Size(d[s.qp]) /\ B[s.qp] \in Nat
        <3>1. B[s.qp] \in Nat
            BY <1>1, ScriptFits
        <3>2. e.length = d[s.qp].length /\ e.addrReq = d[s.qp].addrReq /\ (e.stop <=> d[s.qp].stop)
            BY <1>9 DEF Alike
        <3>3. e.length \in Nat /\ e.addrReq \in Nat
            <4>1. e \in Item
                BY <1>9
            <4> HIDE DEF e
            <4> QED BY ONLY <4>1, ItemTyped
        <3>4. l = B[s.qp] + 1 + e.addrReq + (e.length - 0) + (IF e.stop THEN 1 ELSE 0)
            <4> HIDE DEF e
            <4> QED BY <1>12, <2>5 DEF ListedOf
        <3>5. Size(d[s.qp]) = 1 + e.addrReq + e.length + (IF e.stop THEN 1 ELSE 0)
            BY <3>2 DEF Size
        <3> DEFINE b == B[s.qp]
                   w == e.length
                   r == e.addrReq
                   z1 == Size(d[s.qp])
                   i == IF e.stop THEN 1 ELSE 0
        <3>6. b \in Nat /\ w \in Nat /\ r \in Nat /\ i \in Nat /\ l = b + 1 + r + (w - 0) + i
              /\ z1 = 1 + r + w + i
            BY <3>1, <3>3, <3>4, <3>5
        <3> HIDE DEF b, w, r, z1, i, l
        <3>7. l = b + z1
            BY ONLY <3>6
        <3> QED BY <3>1, <3>7 DEF b, z1
    <2>7. CASE s.qp = n
        <3>1. l = Len(T)
            <4>1. B[s.qp] + Size(d[s.qp]) = Len(T)
                BY <1>1, <2>7, ScriptFits
            <4> QED BY <2>6, <4>1
        <3>2. u.done /\ u.cmdIdx \in 0 .. Slots - 1
            <4>1. u \in Passing(n, p) /\ u.done
                BY <1>3, <2>4, <2>7 DEF u
            <4>2. z.cmdIdx <= Slots - 2
                <5>1. z.cmdIdx <= Slots /\ z.cmdIdx # Slots
                    <6>1. y \in Written(n, s)
                        BY <1>1, <1>5, RoundWritten DEF y
                    <6> QED BY <1>1, <1>9, <1>12, <2>1, <6>1 DEF Written
                <5> QED BY <1>1, <1>9, <1>12, <5>1
            <4> QED BY <1>1, <1>9, <2>4, <4>1, <4>2
        <3>3. /\ Frontier(n, u.dq, s.qp) /\ ListedOf(u.dq[s.qp], B[s.qp]) = Len(T)
              /\ HasChain(u.command, T, u.cmdIdx, l0, ListedOf(u.dq[s.qp], B[s.qp]))
            BY <1>9, <1>10, <2>4, <3>1
        <3>4. Reached(n, B, T, l0, u)
            BY <1>1, <3>2, <3>3 DEF Reached
        <3> QED BY <1>3, <1>4, <3>2, <3>4 DEF Following, u
    <2>8. CASE s.qp # n
        <3>1. u.qp \in 1 .. n /\ ~u.done /\ s.qp + 1 \in 1 .. n
            BY <1>1, <2>4, <2>8
        <3>2. Unlisted(z.dq[u.qp]) /\ z.dq[u.qp] \in Item
            <4>1. s.qp < u.qp
                BY ONLY <1>1, <2>4
            <4>2. \A r \in 1 .. n : s.qp < r => Unlisted(z.dq[r])
                BY ONLY <1>10 DEF Frontier
            <4>3. z.dq \in [1 .. n -> Item]
                BY <1>9
            <4> QED BY ONLY <3>1, <4>1, <4>2, <4>3
        <3>3. Frontier(n, u.dq, u.qp)
            <4>1. \A r \in 1 .. n : r < u.qp => z.dq[r].stopCmdSent
                BY <1>1, <1>10, <1>12, <2>4 DEF Frontier
            <4>2. \A r \in 1 .. n : u.qp < r => Unlisted(z.dq[r])
                BY <1>1, <1>10, <2>4 DEF Frontier
            <4> QED BY <2>4, <3>1, <3>2, <4>1, <4>2 DEF Frontier, Unlisted
        <3>4. u \in Filling(n)
            <4>1. u \in Filled(n)
                BY <1>3 DEF Passing, u
            <4> QED BY <3>1, <4>1 DEF Filled, Filling
        <3>5. ListedOf(u.dq[u.qp], B[u.qp]) = l
            <4>1. ListedOf(u.dq[u.qp], B[u.qp]) = B[u.qp]
                BY <2>4, <3>2 DEF ListedOf, Unlisted
            <4>2. B[u.qp] = B[s.qp] + Size(d[s.qp])
                BY <1>1, <2>4 DEF Script
            <4> QED BY <2>6, <4>1, <4>2
        <3>6. FlagsAgree(u.dq[u.qp])
            BY <2>4, <3>2 DEF FlagsAgree, Unlisted
        <3>7. u \in Tracks(n, d, B, T, l0)
            <4> HIDE DEF l, e
            <4> QED BY <1>9, <2>4, <3>4, <3>5, <3>6 DEF Tracks
        <3>8. u \in Passing(n, p) /\ Continues(n, d, u.dq)
            BY <1>3 DEF u
        <3> QED BY <1>4, <3>1, <3>3, <3>7, <3>8 DEF Following, u
    <2> QED BY <2>7, <2>8
<1> QED BY <1>8, <1>11, <1>12

LEMMA ListedFits ==
    ASSUME NEW n \in Nat, NEW d \in [1 .. n -> Item], NEW B, NEW T, Script(n, d, B, T),
           NEW q \in 1 .. n, NEW e \in Item, Alike(d[q], e)
    PROVE  ListedOf(e, B[q]) \in 0 .. Len(T)
<1> DEFINE b == B[q]
           w == e.length
           r == e.addrReq
           c == e.cmdBytesNeeded
           i == IF e.stop THEN 1 ELSE 0
           z == Size(d[q])
           h == IF e.stopCmdSent /\ e.stop THEN 1 ELSE 0
<1>1. b \in Nat /\ z \in Nat /\ Len(T) \in Nat /\ b + z <= Len(T)
    BY ScriptFits
<1>2. w \in Nat /\ r \in Nat /\ c \in Nat /\ c <= w
    BY ItemTyped
<1>3. d[q].length = w /\ d[q].addrReq = r /\ (d[q].stop <=> e.stop)
    BY DEF Alike
<1>4. z = 1 + r + w + i
    BY <1>3 DEF Size
<1>5. i \in {0, 1} /\ h \in {0, 1} /\ h <= i
    OBVIOUS
<1>6. ListedOf(e, b) \in {b, b + 1, b + 1 + r + (w - c) + h}
    BY DEF ListedOf
<1> HIDE DEF b, w, r, c, i, z, h
<1> QED BY <1>1, <1>2, <1>4, <1>5, <1>6 DEF b

\* the first entry that still needs commands
LEMMA FrontierOpens ==
    ASSUME NEW n \in Nat \ {0}, NEW d \in [1 .. n -> Item], NEW B, NEW T, Script(n, d, B, T),
           OnlyLastStops(n, d), NEW f \in 1 .. n, Frontier(n, d, f),
           ListedOf(d[f], B[f]) < Len(T)
    PROVE  \E q \in 1 .. n : /\ Frontier(n, d, q) /\ ~d[q].stopCmdSent
                             /\ ListedOf(d[q], B[q]) = ListedOf(d[f], B[f])
<1>1. CASE ~d[f].stopCmdSent
    BY <1>1
<1>2. CASE d[f].stopCmdSent
    <2> DEFINE e == d[f]
               b == B[f]
               w == e.length
               r == e.addrReq
               i == IF e.stop THEN 1 ELSE 0
               z == Size(e)
    <2>1. b \in Nat /\ z \in Nat /\ Len(T) \in Nat /\ b + z <= Len(T) /\ (f = n => b + z = Len(T))
        <3>1. n \in Nat
            OBVIOUS
        <3>2. /\ B[f] \in Nat /\ Size(d[f]) \in Nat /\ Len(T) \in Nat
              /\ B[f] + Size(d[f]) <= Len(T)
              /\ f = n => B[f] + Size(d[f]) = Len(T)
            BY <3>1, ScriptFits, ZenonT(40)
        <3> QED BY <3>2
    <2>2. e \in Item /\ w \in Nat /\ r \in Nat /\ e.startCmdSent /\ e.addrCmdSent
        <3>1. e \in Item
            OBVIOUS
        <3>2. e.startCmdSent /\ e.addrCmdSent
            BY <1>2, <3>1 DEF Item
        <3> HIDE DEF e
        <3> QED BY <3>1, <3>2, ItemTyped
    <2>3. e.cmdBytesNeeded = 0
        BY <1>2 DEF Frontier
    <2>4. ListedOf(e, b) = b + 1 + r + (w - 0) + i /\ z = 1 + r + w + i /\ i \in {0, 1}
        <3> HIDE DEF e
        <3> QED BY <1>2, <2>2, <2>3 DEF ListedOf, Size, e
    <2>5. ListedOf(e, b) = b + z
        <3> HIDE DEF b, w, r, i, z
        <3> QED BY <2>1, <2>2, <2>4
    <2>6. f # n /\ f + 1 \in 1 .. n /\ f + 1 \in 1 .. n + 1
        BY <2>1, <2>5
    <2>7. Unlisted(d[f + 1])
        BY <2>6 DEF Frontier
    <2>8. ListedOf(d[f + 1], B[f + 1]) = B[f + 1] /\ B[f + 1] = b + z
        <3>1. ListedOf(d[f + 1], B[f + 1]) = B[f + 1]
            BY <2>7 DEF ListedOf, Unlisted
        <3>2. B[f + 1] = B[f] + Size(d[f])
            BY DEF Script
        <3> QED BY <3>1, <3>2
    <2>9. Frontier(n, d, f + 1)
        <3>1. \A q \in 1 .. n : q < f + 1 => d[q].stopCmdSent
            BY <1>2 DEF Frontier
        <3>2. \A q \in 1 .. n : f + 1 < q => Unlisted(d[q])
            BY DEF Frontier
        <3> QED BY <2>6, <2>7, <3>1, <3>2 DEF Frontier, Unlisted
    <2>10. ~d[f + 1].stopCmdSent /\ ListedOf(d[f + 1], B[f + 1]) = ListedOf(d[f], B[f])
        BY <2>5, <2>7, <2>8 DEF Unlisted
    <2> QED BY <2>6, <2>9, <2>10
<1> QED BY <1>1, <1>2

\* a list that goes on with the script behind event l0
GoesOn(n, B, T, l0, u) ==
    \E g \in 1 .. n, l \in l0 .. Len(T) :
        /\ Frontier(n, u.dq, g) /\ l = ListedOf(u.dq[g], B[g])
        /\ \E last, cur : Program(u.command, T, last, cur, l) /\ cur[0] = l0

\* What fillCmdQueue lists goes on where the last list ended.
LEMMA fillCmdQueueFollows ==
    ASSUME NEW n \in Nat \ {0}, NEW d \in [1 .. n -> Item], NEW B, NEW T, Script(n, d, B, T),
           OnlyLastStops(n, d), NEW p \in 1 .. n + 1, NEW c \in CommandList,
           NEW f \in 1 .. n, Frontier(n, d, f), ListedOf(d[f], B[f]) < Len(T),
           \A r \in 1 .. n : r < p => d[r].stopCmdSent
    PROVE  /\ GoesOn(n, B, T, ListedOf(d[f], B[f]), fillCmdQueue(d, p, c))
           /\ ~d[1].stopCmdSent => fillCmdQueue(d, p, c).dq[1].startCmdSent
<1> DEFINE u == fillCmdQueue(d, p, c)
           l0 == ListedOf(d[f], B[f])
<1>1. PICK q \in 1 .. n : Frontier(n, d, q) /\ ~d[q].stopCmdSent /\ ListedOf(d[q], B[q]) = l0
    BY FrontierOpens
<1>2. l0 \in 0 .. Len(T) /\ l0 \in Nat /\ Len(T) \in Nat
    <2>1. d[f] \in Item /\ Alike(d[f], d[f]) /\ n \in Nat
        BY DEF Alike
    <2>2. l0 \in 0 .. Len(T)
        BY <2>1, ListedFits
    <2> QED BY <2>2, ScriptStops
<1>3. /\ \A r \in 1 .. n : r < q => d[r].stopCmdSent
      /\ \A r \in 1 .. n : q < r => Unlisted(d[r])
      /\ q \in p .. n
    <2>1. /\ \A r \in 1 .. n : r < q => d[r].stopCmdSent
          /\ \A r \in 1 .. n : q < r => Unlisted(d[r])
        BY <1>1 DEF Frontier
    <2>2. ~(q < p)
        BY <1>1
    <2> QED BY <2>1, <2>2
<1>4. u = FillEntries(Begun(d, c, q, FALSE))
    <2>1. ~(\A r \in p .. n : d[r].stopCmdSent)
        BY <1>1, <1>3
    <2>2. \/ \A r \in p .. n : d[r].stopCmdSent
          \/ \E o \in p .. n : /\ ~d[o].stopCmdSent
                               /\ \A r \in p .. o - 1 : d[r].stopCmdSent
                               /\ u = FillEntries(Begun(d, c, o, FALSE))
        <3>1. n \in Nat
            OBVIOUS
        <3> QED BY <3>1, FillBegins
    <2> HIDE DEF u
    <2>3. ASSUME NEW o \in p .. n, ~d[o].stopCmdSent, \A r \in p .. o - 1 : d[r].stopCmdSent,
                 u = FillEntries(Begun(d, c, o, FALSE))
          PROVE  u = FillEntries(Begun(d, c, q, FALSE))
        <3>1. ~(o < q)
            BY <1>3, <2>3
        <3>2. ~(q < o)
            BY <1>1, <1>3, <2>3
        <3>3. o = q
            BY <1>3, <3>1, <3>2
        <3> QED BY <2>3, <3>3
    <2> QED BY <2>1, <2>2, <2>3
<1> DEFINE s == Begun(d, c, q, FALSE)
           F == Following(n, d, B, T, l0, p, q)
<1>5. /\ s.dq = d /\ s.command = c /\ s.cmdIdx = 0 /\ s.qp = q /\ s.done = FALSE
      /\ s \in Filling(n) /\ s \in Filled(n)
    BY DEF Begun, Filling, Filled
<1> HIDE DEF s, u
<1>6. s \in Passing(n, p)
    <2>1. n \in 1 .. n /\ d[n].stop /\ 0 <= Slots /\ 0 <= Slots - 2
        BY CommandsAssumption DEF OnlyLastStops
    <2>2. StartsAddressed(d)
        <3> SUFFICES ASSUME NEW r \in 1 .. n, d[r].startCmdSent PROVE d[r].addrCmdSent
            BY DEF StartsAddressed
        <3>1. CASE r < q
            <4>1. d[r].stopCmdSent /\ d[r] \in Item
                BY <1>3, <3>1
            <4> QED BY <4>1 DEF Item
        <3>2. CASE r = q
            BY <1>1, <3>2 DEF Frontier
        <3>3. CASE q < r
            BY <1>3, <3>3 DEF Unlisted
        <3> QED BY <3>1, <3>2, <3>3
    <2>3. StartsWrite(c, 0)
        BY DEF StartsWrite
    <2>4. /\ \A r \in 1 .. n : p <= r /\ r < q => d[r].stopCmdSent
          /\ \A r \in 1 .. n : q < r => ~d[r].stopCmdSent
        BY <1>3 DEF Unlisted
    <2> QED BY <1>1, <1>5, <2>1, <2>2, <2>3, <2>4 DEF Passing
<1>7. Continues(n, d, d)
    BY DEF Continues, Alike
<1>8. s \in Tracks(n, d, B, T, l0)
    <2>1. FlagsAgree(d[q])
        <3>1. d[q] \in Item
            OBVIOUS
        <3> QED BY <1>1, <3>1 DEF FlagsAgree, Frontier, Unlisted, Item
    <2>2. HasChain(c, T, 0, l0, l0)
        <3> DEFINE cur == [i \in 0 .. 0 |-> l0]
        <3>1. l0 \in 0 .. l0 /\ 0 \in 0 .. 0 /\ \A i \in 0 .. 0 - 1 : FALSE
            BY <1>2
        <3> HIDE DEF l0
        <3>2. cur \in [0 .. 0 -> 0 .. l0] /\ cur[0] = l0
            BY <3>1
        <3> HIDE DEF cur
        <3> QED BY <3>1, <3>2 DEF HasChain
    <2> HIDE DEF l0
    <2> QED BY <1>1, <1>5, <1>7, <2>1, <2>2 DEF Tracks
<1>9. s \in F
    BY <1>1, <1>5, <1>6, <1>7, <1>8 DEF Following
<1>10. \A x \in F : FillEntry(x) \in F
    <2> TAKE x \in F
    <2>1. CASE x.done
        BY <2>1 DEF FillEntry
    <2>2. CASE ~x.done
        <3> HIDE DEF l0
        <3> QED BY <2>2, EntryFollows
    <2> QED BY <2>1, <2>2
<1>11. u \in F
    <2>1. Len(s.dq) = n /\ n \in Nat /\ n \in 0 .. n
        BY <1>5
    <2> HIDE DEF F
    <2>2. PICK h \in [0 .. n -> F] : FillEntries(s) = h[n]
        <3>1. Len(s.dq) \in Nat
            BY <2>1
        <3>2. \E h \in [0 .. Len(s.dq) -> F] : FillEntries(s) = h[Len(s.dq)]
            BY <1>9, <1>10, <3>1, FillEntriesRounds
        <3> QED BY <2>1, <3>2
    <2> QED BY <1>4, <2>1, <2>2 DEF s
<1>12. u.done
    BY <1>4, <1>6, PassEnds DEF s
<1>13. /\ Reached(n, B, T, l0, u) /\ u.dq[q].startCmdSent /\ Continues(n, d, u.dq)
       /\ u.dq \in [1 .. n -> Item] /\ u.command \in CommandList
    BY <1>11, <1>12 DEF Following, Passing, Filled
<1>14. PICK g \in 1 .. n, k \in 0 .. Slots - 1 :
           /\ Frontier(n, u.dq, g)
           /\ HasChain(u.command, T, k, l0, ListedOf(u.dq[g], B[g]))
           /\ ListedOf(u.dq[g], B[g]) = Len(T) \/ u.command[k].op = "END"
    BY <1>13 DEF Reached
<1> DEFINE l == ListedOf(u.dq[g], B[g])
<1>15. l \in 0 .. Len(T)
    <2>1. u.dq[g] \in Item /\ Alike(d[g], u.dq[g]) /\ n \in Nat
        BY <1>13 DEF Continues
    <2> QED BY <2>1, ListedFits
<1>16. l0 <= l
    <2>1. PICK cur \in [0 .. k -> 0 .. l] : cur[0] = l0
        BY <1>14 DEF HasChain
    <2>2. 0 \in 0 .. k
        BY CommandsAssumption
    <2> HIDE DEF l, l0
    <2> QED BY <1>2, <1>15, <2>1, <2>2
<1>17. T[Len(T)].ev = "STOP"
    BY ScriptStops
<1>18. \E last, cur : Program(u.command, T, last, cur, l) /\ cur[0] = l0
    <2>1. /\ l \in Nat /\ l <= Len(T) /\ l0 < Len(T) /\ HasChain(u.command, T, k, l0, l)
          /\ l = Len(T) \/ u.command[k].op = "END"
        BY <1>2, <1>14, <1>15
    <2> HIDE DEF l, l0
    <2> QED BY <1>2, <1>13, <1>17, <2>1, ChainStops
<1>19. l \in l0 .. Len(T)
    <2> HIDE DEF l, l0
    <2> QED BY <1>2, <1>15, <1>16
<1>20. ~d[1].stopCmdSent => u.dq[1].startCmdSent
    <2>1. ASSUME ~d[1].stopCmdSent PROVE q = 1
        BY <1>3, <2>1
    <2> QED BY <1>13, <2>1
<1>21. GoesOn(n, B, T, l0, u)
    <2> HIDE DEF l0
    <2> QED BY <1>14, <1>18, <1>19 DEF GoesOn
<1> QED BY <1>20, <1>21 DEF u

-----------------------------------------------------------------------------
(* fillTxFifo puts the bytes of the script into the FIFO, in its order.     *)

LEMMA ScriptMoves ==
    ASSUME NEW n \in Nat, NEW d, NEW e, NEW B, NEW T, Script(n, d, B, T), SameFlags(n, d, e)
    PROVE  Script(n, e, B, T)
<1>1. \A q \in 1 .. n : /\ Size(e[q]) = Size(d[q])
                        /\ \A j : EventOf(e[q], q, j) = EventOf(d[q], q, j)
    BY DEF SameFlags, Moves, Size, EventOf
<1>2. /\ B \in [1 .. n + 1 -> Nat] /\ B[1] = 0
      /\ \A q \in 1 .. n : B[q + 1] = B[q] + Size(d[q])
      /\ Len(T) = B[n + 1]
      /\ \A q \in 1 .. n : \A j \in 1 .. Size(d[q]) : T[B[q] + j] = EventOf(d[q], q, j)
      /\ \A i \in 1 .. Len(T) : \E q \in 1 .. n : \E j \in 1 .. Size(d[q]) : i = B[q] + j
      /\ \A p, q \in 1 .. n : p < q => B[p] + Size(d[p]) <= B[q]
    BY DEF Script
<1>3. \A q \in 1 .. n : B[q + 1] = B[q] + Size(e[q])
    BY <1>1, <1>2
<1>4. \A q \in 1 .. n : \A j \in 1 .. Size(e[q]) : T[B[q] + j] = EventOf(e[q], q, j)
    BY <1>1, <1>2
<1>5. \A i \in 1 .. Len(T) : \E q \in 1 .. n : \E j \in 1 .. Size(e[q]) : i = B[q] + j
    <2> TAKE i \in 1 .. Len(T)
    <2>1. PICK q \in 1 .. n : \E j \in 1 .. Size(d[q]) : i = B[q] + j
        BY <1>2
    <2> QED BY <1>1, <2>1
<1>6. \A p, q \in 1 .. n : p < q => B[p] + Size(e[p]) <= B[q]
    BY <1>1, <1>2
<1> QED BY <1>2, <1>3, <1>4, <1>5, <1>6 DEF Script

\* which bytes of an entry are put
LEMMA PutOf ==
    ASSUME NEW n \in Nat, NEW d \in [1 .. n -> Item], NEW B, NEW T, Script(n, d, B, T),
           NEW p \in 1 .. n, NEW j \in 1 .. Size(d[p]), T[B[p] + j].ev = "WRITE"
    PROVE  LET w == T[B[p] + j]
               e == d[p]
           IN  /\ w.q = p /\ j > 1 /\ j <= 1 + e.addrReq + e.length
               /\ w.b = j - 2 - e.addrReq
               /\ j <= 1 + e.addrReq => w.b < 0 /\ (Put(d, w) <=> j - 1 <= e.addrSent)
               /\ j > 1 + e.addrReq => /\ ~(w.b < 0) /\ e.mode = "WRITE"
                                       /\ Put(d, w) <=> j - 1 - e.addrReq <= e.position
<1> DEFINE w == T[B[p] + j]
           e == d[p]
           r == e.addrReq
           len == e.length
           a == e.addrSent
           b == e.position
<1>1. /\ e \in Item /\ j \in Nat /\ j \in Nat \ {0} /\ r \in Nat /\ len \in Nat /\ a \in Nat
      /\ b \in Nat /\ r \in {1, 2} /\ Size(d[p]) \in Nat
    <2>1. e \in Item
        OBVIOUS
    <2>2. Size(d[p]) \in Nat
        BY ScriptFits
    <2> HIDE DEF e
    <2>3. r \in Nat /\ len \in Nat /\ a \in Nat /\ b \in Nat /\ r \in {1, 2}
        BY <2>1, ItemTyped
    <2> QED BY <2>1, <2>2, <2>3
<1>2. w = EventOf(e, p, j) /\ w.ev = "WRITE"
    BY ScriptEvent
<1>3. j # 1
    BY <1>2, EventStart
<1>4. ~(j > 1 + r + len)
    BY <1>1, <1>2, EventIsStop
<1>5. Put(d, w) <=> IF w.b < 0 THEN w.b < d[w.q].addrSent - d[w.q].addrReq
                               ELSE w.b < d[w.q].position
    BY DEF Put
<1>6. CASE j <= 1 + r
    <2>1. j > 1
        BY <1>1, <1>3
    <2>2. w.q = p /\ w.b = j - 2 - r
        BY <1>1, <1>2, <1>6, <2>1, EventAddress
    <2> DEFINE P == Put(d, w)
    <2>3. P <=> IF w.b < 0 THEN w.b < a - r ELSE w.b < b
        BY <1>5, <2>2
    <2> HIDE DEF w, e, r, len, a, b, P
    <2>4. w.b < 0 /\ (P <=> j - 1 <= a) /\ j <= 1 + r + len /\ ~(j > 1 + r)
        BY ONLY <1>1, <1>6, <2>1, <2>2, <2>3
    <2> QED BY ONLY <2>1, <2>2, <2>4 DEF w, e, r, len, a, b, P
<1>7. CASE j > 1 + r
    <2>1. j > 1 /\ j <= 1 + r + len
        BY <1>1, <1>4, <1>7
    <2>2. w.q = p /\ w.b = j - 2 - r /\ e.mode = "WRITE"
        BY <1>1, <1>2, <1>7, <2>1, EventData
    <2> DEFINE P == Put(d, w)
    <2>3. P <=> IF w.b < 0 THEN w.b < a - r ELSE w.b < b
        BY <1>5, <2>2
    <2> HIDE DEF w, e, r, len, a, b, P
    <2>4. ~(w.b < 0) /\ (P <=> j - 1 - r <= b) /\ ~(j <= 1 + r)
        BY ONLY <1>1, <1>7, <2>1, <2>2, <2>3
    <2> QED BY ONLY <2>1, <2>2, <2>4 DEF w, e, r, len, a, b, P
<1> QED BY ONLY <1>1, <1>6, <1>7

EntryPut(e) == e.addrSent = e.addrReq /\ (e.position = e.length \/ e.mode = "READ")

\* where the event is that the script has at i
LEMMA EventPlace ==
    ASSUME NEW n \in Nat, NEW d \in [1 .. n -> Item], NEW B, NEW T, Script(n, d, B, T),
           NEW i \in 1 .. Len(T)
    PROVE  \E p \in 1 .. n : /\ B[p] \in Nat /\ i - B[p] \in 1 .. Size(d[p])
                             /\ i = B[p] + (i - B[p])
<1>1. PICK p \in 1 .. n : \E j \in 1 .. Size(d[p]) : i = B[p] + j
    BY DEF Script
<1>2. PICK j \in 1 .. Size(d[p]) : i = B[p] + j
    BY <1>1
<1>3. B[p] \in Nat /\ Size(d[p]) \in Nat
    BY ScriptFits
<1>4. i - B[p] = j
    BY <1>2, <1>3
<1> QED BY <1>2, <1>3, <1>4

\* event i of the script is one of entry p
PlacedAt(i, p, d, B) == B[p] \in Nat /\ i - B[p] \in 1 .. Size(d[p]) /\ i = B[p] + (i - B[p])

LEMMA EventPlaced ==
    ASSUME NEW n \in Nat, NEW d \in [1 .. n -> Item], NEW B, NEW T, Script(n, d, B, T),
           NEW i \in 1 .. Len(T)
    PROVE  \E p \in 1 .. n : PlacedAt(i, p, d, B)
BY EventPlace DEF PlacedAt

\* what comes before the next byte of an entry is put
LEMMA PutBefore ==
    ASSUME NEW n \in Nat, NEW d \in [1 .. n -> Item], NEW B, NEW T, Script(n, d, B, T),
           NEW q \in 1 .. n, \A r \in 1 .. n : r < q => EntryPut(d[r]),
           NEW k \in Nat,
           \/ k <= d[q].addrSent
           \/ d[q].addrSent = d[q].addrReq /\ k <= d[q].addrReq + d[q].position,
           NEW i \in 1 .. Len(T), i <= B[q] + 1 + k, T[i].ev = "WRITE"
    PROVE  Put(d, T[i])
<1>1. PICK p \in 1 .. n : /\ B[p] \in Nat /\ i - B[p] \in 1 .. Size(d[p])
                          /\ i = B[p] + (i - B[p])
    <2>1. d \in [1 .. n -> Item] /\ Script(n, d, B, T) /\ i \in 1 .. Len(T) /\ n \in Nat
        OBVIOUS
    <2>2. \E p \in 1 .. n : PlacedAt(i, p, d, B)
        BY ONLY <2>1, EventPlaced
    <2> QED BY <2>2 DEF PlacedAt
<1> DEFINE j == i - B[p]
           e == d[p]
           r == e.addrReq
           len == e.length
           a == e.addrSent
           b == e.position
           P == Put(d, T[i])
<1>2. /\ j > 1 /\ j <= 1 + r + len
      /\ j <= 1 + r => (P <=> j - 1 <= a)
      /\ j > 1 + r => e.mode = "WRITE" /\ (P <=> j - 1 - r <= b)
    <2>1. j \in 1 .. Size(d[p]) /\ B[p] + j = i
        BY <1>1
    <2> HIDE DEF j
    <2> QED BY <2>1, PutOf
<1>3. /\ j \in Nat /\ r \in Nat /\ len \in Nat /\ a \in Nat /\ b \in Nat /\ a <= r /\ b <= len
      /\ e.mode \in {"READ", "WRITE"}
    <2>1. e \in Item /\ j \in Nat
        BY <1>1
    <2> HIDE DEF e, j
    <2> QED BY <2>1, ItemTyped
<1>4. CASE p < q
    <2>1. EntryPut(e)
        BY <1>4
    <2>2. a = r /\ (b = len \/ e.mode = "READ")
        BY <2>1 DEF EntryPut
    <2> HIDE DEF j, r, len, a, b, P, e
    <2>3. P
        BY ONLY <1>2, <1>3, <2>2
    <2> QED BY <2>3 DEF P
<1>5. CASE p = q
    <2>1. j <= 1 + k
        <3>1. i <= B[p] + 1 + k /\ B[p] \in Nat
            BY <1>1, <1>5
        <3> QED BY <3>1
    <2>2. k <= a \/ (a = r /\ k <= r + b)
        BY <1>5
    <2> HIDE DEF j, r, len, a, b, P, e
    <2>3. P
        BY ONLY <1>2, <1>3, <2>1, <2>2, k \in Nat
    <2> QED BY <2>3 DEF P
<1>6. CASE q < p
    <2>1. B[q] + Size(d[q]) <= B[p] /\ B[q] \in Nat /\ Size(d[q]) \in Nat
        <3>1. B[q] + Size(d[q]) <= B[p]
            BY <1>6 DEF Script
        <3>2. B[q] \in Nat /\ Size(d[q]) \in Nat
            BY ScriptFits
        <3> QED BY <3>1, <3>2
    <2>2. 1 + k <= Size(d[q])
        <3> DEFINE f == d[q]
                   fr == f.addrReq
                   fl == f.length
                   fa == f.addrSent
                   fb == f.position
                   z == Size(f)
                   h == IF f.stop THEN 1 ELSE 0
        <3>1. f \in Item
            OBVIOUS
        <3>2. k <= fa \/ k <= fr + fb
            OBVIOUS
        <3>3. z = 1 + fr + fl + h /\ h \in Nat
            BY DEF Size
        <3> HIDE DEF f
        <3>4. fr \in Nat /\ fl \in Nat /\ fa \in Nat /\ fb \in Nat /\ fa <= fr /\ fb <= fl
            BY <3>1, ItemTyped
        <3> HIDE DEF fr, fl, fa, fb, h, z
        <3>5. 1 + k <= z
            BY ONLY <3>2, <3>3, <3>4, k \in Nat
        <3> QED BY <3>5 DEF z, f
    <2>3. i <= B[p]
        <3> DEFINE z == Size(d[q])
                   y == B[q]
                   x == B[p]
        <3>1. y + z <= x /\ y \in Nat /\ z \in Nat /\ 1 + k <= z /\ i <= y + 1 + k /\ x \in Nat
            BY <1>1, <2>1, <2>2
        <3> HIDE DEF x, y, z
        <3>2. i <= x
            BY <3>1
        <3> QED BY <3>2 DEF x
    <2>4. i - B[p] >= 1
        BY <1>1
    <2> QED BY <1>1, <2>3, <2>4
<1> QED BY <1>4, <1>5, <1>6

\* the next bytes of the script go into the FIFO
LEMMA PutMore ==
    ASSUME NEW T, Len(T) \in Nat, NEW d, NEW e, NEW lo \in Nat, NEW g \in lo .. Len(T), NEW h \in Nat,
           NEW X, NEW s \in Seq(X), NEW t \in Seq(X), h + Len(t) <= Len(T),
           PutUpTo(T, d, g), Window(T, "WRITE", lo, g, s),
           \A i \in 1 .. Len(t) : Matches(T[h + i], "WRITE", t[i]),
           \A i \in 1 .. Len(T) : i <= h /\ T[i].ev = "WRITE" => Put(d, T[i]),
           \A i \in 1 .. Len(T) : T[i].ev = "WRITE" =>
               (Put(e, T[i]) <=> Put(d, T[i]) \/ (h < i /\ i <= h + Len(t))),
           Len(t) # 0 => ~Put(d, T[h + 1])
    PROVE  \E k \in lo .. Len(T) : PutUpTo(T, e, k) /\ Window(T, "WRITE", lo, k, s \o t)
<1> DEFINE m == Len(t)
           z == Len(T)
<1>1. m \in Nat /\ Len(s) \in Nat /\ g \in Nat /\ lo <= g /\ g <= z
    OBVIOUS
<1>2. CASE m = 0
    <2>1. s \o t = s
        BY <1>2
    <2>2. \A i \in 1 .. Len(T) : ~(h < i /\ i <= h + m)
        BY <1>2
    <2>3. PutUpTo(T, e, g)
        BY <2>2 DEF PutUpTo
    <2> QED BY <2>1, <2>3
<1>3. CASE m # 0
    <2>2. h + 1 \in 1 .. z /\ 1 \in 1 .. m
        BY <1>1, <1>3
    <2>3. T[h + 1].ev = "WRITE" /\ ~Put(d, T[h + 1])
        BY <1>3, <2>2 DEF Matches
    <2>4. ~(h + 1 <= g)
        BY <2>2, <2>3 DEF PutUpTo
    <2>5. g <= h /\ lo <= h /\ h + m \in lo .. z
        BY <1>1, <2>4
    <2>6. ASSUME NEW i \in g + 1 .. h PROVE T[i].ev # "WRITE"
        <3>1. i \in 1 .. z /\ i <= h /\ ~(i <= g)
            BY <1>1, <2>2
        <3> QED BY <3>1 DEF PutUpTo
    <2>7. Window(T, "WRITE", lo, h, s)
        <3>1. lo <= lo /\ g <= h /\ lo <= g /\ \A i \in lo + 1 .. lo : T[i].ev # "WRITE"
            BY <1>1, <2>5
        <3> QED BY <1>1, <2>6, <3>1, WindowSkip
    <2>8. Window(T, "WRITE", lo, h + m, s \o t)
        BY <2>5, <2>7, WindowPush
    <2>9. PutUpTo(T, e, h + m)
        <3> SUFFICES ASSUME NEW i \in 1 .. z, T[i].ev = "WRITE" PROVE Put(e, T[i]) <=> i <= h + m
            BY DEF PutUpTo
        <3>1. Put(e, T[i]) <=> Put(d, T[i]) \/ (h < i /\ i <= h + m)
            OBVIOUS
        <3>2. i <= h => Put(d, T[i])
            OBVIOUS
        <3>3. Put(d, T[i]) => i <= g
            BY DEF PutUpTo
        <3>4. i \in Nat
            OBVIOUS
        <3> DEFINE P == Put(d, T[i])
                   Q == Put(e, T[i])
        <3> HIDE DEF P, Q, m, z
        <3>5. Q <=> i <= h + m
            BY ONLY <1>1, <2>5, <3>1, <3>2, <3>3, <3>4, h \in Nat DEF P, Q
        <3> QED BY <3>5 DEF Q
    <2> QED BY <2>5, <2>8, <2>9
<1> QED BY <1>2, <1>3

\* what fillTxFifo works on: the first lo events of the script are on the bus
Puts(n, B, T, lo) ==
    {s \in Sending(n) :
        /\ Script(n, s.dq, B, T)
        /\ \A r \in 1 .. n : r < s.at => EntryPut(s.dq[r])
        /\ \A r \in 1 .. n : s.dq[r].rw = 1
        /\ \A j \in 1 .. Len(s.tx) : s.tx[j].b < 0 => s.tx[j].rw = 1
        /\ \E g \in lo .. Len(T) : PutUpTo(T, s.dq, g) /\ Window(T, "WRITE", lo, g, s.tx)}

LEMMA Shifted ==
    ASSUME NEW s \in Seq(TxByte), NEW t \in Seq(TxByte),
           \A j \in 1 .. Len(s) : s[j].b < 0 => s[j].rw = 1,
           \A j \in 1 .. Len(t) : t[j].b < 0 => t[j].rw = 1
    PROVE  LET u == s \o t
           IN  \A j \in 1 .. Len(u) : u[j].b < 0 => u[j].rw = 1
<1> DEFINE u == s \o t
<1>1. /\ Len(s) \in Nat /\ Len(t) \in Nat /\ Len(u) = Len(s) + Len(t)
      /\ \A j \in 1 .. Len(s) : u[j] = s[j]
      /\ \A j \in Len(s) + 1 .. Len(s) + Len(t) : u[j] = t[j - Len(s)]
    BY Joined
<1> HIDE DEF u
<1>2. SUFFICES ASSUME NEW j \in 1 .. Len(u), u[j].b < 0 PROVE u[j].rw = 1
    BY DEF u
<1>3. CASE j \in 1 .. Len(s)
    BY <1>1, <1>2, <1>3
<1>4. CASE j \notin 1 .. Len(s)
    <2>1. j \in Len(s) + 1 .. Len(s) + Len(t) /\ j - Len(s) \in 1 .. Len(t)
        BY <1>1, <1>4
    <2> QED BY <1>1, <1>2, <2>1
<1> QED BY <1>3, <1>4

\* the events of an entry are together
LEMMA EntryApart ==
    ASSUME NEW n \in Nat, NEW d \in [1 .. n -> Item], NEW B, NEW T, Script(n, d, B, T),
           NEW p \in 1 .. n, NEW q \in 1 .. n, p # q, NEW j \in 1 .. Size(d[p])
    PROVE  B[p] + j <= B[q] \/ B[p] + j > B[q] + Size(d[q])
<1>1. B[p] \in Nat /\ B[q] \in Nat /\ Size(d[p]) \in Nat /\ Size(d[q]) \in Nat
    BY ScriptFits
<1>2. CASE p < q
    <2>1. B[p] + Size(d[p]) <= B[q]
        BY <1>2 DEF Script
    <2> QED BY <1>1, <2>1
<1>3. CASE q < p
    <2>1. B[q] + Size(d[q]) <= B[p]
        BY <1>3 DEF Script
    <2> QED BY <1>1, <2>1
<1> QED BY <1>2, <1>3

\* num bytes of an entry are put, after k of its address and its data
Puts1(e, x, k, num) ==
    \/ k = e.addrSent /\ x.addrSent = k + num /\ x.position = e.position
    \/ /\ e.mode = "WRITE" /\ e.addrSent = e.addrReq /\ x.addrSent = e.addrSent
       /\ k = e.addrReq + e.position /\ x.position = e.position + num

LEMMA PutsOfOne ==
    ASSUME NEW e \in Item, NEW x \in Item, Moves(e, x), NEW k \in Nat, NEW num \in Nat,
           Puts1(e, x, k, num)
    PROVE  /\ 1 + k + num <= Size(e) /\ k + num <= e.addrReq + e.length
           /\ k <= e.addrSent \/ (e.addrSent = e.addrReq /\ k <= e.addrReq + e.position)
           /\ k + num <= e.addrReq \/ (e.mode = "WRITE" /\ k >= e.addrReq)
<1> DEFINE r == e.addrReq
           len == e.length
           a == e.addrSent
           b == e.position
           c == x.addrSent
           f == x.position
           h == IF e.stop THEN 1 ELSE 0
<1>1. /\ r \in Nat /\ len \in Nat /\ a \in Nat /\ b \in Nat /\ a <= r /\ b <= len
      /\ c \in Nat /\ f \in Nat /\ c <= r /\ f <= len
    BY ItemTyped DEF Moves
<1>2. Size(e) = 1 + r + len + h /\ h \in Nat
    BY DEF Size
<1>3. \/ k = a /\ c = k + num
      \/ e.mode = "WRITE" /\ a = r /\ k = r + b /\ f = b + num
    BY DEF Puts1
<1> HIDE DEF r, len, a, b, c, f, h
<1>4. /\ 1 + k + num <= 1 + r + len + h /\ k + num <= r + len
      /\ k <= a \/ (a = r /\ k <= r + b)
      /\ k + num <= r \/ (e.mode = "WRITE" /\ k >= r)
    BY ONLY <1>1, <1>2, <1>3, k \in Nat, num \in Nat
<1> QED BY <1>2, <1>4 DEF r, len, a, b

LEMMA PutChanges ==
    ASSUME NEW n \in Nat, NEW d \in [1 .. n -> Item], NEW B, NEW T, Script(n, d, B, T),
           NEW q \in 1 .. n, NEW x \in Item, Moves(d[q], x), NEW k \in Nat, NEW num \in Nat,
           Puts1(d[q], x, k, num), NEW i \in 1 .. Len(T), T[i].ev = "WRITE"
    PROVE  Put([d EXCEPT ![q] = x], T[i]) <=>
               Put(d, T[i]) \/ (B[q] + 1 + k < i /\ i <= B[q] + 1 + k + num)
<1> DEFINE u == [d EXCEPT ![q] = x]
           e == d[q]
           y == B[q]
           z == Size(e)
<1>1. u \in [1 .. n -> Item] /\ SameFlags(n, d, u) /\ Script(n, u, B, T)
    BY FlagsOfOne, ScriptMoves
<1>2. PICK p \in 1 .. n : /\ B[p] \in Nat /\ i - B[p] \in 1 .. Size(d[p])
                          /\ i = B[p] + (i - B[p])
    <2>1. d \in [1 .. n -> Item] /\ Script(n, d, B, T) /\ i \in 1 .. Len(T) /\ n \in Nat
        OBVIOUS
    <2>2. \E p \in 1 .. n : PlacedAt(i, p, d, B)
        BY ONLY <2>1, EventPlaced
    <2> QED BY <2>2 DEF PlacedAt
<1> DEFINE j == i - B[p]
<1>3. j \in 1 .. Size(d[p]) /\ T[B[p] + j] = T[i] /\ T[B[p] + j].ev = "WRITE" /\ B[p] + j = i
      /\ j \in 1 .. Size(u[p]) /\ j \in Nat
    <2>1. Size(u[p]) = Size(d[p])
        BY <1>1 DEF SameFlags, Moves, Size
    <2> QED BY <1>2, <2>1
<1>4. y \in Nat /\ z \in Nat /\ e \in Item
    BY ScriptFits
<1>5. 1 + k + num <= z
    BY <1>4, PutsOfOne
<1> HIDE DEF j, u
<1>6. CASE p # q
    <2>1. T[i].q = p /\ u[p] = d[p]
        <3>1. LET w == T[B[p] + j]
                  v == d[p]
              IN  w.q = p /\ j > 1 /\ j <= 1 + v.addrReq + v.length
            BY <1>3, PutOf
        <3> QED BY <1>3, <1>6, <3>1 DEF u
    <2>2. Put(u, T[i]) <=> Put(d, T[i])
        BY <2>1 DEF Put
    <2>3. i <= y \/ i > y + z
        BY <1>3, <1>6, EntryApart
    <2>4. ~(y + 1 + k < i /\ i <= y + 1 + k + num)
        <3> HIDE DEF y, z
        <3> QED BY ONLY <1>4, <1>5, <2>3, k \in Nat, num \in Nat, i \in 1 .. Len(T)
    <2> QED BY <2>2, <2>4 DEF u
<1>7. CASE p = q
    <2> DEFINE P == Put(d, T[i])
               Q == Put(u, T[i])
               r == e.addrReq
               a == e.addrSent
               b == e.position
               c == x.addrSent
               f == x.position
    <2>1. /\ j <= 1 + r => (P <=> j - 1 <= a)
          /\ j > 1 + r => e.mode = "WRITE" /\ (P <=> j - 1 - r <= b)
        BY <1>3, <1>7, PutOf
    <2>2. u[q] = x /\ x.addrReq = r
        BY DEF u, Moves
    <2>3. /\ j <= 1 + r => (Q <=> j - 1 <= c)
          /\ j > 1 + r => (Q <=> j - 1 - r <= f)
        <3>1. /\ j <= 1 + u[q].addrReq => (Put(u, T[B[q] + j]) <=> j - 1 <= u[q].addrSent)
              /\ j > 1 + u[q].addrReq =>
                    (Put(u, T[B[q] + j]) <=> j - 1 - u[q].addrReq <= u[q].position)
            BY <1>1, <1>3, <1>7, PutOf
        <3> QED BY <1>3, <1>7, <2>2, <3>1
    <2>4. \/ k = a /\ c = k + num /\ f = b
          \/ a = r /\ c = a /\ k = r + b /\ f = b + num
        BY DEF Puts1
    <2>5. /\ r \in Nat /\ a \in Nat /\ b \in Nat /\ a <= r
          /\ c \in Nat /\ f \in Nat /\ c <= r
        <3>1. r \in Nat /\ a \in Nat /\ b \in Nat /\ a <= r
            BY <1>4, ItemTyped
        <3>2. c \in Nat /\ f \in Nat /\ c <= x.addrReq
            BY ItemTyped
        <3> QED BY <2>2, <3>1, <3>2
    <2>6. i = y + j
        BY <1>3, <1>7
    <2> HIDE DEF P, Q, r, a, b, c, f, y, e
    <2>7. ASSUME j <= 1 + r PROVE Q <=> P \/ (y + 1 + k < i /\ i <= y + 1 + k + num)
        <3>1. (P <=> j - 1 <= a) /\ (Q <=> j - 1 <= c)
            BY <2>1, <2>3, <2>7
        <3>2. Q <=> P \/ (y + 1 + k < i /\ i <= y + 1 + k + num)
            BY ONLY <1>3, <1>4, <2>4, <2>5, <2>6, <2>7, <3>1, k \in Nat, num \in Nat
        <3> QED BY <3>2
    <2>8. ASSUME j > 1 + r PROVE Q <=> P \/ (y + 1 + k < i /\ i <= y + 1 + k + num)
        <3>1. (P <=> j - 1 - r <= b) /\ (Q <=> j - 1 - r <= f)
            BY <2>1, <2>3, <2>8
        <3>2. Q <=> P \/ (y + 1 + k < i /\ i <= y + 1 + k + num)
            BY ONLY <1>3, <1>4, <2>4, <2>5, <2>6, <2>8, <3>1, k \in Nat, num \in Nat
        <3> QED BY <3>2
    <2>9. Q <=> P \/ (y + 1 + k < i /\ i <= y + 1 + k + num)
        <3>1. j <= 1 + r \/ j > 1 + r
            BY ONLY <1>3, <2>5
        <3> QED BY <2>7, <2>8, <3>1
    <2> QED BY <2>9 DEF P, Q, y, u
<1> QED BY <1>6, <1>7

\* its next byte is not put before
LEMMA NextToPut ==
    ASSUME NEW n \in Nat, NEW d \in [1 .. n -> Item], NEW B, NEW T, Script(n, d, B, T),
           NEW q \in 1 .. n, NEW x \in Item, Moves(d[q], x), NEW k \in Nat, NEW num \in Nat \ {0},
           Puts1(d[q], x, k, num), 1 + k + 1 \in 1 .. Size(d[q]), T[B[q] + (1 + k + 1)].ev = "WRITE"
    PROVE  ~Put(d, T[B[q] + (1 + k + 1)])
<1> DEFINE j == 1 + k + 1
           e == d[q]
           P == Put(d, T[B[q] + j])
           a == e.addrSent
           b == e.position
           r == e.addrReq
<1>1. /\ j <= 1 + r => (P <=> j - 1 <= a)
      /\ j > 1 + r => (P <=> j - 1 - r <= b)
    <2>1. j \in 1 .. Size(d[q]) /\ j \in Nat /\ T[B[q] + j].ev = "WRITE"
        OBVIOUS
    <2> HIDE DEF j
    <2> QED BY <2>1, PutOf
<1>2. \/ k = a /\ k + num <= r
      \/ k = r + b
    <2>1. x.addrSent <= x.addrReq /\ x.addrReq = r
        BY ItemTyped DEF Moves
    <2> QED BY <2>1 DEF Puts1
<1>3. a \in Nat /\ b \in Nat /\ r \in Nat
    <2>1. e \in Item
        OBVIOUS
    <2> HIDE DEF e
    <2> QED BY <2>1, ItemTyped
<1> HIDE DEF P, a, b, r
<1>4. ~P
    BY ONLY <1>1, <1>2, <1>3, k \in Nat, num \in Nat \ {0}
<1> QED BY <1>4 DEF P

\* the bytes t of entry q, which becomes x, go into the FIFO of s
Putting(n, B, T, lo, s, q, x, k, t) ==
    /\ s \in Puts(n, B, T, lo) /\ q \in 1 .. n /\ q = s.at
    /\ x \in Item /\ Moves(s.dq[q], x)
    /\ k \in Nat /\ t \in Seq(TxByte) /\ Len(t) \in Nat /\ Puts1(s.dq[q], x, k, Len(t))
    /\ \A i \in 1 .. Len(t) : /\ t[i].q = q /\ t[i].b = k + i - 1 - s.dq[q].addrReq
                              /\ t[i].b < 0 => t[i].rw = 1

LEMMA PutsGrow ==
    ASSUME NEW n \in Nat, NEW B, NEW T, Len(T) \in Nat, NEW lo \in Nat,
           NEW s, NEW q, NEW x, NEW k, NEW t, Putting(n, B, T, lo, s, q, x, k, t)
    PROVE  \E g \in lo .. Len(T) : /\ PutUpTo(T, [s.dq EXCEPT ![q] = x], g)
                                   /\ Window(T, "WRITE", lo, g, s.tx \o t)
<1> DEFINE num == Len(t)
<1>0. /\ s \in Puts(n, B, T, lo) /\ q \in 1 .. n /\ q = s.at
      /\ x \in Item /\ Moves(s.dq[q], x)
      /\ k \in Nat /\ num \in Nat /\ Puts1(s.dq[q], x, k, num)
      /\ t \in Seq(TxByte) /\ Len(t) = num
      /\ \A i \in 1 .. num : t[i].q = q /\ t[i].b = k + i - 1 - s.dq[q].addrReq
    BY DEF Putting
<1> HIDE DEF num
<1> DEFINE d == s.dq
           u == [d EXCEPT ![q] = x]
           e == d[q]
           r == e.addrReq
           y == B[q]
           h == y + 1 + k
<1>1. /\ d \in [1 .. n -> Item] /\ e \in Item /\ s.tx \in Seq(TxByte)
      /\ Script(n, d, B, T) /\ \A p \in 1 .. n : p < q => EntryPut(d[p])
    BY <1>0 DEF Puts, Sending, TxFifo
<1>2. PICK g \in lo .. Len(T) : PutUpTo(T, d, g) /\ Window(T, "WRITE", lo, g, s.tx)
    BY <1>0 DEF Puts
<1> HIDE DEF d
<1>3. /\ 1 + k + num <= Size(e) /\ k + num <= r + e.length
      /\ k <= e.addrSent \/ (e.addrSent = r /\ k <= r + e.position)
      /\ k + num <= r \/ (e.mode = "WRITE" /\ k >= r)
    <2>1. Puts1(e, x, k, num) /\ Moves(e, x)
        BY <1>0 DEF d
    <2> HIDE DEF e
    <2>2. /\ 1 + k + num <= Size(e) /\ k + num <= e.addrReq + e.length
          /\ k <= e.addrSent \/ (e.addrSent = e.addrReq /\ k <= e.addrReq + e.position)
          /\ k + num <= e.addrReq \/ (e.mode = "WRITE" /\ k >= e.addrReq)
        BY <1>0, <1>1, <2>1, PutsOfOne
    <2> QED BY <2>2
<1>4. y \in Nat /\ Size(e) \in Nat /\ y + Size(e) <= Len(T)
    BY <1>0, <1>1, ScriptFits
<1>5. r \in Nat /\ e.length \in Nat /\ e.addrSent \in Nat /\ e.position \in Nat
    <2> HIDE DEF e
    <2> QED BY <1>1, ItemTyped
<1>6. h \in Nat /\ h + num <= Len(T)
    <2> DEFINE z == Size(e)
    <2> HIDE DEF z, y
    <2> QED BY <1>0, <1>3, <1>4 DEF z
<1>7. ASSUME NEW i \in 1 .. num
      PROVE  LET w == T[h + i] IN /\ Matches(w, "WRITE", t[i])
                                  /\ w = T[y + (1 + k + i)] /\ 1 + k + i \in 1 .. Size(e)
    <2> DEFINE j == 1 + k + i
               z == Size(e)
    <2>1. j \in 1 .. z /\ j \in Nat /\ j > 1 /\ h + i = y + j /\ j - 2 - r = k + i - 1 - r
        <3>1. 1 + k + num <= z /\ z \in Nat /\ y \in Nat /\ r \in Nat
            BY <1>3, <1>4, <1>5
        <3>2. i \in Nat /\ 1 <= i /\ i <= num
            BY <1>0
        <3> HIDE DEF z, y, r
        <3>3. j \in 1 .. z
            BY ONLY <3>1, <3>2, <1>0
        <3>4. j \in Nat /\ j > 1 /\ h + i = y + j
            BY ONLY <3>1, <3>2, <1>0
        <3>5. j - 2 - r = k + i - 1 - r
            BY ONLY <3>1, <3>2, <1>0
        <3> QED BY <3>3, <3>4, <3>5
    <2>2. T[h + i] = EventOf(e, q, j)
        <3> HIDE DEF j, h
        <3>1. T[B[q] + j] = EventOf(d[q], q, j)
            BY <1>0, <1>1, <2>1 DEF Script
        <3> QED BY <2>1, <3>1
    <2>3. LET v == EventOf(e, q, j) IN v.ev = "WRITE" /\ v.q = q /\ v.b = j - 2 - r
        <3> DEFINE Ok == LET v == EventOf(e, q, j) IN v.ev = "WRITE" /\ v.q = q /\ v.b = j - 2 - r
        <3>1. ASSUME k + num <= r PROVE Ok
            <4>1. j <= 1 + r
                <5>1. i <= num /\ i \in Nat
                    BY <1>0
                <5> HIDE DEF r
                <5> QED BY <1>0, <1>5, <3>1, <5>1
            <4> HIDE DEF j, e
            <4> QED BY <1>1, <2>1, <4>1, EventAddress DEF e
        <3>2. ASSUME e.mode = "WRITE" /\ k >= r PROVE Ok
            <4>1. j > 1 + r /\ j <= 1 + r + e.length
                <5> DEFINE len == e.length
                <5>1. k + num <= r + len /\ r \in Nat /\ len \in Nat /\ k >= r
                    BY <1>3, <1>5, <3>2
                <5>2. i \in Nat /\ 1 <= i /\ i <= num
                    BY <1>0
                <5> HIDE DEF r, len
                <5>3. j > 1 + r /\ j <= 1 + r + len
                    BY ONLY <5>1, <5>2, <1>0
                <5> QED BY <5>3 DEF len
            <4>2. e \in Item /\ e.mode = "WRITE"
                BY <1>1, <3>2
            <4> HIDE DEF j, e
            <4>3. LET v == EventOf(e, q, j) IN v.ev = e.mode /\ v.q = q /\ v.b = j - 2 - e.addrReq
                BY ONLY <2>1, <4>1, <4>2, EventData DEF e
            <4> QED BY ONLY <4>2, <4>3
        <3>3. k + num <= r \/ (e.mode = "WRITE" /\ k >= r)
            BY <1>3
        <3>4. Ok
            <4> HIDE DEF Ok
            <4> QED BY ONLY <3>1, <3>2, <3>3
        <3> QED BY <3>4
    <2>4. t[i].q = q /\ t[i].b = k + i - 1 - r
        BY <1>0 DEF d
    <2> HIDE DEF j, h, e, r, y
    <2>5. LET w == T[h + i] IN w.ev = "WRITE" /\ w.q = t[i].q /\ w.b = t[i].b
        BY ONLY <2>1, <2>2, <2>3, <2>4
    <2>6. T[h + i] = T[y + j] /\ j \in 1 .. z
        BY <2>1
    <2> QED BY <2>5, <2>6 DEF Matches, j, h, e, r, y
<1>8. ASSUME NEW i \in 1 .. Len(T), i <= h, T[i].ev = "WRITE" PROVE Put(d, T[i])
    BY <1>0, <1>1, <1>3, <1>8, PutBefore
<1>9. ASSUME NEW i \in 1 .. Len(T), T[i].ev = "WRITE"
      PROVE  Put(u, T[i]) <=> Put(d, T[i]) \/ (h < i /\ i <= h + num)
    <2>1. Puts1(d[q], x, k, num) /\ Moves(d[q], x)
        BY <1>0 DEF d
    <2> HIDE DEF e
    <2>2. Put(u, T[i]) <=> Put(d, T[i]) \/ (B[q] + 1 + k < i /\ i <= B[q] + 1 + k + num)
        <3>1. q \in 1 .. n /\ x \in Item /\ k \in Nat /\ num \in Nat
            BY <1>0
        <3> QED BY ONLY <1>1, <1>9, <2>1, <3>1, PutChanges, n \in Nat DEF u
    <2> QED BY <2>2
<1>10. ASSUME num # 0 PROVE ~Put(d, T[h + 1])
    <2> DEFINE j == 1 + k + 1
    <2>1. 1 \in 1 .. num /\ num \in Nat \ {0}
        BY <1>0, <1>10
    <2>2. T[h + 1].ev = "WRITE" /\ T[h + 1] = T[y + j] /\ j \in 1 .. Size(e)
        BY <1>7, <2>1 DEF Matches
    <2>3. Puts1(d[q], x, k, num) /\ Moves(d[q], x)
        BY <1>0 DEF d
    <2> HIDE DEF j, h
    <2>4. ~Put(d, T[B[q] + j])
        BY <1>0, <1>1, <2>1, <2>2, <2>3, NextToPut DEF j
    <2> QED BY <2>2, <2>4
<1>11. \A i \in 1 .. Len(t) : Matches(T[h + i], "WRITE", t[i])
    BY <1>0, <1>7
<1>12. Len(t) # 0 => ~Put(d, T[h + 1])
    BY <1>0, <1>10
<1> HIDE DEF h, u
<1>13. \E v \in lo .. Len(T) : PutUpTo(T, u, v) /\ Window(T, "WRITE", lo, v, s.tx \o t)
    BY <1>0, <1>1, <1>2, <1>6, <1>8, <1>9, <1>11, <1>12, PutMore
<1> QED BY <1>13 DEF u, d

PutInto(u, s, q, x, t) == u.tx = s.tx \o t /\ u.dq = [s.dq EXCEPT ![q] = x] /\ u.at = q

LEMMA PutsStep ==
    ASSUME NEW n \in Nat, NEW B, NEW T, Len(T) \in Nat, NEW lo \in Nat,
           NEW s, NEW q, NEW x, NEW k, NEW t, Putting(n, B, T, lo, s, q, x, k, t),
           NEW u \in Sending(n), PutInto(u, s, q, x, t)
    PROVE  u \in Puts(n, B, T, lo)
<1>0. u.tx = s.tx \o t /\ u.dq = [s.dq EXCEPT ![q] = x] /\ u.at = q
    BY DEF PutInto
<1>1. /\ s \in Puts(n, B, T, lo) /\ q \in 1 .. n /\ q = s.at
      /\ x \in Item /\ Moves(s.dq[q], x) /\ t \in Seq(TxByte)
      /\ \A i \in 1 .. Len(t) : t[i].b < 0 => t[i].rw = 1
    BY DEF Putting
<1>2. /\ s.dq \in [1 .. n -> Item] /\ s.tx \in Seq(TxByte) /\ Script(n, s.dq, B, T)
      /\ \A r \in 1 .. n : r < q => EntryPut(s.dq[r])
      /\ \A r \in 1 .. n : s.dq[r].rw = 1
      /\ \A j \in 1 .. Len(s.tx) : s.tx[j].b < 0 => s.tx[j].rw = 1
    BY <1>1 DEF Puts, Sending, TxFifo
<1>3. \E g \in lo .. Len(T) : PutUpTo(T, u.dq, g) /\ Window(T, "WRITE", lo, g, u.tx)
    <2>1. \E g \in lo .. Len(T) : /\ PutUpTo(T, [s.dq EXCEPT ![q] = x], g)
                                  /\ Window(T, "WRITE", lo, g, s.tx \o t)
        BY PutsGrow
    <2> QED BY <1>0, <2>1
<1>4. Script(n, u.dq, B, T)
    <2>1. SameFlags(n, s.dq, u.dq)
        <3>1. SameFlags(n, s.dq, [s.dq EXCEPT ![q] = x])
            BY ONLY n \in Nat, <1>1, <1>2, FlagsOfOne
        <3> QED BY <1>0, <3>1
    <2> QED BY <1>2, <2>1, ScriptMoves
<1>5. \A r \in 1 .. n : u.dq[r].rw = 1 /\ (r < q => EntryPut(u.dq[r]))
    BY <1>0, <1>1, <1>2 DEF Moves
<1>6. \A j \in 1 .. Len(u.tx) : u.tx[j].b < 0 => u.tx[j].rw = 1
    BY <1>0, <1>1, <1>2, Shifted
<1> QED BY <1>0, <1>3, <1>4, <1>5, <1>6 DEF Puts

\* what is the same after the address of entry q, and after its data
AddressPut(n, q, s, u) ==
    /\ u.at = q /\ u.met = s.met /\ u.queuePos = s.queuePos
    /\ \A r \in 1 .. n : r # q => u.dq[r] = s.dq[r]
    /\ u.dq[q].position = s.dq[q].position
    /\ Room(u.tx) => u.dq[q].addrSent = u.dq[q].addrReq

DataPut(n, q, s, u) ==
    /\ u.at = q /\ u.met = s.met /\ u.queuePos = s.queuePos
    /\ \A r \in 1 .. n : r # q => u.dq[r] = s.dq[r]
    /\ u.dq[q].mode = "READ" => u.dq[q].position = s.dq[q].position
    /\ u.dq[q].mode = s.dq[q].mode
    /\ Room(u.tx) => EntryPut(u.dq[q])

LEMMA SendAddressPuts ==
    ASSUME NEW n \in Nat, NEW B, NEW T, Len(T) \in Nat, NEW lo \in Nat, NEW s \in Puts(n, B, T, lo),
           NEW q \in 1 .. n, q = s.at, Room(s.tx)
    PROVE  /\ SendAddress(s, q) \in Puts(n, B, T, lo)
           /\ AddressPut(n, q, s, SendAddress(s, q))
<1> DEFINE e   == s.dq[q]
           r   == e.addrReq
           a   == e.addrSent
           num == IF e.addrReq = e.addrSent THEN 0
                  ELSE IF e.addrReq - e.addrSent = 2 /\ Len(s.tx) = FifoLen - 2 THEN 1
                  ELSE e.addrReq - e.addrSent
           b   == SubSeq(AddressBytes(e, q), 1, num)
           x   == [e EXCEPT !.addrSent = @ + num]
           u   == SendAddress(s, q)
<1>1. /\ s \in Sending(n) /\ e \in Item /\ s.tx \in Seq(TxByte) /\ Len(s.tx) \in Nat
      /\ Len(s.tx) < FifoLen - 1 /\ FifoLen \in Nat /\ e.rw = 1 /\ s.dq \in [1 .. n -> Item]
    BY CommandsAssumption DEF Puts, Sending, TxFifo, Room
<1>2. r \in {1, 2} /\ r \in Nat /\ a \in Nat /\ a <= r
    <2> HIDE DEF e
    <2> QED BY <1>1, ItemTyped
<1>3. /\ num \in Nat /\ a + num <= r
      /\ num = r - a \/ (Len(s.tx) = FifoLen - 2 /\ num = 1)
    <2> HIDE DEF e
    <2> QED BY <1>1, <1>2
<1> HIDE DEF num
<1>4. /\ b \in Seq(TxByte) /\ Len(b) = num
      /\ \A i \in 1 .. num : b[i].q = q /\ b[i].b = a + i - 1 - r /\ b[i].rw = 1
    <2> DEFINE m == r - a
               f == AddressBytes(e, q)
    <2>1. m \in Nat /\ num <= m
        <3> HIDE DEF r, a
        <3> QED BY <1>2, <1>3
    <2>2. /\ f \in [1 .. m -> TxByte]
          /\ \A i \in 1 .. m : f[i] = [q |-> q, b |-> a + i - 1 - r, rw |-> 1]
        <3> HIDE DEF e
        <3> QED BY <1>1, <1>2 DEF AddressBytes, TxByte
    <2> HIDE DEF m, f
    <2>3. f \in Seq(TxByte) /\ Len(f) = m
        BY <2>1, <2>2, Listing
    <2>4. SubSeq(f, 1, num) \in Seq(TxByte) /\ Len(SubSeq(f, 1, num)) = num
        BY <1>3, <2>1, <2>3
    <2>5. ASSUME NEW i \in 1 .. num PROVE SubSeq(f, 1, num)[i] = f[i] /\ i \in 1 .. m
        BY <1>3, <2>1, <2>3
    <2>6. ASSUME NEW i \in 1 .. num
          PROVE  SubSeq(f, 1, num)[i] = [q |-> q, b |-> a + i - 1 - r, rw |-> 1]
        BY <2>2, <2>5
    <2>7. b = SubSeq(f, 1, num)
        BY DEF f
    <2> HIDE DEF r, a, b
    <2>8. ASSUME NEW i \in 1 .. num PROVE b[i].q = q /\ b[i].b = a + i - 1 - r /\ b[i].rw = 1
        <3>1. b[i] = [q |-> q, b |-> a + i - 1 - r, rw |-> 1]
            BY <2>6, <2>7
        <3> QED BY ONLY <3>1
    <2> QED BY <2>4, <2>7, <2>8
<1> HIDE DEF b
<1>5. x \in Item /\ Moves(e, x) /\ x.addrSent = a + num /\ x.position = e.position
    <2>1. /\ e.addrReq \in {1, 2} /\ e.addrSent \in Nat /\ num \in Nat
          /\ e.addrSent + num <= e.addrReq /\ e \in Item
        BY <1>1, <1>2, <1>3
    <2> HIDE DEF e
    <2>2. x \in Item
        BY <2>1 DEF Item
    <2>3. Moves(e, x) /\ x.addrSent = e.addrSent + num /\ x.position = e.position
        BY <2>1 DEF Item, Moves
    <2> QED BY <2>2, <2>3
<1>6. u = [s EXCEPT !.tx = @ \o b, !.dq[q].addrSent = @ + num]
    BY DEF SendAddress, num, b
<1>7. u \in Sending(n)
    BY <1>1, SendAddressTyped
<1> HIDE DEF u
<1>8. u.tx = s.tx \o b /\ u.at = q /\ u.met = s.met /\ u.queuePos = s.queuePos
    BY <1>1, <1>6 DEF Sending
<1>9. u.dq = [s.dq EXCEPT ![q] = x]
    BY <1>1, <1>6 DEF Sending
<1> HIDE DEF x
<1>10. Puts1(e, x, a, num)
    BY <1>5 DEF Puts1
<1>11. Putting(n, B, T, lo, s, q, x, a, b)
    <2>1. a \in Nat /\ num \in Nat /\ Len(b) = num /\ b \in Seq(TxByte)
          /\ x \in Item /\ Moves(s.dq[q], x) /\ Puts1(s.dq[q], x, a, num)
        BY <1>2, <1>3, <1>4, <1>5, <1>10
    <2>2. \A i \in 1 .. num : /\ b[i].q = q /\ b[i].b = a + i - 1 - s.dq[q].addrReq
                              /\ b[i].b < 0 => b[i].rw = 1
        BY <1>4
    <2> HIDE DEF a
    <2> QED BY <2>1, <2>2 DEF Putting
<1>13. u \in Puts(n, B, T, lo)
    <2> HIDE DEF a
    <2>1. n \in Nat /\ Len(T) \in Nat /\ lo \in Nat
        OBVIOUS
    <2>2. PutInto(u, s, q, x, b)
        BY <1>8, <1>9 DEF PutInto
    <2> QED BY ONLY <1>7, <1>11, <2>1, <2>2, PutsStep
<1>14. (\A p \in 1 .. n : p # q => u.dq[p] = s.dq[p]) /\ u.dq[q] = x
    BY <1>1, <1>9
<1>15. ASSUME Room(u.tx) PROVE x.addrSent = x.addrReq
    <2>1. Len(u.tx) = Len(s.tx) + num
        <3>1. s.tx \in Seq(TxByte) /\ b \in Seq(TxByte) /\ Len(b) = num
            BY <1>1, <1>4
        <3>2. Len(s.tx \o b) = Len(s.tx) + Len(b)
            BY ONLY <3>1, Joined
        <3> QED BY ONLY <1>8, <3>1, <3>2
    <2>2. ~(Len(s.tx) = FifoLen - 2 /\ num = 1)
        BY <1>1, <1>15, <2>1 DEF Room
    <2>3. num = r - a /\ x.addrReq = r
        BY <1>3, <1>5, <2>2 DEF Moves
    <2> HIDE DEF r, a
    <2> QED BY <1>2, <1>5, <2>3
<1> QED BY <1>5, <1>8, <1>13, <1>14, <1>15 DEF u, AddressPut

LEMMA SendDataPuts ==
    ASSUME NEW n \in Nat, NEW B, NEW T, Len(T) \in Nat, NEW lo \in Nat, NEW s \in Puts(n, B, T, lo),
           NEW q \in 1 .. n, q = s.at, Room(s.tx) => s.dq[q].addrSent = s.dq[q].addrReq
    PROVE  SendData(s, q) \in Puts(n, B, T, lo) /\ DataPut(n, q, s, SendData(s, q))
<1> DEFINE e   == s.dq[q]
           r   == e.addrReq
           a   == e.position
           len == e.length
           num == LesserOf(FifoLen - Len(s.tx), e.length - e.position)
           b   == DataBytes(e, q, num)
           x   == [e EXCEPT !.position = @ + num]
           u   == SendData(s, q)
<1>1. /\ s \in Sending(n) /\ e \in Item /\ s.tx \in Seq(TxByte) /\ Len(s.tx) \in Nat
      /\ Len(s.tx) <= FifoLen /\ FifoLen \in Nat /\ s.dq \in [1 .. n -> Item]
    BY CommandsAssumption DEF Puts, Sending, TxFifo
<1>2. r \in Nat /\ a \in Nat /\ len \in Nat /\ a <= len /\ e.mode \in {"READ", "WRITE"}
    <2> HIDE DEF e
    <2> QED BY <1>1, ItemTyped
<1>3. CASE ~(e.mode = "WRITE" /\ e.addrSent = e.addrReq)
    <2>1. u = s
        BY <1>3 DEF SendData
    <2>2. Room(s.tx) => EntryPut(e)
        BY <1>2, <1>3 DEF EntryPut
    <2> QED BY <2>1, <2>2 DEF DataPut
<1>4. CASE e.mode = "WRITE" /\ e.addrSent = e.addrReq
    <2>1. /\ num \in Nat /\ a + num <= len /\ Len(s.tx) + num <= FifoLen
          /\ num = len - a \/ Len(s.tx) + num = FifoLen
        <3> HIDE DEF e
        <3> QED BY <1>1, <1>2 DEF LesserOf
    <2>2. u = [s EXCEPT !.tx = @ \o b, !.dq[q].position = @ + num]
        BY <1>4 DEF SendData
    <2>3. u \in Sending(n)
        BY <1>1, SendDataTyped
    <2> HIDE DEF num, u
    <2>4. /\ b \in Seq(TxByte) /\ Len(b) = num
          /\ \A i \in 1 .. num : b[i].q = q /\ b[i].b = a + i - 1
        <3> DEFINE f == DataBytes(e, q, num)
        <3>1. /\ f \in [1 .. num -> TxByte]
              /\ \A i \in 1 .. num : f[i].q = q /\ f[i].b = a + i - 1
            <4> HIDE DEF e
            <4> QED BY <1>2, <2>1 DEF DataBytes, TxByte
        <3> HIDE DEF f
        <3>2. f \in Seq(TxByte) /\ Len(f) = num
            BY <2>1, <3>1, Listing
        <3> QED BY <3>1, <3>2 DEF f
    <2> HIDE DEF b
    <2>5. x \in Item /\ Moves(e, x) /\ x.addrSent = e.addrSent /\ x.position = a + num
        <3>1. x \in Item
            BY <1>1, <2>1, Advanced
        <3> HIDE DEF e
        <3> QED BY <1>1, <3>1 DEF Item, Moves
    <2>6. u.tx = s.tx \o b /\ u.at = q /\ u.met = s.met /\ u.queuePos = s.queuePos
        BY <1>1, <2>2 DEF Sending
    <2>7. u.dq = [s.dq EXCEPT ![q] = x]
        BY <1>1, <2>2 DEF Sending
    <2> HIDE DEF x
    <2>8. Puts1(e, x, r + a, num) /\ r + a \in Nat
        BY <1>2, <1>4, <2>5 DEF Puts1
    <2>9. \A i \in 1 .. num : b[i].q = q /\ b[i].b = (r + a) + i - 1 - s.dq[q].addrReq
        <3>1. ASSUME NEW i \in 1 .. num PROVE (r + a) + i - 1 - r = a + i - 1
            <4> HIDE DEF r, a
            <4> QED BY <1>2
        <3> QED BY <2>4, <3>1
    <2>10. \A i \in 1 .. num : b[i].b < 0 => b[i].rw = 1
        <3>1. ASSUME NEW i \in 1 .. num PROVE ~(a + i - 1 < 0)
            <4> HIDE DEF a
            <4> QED BY <1>2
        <3> QED BY <2>4, <3>1
    <2>11. u \in Puts(n, B, T, lo)
        <3> DEFINE k == r + a
        <3>1. k \in Nat /\ num \in Nat /\ Len(b) = num /\ b \in Seq(TxByte)
              /\ x \in Item /\ Moves(s.dq[q], x) /\ Puts1(s.dq[q], x, k, num)
              /\ \A i \in 1 .. num : b[i].q = q /\ b[i].b = k + i - 1 - s.dq[q].addrReq
            BY <2>1, <2>4, <2>5, <2>8, <2>9
        <3> HIDE DEF k
        <3>2. Putting(n, B, T, lo, s, q, x, k, b)
            BY <2>10, <3>1 DEF Putting
        <3>3. n \in Nat /\ Len(T) \in Nat /\ lo \in Nat
            OBVIOUS
        <3>4. PutInto(u, s, q, x, b)
            BY <2>6, <2>7 DEF PutInto
        <3> QED BY ONLY <2>3, <3>2, <3>3, <3>4, PutsStep
    <2>12. (\A p \in 1 .. n : p # q => u.dq[p] = s.dq[p]) /\ u.dq[q] = x
        BY <1>1, <2>7
    <2>13. ASSUME Room(u.tx) PROVE EntryPut(x)
        <3>1. Len(u.tx) = Len(s.tx) + num
            <4>1. s.tx \in Seq(TxByte) /\ b \in Seq(TxByte) /\ Len(b) = num
                BY <1>1, <2>4
            <4>2. Len(s.tx \o b) = Len(s.tx) + Len(b)
                BY ONLY <4>1, Joined
            <4> QED BY ONLY <2>6, <4>1, <4>2
        <3>2. num = len - a
            BY <1>1, <2>1, <2>13, <3>1 DEF Room
        <3>3. x.position = x.length
            <4>1. x.position = a + num /\ x.length = len
                BY <2>5 DEF Moves
            <4> HIDE DEF a, len
            <4> QED BY <1>2, <3>2, <4>1
        <3> QED BY <1>4, <2>5, <3>3 DEF EntryPut, Moves
    <2>14. x.mode = e.mode /\ x.mode # "READ"
        BY <1>4, <2>5 DEF Moves
    <2> QED BY <2>6, <2>11, <2>12, <2>13, <2>14 DEF u, DataPut
<1> QED BY <1>3, <1>4

LEMMA PutsKept ==
    ASSUME NEW n \in Nat, NEW B, NEW T, NEW lo, NEW s \in Puts(n, B, T, lo),
           NEW u \in Sending(n), u.dq = s.dq, u.tx = s.tx,
           u.at = s.at \/ (u.at = s.at + 1 /\ s.at \in 1 .. n /\ EntryPut(s.dq[s.at]))
    PROVE  u \in Puts(n, B, T, lo)
<1>1. ASSUME NEW r \in 1 .. n, r < u.at PROVE EntryPut(u.dq[r])
    <2>1. s.at \in 1 .. n + 1
        BY DEF Puts, Sending
    <2>2. r < s.at \/ (r = s.at /\ EntryPut(s.dq[s.at]))
        BY <1>1, <2>1
    <2> QED BY <2>2 DEF Puts
<1> QED BY <1>1 DEF Puts

EntrySent(n, s, u) ==
    LET q == s.at
    IN  /\ SameFlags(n, s.dq, u.dq)
        /\ \A r \in 1 .. n : r # q => u.dq[r] = s.dq[r]
        /\ s.dq[q].mode = "READ" => u.dq[q].position = s.dq[q].position
        /\ u.at \in {q, q + 1}
        /\ \/ /\ s.dq[q].mode = "READ" /\ ~s.met /\ u.met
              /\ u.queuePos = IF q > s.queuePos THEN q ELSE s.queuePos
           \/ /\ ~(s.dq[q].mode = "READ" /\ ~s.met)
              /\ u.met = s.met /\ u.queuePos = s.queuePos

LEMMA SendEntryDoes ==
    ASSUME NEW n \in Nat, NEW B, NEW T, Len(T) \in Nat, NEW lo \in Nat, NEW s \in Puts(n, B, T, lo),
           s.at <= n, Room(s.tx)
    PROVE  SendEntry(s) \in Puts(n, B, T, lo) /\ EntrySent(n, s, SendEntry(s))
<1> DEFINE q == s.at
           a == SendAddress(s, q)
           d == SendData(a, q)
           t == MeetRead(d, q)
           u == SendEntry(s)
<1>1. s \in Sending(n) /\ Len(s.dq) = n /\ q \in 1 .. n /\ s.queuePos \in 1 .. n + 1
    BY DEF Puts, Sending
<1>2. /\ a \in Puts(n, B, T, lo) /\ a.at = q /\ a.met = s.met /\ a.queuePos = s.queuePos
      /\ \A r \in 1 .. n : r # q => a.dq[r] = s.dq[r]
      /\ a.dq[q].position = s.dq[q].position
      /\ Room(a.tx) => a.dq[q].addrSent = a.dq[q].addrReq
      /\ SameFlags(n, s.dq, a.dq) /\ a \in Sending(n)
    <2>0. n \in Nat /\ Len(T) \in Nat /\ lo \in Nat /\ s \in Puts(n, B, T, lo) /\ Room(s.tx)
          /\ s \in Sending(n) /\ q \in 1 .. n /\ q = s.at
        BY <1>1
    <2> HIDE DEF q
    <2>1. a \in Puts(n, B, T, lo) /\ AddressPut(n, q, s, a)
        BY ONLY <2>0, SendAddressPuts
    <2>2. LET w == SendAddress(s, q)
          IN  SameFlags(n, s.dq, w.dq) /\ w.queuePos = s.queuePos
        BY ONLY <2>0, SendAddressFlags
    <2>3. SendAddress(s, q) \in Sending(n)
        BY ONLY <2>0, SendAddressTyped
    <2> QED BY ONLY <2>1, <2>2, <2>3 DEF AddressPut
<1> HIDE DEF a
<1>3. /\ d \in Puts(n, B, T, lo) /\ d.at = q /\ d.met = a.met /\ d.queuePos = a.queuePos
      /\ \A r \in 1 .. n : r # q => d.dq[r] = a.dq[r]
      /\ d.dq[q].mode = "READ" => d.dq[q].position = a.dq[q].position
      /\ Room(d.tx) => EntryPut(d.dq[q])
      /\ SameFlags(n, a.dq, d.dq) /\ d \in Sending(n)
    <2>0. n \in Nat /\ Len(T) \in Nat /\ lo \in Nat /\ a \in Puts(n, B, T, lo)
          /\ (Room(a.tx) => a.dq[q].addrSent = a.dq[q].addrReq)
          /\ a \in Sending(n) /\ q \in 1 .. n /\ q = a.at
        BY <1>1, <1>2
    <2> HIDE DEF q
    <2>1. d \in Puts(n, B, T, lo) /\ DataPut(n, q, a, d)
        BY ONLY <2>0, SendDataPuts
    <2>2. LET w == SendData(a, q)
          IN  SameFlags(n, a.dq, w.dq) /\ w.queuePos = a.queuePos
        BY ONLY <2>0, SendDataFlags
    <2>3. SendData(a, q) \in Sending(n)
        BY ONLY <2>0, SendDataTyped
    <2> QED BY ONLY <2>1, <2>2, <2>3 DEF DataPut
<1> HIDE DEF d
<1>4. SameFlags(n, s.dq, d.dq)
    BY <1>2, <1>3, FlagsTogether
<1>5. d.dq[q].mode = s.dq[q].mode
    BY <1>1, <1>4 DEF SameFlags, Moves
<1> DEFINE v == IF q > d.queuePos THEN q ELSE d.queuePos
           m == s.dq[q].mode = "READ" /\ ~s.met
<1>6. v \in 1 .. n + 1 /\ d.queuePos \in 1 .. n + 1
    BY <1>1, <1>2, <1>3
<1>7. t = IF m THEN [d EXCEPT !.met = TRUE, !.queuePos = v] ELSE d
    BY <1>2, <1>3, <1>5 DEF MeetRead
<1> HIDE DEF v, t, m
<1>8. /\ t \in Sending(n) /\ t.dq = d.dq /\ t.tx = d.tx /\ t.at = q
      /\ m => t.met /\ t.queuePos = v
      /\ ~m => t.met = d.met /\ t.queuePos = d.queuePos
    <2>1. CASE m
        <3>1. t = [d EXCEPT !.met = TRUE, !.queuePos = v]
            BY <1>7, <2>1
        <3> QED BY ONLY <1>3, <1>6, <2>1, <3>1 DEF Sending
    <2>2. CASE ~m
        BY <1>3, <1>7, <2>2
    <2> QED BY <2>1, <2>2
<1>9. u = IF Room(t.tx) THEN [t EXCEPT !.at = @ + 1] ELSE t
    BY <1>1 DEF SendEntry, t, d, a
<1>10. u \in Sending(n)
    BY <1>1, SendEntryTyped
<1> HIDE DEF u
<1>11. /\ u.dq = d.dq /\ u.tx = d.tx /\ u.met = t.met /\ u.queuePos = t.queuePos
       /\ u.at = q \/ (u.at = q + 1 /\ Room(d.tx))
    <2>1. CASE Room(t.tx)
        <3>1. u = [t EXCEPT !.at = @ + 1]
            BY <1>9, <2>1
        <3> HIDE DEF q
        <3> QED BY <1>8, <2>1, <3>1 DEF Sending
    <2>2. CASE ~Room(t.tx)
        BY <1>8, <1>9, <2>2
    <2> QED BY <2>1, <2>2
<1>12. u \in Puts(n, B, T, lo)
    BY <1>1, <1>3, <1>10, <1>11, PutsKept
<1>13. \/ s.dq[q].mode = "READ" /\ ~s.met /\ u.met /\ u.queuePos = v
       \/ ~(s.dq[q].mode = "READ" /\ ~s.met) /\ u.met = s.met /\ u.queuePos = s.queuePos
    BY <1>2, <1>3, <1>8, <1>11 DEF m
<1>14. v = IF q > s.queuePos THEN q ELSE s.queuePos
    BY <1>2, <1>3 DEF v
<1>15. /\ SameFlags(n, s.dq, u.dq) /\ \A r \in 1 .. n : r # q => u.dq[r] = s.dq[r]
       /\ s.dq[q].mode = "READ" => u.dq[q].position = s.dq[q].position
       /\ u.at \in {q, q + 1}
    BY <1>1, <1>2, <1>3, <1>4, <1>5, <1>11
<1> QED BY <1>12, <1>13, <1>14, <1>15 DEF u, EntrySent

\* where the next entry is that has or needs data
AtPlace(n, d, p) ==
    /\ p \in 1 .. n
    /\ \A r \in 1 .. n : r < p => d[r].position = d[r].length
    /\ \A r \in 1 .. n : d[r].mode = "READ" /\ d[r].addrSent > 0 => d[p].mode = "READ"

Fills(n, d, B, T, lo) ==
    {s \in Puts(n, B, T, lo) :
        /\ SameFlags(n, d, s.dq)
        /\ \A r \in 1 .. n : d[r].mode = "READ" => s.dq[r].position = d[r].position
        /\ AtPlace(n, s.dq, s.queuePos) /\ s.queuePos <= s.at
        /\ s.met => s.dq[s.queuePos].mode = "READ"
        /\ ~s.met => \A r \in 1 .. n : s.queuePos <= r /\ r < s.at => s.dq[r].mode = "WRITE"}

LEMMA SendEntryFills ==
    ASSUME NEW n \in Nat, NEW d \in [1 .. n -> Item], NEW B, NEW T, Len(T) \in Nat, NEW lo \in Nat,
           NEW s \in Fills(n, d, B, T, lo)
    PROVE  SendEntry(s) \in Fills(n, d, B, T, lo)
<1> DEFINE u == SendEntry(s)
           q == s.at
           p == s.queuePos
<1>1. /\ s \in Puts(n, B, T, lo) /\ s \in Sending(n) /\ Len(s.dq) = n /\ s.dq \in [1 .. n -> Item]
      /\ q \in 1 .. n + 1 /\ p \in 1 .. n /\ p <= q
    BY DEF Fills, Puts, Sending, AtPlace
<1>2. CASE q > n \/ ~Room(s.tx)
    <2>1. u = s
        BY <1>1, <1>2 DEF SendEntry
    <2> QED BY <2>1
<1>3. CASE q <= n /\ Room(s.tx)
    <2>1. /\ u \in Puts(n, B, T, lo) /\ SameFlags(n, s.dq, u.dq)
          /\ \A r \in 1 .. n : r # q => u.dq[r] = s.dq[r]
          /\ s.dq[q].mode = "READ" => u.dq[q].position = s.dq[q].position
          /\ u.at \in {q, q + 1}
          /\ \/ /\ s.dq[q].mode = "READ" /\ ~s.met /\ u.met
                /\ u.queuePos = IF q > p THEN q ELSE p
             \/ /\ ~(s.dq[q].mode = "READ" /\ ~s.met)
                /\ u.met = s.met /\ u.queuePos = p
        <3>1. n \in Nat /\ Len(T) \in Nat /\ lo \in Nat /\ s \in Puts(n, B, T, lo) /\ s.at <= n
              /\ Room(s.tx)
            BY <1>1, <1>3
        <3>2. u \in Puts(n, B, T, lo) /\ EntrySent(n, s, u)
            BY ONLY <3>1, SendEntryDoes
        <3> QED BY ONLY <3>2 DEF EntrySent
    <2> HIDE DEF u
    <2>2. /\ SameFlags(n, d, s.dq)
          /\ \A r \in 1 .. n : d[r].mode = "READ" => s.dq[r].position = d[r].position
          /\ \A r \in 1 .. n : r < p => s.dq[r].position = s.dq[r].length
          /\ \A r \in 1 .. n : s.dq[r].mode = "READ" /\ s.dq[r].addrSent > 0 => s.dq[p].mode = "READ"
          /\ s.met => s.dq[p].mode = "READ"
          /\ ~s.met => \A r \in 1 .. n : p <= r /\ r < q => s.dq[r].mode = "WRITE"
        BY DEF Fills, AtPlace
    <2>3. SameFlags(n, d, u.dq)
        BY <2>1, <2>2, FlagsTogether
    <2>4. /\ \A r \in 1 .. n : u.dq[r].mode = s.dq[r].mode /\ u.dq[r].length = s.dq[r].length
          /\ \A r \in 1 .. n : s.dq[r].mode = d[r].mode
        BY <2>1, <2>2 DEF SameFlags, Moves
    <2>5. \A r \in 1 .. n : d[r].mode = "READ" => u.dq[r].position = d[r].position
        BY <1>1, <1>3, <2>1, <2>2, <2>4
    <2>6. \A r \in 1 .. n : s.dq[r].mode \in {"READ", "WRITE"} /\ s.met \in BOOLEAN
        BY <1>1 DEF Item, Sending
    <2>7. q \in 1 .. n /\ u.at \in {q, q + 1}
        BY <1>1, <1>3, <2>1
    <2>8. \A r \in 1 .. n : s.dq[r].position = s.dq[r].length /\ r # q => u.dq[r].position = u.dq[r].length
        BY <2>1
    <2>9. CASE s.dq[q].mode = "READ" /\ ~s.met
        <3>1. u.met /\ u.queuePos = q
            <4>1. u.met /\ u.queuePos = IF q > p THEN q ELSE p
                BY <2>1, <2>9
            <4> QED BY <1>1, <4>1
        <3>2. \A r \in 1 .. n : r < q => u.dq[r].position = u.dq[r].length
            <4> TAKE r \in 1 .. n
            <4>1. CASE r < p
                BY <1>1, <2>2, <2>8, <4>1
            <4>2. CASE p <= r /\ r < q
                <5>1. s.dq[r].mode = "WRITE" /\ r # q
                    BY <1>1, <2>2, <2>9, <4>2
                <5>2. EntryPut(s.dq[r])
                    BY <1>1, <4>2 DEF Puts
                <5> QED BY <2>8, <5>1, <5>2 DEF EntryPut
            <4> QED BY <1>1, <4>1, <4>2
        <3>3. u.dq[q].mode = "READ"
            BY <2>4, <2>7, <2>9
        <3>4. AtPlace(n, u.dq, u.queuePos)
            BY <2>7, <3>1, <3>2, <3>3 DEF AtPlace
        <3>5. u.queuePos <= u.at
            BY <2>7, <3>1
        <3> QED BY <2>1, <2>3, <2>5, <3>1, <3>3, <3>4, <3>5 DEF Fills, u
    <2>10. CASE ~(s.dq[q].mode = "READ" /\ ~s.met)
        <3>1. u.met = s.met /\ u.queuePos = p
            BY <2>1, <2>10
        <3>2. \A r \in 1 .. n : r < p => u.dq[r].position = u.dq[r].length
            BY <1>1, <2>2, <2>8
        <3>3. s.met => u.dq[p].mode = "READ"
            BY <1>1, <2>2, <2>4
        <3>4. ASSUME NEW r \in 1 .. n, u.dq[r].mode = "READ", u.dq[r].addrSent > 0
              PROVE  u.dq[p].mode = "READ"
            <4>1. CASE r = q
                <5>1. s.dq[q].mode = "READ"
                    BY <2>4, <3>4, <4>1
                <5> QED BY <2>6, <2>10, <3>3, <5>1
            <4>2. CASE r # q
                <5>1. u.dq[r] = s.dq[r]
                    BY <2>1, <4>2
                <5> QED BY <1>1, <2>2, <2>4, <3>4, <5>1
            <4> QED BY <4>1, <4>2
        <3>5. ASSUME ~s.met, NEW r \in 1 .. n, p <= r, r < u.at PROVE u.dq[r].mode = "WRITE"
            <4>1. r < q \/ r = q
                BY <2>7, <3>5
            <4>2. s.dq[q].mode = "WRITE"
                BY <2>6, <2>7, <2>10, <3>5
            <4> QED BY <2>2, <2>4, <3>5, <4>1, <4>2
        <3>6. AtPlace(n, u.dq, u.queuePos) /\ u.queuePos <= u.at
            BY <1>1, <2>7, <3>1, <3>2, <3>4 DEF AtPlace
        <3> QED BY <2>1, <2>3, <2>5, <3>1, <3>3, <3>5, <3>6 DEF Fills, u
    <2> QED BY <2>9, <2>10
<1> QED BY <1>1, <1>2, <1>3

\* where fillTxFifo begins, and where it ends
LEMMA FillsFrom ==
    ASSUME NEW n \in Nat, NEW d \in [1 .. n -> Item], NEW B, NEW T, Script(n, d, B, T),
           NEW lo \in Nat, NEW p, AtPlace(n, d, p), NEW t \in TxFifo,
           \A r \in 1 .. n : r < p => d[r].addrSent = d[r].addrReq,
           \A r \in 1 .. n : d[r].rw = 1,
           \A j \in 1 .. Len(t) : t[j].b < 0 => t[j].rw = 1,
           \E g \in lo .. Len(T) : PutUpTo(T, d, g) /\ Window(T, "WRITE", lo, g, t)
    PROVE  [dq |-> d, queuePos |-> p, tx |-> t, met |-> FALSE, at |-> p] \in Fills(n, d, B, T, lo)
<1> DEFINE s == [dq |-> d, queuePos |-> p, tx |-> t, met |-> FALSE, at |-> p]
<1>1. p \in 1 .. n /\ p \in 1 .. n + 1
    BY DEF AtPlace
<1>2. /\ s \in Sending(n) /\ s.dq = d /\ s.queuePos = p /\ s.at = p /\ s.tx = t /\ ~s.met
    BY <1>1 DEF Sending
<1>3. \A r \in 1 .. n : r < p => EntryPut(d[r])
    BY DEF EntryPut, AtPlace
<1> HIDE DEF s
<1>4. s \in Puts(n, B, T, lo)
    BY <1>2, <1>3 DEF Puts
<1>5. SameFlags(n, d, d)
    BY DEF SameFlags, Moves
<1>6. \A r \in 1 .. n : ~(p <= r /\ r < p)
    BY <1>1
<1>7. s \in Fills(n, d, B, T, lo)
    BY <1>1, <1>2, <1>4, <1>5, <1>6 DEF Fills
<1> QED BY <1>7 DEF s

LEMMA fillTxFifoFills ==
    ASSUME NEW n \in Nat, NEW d \in [1 .. n -> Item], NEW B, NEW T, Len(T) \in Nat, NEW lo \in Nat,
           NEW p, NEW t, d \in Seq(Item), Len(d) = n,
           [dq |-> d, queuePos |-> p, tx |-> t, met |-> FALSE, at |-> p] \in Fills(n, d, B, T, lo)
    PROVE  fillTxFifo(d, p, t) \in Fills(n, d, B, T, lo)
<1> DEFINE S == Fills(n, d, B, T, lo)
           s == [dq |-> d, queuePos |-> p, tx |-> t, met |-> FALSE, at |-> p]
<1>1. \A x \in S : SendEntry(x) \in S
    BY SendEntryFills
<1>2. s \in S /\ Len(d) \in Nat
    OBVIOUS
<1> HIDE DEF S
<1>3. PICK f \in [0 .. Len(d) -> S] : fillTxFifo(d, p, t) = f[Len(d)]
    BY <1>1, <1>2, fillTxFifoRounds
<1>4. fillTxFifo(d, p, t) \in S
    BY <1>2, <1>3
<1> QED BY <1>4 DEF S

LEMMA FillsTo ==
    ASSUME NEW n \in Nat, NEW d \in [1 .. n -> Item], NEW B, NEW T, NEW lo \in Nat,
           NEW s \in Fills(n, d, B, T, lo)
    PROVE  /\ s.dq \in [1 .. n -> Item] /\ Script(n, s.dq, B, T) /\ SameFlags(n, d, s.dq)
           /\ \A r \in 1 .. n : d[r].mode = "READ" => s.dq[r].position = d[r].position
           /\ AtPlace(n, s.dq, s.queuePos)
           /\ \A r \in 1 .. n : r < s.queuePos => s.dq[r].addrSent = s.dq[r].addrReq
           /\ \A r \in 1 .. n : s.dq[r].rw = 1
           /\ \A j \in 1 .. Len(s.tx) : s.tx[j].b < 0 => s.tx[j].rw = 1
           /\ \E g \in lo .. Len(T) : PutUpTo(T, s.dq, g) /\ Window(T, "WRITE", lo, g, s.tx)
           /\ s.at > n => \A r \in 1 .. n : EntryPut(s.dq[r])
<1>1. s \in Puts(n, B, T, lo) /\ s \in Sending(n) /\ s.queuePos <= s.at
    BY DEF Fills, Puts
<1>2. \A r \in 1 .. n : r < s.queuePos => EntryPut(s.dq[r])
    <2>1. s.queuePos \in 1 .. n + 1 /\ s.at \in 1 .. n + 1
        BY <1>1 DEF Sending
    <2>2. \A r \in 1 .. n : r < s.queuePos => r < s.at
        BY <1>1, <2>1
    <2> QED BY <1>1, <2>2 DEF Puts
<1>3. ASSUME s.at > n PROVE \A r \in 1 .. n : EntryPut(s.dq[r])
    <2>1. s.at \in 1 .. n + 1
        BY <1>1 DEF Sending
    <2>2. \A r \in 1 .. n : r < s.at
        BY <1>3, <2>1
    <2> QED BY <1>1, <2>2 DEF Puts
<1>4. /\ s.dq \in [1 .. n -> Item] /\ Script(n, s.dq, B, T) /\ SameFlags(n, d, s.dq)
      /\ \A r \in 1 .. n : d[r].mode = "READ" => s.dq[r].position = d[r].position
      /\ AtPlace(n, s.dq, s.queuePos)
      /\ \A r \in 1 .. n : r < s.queuePos => s.dq[r].addrSent = s.dq[r].addrReq
      /\ \A r \in 1 .. n : s.dq[r].rw = 1
      /\ \A j \in 1 .. Len(s.tx) : s.tx[j].b < 0 => s.tx[j].rw = 1
      /\ \E g \in lo .. Len(T) : PutUpTo(T, s.dq, g) /\ Window(T, "WRITE", lo, g, s.tx)
    BY <1>1, <1>2 DEF Fills, Puts, EntryPut, Sending
<1> QED BY <1>3, <1>4

-----------------------------------------------------------------------------
(* emptyRxFifo takes the bytes of the script out of the FIFO, in its order. *)

\* the events that are bytes of a read
IsReadOf(w, e, p, j) ==
    /\ w.q = p /\ e.mode = "READ" /\ w.b \in 0 .. e.length - 1
    /\ j = 2 + e.addrReq + w.b

LEMMA ReadOf ==
    ASSUME NEW n \in Nat, NEW d \in [1 .. n -> Item], NEW B, NEW T, Script(n, d, B, T),
           NEW p \in 1 .. n, NEW j \in 1 .. Size(d[p]), T[B[p] + j].ev = "READ"
    PROVE  IsReadOf(T[B[p] + j], d[p], p, j)
<1> DEFINE w == T[B[p] + j]
           e == d[p]
           r == e.addrReq
           len == e.length
<1>1. e \in Item /\ j \in Nat /\ j \in Nat \ {0} /\ r \in Nat /\ len \in Nat
    <2>1. e \in Item
        OBVIOUS
    <2>2. Size(d[p]) \in Nat
        BY ScriptFits
    <2> HIDE DEF e
    <2> QED BY <2>1, <2>2, ItemTyped
<1>2. w = EventOf(e, p, j) /\ w.ev = "READ"
    BY ScriptEvent
<1>3. j # 1
    BY <1>2, EventStart
<1>4. ~(j > 1 + r + len)
    BY <1>1, <1>2, EventIsStop
<1>5. ~(j <= 1 + r)
    <2>1. ASSUME j <= 1 + r PROVE FALSE
        <3>1. j > 1 /\ j <= 1 + e.addrReq
            BY <1>1, <1>3, <2>1
        <3> HIDE DEF w, e
        <3>2. w.ev = "WRITE"
            BY <1>1, <1>2, <3>1, EventAddress
        <3> QED BY <1>2, <3>2
    <2> QED BY <2>1
<1>6. j > 1 + e.addrReq /\ j <= 1 + e.addrReq + e.length
    BY <1>1, <1>4, <1>5
<1> HIDE DEF w, e
<1>7. w.ev = e.mode /\ w.q = p /\ w.b = j - 2 - e.addrReq
    BY <1>1, <1>2, <1>6, EventData
<1>8. w.b \in 0 .. e.length - 1 /\ j = 2 + e.addrReq + w.b
    <2> HIDE DEF r, len
    <2> DEFINE b == w.b
    <2>1. b = j - 2 - r /\ j > 1 + r /\ j <= 1 + r + len
        BY <1>6, <1>7 DEF r, len
    <2> HIDE DEF b
    <2>2. b \in 0 .. len - 1 /\ j = 2 + r + b
        BY ONLY <1>1, <2>1
    <2> QED BY <2>2 DEF b, r, len
<1> QED BY <1>2, <1>7, <1>8 DEF w, e, IsReadOf

\* the event of byte b of a read
IsByte(T, i, p, b) == i \in 1 .. Len(T) /\ T[i].ev = "READ" /\ T[i].q = p /\ T[i].b = b

LEMMA ReadAt ==
    ASSUME NEW n \in Nat, NEW d \in [1 .. n -> Item], NEW B, NEW T, Script(n, d, B, T),
           NEW p \in 1 .. n, d[p].mode = "READ", NEW b \in Nat, b < d[p].length
    PROVE  IsByte(T, B[p] + 2 + d[p].addrReq + b, p, b)
           /\ B[p] + 2 + d[p].addrReq + b <= B[p] + Size(d[p])
<1> DEFINE e == d[p]
           r == e.addrReq
           len == e.length
           y == B[p]
           j == 2 + r + b
           z == Size(e)
           h == IF e.stop THEN 1 ELSE 0
<1>1. e \in Item /\ y \in Nat /\ z \in Nat /\ e.mode = "READ"
    BY ScriptFits
<1>2. r \in Nat /\ len \in Nat /\ b < len
    <2> HIDE DEF e
    <2> QED BY <1>1, ItemTyped DEF e
<1>3. z = 1 + r + len + h /\ h \in Nat
    BY DEF Size
<1>4. j \in 1 .. z /\ j > 1 + r /\ j <= 1 + r + len /\ j \in Nat /\ j - 2 - r = b
      /\ y + j = y + 2 + r + b /\ y + j <= y + z
    <2> HIDE DEF e, r, len, y, z, h
    <2> QED BY ONLY <1>1, <1>2, <1>3, b \in Nat DEF j
<1> HIDE DEF j
<1>5. B[p] + j \in 1 .. Len(T) /\ T[B[p] + j] = EventOf(d[p], p, j)
    BY <1>4, ScriptEvent
<1>6. j \in Nat /\ e \in Item /\ j > 1 + e.addrReq /\ j <= 1 + e.addrReq + e.length
    BY <1>1, <1>4
<1> HIDE DEF e
<1>7. LET v == EventOf(e, p, j) IN v.ev = e.mode /\ v.q = p /\ v.b = j - 2 - e.addrReq
    BY <1>6, EventData
<1> QED BY <1>1, <1>4, <1>5, <1>7 DEF e, IsByte

\* the entries that have all their events before event m
LEMMA WritesBefore ==
    ASSUME NEW n \in Nat, NEW d \in [1 .. n -> Item], NEW B, NEW T, Script(n, d, B, T),
           NEW p \in 1 .. n, NEW m \in Nat, B[p] + Size(d[p]) < m,
           \A i \in 1 .. m - 1 : T[i].ev = "WRITE" => Put(d, T[i])
    PROVE  d[p].addrSent = d[p].addrReq /\ (d[p].mode = "WRITE" => d[p].position = d[p].length)
<1> DEFINE e == d[p]
           r == e.addrReq
           len == e.length
           a == e.addrSent
           b == e.position
           y == B[p]
           z == Size(e)
           h == IF e.stop THEN 1 ELSE 0
<1>1. e \in Item /\ y \in Nat /\ z \in Nat /\ y + z < m
    BY ScriptFits
<1>2. r \in Nat /\ len \in Nat /\ a \in Nat /\ b \in Nat /\ a <= r /\ b <= len
      /\ r \in {1, 2} /\ e.mode \in {"READ", "WRITE"}
    <2> HIDE DEF e
    <2> QED BY <1>1, ItemTyped
<1>3. z = 1 + r + len + h /\ h \in Nat
    BY DEF Size
<1>4. ASSUME NEW j \in 1 .. z PROVE y + j \in 1 .. m - 1 /\ j \in 1 .. Size(d[p]) /\ j \in Nat
    BY <1>1
<1>5. a = r
    <2> DEFINE j == 1 + r
    <2>0. j = 1 + r
        OBVIOUS
    <2>1. j \in 1 .. z /\ j \in Nat /\ j > 1 /\ j <= 1 + e.addrReq
        <3> HIDE DEF e, len, h, z, r
        <3>1. j \in 1 .. z /\ j \in Nat /\ j > 1
            BY ONLY <1>1, <1>2, <1>3
        <3> QED BY ONLY <1>2, <3>1 DEF r
    <2> HIDE DEF j
    <2>2. T[y + j] = EventOf(e, p, j) /\ y + j \in 1 .. m - 1
        <3>1. T[B[p] + j] = EventOf(d[p], p, j)
            BY <1>4, <2>1 DEF Script
        <3> QED BY <1>4, <2>1, <3>1
    <2>3. T[y + j].ev = "WRITE"
        <3> HIDE DEF e, y
        <3> QED BY <1>1, <2>1, <2>2, EventAddress
    <2>4. Put(d, T[y + j])
        BY <2>2, <2>3
    <2>5. LET w == T[B[p] + j]
              x == d[p]
          IN  j <= 1 + x.addrReq => (Put(d, w) <=> j - 1 <= x.addrSent)
        <3>1. j \in 1 .. Size(d[p]) /\ T[B[p] + j].ev = "WRITE"
            BY <2>1, <2>3
        <3> QED BY <3>1, PutOf
    <2>6. j - 1 <= a
        BY <2>1, <2>4, <2>5
    <2> HIDE DEF a, r
    <2> QED BY <1>2, <2>0, <2>6
<1>6. e.mode = "WRITE" => b = len
    <2>1. CASE len = 0
        BY <1>2, <2>1
    <2>2. CASE len # 0 /\ e.mode = "WRITE"
        <3> DEFINE j == 1 + r + len
        <3>0. j = 1 + r + len
            OBVIOUS
        <3>1. j \in 1 .. z /\ j \in Nat /\ j > 1 + r /\ j <= 1 + r + len /\ ~(j <= 1 + r)
            <4> HIDE DEF e, len, h, z, r
            <4> QED BY ONLY <1>1, <1>2, <1>3, <2>2
        <3> HIDE DEF j
        <3>2. T[y + j] = EventOf(e, p, j) /\ y + j \in 1 .. m - 1
            <4>1. T[B[p] + j] = EventOf(d[p], p, j)
                BY <1>4, <3>1 DEF Script
            <4> QED BY <1>4, <3>1, <4>1
        <3>3. T[y + j].ev = "WRITE"
            <4> HIDE DEF y
            <4>1. e \in Item /\ j > 1 + e.addrReq /\ j <= 1 + e.addrReq + e.length
                BY <1>1, <3>1
            <4> HIDE DEF e
            <4> QED BY <2>2, <3>1, <3>2, <4>1, EventData
        <3>4. Put(d, T[y + j])
            BY <3>2, <3>3
        <3>5. LET w == T[B[p] + j]
                  x == d[p]
              IN  j > 1 + x.addrReq => (Put(d, w) <=> j - 1 - x.addrReq <= x.position)
            <4>1. j \in 1 .. Size(d[p]) /\ T[B[p] + j].ev = "WRITE"
                BY <3>1, <3>3
            <4> QED BY <4>1, PutOf
        <3>6. j - 1 - r <= b
            BY <3>1, <3>4, <3>5
        <3> HIDE DEF b, r, len
        <3> QED BY <1>2, <3>0, <3>6
    <2> QED BY <1>2, <2>1, <2>2
<1> QED BY <1>5, <1>6

LEMMA ReadsBefore ==
    ASSUME NEW n \in Nat, NEW d \in [1 .. n -> Item], NEW B, NEW T, Script(n, d, B, T),
           NEW p \in 1 .. n, NEW m \in Nat, B[p] + Size(d[p]) < m,
           \A i \in 1 .. m - 1 : T[i].ev = "READ" => T[i].b < d[T[i].q].position
    PROVE  d[p].mode = "READ" => d[p].position = d[p].length
<1> SUFFICES ASSUME d[p].mode = "READ" PROVE d[p].position = d[p].length
    OBVIOUS
<1> DEFINE e == d[p]
           len == e.length
           b == e.position
<1>1. e \in Item /\ B[p] \in Nat /\ Size(e) \in Nat /\ B[p] + Size(e) < m
    BY ScriptFits
<1>2. len \in Nat /\ b \in Nat /\ b <= len
    <2> HIDE DEF e
    <2> QED BY <1>1, ItemTyped
<1>3. CASE len = 0
    BY <1>2, <1>3
<1>4. CASE len # 0
    <2>1. len - 1 \in Nat /\ len - 1 < d[p].length
        BY <1>2, <1>4
    <2> DEFINE i == B[p] + 2 + d[p].addrReq + (len - 1)
    <2>2. /\ i \in 1 .. Len(T) /\ T[i].ev = "READ" /\ T[i].q = p /\ T[i].b = len - 1
          /\ i <= B[p] + Size(d[p])
        BY <1>4, <2>1, ReadAt DEF IsByte
    <2> HIDE DEF i
    <2>3. i \in 1 .. m - 1
        BY <1>1, <2>2
    <2>4. len - 1 < b
        BY <2>2, <2>3
    <2>5. b = len
        <3> HIDE DEF len, b
        <3> QED BY <1>2, <2>4
    <2> QED BY <2>5
<1> QED BY <1>3, <1>4

LEMMA WholeBefore ==
    ASSUME NEW n \in Nat, NEW d \in [1 .. n -> Item], NEW B, NEW T, Script(n, d, B, T),
           NEW q \in 1 .. n, NEW p \in 1 .. n, p < q, NEW m \in 1 .. Len(T), B[q] < m,
           \A i \in 1 .. m - 1 : T[i].ev = "READ" => T[i].b < d[T[i].q].position,
           \A i \in 1 .. m - 1 : T[i].ev = "WRITE" => Put(d, T[i])
    PROVE  d[p].addrSent = d[p].addrReq /\ d[p].position = d[p].length
<1>1. /\ B[p] \in Nat /\ Size(d[p]) \in Nat /\ B[p] + Size(d[p]) <= B[q]
      /\ B[q] \in Nat /\ Len(T) \in Nat
    <2>1. B[p] + Size(d[p]) <= B[q]
        BY DEF Script
    <2> QED BY <2>1, ScriptFits
<1>2. m \in Nat /\ B[p] + Size(d[p]) < m
    BY <1>1
<1>3. d[p].addrSent = d[p].addrReq /\ (d[p].mode = "WRITE" => d[p].position = d[p].length)
    BY <1>2, WritesBefore
<1>4. d[p].mode = "READ" => d[p].position = d[p].length
    BY <1>2, ReadsBefore
<1>5. d[p].mode \in {"READ", "WRITE"}
    BY ItemTyped
<1> QED BY <1>3, <1>4, <1>5

\* what holds of the transfer while emptyRxFifo works: its first hi events were on the bus
Arrived(n, d, B, T, hi) ==
    /\ Script(n, d, B, T) /\ hi \in 0 .. Len(T) /\ Len(T) \in Nat
    /\ \A i \in 1 .. hi : T[i].ev = "WRITE" => Put(d, T[i])
    /\ \A q \in 1 .. n : B[q] < hi => \A p \in 1 .. n : p < q => d[p].stopCmdSent

\* what emptyRxFifo works on
Stores(n, X, d, B, T, hi) ==
    {r \in Storing(n, X) :
        /\ SameFlags(n, d, r.dq) /\ ~r.misplaced
        /\ \A q \in 1 .. n : /\ r.dq[q].addrSent = d[q].addrSent
                             /\ d[q].mode = "WRITE" => r.dq[q].position = d[q].position
        /\ AtPlace(n, r.dq, r.queuePos)
        /\ \A q \in 1 .. n : q < r.queuePos => /\ d[q].addrSent = d[q].addrReq
                                               /\ d[q].stopCmdSent
        /\ \A j \in 1 .. Len(r.rx) : r.rx[j] = [q |-> r.rx[j].q, b |-> r.rx[j].b]
        /\ \E h \in 0 .. hi : StoredUpTo(T, r.dq, h) /\ Window(T, "READ", h, hi, r.rx)}

\* the first byte in the FIFO is the next one of entry q
NextIs(n, r, B, T, hi, q, m) ==
    /\ q \in r.queuePos .. n /\ r.dq[q].mode = "READ" /\ r.dq[q].position < r.dq[q].length
    /\ m \in 0 .. hi /\ m + 1 = B[q] + 2 + r.dq[q].addrReq + r.dq[q].position
    /\ \A p \in 1 .. n : p < q => /\ r.dq[p].position = r.dq[p].length
                                  /\ r.dq[p].addrSent = r.dq[p].addrReq
                                  /\ r.dq[p].stopCmdSent
    /\ StoredUpTo(T, r.dq, m) /\ Window(T, "READ", m, hi, r.rx)

LEMMA ReadNext ==
    ASSUME NEW n \in Nat, NEW X, NEW d, NEW B, NEW T, NEW hi, Arrived(n, d, B, T, hi),
           NEW r \in Stores(n, X, d, B, T, hi), r.rx # <<>>
    PROVE  \E q, m : NextIs(n, r, B, T, hi, q, m)
<1> DEFINE u == r.dq
<1>1. /\ Script(n, d, B, T) /\ hi \in 0 .. Len(T) /\ Len(T) \in Nat /\ hi \in Nat
      /\ \A i \in 1 .. hi : T[i].ev = "WRITE" => Put(d, T[i])
      /\ \A q \in 1 .. n : B[q] < hi => \A p \in 1 .. n : p < q => d[p].stopCmdSent
    BY DEF Arrived
<1>2. /\ u \in [1 .. n -> Item] /\ SameFlags(n, d, u) /\ r.queuePos \in 1 .. n
      /\ AtPlace(n, u, r.queuePos) /\ Len(r.rx) \in Nat /\ Len(r.rx) > 0
      /\ \A q \in 1 .. n : /\ u[q].addrSent = d[q].addrSent
                           /\ d[q].mode = "WRITE" => u[q].position = d[q].position
    <2>1. r \in Storing(n, X) /\ AtPlace(n, u, r.queuePos)
        BY DEF Stores
    <2>2. r.rx \in Seq(X) /\ r.queuePos \in 1 .. n /\ u \in [1 .. n -> Item]
        BY <2>1 DEF Storing, RxFifo, AtPlace
    <2>3. Len(r.rx) \in Nat /\ Len(r.rx) > 0
        BY <2>2
    <2> QED BY <2>1, <2>2, <2>3 DEF Stores
<1>3. PICK h \in 0 .. hi : StoredUpTo(T, u, h) /\ Window(T, "READ", h, hi, r.rx)
    BY DEF Stores
<1> HIDE DEF u
<1>4. Script(n, u, B, T)
    BY <1>1, <1>2, ScriptMoves
<1>5. PICK k \in h + 1 .. hi : /\ Matches(T[k], "READ", r.rx[1])
                               /\ \A i \in h + 1 .. k - 1 : T[i].ev # "READ"
    <2>1. h \in Nat /\ hi \in Nat /\ Len(r.rx) \in Nat /\ Len(r.rx) > 0
        BY <1>1, <1>2
    <2> QED BY ONLY <1>3, <2>1, WindowFirst
<1>6. T[k].ev = "READ" /\ k \in 1 .. Len(T) /\ k - 1 \in 0 .. hi /\ ~(k <= h) /\ k \in Nat /\ h \in Nat
    BY <1>1, <1>5 DEF Matches
<1>7. PICK q \in 1 .. n : /\ B[q] \in Nat /\ k - B[q] \in 1 .. Size(u[q])
                          /\ k = B[q] + (k - B[q])
    <2>1. u \in [1 .. n -> Item] /\ Script(n, u, B, T) /\ k \in 1 .. Len(T) /\ n \in Nat
        BY <1>2, <1>4, <1>6
    <2>2. \E q \in 1 .. n : PlacedAt(k, q, u, B)
        BY ONLY <2>1, EventPlaced
    <2> QED BY <2>2 DEF PlacedAt
<1> DEFINE j == k - B[q]
           b == T[k].b
           e == u[q]
<1>8. /\ T[k].q = q /\ e.mode = "READ" /\ b \in 0 .. e.length - 1 /\ j = 2 + e.addrReq + b
    <2>1. j \in 1 .. Size(u[q]) /\ T[B[q] + j].ev = "READ" /\ T[B[q] + j] = T[k]
        BY <1>6, <1>7
    <2> HIDE DEF j
    <2>2. IsReadOf(T[B[q] + j], u[q], q, j)
        BY ONLY <1>2, <1>4, <1>7, <2>1, n \in Nat, ReadOf
    <2> QED BY ONLY <2>1, <2>2 DEF IsReadOf
<1>9. e \in Item /\ e.length \in Nat /\ e.position \in Nat /\ e.addrReq \in Nat /\ b \in Nat
    <2>1. e \in Item
        BY <1>2
    <2> HIDE DEF e, b
    <2>2. e.length \in Nat /\ e.position \in Nat /\ e.addrReq \in Nat
        BY <2>1, ItemTyped
    <2> QED BY <1>8, <2>1, <2>2
<1>10. StoredUpTo(T, u, k - 1)
    <2> SUFFICES ASSUME NEW i \in 1 .. Len(T), T[i].ev = "READ"
                 PROVE  T[i].b < u[T[i].q].position <=> i <= k - 1
        BY DEF StoredUpTo
    <2>1. T[i].b < u[T[i].q].position <=> i <= h
        BY <1>3 DEF StoredUpTo
    <2>2. ~(h < i /\ i <= k - 1)
        BY <1>5, <1>6
    <2>3. i <= h <=> i <= k - 1
        BY <1>5, <1>6, <2>2
    <2> QED BY <2>1, <2>3
<1>11. ~(b < e.position)
    <2>1. b < u[T[k].q].position <=> k <= k - 1
        BY <1>6, <1>10 DEF StoredUpTo
    <2> QED BY <1>6, <1>8, <2>1
<1>12. b = e.position
    <2>1. CASE e.position < b
        <3> DEFINE c == e.position
                   i == B[q] + 2 + u[q].addrReq + c
        <3>0. c \in Nat /\ c < u[q].length
            BY <1>8, <1>9, <2>1
        <3>1. i \in 1 .. Len(T) /\ T[i].ev = "READ" /\ T[i].q = q /\ T[i].b = c
            <4> HIDE DEF c
            <4>1. IsByte(T, B[q] + 2 + u[q].addrReq + c, q, c)
                <5>1. u[q].mode = "READ"
                    BY <1>8
                <5> QED BY ONLY <1>2, <1>4, <1>7, <3>0, <5>1, n \in Nat, ReadAt
            <4> QED BY <4>1 DEF IsByte
        <3>2. i <= k - 1
            <4>1. k = B[q] + (2 + e.addrReq + b) /\ B[q] \in Nat
                BY <1>7, <1>8
            <4> DEFINE y == B[q]
                       a == e.addrReq
            <4>2. k = y + (2 + a + b) /\ y \in Nat /\ a \in Nat /\ b \in Nat /\ c \in Nat /\ c < b
                BY <1>9, <2>1, <4>1
            <4>3. i = y + 2 + a + c
                OBVIOUS
            <4> HIDE DEF b, y, a, c, i
            <4> QED BY ONLY <4>2, <4>3
        <3> HIDE DEF i, c
        <3>3. c < u[q].position
            BY <1>10, <3>1, <3>2 DEF StoredUpTo
        <3> QED BY <1>9, <3>3 DEF c
    <2> HIDE DEF b
    <2> QED BY <1>9, <1>11, <2>1
<1>13. ASSUME NEW p \in 1 .. n, p < q PROVE u[p].addrSent = u[p].addrReq /\ u[p].position = u[p].length
    <2>1. B[q] < k
        BY <1>6, <1>7
    <2>2. \A i \in 1 .. k - 1 : T[i].ev = "READ" => T[i].b < u[T[i].q].position
        <3> TAKE i \in 1 .. k - 1
        <3>1. i \in 1 .. Len(T) /\ i <= k - 1
            BY <1>6
        <3> QED BY <1>10, <3>1 DEF StoredUpTo
    <2>3. \A i \in 1 .. k - 1 : T[i].ev = "WRITE" => Put(u, T[i])
        <3> SUFFICES ASSUME NEW i \in 1 .. k - 1, T[i].ev = "WRITE" PROVE Put(u, T[i])
            OBVIOUS
        <3>1. i \in 1 .. hi /\ i \in 1 .. Len(T)
            BY <1>1, <1>5, <1>6
        <3>2. Put(d, T[i])
            BY <1>1, <3>1
        <3>3. PICK o \in 1 .. n : /\ B[o] \in Nat /\ i - B[o] \in 1 .. Size(u[o])
                                  /\ i = B[o] + (i - B[o])
            <4>1. u \in [1 .. n -> Item] /\ Script(n, u, B, T) /\ i \in 1 .. Len(T) /\ n \in Nat
                BY <1>2, <1>4, <3>1
            <4>2. \E o \in 1 .. n : PlacedAt(i, o, u, B)
                BY ONLY <4>1, EventPlaced
            <4> QED BY <4>2 DEF PlacedAt
        <3> DEFINE l == i - B[o]
        <3>4. l \in 1 .. Size(u[o]) /\ T[B[o] + l].ev = "WRITE" /\ T[B[o] + l] = T[i]
            BY <3>3
        <3> HIDE DEF l
        <3>5. /\ T[i].q = o
              /\ l <= 1 + u[o].addrReq => T[i].b < 0
              /\ l > 1 + u[o].addrReq => ~(T[i].b < 0) /\ u[o].mode = "WRITE"
            <4>1. LET w == T[B[o] + l]
                      x == u[o]
                  IN  /\ w.q = o /\ l > 1 /\ l <= 1 + x.addrReq + x.length
                      /\ w.b = l - 2 - x.addrReq
                      /\ l <= 1 + x.addrReq => w.b < 0 /\ (Put(u, w) <=> l - 1 <= x.addrSent)
                      /\ l > 1 + x.addrReq => /\ ~(w.b < 0) /\ x.mode = "WRITE"
                                              /\ Put(u, w) <=> l - 1 - x.addrReq <= x.position
                BY <1>2, <1>4, <3>4, PutOf
            <4> QED BY ONLY <3>4, <4>1
        <3>6. u[o].mode = d[o].mode /\ u[o].addrReq = d[o].addrReq
            BY <1>2 DEF SameFlags, Moves
        <3>7. Put(u, T[i]) <=> Put(d, T[i])
            <4>1. CASE T[i].b < 0
                BY <1>2, <3>5, <3>6, <4>1 DEF Put
            <4>2. CASE ~(T[i].b < 0)
                <5>1. u[o].mode = "WRITE"
                    <6>1. l \in Nat /\ u[o].addrReq \in Nat
                        <7>1. Size(u[o]) \in Nat /\ u[o] \in Item
                            BY <1>2, <1>4, ScriptFits
                        <7> QED BY <3>4, <7>1, ItemTyped
                    <6>2. ~(l <= 1 + u[o].addrReq)
                        BY <3>5, <4>2
                    <6> QED BY <3>5, <6>1, <6>2
                <5>2. u[o].position = d[o].position
                    BY <1>2, <3>6, <5>1
                <5> QED BY <3>5, <4>2, <5>2 DEF Put
            <4> QED BY <4>1, <4>2
        <3> QED BY <3>2, <3>7
    <2> QED BY <1>2, <1>4, <1>6, <1>13, <2>1, <2>2, <2>3, WholeBefore
<1>14. q \in r.queuePos .. n
    <2>1. ~(q < r.queuePos)
        <3>1. ASSUME q < r.queuePos PROVE FALSE
            <4>1. e.position = e.length
                BY <1>2, <3>1 DEF AtPlace
            <4> QED BY <1>8, <1>9, <1>12, <4>1
        <3> QED BY <3>1
    <2> QED BY <1>2, <2>1
<1>15. ASSUME NEW p \in 1 .. n, p < q PROVE u[p].stopCmdSent
    <2>1. B[q] < hi
        BY <1>1, <1>5, <1>6, <1>7
    <2>2. d[p].stopCmdSent
        BY <1>1, <1>15, <2>1
    <2> QED BY <1>2, <2>2 DEF SameFlags, Moves
<1>16. Window(T, "READ", k - 1, hi, r.rx)
    <2>1. k - 1 \in Nat /\ h <= k - 1 /\ hi <= hi /\ k - 1 <= hi
        BY <1>1, <1>5, <1>6
    <2>2. \A m \in hi + 1 .. hi : T[m].ev # "READ"
        BY <1>1
    <2> QED BY <1>1, <1>2, <1>3, <1>5, <1>6, <2>1, <2>2, WindowSkip
<1>17. (k - 1) + 1 = B[q] + 2 + e.addrReq + e.position /\ e.position < e.length
    <2>1. k = B[q] + (2 + e.addrReq + e.position) /\ B[q] \in Nat
        BY <1>7, <1>8, <1>12
    <2> DEFINE y == B[q]
               a == e.addrReq
               c == e.position
               z == e.length
    <2>2. k = y + (2 + a + c) /\ y \in Nat /\ a \in Nat /\ c \in Nat /\ c \in 0 .. z - 1 /\ z \in Nat
        BY <1>8, <1>9, <1>12, <2>1
    <2> HIDE DEF y, a, c, z
    <2>3. (k - 1) + 1 = y + 2 + a + c /\ c < z
        BY ONLY <2>2
    <2> QED BY ONLY <2>3 DEF y, a, c, z
<1>18. NextIs(n, r, B, T, hi, q, k - 1)
    BY <1>6, <1>8, <1>10, <1>13, <1>14, <1>15, <1>16, <1>17 DEF NextIs, u
<1> QED BY <1>18

\* how many bytes go to an entry
Taken(r, q) == LesserOf(Len(r.rx), r.dq[q].length - r.dq[q].position)

\* num bytes go to entry q
Stored(r, u, q, num) ==
    /\ u.queuePos = q /\ u.rx = SubSeq(r.rx, num + 1, Len(r.rx))
    /\ u.dq = [r.dq EXCEPT ![q] = [r.dq[q] EXCEPT !.position = @ + num]]
    /\ u.misplaced => \/ r.misplaced
                      \/ \E i \in 1 .. num : r.rx[i] # [q |-> q, b |-> r.dq[q].position + i - 1]

LEMMA StoresTo ==
    ASSUME NEW n \in Nat, NEW X, NEW r \in Storing(n, X), r.rx # <<>>,
           NEW q \in r.queuePos .. n, r.dq[q].mode = "READ", r.dq[q].position < r.dq[q].length,
           \A p \in 1 .. n : p < q => r.dq[p].position = r.dq[p].length
    PROVE  Stored(r, StoreBytes(r), q, Taken(r, q))
<1> DEFINE free == {p \in r.queuePos .. Len(r.dq) : r.dq[p].position < r.dq[p].length}
           first == CHOOSE p \in free : \A o \in free : p <= o
           to   == IF free = {} THEN Len(r.dq) + 1 ELSE first
           num  == LesserOf(Len(r.rx), r.dq[to].length - r.dq[to].position)
           lost == [r EXCEPT !.rx = <<>>, !.queuePos = to, !.misplaced = TRUE]
           m    == \E i \in 1 .. num : r.rx[i] # [q |-> to, b |-> r.dq[to].position + i - 1]
           kept == [r EXCEPT !.queuePos = to, !.rx = SubSeq(r.rx, num + 1, Len(r.rx)),
                             !.dq[to].position = @ + num, !.misplaced = @ \/ m]
           u    == StoreBytes(r)
<1>1. /\ Len(r.dq) = n /\ r.queuePos \in 1 .. n + 1 /\ r.dq \in [1 .. n -> Item]
      /\ q \in 1 .. n /\ r.queuePos \in Nat /\ q \in Nat /\ r.queuePos <= q
    BY DEF Storing
<1>2. q \in free /\ \A p \in free : q <= p
    <2>1. q \in free
        BY <1>1
    <2>2. ASSUME NEW p \in free PROVE q <= p
        <3>1. p \in 1 .. n /\ p \in Nat /\ r.dq[p].position < r.dq[p].length
            BY <1>1
        <3>2. r.dq[p].position \in Nat /\ r.dq[p].length \in Nat
            BY <1>1, <3>1, ItemTyped
        <3>3. ~(p < q)
            BY <3>1, <3>2
        <3> QED BY <1>1, <3>1, <3>3
    <2> QED BY <2>1, <2>2
<1>3. first = q
    <2>1. \A p \in free : p \in Nat
        BY <1>1
    <2> HIDE DEF free
    <2>2. first \in free /\ \A o \in free : first <= o
        BY <1>2
    <2>3. first <= q /\ q <= first /\ first \in Nat
        BY <1>2, <2>1, <2>2
    <2> HIDE DEF first
    <2> QED BY <1>1, <2>3
<1>4. to = q /\ free # {}
    BY <1>2, <1>3
<1>5. u = IF r.rx = <<>> \/ r.queuePos > Len(r.dq) THEN r
          ELSE IF free = {} THEN lost
          ELSE IF r.dq[to].mode = "WRITE" THEN lost ELSE kept
    BY DEF StoreBytes
<1>6. ~(r.queuePos > Len(r.dq))
    BY <1>1
<1> HIDE DEF free, first, to, u, kept, lost
<1>7. u = kept
    BY <1>4, <1>5, <1>6
<1>8. num = Taken(r, q) /\ (m <=> \E i \in 1 .. num : r.rx[i] # [q |-> q, b |-> r.dq[q].position + i - 1])
    BY <1>4 DEF Taken
<1> HIDE DEF num, m
<1>9. kept = [r EXCEPT !.queuePos = q, !.rx = SubSeq(r.rx, num + 1, Len(r.rx)),
                       !.dq = [r.dq EXCEPT ![q] = [r.dq[q] EXCEPT !.position = @ + num]],
                       !.misplaced = r.misplaced \/ m]
    BY <1>1, <1>4 DEF kept, Storing
<1> HIDE DEF kept
<1>10. /\ u.queuePos = q /\ u.rx = SubSeq(r.rx, num + 1, Len(r.rx))
       /\ u.dq = [r.dq EXCEPT ![q] = [r.dq[q] EXCEPT !.position = @ + num]]
       /\ u.misplaced = (r.misplaced \/ m)
    BY <1>7, <1>9 DEF Storing
<1> QED BY <1>8, <1>10 DEF Stored, u

LEMMA StoresKept ==
    ASSUME NEW n \in Nat, NEW X, NEW d, NEW B, NEW T, NEW hi, Arrived(n, d, B, T, hi),
           NEW r \in Stores(n, X, d, B, T, hi), r.rx # <<>>
    PROVE  LET u == StoreBytes(r)
           IN  /\ u \in Stores(n, X, d, B, T, hi) /\ Len(u.rx) < Len(r.rx)
<1>1. PICK q, m : NextIs(n, r, B, T, hi, q, m)
    BY ReadNext
<1> DEFINE u == StoreBytes(r)
           num == Taken(r, q)
           e == r.dq[q]
           x == [e EXCEPT !.position = @ + num]
           c == e.position
           a == e.addrReq
           y == B[q]
           k == Len(r.rx)
<1>2. /\ q \in r.queuePos .. n /\ r.dq[q].mode = "READ" /\ r.dq[q].position < r.dq[q].length
      /\ m \in 0 .. hi /\ m + 1 = B[q] + 2 + r.dq[q].addrReq + r.dq[q].position
      /\ \A p \in 1 .. n : p < q => /\ r.dq[p].position = r.dq[p].length
                                    /\ r.dq[p].addrSent = r.dq[p].addrReq
                                    /\ r.dq[p].stopCmdSent
      /\ StoredUpTo(T, r.dq, m) /\ Window(T, "READ", m, hi, r.rx)
    BY <1>1 DEF NextIs
<1>3. /\ r \in Storing(n, X) /\ r.dq \in [1 .. n -> Item] /\ r.queuePos \in 1 .. n
      /\ q \in 1 .. n /\ r.rx \in Seq(X) /\ k \in Nat /\ k > 0
      /\ SameFlags(n, d, r.dq) /\ ~r.misplaced
      /\ \A p \in 1 .. n : /\ r.dq[p].addrSent = d[p].addrSent
                           /\ d[p].mode = "WRITE" => r.dq[p].position = d[p].position
      /\ \A j \in 1 .. Len(r.rx) : r.rx[j] = [q |-> r.rx[j].q, b |-> r.rx[j].b]
    <2>1. r \in Storing(n, X) /\ AtPlace(n, r.dq, r.queuePos)
        BY DEF Stores
    <2>2. r.rx \in Seq(X) /\ r.queuePos \in 1 .. n /\ r.dq \in [1 .. n -> Item]
        BY <2>1 DEF Storing, RxFifo, AtPlace
    <2>3. k \in Nat /\ k > 0 /\ q \in 1 .. n
        BY <1>2, <2>2
    <2> QED BY <2>1, <2>2, <2>3 DEF Stores
<1>4. Script(n, d, B, T) /\ hi \in 0 .. Len(T) /\ Len(T) \in Nat /\ hi \in Nat /\ Script(n, r.dq, B, T)
    <2>1. Script(n, d, B, T) /\ hi \in 0 .. Len(T) /\ Len(T) \in Nat /\ hi \in Nat
        BY DEF Arrived
    <2> QED BY <1>3, <2>1, ScriptMoves
<1>5. Stored(r, u, q, num) /\ u \in Storing(n, X)
    BY <1>2, <1>3, StoresTo, StoreBytesTyped
<1>6. e \in Item /\ y \in Nat /\ c \in Nat /\ a \in Nat /\ e.length \in Nat /\ c < e.length
    <2>1. e \in Item /\ y \in Nat /\ c < e.length
        BY <1>2, <1>3, <1>4, ScriptFits
    <2> HIDE DEF e
    <2> QED BY <2>1, ItemTyped
<1>7. num \in Nat /\ num >= 1 /\ num <= k /\ c + num <= e.length
    <2>1. num = LesserOf(k, e.length - c)
        BY DEF Taken
    <2> DEFINE z == e.length
    <2>2. z \in Nat /\ num = LesserOf(k, z - c) /\ c < z
        BY <1>6, <2>1
    <2> HIDE DEF k, z, c, num, e
    <2>3. num \in Nat /\ num >= 1 /\ num <= k /\ c + num <= z
        BY ONLY <1>3, <1>6, <2>2 DEF LesserOf
    <2> QED BY <2>3 DEF z
<1> HIDE DEF num, u
<1>8. ASSUME NEW i \in 1 .. num
      PROVE  T[m + i].ev = "READ" /\ T[m + i].q = q /\ T[m + i].b = c + i - 1
    <2> DEFINE b == c + i - 1
    <2>1. b \in Nat /\ b < e.length
        <3> DEFINE z == e.length
        <3>1. z \in Nat /\ c \in Nat /\ c + num <= z /\ num \in Nat /\ i \in 1 .. num
            BY <1>6, <1>7
        <3> HIDE DEF z, c
        <3>2. c + i - 1 \in Nat /\ c + i - 1 < z
            BY ONLY <3>1
        <3> QED BY <3>2 DEF z
    <2>2. IsByte(T, B[q] + 2 + r.dq[q].addrReq + b, q, b)
        <3> HIDE DEF b
        <3>1. r.dq[q].mode = "READ" /\ b < r.dq[q].length
            BY <1>2, <2>1
        <3> QED BY ONLY <1>3, <1>4, <2>1, <3>1, n \in Nat, ReadAt
    <2>3. B[q] + 2 + r.dq[q].addrReq + b = m + i
        <3>1. m + 1 = y + 2 + a + c /\ m \in Nat /\ i \in Nat
            BY <1>2, <1>7
        <3> HIDE DEF y, a, c
        <3>2. y + 2 + a + (c + i - 1) = m + i
            BY ONLY <1>6, <3>1
        <3> QED BY <3>2 DEF y, a, c
    <2> HIDE DEF b
    <2>4. T[m + i].ev = "READ" /\ T[m + i].q = q /\ T[m + i].b = b
        BY <2>2, <2>3 DEF IsByte
    <2> QED BY <2>4 DEF b
<1>9. /\ m + num <= hi /\ \A i \in 1 .. num : Matches(T[m + i], "READ", r.rx[i])
      /\ Window(T, "READ", m + num, hi, SubSeq(r.rx, num + 1, Len(r.rx)))
    <2>1. m \in Nat /\ hi \in Nat /\ m <= hi /\ Window(T, "READ", m, hi, r.rx)
        BY <1>2, <1>4
    <2>2. r.rx \in Seq(X) /\ num \in Nat /\ num <= Len(r.rx)
        BY <1>3, <1>7
    <2>3. \A i \in 1 .. num : T[m + i].ev = "READ"
        BY <1>8
    <2> QED BY ONLY <2>1, <2>2, <2>3, WindowPops
<1>10. ~u.misplaced
    <2>1. ASSUME NEW i \in 1 .. num PROVE r.rx[i] = [q |-> q, b |-> r.dq[q].position + i - 1]
        <3>1. r.rx[i].q = q /\ r.rx[i].b = c + i - 1
            BY <1>8, <1>9 DEF Matches
        <3>2. i \in 1 .. Len(r.rx)
            BY <1>3, <1>7
        <3>3. r.rx[i] = [q |-> r.rx[i].q, b |-> r.rx[i].b]
            BY <1>3, <3>2
        <3> QED BY <3>1, <3>3
    <2> QED BY <1>3, <1>5, <2>1 DEF Stored
<1>11. /\ u.queuePos = q /\ u.rx = SubSeq(r.rx, num + 1, Len(r.rx))
       /\ u.dq = [r.dq EXCEPT ![q] = x]
    BY <1>5 DEF Stored
<1>12. Moves(e, x) /\ x.position = c + num /\ x.addrSent = e.addrSent
    <2> HIDE DEF e
    <2> QED BY <1>6 DEF Item, Moves
<1> HIDE DEF x
<1>13. u.dq[q] = x /\ \A p \in 1 .. n : p # q => u.dq[p] = r.dq[p]
    BY <1>3, <1>11
<1>14. SameFlags(n, d, u.dq)
    <2>1. SameFlags(n, r.dq, [r.dq EXCEPT ![q] = x])
        BY ONLY n \in Nat, <1>3, <1>12, FlagsOfOne
    <2> QED BY <1>3, <1>11, <2>1, FlagsTogether
<1>15. \A p \in 1 .. n : /\ u.dq[p].addrSent = d[p].addrSent
                         /\ d[p].mode = "WRITE" => u.dq[p].position = d[p].position
    <2> TAKE p \in 1 .. n
    <2>1. CASE p = q
        <3>1. d[q].mode = e.mode
            BY <1>3 DEF SameFlags, Moves
        <3>2. d[q].mode # "WRITE"
            BY ONLY <1>2, <3>1
        <3>3. d[q].addrSent = e.addrSent
            BY ONLY <1>3
        <3>4. u.dq[q].addrSent = e.addrSent
            BY ONLY <1>12, <1>13
        <3> QED BY ONLY <2>1, <3>2, <3>3, <3>4
    <2>2. CASE p # q
        <3>1. u.dq[p] = r.dq[p]
            BY ONLY <1>13, <2>2
        <3> QED BY ONLY <1>3, <3>1
    <2> QED BY <2>1, <2>2
<1>16. AtPlace(n, u.dq, u.queuePos)
    <2>1. \A p \in 1 .. n : p < q => u.dq[p].position = u.dq[p].length
        <3> TAKE p \in 1 .. n
        <3> HAVE p < q
        <3>1. r.dq[p].position = r.dq[p].length
            BY ONLY <1>2, p < q
        <3>2. p # q
            BY ONLY <1>3, p < q
        <3>3. u.dq[p] = r.dq[p]
            BY ONLY <1>13, <3>2
        <3> QED BY ONLY <3>1, <3>3
    <2>2. u.dq[q].mode = "READ"
        BY <1>2, <1>12, <1>13 DEF Moves
    <2> QED BY <1>3, <1>11, <2>1, <2>2 DEF AtPlace
<1>17. \A p \in 1 .. n : p < u.queuePos => d[p].addrSent = d[p].addrReq /\ d[p].stopCmdSent
    <2> TAKE p \in 1 .. n
    <2> HAVE p < u.queuePos
    <2>1. p < q
        BY ONLY <1>11, p < u.queuePos
    <2>2. r.dq[p].addrSent = r.dq[p].addrReq /\ r.dq[p].stopCmdSent
        BY ONLY <1>2, <2>1
    <2>3. r.dq[p].addrSent = d[p].addrSent /\ Moves(d[p], r.dq[p])
        BY ONLY <1>3 DEF SameFlags
    <2>4. r.dq[p].addrReq = d[p].addrReq /\ (r.dq[p].stopCmdSent <=> d[p].stopCmdSent)
        BY ONLY <2>3 DEF Moves
    <2> QED BY ONLY <2>2, <2>3, <2>4
<1>18. Len(u.rx) = k - num /\ \A j \in 1 .. Len(u.rx) : u.rx[j] = r.rx[num + j] /\ num + j \in 1 .. k
    <2> DEFINE t == SubSeq(r.rx, num + 1, k)
    <2>1. r.rx \in Seq(X) /\ num \in Nat /\ num <= k /\ k = Len(r.rx) /\ k \in Nat
        BY ONLY <1>3, <1>7 DEF k
    <2>2. Len(t) = k - num /\ \A j \in 1 .. Len(t) : t[j] = r.rx[num + j] /\ num + j \in 1 .. k
        <3> HIDE DEF k
        <3> QED BY ONLY <2>1
    <2>3. u.rx = t
        BY ONLY <1>11 DEF k
    <2> HIDE DEF t
    <2> QED BY ONLY <2>2, <2>3
<1>19. \A j \in 1 .. Len(u.rx) : u.rx[j] = [q |-> u.rx[j].q, b |-> u.rx[j].b]
    <2> TAKE j \in 1 .. Len(u.rx)
    <2>1. r.rx[num + j] = [q |-> r.rx[num + j].q, b |-> r.rx[num + j].b]
        BY <1>3, <1>18
    <2> QED BY <1>18, <2>1
<1>20. StoredUpTo(T, u.dq, m + num)
    <2> SUFFICES ASSUME NEW i \in 1 .. Len(T), T[i].ev = "READ"
                 PROVE  T[i].b < u.dq[T[i].q].position <=> i <= m + num
        BY DEF StoredUpTo
    <2>1. T[i].b < r.dq[T[i].q].position <=> i <= m
        BY <1>2 DEF StoredUpTo
    <2>2. PICK p \in 1 .. n : /\ B[p] \in Nat /\ i - B[p] \in 1 .. Size(r.dq[p])
                              /\ i = B[p] + (i - B[p])
        <3>1. r.dq \in [1 .. n -> Item] /\ Script(n, r.dq, B, T) /\ i \in 1 .. Len(T) /\ n \in Nat
            BY <1>3, <1>4
        <3>2. \E p \in 1 .. n : PlacedAt(i, p, r.dq, B)
            BY ONLY <3>1, EventPlaced
        <3> QED BY <3>2 DEF PlacedAt
    <2> DEFINE j == i - B[p]
    <2>3. j \in 1 .. Size(r.dq[p]) /\ T[B[p] + j].ev = "READ" /\ T[B[p] + j] = T[i] /\ i = B[p] + j
        BY <2>2
    <2> HIDE DEF j
    <2>4. T[i].q = p /\ T[i].b \in 0 .. r.dq[p].length - 1 /\ j = 2 + r.dq[p].addrReq + T[i].b
        <3>1. IsReadOf(T[B[p] + j], r.dq[p], p, j)
            BY ONLY <1>3, <1>4, <2>3, n \in Nat, ReadOf
        <3> QED BY ONLY <2>3, <3>1 DEF IsReadOf
    <2>5. CASE p = q
        <3> DEFINE b == T[i].b
        <3>1. i = y + (2 + a + b) /\ b \in Nat
            <4>1. r.dq[q].length \in Nat
                BY <1>6
            <4> QED BY <2>3, <2>4, <2>5, <4>1
        <3>2. m + 1 = y + 2 + a + c /\ m \in Nat
            BY <1>2
        <3>3. u.dq[T[i].q].position = c + num
            BY <1>12, <1>13, <2>4, <2>5
        <3> DEFINE v == u.dq[T[i].q].position
        <3>4. /\ y \in Nat /\ c \in Nat /\ a \in Nat /\ num \in Nat /\ b \in Nat /\ m \in Nat
              /\ i = y + (2 + a + b) /\ m + 1 = y + 2 + a + c /\ v = c + num
            BY ONLY <1>6, <1>7, <3>1, <3>2, <3>3
        <3> HIDE DEF b, y, a, c, v
        <3>5. b < v <=> i <= m + num
            BY ONLY <3>4
        <3> QED BY <3>5 DEF b, v
    <2>6. CASE p # q
        <3>1. u.dq[T[i].q].position = r.dq[T[i].q].position
            BY <1>13, <2>4, <2>6
        <3>2. ~(m < i /\ i <= m + num)
            <4>1. ASSUME m < i, i <= m + num PROVE FALSE
                <5>1. i - m \in 1 .. num /\ m + (i - m) = i
                    BY <1>2, <1>7, <4>1
                <5>2. T[m + (i - m)].q = q
                    BY <1>8, <5>1
                <5> QED BY <2>4, <2>6, <5>1, <5>2
            <4> QED BY <4>1
        <3>3. i <= m <=> i <= m + num
            BY <1>2, <1>7, <3>2
        <3> QED BY <2>1, <3>1, <3>3
    <2> QED BY <2>5, <2>6
<1>21. m + num \in 0 .. hi
    BY <1>2, <1>4, <1>7, <1>9
<1>22. \E h \in 0 .. hi : StoredUpTo(T, u.dq, h) /\ Window(T, "READ", h, hi, u.rx)
    BY <1>9, <1>11, <1>20, <1>21
<1>23. u \in Stores(n, X, d, B, T, hi)
    BY <1>5, <1>10, <1>14, <1>15, <1>16, <1>17, <1>19, <1>22 DEF Stores
<1>24. Len(u.rx) < Len(r.rx)
    BY <1>3, <1>7, <1>18
<1> QED BY <1>23, <1>24 DEF u

\* when emptyRxFifo is done the FIFO is empty
LEMMA emptyRxFifoStores ==
    ASSUME NEW n \in Nat, NEW X, NEW d, NEW B, NEW T, NEW hi, Arrived(n, d, B, T, hi),
           NEW r \in Stores(n, X, d, B, T, hi)
    PROVE  emptyRxFifo(r) \in Stores(n, X, d, B, T, hi) /\ emptyRxFifo(r).rx = <<>>
<1> DEFINE S == Stores(n, X, d, B, T, hi)
           k == Len(r.rx)
<1>1. ASSUME NEW x \in S
      PROVE  /\ StoreBytes(x) \in S
             /\ x.rx \in Seq(X) /\ StoreBytes(x).rx \in Seq(X)
             /\ x.rx = <<>> => StoreBytes(x).rx = <<>>
             /\ x.rx # <<>> => Len(StoreBytes(x).rx) < Len(x.rx)
    <2>1. CASE x.rx = <<>>
        <3>1. StoreBytes(x) = x
            BY <2>1 DEF StoreBytes
        <3>2. x.rx \in Seq(X)
            BY DEF Stores, Storing, RxFifo
        <3> QED BY <2>1, <3>1, <3>2
    <2>2. CASE x.rx # <<>>
        <3>1. StoreBytes(x) \in Stores(n, X, d, B, T, hi) /\ Len(StoreBytes(x).rx) < Len(x.rx)
            BY <2>2, StoresKept
        <3>2. x.rx \in Seq(X) /\ StoreBytes(x).rx \in Seq(X)
            BY <3>1 DEF Stores, Storing, RxFifo
        <3> QED BY <2>2, <3>1, <3>2
    <2> QED BY <2>1, <2>2
<1> HIDE DEF S
<1>2. r \in S /\ k \in Nat
    <2>1. r \in S
        BY DEF S
    <2> QED BY <1>1, <2>1
<1>3. PICK f \in [0 .. k -> S] : /\ f[0] = r
                                 /\ \A i \in 1 .. k : f[i] = StoreBytes(f[i - 1])
                                 /\ emptyRxFifo(r) = f[k]
    BY <1>1, <1>2, emptyRxFifoRounds
<1> HIDE DEF k
<1> DEFINE Ok == {i \in Nat : i <= k => Len(f[i].rx) <= k - i}
<1>4. 0 \in Ok
    BY <1>2, <1>3 DEF k
<1>5. ASSUME NEW i \in Nat, i \in Ok PROVE i + 1 \in Ok
    <2>1. SUFFICES ASSUME i + 1 <= k PROVE Len(f[i + 1].rx) <= k - (i + 1)
        OBVIOUS
    <2>2. /\ i \in 0 .. k /\ i + 1 \in 1 .. k /\ (i + 1) - 1 = i /\ i + 1 \in 0 .. k
          /\ Len(f[i].rx) <= k - i
        BY <1>2, <1>5, <2>1
    <2>3. f[i + 1] = StoreBytes(f[i]) /\ f[i] \in S
        BY <1>3, <2>2
    <2> DEFINE x == f[i]
               u == f[i + 1]
    <2>4. /\ x.rx \in Seq(X) /\ u.rx \in Seq(X)
          /\ x.rx = <<>> => u.rx = <<>>
          /\ x.rx # <<>> => Len(u.rx) < Len(x.rx)
        BY <1>1, <2>3
    <2>5. Len(x.rx) <= k - i
        BY <2>2
    <2> HIDE DEF x, u
    <2>6. Len(u.rx) <= k - (i + 1)
        <3>1. CASE x.rx = <<>>
            <4>1. Len(u.rx) = 0
                BY <2>4, <3>1
            <4> QED BY <1>2, <2>1, <4>1
        <3>2. CASE x.rx # <<>>
            <4>1. Len(u.rx) \in Nat /\ Len(x.rx) \in Nat /\ Len(u.rx) < Len(x.rx)
                BY <2>4, <3>2
            <4> QED BY <1>2, <2>5, <4>1
        <3> QED BY <3>1, <3>2
    <2> QED BY <2>6 DEF u
<1>6. \A i \in Nat : i \in Ok
    <2> HIDE DEF Ok
    <2> QED BY <1>4, <1>5, Induct
<1>7. Len(f[k].rx) <= 0
    <2>1. k \in Ok
        BY <1>2, <1>6
    <2> QED BY <1>2, <2>1
<1>8. f[k] \in S /\ f[k].rx \in Seq(X)
    <2>1. f[k] \in S
        BY <1>2, <1>3
    <2> QED BY <1>1, <2>1
<1>9. f[k].rx = <<>>
    BY <1>7, <1>8
<1> QED BY <1>3, <1>8, <1>9 DEF S

-----------------------------------------------------------------------------
(* The sum that the model folds over the entries, as a function.            *)

AnyOf(s) == CHOOSE x \in s : TRUE

\* the sums of w over the subsets of D, each in the order that CHOOSE makes
IsSums(w, D, f) ==
    f = [s \in SUBSET D |->
            IF s = {} THEN 0
            ELSE w[AnyOf(s)] + f[s \ {AnyOf(s)}]]

Sums(w, D) == CHOOSE f : IsSums(w, D, f)

\* a set has one element less when the next is taken out
LEMMA OneLess ==
    ASSUME NEW D, IsFiniteSet(D), NEW s \in SUBSET D, s # {}
    PROVE  /\ AnyOf(s) \in s /\ s \ {AnyOf(s)} \in SUBSET D
           /\ Cardinality(s) \in Nat \ {0}
           /\ Cardinality(s \ {AnyOf(s)}) = Cardinality(s) - 1
<1> DEFINE x == AnyOf(s)
<1>1. x \in s /\ s \ {x} \in SUBSET D
    BY DEF AnyOf
<1>2. IsFiniteSet(s)
    BY FS_Subset
<1>3. Cardinality(s) \in Nat
    BY <1>2, FS_CardinalityType
<1>4. Cardinality(s) # 0
    BY <1>2, FS_EmptySet
<1> HIDE DEF x
<1>5. Cardinality(s \ {x}) = Cardinality(s) - 1
    BY <1>1, <1>2, FS_RemoveElement
<1> QED BY <1>1, <1>3, <1>4, <1>5 DEF x

\* Such a function is to be had for every number of elements.
LEMMA SumsUnfold ==
    ASSUME NEW D, IsFiniteSet(D), NEW w
    PROVE  IsSums(w, D, Sums(w, D))
<1> DEFINE Up(m, f) == /\ f = [s \in SUBSET D |-> f[s]]
                       /\ \A s \in SUBSET D : Cardinality(s) <= m =>
                             f[s] = IF s = {} THEN 0 ELSE w[AnyOf(s)] + f[s \ {AnyOf(s)}]
           Ok == {m \in Nat : \E f : Up(m, f)}
<1>1. 0 \in Ok
    <2> DEFINE f == [s \in SUBSET D |-> 0]
    <2>1. ASSUME NEW s \in SUBSET D, Cardinality(s) <= 0 PROVE s = {}
        <3>1. SUFFICES ASSUME s # {} PROVE FALSE
            OBVIOUS
        <3>2. Cardinality(s) \in Nat \ {0}
            BY <3>1, OneLess
        <3> QED BY <2>1, <3>2
    <2>2. Up(0, f)
        <3>1. f = [s \in SUBSET D |-> f[s]]
            OBVIOUS
        <3>2. \A s \in SUBSET D : f[s] = 0
            OBVIOUS
        <3> HIDE DEF f
        <3> QED BY <2>1, <3>1, <3>2
    <2> HIDE DEF Up
    <2> QED BY <2>2
<1>2. ASSUME NEW m \in Nat, m \in Ok PROVE m + 1 \in Ok
    <2>1. PICK f : Up(m, f)
        BY <1>2
    <2> DEFINE h == [s \in SUBSET D |-> IF Cardinality(s) = m + 1
                                        THEN w[AnyOf(s)] + f[s \ {AnyOf(s)}] ELSE f[s]]
    <2>2. /\ h = [s \in SUBSET D |-> h[s]]
          /\ \A s \in SUBSET D : h[s] = IF Cardinality(s) = m + 1
                                        THEN w[AnyOf(s)] + f[s \ {AnyOf(s)}] ELSE f[s]
        OBVIOUS
    <2> HIDE DEF h
    <2>3. Cardinality({}) = 0 /\ {} \in SUBSET D
        BY FS_EmptySet
    <2>4. ASSUME NEW s \in SUBSET D, Cardinality(s) <= m + 1
          PROVE  h[s] = IF s = {} THEN 0 ELSE w[AnyOf(s)] + h[s \ {AnyOf(s)}]
        <3>1. CASE s = {}
            <4>1. Cardinality({}) <= m /\ Cardinality({}) # m + 1
                BY <1>2, <2>3
            <4>2. h[{}] = f[{}]
                BY <2>2, <2>3, <4>1
            <4>3. f[{}] = IF {} = {} THEN 0 ELSE w[AnyOf({})] + f[{} \ {AnyOf({})}]
                BY <2>1, <2>3, <4>1
            <4> QED BY <3>1, <4>2, <4>3
        <3>2. CASE s # {}
            <4>1. /\ s \ {AnyOf(s)} \in SUBSET D /\ Cardinality(s) \in Nat
                  /\ Cardinality(s \ {AnyOf(s)}) = Cardinality(s) - 1
                BY <3>2, OneLess
            <4>2. h[s \ {AnyOf(s)}] = f[s \ {AnyOf(s)}]
                <5>1. Cardinality(s \ {AnyOf(s)}) # m + 1
                    BY <2>4, <4>1
                <5> QED BY <2>2, <4>1, <5>1
            <4>3. CASE Cardinality(s) = m + 1
                BY <2>2, <3>2, <4>2, <4>3
            <4>4. CASE Cardinality(s) # m + 1
                <5>1. Cardinality(s) <= m
                    BY <2>4, <4>1, <4>4
                <5>2. f[s] = w[AnyOf(s)] + f[s \ {AnyOf(s)}]
                    BY <2>1, <3>2, <5>1
                <5> QED BY <2>2, <3>2, <4>2, <4>4, <5>2
            <4> QED BY <4>3, <4>4
        <3> QED BY <3>1, <3>2
    <2>5. Up(m + 1, h)
        BY <2>2, <2>4
    <2> HIDE DEF Up
    <2> QED BY <2>5
<1>3. Cardinality(D) \in Nat
    BY FS_CardinalityType
<1>4. PICK f : Up(Cardinality(D), f)
    <2> HIDE DEF Ok
    <2>1. Cardinality(D) \in Ok
        BY <1>1, <1>2, <1>3, Induct
    <2> QED BY <2>1 DEF Ok
<1>5. \A s \in SUBSET D : Cardinality(s) <= Cardinality(D)
    BY FS_Subset
<1>6. IsSums(w, D, f)
    <2>1. \A s \in SUBSET D : f[s] = IF s = {} THEN 0 ELSE w[AnyOf(s)] + f[s \ {AnyOf(s)}]
        BY <1>4, <1>5
    <2> QED BY <1>4, <2>1 DEF IsSums
<1> QED BY <1>6 DEF Sums

LEMMA SumsOf ==
    ASSUME NEW D, IsFiniteSet(D), NEW w
    PROVE  /\ Sums(w, D)[{}] = 0
           /\ \A s \in SUBSET D : s # {} =>
                 Sums(w, D)[s] = w[AnyOf(s)] + Sums(w, D)[s \ {AnyOf(s)}]
<1> DEFINE f == Sums(w, D)
<1>1. f = [s \in SUBSET D |-> IF s = {} THEN 0 ELSE w[AnyOf(s)] + f[s \ {AnyOf(s)}]]
    BY SumsUnfold DEF IsSums
<1> HIDE DEF f
<1>2. {} \in SUBSET D
    OBVIOUS
<1>3. f[{}] = 0
    BY <1>1, <1>2
<1>4. \A s \in SUBSET D : s # {} => f[s] = w[AnyOf(s)] + f[s \ {AnyOf(s)}]
    BY <1>1
<1> QED BY <1>3, <1>4 DEF f

Total(w, D) == Sums(w, D)[D]

\* v takes k more than w from element q
Exceeds(v, w, D, q, k) ==
    /\ q \in D
    /\ \A r \in D : w[r] \in Int /\ v[r] = w[r] + (IF r = q THEN k ELSE 0)

\* Where k more is taken from one element, the sum has k more.
LEMMA SumsChange ==
    ASSUME NEW D, IsFiniteSet(D), NEW w, NEW v, NEW q, NEW k \in Int,
           Exceeds(v, w, D, q, k)
    PROVE  Total(w, D) \in Int /\ Total(v, D) = Total(w, D) + k
<1> DEFINE f == Sums(w, D)
           h == Sums(v, D)
           Ok == {m \in Nat : \A s \in SUBSET D : Cardinality(s) <= m =>
                     f[s] \in Int /\ h[s] = f[s] + (IF q \in s THEN k ELSE 0)}
<1>1. /\ f[{}] = 0 /\ h[{}] = 0
      /\ \A s \in SUBSET D : s # {} => /\ f[s] = w[AnyOf(s)] + f[s \ {AnyOf(s)}]
                                       /\ h[s] = v[AnyOf(s)] + h[s \ {AnyOf(s)}]
    <2>1. /\ f[{}] = 0
          /\ \A s \in SUBSET D : s # {} => f[s] = w[AnyOf(s)] + f[s \ {AnyOf(s)}]
        BY SumsOf
    <2>2. /\ h[{}] = 0
          /\ \A s \in SUBSET D : s # {} => h[s] = v[AnyOf(s)] + h[s \ {AnyOf(s)}]
        BY SumsOf
    <2> QED BY <2>1, <2>2
<1> HIDE DEF f, h
<1>2. 0 \in Ok
    <2>1. ASSUME NEW s \in SUBSET D, Cardinality(s) <= 0 PROVE s = {}
        <3>1. SUFFICES ASSUME s # {} PROVE FALSE
            OBVIOUS
        <3>2. Cardinality(s) \in Nat \ {0}
            BY <3>1, OneLess
        <3> QED BY <2>1, <3>2
    <2>2. ASSUME NEW s \in SUBSET D, Cardinality(s) <= 0
          PROVE  f[s] \in Int /\ h[s] = f[s] + (IF q \in s THEN k ELSE 0)
        <3>1. s = {} /\ q \notin s
            BY <2>1, <2>2
        <3> QED BY <1>1, <3>1
    <2> QED BY <2>2
<1>3. ASSUME NEW m \in Nat, m \in Ok PROVE m + 1 \in Ok
    <2>1. ASSUME NEW s \in SUBSET D, Cardinality(s) <= m + 1
          PROVE  f[s] \in Int /\ h[s] = f[s] + (IF q \in s THEN k ELSE 0)
        <3>1. CASE s = {}
            BY <1>1, <3>1
        <3>2. CASE s # {}
            <4> DEFINE x == AnyOf(s)
            <4>1. /\ x \in s /\ s \ {x} \in SUBSET D /\ Cardinality(s) \in Nat
                  /\ Cardinality(s \ {x}) = Cardinality(s) - 1
                BY <3>2, OneLess
            <4>2. f[s] = w[x] + f[s \ {x}] /\ h[s] = v[x] + h[s \ {x}]
                BY <1>1, <3>2
            <4> HIDE DEF x
            <4>3. /\ f[s \ {x}] \in Int
                  /\ h[s \ {x}] = f[s \ {x}] + (IF q \in s \ {x} THEN k ELSE 0)
                BY <1>3, <2>1, <4>1
            <4>4. w[x] \in Int /\ v[x] = w[x] + (IF x = q THEN k ELSE 0)
                BY <4>1 DEF Exceeds
            <4>5. CASE q = x
                BY <4>1, <4>2, <4>3, <4>4, <4>5
            <4>6. CASE q # x
                <5>1. q \in s <=> q \in s \ {x}
                    BY <4>6
                <5> QED BY <4>2, <4>3, <4>4, <4>6, <5>1
            <4> QED BY <4>5, <4>6
        <3> QED BY <3>1, <3>2
    <2> QED BY <2>1
<1>4. Cardinality(D) \in Nat
    BY FS_CardinalityType
<1>5. Cardinality(D) \in Ok
    <2> HIDE DEF Ok
    <2> QED BY <1>2, <1>3, <1>4, Induct
<1>6. f[D] \in Int /\ h[D] = f[D] + k
    BY <1>4, <1>5 DEF Exceeds
<1> QED BY <1>6 DEF f, h, Total

LEMMA SumsNothing ==
    ASSUME NEW D, IsFiniteSet(D), NEW w, \A r \in D : w[r] = 0
    PROVE  Total(w, D) = 0
<1> DEFINE f == Sums(w, D)
           Ok == {m \in Nat : \A s \in SUBSET D : Cardinality(s) <= m => f[s] = 0}
<1>1. /\ f[{}] = 0
      /\ \A s \in SUBSET D : s # {} => f[s] = w[AnyOf(s)] + f[s \ {AnyOf(s)}]
    BY SumsOf
<1> HIDE DEF f
<1>2. ASSUME NEW m \in Nat, m = 0 \/ m - 1 \in Ok,
             NEW s \in SUBSET D, Cardinality(s) <= m
      PROVE  f[s] = 0
    <2>1. CASE s = {}
        BY <1>1, <2>1
    <2>2. CASE s # {}
        <3>1. /\ AnyOf(s) \in s /\ s \ {AnyOf(s)} \in SUBSET D
              /\ Cardinality(s) \in Nat \ {0}
              /\ Cardinality(s \ {AnyOf(s)}) = Cardinality(s) - 1
            BY <2>2, OneLess
        <3>2. m # 0
            BY <1>2, <3>1
        <3>3. f[s \ {AnyOf(s)}] = 0
            <4>1. Cardinality(s \ {AnyOf(s)}) <= m - 1
                <5> HIDE DEF Ok
                <5> QED BY <1>2, <3>1
            <4> QED BY <1>2, <3>1, <3>2, <4>1
        <3>4. f[s] = w[AnyOf(s)] + f[s \ {AnyOf(s)}] /\ w[AnyOf(s)] = 0
            BY <1>1, <2>2, <3>1
        <3> QED BY <3>3, <3>4
    <2> QED BY <2>1, <2>2
<1>3. 0 \in Ok
    BY <1>2
<1>4. ASSUME NEW m \in Nat, m \in Ok PROVE m + 1 \in Ok
    <2>1. m + 1 - 1 = m
        OBVIOUS
    <2>2. \A s \in SUBSET D : Cardinality(s) <= m + 1 => f[s] = 0
        <3> HIDE DEF Ok
        <3> QED BY <1>2, <1>4, <2>1
    <2> QED BY <2>2
<1>5. Cardinality(D) \in Nat
    BY FS_CardinalityType
<1>6. Cardinality(D) \in Ok
    <2> HIDE DEF Ok
    <2> QED BY <1>3, <1>4, <1>5, Induct
<1> QED BY <1>5, <1>6 DEF f, Total

-----------------------------------------------------------------------------
(* The bytes that were put into the FIFOs or taken out of them.             *)

BytesOf(d) == [q \in DOMAIN d |-> d[q].addrSent + d[q].position]

BytesIn(d) == Total(BytesOf(d), DOMAIN d)

LEMMA MovedIs == BytesMoved = BytesIn(dq) - Len(tx) + Len(rx)
<1> DEFINE D == DOMAIN dq
           w == BytesOf(dq)
           IsFold(f) == f = [s \in SUBSET D |->
               IF s = {} THEN 0
               ELSE dq[AnyOf(s)].addrSent + dq[AnyOf(s)].position + f[s \ {AnyOf(s)}]]
<1>1. BytesMoved = (CHOOSE f : IsFold(f))[D] - Len(tx) + Len(rx)
    BY DEF BytesMoved, MapThenSumSet, MapThenFoldSet, AnyOf
<1>2. \A s \in SUBSET D : s # {} =>
          w[AnyOf(s)] = dq[AnyOf(s)].addrSent + dq[AnyOf(s)].position
    BY DEF AnyOf, BytesOf
<1> HIDE DEF w
<1>3. \A f : IsFold(f) <=> IsSums(w, D, f)
    BY <1>2 DEF IsSums
<1> HIDE DEF IsFold
<1>4. (CHOOSE f : IsFold(f)) = Sums(w, D)
    BY <1>3, Zenon DEF Sums
<1> QED BY <1>1, <1>4 DEF w, BytesIn, Total

LEMMA Entries == ASSUME NEW n \in Nat PROVE IsFiniteSet(1 .. n)
BY FS_Interval

LEMMA BytesInNone ==
    ASSUME NEW n \in Nat, NEW d, DOMAIN d = 1 .. n,
           \A r \in 1 .. n : d[r].addrSent = 0 /\ d[r].position = 0
    PROVE  BytesIn(d) = 0
<1>1. \A r \in 1 .. n : BytesOf(d)[r] = 0
    BY DEF BytesOf
<1> QED BY <1>1, Entries, SumsNothing DEF BytesIn

\* of entry q, k bytes more
LEMMA BytesInMore ==
    ASSUME NEW n \in Nat, NEW d \in [1 .. n -> Item], NEW e \in [1 .. n -> Item],
           NEW q \in 1 .. n, NEW k \in Int,
           e[q].addrSent + e[q].position = d[q].addrSent + d[q].position + k,
           \A r \in 1 .. n : r # q => e[r] = d[r]
    PROVE  BytesIn(d) \in Int /\ BytesIn(e) = BytesIn(d) + k
<1>1. DOMAIN d = 1 .. n /\ DOMAIN e = 1 .. n
    OBVIOUS
<1>2. ASSUME NEW r \in 1 .. n
      PROVE  /\ BytesOf(d)[r] \in Int
             /\ BytesOf(e)[r] = BytesOf(d)[r] + (IF r = q THEN k ELSE 0)
    <2>1. BytesOf(d)[r] = d[r].addrSent + d[r].position
          /\ BytesOf(e)[r] = e[r].addrSent + e[r].position
        BY <1>1 DEF BytesOf
    <2>2. d[r] \in Item
        OBVIOUS
    <2>3. d[r].addrSent + d[r].position \in Int
        BY ONLY <2>2 DEF Item
    <2> QED BY <2>1, <2>3
<1>3. IsFiniteSet(1 .. n) /\ Exceeds(BytesOf(e), BytesOf(d), 1 .. n, q, k)
    BY <1>2, Entries DEF Exceeds
<1>4. /\ Total(BytesOf(d), 1 .. n) \in Int
      /\ Total(BytesOf(e), 1 .. n) = Total(BytesOf(d), 1 .. n) + k
    BY <1>3, SumsChange
<1> QED BY <1>1, <1>4 DEF BytesIn

LEMMA BytesInSame ==
    ASSUME NEW n \in Nat, NEW d, NEW e, DOMAIN d = 1 .. n, DOMAIN e = 1 .. n,
           \A r \in 1 .. n : e[r].addrSent = d[r].addrSent /\ e[r].position = d[r].position
    PROVE  BytesIn(e) = BytesIn(d)
<1>1. BytesOf(e) = BytesOf(d)
    BY DEF BytesOf
<1> QED BY <1>1 DEF BytesIn

LEMMA BytesInTyped ==
    ASSUME NEW n \in Nat, NEW d \in [1 .. n -> Item]
    PROVE  BytesIn(d) \in Int
<1>1. CASE n = 0
    BY <1>1, BytesInNone
<1>2. CASE n # 0
    <2>1. 1 \in 1 .. n /\ d[1].addrSent + d[1].position = d[1].addrSent + d[1].position + 0
        BY <1>2 DEF Item
    <2> QED BY <2>1, BytesInMore
<1> QED BY <1>1, <1>2

-----------------------------------------------------------------------------
(* Filling and emptying the FIFOs moves bytes, and loses none.              *)

LEMMA SendAddressCounts ==
    ASSUME NEW n \in Nat, NEW s \in Sending(n), NEW q \in 1 .. n, Room(s.tx)
    PROVE  LET u == SendAddress(s, q) IN BytesIn(u.dq) - Len(u.tx) = BytesIn(s.dq) - Len(s.tx)
<1> DEFINE e   == s.dq[q]
           num == IF e.addrReq = e.addrSent THEN 0
                  ELSE IF e.addrReq - e.addrSent = 2 /\ Len(s.tx) = FifoLen - 2 THEN 1
                  ELSE e.addrReq - e.addrSent
           b   == SubSeq(AddressBytes(e, q), 1, num)
           x   == [e EXCEPT !.addrSent = @ + num]
           u   == SendAddress(s, q)
<1>1. /\ e \in Item /\ s.tx \in Seq(TxByte) /\ Len(s.tx) \in Nat /\ s.dq \in [1 .. n -> Item]
    BY DEF Sending, TxFifo
<1>2. /\ e.addrReq \in {1, 2} /\ e.addrSent \in Nat /\ e.addrSent <= e.addrReq
      /\ e.rw \in Nat /\ e.position \in Nat
    BY <1>1 DEF Item
<1>3. num \in Nat /\ num <= e.addrReq - e.addrSent
    <2> HIDE DEF e
    <2> QED BY <1>1, <1>2
<1>4. b \in Seq(TxByte) /\ Len(b) = num
    <2> DEFINE m == e.addrReq - e.addrSent
    <2>1. m \in Nat /\ num <= m
        BY <1>2, <1>3
    <2>2. AddressBytes(e, q) \in [1 .. m -> TxByte]
        <3> HIDE DEF e
        <3> QED BY <1>2 DEF AddressBytes, TxByte
    <2>3. AddressBytes(e, q) \in Seq(TxByte) /\ Len(AddressBytes(e, q)) = m
        <3> HIDE DEF m
        <3> QED BY <2>1, <2>2
    <2> HIDE DEF m, num
    <2> QED BY <1>3, <2>1, <2>3
<1>5. u \in Sending(n)
    BY SendAddressTyped
<1>6. u.tx = s.tx \o b /\ u.dq = [s.dq EXCEPT ![q] = x]
    <2> HIDE DEF num
    <2> QED BY DEF SendAddress, Sending, num
<1> HIDE DEF b, num, u
<1>7. Len(u.tx) = Len(s.tx) + num
    <2>1. Len(s.tx \o b) = Len(s.tx) + Len(b)
        BY ONLY <1>1, <1>4, Joined
    <2> QED BY <1>4, <1>6, <2>1
<1>8. /\ u.dq \in [1 .. n -> Item] /\ u.dq[q] = x
      /\ \A r \in 1 .. n : r # q => u.dq[r] = s.dq[r]
    BY <1>1, <1>5, <1>6 DEF Sending
<1>9. x.addrSent + x.position = e.addrSent + e.position + num
    BY <1>1, <1>2, <1>3 DEF Item
<1>10. BytesIn(s.dq) \in Int /\ BytesIn(u.dq) = BytesIn(s.dq) + num
    <2> DEFINE d == s.dq
               f == u.dq
    <2>1. /\ d \in [1 .. n -> Item] /\ f \in [1 .. n -> Item] /\ num \in Int
          /\ f[q].addrSent + f[q].position = d[q].addrSent + d[q].position + num
          /\ \A r \in 1 .. n : r # q => f[r] = d[r]
        <3> HIDE DEF x
        <3> QED BY <1>1, <1>3, <1>8, <1>9
    <2> HIDE DEF d, f
    <2>2. BytesIn(d) \in Int /\ BytesIn(f) = BytesIn(d) + num
        BY <2>1, BytesInMore
    <2> QED BY <2>2 DEF d, f
<1> QED BY <1>1, <1>3, <1>7, <1>10 DEF u

LEMMA SendDataCounts ==
    ASSUME NEW n \in Nat, NEW s \in Sending(n), NEW q \in 1 .. n
    PROVE  LET u == SendData(s, q) IN BytesIn(u.dq) - Len(u.tx) = BytesIn(s.dq) - Len(s.tx)
<1> DEFINE e   == s.dq[q]
           num == LesserOf(FifoLen - Len(s.tx), e.length - e.position)
           b   == DataBytes(e, q, num)
           x   == [e EXCEPT !.position = @ + num]
           u   == SendData(s, q)
<1>1. /\ e \in Item /\ s.tx \in Seq(TxByte) /\ Len(s.tx) \in Nat /\ Len(s.tx) <= FifoLen
      /\ FifoLen \in Nat /\ s.dq \in [1 .. n -> Item]
    BY CommandsAssumption DEF Sending, TxFifo
<1>2. e.position \in Nat /\ e.length \in Nat /\ e.position <= e.length /\ e.addrSent \in Nat
    BY <1>1 DEF Item
<1>3. num \in Nat
    <2> HIDE DEF e
    <2> QED BY <1>1, <1>2 DEF LesserOf
<1>4. b \in Seq(TxByte) /\ Len(b) = num
    <2>1. b \in [1 .. num -> TxByte]
        <3> HIDE DEF e, num
        <3> QED BY <1>2, <1>3 DEF DataBytes, TxByte
    <2> HIDE DEF num, b
    <2> QED BY <1>3, <2>1
<1>5. u \in Sending(n)
    BY SendDataTyped
<1>6. u = s \/ (u.tx = s.tx \o b /\ u.dq = [s.dq EXCEPT ![q] = x])
    <2> HIDE DEF num
    <2> QED BY DEF SendData, Sending, num
<1> HIDE DEF b, num, u
<1>7. CASE u = s
    BY <1>7 DEF u
<1>8. CASE u.tx = s.tx \o b /\ u.dq = [s.dq EXCEPT ![q] = x]
    <2>1. Len(u.tx) = Len(s.tx) + num
        <3>1. Len(s.tx \o b) = Len(s.tx) + Len(b)
            BY ONLY <1>1, <1>4, Joined
        <3> QED BY <1>4, <1>8, <3>1
    <2>2. /\ u.dq \in [1 .. n -> Item] /\ u.dq[q] = x
          /\ \A r \in 1 .. n : r # q => u.dq[r] = s.dq[r]
        BY <1>1, <1>5, <1>8 DEF Sending
    <2>3. x.addrSent + x.position = e.addrSent + e.position + num
        BY <1>1, <1>2, <1>3 DEF Item
    <2>4. BytesIn(s.dq) \in Int /\ BytesIn(u.dq) = BytesIn(s.dq) + num
        <3> DEFINE d == s.dq
                   f == u.dq
        <3>1. /\ d \in [1 .. n -> Item] /\ f \in [1 .. n -> Item] /\ num \in Int
              /\ f[q].addrSent + f[q].position = d[q].addrSent + d[q].position + num
              /\ \A r \in 1 .. n : r # q => f[r] = d[r]
            <4> HIDE DEF x
            <4> QED BY <1>1, <1>3, <2>2, <2>3
        <3> HIDE DEF d, f
        <3>2. BytesIn(d) \in Int /\ BytesIn(f) = BytesIn(d) + num
            BY <3>1, BytesInMore
        <3> QED BY <3>2 DEF d, f
    <2> QED BY <1>1, <1>3, <2>1, <2>4 DEF u
<1> QED BY <1>6, <1>7, <1>8

LEMMA SendEntryCounts ==
    ASSUME NEW n \in Nat, NEW s \in Sending(n)
    PROVE  LET u == SendEntry(s) IN BytesIn(u.dq) - Len(u.tx) = BytesIn(s.dq) - Len(s.tx)
<1> DEFINE q == s.at
           a == SendAddress(s, q)
           d == SendData(a, q)
           t == MeetRead(d, q)
           u == SendEntry(s)
<1>1. Len(s.dq) = n /\ q \in 1 .. n + 1
    BY DEF Sending
<1>2. CASE q > n \/ ~Room(s.tx)
    BY <1>1, <1>2 DEF SendEntry
<1>3. CASE q <= n /\ Room(s.tx)
    <2>1. q \in 1 .. n
        BY <1>1, <1>3
    <2>2. a \in Sending(n) /\ BytesIn(a.dq) - Len(a.tx) = BytesIn(s.dq) - Len(s.tx)
        BY <1>3, <2>1, SendAddressTyped, SendAddressCounts
    <2> HIDE DEF a
    <2>3. d \in Sending(n) /\ BytesIn(d.dq) - Len(d.tx) = BytesIn(a.dq) - Len(a.tx)
        BY <2>1, <2>2, SendDataTyped, SendDataCounts
    <2> HIDE DEF d
    <2>4. t \in Sending(n) /\ t.dq = d.dq /\ t.tx = d.tx
        BY <2>1, <2>3 DEF MeetRead, Sending
    <2>5. u = IF Room(t.tx) THEN [t EXCEPT !.at = @ + 1] ELSE t
        BY <1>1, <1>3 DEF SendEntry, a, d
    <2> HIDE DEF t, u
    <2>6. u.dq = t.dq /\ u.tx = t.tx
        BY <2>4, <2>5 DEF Sending
    <2> QED BY <2>2, <2>3, <2>4, <2>6 DEF u
<1> QED BY <1>1, <1>2, <1>3

\* what fillTxFifo puts is in the FIFO
LEMMA fillTxFifoCounts ==
    ASSUME NEW n \in Nat, NEW d \in [1 .. n -> Item], NEW p \in 1 .. n + 1, NEW t \in TxFifo,
           NEW u, u = fillTxFifo(d, p, t)
    PROVE  BytesIn(u.dq) - Len(u.tx) = BytesIn(d) - Len(t)
<1> DEFINE s == [dq |-> d, queuePos |-> p, tx |-> t, met |-> FALSE, at |-> p]
           S == {x \in Sending(n) : BytesIn(x.dq) - Len(x.tx) = BytesIn(d) - Len(t)}
<1>1. s \in S
    BY DEF Sending
<1>2. \A x \in S : SendEntry(x) \in S
    BY SendEntryTyped, SendEntryCounts
<1>3. Len(d) = n
    OBVIOUS
<1> HIDE DEF S
<1>4. fillTxFifo(d, p, t) \in S
    <2>1. Len(d) \in Nat
        BY <1>3
    <2>2. PICK f \in [0 .. Len(d) -> S] : fillTxFifo(d, p, t) = f[Len(d)]
        BY <1>1, <1>2, <2>1, fillTxFifoRounds
    <2> QED BY <2>1, <2>2
<1> QED BY <1>4 DEF S

\* unless bytes are thrown away
LEMMA StoreBytesCounts ==
    ASSUME NEW n \in Nat, NEW X, NEW r \in Storing(n, X)
    PROVE  LET u == StoreBytes(r)
           IN  \/ u.misplaced
               \/ ~r.misplaced /\ BytesIn(u.dq) + Len(u.rx) = BytesIn(r.dq) + Len(r.rx)
<1> DEFINE free == {q \in r.queuePos .. Len(r.dq) : r.dq[q].position < r.dq[q].length}
           first == CHOOSE q \in free : \A p \in free : q <= p
           to   == IF free = {} THEN Len(r.dq) + 1 ELSE first
           e    == r.dq[to]
           num  == LesserOf(Len(r.rx), e.length - e.position)
           lost == [r EXCEPT !.rx = <<>>, !.queuePos = to, !.misplaced = TRUE]
           m    == \E i \in 1 .. num : r.rx[i] # [q |-> to, b |-> e.position + i - 1]
           kept == [r EXCEPT !.queuePos = to,
                             !.rx = SubSeq(r.rx, num + 1, Len(r.rx)),
                             !.dq[to].position = @ + num,
                             !.misplaced = @ \/ m]
           u    == StoreBytes(r)
<1>1. /\ Len(r.dq) = n /\ r.queuePos \in 1 .. n + 1 /\ r.dq \in [1 .. n -> Item]
      /\ r.rx \in Seq(X) /\ Len(r.rx) \in Nat /\ r.misplaced \in BOOLEAN
    BY DEF Storing, RxFifo
<1>2. free # {} => to \in free /\ to \in 1 .. n
    <2>1. free \in SUBSET Nat /\ free \subseteq 1 .. n
        BY <1>1
    <2> HIDE DEF free
    <2>2. free # {} => \E q \in free : \A p \in free : q <= p
        BY <2>1, Least
    <2>3. free # {} => first \in free
        BY <2>2
    <2> QED BY <2>1, <2>3
<1>3. u = r \/ u = lost \/ (free # {} /\ u = kept)
    BY DEF StoreBytes
<1>4. u \in Storing(n, X)
    BY StoreBytesTyped
<1> HIDE DEF u
<1>5. CASE u = r
    BY <1>1, <1>5 DEF u
<1>6. CASE u = lost
    <2> HIDE DEF to
    <2>1. u.misplaced = TRUE
        BY <1>6 DEF Storing
    <2> QED BY <2>1 DEF u
<1>7. CASE free # {} /\ u = kept
    <2> DEFINE x == [e EXCEPT !.position = @ + num]
    <2>1. to \in 1 .. n /\ e \in Item /\ e.position < e.length
        <3>1. to \in free /\ to \in 1 .. n
            BY <1>2, <1>7
        <3> HIDE DEF to
        <3> QED BY <1>1, <3>1
    <2> HIDE DEF free, to, lost
    <2>2. e.position \in Nat /\ e.length \in Nat /\ e.addrSent \in Nat
        BY <2>1 DEF Item
    <2>3. num \in Nat /\ num <= Len(r.rx)
        <3> HIDE DEF e
        <3> QED BY <1>1, <2>1, <2>2 DEF LesserOf
    <2>4. /\ u.rx = SubSeq(r.rx, num + 1, Len(r.rx)) /\ u.dq = [r.dq EXCEPT ![to] = x]
          /\ u.misplaced = (r.misplaced \/ m)
        <3> HIDE DEF num, m
        <3> QED BY <1>1, <1>7, <2>1 DEF Storing
    <2> HIDE DEF num, m
    <2>5. Len(u.rx) = Len(r.rx) - num
        <3>1. SubSeq(r.rx, num + 1, Len(r.rx)) \in Seq(X)
              /\ Len(SubSeq(r.rx, num + 1, Len(r.rx))) = Len(r.rx) - num
            BY <1>1, <2>3
        <3> QED BY <2>4, <3>1
    <2>6. x.addrSent + x.position = e.addrSent + e.position + num
        BY <2>1, <2>2, <2>3 DEF Item
    <2>7. /\ u.dq \in [1 .. n -> Item] /\ u.dq[to] = x
          /\ \A p \in 1 .. n : p # to => u.dq[p] = r.dq[p]
        BY <1>1, <1>4, <2>1, <2>4 DEF Storing
    <2>8. BytesIn(r.dq) \in Int /\ BytesIn(u.dq) = BytesIn(r.dq) + num
        <3> DEFINE d == r.dq
                   f == u.dq
        <3>1. /\ d \in [1 .. n -> Item] /\ f \in [1 .. n -> Item] /\ num \in Int
              /\ f[to].addrSent + f[to].position = d[to].addrSent + d[to].position + num
              /\ \A p \in 1 .. n : p # to => f[p] = d[p]
            <4> HIDE DEF x
            <4> QED BY <1>1, <2>3, <2>6, <2>7
        <3> HIDE DEF d, f
        <3>2. BytesIn(d) \in Int /\ BytesIn(f) = BytesIn(d) + num
            BY <2>1, <3>1, BytesInMore
        <3> QED BY <3>2 DEF d, f
    <2>9. BytesIn(u.dq) + Len(u.rx) = BytesIn(r.dq) + Len(r.rx)
        BY <1>1, <2>3, <2>5, <2>8
    <2>10. u.misplaced \/ ~r.misplaced
        BY <2>4
    <2> QED BY <2>9, <2>10 DEF u
<1> HIDE DEF lost, kept, free
<1> QED BY <1>3, <1>5, <1>6, <1>7

LEMMA emptyRxFifoCounts ==
    ASSUME NEW n \in Nat, NEW X, NEW r \in Storing(n, X),
           NEW u, u = emptyRxFifo(r), ~u.misplaced
    PROVE  BytesIn(u.dq) + Len(u.rx) = BytesIn(r.dq) + Len(r.rx)
<1> DEFINE S == {x \in Storing(n, X) :
                    \/ x.misplaced
                    \/ BytesIn(x.dq) + Len(x.rx) = BytesIn(r.dq) + Len(r.rx)}
<1>1. r \in S
    OBVIOUS
<1>2. ASSUME NEW x \in S PROVE StoreBytes(x) \in S
    <2>1. StoreBytes(x) \in Storing(n, X)
        BY StoreBytesTyped
    <2>2. \/ StoreBytes(x).misplaced
          \/ /\ ~x.misplaced
             /\ BytesIn(StoreBytes(x).dq) + Len(StoreBytes(x).rx) = BytesIn(x.dq) + Len(x.rx)
        BY StoreBytesCounts
    <2> QED BY <2>1, <2>2
<1>3. Len(r.rx) \in Nat
    BY DEF Storing, RxFifo
<1> HIDE DEF S
<1>4. emptyRxFifo(r) \in S
    <2>1. PICK f \in [0 .. Len(r.rx) -> S] : emptyRxFifo(r) = f[Len(r.rx)]
        BY <1>1, <1>2, <1>3, emptyRxFifoRounds
    <2> QED BY <1>3, <2>1
<1> QED BY <1>4 DEF S

-----------------------------------------------------------------------------
(* How the events on the bus and the bytes in the FIFOs compare.            *)

\* s events were on the bus, the last of them of entry q and no STOP: the bytes among them
\* are all but the q STARTs.
Counts(n, d, B, s, m) ==
    \/ s = 0 /\ m = 0
    \/ \E q \in 1 .. n : s - B[q] \in 1 .. 1 + d[q].addrReq + d[q].length /\ m = s - q

LEMMA SizeTyped ==
    ASSUME NEW n \in Nat, NEW d \in [1 .. n -> Item], NEW B, NEW T, Script(n, d, B, T),
           NEW q \in 1 .. n
    PROVE  /\ B[q] \in Nat /\ d[q].addrReq \in Nat /\ d[q].length \in Nat
           /\ Size(d[q]) \in Nat /\ 1 + d[q].addrReq + d[q].length \in 1 .. Size(d[q])
           /\ ~d[q].stop => Size(d[q]) = 1 + d[q].addrReq + d[q].length
<1>1. B[q] \in Nat /\ Size(d[q]) \in Nat
    BY ScriptFits
<1>2. d[q].addrReq \in Nat /\ d[q].length \in Nat
    BY ItemTyped
<1>3. Size(d[q]) = 1 + d[q].addrReq + d[q].length + (IF d[q].stop THEN 1 ELSE 0)
    BY DEF Size
<1> DEFINE r == d[q].addrReq
           l == d[q].length
           z == Size(d[q])
<1>4. /\ z \in Nat /\ r \in Nat /\ l \in Nat
      /\ z = 1 + r + l + (IF d[q].stop THEN 1 ELSE 0)
    BY <1>1, <1>2, <1>3
<1> HIDE DEF r, l, z
<1>5. 1 + r + l \in 1 .. z /\ (~d[q].stop => z = 1 + r + l)
    <2>1. CASE d[q].stop
        BY ONLY <1>4, <2>1
    <2>2. CASE ~d[q].stop
        BY ONLY <1>4, <2>2
    <2> QED BY <2>1, <2>2
<1> QED BY <1>1, <1>2, <1>5 DEF r, l, z

\* an event of an entry that is not its STOP
LEMMA WithinSize ==
    ASSUME NEW n \in Nat, NEW d \in [1 .. n -> Item], NEW B, NEW T, Script(n, d, B, T),
           NEW q \in 1 .. n, NEW j, j \in 1 .. 1 + d[q].addrReq + d[q].length
    PROVE  j \in 1 .. Size(d[q])
<1>1. /\ Size(d[q]) \in Nat /\ 1 + d[q].addrReq + d[q].length \in 1 .. Size(d[q])
    BY SizeTyped
<1> DEFINE k == 1 + d[q].addrReq + d[q].length
<1>2. k \in 1 .. Size(d[q]) /\ j \in 1 .. k
    BY <1>1
<1> HIDE DEF k
<1> QED BY <1>1, <1>2

\* an entry is known from one of its events
LEMMA OneEntry ==
    ASSUME NEW n \in Nat, NEW d \in [1 .. n -> Item], NEW B, NEW T, Script(n, d, B, T),
           NEW p \in 1 .. n, NEW q \in 1 .. n, NEW s,
           s - B[p] \in 1 .. Size(d[p]), s - B[q] \in 1 .. Size(d[q]), s \in Nat
    PROVE  p = q
<1> SUFFICES ASSUME p # q PROVE FALSE
    OBVIOUS
<1>1. B[p] \in Nat /\ B[q] \in Nat /\ Size(d[p]) \in Nat /\ Size(d[q]) \in Nat
    BY ScriptFits
<1> DEFINE j == s - B[p]
<1>2. j \in 1 .. Size(d[p]) /\ B[p] + j = s
    BY <1>1
<1>3. B[p] + j <= B[q] \/ B[p] + j > B[q] + Size(d[q])
    <2> HIDE DEF j
    <2> QED BY <1>2, EntryApart
<1> QED BY <1>1, <1>2, <1>3

LEMMA CountsAt ==
    ASSUME NEW n, NEW d, NEW B, NEW s, NEW m, NEW q \in 1 .. n,
           s - B[q] \in 1 .. 1 + d[q].addrReq + d[q].length, m = s - q
    PROVE  Counts(n, d, B, s, m)
BY DEF Counts

LEMMA CountsByte ==
    ASSUME NEW n \in Nat, NEW d \in [1 .. n -> Item], NEW B, NEW T, Script(n, d, B, T),
           NEW s \in Nat, s + 1 \in 1 .. Len(T), T[s + 1].ev \in {"READ", "WRITE"},
           NEW m \in Int, Counts(n, d, B, s, m)
    PROVE  Counts(n, d, B, s + 1, m + 1)
<1>1. PICK p \in 1 .. n : PlacedAt(s + 1, p, d, B)
    BY EventPlaced
<1> DEFINE j == (s + 1) - B[p]
           k == 1 + d[p].addrReq + d[p].length
<1>2. j \in 1 .. Size(d[p]) /\ B[p] + j = s + 1 /\ B[p] \in Nat
    <2>1. B[p] \in Nat
        BY ScriptFits
    <2>2. j \in 1 .. Size(d[p])
        BY <1>1 DEF PlacedAt
    <2> DEFINE b == B[p]
    <2>3. b + j = s + 1
        <3>1. b \in Nat /\ j = (s + 1) - b
            BY <2>1
        <3> HIDE DEF b, j
        <3> QED BY <3>1
    <2> QED BY <2>1, <2>2, <2>3
<1>3. k \in Nat /\ k <= Size(d[p]) /\ Size(d[p]) \in Nat
    <2>1. k \in 1 .. Size(d[p]) /\ Size(d[p]) \in Nat
        BY SizeTyped
    <2> HIDE DEF k
    <2> QED BY <2>1
<1>4. EventOf(d[p], p, j).ev \in {"READ", "WRITE"}
    <2>1. T[B[p] + j] = EventOf(d[p], p, j)
        BY <1>2 DEF Script
    <2> QED BY <1>2, <2>1
<1>5. j # 1
    <2>1. EventOf(d[p], p, 1).ev = "START"
        BY EventStart
    <2> HIDE DEF j
    <2> QED BY <1>4, <2>1
<1>6. j <= k
    <2>1. j \in Nat \ {0}
        BY <1>2, <1>3
    <2> HIDE DEF j
    <2>2. EventOf(d[p], p, j).ev = "STOP" <=> j > k
        BY <2>1, EventIsStop
    <2>3. ~(j > k)
        BY <1>4, <2>2
    <2> HIDE DEF k
    <2> QED BY <1>3, <2>1, <2>3
<1> HIDE DEF j
<1>7. s # 0 /\ s - B[p] \in 1 .. Size(d[p]) /\ (s + 1) - B[p] \in 1 .. k
    <2> DEFINE b == B[p]
               z == Size(d[p])
    <2>1. /\ j = (s + 1) - b /\ j \in 1 .. z /\ b \in Nat /\ z \in Nat
          /\ k \in Nat /\ j # 1 /\ j <= k
        BY <1>2, <1>3, <1>5, <1>6 DEF j
    <2> HIDE DEF k, b, z
    <2>2. s # 0 /\ s - b \in 1 .. z /\ (s + 1) - b \in 1 .. k
        BY <2>1
    <2> QED BY <2>2 DEF b, z
<1>8. PICK q \in 1 .. n : s - B[q] \in 1 .. 1 + d[q].addrReq + d[q].length /\ m = s - q
    BY <1>7 DEF Counts
<1>9. q = p
    <2>1. s - B[q] \in 1 .. Size(d[q])
        BY <1>8, WithinSize
    <2> QED BY <1>7, <2>1, OneEntry
<1>10. m + 1 = (s + 1) - p
    BY <1>8, <1>9
<1> HIDE DEF k
<1>11. (s + 1) - B[p] \in 1 .. 1 + d[p].addrReq + d[p].length
    BY <1>7 DEF k
<1> QED BY <1>10, <1>11, CountsAt

LEMMA CountsStart ==
    ASSUME NEW n \in Nat, NEW d \in [1 .. n -> Item], NEW B, NEW T, Script(n, d, B, T),
           OnlyLastStops(n, d),
           NEW s \in Nat, s + 1 \in 1 .. Len(T), T[s + 1].ev = "START",
           NEW m \in Int, Counts(n, d, B, s, m)
    PROVE  Counts(n, d, B, s + 1, m)
<1>1. PICK p \in 1 .. n : PlacedAt(s + 1, p, d, B)
    BY EventPlaced
<1> DEFINE j == (s + 1) - B[p]
<1>2. j \in 1 .. Size(d[p]) /\ B[p] + j = s + 1 /\ B[p] \in Nat
    <2>1. B[p] \in Nat
        BY ScriptFits
    <2>2. j \in 1 .. Size(d[p])
        BY <1>1 DEF PlacedAt
    <2> DEFINE b == B[p]
    <2>3. b + j = s + 1
        <3>1. b \in Nat /\ j = (s + 1) - b
            BY <2>1
        <3> HIDE DEF b, j
        <3> QED BY <3>1
    <2> QED BY <2>1, <2>2, <2>3
<1>3. EventOf(d[p], p, j).ev = "START"
    <2>1. T[B[p] + j] = EventOf(d[p], p, j)
        BY <1>2 DEF Script
    <2> QED BY <1>2, <2>1
<1>4. j = 1
    <2> SUFFICES ASSUME j # 1 PROVE FALSE
        OBVIOUS
    <2>1. j \in Nat /\ j > 1
        BY <1>2
    <2>2. d[p].mode \in {"READ", "WRITE"} /\ d[p] \in Item
        BY ItemTyped
    <2>3. d[p].addrReq \in Nat /\ d[p].length \in Nat
        BY <2>2, ItemTyped
    <2> HIDE DEF j
    <2>4. CASE j <= 1 + d[p].addrReq
        BY <1>3, <2>1, <2>2, <2>4, EventAddress
    <2>5. CASE j > 1 + d[p].addrReq /\ j <= 1 + d[p].addrReq + d[p].length
        BY <1>3, <2>1, <2>2, <2>5, EventData
    <2>6. CASE j > 1 + d[p].addrReq + d[p].length
        BY <1>3, <2>1, <2>2, <2>6, EventStop
    <2> QED BY ONLY <2>1, <2>3, <2>4, <2>5, <2>6
<1>5. s = B[p]
    BY <1>2, <1>4
<1>6. (s + 1) - B[p] \in 1 .. 1 + d[p].addrReq + d[p].length
    <2> DEFINE k == 1 + d[p].addrReq + d[p].length
    <2>1. k \in 1 .. Size(d[p]) /\ Size(d[p]) \in Nat
        BY SizeTyped
    <2> HIDE DEF k
    <2>2. (s + 1) - B[p] \in 1 .. k
        BY <1>2, <1>5, <2>1
    <2> QED BY <2>2 DEF k
<1>7. m = (s + 1) - p
    <2>1. CASE p = 1
        <3>1. s = 0
            BY <1>5, <2>1 DEF Script
        <3>2. ASSUME NEW q \in 1 .. n, s - B[q] \in 1 .. 1 + d[q].addrReq + d[q].length PROVE FALSE
            <4> DEFINE k == 1 + d[q].addrReq + d[q].length
            <4>1. B[q] \in Nat /\ s - B[q] \in 1 .. k
                BY <3>2, ScriptFits
            <4> HIDE DEF k
            <4> QED BY <3>1, <4>1
        <3>3. m = 0
            BY <3>2 DEF Counts
        <3> QED BY <2>1, <3>1, <3>3
    <2>2. CASE p # 1
        <3> DEFINE o == p - 1
        <3>1. o \in 1 .. n /\ o + 1 = p /\ o < n
            BY <2>2
        <3>2. s = B[o] + Size(d[o])
            BY <1>5, <3>1 DEF Script
        <3> HIDE DEF o
        <3>3. s # 0 /\ s - B[o] \in 1 .. Size(d[o])
            <4> DEFINE b == B[o]
                       z == Size(d[o])
                       k == 1 + d[o].addrReq + d[o].length
            <4>1. b \in Nat /\ z \in Nat /\ k \in 1 .. z /\ s = b + z
                BY <3>1, <3>2, SizeTyped
            <4> HIDE DEF b, z, k
            <4>2. s # 0 /\ s - b \in 1 .. z
                BY <4>1
            <4> QED BY <4>2 DEF b, z
        <3>4. PICK q \in 1 .. n : s - B[q] \in 1 .. 1 + d[q].addrReq + d[q].length /\ m = s - q
            BY <3>3 DEF Counts
        <3>5. s - B[q] \in 1 .. Size(d[q])
            BY <3>4, WithinSize
        <3>6. q = o
            BY <3>1, <3>3, <3>5, OneEntry
        <3> QED BY <3>1, <3>4, <3>6
    <2> QED BY <2>1, <2>2
<1> HIDE DEF j
<1> QED BY <1>6, <1>7, CountsAt

\* entries with the same numbers of bytes
LEMMA CountsSame ==
    ASSUME NEW n \in Nat, NEW d, NEW e, Static(n, d, e), NEW B, NEW s, NEW m,
           Counts(n, d, B, s, m)
    PROVE  Counts(n, e, B, s, m)
<1>1. \A q \in 1 .. n : e[q].addrReq = d[q].addrReq /\ e[q].length = d[q].length
    BY DEF Static
<1> QED BY <1>1 DEF Counts

-----------------------------------------------------------------------------
(* The walk of i2c_update_error_byte_cnt comes to the entry of the byte that *)
(* was refused.                                                              *)

Walker == [q : Nat, bc : Int, found : BOOLEAN]

LEMMA PassEntryRounds ==
    ASSUME NEW S, \A x \in S : PassEntry(x) \in S, Len(dq) \in Nat,
           NEW r \in S, r = [q |-> 1, bc |-> BytesMoved, found |-> FALSE]
    PROVE  \E f \in [0 .. Len(dq) -> S] :
               /\ f[0] = r
               /\ \A k \in 1 .. Len(dq) : f[k] = PassEntry(f[k - 1])
               /\ ByteReached = f[Len(dq)]
<1> DEFINE n == Len(dq)
           g == [x \in S |-> PassEntry(x)]
           a == CHOOSE h : h = [k \in 0 .. n |-> IF k = 0 THEN r ELSE PassEntry(h[k - 1])]
<1>1. n \in Nat /\ g \in [S -> S] /\ r \in S
    OBVIOUS
<1> HIDE DEF n
<1>2. ByteReached = a[n]
    BY DEF ByteReached, Rounds, n
<1>3. a = [k \in 0 .. n |-> IF k = 0 THEN r ELSE PassEntry(a[k - 1])]
    <2>1. PICK f : f \in StepsOf(g, r, n)
        <3> HIDE DEF g
        <3> QED BY <1>1, Iterated
    <2>2. /\ DOMAIN g = S /\ f \in [0 .. n -> S] /\ f[0] = r
          /\ \A k \in 1 .. n : f[k] = g[f[k - 1]]
        BY <2>1 DEF StepsOf
    <2>3. ASSUME NEW k \in 1 .. n PROVE k - 1 \in 0 .. n /\ f[k] = PassEntry(f[k - 1])
        <3>1. k - 1 \in 0 .. n
            BY <1>1
        <3>2. f[k - 1] \in S
            BY <2>2, <3>1
        <3> QED BY <2>2, <3>1, <3>2
    <2>4. f = [k \in 0 .. n |-> IF k = 0 THEN r ELSE PassEntry(f[k - 1])]
        BY <2>2, <2>3
    <2> QED BY <2>4
<1> HIDE DEF a
<1>4. a[0] = r /\ \A k \in 1 .. n : a[k - 1] \in S => a[k] = g[a[k - 1]]
    BY ONLY <1>1, <1>3
<1>5. (\A k \in 0 .. n : a[k] \in S) /\ \A k \in 1 .. n : a[k] = g[a[k - 1]]
    <2> HIDE DEF g
    <2> QED BY ONLY <1>1, <1>4, Looped
<1>6. ASSUME NEW k \in 1 .. n PROVE a[k] = PassEntry(a[k - 1])
    <2>1. k - 1 \in 0 .. n
        BY <1>1
    <2> QED BY <1>5, <2>1
<1>7. a \in [0 .. n -> S]
    BY <1>3, <1>5
<1> QED BY <1>2, <1>4, <1>6, <1>7 DEF n

\* byte i of entry Q was the last on the bus, and of what was moved up to it, bytes are left
\* when the walk comes to entry r.q
WalksTo(B, Q, i, r) ==
    /\ ~r.found /\ r.q \in 1 .. Q
    /\ r.bc = i + (B[Q] - B[r.q]) - (Q - r.q)

Settles(e, i, r) == (r.found \/ r.bc = 0) /\ (r.bc < 0 <=> i <= e.addrReq)

\* All bytes up to byte i of entry Q are put.
PutTo(n, d, Q, i) ==
    /\ Q \in 1 .. n /\ i \in 1 .. d[Q].addrReq + d[Q].length
    /\ \A p \in 1 .. n : p < Q => d[p].addrSent = d[p].addrReq
    /\ i <= d[Q].addrReq => i <= d[Q].addrSent
    /\ i > d[Q].addrReq => d[Q].addrSent = d[Q].addrReq

\* there are more bytes in what lies between than entries
LEMMA BasesGrow ==
    ASSUME NEW n \in Nat, NEW d \in [1 .. n -> Item], NEW B, NEW T, Script(n, d, B, T),
           NEW q \in 1 .. n
    PROVE  \A p \in 1 .. q : B[q] - B[p] >= q - p
<1> DEFINE Ok == {m \in Nat : m < q => B[q] - B[q - m] >= m}
<1>1. \A m \in Nat : m \in Ok
    <2>1. 0 \in Ok
        <3>1. B[q] \in Nat /\ q - 0 = q
            BY ScriptFits
        <3> QED BY <3>1
    <2>2. ASSUME NEW m \in Nat, m \in Ok PROVE m + 1 \in Ok
        <3> SUFFICES ASSUME m + 1 < q PROVE B[q] - B[q - (m + 1)] >= m + 1
            OBVIOUS
        <3> DEFINE p == q - (m + 1)
        <3>1. p \in 1 .. n /\ p + 1 = q - m /\ p + 1 \in 1 .. n
            OBVIOUS
        <3>2. B[q] - B[p + 1] >= m
            BY <2>2, <3>1
        <3> HIDE DEF p
        <3>3. B[p + 1] = B[p] + Size(d[p]) /\ B[p] \in Nat /\ B[q] \in Nat /\ B[p + 1] \in Nat
              /\ Size(d[p]) \in Nat
            <4>1. B[p + 1] = B[p] + Size(d[p])
                BY <3>1 DEF Script
            <4> QED BY <3>1, <4>1, ScriptFits
        <3>4. Size(d[p]) >= 1
            BY <3>1, SizeTyped
        <3>5. B[q] - B[p] >= m + 1
            BY ONLY <3>2, <3>3, <3>4, m \in Nat
        <3> QED BY <3>5 DEF p
    <2> HIDE DEF Ok
    <2> QED BY <2>1, <2>2, Induct
<1>2. ASSUME NEW p \in 1 .. q PROVE B[q] - B[p] >= q - p
    <2> DEFINE m == q - p
    <2>1. m \in Nat /\ m < q /\ q - m = p
        OBVIOUS
    <2> HIDE DEF m
    <2>2. B[q] - B[q - m] >= m
        BY <1>1, <2>1
    <2> QED BY <2>1, <2>2 DEF m
<1> QED BY <1>2

\* the walk goes on as long as bytes are left
LEMMA NeverBoth ==
    ASSUME NEW n \in Nat, NEW d \in [1 .. n -> Item], NEW B, NEW T, Script(n, d, B, T),
           NEW Q, NEW i, PutTo(n, d, Q, i), NEW r \in Walker, WalksTo(B, Q, i, r)
    PROVE  r.bc > 0 /\ ~Settles(d[Q], i, r)
<1> DEFINE bp == B[r.q]
           bq == B[Q]
<1>1. Q \in 1 .. n /\ r.q \in 1 .. Q /\ r.q \in 1 .. n /\ ~r.found /\ r.bc \in Int
      /\ r.q \in Nat /\ Q \in Nat
    BY DEF PutTo, WalksTo, Walker
<1>2. i \in Nat \ {0}
    <2>1. d[Q].addrReq \in Nat /\ d[Q].length \in Nat
        BY <1>1, ItemTyped
    <2> QED BY <2>1 DEF PutTo
<1>3. bp \in Nat /\ bq \in Nat
    BY <1>1, ScriptFits
<1>4. bq - bp >= Q - r.q
    BY <1>1, BasesGrow
<1>5. r.bc = i + (bq - bp) - (Q - r.q)
    BY DEF WalksTo
<1> HIDE DEF bp, bq
<1>6. r.bc > 0
    BY <1>1, <1>2, <1>3, <1>4, <1>5
<1> QED BY <1>1, <1>6 DEF Settles

\* one entry of the walk
LEMMA WalkOn ==
    ASSUME Len(dq) \in Nat, dq \in [1 .. Len(dq) -> Item],
           NEW B, NEW T, Script(Len(dq), dq, B, T), OnlyLastStops(Len(dq), dq),
           NEW Q, NEW i, PutTo(Len(dq), dq, Q, i), NEW r \in Walker, WalksTo(B, Q, i, r)
    PROVE  LET u == PassEntry(r)
           IN  /\ u \in Walker
               /\ \/ WalksTo(B, Q, i, u) /\ u.q = r.q + 1
                  \/ Settles(dq[Q], i, u)
<1> DEFINE n == Len(dq)
           e == dq[r.q]
           a == e.addrReq
           len == e.length
           x == e.addrSent
           left == r.bc - x
           u == PassEntry(r)
           bp == B[r.q]
           bq == B[Q]
<1>1. n \in Nat /\ Q \in 1 .. n /\ r.q \in 1 .. n /\ r.q <= Q /\ ~r.found /\ r.bc \in Int
      /\ r.q \in Nat /\ Q \in Nat
    BY DEF PutTo, WalksTo, Walker
<1>2. a \in Nat /\ len \in Nat /\ x \in Nat /\ i \in Nat \ {0} /\ bp \in Nat /\ bq \in Nat
    <2>1. e \in Item /\ dq[Q] \in Item
        BY <1>1
    <2>2. i \in Nat \ {0}
        <3>1. dq[Q].addrReq \in Nat /\ dq[Q].length \in Nat
            BY <2>1, ItemTyped
        <3> QED BY <3>1 DEF PutTo
    <2>3. bp \in Nat /\ bq \in Nat
        BY <1>1, ScriptFits
    <2> HIDE DEF e
    <2> QED BY <2>1, <2>2, <2>3, ItemTyped
<1>3. bq - bp >= Q - r.q
    <2>1. r.q \in 1 .. Q
        BY <1>1
    <2> QED BY <1>1, <2>1, BasesGrow
<1>4. r.bc = i + (bq - bp) - (Q - r.q) /\ r.bc > 0
    <2>1. r.bc = i + (bq - bp) - (Q - r.q)
        BY DEF WalksTo
    <2> HIDE DEF bq, bp
    <2> QED BY <1>1, <1>2, <1>3, <2>1
<1>5. u = IF left <= 0 THEN [r EXCEPT !.bc = -1, !.found = TRUE]
          ELSE IF len > left THEN [r EXCEPT !.bc = left, !.found = TRUE]
          ELSE [r EXCEPT !.q = @ + 1, !.bc = left - len]
    <2>1. ~(r.found \/ r.q > Len(dq) \/ r.bc <= 0)
        BY <1>1, <1>4
    <2> QED BY <2>1 DEF PassEntry
<1>6. left \in Int
    <2> HIDE DEF x
    <2> QED BY <1>1, <1>2
<1>7. left = r.bc - x
    OBVIOUS
<1> HIDE DEF u, left
<1>8. CASE r.q # Q
    <2>1. r.q < Q /\ r.q + 1 \in 1 .. n
        BY <1>1, <1>8
    <2>2. x = a
        BY <1>1, <2>1 DEF PutTo
    <2>3. B[r.q + 1] = bp + (1 + a + len)
        <3>1. ~e.stop
            <4>1. r.q \in 1 .. n /\ r.q # n
                BY <1>1, <2>1
            <4> QED BY <4>1 DEF OnlyLastStops
        <3>2. B[r.q + 1] = B[r.q] + Size(dq[r.q])
            BY <1>1 DEF Script
        <3>3. Size(dq[r.q]) = 1 + a + len
            BY <1>1, <3>1, SizeTyped
        <3> QED BY <3>2, <3>3
    <2>4. bq - B[r.q + 1] >= Q - (r.q + 1)
        <3>1. r.q + 1 \in 1 .. Q
            BY <1>1, <2>1
        <3> QED BY <1>1, <3>1, BasesGrow
    <2> DEFINE bn == B[r.q + 1]
    <2>5. left - len = i + (bq - bn) - (Q - (r.q + 1)) /\ left > 0 /\ ~(len > left)
        <3>1. bn = bp + (1 + a + len) /\ bq - bn >= Q - (r.q + 1)
            BY <2>3, <2>4
        <3> DEFINE c == r.bc
                   w == r.q
        <3>2. /\ c = i + (bq - bp) - (Q - w) /\ left = c - a /\ w \in Nat /\ Q \in Nat
              /\ a \in Nat /\ len \in Nat /\ i \in Nat \ {0} /\ bp \in Nat /\ bq \in Nat
              /\ bn = bp + (1 + a + len) /\ bq - bn >= Q - (w + 1)
            <4> HIDE DEF bn, bq, bp, a, len, x
            <4> QED BY <1>1, <1>2, <1>4, <1>7, <2>2, <3>1
        <3> HIDE DEF bn, bq, bp, a, len, x, c, w
        <3>3. left - len = i + (bq - bn) - (Q - (w + 1)) /\ left > 0 /\ ~(len > left)
            BY ONLY <3>2
        <3> QED BY <3>3 DEF w
    <2>6. u = [r EXCEPT !.q = @ + 1, !.bc = left - len]
        <3> HIDE DEF len, bn
        <3> QED BY <1>2, <1>5, <1>6, <2>5
    <2> HIDE DEF len, bn, bq
    <2>7. /\ u.q = r.q + 1 /\ u.bc = left - len /\ u.found = r.found /\ u \in Walker
        <3> DEFINE y == left - len
        <3>1. y \in Int /\ r.q + 1 \in Nat
            BY <1>1, <1>2, <1>6
        <3> HIDE DEF y
        <3>2. u = [r EXCEPT !.q = @ + 1, !.bc = y]
            BY <2>6 DEF y
        <3>3. /\ u.q = r.q + 1 /\ u.bc = y /\ u.found = r.found /\ u \in Walker
            BY <3>1, <3>2 DEF Walker
        <3> QED BY <3>3 DEF y
    <2>8. WalksTo(B, Q, i, u)
        <3>1. u.q \in 1 .. Q
            BY <1>1, <2>1, <2>7
        <3>2. u.bc = i + (B[Q] - B[u.q]) - (Q - u.q)
            BY <2>5, <2>7 DEF bn, bq
        <3> QED BY <1>1, <2>7, <3>1, <3>2 DEF WalksTo
    <2> QED BY <2>7, <2>8 DEF u
<1>9. CASE r.q = Q
    <2>1. r.bc = i
        <3>1. bq = bp
            BY <1>9
        <3> HIDE DEF bq, bp
        <3> QED BY <1>1, <1>2, <1>4, <1>9, <3>1
    <2>2. /\ i <= a => i <= x
          /\ i > a => x = a
          /\ i <= a + len /\ x <= a
        <3>1. e.addrSent <= e.addrReq
            BY <1>1, ItemTyped
        <3> QED BY <1>2, <1>9, <3>1 DEF PutTo
    <2> HIDE DEF a, len, x
    <2>3. CASE i <= a
        <3>1. left <= 0
            BY <1>2, <1>7, <2>1, <2>2, <2>3
        <3>2. u = [r EXCEPT !.bc = -1, !.found = TRUE]
            BY <1>5, <3>1
        <3>3. u.bc = -1 /\ u.found /\ u \in Walker
            <4>1. -1 \in Int
                OBVIOUS
            <4> QED BY <3>2, <4>1 DEF Walker
        <3> QED BY <1>9, <2>3, <3>3 DEF Settles, u, a
    <2>4. CASE i > a
        <3>1. left = i - a /\ left > 0 /\ left <= len
            BY <1>2, <1>7, <2>1, <2>2, <2>4
        <3>2. ~(left <= 0) /\ ~(i <= a)
            BY <1>2, <1>6, <2>4, <3>1
        <3>3. CASE len > left
            <4>1. u = [r EXCEPT !.bc = left, !.found = TRUE]
                BY <1>5, <3>2, <3>3
            <4>2. u.bc = left /\ u.found /\ u \in Walker
                BY <1>6, <4>1 DEF Walker
            <4>3. ~(u.bc < 0)
                BY <1>6, <3>1, <4>2
            <4> QED BY <1>9, <3>2, <4>2, <4>3 DEF Settles, u, a
        <3>4. CASE ~(len > left)
            <4>1. left - len = 0
                BY <1>2, <1>6, <3>1, <3>4
            <4>2. u = [r EXCEPT !.q = @ + 1, !.bc = 0]
                BY <1>5, <3>2, <3>4, <4>1
            <4>3. u.bc = 0 /\ u \in Walker
                <5>1. r.q + 1 \in Nat /\ 0 \in Int
                    BY <1>1
                <5> QED BY <4>2, <5>1 DEF Walker
            <4> QED BY <1>9, <3>2, <4>3 DEF Settles, u, a
        <3> QED BY <3>3, <3>4
    <2> QED BY <1>2, <2>3, <2>4
<1> QED BY <1>8, <1>9

\* where the walk has ended, it stays
LEMMA SettledStays ==
    ASSUME NEW e, NEW i, NEW r \in Walker, Settles(e, i, r)
    PROVE  PassEntry(r) = r
<1>1. r.found \/ r.bc <= 0
    BY DEF Settles
<1> QED BY <1>1 DEF PassEntry

LEMMA WalkEnds ==
    ASSUME Len(dq) \in Nat, dq \in [1 .. Len(dq) -> Item],
           NEW B, NEW T, Script(Len(dq), dq, B, T), OnlyLastStops(Len(dq), dq),
           NEW Q, NEW i, PutTo(Len(dq), dq, Q, i), BytesMoved = i + B[Q] - Q + 1
    PROVE  ByteReached.bc < 0 <=> i <= dq[Q].addrReq
<1> DEFINE n == Len(dq)
           r == [q |-> 1, bc |-> BytesMoved, found |-> FALSE]
           S == {x \in Walker : WalksTo(B, Q, i, x) \/ Settles(dq[Q], i, x)}
<1>1. n \in Nat /\ Q \in 1 .. n /\ Q \in Nat
    BY DEF PutTo
<1>2. B[1] = 0 /\ B[Q] \in Nat /\ i \in Nat
    <2>1. dq[Q].addrReq \in Nat /\ dq[Q].length \in Nat
        BY <1>1, ItemTyped
    <2>2. i \in Nat
        BY <2>1 DEF PutTo
    <2>3. B[1] = 0
        BY DEF Script
    <2>4. B[Q] \in Nat
        BY <1>1, ScriptFits
    <2> QED BY <2>2, <2>3, <2>4
<1>3. r \in Walker /\ WalksTo(B, Q, i, r)
    <2>1. BytesMoved \in Int /\ BytesMoved = i + (B[Q] - B[1]) - (Q - 1)
        BY <1>1, <1>2
    <2>2. 1 \in 1 .. Q
        BY <1>1
    <2> QED BY <2>1, <2>2 DEF Walker, WalksTo
<1>4. r \in S
    BY <1>3
<1>5. \A x \in S : PassEntry(x) \in S
    <2> TAKE x \in S
    <2>1. CASE WalksTo(B, Q, i, x)
        BY <2>1, WalkOn
    <2>2. CASE Settles(dq[Q], i, x)
        BY <2>2, SettledStays
    <2> QED BY <2>1, <2>2
<1> HIDE DEF S
<1>6. PICK f \in [0 .. n -> S] :
          /\ f[0] = r
          /\ \A k \in 1 .. n : f[k] = PassEntry(f[k - 1])
          /\ ByteReached = f[n]
    BY <1>1, <1>4, <1>5, PassEntryRounds
<1> DEFINE Ok == {k \in Nat : k <= n => (WalksTo(B, Q, i, f[k]) => f[k].q = k + 1)}
<1>7. \A k \in Nat : k \in Ok
    <2>1. 0 \in Ok
        BY <1>6
    <2>2. ASSUME NEW k \in Nat, k \in Ok PROVE k + 1 \in Ok
        <3> SUFFICES ASSUME k + 1 <= n, WalksTo(B, Q, i, f[k + 1]) PROVE f[k + 1].q = k + 2
            OBVIOUS
        <3>1. k \in 0 .. n /\ k + 1 \in 1 .. n /\ (k + 1) - 1 = k
            BY <1>1
        <3>2. f[k + 1] = PassEntry(f[k]) /\ f[k] \in S
            BY <1>6, <3>1
        <3>3. f[k] \in Walker
            BY <3>2 DEF S
        <3>4. CASE WalksTo(B, Q, i, f[k])
            <4>1. f[k].q = k + 1
                BY <2>2, <3>1, <3>4
            <4>2. \/ f[k + 1].q = f[k].q + 1
                  \/ Settles(dq[Q], i, f[k + 1]) /\ f[k + 1] \in Walker
                BY <3>2, <3>3, <3>4, WalkOn
            <4>3. ~(Settles(dq[Q], i, f[k + 1]) /\ f[k + 1] \in Walker)
                BY NeverBoth
            <4> QED BY <4>1, <4>2, <4>3
        <3>5. CASE Settles(dq[Q], i, f[k])
            <4>1. f[k + 1] = f[k]
                BY <3>2, <3>3, <3>5, SettledStays
            <4> QED BY <3>3, <3>5, <4>1, NeverBoth
        <3> QED BY <3>2, <3>4, <3>5 DEF S
    <2> HIDE DEF Ok
    <2> QED BY <2>1, <2>2, Induct
<1>8. ~WalksTo(B, Q, i, f[n])
    <2> SUFFICES ASSUME WalksTo(B, Q, i, f[n]) PROVE FALSE
        OBVIOUS
    <2>1. f[n].q = n + 1
        BY <1>1, <1>7
    <2> QED BY <1>1, <2>1 DEF WalksTo
<1>9. Settles(dq[Q], i, f[n])
    <2>1. f[n] \in S
        BY <1>1
    <2> QED BY <1>8, <2>1 DEF S
<1> QED BY <1>6, <1>9 DEF Settles

=============================================================================
