-------------------------- MODULE I2cTransferProofs --------------------------
(***************************************************************************)
(* Theorems about one transfer of the I2C driver (I2cTransfer): what its   *)
(* type is, which lists of commands a transfer can end with, and that a    *)
(* transfer that reports success has moved every byte once and in order.   *)
(* A transfer that no mishap disturbs ends well.                           *)
(* Of a byte that was refused, the caller is told rightly whether it was   *)
(* one of an address.                                                      *)
(* The lemmas about its operators are in I2cQueueProofs.                   *)
(***************************************************************************)
EXTENDS I2cQueueProofs

-----------------------------------------------------------------------------
(* The type invariant. *)

TypeInv ==
    /\ faults \subseteq Faults
    /\ dq \in Seq(Item)
    /\ queuePos \in 1 .. Len(dq) + 1
    /\ command \in CommandList
    /\ tx \in TxFifo
    /\ \E X : rx \in RxFifo(X)
    /\ ena \subseteq Interrupts /\ raw \subseteq Interrupts /\ active \subseteq Interrupts
    /\ misplaced \in BOOLEAN
    /\ mishaps \subseteq Mishaps

LEMMA TypeInit == Init => TypeInv
<1> SUFFICES ASSUME Init PROVE TypeInv
    OBVIOUS
<1> USE CommandsAssumption
<1>1. NoCommands \in CommandList
    BY DEF NoCommands, CommandList, Command, Cmd
<1>2. <<>> \in TxFifo /\ <<>> \in RxFifo({})
    BY DEF TxFifo, RxFifo
<1>3. faults \subseteq Faults
    BY TransferAssumption DEF Init
<1>4. dq \in Seq(Item) /\ queuePos \in 1 .. Len(dq) + 1
    BY DEF Init
<1>5. ena = {} /\ raw = {} /\ active = {} /\ misplaced = FALSE /\ mishaps = {}
      /\ command = NoCommands /\ tx = <<>> /\ rx = <<>>
    BY DEF Init
<1> QED BY <1>1, <1>2, <1>3, <1>4, <1>5 DEF TypeInv

LEMMA TypeImplies == TypeInv => TypeOK
<1> SUFFICES ASSUME TypeInv PROVE TypeOK
    OBVIOUS
<1>1. ASSUME NEW q \in DOMAIN dq
      PROVE  /\ dq[q].position \in 0 .. dq[q].length
             /\ dq[q].cmdBytesNeeded \in 0 .. dq[q].length
             /\ dq[q].addrSent \in 0 .. dq[q].addrReq
    <2>1. dq[q] \in Item
        BY DEF TypeInv
    <2>2. \A e \in Item : /\ e.position \in 0 .. e.length
                          /\ e.cmdBytesNeeded \in 0 .. e.length
                          /\ e.addrSent \in 0 .. e.addrReq
        BY DEF Item
    <2> QED BY <2>1, <2>2
<1>2. Len(tx) <= FifoLen /\ Len(rx) <= FifoLen
    BY DEF TypeInv, TxFifo, RxFifo
<1> QED BY <1>1, <1>2 DEF TypeInv, TypeOK

\* the queue as a function of its positions
LEMMA QueueTyped ==
    ASSUME TypeInv
    PROVE  /\ Len(dq) \in Nat /\ dq \in [1 .. Len(dq) -> Item]
           /\ DOMAIN dq = 1 .. Len(dq) /\ queuePos \in 1 .. Len(dq) + 1
BY DEF TypeInv

LEMMA EntryTyped ==
    ASSUME NEW mode \in {"READ", "WRITE"}, NEW length \in Nat, NEW stop \in BOOLEAN,
           NEW addrReq \in {1, 2}
    PROVE  Entry(mode, length, stop, addrReq) \in Item
BY DEF Entry, Item

LEMMA QueuedTyped ==
    ASSUME NEW mode \in {"READ", "WRITE"}, NEW length \in Nat, NEW stop \in BOOLEAN,
           NEW addrReq \in {1, 2}
    PROVE  Queued(mode, length, stop, addrReq) \in Seq(Item)
<1>1. Entry("WRITE", 0, FALSE, 2) \in Item /\ Entry("READ", length, stop, 1) \in Item
    BY EntryTyped
<1>2. Entry(mode, length, stop, addrReq) \in Item
    BY EntryTyped
<1>3. <<Entry("WRITE", 0, FALSE, 2), Entry("READ", length, stop, 1)>> \in Seq(Item)
    <2>1. \A a, b \in Item : <<a, b>> \in Seq(Item)
        OBVIOUS
    <2> QED BY <1>1, <2>1
<1>4. <<Entry(mode, length, stop, addrReq)>> \in Seq(Item)
    BY <1>2
<1> QED BY <1>3, <1>4 DEF Queued

LEMMA TypeCaller == ASSUME TypeInv, Caller PROVE TypeInv'
<1>1. CASE AddQueue
    <2>1. PICK mode \in {"READ", "WRITE"}, addrReq \in AddrReqs, stop \in BOOLEAN :
              \E length \in IF mode = "READ" THEN Reads ELSE Writes :
                  dq' = dq \o Queued(mode, length, stop, addrReq)
        BY <1>1 DEF AddQueue
    <2>2. PICK length \in Nat : dq' = dq \o Queued(mode, length, stop, addrReq)
        BY <2>1, TransferAssumption
    <2>3. Queued(mode, length, stop, addrReq) \in Seq(Item)
        BY TransferAssumption, QueuedTyped
    <2>4. dq' \in Seq(Item) /\ Len(dq) <= Len(dq)' /\ Len(dq) \in Nat /\ Len(dq)' \in Nat
        <3>1. \A d, e \in Seq(Item) : /\ d \o e \in Seq(Item) /\ Len(d) \in Nat
                                      /\ Len(d \o e) \in Nat /\ Len(d) <= Len(d \o e)
            OBVIOUS
        <3>2. dq \in Seq(Item)
            BY DEF TypeInv
        <3> QED BY <2>2, <2>3, <3>1, <3>2
    <2>5. /\ UNCHANGED <<faults, queuePos, command, tx, rx, ena, raw, active, misplaced>>
          /\ mishaps' = mishaps \cup {m \in {"late"} : StillServed}
        BY <1>1 DEF AddQueue, isrVars, hwVars
    <2>6. queuePos' \in 1 .. Len(dq)' + 1
        BY <2>4, <2>5 DEF TypeInv
    <2>7. mishaps' \subseteq Mishaps
        BY <2>5 DEF TypeInv, Mishaps
    <2> QED BY <2>4, <2>5, <2>6, <2>7 DEF TypeInv
<1>2. CASE BusBusy
    BY <1>2 DEF TypeInv, BusBusy, isrVars, hwVars, Mishaps
<1>3. CASE Prepare
    <2> DEFINE n     == Len(dq)
               fixed == [q \in DOMAIN dq |-> [dq[q] EXCEPT !.rw = @ + 1]]
               s     == fillCmdQueue(fixed, 1, command)
    <2>1. n \in Nat /\ dq \in [1 .. n -> Item] /\ DOMAIN dq = 1 .. n /\ 1 \in 1 .. n + 1
        BY QueueTyped
    <2>2. fixed \in [1 .. n -> Item]
        <3>1. \A e \in Item : [e EXCEPT !.rw = @ + 1] \in Item
            BY DEF Item
        <3> QED BY <2>1, <3>1
    <2>3. s.dq \in [1 .. n -> Item] /\ s.command \in CommandList
        <3> HIDE DEF fixed, n
        <3>1. command \in CommandList
            BY DEF TypeInv
        <3> QED BY <2>1, <2>2, <3>1, fillCmdQueueTyped
    <2>4. /\ dq' = s.dq /\ command' = s.command /\ queuePos' = 1
          /\ raw' = {} /\ ena' = ena \cup (s.ena \cap {"end_detect"})
          /\ tx' = <<>> /\ rx' = <<>> /\ misplaced' = FALSE
          /\ mishaps' \subseteq mishaps \cup {"resumed", "late", "stale"}
          /\ UNCHANGED <<faults, active>>
        BY <1>3 DEF Prepare
    <2> HIDE DEF s
    <2>5. dq' \in Seq(Item) /\ Len(dq)' = n /\ queuePos' \in 1 .. Len(dq)' + 1
        <3> HIDE DEF n
        <3> QED BY <2>1, <2>3, <2>4
    <2>6. tx' \in TxFifo /\ rx' \in RxFifo({})
        BY <2>4, CommandsAssumption DEF TxFifo, RxFifo
    <2>7. ena' \subseteq Interrupts /\ mishaps' \subseteq Mishaps
        BY <2>4 DEF TypeInv, Interrupts, Mishaps
    <2> QED BY <2>3, <2>4, <2>5, <2>6, <2>7 DEF TypeInv
<1>4. CASE Launch
    BY <1>4 DEF TypeInv, Launch, Latch, Interrupts, history
<1>5. CASE WaitEnds
    BY <1>5 DEF TypeInv, WaitEnds, Undisturbed, Disturb, Mishaps, Faults, isrVars, hwVars
<1>6. CASE Judge
    BY <1>6 DEF TypeInv, Judge, history
<1>7. CASE Reinit
    <2>1. <<>> \in TxFifo /\ <<>> \in RxFifo({})
        BY CommandsAssumption DEF TxFifo, RxFifo
    <2>2. NoCommands \in CommandList
        BY DEF NoCommands, CommandList, Command, Cmd
    <2> QED BY <1>7, <2>1, <2>2 DEF TypeInv, Reinit, isrVars, history
<1>8. CASE i2cFlush
    <2>1. <<>> \in TxFifo /\ <<>> \in RxFifo({})
        BY CommandsAssumption DEF TxFifo, RxFifo
    <2>2. NoCommands \in CommandList
        BY DEF NoCommands, CommandList, Command, Cmd
    <2>3. /\ dq' = <<>> /\ queuePos' = 1 /\ misplaced' = FALSE /\ mishaps' = {}
          /\ UNCHANGED <<faults, active, ena, raw>>
          /\ \/ UNCHANGED <<command, tx, rx>>
             \/ command' = NoCommands /\ tx' = <<>> /\ rx' = <<>>
        BY <1>8 DEF i2cFlush
    <2>4. dq' \in Seq(Item) /\ queuePos' \in 1 .. Len(dq)' + 1
        BY <2>3
    <2> QED BY <2>1, <2>2, <2>3, <2>4 DEF TypeInv
<1> QED BY <1>1, <1>2, <1>3, <1>4, <1>5, <1>6, <1>7, <1>8 DEF Caller

\* the handler stores what was received
LEMMA TypeStores ==
    ASSUME TypeInv, StoreReceived(emptyRxFifo(Received)) \/ StoreReceived(Received)
    PROVE  /\ dq' \in Seq(Item) /\ Len(dq)' = Len(dq) /\ queuePos' \in 1 .. Len(dq)' + 1
           /\ \E X : rx' \in RxFifo(X)
           /\ misplaced' \in BOOLEAN
<1>1. PICK X : rx \in RxFifo(X)
    BY DEF TypeInv
<1> DEFINE n == Len(dq)
<1>2. n \in Nat /\ Received \in Storing(n, X)
    BY <1>1, QueueTyped DEF TypeInv, Received, Storing
<1>3. emptyRxFifo(Received) \in Storing(n, X)
    <2> HIDE DEF n
    <2> QED BY <1>2, emptyRxFifoTyped
<1>4. PICK r \in Storing(n, X) : StoreReceived(r)
    <2> HIDE DEF n
    <2> QED BY <1>2, <1>3
<1>5. /\ dq' \in [1 .. n -> Item] /\ queuePos' \in 1 .. n + 1 /\ rx' \in RxFifo(X)
      /\ misplaced' \in BOOLEAN
    BY <1>4 DEF Storing, StoreReceived
<1>6. dq' \in Seq(Item) /\ Len(dq)' = n
    <2> HIDE DEF n
    <2> QED BY <1>2, <1>5
<1> QED BY <1>5, <1>6

LEMMA TypeExits == ASSUME TypeInv, NEW err, i2cIsrExit(err) PROVE TypeInv'
<1>1. StoreReceived(emptyRxFifo(Received)) \/ StoreReceived(Received)
    BY DEF i2cIsrExit
<1>2. /\ ena' = {} /\ raw' = {} /\ active' = {} /\ faults' \subseteq faults
      /\ UNCHANGED <<command, tx, mishaps>>
    BY DEF i2cIsrExit
<1> QED BY <1>1, <1>2, TypeStores DEF TypeInv

LEMMA TypeHandler == ASSUME TypeInv, Handler PROVE TypeInv'
<1>1. CASE IsrEnter
    BY <1>1 DEF TypeInv, IsrEnter, Status, history
<1>2. CASE IsrTransStart
    BY <1>2 DEF TypeInv, IsrTransStart, Interrupts, history
<1>3. CASE IsrTxEmpty
    <2> DEFINE n == Len(dq)
               s == fillTxFifo(dq, queuePos, tx)
    <2>1. n \in Nat /\ dq \in [1 .. n -> Item] /\ queuePos \in 1 .. n + 1 /\ tx \in TxFifo
        BY QueueTyped DEF TypeInv
    <2>2. s \in Sending(n)
        <3> HIDE DEF n
        <3> QED BY <2>1, fillTxFifoTyped
    <2>3. /\ dq' = s.dq /\ queuePos' = s.queuePos /\ tx' = s.tx
          /\ mishaps' \subseteq mishaps \cup {"skipped"}
          /\ ena' \subseteq ena /\ active' \subseteq active
          /\ UNCHANGED <<faults, command, rx, raw, misplaced>>
        BY <1>3 DEF IsrTxEmpty
    <2> HIDE DEF s
    <2>4. dq' \in [1 .. n -> Item] /\ queuePos' \in 1 .. n + 1 /\ tx' \in TxFifo
        <3> HIDE DEF n
        <3> QED BY <2>2, <2>3 DEF Sending
    <2>5. dq' \in Seq(Item) /\ Len(dq)' = n
        <3> HIDE DEF n
        <3> QED BY <2>1, <2>4
    <2> QED BY <2>3, <2>4, <2>5 DEF TypeInv, Mishaps
<1>4. CASE IsrRxFull
    <2>1. StoreReceived(emptyRxFifo(Received))
        BY <1>4 DEF IsrRxFull
    <2>2. /\ active' \subseteq active /\ raw' \subseteq raw /\ ena' = ena \cup {"rx_full"}
          /\ UNCHANGED <<faults, command, tx, mishaps>>
        BY <1>4 DEF IsrRxFull
    <2> QED BY <2>1, <2>2, TypeStores DEF TypeInv, Interrupts
<1>5. CASE IsrAckErr
    BY <1>5, TypeExits DEF IsrAckErr
<1>6. CASE IsrTransComplete
    BY <1>6, TypeExits DEF IsrTransComplete
<1>7. CASE IsrArbitration
    BY <1>7, TypeExits DEF IsrArbitration
<1>8. CASE IsrEndDetect
    <2> DEFINE n == Len(dq)
               s == fillCmdQueue(dq, queuePos, command)
    <2>1. n \in Nat /\ dq \in [1 .. n -> Item] /\ queuePos \in 1 .. n + 1
          /\ command \in CommandList
        BY QueueTyped DEF TypeInv
    <2>2. s.dq \in [1 .. n -> Item] /\ s.command \in CommandList /\ s.ena \subseteq Interrupts
        <3> HIDE DEF n
        <3> QED BY <2>1, fillCmdQueueTyped
    <2>3. /\ dq' = s.dq /\ command' = s.command
          /\ ena' = (ena \ {"end_detect"}) \cup s.ena
          /\ raw' = (raw \ {"end_detect"}) \cup {"trans_start"}
          /\ active' = active \ {"end_detect"}
          /\ UNCHANGED <<queuePos, tx, rx, faults, misplaced, mishaps>>
        BY <1>8 DEF IsrEndDetect, history
    <2> HIDE DEF s
    <2>4. dq' \in Seq(Item) /\ Len(dq)' = n
        <3> HIDE DEF n
        <3> QED BY <2>1, <2>2, <2>3
    <2> QED BY <2>2, <2>3, <2>4 DEF TypeInv, Interrupts
<1> QED BY <1>1, <1>2, <1>3, <1>4, <1>5, <1>6, <1>7, <1>8 DEF Handler

LEMMA TypeController == ASSUME TypeInv, Controller PROVE TypeInv'
<1>1. CASE Execute
    <2>1. UNCHANGED <<dq, queuePos, command, ena, active, misplaced>>
        BY <1>1 DEF Execute, Driver, isrVars
    <2>2. /\ faults' \subseteq faults /\ mishaps' \subseteq mishaps \cup {"disturbed"}
          /\ raw' \subseteq Interrupts
        BY <1>1 DEF TypeInv, Execute, HwStart, HwWrite, HwRead, HwDummy, HwStop, HwEnd,
                    Undisturbed, Disturb, Latch, Interrupts
    <2>3. tx' \in TxFifo
        <3>1. tx' = tx \/ (tx # <<>> /\ tx' = Tail(tx))
            BY <1>1 DEF Execute, HwStart, HwWrite, HwRead, HwDummy, HwStop, HwEnd
        <3> QED BY <3>1, CommandsAssumption DEF TypeInv, TxFifo
    <2>4. \E X : rx' \in RxFifo(X)
        <3>1. PICK X : rx \in RxFifo(X)
            BY DEF TypeInv
        <3>2. rx' = rx \/ (Len(rx) < FifoLen /\ \E b : rx' = Append(rx, b))
            BY <1>1 DEF Execute, HwStart, HwWrite, HwRead, HwDummy, HwStop, HwEnd
        <3>3. ASSUME NEW b, Len(rx) < FifoLen, rx' = Append(rx, b)
              PROVE  rx' \in RxFifo(X \cup {b})
            <4>1. rx \in Seq(X \cup {b})
                BY <3>1 DEF RxFifo
            <4> QED BY <3>3, <4>1, CommandsAssumption DEF RxFifo
        <3> QED BY <3>1, <3>2, <3>3
    <2> QED BY <2>1, <2>2, <2>3, <2>4 DEF TypeInv, Mishaps
<1>2. CASE HwFault
    <2>1. UNCHANGED <<dq, queuePos, command, ena, active, misplaced, tx, rx>>
        BY <1>2 DEF HwFault, Driver, isrVars
    <2>2. /\ faults' \subseteq faults /\ mishaps' = mishaps \cup {"disturbed"}
          /\ raw' \subseteq Interrupts
        BY <1>2 DEF TypeInv, HwFault, Disturb, Latch, Interrupts
    <2> QED BY <2>1, <2>2 DEF TypeInv, Mishaps
<1> QED BY <1>1, <1>2 DEF Controller

LEMMA TypeStep == TypeInv /\ [Next]_vars => TypeInv'
<1> SUFFICES ASSUME TypeInv, [Next]_vars PROVE TypeInv'
    OBVIOUS
<1>1. CASE TimerTask
    BY <1>1 DEF TypeInv, TimerTask, hwVars, history
<1>2. CASE UNCHANGED vars
    BY <1>2 DEF TypeInv, vars, taskVars, isrVars, hwVars, history
<1> QED BY <1>1, <1>2, TypeCaller, TypeHandler, TypeController DEF Next

LEMMA TypeAlways == Spec => []TypeInv
BY TypeInit, TypeStep, PTL DEF Spec

\* No interleaving of the task, the handler and the controller moves a position past the
\* end of its buffer, or puts a byte more into a FIFO than it has room for: fillTxFifo
\* keeps a place for the second byte of an address, and i2cAddQueue, the only one who
\* lengthens the queue, never moves what the handler is at.
THEOREM PositionsInBuffers == Spec => []TypeOK
BY TypeAlways, TypeImplies, PTL

-----------------------------------------------------------------------------
(* The invariant behind ListWellFormed.  The queue that is processed ends   *)
(* with a STOP; unless a first attempt has left its flags in it, its        *)
(* entries get their commands in order, from queuePos on, and each START    *)
(* together with its address.                                               *)

ListInv ==
    /\ pc # "idle" => dq # <<>> /\ dq[Len(dq)].stop
    /\ pc \in {"start", "wait"} /\ "resumed" \notin mishaps =>
          /\ StartsAddressed(dq) /\ InOrder(Len(dq), dq, queuePos)
          /\ WellFormed(command)

LEMMA ListInit == Init => ListInv
BY DEF Init, ListInv

LEMMA ListImplies == ListInv => ListWellFormed
BY DEF ListInv, ListWellFormed, WellFormed, Deceptive

\* the bytes of the queue move on
LEMMA ListMoves ==
    ASSUME TypeInv, ListInv, NEW d \in [1 .. Len(dq) -> Item], NEW p \in 1 .. Len(dq) + 1,
           SameFlags(Len(dq), dq, d), queuePos <= p,
           dq' = d, queuePos' = p, UNCHANGED <<command, pc>>, mishaps \subseteq mishaps'
    PROVE  ListInv'
<1> DEFINE n == Len(dq)
<1>1. /\ n \in Nat /\ dq \in [1 .. n -> Item] /\ queuePos \in 1 .. n + 1
      /\ Len(d) = n /\ (dq # <<>> => n \in 1 .. n /\ d # <<>>)
      /\ DOMAIN d = 1 .. n /\ DOMAIN dq = 1 .. n
    BY QueueTyped
<1> HIDE DEF n
<1>2. \A q \in 1 .. n : /\ d[q].stop = dq[q].stop
                        /\ d[q].startCmdSent = dq[q].startCmdSent
                        /\ d[q].addrCmdSent = dq[q].addrCmdSent
                        /\ d[q].stopCmdSent = dq[q].stopCmdSent
    BY DEF SameFlags, Moves, n
<1>3. pc # "idle" => d # <<>> /\ d[n].stop
    BY <1>1, <1>2 DEF ListInv, n
<1>4. StartsAddressed(dq) => StartsAddressed(d)
    BY <1>1, <1>2 DEF StartsAddressed
<1>5. InOrder(n, dq, queuePos) => InOrder(n, d, p)
    BY <1>1, <1>2 DEF InOrder
<1>6. pc \in {"start", "wait"} /\ "resumed" \notin mishaps' =>
          StartsAddressed(d) /\ InOrder(n, d, p) /\ WellFormed(command)
    BY <1>4, <1>5 DEF ListInv, n
<1>7. dq' = d /\ Len(dq)' = n /\ queuePos' = p /\ pc' = pc /\ command' = command
    BY <1>1
<1>8. WellFormed(command)' <=> WellFormed(command)
    BY <1>7 DEF WellFormed
<1>9. InOrder(Len(dq), dq, queuePos)' <=> InOrder(n, d, p)
    BY <1>7 DEF InOrder
<1>10. StartsAddressed(dq)' <=> StartsAddressed(d)
    BY <1>7 DEF StartsAddressed
<1> QED BY <1>3, <1>6, <1>7, <1>8, <1>9, <1>10 DEF ListInv

\* queue, list and task are left alone
LEMMA ListStays ==
    ASSUME TypeInv, ListInv, UNCHANGED <<dq, queuePos, command>>, mishaps \subseteq mishaps',
           pc' = "idle" \/ pc # "idle", pc' \in {"start", "wait"} => pc \in {"start", "wait"}
    PROVE  ListInv'
<1>1. dq' = dq /\ queuePos' = queuePos /\ command' = command
    OBVIOUS
<1>2. /\ WellFormed(command)' <=> WellFormed(command)
      /\ InOrder(Len(dq), dq, queuePos)' <=> InOrder(Len(dq), dq, queuePos)
      /\ StartsAddressed(dq)' <=> StartsAddressed(dq)
    BY <1>1 DEF WellFormed, InOrder, StartsAddressed
<1> QED BY <1>1, <1>2 DEF ListInv

LEMMA QueuedStops ==
    ASSUME NEW mode \in {"READ", "WRITE"}, NEW length \in Nat, NEW stop \in BOOLEAN,
           NEW addrReq \in {1, 2}
    PROVE  LET new == Queued(mode, length, stop, addrReq)
           IN  new # <<>> /\ new[Len(new)].stop = stop
<1>1. Entry("READ", length, stop, 1).stop = stop /\ Entry(mode, length, stop, addrReq).stop = stop
    BY DEF Entry
<1>2. \A a, b : Len(<<a, b>>) = 2 /\ <<a, b>>[2] = b /\ <<a, b>> # <<>>
    OBVIOUS
<1>3. \A a : Len(<<a>>) = 1 /\ <<a>>[1] = a /\ <<a>> # <<>>
    OBVIOUS
<1> QED BY <1>1, <1>2, <1>3 DEF Queued

\* what Prepare and IsrEndDetect do to the list: all that ListInv says of it
LEMMA ListFilled ==
    ASSUME NEW n \in Nat, NEW d \in [1 .. n -> Item], NEW p \in 1 .. n + 1,
           NEW c \in CommandList, NEW u, u = fillCmdQueue(d, p, c),
           dq' = u.dq, command' = u.command, queuePos' = p,
           pc' # "idle" => n # 0 /\ d[n].stop,
           pc' \in {"start", "wait"} /\ "resumed" \notin mishaps' =>
               /\ StartsAddressed(d) /\ InOrder(n, d, p)
               /\ WellFormed(c) \/ \E q \in p .. n : ~d[q].stopCmdSent
    PROVE  ListInv'
<1>1. u.dq \in [1 .. n -> Item] /\ Continues(n, d, u.dq)
    BY fillCmdQueueTyped, fillCmdQueueContinues
<1>2. dq' = u.dq /\ Len(dq)' = n
    BY <1>1
<1>3. ASSUME pc' # "idle" PROVE dq' # <<>> /\ dq'[n].stop
    <2>1. n # 0 /\ d[n].stop
        BY <1>3
    <2>2. u.dq[n].stop /\ u.dq # <<>>
        BY <1>1, <2>1 DEF Continues, Alike
    <2> QED BY <1>2, <2>2
<1>4. ASSUME pc' \in {"start", "wait"}, "resumed" \notin mishaps'
      PROVE  StartsAddressed(u.dq) /\ InOrder(n, u.dq, p) /\ WellFormed(u.command)
    <2>1. /\ n # 0 /\ d[n].stop
          /\ StartsAddressed(d) /\ InOrder(n, d, p)
          /\ WellFormed(c) \/ \E q \in p .. n : ~d[q].stopCmdSent
        BY <1>4
    <2>2. n \in Nat \ {0}
        BY <2>1
    <2>3. /\ StartsAddressed(u.dq) /\ InOrder(n, u.dq, p)
          /\ \/ WellFormed(u.command)
             \/ u.command = c /\ \A q \in p .. n : d[q].stopCmdSent
        BY <2>1, <2>2, fillCmdQueueWellFormed
    <2> QED BY <2>1, <2>3
<1>5. WellFormed(command)' <=> WellFormed(u.command)
    BY DEF WellFormed
<1>6. InOrder(Len(dq), dq, queuePos)' <=> InOrder(n, u.dq, p)
    BY <1>2 DEF InOrder
<1>7. StartsAddressed(dq)' <=> StartsAddressed(u.dq)
    BY <1>2 DEF StartsAddressed
<1> QED BY <1>2, <1>3, <1>4, <1>5, <1>6, <1>7 DEF ListInv

LEMMA ListCaller == ASSUME TypeInv, ListInv, Caller PROVE ListInv'
<1>1. CASE AddQueue
    <2>1. PICK mode \in {"READ", "WRITE"}, addrReq \in AddrReqs, stop \in BOOLEAN :
              \E length \in IF mode = "READ" THEN Reads ELSE Writes :
                  /\ dq' = dq \o Queued(mode, length, stop, addrReq)
                  /\ pc' = IF stop THEN "proc" ELSE "idle"
        BY <1>1 DEF AddQueue
    <2>2. PICK length \in Nat : dq' = dq \o Queued(mode, length, stop, addrReq)
        BY <2>1, TransferAssumption
    <2> DEFINE new == Queued(mode, length, stop, addrReq)
    <2>3. new \in Seq(Item) /\ new # <<>> /\ new[Len(new)].stop = stop
        <3>1. addrReq \in {1, 2}
            BY TransferAssumption
        <3>2. new \in Seq(Item)
            BY <3>1, QueuedTyped
        <3>3. new # <<>> /\ new[Len(new)].stop = stop
            BY <3>1, QueuedStops
        <3> QED BY <3>2, <3>3
    <2>4. pc' \notin {"start", "wait"} /\ (pc' # "idle" => stop = TRUE)
        BY <2>1
    <2> HIDE DEF new
    <2>5. \A d, e \in Seq(Item) : e # <<>> => /\ d \o e # <<>>
                                             /\ (d \o e)[Len(d \o e)] = e[Len(e)]
        OBVIOUS
    <2>6. dq' = dq \o new /\ dq \in Seq(Item)
        BY <2>2 DEF TypeInv, new
    <2>7. dq' # <<>> /\ dq'[Len(dq')].stop = stop
        BY <2>3, <2>5, <2>6
    <2> QED BY <2>4, <2>7 DEF ListInv
<1>2. CASE BusBusy
    BY <1>2, ListStays DEF BusBusy, isrVars, hwVars
<1>3. CASE Prepare
    <2> DEFINE n     == Len(dq)
               fixed == [q \in DOMAIN dq |-> [dq[q] EXCEPT !.rw = @ + 1]]
               s     == fillCmdQueue(fixed, 1, command)
    <2>1. /\ n \in Nat /\ dq \in [1 .. n -> Item] /\ DOMAIN dq = 1 .. n /\ 1 \in 1 .. n + 1
          /\ command \in CommandList
        BY QueueTyped DEF TypeInv
    <2>2. n # 0 /\ dq[n].stop
        BY <1>3, <2>1 DEF Prepare, ListInv
    <2>3. \A e \in Item : LET f == [e EXCEPT !.rw = @ + 1]
                          IN  /\ f \in Item /\ f.stop = e.stop
                              /\ f.startCmdSent = e.startCmdSent
                              /\ f.addrCmdSent = e.addrCmdSent
                              /\ f.stopCmdSent = e.stopCmdSent
        BY DEF Item
    <2>4. fixed \in [1 .. n -> Item] /\ fixed[n].stop
        BY <2>1, <2>2, <2>3
    <2>5. /\ dq' = s.dq /\ command' = s.command /\ queuePos' = 1 /\ pc' = "start"
          /\ "resumed" \notin mishaps' => \A q \in DOMAIN dq : ~dq[q].startCmdSent
        BY <1>3 DEF Prepare
    <2>6. ASSUME "resumed" \notin mishaps', NEW q \in 1 .. n
          PROVE  ~fixed[q].startCmdSent /\ ~fixed[q].stopCmdSent
        <3>1. dq[q] \in Item /\ ~dq[q].startCmdSent
            BY <2>1, <2>5, <2>6
        <3>2. ~dq[q].stopCmdSent
            BY <3>1 DEF Item
        <3> QED BY <2>1, <2>3, <3>1, <3>2
    <2> HIDE DEF fixed, n
    <2>7. ASSUME "resumed" \notin mishaps'
          PROVE  /\ StartsAddressed(fixed) /\ InOrder(n, fixed, 1)
                 /\ \E q \in 1 .. n : ~fixed[q].stopCmdSent
        <3>1. StartsAddressed(fixed) /\ InOrder(n, fixed, 1)
            BY <2>4, <2>6, <2>7 DEF StartsAddressed, InOrder
        <3>2. n \in 1 .. n
            BY <2>1, <2>2
        <3> QED BY <2>6, <2>7, <3>1, <3>2
    <2> HIDE DEF s
    <2>8. s = fillCmdQueue(fixed, 1, command)
        BY DEF s
    <2> QED BY <2>1, <2>2, <2>4, <2>5, <2>7, <2>8, ListFilled
<1>4. CASE Launch
    BY <1>4, ListStays DEF Launch, history
<1>5. CASE WaitEnds
    BY <1>5, ListStays DEF WaitEnds, Undisturbed, Disturb, isrVars, hwVars
<1>6. CASE Judge
    BY <1>6, ListStays DEF Judge, history
<1>7. CASE Reinit
    BY <1>7 DEF Reinit, ListInv
<1>8. CASE i2cFlush
    BY <1>8 DEF i2cFlush, ListInv
<1> QED BY <1>1, <1>2, <1>3, <1>4, <1>5, <1>6, <1>7, <1>8 DEF Caller

\* the handler stores what was received
LEMMA ListStores ==
    ASSUME TypeInv, ListInv, StoreReceived(emptyRxFifo(Received)) \/ StoreReceived(Received),
           UNCHANGED <<command, pc, mishaps>>
    PROVE  ListInv'
<1>1. PICK X : rx \in RxFifo(X)
    BY DEF TypeInv
<1> DEFINE n == Len(dq)
<1>2. /\ n \in Nat /\ Received \in Storing(n, X) /\ Received.dq = dq
      /\ Received.queuePos = queuePos /\ dq \in [1 .. n -> Item] /\ queuePos \in 1 .. n + 1
    BY <1>1, QueueTyped DEF TypeInv, Received, Storing
<1> HIDE DEF n
<1>3. PICK r \in Storing(n, X) : /\ StoreReceived(r)
                                 /\ SameFlags(n, dq, r.dq) /\ queuePos <= r.queuePos
    <2>1. /\ emptyRxFifo(Received) \in Storing(n, X)
          /\ SameFlags(n, dq, emptyRxFifo(Received).dq)
          /\ queuePos <= emptyRxFifo(Received).queuePos
        BY <1>2, emptyRxFifoTyped, emptyRxFifoFlags
    <2>2. SameFlags(n, dq, Received.dq) /\ queuePos <= Received.queuePos
        BY <1>2, MovesItself
    <2> QED BY <1>2, <2>1, <2>2
<1>4. /\ dq' = r.dq /\ queuePos' = r.queuePos
      /\ r.dq \in [1 .. n -> Item] /\ r.queuePos \in 1 .. n + 1
    BY <1>3 DEF StoreReceived, Storing
<1> QED BY <1>3, <1>4, ListMoves DEF n

LEMMA ListHandler == ASSUME TypeInv, ListInv, Handler PROVE ListInv'
<1>1. CASE IsrEnter
    BY <1>1, ListStays DEF IsrEnter, Task, taskVars, history
<1>2. CASE IsrTransStart
    BY <1>2, ListStays DEF IsrTransStart, Task, taskVars, history
<1>3. CASE IsrTxEmpty
    <2> DEFINE n == Len(dq)
               s == fillTxFifo(dq, queuePos, tx)
    <2>1. n \in Nat /\ dq \in [1 .. n -> Item] /\ queuePos \in 1 .. n + 1 /\ tx \in TxFifo
        BY QueueTyped DEF TypeInv
    <2> HIDE DEF n
    <2>2. s \in Sending(n) /\ SameFlags(n, dq, s.dq) /\ queuePos <= s.queuePos
        BY <2>1, fillTxFifoTyped, fillTxFifoFlags
    <2>3. /\ dq' = s.dq /\ queuePos' = s.queuePos /\ mishaps \subseteq mishaps'
          /\ UNCHANGED <<command, pc>>
        BY <1>3 DEF IsrTxEmpty, Task, taskVars
    <2> HIDE DEF s
    <2>4. s.dq \in [1 .. n -> Item] /\ s.queuePos \in 1 .. n + 1
        BY <2>2 DEF Sending
    <2> QED BY <2>2, <2>3, <2>4, ListMoves DEF n
<1>4. CASE IsrRxFull
    BY <1>4, ListStores DEF IsrRxFull, Task, taskVars
<1>5. ASSUME NEW err, i2cIsrExit(err) PROVE ListInv'
    BY <1>5, ListStores DEF i2cIsrExit, Task, taskVars
<1>6. CASE IsrAckErr \/ IsrTransComplete \/ IsrArbitration
    BY <1>5, <1>6 DEF IsrAckErr, IsrTransComplete, IsrArbitration
<1>7. CASE IsrEndDetect
    <2> DEFINE n == Len(dq)
               s == fillCmdQueue(dq, queuePos, command)
    <2>1. /\ n \in Nat /\ dq \in [1 .. n -> Item] /\ queuePos \in 1 .. n + 1
          /\ command \in CommandList /\ (dq # <<>> => n # 0)
        BY QueueTyped DEF TypeInv
    <2>2. /\ dq' = s.dq /\ command' = s.command
          /\ UNCHANGED <<queuePos, pc, mishaps>>
        BY <1>7 DEF IsrEndDetect, Task, taskVars, history
    <2>3. /\ pc' # "idle" => n # 0 /\ dq[n].stop
          /\ pc' \in {"start", "wait"} /\ "resumed" \notin mishaps' =>
                StartsAddressed(dq) /\ InOrder(n, dq, queuePos) /\ WellFormed(command)
        BY <2>1, <2>2 DEF ListInv
    <2> HIDE DEF s, n
    <2>4. s = fillCmdQueue(dq, queuePos, command)
        BY DEF s
    <2> QED BY <2>1, <2>2, <2>3, <2>4, ListFilled
<1> QED BY <1>1, <1>2, <1>3, <1>4, <1>6, <1>7 DEF Handler

LEMMA ListStep == TypeInv /\ ListInv /\ [Next]_vars => ListInv'
<1> SUFFICES ASSUME TypeInv, ListInv, [Next]_vars PROVE ListInv'
    OBVIOUS
<1>1. CASE TimerTask
    BY <1>1, ListStays DEF TimerTask, Task, taskVars, hwVars, history
<1>2. CASE Controller
    <2>1. UNCHANGED <<dq, queuePos, command, pc>>
        BY <1>2 DEF Controller, Execute, HwFault, Driver, taskVars
    <2>2. mishaps \subseteq mishaps'
        BY <1>2 DEF Controller, Execute, HwStart, HwWrite, HwRead, HwDummy, HwStop, HwEnd,
                    HwFault, Undisturbed, Disturb
    <2> QED BY <2>1, <2>2, ListStays
<1>3. CASE UNCHANGED vars
    BY <1>3, ListStays DEF vars, taskVars, isrVars, hwVars, history
<1> QED BY <1>1, <1>2, <1>3, ListCaller, ListHandler DEF Next

LEMMA ListAlways == Spec => [](TypeInv /\ ListInv)
<1>1. Init => TypeInv /\ ListInv
    BY TypeInit, ListInit
<1>2. (TypeInv /\ ListInv) /\ [Next]_vars => (TypeInv /\ ListInv)'
    BY TypeStep, ListStep
<1> QED BY <1>1, <1>2, PTL DEF Spec

\* The list that the controller executes never has a START in front of END, and never runs
\* past its end: fillCmdQueue leaves it so each time, also when it comes to the last slots
\* in the middle of an entry and the handler has to refill the list.
THEOREM ListsStop == Spec => []ListWellFormed
BY ListAlways, ListImplies, PTL

\* Of all mishaps only one can break the list, the second attempt of i2cWrite and i2cRead
\* on a queue that the first has left: neither entries that were skipped nor the handler of
\* an earlier transfer, still at work on this one's queue, can.
THEOREM OnlyResumingBreaksLists ==
    Spec => [](pc = "wait" /\ "resumed" \notin mishaps => WellFormed(command))
<1>1. ListInv => (pc = "wait" /\ "resumed" \notin mishaps => WellFormed(command))
    BY DEF ListInv
<1> QED BY <1>1, ListAlways, PTL

EachListed == \A q \in DOMAIN dq : dq[q].stopCmdSent

\* fillTxFifo moves queuePos past an entry whose commands are not all listed only while the
\* list has still to be refilled: in a transfer of which all commands are listed, as they
\* are from the start on in a queue that the list has room for, no step skips an entry.
THEOREM SkipsNeedRefills ==
    Spec => [][EachListed /\ "skipped" \notin mishaps => "skipped" \notin mishaps']_vars
<1>1. TypeInv /\ [Next]_vars
        => [EachListed /\ "skipped" \notin mishaps => "skipped" \notin mishaps']_vars
    <2> SUFFICES ASSUME TypeInv, Next, EachListed, "skipped" \notin mishaps
                 PROVE  "skipped" \notin mishaps'
        OBVIOUS
    <2>1. CASE IsrTxEmpty
        <3> DEFINE n == Len(dq)
                   s == fillTxFifo(dq, queuePos, tx)
        <3>1. /\ n \in Nat /\ dq \in [1 .. n -> Item] /\ queuePos \in 1 .. n + 1
              /\ tx \in TxFifo /\ DOMAIN dq = 1 .. n
            BY QueueTyped DEF TypeInv
        <3>2. "skipped" \in mishaps' =>
                    \/ "skipped" \in mishaps
                    \/ \E q \in 1 .. s.queuePos - 1 : ~s.dq[q].stopCmdSent
            BY <2>1 DEF IsrTxEmpty
        <3> HIDE DEF n
        <3>3. s.queuePos \in 1 .. n + 1 /\ SameFlags(n, dq, s.dq)
            BY <3>1, fillTxFifoTyped, fillTxFifoFlags DEF Sending
        <3> HIDE DEF s
        <3>4. \A q \in 1 .. s.queuePos - 1 : s.dq[q].stopCmdSent
            <4>1. ASSUME NEW q \in 1 .. s.queuePos - 1 PROVE q \in 1 .. n
                BY <3>1, <3>3
            <4> QED BY <3>1, <3>3, <4>1 DEF EachListed, SameFlags, Moves
        <3> QED BY <3>2, <3>4
    <2>2. ASSUME NEW err, i2cIsrExit(err) PROVE mishaps' = mishaps
        BY <2>2 DEF i2cIsrExit
    <2>3. CASE IsrEnter \/ IsrTransStart \/ IsrRxFull \/ IsrEndDetect
        BY <2>3 DEF IsrEnter, IsrTransStart, IsrRxFull, IsrEndDetect, history
    <2>4. CASE IsrAckErr \/ IsrTransComplete \/ IsrArbitration
        BY <2>2, <2>4 DEF IsrAckErr, IsrTransComplete, IsrArbitration
    <2>5. CASE Caller
        <3>1. \/ mishaps' \subseteq mishaps
              \/ \E m \in {"held", "disturbed", "late"} : mishaps' = mishaps \cup {m}
              \/ mishaps' \subseteq mishaps \cup {"resumed", "late", "stale"}
            <4>1. CASE AddQueue
                <5>1. mishaps' = mishaps \cup {m \in {"late"} : StillServed}
                    BY <4>1 DEF AddQueue
                <5> QED BY <5>1
            <4>2. CASE Prepare
                BY <4>2 DEF Prepare
            <4>3. CASE BusBusy
                BY <4>3 DEF BusBusy
            <4>4. CASE WaitEnds
                BY <4>4 DEF WaitEnds, Undisturbed, Disturb
            <4>5. CASE Launch \/ Judge \/ Reinit
                BY <4>5 DEF Launch, Judge, Reinit, history
            <4>6. CASE i2cFlush
                BY <4>6 DEF i2cFlush
            <4> QED BY <2>5, <4>1, <4>2, <4>3, <4>4, <4>5, <4>6 DEF Caller
        <3> QED BY <3>1
    <2>6. CASE TimerTask
        BY <2>6 DEF TimerTask, history
    <2>7. CASE Controller
        <3>1. CASE HwFault
            <4>1. mishaps' = mishaps \cup {"disturbed"}
                BY <3>1 DEF HwFault, Disturb
            <4> QED BY <4>1
        <3>2. CASE HwStart \/ HwWrite \/ HwRead \/ HwDummy \/ HwStop \/ HwEnd
            <4>1. ~HwDummy \/ mishaps' = mishaps
                BY DEF HwDummy, Undisturbed
            <4>2. mishaps' = mishaps \/ mishaps' = mishaps \cup {"disturbed"}
                BY <3>2, <4>1, Zenon DEF HwStart, HwWrite, HwRead, HwStop, HwEnd,
                                         Undisturbed, Disturb
            <4> QED BY <4>2
        <3> QED BY <2>7, <3>1, <3>2 DEF Controller, Execute
    <2> QED BY <2>1, <2>3, <2>4, <2>5, <2>6, <2>7 DEF Next, Caller, Handler
<1> QED BY <1>1, TypeAlways, PTL DEF Spec

-----------------------------------------------------------------------------
(* The invariant behind SuccessIsWhole: of the script of the transfer, s    *)
(* events were on the bus; the bytes up to a later event are in the TX      *)
(* FIFO, those up to an earlier one are out of the RX FIFO, and the rest of *)
(* the list takes the events that come next.                                *)

TxOf(n, d, T, s, t) ==
    /\ \A q \in 1 .. n : d[q].rw = 1
    /\ \A j \in 1 .. Len(t) : t[j].b < 0 => t[j].rw = 1
    /\ \E g \in s .. Len(T) : PutUpTo(T, d, g) /\ Window(T, "WRITE", s, g, t)

RxOf(T, d, s, r) ==
    /\ \A j \in 1 .. Len(r) : r[j] = [q |-> r[j].q, b |-> r[j].b]
    /\ \E h \in 0 .. s : StoredUpTo(T, d, h) /\ Window(T, "READ", h, s, r)

PlaceOf(n, d, p) ==
    /\ AtPlace(n, d, p)
    /\ \A r \in 1 .. n : r < p => d[r].addrSent = d[r].addrReq /\ d[r].stopCmdSent

InFifos(n, d, T, s, t, r, p) == TxOf(n, d, T, s, t) /\ RxOf(T, d, s, r) /\ PlaceOf(n, d, p)

HwState == [run : BOOLEAN, ip : Nat, k : Nat]

\* the controller, at command ip of the list, when s events were on the bus
Runs(c, s, h, last, cur) ==
    h.run => /\ h.ip \in 0 .. last
             /\ h.k = 0 \/ (c[h.ip].op \in {"READ", "WRITE"} /\ h.k < c[h.ip].num)
             /\ s = cur[h.ip] + h.k

Executes(c, T, l, s, h) ==
    \E last, cur : Program(c, T, last, cur, l) /\ Runs(c, s, h, last, cur)

\* i are the interrupts that are latched or found
Tells(T, l, s, h, i) ==
    /\ "end_detect" \in i => ~h.run /\ s = l /\ l < Len(T)
    /\ "trans_complete" \in i => ~h.run /\ s = Len(T)

ListOf(n, d, B, T, s, c, h, i) ==
    \E f \in 1 .. n, l \in 0 .. Len(T) :
        /\ Frontier(n, d, f) /\ l = ListedOf(d[f], B[f]) /\ s <= l
        /\ Executes(c, T, l, s, h)
        /\ Tells(T, l, s, h, i)

Ready == [run |-> TRUE, ip |-> 0, k |-> 0]

Asked == TransferOf(dq)[Len(dq)]

Base == Bases(Len(dq), dq)

Unserved == active = {} /\ stage = "DONE"

\* the queue, before it is prepared and after
Before ==
    /\ Len(dq) <= MaxEntries
    /\ pc # "idle" => OnlyLastStops(Len(dq), dq)
    /\ pc = "idle" => \A q \in DOMAIN dq : ~dq[q].stop
    /\ "late" \notin mishaps =>
        /\ pc = "idle" /\ dq # <<>> => Fresh(dq) /\ Unserved
        /\ pc # "idle" => \/ dq[1].startCmdSent
                          \/ Fresh(dq) /\ Unserved /\ pc \in {"proc", "ended"}

Undeceived == mishaps \cap Deceptive = {}

Live == pc \in {"start", "wait", "judge"} /\ Undeceived

\* the controller as it will be launched, or as it is
HwNow == IF pc = "start" THEN Ready ELSE hw

Found == IF pc = "start" THEN {} ELSE raw \cup active

Frozen == Whole /\ active = {} /\ ena = {} /\ ~hw.run

\* before the launch, and after the exit
Exits ==
    /\ pc = "start" => exitCode = "none" /\ active = {} /\ raw = {} /\ stage = "DONE" /\ ~hw.run
    /\ exitCode # "none" => active = {} /\ ena = {}
    /\ exitCode = "OK" => Frozen

InStep ==
    /\ ~garbled /\ ~misplaced
    /\ sent \in 0 .. Len(Asked)
    /\ InFifos(Len(dq), dq, Asked, sent, tx, rx, queuePos)
    /\ ListOf(Len(dq), dq, Base, Asked, sent, command, HwNow, Found)
    /\ Exits

WholeInv ==
    /\ hw \in HwState
    /\ Before
    /\ Live => InStep
    /\ pc = "ended" /\ reason = "OK" /\ Undeceived => Frozen

-----------------------------------------------------------------------------
(* What the controller does next is in the list, and in the script.         *)

\* an event has no more than its kind needs
Plain(w) ==
    /\ w.ev = "START" => w = Event("START", 0, 0, FALSE)
    /\ w.ev = "STOP" => w = Event("STOP", 0, 0, FALSE)
    /\ w.ev = "WRITE" => w = Event("WRITE", w.q, w.b, FALSE)
    /\ w.ev = "READ" => w = Event("READ", w.q, w.b, w.nak)

LEMMA EventPlain ==
    ASSUME NEW n \in Nat, NEW d \in [1 .. n -> Item], NEW B, NEW T, Script(n, d, B, T),
           NEW i \in 1 .. Len(T)
    PROVE  Plain(T[i])
<1>1. PICK q \in 1 .. n : \E j \in 1 .. Size(d[q]) : i = B[q] + j
    BY DEF Script
<1>2. PICK j \in 1 .. Size(d[q]) : i = B[q] + j
    BY <1>1
<1>3. T[i] = EventOf(d[q], q, j)
    BY <1>2 DEF Script
<1> DEFINE e == d[q]
<1>4. e.mode \in {"READ", "WRITE"}
    <2>1. e \in Item
        OBVIOUS
    <2> HIDE DEF e
    <2> QED BY <2>1, ItemTyped
<1>5. T[i] = EventOf(e, q, j)
    BY <1>3
<1> HIDE DEF e
<1> DEFINE v == T[i]
<1>6. \/ v = Event("START", 0, 0, FALSE)
      \/ v = Event("WRITE", q, j - 2 - e.addrReq, FALSE)
      \/ v = Event(e.mode, q, j - 2 - e.addrReq, e.mode = "READ" /\ j = 1 + e.addrReq + e.length)
      \/ v = Event("STOP", 0, 0, FALSE)
    BY <1>5 DEF EventOf
<1> HIDE DEF v
<1>7. \/ v = Event("START", 0, 0, FALSE)
      \/ v = Event("STOP", 0, 0, FALSE)
      \/ \E x, b : v = Event("WRITE", x, b, FALSE)
      \/ \E x, b, k : v = Event("READ", x, b, k)
    <2>1. CASE e.mode = "READ"
        BY <1>6, <2>1
    <2>2. CASE e.mode = "WRITE"
        <3>1. (e.mode = "READ" /\ j = 1 + e.addrReq + e.length) = FALSE
            BY <2>2
        <3> QED BY <1>6, <2>2, <3>1
    <2> QED BY <1>4, <2>1, <2>2
<1>8. Plain(v)
    BY <1>7 DEF Event, Plain
<1> QED BY <1>8 DEF v

\* the step of the controller behind command number h.ip
NextHw(h, num) == IF h.k + 1 >= num THEN [h EXCEPT !.ip = @ + 1, !.k = 0]
                                    ELSE [h EXCEPT !.k = @ + 1]

LEMMA NextHwTyped ==
    ASSUME NEW h \in HwState, NEW num \in Nat
    PROVE  /\ NextHw(h, num) \in HwState /\ NextHw(h, num).run = h.run
           /\ h.k + 1 >= num => NextHw(h, num).ip = h.ip + 1 /\ NextHw(h, num).k = 0
           /\ h.k + 1 < num => NextHw(h, num).ip = h.ip /\ NextHw(h, num).k = h.k + 1
<1> DEFINE u == [h EXCEPT !.ip = h.ip + 1, !.k = 0]
           w == [h EXCEPT !.k = h.k + 1]
<1>1. h.run \in BOOLEAN /\ h.ip \in Nat /\ h.k \in Nat
    BY DEF HwState
<1>2. u \in HwState /\ u.run = h.run /\ u.ip = h.ip + 1 /\ u.k = 0
    <2> DEFINE v == [h EXCEPT !.ip = h.ip + 1]
    <2>1. v \in HwState /\ v.run = h.run /\ v.ip = h.ip + 1
        BY <1>1 DEF HwState
    <2>2. u = [v EXCEPT !.k = 0]
        OBVIOUS
    <2> HIDE DEF u, v
    <2>3. u \in HwState /\ u.run = v.run /\ u.ip = v.ip /\ u.k = 0
        BY <2>1, <2>2 DEF HwState
    <2> QED BY <2>1, <2>3
<1>3. w \in HwState /\ w.run = h.run /\ w.ip = h.ip /\ w.k = h.k + 1
    BY DEF HwState
<1>4. NextHw(h, num) = IF h.k + 1 >= num THEN u ELSE w
    BY DEF NextHw
<1> HIDE DEF u, w
<1>5. CASE h.k + 1 >= num
    BY <1>1, <1>2, <1>4, <1>5
<1>6. CASE ~(h.k + 1 >= num)
    BY <1>1, <1>3, <1>4, <1>6
<1> QED BY <1>5, <1>6

\* what the program has at the place of the controller
LEMMA CommandTakes ==
    ASSUME NEW c \in CommandList, NEW T, Len(T) \in Nat, NEW l \in 0 .. Len(T), NEW s,
           NEW h \in HwState, h.run,
           NEW last, NEW cur, Program(c, T, last, cur, l), Runs(c, s, h, last, cur)
    PROVE  /\ h.ip \in 0 .. last /\ last \in Nat /\ cur[h.ip] \in 0 .. l /\ s = cur[h.ip] + h.k
           /\ h.k \in Nat
           /\ h.k = 0 \/ (c[h.ip].op \in {"READ", "WRITE"} /\ h.k < c[h.ip].num)
           /\ h.ip < last => /\ Takes(c[h.ip], T, cur[h.ip], cur[h.ip + 1])
                             /\ h.ip + 1 \in 0 .. last /\ cur[h.ip + 1] \in 0 .. l
           /\ h.ip = last => \/ c[last].op = "END" /\ cur[last] = l /\ l < Len(T)
                             \/ c[last].op = "STOP" /\ Takes(c[last], T, cur[last], l) /\ l = Len(T)
<1>1. last \in 0 .. Slots - 1 /\ last \in Nat
    BY CommandsAssumption DEF Program
<1>2. /\ cur \in [0 .. last -> 0 .. l]
      /\ \A i \in 0 .. last - 1 : Takes(c[i], T, cur[i], cur[i + 1])
      /\ \/ c[last].op = "END" /\ cur[last] = l /\ l < Len(T)
         \/ c[last].op = "STOP" /\ Takes(c[last], T, cur[last], l) /\ l = Len(T)
    BY DEF Program
<1>3. /\ h.ip \in 0 .. last
      /\ h.k = 0 \/ (c[h.ip].op \in {"READ", "WRITE"} /\ h.k < c[h.ip].num)
      /\ s = cur[h.ip] + h.k
    BY DEF Runs
<1>4. h.k \in Nat
    BY DEF HwState
<1>5. h.ip < last => h.ip \in 0 .. last - 1 /\ h.ip + 1 \in 0 .. last
    BY <1>1, <1>3
<1>6. cur[h.ip] \in 0 .. l
    BY <1>2, <1>3
<1>7. h.ip < last => cur[h.ip + 1] \in 0 .. l
    BY <1>2, <1>5
<1>8. h.ip < last => Takes(c[h.ip], T, cur[h.ip], cur[h.ip + 1])
    BY <1>2, <1>5
<1> QED BY <1>1, <1>2, <1>3, <1>4, <1>5, <1>6, <1>7, <1>8

Advances(T, l, s, ev) == s \in Nat /\ s + 1 \in 1 .. l /\ T[s + 1].ev = ev

LEMMA Halts ==
    ASSUME NEW c, NEW T, NEW l, NEW s, NEW h, Executes(c, T, l, s, h), NEW x, NEW g, ~g.run
    PROVE  Executes(c, T, l, x, g)
BY DEF Executes, Runs

LEMMA StartNext ==
    ASSUME NEW c \in CommandList, NEW T, Len(T) \in Nat, NEW l \in 0 .. Len(T), NEW s,
           NEW h \in HwState, h.run, Executes(c, T, l, s, h), c[h.ip].op = "RSTART"
    PROVE  Advances(T, l, s, "START") /\ Executes(c, T, l, s + 1, NextHw(h, 1))
<1>1. PICK last, cur : Program(c, T, last, cur, l) /\ Runs(c, s, h, last, cur)
    BY DEF Executes
<1>2. /\ h.ip \in 0 .. last /\ last \in Nat /\ cur[h.ip] \in 0 .. l /\ s = cur[h.ip] + h.k
      /\ h.k = 0 \/ (c[h.ip].op \in {"READ", "WRITE"} /\ h.k < c[h.ip].num)
      /\ h.ip < last => /\ Takes(c[h.ip], T, cur[h.ip], cur[h.ip + 1])
                        /\ h.ip + 1 \in 0 .. last /\ cur[h.ip + 1] \in 0 .. l
      /\ h.ip = last => c[last].op = "END" \/ c[last].op = "STOP"
    BY <1>1, CommandTakes
<1>3. h.k = 0 /\ s = cur[h.ip] /\ h.ip < last
    BY <1>2
<1> DEFINE i == cur[h.ip]
           j == cur[h.ip + 1]
           g == NextHw(h, 1)
<1>4. j = i + 1 /\ T[j].ev = "START"
    BY <1>2, <1>3 DEF Takes
<1>5. g.run = h.run /\ g.ip = h.ip + 1 /\ g.k = 0
    <2>1. h.k + 1 >= 1
        BY <1>3
    <2> QED BY <2>1, NextHwTyped
<1>6. i \in Nat /\ j \in 0 .. l
    BY <1>2, <1>3
<1> HIDE DEF g
<1>7. Runs(c, s + 1, g, last, cur)
    <2>1. cur[g.ip] = s + 1
        BY <1>3, <1>4, <1>5
    <2>2. cur[g.ip] + g.k = s + 1
        BY <1>3, <1>5, <1>6, <2>1
    <2> QED BY <1>2, <1>3, <1>5, <2>2 DEF Runs
<1>8. Advances(T, l, s, "START")
    <2> HIDE DEF i, j
    <2>1. s = i
        BY <1>3 DEF i
    <2> QED BY <1>4, <1>6, <2>1 DEF Advances
<1> QED BY <1>1, <1>7, <1>8 DEF Executes, g

LEMMA ByteNext ==
    ASSUME NEW c \in CommandList, NEW T, Len(T) \in Nat, NEW l \in 0 .. Len(T), NEW s,
           NEW h \in HwState, h.run, Executes(c, T, l, s, h),
           c[h.ip].op \in {"READ", "WRITE"}, c[h.ip].num > 0
    PROVE  /\ Advances(T, l, s, c[h.ip].op) /\ T[s + 1].nak = c[h.ip].nak
           /\ Executes(c, T, l, s + 1, NextHw(h, c[h.ip].num))
<1>1. PICK last, cur : Program(c, T, last, cur, l) /\ Runs(c, s, h, last, cur)
    BY DEF Executes
<1>2. /\ h.ip \in 0 .. last /\ last \in Nat /\ cur[h.ip] \in 0 .. l /\ s = cur[h.ip] + h.k
      /\ h.k \in Nat
      /\ h.k = 0 \/ (c[h.ip].op \in {"READ", "WRITE"} /\ h.k < c[h.ip].num)
      /\ h.ip < last => /\ Takes(c[h.ip], T, cur[h.ip], cur[h.ip + 1])
                        /\ h.ip + 1 \in 0 .. last /\ cur[h.ip + 1] \in 0 .. l
      /\ h.ip = last => c[last].op = "END" \/ c[last].op = "STOP"
    BY <1>1, CommandTakes
<1>3. h.ip < last
    BY <1>2
<1> DEFINE i == cur[h.ip]
           j == cur[h.ip + 1]
           num == c[h.ip].num
           op == c[h.ip].op
           g == NextHw(h, num)
<1>4. j = i + num /\ \A m \in i + 1 .. j : T[m].ev = op /\ T[m].nak = c[h.ip].nak
    BY <1>2, <1>3 DEF Takes
<1>5. num \in Nat /\ num > 0 /\ h.k \in Nat /\ h.k < num
    <2>1. Program(c, T, last, cur, l)
        BY <1>1
    <2>2. h.ip \in 0 .. Slots - 1
        <3>1. last \in 0 .. Slots - 1
            BY <2>1 DEF Program
        <3> QED BY <1>2, <3>1, CommandsAssumption
    <2>3. c[h.ip] \in Command
        BY <2>2 DEF CommandList
    <2> QED BY <1>2, <2>3 DEF Command
<1>6. i \in Nat /\ j \in 0 .. l /\ s = i + h.k
    BY <1>2, <1>3
<1>7. s + 1 \in i + 1 .. j /\ s \in Nat /\ s + 1 \in 1 .. l
    <2> HIDE DEF i, j, num
    <2>1. j = i + num /\ i \in Nat /\ j \in 0 .. l /\ s = i + h.k
        BY <1>4, <1>6
    <2> QED BY ONLY <1>5, <2>1, l \in 0 .. Len(T), Len(T) \in Nat
<1>8. Advances(T, l, s, op) /\ T[s + 1].nak = c[h.ip].nak
    BY <1>4, <1>7 DEF Advances
<1>9. Runs(c, s + 1, g, last, cur)
    <2>1. CASE h.k + 1 >= num
        <3>1. g.run = h.run /\ g.ip = h.ip + 1 /\ g.k = 0
            BY <1>5, <2>1, NextHwTyped
        <3>2. s + 1 = j
            <4> HIDE DEF i, j, num
            <4>1. j = i + num /\ i \in Nat /\ s = i + h.k
                BY <1>4, <1>6
            <4> QED BY ONLY <1>5, <2>1, <4>1
        <3>3. cur[g.ip] + g.k = s + 1
            <4>1. j = cur[g.ip]
                BY <3>1
            <4> HIDE DEF j, g
            <4> QED BY <1>6, <3>1, <3>2, <4>1
        <3> HIDE DEF g
        <3> QED BY <1>2, <1>3, <3>1, <3>3 DEF Runs
    <2>2. CASE ~(h.k + 1 >= num)
        <3>1. g.run = h.run /\ g.ip = h.ip /\ g.k = h.k + 1 /\ h.k + 1 < num
            <4>1. h.k + 1 < num /\ num \in Nat
                <5> HIDE DEF num
                <5> QED BY <1>5, <2>2
            <4>2. g.ip = h.ip /\ g.k = h.k + 1
                <5> HIDE DEF num
                <5> QED BY <4>1, NextHwTyped
            <4>3. g.run = h.run
                <5> HIDE DEF num
                <5> QED BY <4>1, NextHwTyped
            <4> QED BY <4>1, <4>2, <4>3
        <3>2. cur[g.ip] + g.k = s + 1
            <4>1. i = cur[g.ip]
                BY <3>1
            <4> HIDE DEF i, g
            <4> QED BY <1>5, <1>6, <3>1, <4>1
        <3> HIDE DEF g
        <3> QED BY <1>2, <3>1, <3>2 DEF Runs
    <2> QED BY <2>1, <2>2
<1> QED BY <1>1, <1>8, <1>9 DEF Executes

LEMMA DummyNext ==
    ASSUME NEW c \in CommandList, NEW T, Len(T) \in Nat, NEW l \in 0 .. Len(T), NEW s,
           NEW h \in HwState, h.run, Executes(c, T, l, s, h),
           c[h.ip].op \in {"READ", "WRITE"}, c[h.ip].num = 0
    PROVE  Executes(c, T, l, s, NextHw(h, 1))
<1>1. PICK last, cur : Program(c, T, last, cur, l) /\ Runs(c, s, h, last, cur)
    BY DEF Executes
<1>2. /\ h.ip \in 0 .. last /\ last \in Nat /\ cur[h.ip] \in 0 .. l /\ s = cur[h.ip] + h.k
      /\ h.k \in Nat
      /\ h.k = 0 \/ (c[h.ip].op \in {"READ", "WRITE"} /\ h.k < c[h.ip].num)
      /\ h.ip < last => /\ Takes(c[h.ip], T, cur[h.ip], cur[h.ip + 1])
                        /\ h.ip + 1 \in 0 .. last /\ cur[h.ip + 1] \in 0 .. l
      /\ h.ip = last => c[last].op = "END" \/ c[last].op = "STOP"
    BY <1>1, CommandTakes
<1>3. h.ip < last /\ h.k = 0 /\ s = cur[h.ip]
    BY <1>2
<1> DEFINE g == NextHw(h, 1)
<1>4. cur[h.ip + 1] = cur[h.ip]
    BY <1>2, <1>3 DEF Takes
<1>5. g.run = h.run /\ g.ip = h.ip + 1 /\ g.k = 0
    <2>1. h.k + 1 >= 1
        BY <1>3
    <2> QED BY <2>1, NextHwTyped
<1> HIDE DEF g
<1>6. Runs(c, s, g, last, cur)
    <2>1. cur[g.ip] + g.k = s
        BY <1>2, <1>3, <1>4, <1>5
    <2> QED BY <1>2, <1>3, <1>5, <2>1 DEF Runs
<1> QED BY <1>1, <1>6 DEF Executes, g

LEMMA StopNext ==
    ASSUME NEW c \in CommandList, NEW T, Len(T) \in Nat, NEW l \in 0 .. Len(T), NEW s,
           \A i \in 1 .. Len(T) : T[i].ev = "STOP" => i = Len(T),
           NEW h \in HwState, h.run, Executes(c, T, l, s, h), c[h.ip].op = "STOP"
    PROVE  Advances(T, l, s, "STOP") /\ s + 1 = Len(T)
<1>1. PICK last, cur : Program(c, T, last, cur, l) /\ Runs(c, s, h, last, cur)
    BY DEF Executes
<1>2. /\ h.ip \in 0 .. last /\ last \in Nat /\ cur[h.ip] \in 0 .. l /\ s = cur[h.ip] + h.k
      /\ h.k = 0 \/ (c[h.ip].op \in {"READ", "WRITE"} /\ h.k < c[h.ip].num)
      /\ h.ip < last => /\ Takes(c[h.ip], T, cur[h.ip], cur[h.ip + 1])
                        /\ h.ip + 1 \in 0 .. last /\ cur[h.ip + 1] \in 0 .. l
      /\ h.ip = last => \/ c[last].op = "END" /\ cur[last] = l /\ l < Len(T)
                        \/ c[last].op = "STOP" /\ Takes(c[last], T, cur[last], l) /\ l = Len(T)
    BY <1>1, CommandTakes
<1>3. h.k = 0 /\ s = cur[h.ip]
    BY <1>2
<1>4. PICK j \in 0 .. l : Takes(c[h.ip], T, s, j)
    <2>1. CASE h.ip < last
        BY <1>2, <1>3, <2>1
    <2>2. CASE h.ip = last
        BY <1>2, <1>3, <2>2
    <2> QED BY <1>2, <2>1, <2>2
<1>5. j = s + 1 /\ T[j].ev = "STOP"
    BY <1>4 DEF Takes
<1>6. s \in Nat /\ j \in 1 .. Len(T)
    BY <1>2, <1>3, <1>5
<1> QED BY <1>4, <1>5, <1>6 DEF Advances

LEMMA EndNext ==
    ASSUME NEW c \in CommandList, NEW T, Len(T) \in Nat, NEW l \in 0 .. Len(T), NEW s,
           NEW h \in HwState, h.run, Executes(c, T, l, s, h), c[h.ip].op = "END"
    PROVE  s = l /\ l < Len(T)
<1>1. PICK last, cur : Program(c, T, last, cur, l) /\ Runs(c, s, h, last, cur)
    BY DEF Executes
<1>2. /\ h.ip \in 0 .. last /\ last \in Nat /\ cur[h.ip] \in 0 .. l /\ s = cur[h.ip] + h.k
      /\ h.k = 0 \/ (c[h.ip].op \in {"READ", "WRITE"} /\ h.k < c[h.ip].num)
      /\ h.ip < last => /\ Takes(c[h.ip], T, cur[h.ip], cur[h.ip + 1])
                        /\ h.ip + 1 \in 0 .. last /\ cur[h.ip + 1] \in 0 .. l
      /\ h.ip = last => \/ c[last].op = "END" /\ cur[last] = l /\ l < Len(T)
                        \/ c[last].op = "STOP" /\ Takes(c[last], T, cur[last], l) /\ l = Len(T)
    BY <1>1, CommandTakes
<1>3. h.k = 0 /\ s = cur[h.ip]
    BY <1>2
<1>4. ~(h.ip < last)
    BY <1>2 DEF Takes
<1>5. h.ip = last
    BY <1>2, <1>4
<1> QED BY <1>2, <1>3, <1>5

\* the next event of the script
Upcoming(T, s, ev) == s \in Nat /\ s + 1 \in 1 .. Len(T) /\ T[s + 1].ev = ev

\* the entry f that is being listed
ListAt(n, d, B, T, f, l, s) ==
    /\ f \in 1 .. n /\ l \in 0 .. Len(T)
    /\ Frontier(n, d, f) /\ l = ListedOf(d[f], B[f]) /\ s <= l

LEMMA ListOpened ==
    ASSUME NEW n, NEW d, NEW B, NEW T, NEW s, NEW c, NEW h, NEW i, ListOf(n, d, B, T, s, c, h, i)
    PROVE  \E f, l : /\ ListAt(n, d, B, T, f, l, s)
                     /\ Executes(c, T, l, s, h) /\ Tells(T, l, s, h, i)
BY DEF ListOf, ListAt

LEMMA ListClosed ==
    ASSUME NEW n, NEW d, NEW B, NEW T, NEW s, NEW c, NEW h, NEW i, NEW f, NEW l,
           ListAt(n, d, B, T, f, l, s), Executes(c, T, l, s, h), Tells(T, l, s, h, i)
    PROVE  ListOf(n, d, B, T, s, c, h, i)
BY DEF ListOf, ListAt

LEMMA ListOn ==
    ASSUME NEW n, NEW d, NEW B, NEW T, NEW f, NEW l, NEW s, ListAt(n, d, B, T, f, l, s),
           Len(T) \in Nat, NEW ev, Advances(T, l, s, ev)
    PROVE  ListAt(n, d, B, T, f, l, s + 1) /\ Upcoming(T, s, ev) /\ l \in 0 .. Len(T)
<1>1. l \in 0 .. Len(T) /\ s \in Nat /\ s + 1 \in 1 .. l /\ T[s + 1].ev = ev
    BY DEF ListAt, Advances
<1>2. s + 1 \in 1 .. Len(T) /\ s + 1 <= l
    BY <1>1
<1> QED BY <1>1, <1>2 DEF ListAt, Upcoming

LEMMA Untold ==
    ASSUME NEW T, NEW l, NEW s, NEW h, NEW i, Tells(T, l, s, h, i), h.run, NEW x, NEW g
    PROVE  Tells(T, l, x, g, i)
BY DEF Tells

LEMMA ListStart ==
    ASSUME NEW n, NEW d, NEW B, NEW T, Len(T) \in Nat, NEW s, NEW c \in CommandList,
           NEW h \in HwState, h.run, NEW i, ListOf(n, d, B, T, s, c, h, i), c[h.ip].op = "RSTART"
    PROVE  Upcoming(T, s, "START") /\ ListOf(n, d, B, T, s + 1, c, NextHw(h, 1), i)
<1>1. PICK f, l : /\ ListAt(n, d, B, T, f, l, s)
                  /\ Executes(c, T, l, s, h) /\ Tells(T, l, s, h, i)
    BY ListOpened
<1>2. l \in 0 .. Len(T)
    BY <1>1 DEF ListAt
<1>3. Advances(T, l, s, "START") /\ Executes(c, T, l, s + 1, NextHw(h, 1))
    BY <1>1, <1>2, StartNext
<1>4. ListAt(n, d, B, T, f, l, s + 1) /\ Upcoming(T, s, "START")
    BY <1>1, <1>3, ListOn
<1>5. Tells(T, l, s + 1, NextHw(h, 1), i)
    BY <1>1, Untold
<1> QED BY <1>3, <1>4, <1>5, ListClosed

LEMMA ListByte ==
    ASSUME NEW n, NEW d, NEW B, NEW T, Len(T) \in Nat, NEW s, NEW c \in CommandList,
           NEW h \in HwState, h.run, NEW i, ListOf(n, d, B, T, s, c, h, i),
           c[h.ip].op \in {"READ", "WRITE"}, c[h.ip].num > 0
    PROVE  /\ Upcoming(T, s, c[h.ip].op) /\ T[s + 1].nak = c[h.ip].nak
           /\ ListOf(n, d, B, T, s + 1, c, NextHw(h, c[h.ip].num), i)
<1>1. PICK f, l : /\ ListAt(n, d, B, T, f, l, s)
                  /\ Executes(c, T, l, s, h) /\ Tells(T, l, s, h, i)
    BY ListOpened
<1>2. l \in 0 .. Len(T)
    BY <1>1 DEF ListAt
<1> DEFINE g == NextHw(h, c[h.ip].num)
           op == c[h.ip].op
<1>3. Advances(T, l, s, op) /\ T[s + 1].nak = c[h.ip].nak /\ Executes(c, T, l, s + 1, g)
    BY <1>1, <1>2, ByteNext
<1> HIDE DEF g, op
<1>4. ListAt(n, d, B, T, f, l, s + 1) /\ Upcoming(T, s, op)
    BY <1>1, <1>3, ListOn
<1>5. Tells(T, l, s + 1, g, i)
    BY <1>1, Untold
<1>6. ListOf(n, d, B, T, s + 1, c, g, i)
    BY <1>3, <1>4, <1>5, ListClosed
<1> QED BY <1>3, <1>4, <1>6 DEF g, op

LEMMA ListDummy ==
    ASSUME NEW n, NEW d, NEW B, NEW T, Len(T) \in Nat, NEW s, NEW c \in CommandList,
           NEW h \in HwState, h.run, NEW i, ListOf(n, d, B, T, s, c, h, i),
           c[h.ip].op \in {"READ", "WRITE"}, c[h.ip].num = 0
    PROVE  ListOf(n, d, B, T, s, c, NextHw(h, 1), i)
<1>1. PICK f, l : /\ ListAt(n, d, B, T, f, l, s)
                  /\ Executes(c, T, l, s, h) /\ Tells(T, l, s, h, i)
    BY ListOpened
<1>2. l \in 0 .. Len(T)
    BY <1>1 DEF ListAt
<1>3. Executes(c, T, l, s, NextHw(h, 1))
    BY <1>1, <1>2, DummyNext
<1>4. Tells(T, l, s, NextHw(h, 1), i)
    BY <1>1, Untold
<1> QED BY <1>1, <1>3, <1>4, ListClosed

LEMMA ListStop ==
    ASSUME NEW n, NEW d, NEW B, NEW T, Len(T) \in Nat, NEW s, NEW c \in CommandList,
           \A m \in 1 .. Len(T) : T[m].ev = "STOP" => m = Len(T),
           NEW h \in HwState, h.run, NEW i, ListOf(n, d, B, T, s, c, h, i),
           c[h.ip].op = "STOP", NEW g, ~g.run
    PROVE  /\ Upcoming(T, s, "STOP")
           /\ ListOf(n, d, B, T, s + 1, c, g, i \cup {"trans_complete"})
<1>1. PICK f, l : /\ ListAt(n, d, B, T, f, l, s)
                  /\ Executes(c, T, l, s, h) /\ Tells(T, l, s, h, i)
    BY ListOpened
<1>2. l \in 0 .. Len(T)
    BY <1>1 DEF ListAt
<1>3. Advances(T, l, s, "STOP") /\ s + 1 = Len(T)
    BY <1>1, <1>2, StopNext
<1>4. ListAt(n, d, B, T, f, l, s + 1) /\ Upcoming(T, s, "STOP")
    BY <1>1, <1>3, ListOn
<1>5. Executes(c, T, l, s + 1, g)
    BY <1>1, Halts
<1>6. Tells(T, l, s + 1, g, i \cup {"trans_complete"})
    BY <1>1, <1>3 DEF Tells
<1> QED BY <1>4, <1>5, <1>6, ListClosed

LEMMA ListEnd ==
    ASSUME NEW n, NEW d, NEW B, NEW T, Len(T) \in Nat, NEW s, NEW c \in CommandList,
           NEW h \in HwState, h.run, NEW i, ListOf(n, d, B, T, s, c, h, i),
           c[h.ip].op = "END", NEW g, ~g.run
    PROVE  ListOf(n, d, B, T, s, c, g, i \cup {"end_detect"})
<1>1. PICK f, l : /\ ListAt(n, d, B, T, f, l, s)
                  /\ Executes(c, T, l, s, h) /\ Tells(T, l, s, h, i)
    BY ListOpened
<1>2. l \in 0 .. Len(T)
    BY <1>1 DEF ListAt
<1>3. s = l /\ l < Len(T)
    BY <1>1, <1>2, EndNext
<1>4. Executes(c, T, l, s, g)
    BY <1>1, Halts
<1>5. Tells(T, l, s, g, i \cup {"end_detect"})
    BY <1>1, <1>3 DEF Tells
<1> QED BY <1>1, <1>4, <1>5, ListClosed

\* the controller stops, or interrupts come and go that say nothing of the list
LEMMA ListHalts ==
    ASSUME NEW n, NEW d, NEW B, NEW T, NEW s, NEW c, NEW h, NEW i, ListOf(n, d, B, T, s, c, h, i),
           NEW g, g = h \/ ~g.run, NEW j,
           "end_detect" \in j => "end_detect" \in i,
           "trans_complete" \in j => "trans_complete" \in i
    PROVE  ListOf(n, d, B, T, s, c, g, j)
<1>1. PICK f, l : /\ ListAt(n, d, B, T, f, l, s)
                  /\ Executes(c, T, l, s, h) /\ Tells(T, l, s, h, i)
    BY ListOpened
<1>2. Executes(c, T, l, s, g)
    BY <1>1, Halts
<1>3. Tells(T, l, s, g, j)
    BY <1>1 DEF Tells
<1> QED BY <1>1, <1>2, <1>3, ListClosed

LEMMA ListCarries ==
    ASSUME NEW n \in Nat, NEW d, NEW e, NEW B, NEW T, NEW s, NEW c, NEW h, NEW i,
           ListOf(n, d, B, T, s, c, h, i), SameFlags(n, d, e)
    PROVE  ListOf(n, e, B, T, s, c, h, i)
<1>1. PICK f, l : /\ ListAt(n, d, B, T, f, l, s)
                  /\ Executes(c, T, l, s, h) /\ Tells(T, l, s, h, i)
    BY ListOpened
<1>2. f \in 1 .. n /\ l = ListedOf(d[f], B[f]) /\ Frontier(n, d, f)
    BY <1>1 DEF ListAt
<1>3. ListedOf(e[f], B[f]) = ListedOf(d[f], B[f])
    BY <1>2 DEF SameFlags, Moves, ListedOf
<1>4. Frontier(n, e, f)
    <2>1. \A r \in 1 .. n : /\ d[r].stopCmdSent <=> e[r].stopCmdSent
                            /\ Unlisted(d[r]) <=> Unlisted(e[r])
        BY DEF SameFlags, Moves, Unlisted
    <2>2. /\ e[f].startCmdSent = d[f].startCmdSent /\ e[f].addrCmdSent = d[f].addrCmdSent
          /\ e[f].stopCmdSent = d[f].stopCmdSent /\ e[f].cmdBytesNeeded = d[f].cmdBytesNeeded
        BY <1>2 DEF SameFlags, Moves
    <2> QED BY <1>2, <2>1, <2>2 DEF Frontier
<1>5. ListAt(n, e, B, T, f, l, s)
    BY <1>1, <1>3, <1>4 DEF ListAt
<1> QED BY <1>1, <1>5, ListClosed

\* a list that fillCmdQueue makes, for the controller at its beginning
LEMMA ListFills ==
    ASSUME NEW n \in Nat \ {0}, NEW d \in [1 .. n -> Item], NEW B, NEW T, Script(n, d, B, T),
           OnlyLastStops(n, d), NEW p \in 1 .. n + 1, NEW c \in CommandList,
           NEW f \in 1 .. n, Frontier(n, d, f), NEW s, s = ListedOf(d[f], B[f]), s < Len(T),
           \A r \in 1 .. n : r < p => d[r].stopCmdSent,
           NEW j, "end_detect" \notin j, "trans_complete" \notin j,
           NEW u, u = fillCmdQueue(d, p, c)
    PROVE  ListOf(n, u.dq, B, T, s, u.command, Ready, j)
<1>1. GoesOn(n, B, T, s, u)
    <2>1. ListedOf(d[f], B[f]) < Len(T)
        OBVIOUS
    <2>2. GoesOn(n, B, T, ListedOf(d[f], B[f]), fillCmdQueue(d, p, c))
        BY <2>1, fillCmdQueueFollows
    <2> QED BY <2>2
<1>2. PICK g \in 1 .. n, l \in s .. Len(T) :
          /\ Frontier(n, u.dq, g) /\ l = ListedOf(u.dq[g], B[g])
          /\ \E last, cur : Program(u.command, T, last, cur, l) /\ cur[0] = s
    BY <1>1 DEF GoesOn
<1>3. PICK last, cur : Program(u.command, T, last, cur, l) /\ cur[0] = s
    BY <1>2
<1>4. s \in Nat /\ Len(T) \in Nat /\ s <= l /\ l \in 0 .. Len(T)
    <2>1. f \in 1 .. n /\ d[f] \in Item /\ Len(T) \in Nat
        BY ScriptFits
    <2>2. Alike(d[f], d[f])
        BY DEF Alike
    <2>3. s \in 0 .. Len(T)
        BY <2>1, <2>2, ListedFits
    <2> QED BY <2>1, <2>3
<1>5. Runs(u.command, s, Ready, last, cur)
    <2>1. last \in 0 .. Slots - 1
        BY <1>3 DEF Program
    <2>2. 0 \in 0 .. last
        BY <2>1, CommandsAssumption
    <2>3. s = cur[0] + 0
        BY <1>3, <1>4
    <2> QED BY <2>2, <2>3 DEF Runs, Ready
<1>6. Executes(u.command, T, l, s, Ready)
    BY <1>3, <1>5 DEF Executes
<1>7. ListAt(n, u.dq, B, T, g, l, s)
    BY <1>2, <1>4 DEF ListAt
<1>8. Tells(T, l, s, Ready, j)
    BY DEF Tells
<1> QED BY <1>6, <1>7, <1>8, ListClosed

LEMMA ListRefills ==
    ASSUME NEW n \in Nat \ {0}, NEW d \in [1 .. n -> Item], NEW B, NEW T, Script(n, d, B, T),
           OnlyLastStops(n, d), NEW p \in 1 .. n + 1, NEW c \in CommandList,
           NEW s, NEW o, NEW h, NEW i, ListOf(n, d, B, T, s, o, h, i), "end_detect" \in i,
           \A r \in 1 .. n : r < p => d[r].stopCmdSent,
           NEW u, u = fillCmdQueue(d, p, c)
    PROVE  ListOf(n, u.dq, B, T, s, u.command, Ready, i \ {"end_detect"})
<1>1. PICK f, l : /\ ListAt(n, d, B, T, f, l, s)
                  /\ Executes(o, T, l, s, h) /\ Tells(T, l, s, h, i)
    BY ListOpened
<1>2. s = l /\ l < Len(T) /\ "trans_complete" \notin i
    <2>1. s = l /\ l < Len(T)
        BY <1>1 DEF Tells
    <2>2. "trans_complete" \in i => s = Len(T)
        BY <1>1 DEF Tells
    <2>3. l \in 0 .. Len(T) /\ Len(T) \in Nat
        BY <1>1, ScriptFits DEF ListAt
    <2> QED BY <2>1, <2>2, <2>3
<1>3. f \in 1 .. n /\ Frontier(n, d, f) /\ s = ListedOf(d[f], B[f]) /\ s < Len(T)
    BY <1>1, <1>2 DEF ListAt
<1> DEFINE j == i \ {"end_detect"}
<1>4. "end_detect" \notin j /\ "trans_complete" \notin j
    BY <1>2
<1> HIDE DEF j
<1>5. ListOf(n, u.dq, B, T, s, u.command, Ready, j)
    BY <1>3, <1>4, ListFills
<1> QED BY <1>5 DEF j

\* no more of an entry is listed than it has
LEMMA ListedWithin ==
    ASSUME NEW e \in Item, NEW b \in Nat
    PROVE  ListedOf(e, b) <= b + Size(e)
<1> DEFINE r == e.addrReq
           len == e.length
           left == e.cmdBytesNeeded
           end == IF e.stopCmdSent /\ e.stop THEN 1 ELSE 0
           stop == IF e.stop THEN 1 ELSE 0
           l == ListedOf(e, b)
           z == Size(e)
<1>1. r \in Nat /\ len \in Nat /\ left \in Nat /\ left <= len
    BY ItemTyped
<1>2. end \in Nat /\ stop \in Nat /\ end <= stop
    OBVIOUS
<1>3. l = b \/ l = b + 1 \/ l = b + 1 + r + (len - left) + end
    BY DEF ListedOf
<1>4. z = 1 + r + len + stop
    BY DEF Size
<1> HIDE DEF r, len, left, end, stop, l, z
<1>5. l <= b + z
    BY ONLY <1>1, <1>2, <1>3, <1>4, b \in Nat
<1> QED BY <1>5 DEF l, z

\* an event is on the bus only when the entries before it are listed
LEMMA ListArrives ==
    ASSUME NEW n \in Nat \ {0}, NEW d \in [1 .. n -> Item], NEW B, NEW T, Script(n, d, B, T),
           NEW s, s \in Nat, NEW c, NEW h, NEW i, ListOf(n, d, B, T, s, c, h, i)
    PROVE  \A q \in 1 .. n : B[q] < s => \A p \in 1 .. n : p < q => d[p].stopCmdSent
<1>1. PICK f, l : ListAt(n, d, B, T, f, l, s)
    BY ListOpened
<1>2. f \in 1 .. n /\ Frontier(n, d, f) /\ l = ListedOf(d[f], B[f]) /\ s <= l /\ l \in 0 .. Len(T)
    BY <1>1 DEF ListAt
<1>3. l <= B[f] + Size(d[f])
    <2> DEFINE e == d[f]
               b == B[f]
    <2>1. e \in Item /\ b \in Nat
        BY <1>2, ScriptFits
    <2>2. l = ListedOf(e, b)
        BY <1>2
    <2> HIDE DEF e, b
    <2>3. l <= b + Size(e)
        BY <2>1, <2>2, ListedWithin
    <2> QED BY <2>3 DEF e, b
<1> TAKE q \in 1 .. n
<1> SUFFICES ASSUME B[q] < s PROVE \A p \in 1 .. n : p < q => d[p].stopCmdSent
    OBVIOUS
<1>4. q <= f
    <2>1. f < q => B[f] + Size(d[f]) <= B[q]
        BY <1>2 DEF Script
    <2>2. B[f] \in Nat /\ Size(d[f]) \in Nat /\ B[q] \in Nat /\ Len(T) \in Nat
        BY <1>2, ScriptFits
    <2>3. ~(f < q)
        BY <1>2, <1>3, <2>1, <2>2
    <2> QED BY <1>2, <2>3
<1> TAKE p \in 1 .. n
<1> SUFFICES ASSUME p < q PROVE d[p].stopCmdSent
    OBVIOUS
<1>5. p < f
    BY <1>2, <1>4
<1> QED BY <1>2, <1>5 DEF Frontier

-----------------------------------------------------------------------------
(* What is in the FIFOs, when an event comes that is none of their bytes.   *)

LEMMA TxPasses ==
    ASSUME NEW n, NEW d, NEW T, Len(T) \in Nat, NEW s, NEW t, Len(t) \in Nat,
           TxOf(n, d, T, s, t), NEW ev, ev # "WRITE", Upcoming(T, s, ev)
    PROVE  TxOf(n, d, T, s + 1, t)
<1>1. s \in Nat /\ s + 1 \in 1 .. Len(T) /\ T[s + 1].ev # "WRITE"
    BY DEF Upcoming
<1>2. PICK g \in s .. Len(T) : PutUpTo(T, d, g) /\ Window(T, "WRITE", s, g, t)
    BY DEF TxOf
<1>3. \E k \in s + 1 .. Len(T) : PutUpTo(T, d, k) /\ Window(T, "WRITE", s + 1, k, t)
    <2>1. CASE g = s
        <3>1. PutUpTo(T, d, s + 1)
            <4> SUFFICES ASSUME NEW i \in 1 .. Len(T), T[i].ev = "WRITE"
                         PROVE  Put(d, T[i]) <=> i <= s + 1
                BY DEF PutUpTo
            <4>1. Put(d, T[i]) <=> i <= s
                BY <1>2, <2>1 DEF PutUpTo
            <4>2. i # s + 1 /\ i \in Nat
                BY <1>1
            <4> QED BY <1>1, <4>1, <4>2
        <3>2. Window(T, "WRITE", s, s + 1, t)
            <4>1. \A m \in s + 1 .. s : T[m].ev # "WRITE"
                BY <1>1
            <4>2. \A m \in s + 1 .. s + 1 : T[m].ev # "WRITE"
                BY <1>1
            <4> HIDE DEF Window
            <4>3. s + 1 \in Nat /\ s <= s /\ s <= s + 1
                BY <1>1
            <4> QED BY <1>1, <1>2, <2>1, <4>1, <4>2, <4>3, WindowSkip
        <3>3. Window(T, "WRITE", s + 1, s + 1, t)
            <4>1. \A m \in s + 1 .. s + 1 : T[m].ev # "WRITE"
                BY <1>1
            <4>2. \A m \in s + 1 + 1 .. s + 1 : T[m].ev # "WRITE"
                BY <1>1
            <4>3. s + 1 \in Nat /\ s <= s + 1 /\ s + 1 <= s + 1
                BY <1>1
            <4> QED BY <1>1, <3>2, <4>1, <4>2, <4>3, WindowSkip
        <3> QED BY <1>1, <3>1, <3>3
    <2>2. CASE g # s
        <3>1. g \in Nat /\ s + 1 <= g /\ s <= s + 1 /\ g <= g /\ s + 1 \in Nat /\ g \in s + 1 .. Len(T)
            BY <1>1, <1>2, <2>2
        <3>2. \A m \in s + 1 .. s + 1 : T[m].ev # "WRITE"
            BY <1>1
        <3>3. \A m \in g + 1 .. g : T[m].ev # "WRITE"
            BY <3>1
        <3>4. Window(T, "WRITE", s + 1, g, t)
            BY <1>1, <1>2, <3>1, <3>2, <3>3, WindowSkip
        <3> QED BY <1>2, <3>1, <3>4
    <2> QED BY <2>1, <2>2
<1> QED BY <1>3 DEF TxOf

LEMMA RxPasses ==
    ASSUME NEW d, NEW T, Len(T) \in Nat, NEW s, NEW r, Len(r) \in Nat,
           RxOf(T, d, s, r), NEW ev, ev # "READ", Upcoming(T, s, ev)
    PROVE  RxOf(T, d, s + 1, r)
<1>1. s \in Nat /\ s + 1 \in 1 .. Len(T) /\ T[s + 1].ev # "READ"
    BY DEF Upcoming
<1>2. PICK h \in 0 .. s : StoredUpTo(T, d, h) /\ Window(T, "READ", h, s, r)
    BY DEF RxOf
<1>3. Window(T, "READ", h, s + 1, r)
    <2>1. \A m \in h + 1 .. h : T[m].ev # "READ"
        BY <1>1
    <2>2. \A m \in s + 1 .. s + 1 : T[m].ev # "READ"
        BY <1>1
    <2>3. h \in Nat /\ s + 1 \in Nat /\ h <= h /\ s <= s + 1 /\ h <= s
        BY <1>1
    <2> QED BY <1>1, <1>2, <2>1, <2>2, <2>3, WindowSkip
<1>4. h \in 0 .. s + 1
    BY <1>1
<1> QED BY <1>2, <1>3, <1>4 DEF RxOf

\* the first byte of the TX FIFO is the next event
LEMMA TxMoves ==
    ASSUME NEW n \in Nat, NEW d \in [1 .. n -> Item], NEW B, NEW T, Script(n, d, B, T),
           Len(T) \in Nat, NEW s, NEW t \in TxFifo, t # <<>>,
           TxOf(n, d, T, s, t), Upcoming(T, s, "WRITE")
    PROVE  TxOf(n, d, T, s + 1, Tail(t)) /\ T[s + 1] = WriteEvent(Head(t))
<1>1. s \in Nat /\ s + 1 \in 1 .. Len(T) /\ T[s + 1].ev = "WRITE" /\ s + 1 \in Nat
    BY DEF Upcoming
<1>2. t \in Seq(TxByte) /\ Len(t) \in Nat /\ Len(t) > 0 /\ Head(t) = t[1]
    BY DEF TxFifo
<1>3. /\ \A q \in 1 .. n : d[q].rw = 1
      /\ \A j \in 1 .. Len(t) : t[j].b < 0 => t[j].rw = 1
    BY DEF TxOf
<1>4. PICK g \in s .. Len(T) : PutUpTo(T, d, g) /\ Window(T, "WRITE", s, g, t)
    BY DEF TxOf
<1>5. g \in Nat
    BY <1>1
<1>6. /\ s + 1 <= g /\ Matches(T[s + 1], "WRITE", t[1])
      /\ Window(T, "WRITE", s + 1, g, Tail(t))
    BY <1>1, <1>2, <1>4, <1>5, WindowPop
<1>7. /\ Len(Tail(t)) = Len(t) - 1
      /\ \A j \in 1 .. Len(Tail(t)) : Tail(t)[j] = t[j + 1] /\ j + 1 \in 1 .. Len(t)
    BY <1>2
<1>8. \A j \in 1 .. Len(Tail(t)) : Tail(t)[j].b < 0 => Tail(t)[j].rw = 1
    BY <1>3, <1>7
<1>9. g \in s + 1 .. Len(T)
    BY <1>1, <1>5, <1>6
<1>10. TxOf(n, d, T, s + 1, Tail(t))
    BY <1>3, <1>4, <1>6, <1>8, <1>9 DEF TxOf
<1>11. T[s + 1] = Event("WRITE", T[s + 1].q, T[s + 1].b, FALSE)
    <2>1. Plain(T[s + 1])
        BY <1>1, EventPlain
    <2> QED BY <1>1, <2>1 DEF Plain
<1>12. T[s + 1].q = t[1].q /\ T[s + 1].b = t[1].b
    BY <1>6 DEF Matches
<1>13. t[1].b < 0 => t[1].rw = 1
    BY <1>2, <1>3
<1>14. WriteEvent(t[1]) = Event("WRITE", t[1].q, t[1].b, FALSE)
    BY <1>13 DEF WriteEvent
<1> QED BY <1>2, <1>10, <1>11, <1>12, <1>14

\* the byte that the slave sends is the next event
LEMMA RxMoves ==
    ASSUME NEW d, NEW T, Len(T) \in Nat, NEW s, NEW X, NEW r \in Seq(X), RxOf(T, d, s, r),
           Upcoming(T, s, "READ"), NEW y, y = [q |-> T[s + 1].q, b |-> T[s + 1].b]
    PROVE  RxOf(T, d, s + 1, Append(r, y))
<1>1. s \in Nat /\ s + 1 \in 1 .. Len(T) /\ T[s + 1].ev = "READ"
    BY DEF Upcoming
<1>2. \A j \in 1 .. Len(r) : r[j] = [q |-> r[j].q, b |-> r[j].b]
    BY DEF RxOf
<1>3. PICK h \in 0 .. s : StoredUpTo(T, d, h) /\ Window(T, "READ", h, s, r)
    BY DEF RxOf
<1> DEFINE Y == X \cup {y}
           u == Append(r, y)
<1>4. r \in Seq(Y) /\ <<y>> \in Seq(Y) /\ Len(<<y>>) = 1 /\ <<y>>[1] = y
    <2>1. X \subseteq Y /\ y \in Y
        OBVIOUS
    <2>2. Len(r) \in Nat /\ r \in [1 .. Len(r) -> X]
        OBVIOUS
    <2>3. r \in [1 .. Len(r) -> Y]
        BY <2>1, <2>2
    <2> HIDE DEF Y
    <2>4. r \in Seq(Y)
        BY <2>2, <2>3, Listing
    <2> QED BY <2>1, <2>4
<1>5. u = r \o <<y>> /\ Len(u) = Len(r) + 1
      /\ \A j \in 1 .. Len(r) : u[j] = r[j]
      /\ u[Len(r) + 1] = y
    <2>1. r \in Seq(Y) /\ y \in Y
        BY <1>4
    <2> HIDE DEF Y
    <2>2. u = r \o <<y>>
        BY ONLY <2>1
    <2>3. Len(u) = Len(r) + 1 /\ u[Len(r) + 1] = y
        BY ONLY <2>1
    <2>4. \A j \in 1 .. Len(r) : u[j] = r[j]
        BY ONLY <2>1
    <2> QED BY ONLY <2>2, <2>3, <2>4
<1> HIDE DEF Y, u
<1>6. Window(T, "READ", h, s + Len(<<y>>), r \o <<y>>)
    <2>1. \A i \in 1 .. Len(<<y>>) : Matches(T[s + i], "READ", <<y>>[i])
        <3>1. y.q = T[s + 1].q /\ y.b = T[s + 1].b
            OBVIOUS
        <3> QED BY <1>1, <1>4, <3>1 DEF Matches
    <2>2. h \in Nat /\ h <= s
        BY <1>1
    <2> QED BY <1>1, <1>3, <1>4, <2>1, <2>2, WindowPush
<1>7. Window(T, "READ", h, s + 1, u)
    BY <1>4, <1>5, <1>6
<1>8. \A j \in 1 .. Len(u) : u[j] = [q |-> u[j].q, b |-> u[j].b]
    <2>1. Len(r) \in Nat
        OBVIOUS
    <2>2. y = [q |-> y.q, b |-> y.b]
        OBVIOUS
    <2> TAKE j \in 1 .. Len(u)
    <2>3. j \in 1 .. Len(r) \/ j = Len(r) + 1
        BY <1>5, <2>1
    <2> QED BY <1>2, <1>5, <2>2, <2>3
<1>9. h \in 0 .. s + 1
    BY <1>1
<1> QED BY <1>3, <1>7, <1>8, <1>9 DEF RxOf, u

-----------------------------------------------------------------------------
(* What changes of the queue leaves the FIFOs with the bytes they have.     *)

\* as far as the bytes to send are concerned
SamePuts(n, d, e) ==
    \A q \in 1 .. n : /\ e[q].mode = d[q].mode /\ e[q].addrReq = d[q].addrReq
                      /\ e[q].addrSent = d[q].addrSent /\ e[q].rw = d[q].rw
                      /\ d[q].mode = "WRITE" => e[q].position = d[q].position

LEMMA PutSame ==
    ASSUME NEW n \in Nat, NEW d \in [1 .. n -> Item], NEW B, NEW T, Script(n, d, B, T),
           NEW e, SamePuts(n, d, e), NEW i \in 1 .. Len(T), T[i].ev = "WRITE"
    PROVE  Put(e, T[i]) <=> Put(d, T[i])
<1>1. PICK p \in 1 .. n : \E k \in 1 .. Size(d[p]) : i = B[p] + k
    BY DEF Script
<1>2. PICK j \in 1 .. Size(d[p]) : i = B[p] + j
    BY <1>1
<1>3. T[B[p] + j].ev = "WRITE"
    BY <1>2
<1>4. LET w == T[B[p] + j]
          x == d[p]
      IN  /\ w.q = p
          /\ j <= 1 + x.addrReq => w.b < 0
          /\ j > 1 + x.addrReq => ~(w.b < 0) /\ x.mode = "WRITE"
    BY <1>2, <1>3, PutOf
<1>5. T[i].q = p /\ (~(T[i].b < 0) => d[p].mode = "WRITE")
    <2>1. d[p].addrReq \in Nat /\ j \in Nat
        <3>1. d[p] \in Item /\ Size(d[p]) \in Nat
            BY ScriptFits
        <3> QED BY <1>2, <3>1, ItemTyped
    <2>2. j <= 1 + d[p].addrReq \/ j > 1 + d[p].addrReq
        BY <2>1
    <2> QED BY <1>2, <1>4, <2>2
<1>6. e[p].addrSent = d[p].addrSent /\ e[p].addrReq = d[p].addrReq
    BY DEF SamePuts
<1>7. ~(T[i].b < 0) => e[p].position = d[p].position
    BY <1>5 DEF SamePuts
<1> QED BY <1>5, <1>6, <1>7 DEF Put

LEMMA TxSame ==
    ASSUME NEW n \in Nat, NEW d \in [1 .. n -> Item], NEW B, NEW T, Script(n, d, B, T),
           NEW e, SamePuts(n, d, e), NEW s, NEW t, TxOf(n, d, T, s, t)
    PROVE  TxOf(n, e, T, s, t)
<1>1. /\ \A q \in 1 .. n : d[q].rw = 1
      /\ \A j \in 1 .. Len(t) : t[j].b < 0 => t[j].rw = 1
    BY DEF TxOf
<1>2. \A q \in 1 .. n : e[q].rw = 1
    BY <1>1 DEF SamePuts
<1>3. PICK g \in s .. Len(T) : PutUpTo(T, d, g) /\ Window(T, "WRITE", s, g, t)
    BY DEF TxOf
<1>4. \A i \in 1 .. Len(T) : T[i].ev = "WRITE" => (Put(e, T[i]) <=> Put(d, T[i]))
    BY PutSame
<1>5. PutUpTo(T, e, g)
    BY <1>3, <1>4 DEF PutUpTo
<1> QED BY <1>1, <1>2, <1>3, <1>5 DEF TxOf

LEMMA RxSame ==
    ASSUME NEW n \in Nat, NEW d \in [1 .. n -> Item], NEW B, NEW T, Script(n, d, B, T),
           NEW e, \A q \in 1 .. n : d[q].mode = "READ" => e[q].position = d[q].position,
           NEW s, NEW r, RxOf(T, d, s, r)
    PROVE  RxOf(T, e, s, r)
<1>1. \A j \in 1 .. Len(r) : r[j] = [q |-> r[j].q, b |-> r[j].b]
    BY DEF RxOf
<1>2. PICK h \in 0 .. s : StoredUpTo(T, d, h) /\ Window(T, "READ", h, s, r)
    BY DEF RxOf
<1>3. ASSUME NEW i \in 1 .. Len(T), T[i].ev = "READ"
      PROVE  e[T[i].q].position = d[T[i].q].position
    <2>1. PICK p \in 1 .. n : \E k \in 1 .. Size(d[p]) : i = B[p] + k
        BY DEF Script
    <2>2. PICK j \in 1 .. Size(d[p]) : i = B[p] + j
        BY <2>1
    <2>3. T[B[p] + j].ev = "READ"
        BY <1>3, <2>2
    <2>4. IsReadOf(T[B[p] + j], d[p], p, j)
        BY <2>2, <2>3, ReadOf
    <2>5. T[i].q = p /\ d[p].mode = "READ"
        BY <2>2, <2>4 DEF IsReadOf
    <2> QED BY <2>5
<1>4. StoredUpTo(T, e, h)
    BY <1>2, <1>3 DEF StoredUpTo
<1> QED BY <1>1, <1>2, <1>4 DEF RxOf

\* filling the list moves no byte
LEMMA FillingSame ==
    ASSUME NEW n \in Nat, NEW d \in [1 .. n -> Item], NEW B, NEW T, Script(n, d, B, T),
           NEW e, Continues(n, d, e), NEW s, NEW t, NEW r, NEW p,
           TxOf(n, d, T, s, t), RxOf(T, d, s, r), PlaceOf(n, d, p)
    PROVE  TxOf(n, e, T, s, t) /\ RxOf(T, e, s, r) /\ PlaceOf(n, e, p)
<1>1. \A q \in 1 .. n : Alike(d[q], e[q])
    BY DEF Continues
<1>2. SamePuts(n, d, e)
    BY <1>1 DEF Alike, SamePuts
<1>3. \A q \in 1 .. n : d[q].mode = "READ" => e[q].position = d[q].position
    BY <1>1 DEF Alike
<1>4. PlaceOf(n, e, p)
    <2>1. p \in 1 .. n
        BY DEF PlaceOf, AtPlace
    <2>2. \A q \in 1 .. n : /\ e[q].position = d[q].position /\ e[q].length = d[q].length
                            /\ e[q].mode = d[q].mode /\ e[q].addrSent = d[q].addrSent
                            /\ e[q].addrReq = d[q].addrReq
                            /\ d[q].stopCmdSent => e[q].stopCmdSent
        BY <1>1 DEF Alike
    <2>3. AtPlace(n, e, p)
        BY <2>1, <2>2 DEF PlaceOf, AtPlace
    <2> QED BY <2>2, <2>3 DEF PlaceOf
<1>5. TxOf(n, e, T, s, t)
    BY <1>2, TxSame
<1>6. RxOf(T, e, s, r)
    BY <1>3, RxSame
<1> QED BY <1>4, <1>5, <1>6

\* what fillTxFifo and emptyRxFifo leave
LEMMA TxFilled ==
    ASSUME NEW n \in Nat, NEW d \in [1 .. n -> Item], d \in Seq(Item), Len(d) = n,
           NEW B, NEW T, Len(T) \in Nat, Script(n, d, B, T), NEW s \in Nat,
           NEW t \in TxFifo, NEW r, NEW p, InFifos(n, d, T, s, t, r, p),
           NEW u, u = fillTxFifo(d, p, t),
           \A q \in 1 .. n : q < u.queuePos => u.dq[q].stopCmdSent
    PROVE  /\ InFifos(n, u.dq, T, s, u.tx, r, u.queuePos) /\ SameFlags(n, d, u.dq)
           /\ u.at > n => \A q \in 1 .. n : EntryPut(u.dq[q])
<1> DEFINE b == [dq |-> d, queuePos |-> p, tx |-> t, met |-> FALSE, at |-> p]
<1>1. b \in Fills(n, d, B, T, s)
    <2>1. /\ AtPlace(n, d, p)
          /\ \A q \in 1 .. n : q < p => d[q].addrSent = d[q].addrReq
        BY DEF InFifos, PlaceOf
    <2>2. /\ \A q \in 1 .. n : d[q].rw = 1
          /\ \A j \in 1 .. Len(t) : t[j].b < 0 => t[j].rw = 1
          /\ \E g \in s .. Len(T) : PutUpTo(T, d, g) /\ Window(T, "WRITE", s, g, t)
        BY DEF InFifos, TxOf
    <2> QED BY <2>1, <2>2, FillsFrom
<1>2. u \in Fills(n, d, B, T, s)
    BY <1>1, fillTxFifoFills
<1>3. /\ SameFlags(n, d, u.dq)
      /\ \A q \in 1 .. n : d[q].mode = "READ" => u.dq[q].position = d[q].position
      /\ AtPlace(n, u.dq, u.queuePos)
      /\ \A q \in 1 .. n : q < u.queuePos => u.dq[q].addrSent = u.dq[q].addrReq
      /\ \A q \in 1 .. n : u.dq[q].rw = 1
      /\ \A j \in 1 .. Len(u.tx) : u.tx[j].b < 0 => u.tx[j].rw = 1
      /\ \E g \in s .. Len(T) : PutUpTo(T, u.dq, g) /\ Window(T, "WRITE", s, g, u.tx)
      /\ u.at > n => \A q \in 1 .. n : EntryPut(u.dq[q])
    BY <1>2, FillsTo
<1>4. TxOf(n, u.dq, T, s, u.tx)
    BY <1>3 DEF TxOf
<1>5. RxOf(T, u.dq, s, r)
    <2>1. RxOf(T, d, s, r)
        BY DEF InFifos
    <2> QED BY <1>3, <2>1, RxSame
<1>6. PlaceOf(n, u.dq, u.queuePos)
    BY <1>3 DEF PlaceOf
<1> QED BY <1>3, <1>4, <1>5, <1>6 DEF InFifos

LEMMA RxEmptied ==
    ASSUME NEW n \in Nat \ {0}, NEW d \in [1 .. n -> Item],
           NEW B, NEW T, Len(T) \in Nat, Script(n, d, B, T), NEW s \in 0 .. Len(T),
           NEW t, NEW X, NEW r \in RxFifo(X), NEW p, InFifos(n, d, T, s, t, r, p),
           NEW c, NEW h, NEW i, ListOf(n, d, B, T, s, c, h, i),
           NEW u, u = emptyRxFifo([dq |-> d, queuePos |-> p, rx |-> r, misplaced |-> FALSE])
    PROVE  /\ InFifos(n, u.dq, T, s, t, u.rx, u.queuePos) /\ SameFlags(n, d, u.dq)
           /\ SamePuts(n, d, u.dq) /\ ~u.misplaced /\ u.rx = <<>>
<1> DEFINE b == [dq |-> d, queuePos |-> p, rx |-> r, misplaced |-> FALSE]
<1>1. TxOf(n, d, T, s, t) /\ RxOf(T, d, s, r) /\ PlaceOf(n, d, p)
    BY DEF InFifos
<1>2. s \in Nat
    OBVIOUS
<1>3. Arrived(n, d, B, T, s)
    <2>1. \A j \in 1 .. s : T[j].ev = "WRITE" => Put(d, T[j])
        <3>1. PICK g \in s .. Len(T) : PutUpTo(T, d, g)
            BY <1>1 DEF TxOf
        <3> TAKE j \in 1 .. s
        <3>2. j \in 1 .. Len(T) /\ j <= g
            BY <1>2, <3>1
        <3> QED BY <3>1, <3>2 DEF PutUpTo
    <2>2. \A q \in 1 .. n : B[q] < s => \A o \in 1 .. n : o < q => d[o].stopCmdSent
        BY <1>2, ListArrives
    <2> QED BY <2>1, <2>2 DEF Arrived
<1>4. b \in Stores(n, X, d, B, T, s)
    <2>1. b \in Storing(n, X)
        <3>1. p \in 1 .. n + 1
            BY <1>1 DEF PlaceOf, AtPlace
        <3> QED BY <3>1 DEF Storing
    <2>2. b.dq = d /\ b.queuePos = p /\ b.rx = r /\ b.misplaced = FALSE
        OBVIOUS
    <2> HIDE DEF b
    <2>3. n \in Nat
        OBVIOUS
    <2>4. SameFlags(n, d, b.dq) /\ AtPlace(n, b.dq, b.queuePos)
        BY <1>1, <2>2, <2>3, MovesItself DEF PlaceOf
    <2>5. \A q \in 1 .. n : q < b.queuePos => d[q].addrSent = d[q].addrReq /\ d[q].stopCmdSent
        BY <1>1, <2>2 DEF PlaceOf
    <2>6. /\ \A j \in 1 .. Len(b.rx) : b.rx[j] = [q |-> b.rx[j].q, b |-> b.rx[j].b]
          /\ \E x \in 0 .. s : StoredUpTo(T, b.dq, x) /\ Window(T, "READ", x, s, b.rx)
        BY <1>1, <2>2 DEF RxOf
    <2> QED BY <2>1, <2>2, <2>4, <2>5, <2>6 DEF Stores
<1>5. u \in Stores(n, X, d, B, T, s) /\ u.rx = <<>>
    <2>1. emptyRxFifo(b) \in Stores(n, X, d, B, T, s) /\ emptyRxFifo(b).rx = <<>>
        <3> HIDE DEF b
        <3>1. n \in Nat
            OBVIOUS
        <3> QED BY <1>3, <1>4, <3>1, emptyRxFifoStores
    <2> QED BY <2>1
<1>6. /\ SameFlags(n, d, u.dq) /\ ~u.misplaced
      /\ \A q \in 1 .. n : /\ u.dq[q].addrSent = d[q].addrSent
                           /\ d[q].mode = "WRITE" => u.dq[q].position = d[q].position
      /\ AtPlace(n, u.dq, u.queuePos)
      /\ \A q \in 1 .. n : q < u.queuePos => d[q].addrSent = d[q].addrReq /\ d[q].stopCmdSent
      /\ \A j \in 1 .. Len(u.rx) : u.rx[j] = [q |-> u.rx[j].q, b |-> u.rx[j].b]
      /\ \E x \in 0 .. s : StoredUpTo(T, u.dq, x) /\ Window(T, "READ", x, s, u.rx)
    BY <1>5 DEF Stores
<1>7. SamePuts(n, d, u.dq)
    BY <1>6 DEF SamePuts, SameFlags, Moves
<1>8. TxOf(n, u.dq, T, s, t)
    BY <1>1, <1>7, TxSame
<1>9. RxOf(T, u.dq, s, u.rx)
    BY <1>6 DEF RxOf
<1>10. PlaceOf(n, u.dq, u.queuePos)
    <2>1. \A q \in 1 .. n : /\ u.dq[q].addrReq = d[q].addrReq
                            /\ u.dq[q].stopCmdSent = d[q].stopCmdSent
        BY <1>6 DEF SameFlags, Moves
    <2> QED BY <1>6, <2>1 DEF PlaceOf
<1> QED BY <1>5, <1>6, <1>7, <1>8, <1>9, <1>10 DEF InFifos

-----------------------------------------------------------------------------
(* What is so when the whole script was on the bus.                         *)

LEMMA AllSent ==
    ASSUME NEW n \in Nat, NEW d \in [1 .. n -> Item], NEW B, NEW T, Len(T) \in Nat,
           Script(n, d, B, T), NEW t, TxOf(n, d, T, Len(T), t), NEW q \in 1 .. n
    PROVE  d[q].addrSent = d[q].addrReq /\ (d[q].mode = "WRITE" => d[q].position = d[q].length)
<1>1. \A i \in 1 .. Len(T) + 1 - 1 : T[i].ev = "WRITE" => Put(d, T[i])
    <2>1. PICK g \in Len(T) .. Len(T) : PutUpTo(T, d, g)
        BY DEF TxOf
    <2> TAKE i \in 1 .. Len(T) + 1 - 1
    <2>2. i \in 1 .. Len(T) /\ i <= g
        BY <2>1
    <2> QED BY <2>1, <2>2 DEF PutUpTo
<1> DEFINE m == Len(T) + 1
<1>2. m \in Nat /\ B[q] + Size(d[q]) < m
    <2>1. /\ B[q] \in Nat /\ Size(d[q]) \in Nat /\ Len(T) \in Nat
          /\ B[q] + Size(d[q]) <= Len(T)
        BY ScriptFits
    <2> QED BY ONLY <2>1
<1>3. \A i \in 1 .. m - 1 : T[i].ev = "WRITE" => Put(d, T[i])
    BY <1>1
<1> HIDE DEF m
<1> QED BY <1>2, <1>3, WritesBefore

LEMMA AllStored ==
    ASSUME NEW n \in Nat, NEW d \in [1 .. n -> Item], NEW B, NEW T, Len(T) \in Nat,
           Script(n, d, B, T), RxOf(T, d, Len(T), <<>>), NEW q \in 1 .. n
    PROVE  d[q].mode = "READ" => d[q].position = d[q].length
<1>1. \A i \in 1 .. Len(T) + 1 - 1 : T[i].ev = "READ" => T[i].b < d[T[i].q].position
    <2>1. PICK h \in 0 .. Len(T) : StoredUpTo(T, d, h) /\ Window(T, "READ", h, Len(T), <<>>)
        BY DEF RxOf
    <2>2. \A m \in h + 1 .. Len(T) : T[m].ev # "READ"
        <3>1. \A j \in 1 .. Len(<<>>) : FALSE
            OBVIOUS
        <3> QED BY <2>1, <3>1 DEF Window
    <2> TAKE i \in 1 .. Len(T) + 1 - 1
    <2>3. i \in 1 .. Len(T)
        OBVIOUS
    <2>4. i <= h \/ i \in h + 1 .. Len(T)
        BY <2>1, <2>3
    <2> QED BY <2>1, <2>2, <2>3, <2>4 DEF StoredUpTo
<1> DEFINE m == Len(T) + 1
<1>2. m \in Nat /\ B[q] + Size(d[q]) < m
    <2>1. /\ B[q] \in Nat /\ Size(d[q]) \in Nat /\ Len(T) \in Nat
          /\ B[q] + Size(d[q]) <= Len(T)
        BY ScriptFits
    <2> QED BY ONLY <2>1
<1>3. \A i \in 1 .. m - 1 : T[i].ev = "READ" => T[i].b < d[T[i].q].position
    BY <1>1
<1> HIDE DEF m
<1> QED BY <1>2, <1>3, ReadsBefore

\* there is a read only where the handler would look for it
LEMMA AllMoved ==
    ASSUME NEW n \in Nat, NEW d \in [1 .. n -> Item], NEW B, NEW T, Len(T) \in Nat,
           Script(n, d, B, T), NEW t, TxOf(n, d, T, Len(T), t), NEW p, PlaceOf(n, d, p),
           d[p].mode # "READ" \/ RxOf(T, d, Len(T), <<>>)
    PROVE  \A q \in 1 .. n : d[q].position = d[q].length
<1> TAKE q \in 1 .. n
<1>1. /\ d[q].addrSent = d[q].addrReq
      /\ d[q].mode = "WRITE" => d[q].position = d[q].length
    BY AllSent
<1>2. d[q].addrReq > 0 /\ d[q].mode \in {"READ", "WRITE"}
    <2>1. d[q] \in Item
        OBVIOUS
    <2>2. d[q].addrReq \in {1, 2} /\ d[q].mode \in {"READ", "WRITE"}
        BY <2>1, ItemTyped
    <2> QED BY <2>2
<1>3. CASE d[p].mode # "READ"
    <2>1. d[q].mode = "READ" /\ d[q].addrSent > 0 => d[p].mode = "READ"
        BY DEF PlaceOf, AtPlace
    <2> QED BY <1>1, <1>2, <1>3, <2>1
<1>4. CASE RxOf(T, d, Len(T), <<>>)
    <2>1. d[q].mode = "READ" => d[q].position = d[q].length
        BY <1>4, AllStored
    <2> QED BY <1>1, <1>2, <2>1
<1> QED BY <1>3, <1>4

-----------------------------------------------------------------------------
(* The transfer of the queue.                                               *)

LEMMA AskedIs == Transfer[Len(dq)] = Asked
BY DEF Transfer, TransferOf, Asked

LEMMA Scripted ==
    ASSUME TypeInv, Before
    PROVE  /\ Len(dq) \in Nat /\ Len(dq) <= MaxEntries /\ dq \in [1 .. Len(dq) -> Item]
           /\ dq \in Seq(Item)
           /\ Script(Len(dq), dq, Base, Asked) /\ Len(Asked) \in Nat
           /\ pc # "idle" => OnlyLastStops(Len(dq), dq) /\ Len(dq) \in Nat \ {0}
<1>1. Len(dq) \in Nat /\ dq \in [1 .. Len(dq) -> Item] /\ dq \in Seq(Item)
    BY QueueTyped DEF TypeInv
<1>2. Len(dq) <= MaxEntries /\ (pc # "idle" => OnlyLastStops(Len(dq), dq))
    BY DEF Before
<1>3. Script(Len(dq), dq, Base, Asked) /\ Asked \in Seq(EventSet)
    BY <1>1, <1>2, ScriptOf DEF Base, Asked
<1>4. Len(Asked) \in Nat
    BY <1>3
<1>5. OnlyLastStops(Len(dq), dq) => Len(dq) # 0
    BY DEF OnlyLastStops
<1> QED BY <1>1, <1>2, <1>3, <1>4, <1>5

LEMMA ScriptHeld ==
    ASSUME TypeInv, Before, dq' = dq
    PROVE  Asked' = Asked /\ Base' = Base /\ Len(dq)' = Len(dq)
BY DEF Asked, Base

LEMMA ScriptKept ==
    ASSUME TypeInv, Before, Len(dq)' = Len(dq), NEW d, d = dq', d \in [1 .. Len(dq) -> Item],
           Static(Len(dq), dq, d)
    PROVE  Asked' = Asked /\ Base' = Base
<1> DEFINE n == Len(dq)
           e == dq
<1>1. n \in Nat /\ n <= MaxEntries /\ e \in [1 .. n -> Item]
    BY Scripted
<1> HIDE DEF n, e
<1>2. d \in [1 .. n -> Item] /\ Static(n, e, d)
    BY DEF n, e
<1>3. TransferOf(d)[n] = TransferOf(e)[n] /\ Bases(n, d) = Bases(n, e)
    BY <1>1, <1>2, ScriptStays
<1>4. Asked = TransferOf(e)[n] /\ Base = Bases(n, e)
    BY DEF Asked, Base, n, e
<1>5. Asked' = TransferOf(d)[n] /\ Base' = Bases(n, d)
    BY DEF Asked, Base, n
<1> QED BY <1>3, <1>4, <1>5

-----------------------------------------------------------------------------
(* What the queue is before it is prepared.                                 *)

\* flags are only set
LEMMA BeforeMoves ==
    ASSUME TypeInv, Before, Len(dq)' = Len(dq), NEW d, d = dq', d \in [1 .. Len(dq) -> Item],
           \A q \in 1 .. Len(dq) : /\ d[q].stop = dq[q].stop
                                   /\ dq[q].startCmdSent => d[q].startCmdSent,
           pc' = pc, mishaps \subseteq mishaps', ~Unserved
    PROVE  Before'
<1> DEFINE n == Len(dq)
<1>1. n \in Nat /\ n <= MaxEntries /\ DOMAIN dq = 1 .. n /\ DOMAIN d = 1 .. n
      /\ (pc # "idle" => OnlyLastStops(n, dq) /\ n # 0)
    BY Scripted, QueueTyped
<1>2. Len(dq)' <= MaxEntries
    BY <1>1
<1>3. pc' # "idle" => OnlyLastStops(Len(dq)', d)
    BY <1>1 DEF OnlyLastStops
<1>4. pc' = "idle" => \A q \in DOMAIN d : ~d[q].stop
    BY <1>1 DEF Before
<1>5. ASSUME "late" \notin mishaps'
      PROVE  /\ pc' = "idle" => d = <<>>
             /\ pc' # "idle" => d[1].startCmdSent
    <2>1. "late" \notin mishaps
        BY <1>5
    <2>2. pc = "idle" => dq = <<>>
        BY <2>1 DEF Before
    <2>3. pc # "idle" => dq[1].startCmdSent
        BY <2>1 DEF Before
    <2>4. pc = "idle" => n = 0
        BY <2>2
    <2>5. n = 0 => d = <<>>
        <3>1. d = dq' /\ Len(dq)' = n
            OBVIOUS
        <3> SUFFICES ASSUME n = 0 PROVE d = <<>>
            OBVIOUS
        <3>2. d \in [1 .. 0 -> Item] /\ 1 .. 0 = {}
            OBVIOUS
        <3> QED BY <3>2
    <2>6. pc # "idle" => 1 \in 1 .. n
        BY <1>1
    <2> QED BY <2>3, <2>4, <2>5, <2>6
<1> QED BY <1>2, <1>3, <1>4, <1>5 DEF Before

LEMMA BeforeStays ==
    ASSUME Before, dq' = dq, pc' = pc, mishaps \subseteq mishaps', Unserved => Unserved'
    PROVE  Before'
<1>1. "late" \notin mishaps' => "late" \notin mishaps
    OBVIOUS
<1> QED BY <1>1 DEF Before

-----------------------------------------------------------------------------
(* The controller.                                                          *)

LEMMA CurrentTyped ==
    ASSUME TypeInv, hw \in HwState, hw.ip < Slots
    PROVE  Current \in Command /\ Current = command[hw.ip] /\ Current.num \in Nat
<1>1. hw.ip \in 0 .. Slots - 1
    BY CommandsAssumption DEF HwState
<1>2. command \in CommandList
    BY DEF TypeInv
<1>3. command[hw.ip] \in Command
    BY <1>1, <1>2 DEF CommandList
<1>4. command[hw.ip].num \in Nat
    BY <1>3 DEF Command
<1> QED BY <1>3, <1>4 DEF Current

LEMMA StepIs ==
    ASSUME NEW num
    PROVE  Step(num) = NextHw(hw, num)
BY DEF Step, NextHw

LEMMA HwTyped ==
    ASSUME TypeInv, hw \in HwState, [Next]_vars
    PROVE  hw' \in HwState
<1>1. Stopped \in HwState /\ Ready \in HwState /\ [run |-> TRUE, ip |-> 0, k |-> 0] \in HwState
    BY DEF Stopped, Ready, HwState
<1>2. CASE Caller
    <2>1. hw' \in {hw, Stopped, [run |-> TRUE, ip |-> 0, k |-> 0]}
        BY <1>2 DEF Caller, AddQueue, BusBusy, Prepare, Launch, WaitEnds, Judge, Reinit, i2cFlush,
                    hwVars
    <2> QED BY <1>1, <2>1
<1>3. CASE Handler
    <2>1. hw' \in {hw, Stopped, [run |-> TRUE, ip |-> 0, k |-> 0]}
        BY <1>3 DEF Handler, IsrEnter, IsrTransStart, IsrTxEmpty, IsrRxFull, IsrAckErr,
                    IsrTransComplete, IsrArbitration, IsrEndDetect, i2cIsrExit
    <2> QED BY <1>1, <2>1
<1>4. CASE TimerTask
    BY <1>4 DEF TimerTask, hwVars
<1>5. CASE Controller
    <2>1. CASE HwFault
        BY <1>1, <2>1 DEF HwFault
    <2>2. CASE Execute
        <3>1. Current.num \in Nat
            BY <2>2, CurrentTyped DEF Execute
        <3>2. Step(1) \in HwState /\ Step(Current.num) \in HwState
            <4>1. 1 \in Nat
                OBVIOUS
            <4> QED BY <3>1, <4>1, StepIs, NextHwTyped
        <3>3. [hw EXCEPT !.run = FALSE] \in HwState
            BY DEF HwState
        <3>4. hw' \in {Step(1), Step(Current.num), Stopped, [hw EXCEPT !.run = FALSE]}
            BY <2>2 DEF Execute, HwStart, HwWrite, HwRead, HwDummy, HwStop, HwEnd
        <3> QED BY <1>1, <3>2, <3>3, <3>4
    <2> QED BY <1>5, <2>1, <2>2 DEF Controller
<1>6. CASE UNCHANGED vars
    BY <1>6 DEF vars, hwVars
<1> QED BY <1>2, <1>3, <1>4, <1>5, <1>6 DEF Next

\* the event that comes is the next of the script
LEMMA OnBusRight ==
    ASSUME ~garbled, NEW ev, Upcoming(Asked, sent, ev), Len(Asked) \in Nat,
           NEW event, Asked[sent + 1] = event, OnBus(event)
    PROVE  sent' = sent + 1 /\ ~garbled' /\ sent + 1 \in 0 .. Len(Asked)
<1>1. sent \in Nat /\ sent + 1 \in 1 .. Len(Asked)
    BY DEF Upcoming
<1>2. ~garbled /\ sent < Len(Asked) /\ Asked[sent + 1] = event
    BY <1>1
<1>3. sent' = sent + 1 /\ UNCHANGED garbled
    BY <1>2, AskedIs DEF OnBus
<1> QED BY <1>1, <1>3

\* what is so while it works
Working ==
    /\ TypeInv /\ hw \in HwState /\ Before /\ InStep /\ pc # "idle"
    /\ hw.run /\ UNCHANGED Driver

LEMMA WorkingIs ==
    ASSUME Working
    PROVE  /\ pc # "start" /\ HwNow = hw /\ Found = raw \cup active
           /\ exitCode # "OK"
           /\ ~garbled /\ ~misplaced /\ sent \in 0 .. Len(Asked)
           /\ InFifos(Len(dq), dq, Asked, sent, tx, rx, queuePos)
           /\ ListOf(Len(dq), dq, Base, Asked, sent, command, hw, raw \cup active)
           /\ Len(Asked) \in Nat /\ command \in CommandList
<1>1. Exits
    BY DEF Working, InStep
<1>2. pc # "start" /\ exitCode # "OK"
    BY <1>1 DEF Working, Exits, Frozen
<1>3. HwNow = hw /\ Found = raw \cup active
    BY <1>2 DEF HwNow, Found
<1>4. Len(Asked) \in Nat /\ command \in CommandList
    BY Scripted DEF Working, TypeInv
<1>5. /\ ~garbled /\ ~misplaced /\ sent \in 0 .. Len(Asked)
      /\ InFifos(Len(dq), dq, Asked, sent, tx, rx, queuePos)
      /\ ListOf(Len(dq), dq, Base, Asked, sent, command, HwNow, Found)
    BY DEF Working, InStep
<1> QED BY <1>2, <1>3, <1>4, <1>5

LEMMA WorkingOn ==
    ASSUME Working, ~garbled', sent' \in 0 .. Len(Asked),
           InFifos(Len(dq), dq, Asked, sent', tx', rx', queuePos),
           ListOf(Len(dq), dq, Base, Asked, sent', command, hw', raw' \cup active)
    PROVE  InStep'
<1>1. /\ dq' = dq /\ queuePos' = queuePos /\ command' = command /\ pc' = pc
      /\ exitCode' = exitCode /\ active' = active /\ stage' = stage /\ ena' = ena
      /\ misplaced' = misplaced
    BY DEF Working, Driver, taskVars, isrVars
<1>2. Asked' = Asked /\ Base' = Base /\ Len(dq)' = Len(dq)
    BY <1>1, ScriptHeld DEF Working
<1>3. pc # "start" /\ exitCode # "OK" /\ ~misplaced
    BY WorkingIs
<1>4. HwNow' = hw' /\ Found' = raw' \cup active
    BY <1>1, <1>3 DEF HwNow, Found
<1>5. Exits'
    <2>1. exitCode # "none" => active = {} /\ ena = {}
        BY DEF Working, InStep, Exits
    <2> QED BY <1>1, <1>3, <2>1 DEF Exits
<1>6. ~misplaced'
    BY <1>1, <1>3
<1>7. InFifos(Len(dq), dq, Asked, sent, tx, rx, queuePos)'
    BY <1>1, <1>2
<1>8. ListOf(Len(dq), dq, Base, Asked, sent, command, HwNow, Found)'
    BY <1>1, <1>2, <1>4
<1>9. (sent \in 0 .. Len(Asked))'
    BY <1>2
<1> QED BY <1>5, <1>6, <1>7, <1>8, <1>9 DEF InStep

\* an event that is no byte
LEMMA WorkingPasses ==
    ASSUME Working, NEW ev, ev # "READ", ev # "WRITE", Upcoming(Asked, sent, ev), rx' = rx, tx' = tx
    PROVE  InFifos(Len(dq), dq, Asked, sent + 1, tx', rx', queuePos)
<1>1. TxOf(Len(dq), dq, Asked, sent, tx) /\ RxOf(Asked, dq, sent, rx) /\ PlaceOf(Len(dq), dq, queuePos)
    BY WorkingIs DEF InFifos
<1>2. Len(tx) \in Nat /\ Len(rx) \in Nat
    BY DEF Working, TypeInv, TxFifo, RxFifo
<1>3. Len(Asked) \in Nat
    BY WorkingIs
<1>4. TxOf(Len(dq), dq, Asked, sent + 1, tx)
    BY <1>1, <1>2, <1>3, TxPasses
<1>5. RxOf(Asked, dq, sent + 1, rx)
    BY <1>1, <1>2, <1>3, RxPasses
<1> QED BY <1>1, <1>4, <1>5 DEF InFifos

LEMMA WorkingPlain ==
    ASSUME Working, NEW ev, Upcoming(Asked, sent, ev)
    PROVE  Plain(Asked[sent + 1])
<1> DEFINE T == Asked
<1>1. sent + 1 \in 1 .. Len(T)
    BY DEF Upcoming
<1>2. Len(dq) \in Nat /\ dq \in [1 .. Len(dq) -> Item] /\ Script(Len(dq), dq, Base, T)
    BY Scripted DEF Working
<1> HIDE DEF T
<1>3. Plain(T[sent + 1])
    BY <1>1, <1>2, EventPlain
<1> QED BY <1>3 DEF T

LEMMA HwStartInStep ==
    ASSUME Working, HwStart, hw.ip < Slots
    PROVE  InStep'
<1> DEFINE T == Asked
           c == command
<1>1. c[hw.ip].op = "RSTART" /\ OnBus(Event("START", 0, 0, FALSE)) /\ hw' = NextHw(hw, 1)
      /\ raw' = raw /\ tx' = tx /\ rx' = rx
    BY StepIs DEF HwStart, Current
<1>2. /\ Len(T) \in Nat /\ c \in CommandList /\ hw \in HwState /\ hw.run
      /\ ListOf(Len(dq), dq, Base, T, sent, c, hw, raw \cup active) /\ ~garbled
    BY WorkingIs DEF Working
<1>3. /\ Upcoming(T, sent, "START")
      /\ ListOf(Len(dq), dq, Base, T, sent + 1, c, NextHw(hw, 1), raw \cup active)
    BY <1>1, <1>2, ListStart
<1>4. T[sent + 1] = Event("START", 0, 0, FALSE)
    <2>1. T[sent + 1].ev = "START" /\ sent + 1 \in 1 .. Len(T)
        BY <1>3 DEF Upcoming
    <2>2. Plain(T[sent + 1])
        BY <1>3, WorkingPlain
    <2> QED BY <2>1, <2>2 DEF Plain
<1>5. sent' = sent + 1 /\ ~garbled' /\ sent + 1 \in 0 .. Len(T)
    BY <1>1, <1>2, <1>3, <1>4, OnBusRight
<1>6. InFifos(Len(dq), dq, T, sent + 1, tx', rx', queuePos)
    BY <1>1, <1>3, WorkingPasses
<1>7. ListOf(Len(dq), dq, Base, T, sent', c, hw', raw' \cup active)
    BY <1>1, <1>3, <1>5
<1>8. InFifos(Len(dq), dq, T, sent', tx', rx', queuePos)
    BY <1>5, <1>6
<1> QED BY <1>5, <1>7, <1>8, WorkingOn

LEMMA HwWriteInStep ==
    ASSUME Working, HwWrite, hw.ip < Slots
    PROVE  InStep'
<1> DEFINE T == Asked
           c == command
           num == c[hw.ip].num
<1>1. /\ c[hw.ip].op = "WRITE" /\ c[hw.ip].num > 0 /\ tx # <<>>
      /\ OnBus(WriteEvent(Head(tx))) /\ tx' = Tail(tx) /\ rx' = rx
      /\ \/ hw' = NextHw(hw, num) /\ raw' = raw
         \/ hw' = Stopped /\ raw' = raw \cup {"ack_err"}
    BY StepIs DEF HwWrite, Current, Latch
<1>2. /\ Len(T) \in Nat /\ c \in CommandList /\ hw \in HwState /\ hw.run
      /\ ListOf(Len(dq), dq, Base, T, sent, c, hw, raw \cup active) /\ ~garbled
      /\ InFifos(Len(dq), dq, T, sent, tx, rx, queuePos)
    BY WorkingIs DEF Working
<1>3. /\ Upcoming(T, sent, "WRITE")
      /\ ListOf(Len(dq), dq, Base, T, sent + 1, c, NextHw(hw, num), raw \cup active)
    <2>1. c[hw.ip].op \in {"READ", "WRITE"}
        BY <1>1
    <2>2. /\ Upcoming(T, sent, c[hw.ip].op)
          /\ ListOf(Len(dq), dq, Base, T, sent + 1, c, NextHw(hw, c[hw.ip].num), raw \cup active)
        BY <1>1, <1>2, <2>1, ListByte
    <2> QED BY <1>1, <2>2
<1>4. TxOf(Len(dq), dq, T, sent + 1, Tail(tx)) /\ T[sent + 1] = WriteEvent(Head(tx))
    <2>1. /\ Len(dq) \in Nat /\ dq \in [1 .. Len(dq) -> Item] /\ Script(Len(dq), dq, Base, T)
          /\ tx \in TxFifo
        BY Scripted DEF Working, TypeInv
    <2>2. TxOf(Len(dq), dq, T, sent, tx)
        BY <1>2 DEF InFifos
    <2> HIDE DEF T
    <2> QED BY <1>1, <1>2, <1>3, <2>1, <2>2, TxMoves
<1>5. sent' = sent + 1 /\ ~garbled' /\ sent + 1 \in 0 .. Len(T)
    BY <1>1, <1>2, <1>3, <1>4, OnBusRight
<1>6. InFifos(Len(dq), dq, T, sent + 1, tx', rx', queuePos)
    <2>1. Len(rx) \in Nat
        BY DEF Working, TypeInv, RxFifo
    <2>2. RxOf(T, dq, sent, rx) /\ PlaceOf(Len(dq), dq, queuePos)
        BY <1>2 DEF InFifos
    <2> HIDE DEF T
    <2>3. RxOf(T, dq, sent + 1, rx)
        BY <1>2, <1>3, <2>1, <2>2, RxPasses
    <2> QED BY <1>1, <1>4, <2>2, <2>3 DEF InFifos
<1>7. ListOf(Len(dq), dq, Base, T, sent + 1, c, hw', raw' \cup active)
    <2>1. CASE hw' = NextHw(hw, num) /\ raw' = raw
        BY <1>3, <2>1
    <2>2. CASE hw' = Stopped /\ raw' = raw \cup {"ack_err"}
        <3> DEFINE i == raw \cup active
                   j == (raw \cup {"ack_err"}) \cup active
        <3>1. /\ "end_detect" \in j => "end_detect" \in i
              /\ "trans_complete" \in j => "trans_complete" \in i
            OBVIOUS
        <3>2. ~Stopped.run
            BY DEF Stopped
        <3>3. ListOf(Len(dq), dq, Base, T, sent + 1, c, NextHw(hw, num), i)
            BY <1>3
        <3> HIDE DEF i, j, T, c, num
        <3>4. ListOf(Len(dq), dq, Base, T, sent + 1, c, Stopped, j)
            BY <3>1, <3>2, <3>3, ListHalts
        <3> QED BY <2>2, <3>4 DEF j
    <2> QED BY <1>1, <2>1, <2>2
<1>8. /\ ListOf(Len(dq), dq, Base, T, sent', c, hw', raw' \cup active)
      /\ InFifos(Len(dq), dq, T, sent', tx', rx', queuePos)
    BY <1>5, <1>6, <1>7
<1> QED BY <1>5, <1>8, WorkingOn

LEMMA HwReadInStep ==
    ASSUME Working, HwRead, hw.ip < Slots
    PROVE  InStep'
<1> DEFINE T == Asked
           c == command
           num == c[hw.ip].num
           y == [q |-> T[sent + 1].q, b |-> T[sent + 1].b]
<1>1. /\ c[hw.ip].op = "READ" /\ c[hw.ip].num > 0
      /\ tx' = tx /\ hw' = NextHw(hw, num) /\ raw' = raw
    BY StepIs DEF HwRead, Current
<1>2. /\ Len(T) \in Nat /\ c \in CommandList /\ hw \in HwState /\ hw.run
      /\ ListOf(Len(dq), dq, Base, T, sent, c, hw, raw \cup active) /\ ~garbled
      /\ InFifos(Len(dq), dq, T, sent, tx, rx, queuePos)
    BY WorkingIs DEF Working
<1>3. /\ Upcoming(T, sent, "READ") /\ T[sent + 1].nak = c[hw.ip].nak
      /\ ListOf(Len(dq), dq, Base, T, sent + 1, c, NextHw(hw, num), raw \cup active)
    <2>1. c[hw.ip].op \in {"READ", "WRITE"}
        BY <1>1
    <2>2. /\ Upcoming(T, sent, c[hw.ip].op) /\ T[sent + 1].nak = c[hw.ip].nak
          /\ ListOf(Len(dq), dq, Base, T, sent + 1, c, NextHw(hw, c[hw.ip].num), raw \cup active)
        BY <1>1, <1>2, <2>1, ListByte
    <2> QED BY <1>1, <2>2
<1>4. sent < Len(T) /\ T[sent + 1].ev = "READ"
    BY <1>2, <1>3 DEF Upcoming
<1>5. T[sent + 1] = Event("READ", T[sent + 1].q, T[sent + 1].b, T[sent + 1].nak)
    BY <1>3, <1>4, WorkingPlain DEF Plain
<1>6. [T[sent + 1] EXCEPT !.ev = "READ", !.nak = Current.nak] = T[sent + 1]
    <2> DEFINE v == T[sent + 1]
    <2>1. v = [ev |-> "READ", q |-> v.q, b |-> v.b, nak |-> v.nak] /\ v.nak = Current.nak
        BY <1>3, <1>5 DEF Event, Current
    <2> HIDE DEF v
    <2>2. [v EXCEPT !.ev = "READ"] = v
        BY ONLY <2>1
    <2>3. [v EXCEPT !.nak = Current.nak] = v
        BY ONLY <2>1
    <2>4. [v EXCEPT !.ev = "READ", !.nak = Current.nak]
          = [[v EXCEPT !.ev = "READ"] EXCEPT !.nak = Current.nak]
        OBVIOUS
    <2>5. [v EXCEPT !.ev = "READ", !.nak = Current.nak] = v
        BY ONLY <2>2, <2>3, <2>4
    <2> QED BY <2>5 DEF v
<1>7. OnBus(T[sent + 1]) /\ rx' = Append(rx, y)
    BY <1>2, <1>4, <1>6, AskedIs DEF HwRead
<1>8. sent' = sent + 1 /\ ~garbled' /\ sent + 1 \in 0 .. Len(T)
    BY <1>2, <1>3, <1>7, OnBusRight
<1>9. InFifos(Len(dq), dq, T, sent + 1, tx', rx', queuePos)
    <2>1. Len(tx) \in Nat
        BY DEF Working, TypeInv, TxFifo
    <2>2. TxOf(Len(dq), dq, T, sent, tx) /\ RxOf(T, dq, sent, rx) /\ PlaceOf(Len(dq), dq, queuePos)
        BY <1>2 DEF InFifos
    <2>3. PICK X : rx \in Seq(X)
        BY DEF Working, TypeInv, RxFifo
    <2>4. y = [q |-> T[sent + 1].q, b |-> T[sent + 1].b]
        OBVIOUS
    <2> HIDE DEF T, y
    <2>5. RxOf(T, dq, sent + 1, Append(rx, y))
        BY <1>2, <1>3, <2>2, <2>3, <2>4, RxMoves
    <2>6. TxOf(Len(dq), dq, T, sent + 1, tx)
        BY <1>2, <1>3, <2>1, <2>2, TxPasses
    <2> QED BY <1>1, <1>7, <2>2, <2>5, <2>6 DEF InFifos
<1>10. /\ ListOf(Len(dq), dq, Base, T, sent', c, hw', raw' \cup active)
       /\ InFifos(Len(dq), dq, T, sent', tx', rx', queuePos)
    BY <1>1, <1>3, <1>8, <1>9
<1> QED BY <1>8, <1>10, WorkingOn

LEMMA HwDummyInStep ==
    ASSUME Working, HwDummy, hw.ip < Slots
    PROVE  InStep'
<1>1. /\ command[hw.ip].op \in {"READ", "WRITE"} /\ command[hw.ip].num = 0
      /\ hw' = NextHw(hw, 1) /\ raw' = raw /\ tx' = tx /\ rx' = rx
      /\ sent' = sent /\ garbled' = garbled
    BY StepIs DEF HwDummy, Current
<1>2. /\ Len(Asked) \in Nat /\ command \in CommandList /\ hw \in HwState /\ hw.run
      /\ ListOf(Len(dq), dq, Base, Asked, sent, command, hw, raw \cup active) /\ ~garbled
      /\ InFifos(Len(dq), dq, Asked, sent, tx, rx, queuePos) /\ sent \in 0 .. Len(Asked)
    BY WorkingIs DEF Working
<1>3. ListOf(Len(dq), dq, Base, Asked, sent, command, NextHw(hw, 1), raw \cup active)
    BY <1>1, <1>2, ListDummy
<1> QED BY <1>1, <1>2, <1>3, WorkingOn

LEMMA HwStopInStep ==
    ASSUME Working, HwStop, hw.ip < Slots
    PROVE  InStep'
<1> DEFINE T == Asked
           c == command
<1>1. c[hw.ip].op = "STOP" /\ OnBus(Event("STOP", 0, 0, FALSE)) /\ hw' = Stopped
      /\ raw' = raw \cup {"trans_complete"} /\ tx' = tx /\ rx' = rx
    BY DEF HwStop, Current, Latch
<1>2. /\ Len(T) \in Nat /\ c \in CommandList /\ hw \in HwState /\ hw.run
      /\ ListOf(Len(dq), dq, Base, T, sent, c, hw, raw \cup active) /\ ~garbled
    BY WorkingIs DEF Working
<1>3. \A m \in 1 .. Len(T) : T[m].ev = "STOP" => m = Len(T)
    <2>1. /\ Len(dq) \in Nat \ {0} /\ dq \in [1 .. Len(dq) -> Item]
          /\ Script(Len(dq), dq, Base, T) /\ OnlyLastStops(Len(dq), dq)
        BY Scripted DEF Working
    <2> HIDE DEF T
    <2> QED BY <2>1, ScriptStops
<1>4. /\ Upcoming(T, sent, "STOP")
      /\ ListOf(Len(dq), dq, Base, T, sent + 1, c, Stopped, (raw \cup active) \cup {"trans_complete"})
    <2>1. ~Stopped.run
        BY DEF Stopped
    <2> QED BY <1>1, <1>2, <1>3, <2>1, ListStop
<1>5. T[sent + 1] = Event("STOP", 0, 0, FALSE)
    <2>1. T[sent + 1].ev = "STOP"
        BY <1>4 DEF Upcoming
    <2>2. Plain(T[sent + 1])
        BY <1>4, WorkingPlain
    <2> QED BY <2>1, <2>2 DEF Plain
<1>6. sent' = sent + 1 /\ ~garbled' /\ sent + 1 \in 0 .. Len(T)
    BY <1>1, <1>2, <1>4, <1>5, OnBusRight
<1>7. InFifos(Len(dq), dq, T, sent + 1, tx', rx', queuePos)
    BY <1>1, <1>4, WorkingPasses
<1>8. (raw \cup active) \cup {"trans_complete"} = raw' \cup active
    BY <1>1
<1>9. /\ ListOf(Len(dq), dq, Base, T, sent', c, hw', raw' \cup active)
      /\ InFifos(Len(dq), dq, T, sent', tx', rx', queuePos)
    BY <1>1, <1>4, <1>6, <1>7, <1>8
<1> QED BY <1>6, <1>9, WorkingOn

LEMMA HwEndInStep ==
    ASSUME Working, HwEnd, hw.ip < Slots
    PROVE  InStep'
<1>1. /\ command[hw.ip].op = "END" /\ hw' = [hw EXCEPT !.run = FALSE]
      /\ raw' = raw \cup {"end_detect"} /\ tx' = tx /\ rx' = rx
      /\ sent' = sent /\ garbled' = garbled
    BY DEF HwEnd, Current, Latch
<1>2. /\ Len(Asked) \in Nat /\ command \in CommandList /\ hw \in HwState /\ hw.run
      /\ ListOf(Len(dq), dq, Base, Asked, sent, command, hw, raw \cup active) /\ ~garbled
      /\ InFifos(Len(dq), dq, Asked, sent, tx, rx, queuePos) /\ sent \in 0 .. Len(Asked)
    BY WorkingIs DEF Working
<1>3. ~hw'.run
    BY <1>1, <1>2 DEF HwState
<1>4. ListOf(Len(dq), dq, Base, Asked, sent, command, hw', (raw \cup active) \cup {"end_detect"})
    BY <1>1, <1>2, <1>3, ListEnd
<1>5. (raw \cup active) \cup {"end_detect"} = raw' \cup active
    BY <1>1
<1> QED BY <1>1, <1>2, <1>4, <1>5, WorkingOn

LEMMA HwFaultInStep ==
    ASSUME Working, HwFault
    PROVE  InStep'
<1>1. /\ \/ hw' = Stopped /\ raw' = raw \cup {"arbitration_lost"}
         \/ hw' = hw /\ raw' = raw \cup {"time_out"}
      /\ tx' = tx /\ rx' = rx /\ sent' = sent /\ garbled' = garbled
    BY DEF HwFault, Latch
<1>2. /\ ListOf(Len(dq), dq, Base, Asked, sent, command, hw, raw \cup active) /\ ~garbled
      /\ InFifos(Len(dq), dq, Asked, sent, tx, rx, queuePos) /\ sent \in 0 .. Len(Asked)
    BY WorkingIs
<1>3. hw' = hw \/ ~hw'.run
    BY <1>1 DEF Stopped
<1>4. /\ "end_detect" \in raw' \cup active => "end_detect" \in raw \cup active
      /\ "trans_complete" \in raw' \cup active => "trans_complete" \in raw \cup active
    BY <1>1
<1>5. ListOf(Len(dq), dq, Base, Asked, sent, command, hw', raw' \cup active)
    BY <1>2, <1>3, <1>4, ListHalts
<1> QED BY <1>1, <1>2, <1>5, WorkingOn

LEMMA ControllerInStep ==
    ASSUME TypeInv, hw \in HwState, Before, InStep, pc # "idle", Controller
    PROVE  InStep'
<1>1. CASE Execute
    <2>1. Working /\ hw.ip < Slots
        BY <1>1 DEF Working, Execute
    <2>2. HwStart \/ HwWrite \/ HwRead \/ HwDummy \/ HwStop \/ HwEnd
        BY <1>1 DEF Execute
    <2> QED BY <2>1, <2>2, HwStartInStep, HwWriteInStep, HwReadInStep, HwDummyInStep,
               HwStopInStep, HwEndInStep
<1>2. CASE HwFault
    <2>1. Working
        BY <1>2 DEF Working, HwFault
    <2> QED BY <1>2, <2>1, HwFaultInStep
<1> QED BY <1>1, <1>2 DEF Controller

-----------------------------------------------------------------------------
(* The handler: each of its steps keeps queue, FIFOs and list in step.      *)

\* the queue, the FIFOs and the list are left alone
LEMMA InStepHeld ==
    ASSUME TypeInv, Before, InStep, dq' = dq, queuePos' = queuePos, command' = command,
           tx' = tx, rx' = rx, sent' = sent, garbled' = garbled, misplaced' = misplaced,
           Exits', ListOf(Len(dq), dq, Base, Asked, sent, command, HwNow', Found')
    PROVE  InStep'
<1>1. Asked' = Asked /\ Base' = Base /\ Len(dq)' = Len(dq)
    BY ScriptHeld
<1>2. /\ ~garbled /\ ~misplaced /\ sent \in 0 .. Len(Asked)
      /\ InFifos(Len(dq), dq, Asked, sent, tx, rx, queuePos)
    BY DEF InStep
<1>3. InFifos(Len(dq), dq, Asked, sent, tx, rx, queuePos)'
    BY <1>1, <1>2
<1>4. ListOf(Len(dq), dq, Base, Asked, sent, command, HwNow, Found)'
    BY <1>1
<1>5. (sent \in 0 .. Len(Asked))'
    BY <1>1, <1>2
<1> QED BY <1>2, <1>3, <1>4, <1>5 DEF InStep

\* what is so while the handler is at work with what it found
Serving == TypeInv /\ Before /\ InStep /\ pc # "idle" /\ active # {}

LEMMA ServingIs ==
    ASSUME Serving
    PROVE  /\ pc # "start" /\ exitCode = "none" /\ HwNow = hw /\ Found = raw \cup active
           /\ ~garbled /\ ~misplaced /\ sent \in 0 .. Len(Asked) /\ sent \in Nat
           /\ InFifos(Len(dq), dq, Asked, sent, tx, rx, queuePos)
           /\ ListOf(Len(dq), dq, Base, Asked, sent, command, hw, raw \cup active)
           /\ Len(Asked) \in Nat /\ command \in CommandList
           /\ Len(dq) \in Nat \ {0} /\ dq \in [1 .. Len(dq) -> Item] /\ dq \in Seq(Item)
           /\ Script(Len(dq), dq, Base, Asked) /\ OnlyLastStops(Len(dq), dq)
           /\ queuePos \in 1 .. Len(dq) + 1 /\ tx \in TxFifo /\ ~Unserved
<1>1. Exits /\ active # {}
    BY DEF Serving, InStep
<1>2. pc # "start" /\ exitCode = "none"
    BY <1>1 DEF Exits
<1>3. HwNow = hw /\ Found = raw \cup active
    BY <1>2 DEF HwNow, Found
<1>4. /\ ~garbled /\ ~misplaced /\ sent \in 0 .. Len(Asked)
      /\ InFifos(Len(dq), dq, Asked, sent, tx, rx, queuePos)
      /\ ListOf(Len(dq), dq, Base, Asked, sent, command, HwNow, Found)
    BY DEF Serving, InStep
<1>5. /\ Len(Asked) \in Nat /\ Len(dq) \in Nat \ {0} /\ dq \in [1 .. Len(dq) -> Item]
      /\ dq \in Seq(Item) /\ Script(Len(dq), dq, Base, Asked) /\ OnlyLastStops(Len(dq), dq)
    BY Scripted DEF Serving
<1>6. command \in CommandList /\ tx \in TxFifo /\ queuePos \in 1 .. Len(dq) + 1
    BY QueueTyped DEF Serving, TypeInv
<1>7. sent \in Nat
    BY <1>4, <1>5
<1>8. ~Unserved
    BY <1>1 DEF Unserved
<1> QED BY <1>2, <1>3, <1>4, <1>5, <1>6, <1>7, <1>8

LEMMA Served ==
    ASSUME Serving, NEW d, d = dq', Len(dq)' = Len(dq), d \in [1 .. Len(dq) -> Item],
           Static(Len(dq), dq, d), pc' = pc, Exits',
           garbled' = garbled, ~misplaced', sent' = sent,
           InFifos(Len(dq), d, Asked, sent, tx', rx', queuePos'),
           ListOf(Len(dq), d, Base, Asked, sent, command', hw', raw' \cup active')
    PROVE  InStep'
<1>1. Asked' = Asked /\ Base' = Base
    BY ScriptKept DEF Serving
<1>2. pc # "start" /\ ~garbled /\ sent \in 0 .. Len(Asked)
    BY ServingIs
<1>3. HwNow' = hw' /\ Found' = raw' \cup active'
    BY <1>2 DEF HwNow, Found
<1>4. InFifos(Len(dq), dq, Asked, sent, tx, rx, queuePos)'
    BY <1>1
<1>5. ListOf(Len(dq), dq, Base, Asked, sent, command, HwNow, Found)'
    BY <1>1, <1>3
<1>6. (sent \in 0 .. Len(Asked))'
    BY <1>1, <1>2
<1> QED BY <1>2, <1>4, <1>5, <1>6 DEF InStep

\* an exit has not come yet
LEMMA NotExited ==
    ASSUME pc' # "start", exitCode' = "none"
    PROVE  Exits'
BY DEF Exits

\* what the entries ask for is not changed by moving or listing them
LEMMA MovesStatic ==
    ASSUME NEW n, NEW d, NEW e, SameFlags(n, d, e)
    PROVE  /\ Static(n, d, e)
           /\ \A q \in 1 .. n : e[q].stop = d[q].stop /\ (d[q].startCmdSent => e[q].startCmdSent)
BY DEF SameFlags, Moves, Static

LEMMA ContinuesStatic ==
    ASSUME NEW n, NEW d, NEW e, Continues(n, d, e)
    PROVE  /\ Static(n, d, e)
           /\ \A q \in 1 .. n : e[q].stop = d[q].stop /\ (d[q].startCmdSent => e[q].startCmdSent)
BY DEF Continues, Alike, Static

\* the handler finds its interrupts, or has no transfer to serve
LEMMA IsrEnterInStep ==
    ASSUME TypeInv, Before, InStep, pc # "idle", IsrEnter
    PROVE  InStep'
<1>1. /\ dq' = dq /\ queuePos' = queuePos /\ command' = command /\ tx' = tx /\ rx' = rx
      /\ sent' = sent /\ garbled' = garbled /\ misplaced' = misplaced /\ hw' = hw
      /\ pc' = pc /\ exitCode' = exitCode /\ stage' = stage
    BY DEF IsrEnter, Task, taskVars, history
<1>2. Exits /\ ListOf(Len(dq), dq, Base, Asked, sent, command, HwNow, Found)
    BY DEF InStep
<1>3. active = {} /\ Status # {} /\ Status \subseteq ena
      /\ Status \subseteq raw \cup {"tx_empty", "rx_full"}
    BY DEF IsrEnter, Status
<1>4. exitCode = "none"
    BY <1>2, <1>3 DEF Exits
<1>5. CASE pc = "start"
    <2>1. stage = "DONE" /\ raw = {} /\ ~hw.run
        BY <1>2, <1>5 DEF Exits
    <2>2. raw' = {} /\ active' = {}
        BY <1>3, <2>1 DEF IsrEnter
    <2>3. Exits'
        BY <1>1, <1>4, <2>1, <2>2 DEF Exits
    <2>4. HwNow' = HwNow /\ Found' = Found
        BY <1>1, <1>5 DEF HwNow, Found
    <2> QED BY <1>1, <1>2, <2>3, <2>4, InStepHeld
<1>6. CASE pc # "start"
    <2>1. Exits'
        BY <1>1, <1>4, <1>6, NotExited
    <2>2. HwNow' = hw /\ HwNow = hw /\ Found = raw \cup active /\ Found' = raw' \cup active'
        BY <1>1, <1>6 DEF HwNow, Found
    <2>3. \/ raw' = {} /\ active' = {}
          \/ raw' = raw /\ active' = Status
        BY <1>3 DEF IsrEnter
    <2>4. Found' \subseteq Found \cup {"tx_empty", "rx_full"}
        BY <1>3, <2>2, <2>3
    <2>5. ("end_detect" \in Found' => "end_detect" \in Found)
          /\ ("trans_complete" \in Found' => "trans_complete" \in Found)
        BY <2>4
    <2>6. ListOf(Len(dq), dq, Base, Asked, sent, command, HwNow', Found')
        BY <1>2, <2>2, <2>5, ListHalts
    <2> QED BY <1>1, <2>1, <2>6, InStepHeld
<1> QED BY <1>5, <1>6

\* the bus has seen the start
LEMMA IsrTransStartInStep ==
    ASSUME Serving, IsrTransStart
    PROVE  InStep'
<1>1. /\ dq' = dq /\ queuePos' = queuePos /\ command' = command /\ tx' = tx /\ rx' = rx
      /\ sent' = sent /\ garbled' = garbled /\ misplaced' = misplaced /\ hw' = hw
      /\ pc' = pc /\ exitCode' = exitCode
      /\ active' = active \ {"trans_start"} /\ raw' = raw \ {"trans_start"}
    BY DEF IsrTransStart, Task, taskVars, history
<1>2. pc # "start" /\ exitCode = "none"
      /\ ListOf(Len(dq), dq, Base, Asked, sent, command, hw, raw \cup active)
    BY ServingIs
<1>3. Exits'
    BY <1>1, <1>2, NotExited
<1>4. HwNow' = hw /\ Found' = raw' \cup active'
    BY <1>1, <1>2 DEF HwNow, Found
<1>5. ListOf(Len(dq), dq, Base, Asked, sent, command, HwNow', Found')
    <2>1. /\ "end_detect" \in Found' => "end_detect" \in raw \cup active
          /\ "trans_complete" \in Found' => "trans_complete" \in raw \cup active
        BY <1>1, <1>4
    <2> QED BY <1>2, <1>4, <2>1, ListHalts
<1> QED BY <1>1, <1>3, <1>5, InStepHeld DEF Serving

\* the TX FIFO is filled; the queue does not pass an entry that is not listed
LEMMA IsrTxEmptyInStep ==
    ASSUME Serving, IsrTxEmpty, Undeceived'
    PROVE  InStep'
<1> DEFINE n == Len(dq)
           u == fillTxFifo(dq, queuePos, tx)
<1>1. /\ n \in Nat \ {0} /\ dq \in [1 .. n -> Item] /\ dq \in Seq(Item)
      /\ Script(n, dq, Base, Asked) /\ Len(Asked) \in Nat /\ sent \in Nat
      /\ queuePos \in 1 .. n + 1 /\ tx \in TxFifo
      /\ InFifos(n, dq, Asked, sent, tx, rx, queuePos)
      /\ ListOf(n, dq, Base, Asked, sent, command, hw, raw \cup active)
      /\ pc # "start" /\ exitCode = "none" /\ ~misplaced
    BY ServingIs
<1>2. /\ dq' = u.dq /\ queuePos' = u.queuePos /\ tx' = u.tx /\ rx' = rx /\ command' = command
      /\ sent' = sent /\ garbled' = garbled /\ misplaced' = misplaced /\ hw' = hw
      /\ pc' = pc /\ exitCode' = exitCode /\ raw' = raw /\ active' = active \ {"tx_empty"}
    BY DEF IsrTxEmpty, Task, taskVars
<1>3. u \in Sending(n)
    BY <1>1, fillTxFifoTyped
<1>4. \A q \in 1 .. n : q < u.queuePos => u.dq[q].stopCmdSent
    <2>1. ~ \E q \in 1 .. u.queuePos - 1 : ~u.dq[q].stopCmdSent
        <3>1. (\E q \in 1 .. u.queuePos - 1 : ~u.dq[q].stopCmdSent) => "skipped" \in mishaps'
            BY DEF IsrTxEmpty
        <3>2. "skipped" \notin mishaps'
            BY DEF Undeceived, Deceptive
        <3> QED BY <3>1, <3>2
    <2>2. u.queuePos \in 1 .. n + 1
        BY <1>3 DEF Sending
    <2> HIDE DEF u
    <2> QED BY <1>1, <2>1, <2>2
<1>5. InFifos(n, u.dq, Asked, sent, u.tx, rx, u.queuePos) /\ SameFlags(n, dq, u.dq)
    <2>1. u = fillTxFifo(dq, queuePos, tx)
        OBVIOUS
    <2>2. Len(dq) = n
        OBVIOUS
    <2> HIDE DEF u, n
    <2> QED BY <1>1, <1>4, <2>1, <2>2, TxFilled
<1>6. u.dq \in [1 .. n -> Item]
    BY <1>3 DEF Sending
<1>7. Len(dq)' = n
    BY <1>1, <1>2, <1>6
<1> HIDE DEF u
<1>8. ListOf(n, u.dq, Base, Asked, sent, command, hw, raw' \cup active')
    <2>1. ListOf(n, u.dq, Base, Asked, sent, command, hw, raw \cup active)
        BY <1>1, <1>5, ListCarries
    <2> QED BY <1>2, <2>1, ListHalts
<1>9. Static(n, dq, u.dq)
    BY <1>5, MovesStatic
<1>10. Exits'
    BY <1>1, <1>2, NotExited
<1> QED BY <1>1, <1>2, <1>5, <1>6, <1>7, <1>8, <1>9, <1>10, Served

\* what is received is stored, or left where it is
LEMMA StoresInStep ==
    ASSUME Serving, NEW r, r \in {Received, emptyRxFifo(Received)}, StoreReceived(r)
    PROVE  /\ r.dq = dq' /\ dq' \in [1 .. Len(dq) -> Item] /\ Len(dq)' = Len(dq)
           /\ SameFlags(Len(dq), dq, dq') /\ SamePuts(Len(dq), dq, dq') /\ ~misplaced'
           /\ InFifos(Len(dq), dq', Asked, sent, tx, rx', queuePos')
           /\ ListOf(Len(dq), dq', Base, Asked, sent, command, hw, raw \cup active)
           /\ r = emptyRxFifo(Received) => rx' = <<>>
<1> DEFINE n == Len(dq)
           u == emptyRxFifo(Received)
<1>1. /\ n \in Nat \ {0} /\ dq \in [1 .. n -> Item] /\ dq \in Seq(Item)
      /\ Script(n, dq, Base, Asked) /\ Len(Asked) \in Nat /\ sent \in 0 .. Len(Asked)
      /\ queuePos \in 1 .. n + 1 /\ ~misplaced
      /\ InFifos(n, dq, Asked, sent, tx, rx, queuePos)
      /\ ListOf(n, dq, Base, Asked, sent, command, hw, raw \cup active)
    BY ServingIs
<1>2. PICK X : rx \in RxFifo(X)
    BY DEF Serving, TypeInv
<1>3. Received = [dq |-> dq, queuePos |-> queuePos, rx |-> rx, misplaced |-> FALSE]
    BY <1>1 DEF Serving, TypeInv, Received
<1>4. Received \in Storing(n, X)
    BY <1>1, <1>2, <1>3 DEF Storing
<1>5. dq' = r.dq /\ queuePos' = r.queuePos /\ rx' = r.rx /\ misplaced' = r.misplaced
    BY DEF StoreReceived
<1>6. Len(dq) = n
    OBVIOUS
<1> HIDE DEF n
<1>7. CASE r = Received /\ r # u
    <2>1. dq' = dq /\ queuePos' = queuePos /\ rx' = rx /\ ~misplaced'
        BY <1>3, <1>5, <1>7
    <2>2. SameFlags(n, dq, dq) /\ SamePuts(n, dq, dq)
        BY DEF SameFlags, Moves, SamePuts
    <2> QED BY <1>1, <1>5, <1>6, <1>7, <2>1, <2>2
<1>8. CASE r = u
    <2>1. u \in Storing(n, X)
        BY <1>1, <1>4, emptyRxFifoTyped
    <2>2. u = emptyRxFifo([dq |-> dq, queuePos |-> queuePos, rx |-> rx, misplaced |-> FALSE])
        BY <1>3
    <2> HIDE DEF u
    <2>3. /\ InFifos(n, u.dq, Asked, sent, tx, u.rx, u.queuePos) /\ SameFlags(n, dq, u.dq)
          /\ SamePuts(n, dq, u.dq) /\ ~u.misplaced /\ u.rx = <<>>
        BY <1>1, <1>2, <2>2, RxEmptied
    <2>4. u.dq \in [1 .. n -> Item]
        BY <2>1 DEF Storing
    <2>5. Len(dq)' = n
        BY <1>1, <1>5, <1>8, <2>4
    <2>6. ListOf(n, u.dq, Base, Asked, sent, command, hw, raw \cup active)
        BY <1>1, <2>3, ListCarries
    <2> QED BY <1>5, <1>6, <1>8, <2>3, <2>4, <2>5, <2>6
<1> QED BY <1>7, <1>8 DEF u

\* received bytes are stored; a time-out of the bus is no end
LEMMA IsrRxFullInStep ==
    ASSUME Serving, IsrRxFull
    PROVE  InStep'
<1> DEFINE n == Len(dq)
           r == emptyRxFifo(Received)
<1>1. PICK interrupt \in {"rx_full", "time_out"} :
          /\ StoreReceived(r)
          /\ active' = active \ {interrupt} /\ raw' = raw \ {interrupt}
    BY DEF IsrRxFull
<1>2. /\ tx' = tx /\ command' = command /\ hw' = hw /\ pc' = pc /\ exitCode' = exitCode
      /\ sent' = sent /\ garbled' = garbled
    BY DEF IsrRxFull, Task, taskVars
<1>3. /\ dq' \in [1 .. n -> Item] /\ Len(dq)' = n /\ SameFlags(n, dq, dq') /\ ~misplaced'
      /\ InFifos(n, dq', Asked, sent, tx, rx', queuePos')
      /\ ListOf(n, dq', Base, Asked, sent, command, hw, raw \cup active)
    <2>1. r \in {Received, emptyRxFifo(Received)}
        OBVIOUS
    <2> HIDE DEF r
    <2> QED BY <1>1, <2>1, StoresInStep
<1>4. Static(n, dq, dq')
    BY <1>3, MovesStatic
<1>5. pc # "start" /\ exitCode = "none"
    BY ServingIs
<1>6. Exits'
    BY <1>2, <1>5, NotExited
<1>7. ListOf(n, dq', Base, Asked, sent, command, hw, raw' \cup active')
    BY <1>1, <1>3, ListHalts
<1> QED BY <1>2, <1>3, <1>4, <1>6, <1>7, Served

\* the handler leaves the transfer
LEMMA ExitInStep ==
    ASSUME Serving, NEW err, i2cIsrExit(err), err = "OK" => Frozen'
    PROVE  InStep'
<1> DEFINE n == Len(dq)
           r == IF queuePos <= Len(dq) /\ dq[queuePos].mode = "READ"
                THEN emptyRxFifo(Received) ELSE Received
<1>1. /\ StoreReceived(r)
      /\ ena' = {} /\ active' = {} /\ raw' = {} /\ exitCode' = err
      /\ tx' = tx /\ command' = command /\ hw' = hw /\ pc' = pc
      /\ sent' = sent /\ garbled' = garbled
    BY DEF i2cIsrExit, Task, taskVars
<1>2. /\ dq' \in [1 .. n -> Item] /\ Len(dq)' = n /\ SameFlags(n, dq, dq') /\ ~misplaced'
      /\ InFifos(n, dq', Asked, sent, tx, rx', queuePos')
      /\ ListOf(n, dq', Base, Asked, sent, command, hw, raw \cup active)
    <2>1. r \in {Received, emptyRxFifo(Received)}
        OBVIOUS
    <2> HIDE DEF r
    <2> QED BY <1>1, <2>1, StoresInStep
<1>3. Static(n, dq, dq')
    BY <1>2, MovesStatic
<1>4. pc # "start"
    BY ServingIs
<1>5. Exits'
    BY <1>1, <1>4 DEF Exits
<1>6. ListOf(n, dq', Base, Asked, sent, command, hw, raw' \cup active')
    BY <1>1, <1>2, ListHalts
<1> QED BY <1>1, <1>2, <1>3, <1>5, <1>6, Served

LEMMA ScriptStatic ==
    ASSUME NEW n, NEW d, NEW e, NEW B, NEW T, Script(n, d, B, T), Static(n, d, e)
    PROVE  Script(n, e, B, T)
<1>1. \A q \in 1 .. n : Size(e[q]) = Size(d[q])
    BY DEF Static, Size
<1>2. \A q \in 1 .. n : \A j : EventOf(e[q], q, j) = EventOf(d[q], q, j)
    BY DEF Static, EventOf
<1> QED BY <1>1, <1>2 DEF Script

LEMMA IsrErrorInStep ==
    ASSUME Serving, IsrAckErr \/ IsrArbitration
    PROVE  InStep'
<1>1. \E err \in {"ADDR_NAK", "DATA_NAK", "ARBITRATION"} : i2cIsrExit(err)
    BY DEF IsrAckErr, IsrArbitration
<1> QED BY <1>1, ExitInStep

\* all that was asked for was on the bus, and what was received is stored
LEMMA CompleteIsWhole ==
    ASSUME Serving, IsrTransComplete
    PROVE  Frozen'
<1> DEFINE n == Len(dq)
           r == IF queuePos <= Len(dq) /\ dq[queuePos].mode = "READ"
                THEN emptyRxFifo(Received) ELSE Received
<1>1. /\ StoreReceived(r) /\ "trans_complete" \in active
      /\ ena' = {} /\ active' = {} /\ hw' = hw /\ sent' = sent /\ garbled' = garbled
    BY DEF IsrTransComplete, Serve, i2cIsrExit
<1>2. r \in {Received, emptyRxFifo(Received)}
    OBVIOUS
<1>3. /\ n \in Nat \ {0} /\ Script(n, dq, Base, Asked) /\ Len(Asked) \in Nat /\ ~garbled
      /\ ListOf(n, dq, Base, Asked, sent, command, hw, raw \cup active)
    BY ServingIs
<1> HIDE DEF r
<1>4. /\ dq' \in [1 .. n -> Item] /\ Len(dq)' = n /\ SameFlags(n, dq, dq') /\ ~misplaced'
      /\ InFifos(n, dq', Asked, sent, tx, rx', queuePos')
      /\ r = emptyRxFifo(Received) => rx' = <<>>
    BY <1>1, <1>2, StoresInStep
<1>5. ~hw.run /\ sent = Len(Asked)
    <2>1. PICK f, l : Tells(Asked, l, sent, hw, raw \cup active)
        BY <1>3, ListOpened
    <2> QED BY <1>1, <2>1 DEF Tells
<1>6. Static(n, dq, dq')
    BY <1>4, MovesStatic
<1>7. Asked' = Asked /\ Base' = Base
    BY <1>4, <1>6, ScriptKept DEF Serving
<1>8. Script(n, dq', Base, Asked)
    BY <1>3, <1>6, ScriptStatic
<1>9. dq'[queuePos'].mode # "READ" \/ rx' = <<>>
    <2>1. CASE queuePos <= n /\ dq[queuePos].mode = "READ"
        BY <1>4, <2>1 DEF r
    <2>2. CASE ~(queuePos <= n /\ dq[queuePos].mode = "READ")
        <3>1. r = Received
            BY <2>2 DEF r
        <3>2. dq' = dq /\ queuePos' = queuePos
            BY <1>1, <3>1 DEF StoreReceived, Received
        <3>3. queuePos \in 1 .. n
            BY ServingIs DEF InFifos, PlaceOf, AtPlace
        <3> QED BY <1>3, <2>2, <3>2, <3>3
    <2> QED BY <2>1, <2>2
<1>10. \A q \in 1 .. n : dq'[q].position = dq'[q].length
    <2>1. TxOf(n, dq', Asked, Len(Asked), tx) /\ PlaceOf(n, dq', queuePos')
          /\ RxOf(Asked, dq', Len(Asked), rx')
        BY <1>4, <1>5 DEF InFifos
    <2>2. dq'[queuePos'].mode # "READ" \/ RxOf(Asked, dq', Len(Asked), <<>>)
        BY <1>9, <2>1
    <2> QED BY <1>3, <1>4, <1>8, <2>1, <2>2, AllMoved
<1>11. (Transfer[Len(dq)])' = Asked'
    BY DEF Transfer, TransferOf, Asked
<1>12. sent' = Len(Transfer[Len(dq)])' /\ ~garbled' /\ ~misplaced'
    BY <1>1, <1>3, <1>4, <1>5, <1>7, <1>11
<1>13. \A q \in DOMAIN dq' : dq'[q].position = dq'[q].length
    BY <1>4, <1>10
<1>14. Whole'
    BY <1>12, <1>13 DEF Whole
<1> QED BY <1>1, <1>5, <1>14 DEF Frozen

LEMMA IsrTransCompleteInStep ==
    ASSUME Serving, IsrTransComplete
    PROVE  InStep'
<1>1. i2cIsrExit("OK")
    BY DEF IsrTransComplete
<1> QED BY <1>1, CompleteIsWhole, ExitInStep

\* the list is refilled where it ended
LEMMA IsrEndDetectInStep ==
    ASSUME Serving, IsrEndDetect
    PROVE  InStep'
<1> DEFINE n == Len(dq)
           u == fillCmdQueue(dq, queuePos, command)
           i == raw \cup active
<1>1. /\ "end_detect" \in active
      /\ dq' = u.dq /\ command' = u.command /\ hw' = Ready
      /\ raw' = (raw \ {"end_detect"}) \cup {"trans_start"}
      /\ active' = active \ {"end_detect"}
      /\ queuePos' = queuePos /\ tx' = tx /\ rx' = rx /\ pc' = pc /\ exitCode' = exitCode
      /\ sent' = sent /\ garbled' = garbled /\ misplaced' = misplaced
    BY DEF IsrEndDetect, Serve, Task, taskVars, history, Ready
<1>2. /\ n \in Nat \ {0} /\ dq \in [1 .. n -> Item]
      /\ Script(n, dq, Base, Asked) /\ OnlyLastStops(n, dq)
      /\ queuePos \in 1 .. n + 1 /\ command \in CommandList
      /\ InFifos(n, dq, Asked, sent, tx, rx, queuePos)
      /\ ListOf(n, dq, Base, Asked, sent, command, hw, i) /\ "end_detect" \in i
      /\ pc # "start" /\ exitCode = "none" /\ ~misplaced
    BY <1>1, ServingIs
<1>3. u.dq \in [1 .. n -> Item] /\ Continues(n, dq, u.dq)
    BY <1>2, fillCmdQueueTyped, fillCmdQueueContinues
<1>4. TxOf(n, dq, Asked, sent, tx) /\ RxOf(Asked, dq, sent, rx) /\ PlaceOf(n, dq, queuePos)
    BY <1>2 DEF InFifos
<1>5. \A q \in 1 .. n : q < queuePos => dq[q].stopCmdSent
    BY <1>4 DEF PlaceOf
<1>6. u = fillCmdQueue(dq, queuePos, command)
    OBVIOUS
<1>7. Len(dq)' = n
    BY <1>1, <1>2, <1>3
<1>8. n = Len(dq)
    OBVIOUS
<1> HIDE DEF n, u, i
<1>9. InFifos(n, u.dq, Asked, sent, tx, rx, queuePos)
    BY <1>2, <1>3, <1>4, FillingSame DEF InFifos
<1>10. ListOf(n, u.dq, Base, Asked, sent, u.command, Ready, i \ {"end_detect"})
    BY <1>2, <1>5, <1>6, ListRefills
<1>11. ListOf(n, u.dq, Base, Asked, sent, u.command, Ready, raw' \cup active')
    <2>1. /\ "end_detect" \notin raw' \cup active'
          /\ "trans_complete" \in raw' \cup active' => "trans_complete" \in i \ {"end_detect"}
        BY <1>1 DEF i
    <2> QED BY <1>10, <2>1, ListHalts
<1>12. Static(n, dq, u.dq)
    BY <1>3, ContinuesStatic
<1>13. Exits'
    BY <1>1, <1>2, NotExited
<1> QED BY <1>1, <1>2, <1>3, <1>7, <1>8, <1>9, <1>11, <1>12, <1>13, Served

LEMMA HandlerInStep ==
    ASSUME TypeInv, Before, InStep, pc # "idle", Handler, Undeceived'
    PROVE  InStep'
<1>1. ASSUME ~IsrEnter PROVE Serving
    <2>1. active # {}
        BY <1>1 DEF Handler, IsrTransStart, IsrTxEmpty, IsrRxFull, IsrAckErr, IsrTransComplete,
                    IsrArbitration, IsrEndDetect, Serve
    <2> QED BY <2>1 DEF Serving
<1>2. CASE IsrEnter
    BY <1>2, IsrEnterInStep
<1>3. CASE ~IsrEnter
    BY <1>1, <1>3, IsrTransStartInStep, IsrTxEmptyInStep, IsrRxFullInStep, IsrErrorInStep,
       IsrTransCompleteInStep, IsrEndDetectInStep DEF Handler
<1> QED BY <1>2, <1>3

-----------------------------------------------------------------------------
(* The task.                                                                *)

\* the addresses and data of the script are counted from the first byte of an entry
LEMMA BytesFrom ==
    ASSUME NEW n \in Nat, NEW d \in [1 .. n -> Item], NEW B, NEW T, Script(n, d, B, T),
           NEW i \in 1 .. Len(T)
    PROVE  /\ T[i].ev = "WRITE" /\ T[i].b < 0 =>
                  T[i].q \in 1 .. n /\ T[i].b >= 0 - d[T[i].q].addrReq
           /\ T[i].ev \in {"READ", "WRITE"} => T[i].q \in 1 .. n /\ T[i].b \in Int
           /\ T[i].ev = "READ" => T[i].b >= 0
<1>1. PICK q \in 1 .. n : \E j \in 1 .. Size(d[q]) : i = B[q] + j
    BY DEF Script
<1>2. PICK j \in 1 .. Size(d[q]) : i = B[q] + j
    BY <1>1
<1>9. T[i] = EventOf(d[q], q, j)
    BY <1>2 DEF Script
<1> DEFINE e == d[q]
           w == T[i]
<1>3. e \in Item /\ e.addrReq \in {1, 2} /\ e.length \in Nat /\ j \in Nat /\ j >= 1
      /\ w = EventOf(e, q, j)
    <2>1. e \in Item
        OBVIOUS
    <2>2. e.addrReq \in {1, 2} /\ e.length \in Nat /\ e.stop \in BOOLEAN
        BY <2>1 DEF Item
    <2>3. Size(e) \in Nat
        BY <2>2 DEF Size
    <2> QED BY <1>9, <2>1, <2>2, <2>3
<1>10. e = d[q] /\ w = T[i]
    OBVIOUS
<1> HIDE DEF e, w
<1>4. CASE j = 1
    BY <1>3, <1>4, <1>10, EventStart
<1>5. CASE j > 1 /\ j <= 1 + e.addrReq
    <2>1. w.ev = "WRITE" /\ w.q = q /\ w.b = j - 2 - e.addrReq
        BY <1>3, <1>5, EventAddress
    <2>2. w.b >= 0 - e.addrReq /\ w.b \in Int
        BY <1>3, <1>5, <2>1
    <2>3. d[w.q] = e
        BY <1>10, <2>1
    <2> QED BY ONLY <1>10, <2>1, <2>2, <2>3, q \in 1 .. n
<1>6. CASE j > 1 + e.addrReq /\ j <= 1 + e.addrReq + e.length
    <2>1. w.q = q /\ w.b = j - 2 - e.addrReq
        BY <1>3, <1>6, EventData
    <2>2. w.b >= 0 /\ ~(w.b < 0) /\ w.b \in Int
        BY <1>3, <1>6, <2>1
    <2> QED BY ONLY <1>10, <2>1, <2>2, q \in 1 .. n
<1>7. CASE j > 1 + e.addrReq /\ j > 1 + e.addrReq + e.length
    BY <1>3, <1>7, <1>10, EventStop
<1>8. j = 1 \/ (j > 1 /\ j <= 1 + e.addrReq) \/ (j > 1 + e.addrReq /\ j <= 1 + e.addrReq + e.length)
      \/ (j > 1 + e.addrReq /\ j > 1 + e.addrReq + e.length)
    BY <1>3
<1> QED BY <1>4, <1>5, <1>6, <1>7, <1>8

\* no byte was moved yet: the FIFOs are empty
LEMMA NothingMoved ==
    ASSUME NEW n \in Nat \ {0}, NEW d \in [1 .. n -> Item], NEW B, NEW T, Script(n, d, B, T),
           Len(T) \in Nat,
           \A q \in 1 .. n : d[q].position = 0 /\ d[q].addrSent = 0 /\ d[q].rw = 1
    PROVE  InFifos(n, d, T, 0, <<>>, <<>>, 1)
<1>1. \A ev : Window(T, ev, 0, 0, <<>>)
    <2> DEFINE x == [j \in 1 .. 0 |-> j]
    <2>1. 1 .. 0 = {} /\ 0 + 1 .. 0 = {} /\ Len(<<>>) = 0
        OBVIOUS
    <2>2. x \in [1 .. Len(<<>>) -> 0 + 1 .. 0]
        BY <2>1
    <2> HIDE DEF x
    <2> QED BY <2>1, <2>2 DEF Window
<1>2. PutUpTo(T, d, 0)
    <2> SUFFICES ASSUME NEW i \in 1 .. Len(T), T[i].ev = "WRITE" PROVE ~Put(d, T[i])
        BY DEF PutUpTo
    <2> DEFINE w == T[i]
               e == d[T[i].q]
    <2>1. w.q \in 1 .. n /\ (w.b < 0 => w.b >= 0 - e.addrReq)
        BY BytesFrom
    <2>2. e.position = 0 /\ e.addrSent = 0 /\ e.addrReq \in {1, 2}
        BY <2>1 DEF Item
    <2>3. Put(d, w) <=> IF w.b < 0 THEN w.b < e.addrSent - e.addrReq ELSE w.b < e.position
        BY DEF Put
    <2>4. T[i].b \in Int
        BY BytesFrom
    <2> HIDE DEF e
    <2>5. ~Put(d, w)
        BY <2>1, <2>2, <2>3, <2>4
    <2> QED BY <2>5
<1>3. StoredUpTo(T, d, 0)
    <2> SUFFICES ASSUME NEW i \in 1 .. Len(T), T[i].ev = "READ"
                 PROVE  ~(T[i].b < d[T[i].q].position)
        BY DEF StoredUpTo
    <2>1. T[i].q \in 1 .. n /\ T[i].b >= 0
        BY BytesFrom
    <2>2. d[T[i].q].position = 0
        BY <2>1
    <2>3. T[i].b \in Int
        BY BytesFrom
    <2> QED BY ONLY <2>1, <2>2, <2>3
<1>4. TxOf(n, d, T, 0, <<>>)
    BY <1>1, <1>2 DEF TxOf
<1>5. RxOf(T, d, 0, <<>>)
    BY <1>1, <1>3 DEF RxOf
<1>6. PlaceOf(n, d, 1)
    BY DEF PlaceOf, AtPlace
<1> QED BY <1>4, <1>5, <1>6 DEF InFifos

\* the queue as Prepare hands it to fillCmdQueue
Prepared == [q \in DOMAIN dq |-> [dq[q] EXCEPT !.rw = @ + 1]]

LEMMA PreparedIs ==
    ASSUME TypeInv
    PROVE  /\ Prepared \in [1 .. Len(dq) -> Item] /\ Static(Len(dq), dq, Prepared)
           /\ \A q \in 1 .. Len(dq) :
                 /\ Prepared[q].startCmdSent = dq[q].startCmdSent
                 /\ Fresh(dq) => /\ Unlisted(Prepared[q]) /\ Prepared[q].position = 0
                                 /\ Prepared[q].addrSent = 0 /\ Prepared[q].rw = 1
<1> DEFINE n == Len(dq)
<1>1. n \in Nat /\ dq \in [1 .. n -> Item] /\ DOMAIN dq = 1 .. n
    BY QueueTyped
<1>2. ASSUME NEW e \in Item
      PROVE  LET f == [e EXCEPT !.rw = @ + 1]
             IN  /\ f \in Item /\ f.rw = e.rw + 1
                 /\ f.mode = e.mode /\ f.length = e.length /\ f.stop = e.stop
                 /\ f.addrReq = e.addrReq /\ f.startCmdSent = e.startCmdSent
                 /\ f.position = e.position /\ f.addrSent = e.addrSent
                 /\ Unlisted(e) => Unlisted(f)
    BY DEF Item, Unlisted
<1>3. \A q \in 1 .. n : Prepared[q] = [dq[q] EXCEPT !.rw = @ + 1]
    BY <1>1 DEF Prepared
<1>4. Prepared \in [1 .. n -> Item]
    BY <1>1, <1>2 DEF Prepared
<1>5. Static(n, dq, Prepared)
    BY <1>1, <1>2, <1>3 DEF Static
<1>6. ASSUME NEW q \in 1 .. n
      PROVE  /\ Prepared[q].startCmdSent = dq[q].startCmdSent
             /\ Fresh(dq) => /\ Unlisted(Prepared[q]) /\ Prepared[q].position = 0
                             /\ Prepared[q].addrSent = 0 /\ Prepared[q].rw = 1
    <2>1. dq[q] \in Item
        BY <1>1
    <2>2. Fresh(dq) => /\ Unlisted(dq[q]) /\ dq[q].position = 0 /\ dq[q].addrSent = 0
                       /\ dq[q].rw = 0
        BY <1>1 DEF Fresh
    <2>3. 0 + 1 = 1
        OBVIOUS
    <2> QED BY <1>2, <1>3, <2>1, <2>2, <2>3
<1> QED BY <1>4, <1>5, <1>6

\* the list that is made of a queue whose entries have no commands
LEMMA PreparedFills ==
    ASSUME TypeInv, Before, pc = "proc", Fresh(dq), NEW u, u = fillCmdQueue(Prepared, 1, command)
    PROVE  /\ ListOf(Len(dq), u.dq, Base, Asked, 0, u.command, Ready, {})
           /\ InFifos(Len(dq), u.dq, Asked, 0, <<>>, <<>>, 1)
           /\ u.dq[1].startCmdSent
<1> DEFINE n == Len(dq)
           d == Prepared
           B == Base
           T == Asked
<1>1. /\ n \in Nat \ {0} /\ Script(n, dq, B, T) /\ OnlyLastStops(n, dq) /\ Len(T) \in Nat
      /\ command \in CommandList
    BY Scripted DEF TypeInv
<1>2. d \in [1 .. n -> Item] /\ Static(n, dq, d)
    BY PreparedIs
<1>3. \A q \in 1 .. n : /\ Unlisted(d[q]) /\ d[q].position = 0 /\ d[q].addrSent = 0
                        /\ d[q].rw = 1
    BY PreparedIs
<1> HIDE DEF n, d, B, T
<1>4. Script(n, d, B, T)
    BY <1>1, <1>2, ScriptStatic
<1>5. OnlyLastStops(n, d)
    BY <1>1, <1>2 DEF OnlyLastStops, Static
<1>6. 1 \in 1 .. n /\ 1 \in 1 .. n + 1
    BY <1>1
<1>7. Frontier(n, d, 1)
    BY <1>3, <1>6 DEF Frontier, Unlisted
<1>8. ListedOf(d[1], B[1]) = 0
    <2>1. ~d[1].startCmdSent
        BY <1>3, <1>6 DEF Unlisted
    <2>2. B[1] = 0
        BY <1>1 DEF Script
    <2> QED BY <2>1, <2>2 DEF ListedOf
<1>9. 0 < Len(T)
    <2>1. Len(T) = B[n + 1] /\ B[n + 1] = B[n] + Size(d[n]) /\ B[n] \in Nat
        BY <1>1, <1>4 DEF Script
    <2>2. Size(d[n]) \in Nat /\ Size(d[n]) >= 2
        BY <1>1, <1>2, EventsOfEntry
    <2> QED BY <2>1, <2>2
<1>10. u.dq \in [1 .. n -> Item] /\ Continues(n, d, u.dq)
    <2>1. u = fillCmdQueue(d, 1, command)
        BY DEF d
    <2> QED BY <1>1, <1>2, <1>6, <2>1, fillCmdQueueTyped, fillCmdQueueContinues
<1>11. ListOf(n, u.dq, B, T, 0, u.command, Ready, {})
    <2>1. \A r \in 1 .. n : r < 1 => d[r].stopCmdSent
        BY <1>1
    <2>2. u = fillCmdQueue(d, 1, command)
        BY DEF d
    <2> DEFINE j == {}
    <2>3. "end_detect" \notin j /\ "trans_complete" \notin j
        OBVIOUS
    <2> DEFINE s == 0
    <2>4. s = ListedOf(d[1], B[1]) /\ s < Len(T)
        BY <1>8, <1>9
    <2> HIDE DEF j, s
    <2>5. ListOf(n, u.dq, B, T, s, u.command, Ready, j)
        BY <1>1, <1>2, <1>4, <1>5, <1>6, <1>7, <2>1, <2>2, <2>3, <2>4, ListFills
    <2> QED BY <2>5 DEF j, s
<1>12. u.dq[1].startCmdSent
    <2>1. \A r \in 1 .. n : r < 1 => d[r].stopCmdSent
        BY <1>1
    <2>2. u = fillCmdQueue(d, 1, command)
        BY DEF d
    <2>3. ~d[1].stopCmdSent
        BY <1>3, <1>6 DEF Unlisted
    <2>4. ListedOf(d[1], B[1]) < Len(T)
        BY <1>8, <1>9
    <2> QED BY <1>1, <1>2, <1>4, <1>5, <1>6, <1>7, <2>1, <2>2, <2>3, <2>4, fillCmdQueueFollows
<1>13. InFifos(n, u.dq, T, 0, <<>>, <<>>, 1)
    <2>1. \A q \in 1 .. n : u.dq[q].position = 0 /\ u.dq[q].addrSent = 0 /\ u.dq[q].rw = 1
        BY <1>3, <1>10 DEF Continues, Alike
    <2>2. Static(n, d, u.dq)
        BY <1>10, ContinuesStatic
    <2>3. Script(n, u.dq, B, T)
        BY <1>4, <2>2, ScriptStatic
    <2> QED BY <1>1, <1>10, <2>1, <2>3, NothingMoved
<1> QED BY <1>11, <1>12, <1>13 DEF n, B, T

\* what Prepare does to the queue, in any case
LEMMA PreparedQueue ==
    ASSUME TypeInv, Before, Prepare, NEW u, u = fillCmdQueue(Prepared, 1, command)
    PROVE  /\ pc = "proc" /\ dq' = u.dq /\ Len(dq)' = Len(dq) /\ u.dq \in [1 .. Len(dq) -> Item]
           /\ Static(Len(dq), dq, u.dq)
           /\ \A q \in 1 .. Len(dq) : dq[q].startCmdSent => u.dq[q].startCmdSent
           /\ Len(dq) \in Nat \ {0} /\ OnlyLastStops(Len(dq), dq)
<1> DEFINE n == Len(dq)
           d == Prepared
<1>1. pc = "proc" /\ dq' = u.dq
    BY DEF Prepare, Prepared
<1>2. n \in Nat \ {0} /\ command \in CommandList /\ OnlyLastStops(n, dq)
    BY <1>1, Scripted DEF TypeInv
<1>3. d \in [1 .. n -> Item] /\ Static(n, dq, d)
      /\ \A q \in 1 .. n : d[q].startCmdSent = dq[q].startCmdSent
    BY PreparedIs
<1>4. u = fillCmdQueue(d, 1, command)
    OBVIOUS
<1>5. n = Len(dq)
    OBVIOUS
<1> HIDE DEF n, d
<1>6. u.dq \in [1 .. n -> Item] /\ Continues(n, d, u.dq)
    <2>1. 1 \in 1 .. n + 1
        BY <1>2
    <2> QED BY <1>2, <1>3, <1>4, <2>1, fillCmdQueueTyped, fillCmdQueueContinues
<1>7. Len(dq)' = n
    BY <1>1, <1>2, <1>6
<1>8. /\ Static(n, d, u.dq)
      /\ \A q \in 1 .. n : d[q].startCmdSent => u.dq[q].startCmdSent
    BY <1>6, ContinuesStatic
<1>9. Static(n, dq, u.dq)
    BY <1>3, <1>8 DEF Static
<1> QED BY <1>1, <1>2, <1>3, <1>5, <1>6, <1>7, <1>8, <1>9

LEMMA PrepareBefore ==
    ASSUME TypeInv, Before, Prepare
    PROVE  Before'
<1> DEFINE n == Len(dq)
           u == fillCmdQueue(Prepared, 1, command)
<1>1. /\ pc = "proc" /\ dq' = u.dq /\ Len(dq)' = n /\ u.dq \in [1 .. n -> Item]
      /\ Static(n, dq, u.dq)
      /\ \A q \in 1 .. n : dq[q].startCmdSent => u.dq[q].startCmdSent
      /\ n \in Nat \ {0} /\ OnlyLastStops(n, dq)
    BY PreparedQueue
<1>2. pc' = "start" /\ mishaps \subseteq mishaps'
    BY DEF Prepare
<1>3. n <= MaxEntries
    BY DEF Before
<1>4. OnlyLastStops(n, u.dq)
    BY <1>1 DEF OnlyLastStops, Static
<1>5. ASSUME "late" \notin mishaps' PROVE u.dq[1].startCmdSent
    <2>1. dq[1].startCmdSent \/ Fresh(dq)
        BY <1>1, <1>2, <1>5 DEF Before
    <2>2. Fresh(dq) => u.dq[1].startCmdSent
        BY <1>1, PreparedFills
    <2>3. 1 \in 1 .. n
        BY <1>1
    <2> HIDE DEF n, u
    <2> QED BY <1>1, <2>1, <2>2, <2>3
<1> HIDE DEF n, u
<1> QED BY <1>1, <1>2, <1>3, <1>4, <1>5 DEF Before

LEMMA PrepareInStep ==
    ASSUME TypeInv, Before, Prepare, Undeceived'
    PROVE  InStep'
<1> DEFINE n == Len(dq)
           u == fillCmdQueue(Prepared, 1, command)
<1>1. /\ pc = "proc" /\ dq' = u.dq /\ Len(dq)' = n /\ u.dq \in [1 .. n -> Item]
      /\ Static(n, dq, u.dq) /\ n \in Nat \ {0}
    BY PreparedQueue
<1>2. /\ pc' = "start" /\ exitCode' = "none" /\ stage' = "DONE" /\ raw' = {} /\ hw' = Stopped
      /\ active' = active /\ queuePos' = 1 /\ command' = u.command /\ tx' = <<>> /\ rx' = <<>>
      /\ sent' = 0 /\ ~garbled' /\ ~misplaced'
    BY DEF Prepare, Prepared
<1>3. ~StillServed /\ (\A q \in DOMAIN dq : ~dq[q].startCmdSent) /\ "late" \notin mishaps
    <2>1. "resumed" \notin mishaps' /\ "late" \notin mishaps'
        BY DEF Undeceived, Deceptive
    <2>2. mishaps' = mishaps \cup {m \in {"resumed"} : \E q \in DOMAIN dq : dq[q].startCmdSent}
                             \cup {m \in {"late"} : StillServed}
                             \cup {m \in {"stale"} : wakeup}
        BY DEF Prepare
    <2> QED BY <2>1, <2>2
<1>4. active = {}
    BY <1>3 DEF StillServed
<1>5. Fresh(dq)
    <2>1. 1 \in DOMAIN dq
        BY <1>1, QueueTyped
    <2> QED BY <1>1, <1>3, <2>1 DEF Before
<1>6. /\ ListOf(n, u.dq, Base, Asked, 0, u.command, Ready, {})
      /\ InFifos(n, u.dq, Asked, 0, <<>>, <<>>, 1)
    BY <1>1, <1>5, PreparedFills
<1>7. Asked' = Asked /\ Base' = Base
    BY <1>1, ScriptKept
<1>8. Len(Asked) \in Nat
    BY Scripted
<1> HIDE DEF n, u
<1>9. HwNow' = Ready /\ Found' = {}
    BY <1>2 DEF HwNow, Found
<1>10. Exits'
    BY <1>2, <1>4 DEF Exits, Stopped
<1>11. InFifos(Len(dq), dq, Asked, sent, tx, rx, queuePos)'
    BY <1>1, <1>2, <1>6, <1>7
<1>12. ListOf(Len(dq), dq, Base, Asked, sent, command, HwNow, Found)'
    BY <1>1, <1>2, <1>6, <1>7, <1>9
<1>13. (sent \in 0 .. Len(Asked))'
    BY <1>2, <1>7, <1>8
<1> QED BY <1>2, <1>10, <1>11, <1>12, <1>13 DEF InStep

\* the controller is started on its list
LEMMA LaunchInStep ==
    ASSUME TypeInv, Before, InStep, Launch
    PROVE  InStep'
<1>1. /\ dq' = dq /\ queuePos' = queuePos /\ command' = command /\ tx' = tx /\ rx' = rx
      /\ sent' = sent /\ garbled' = garbled /\ misplaced' = misplaced /\ hw' = Ready
      /\ pc = "start" /\ pc' = "wait" /\ exitCode' = exitCode
      /\ raw' = raw \cup {"trans_start"} /\ active' = active
    BY DEF Launch, Latch, history, Ready
<1>2. Exits /\ ListOf(Len(dq), dq, Base, Asked, sent, command, HwNow, Found)
    BY DEF InStep
<1>3. exitCode = "none" /\ active = {} /\ raw = {}
    BY <1>1, <1>2 DEF Exits
<1>4. Exits'
    BY <1>1, <1>3, NotExited
<1>5. HwNow = Ready /\ HwNow' = Ready /\ Found' = {"trans_start"}
    BY <1>1, <1>3 DEF HwNow, Found
<1>6. ListOf(Len(dq), dq, Base, Asked, sent, command, HwNow', Found')
    <2>1. "end_detect" \notin Found' /\ "trans_complete" \notin Found'
        BY <1>5
    <2> QED BY <1>2, <1>5, <2>1, ListHalts
<1> QED BY <1>1, <1>4, <1>6, InStepHeld

\* what InStep is about is left alone
LEMMA InStepStays ==
    ASSUME TypeInv, Before, InStep, dq' = dq, queuePos' = queuePos, command' = command,
           tx' = tx, rx' = rx, sent' = sent, garbled' = garbled, misplaced' = misplaced,
           hw' = hw, raw' = raw, ena' = ena, active' = active, stage' = stage,
           exitCode' = exitCode, pc' = pc \/ (pc = "wait" /\ pc' = "judge")
    PROVE  InStep'
<1>1. Exits /\ ListOf(Len(dq), dq, Base, Asked, sent, command, HwNow, Found)
    BY DEF InStep
<1>2. pc' = "start" <=> pc = "start"
    OBVIOUS
<1>3. HwNow' = HwNow /\ Found' = Found
    BY <1>2 DEF HwNow, Found
<1>4. Asked' = Asked /\ Len(dq)' = Len(dq) /\ Asked = Transfer[Len(dq)]
      /\ Asked' = Transfer[Len(dq)]'
    <2>1. Asked' = Transfer[Len(dq)]'
        BY DEF Transfer, TransferOf, Asked
    <2> QED BY <2>1, ScriptHeld, AskedIs
<1>5. Frozen' <=> Frozen
    BY <1>4 DEF Frozen, Whole
<1>6. Exits'
    BY <1>1, <1>2, <1>5 DEF Exits
<1> QED BY <1>1, <1>3, <1>6, InStepHeld

-----------------------------------------------------------------------------
(* What Before says is kept by every step.                                  *)

\* the queue is only read
LEMMA BeforeTurns ==
    ASSUME Before, dq' = dq, pc # "idle", pc' # "idle", mishaps \subseteq mishaps',
           pc \in {"proc", "ended"} => pc' \in {"proc", "ended"} /\ (Unserved => Unserved')
    PROVE  Before'
<1>1. "late" \notin mishaps' => "late" \notin mishaps
    OBVIOUS
<1>2. OnlyLastStops(Len(dq), dq)' <=> OnlyLastStops(Len(dq), dq)
    BY DEF OnlyLastStops
<1>3. Fresh(dq)' <=> Fresh(dq)
    BY DEF Fresh
<1> QED BY <1>1, <1>2, <1>3 DEF Before

\* the flags of the entries are only set, by a handler that is at work
LEMMA BeforeServed ==
    ASSUME TypeInv, Before, active # {}, NEW d \in [1 .. Len(dq) -> Item], dq' = d,
           SameFlags(Len(dq), dq, d) \/ Continues(Len(dq), dq, d),
           pc' = pc, mishaps \subseteq mishaps'
    PROVE  Before'
<1>1. \A q \in 1 .. Len(dq) : /\ d[q].stop = dq[q].stop
                              /\ dq[q].startCmdSent => d[q].startCmdSent
    BY MovesStatic, ContinuesStatic
<1>2. Len(dq)' = Len(dq)
    BY QueueTyped
<1>3. ~Unserved
    BY DEF Unserved
<1> QED BY <1>1, <1>2, <1>3, BeforeMoves

LEMMA StoresFlags ==
    ASSUME TypeInv, StoreReceived(emptyRxFifo(Received)) \/ StoreReceived(Received)
    PROVE  dq' \in [1 .. Len(dq) -> Item] /\ SameFlags(Len(dq), dq, dq')
<1>1. PICK X : rx \in RxFifo(X)
    BY DEF TypeInv
<1> DEFINE n == Len(dq)
           u == emptyRxFifo(Received)
<1>2. n \in Nat /\ Received \in Storing(n, X) /\ Received.dq = dq /\ dq \in [1 .. n -> Item]
    BY <1>1, QueueTyped DEF TypeInv, Received, Storing
<1>3. u \in Storing(n, X) /\ SameFlags(n, dq, u.dq)
    BY <1>2, emptyRxFifoTyped, emptyRxFifoFlags
<1>4. u.dq \in [1 .. n -> Item]
    BY <1>3 DEF Storing
<1>5. SameFlags(n, dq, dq)
    BY MovesItself DEF SameFlags, Moves
<1>6. dq' = dq \/ dq' = u.dq
    BY <1>2 DEF StoreReceived
<1> HIDE DEF n, u
<1> QED BY <1>2, <1>3, <1>4, <1>5, <1>6 DEF n

LEMMA BeforeHandler ==
    ASSUME TypeInv, Before, Handler
    PROVE  Before'
<1>1. CASE IsrEnter
    BY <1>1, BeforeStays DEF IsrEnter, Task, taskVars, history, Unserved
<1>2. ASSUME ~IsrEnter PROVE active # {}
    BY <1>2 DEF Handler, IsrTransStart, IsrTxEmpty, IsrRxFull, IsrAckErr, IsrTransComplete,
                IsrArbitration, IsrEndDetect, Serve
<1>3. CASE IsrTransStart
    <2>1. active # {} /\ dq' = dq /\ pc' = pc /\ mishaps' = mishaps
        BY <1>3 DEF IsrTransStart, Serve, Task, taskVars, history
    <2> QED BY <2>1, BeforeStays DEF Unserved
<1>4. CASE IsrTxEmpty
    <2> DEFINE n == Len(dq)
               s == fillTxFifo(dq, queuePos, tx)
    <2>1. n \in Nat /\ dq \in [1 .. n -> Item] /\ queuePos \in 1 .. n + 1 /\ tx \in TxFifo
        BY QueueTyped DEF TypeInv
    <2>2. s \in Sending(n) /\ SameFlags(n, dq, s.dq)
        BY <2>1, fillTxFifoTyped, fillTxFifoFlags
    <2>3. dq' = s.dq /\ mishaps \subseteq mishaps' /\ pc' = pc /\ active # {}
        BY <1>4 DEF IsrTxEmpty, Serve, Task, taskVars
    <2> HIDE DEF s
    <2>4. s.dq \in [1 .. n -> Item]
        BY <2>2 DEF Sending
    <2> QED BY <2>2, <2>3, <2>4, BeforeServed
<1>5. CASE IsrRxFull
    <2>1. StoreReceived(emptyRxFifo(Received)) /\ pc' = pc /\ mishaps' = mishaps /\ active # {}
        BY <1>5 DEF IsrRxFull, Serve, Task, taskVars
    <2> QED BY <2>1, StoresFlags, BeforeServed
<1>6. CASE IsrAckErr \/ IsrTransComplete \/ IsrArbitration
    <2>1. PICK err : i2cIsrExit(err) /\ active # {}
        BY <1>6 DEF IsrAckErr, IsrTransComplete, IsrArbitration, Serve
    <2>2. StoreReceived(emptyRxFifo(Received)) \/ StoreReceived(Received)
        BY <2>1 DEF i2cIsrExit
    <2>3. pc' = pc /\ mishaps' = mishaps
        BY <2>1 DEF i2cIsrExit, Task, taskVars
    <2> QED BY <2>1, <2>2, <2>3, StoresFlags, BeforeServed
<1>7. CASE IsrEndDetect
    <2> DEFINE n == Len(dq)
               s == fillCmdQueue(dq, queuePos, command)
    <2>1. n \in Nat /\ dq \in [1 .. n -> Item] /\ queuePos \in 1 .. n + 1 /\ command \in CommandList
        BY QueueTyped DEF TypeInv
    <2>2. s.dq \in [1 .. n -> Item] /\ Continues(n, dq, s.dq)
        BY <2>1, fillCmdQueueTyped, fillCmdQueueContinues
    <2>3. dq' = s.dq /\ pc' = pc /\ mishaps' = mishaps /\ active # {}
        BY <1>7 DEF IsrEndDetect, Serve, Task, taskVars, history
    <2> HIDE DEF s
    <2> QED BY <2>2, <2>3, BeforeServed
<1> QED BY <1>1, <1>3, <1>4, <1>5, <1>6, <1>7 DEF Handler

NotBegun(e, stop) ==
    e.stop = stop /\ Unlisted(e) /\ e.position = 0 /\ e.addrSent = 0 /\ e.rw = 0

LEMMA EntryFresh ==
    ASSUME NEW mode, NEW length, NEW stop, NEW addrReq
    PROVE  NotBegun(Entry(mode, length, stop, addrReq), stop)
BY DEF Entry, Unlisted, NotBegun

\* of what i2cAddQueue appends, the last entry has the STOP, if there is one
LEMMA QueuedFresh ==
    ASSUME NEW mode \in {"READ", "WRITE"}, NEW length \in Nat, NEW stop \in BOOLEAN,
           NEW addrReq \in {1, 2}, NEW new, new = Queued(mode, length, stop, addrReq)
    PROVE  /\ new \in Seq(Item) /\ Len(new) \in {1, 2}
           /\ \A q \in 1 .. Len(new) : NotBegun(new[q], stop /\ q = Len(new))
<1> DEFINE a == Entry("WRITE", 0, FALSE, 2)
           b == Entry("READ", length, stop, 1)
           c == Entry(mode, length, stop, addrReq)
<1>1. NotBegun(a, FALSE) /\ NotBegun(b, stop) /\ NotBegun(c, stop)
    BY EntryFresh
<1>2. new = <<a, b>> \/ new = <<c>>
    BY DEF Queued
<1>3. new \in Seq(Item)
    BY QueuedTyped
<1> HIDE DEF a, b, c
<1>4. CASE new = <<a, b>>
    <2>1. Len(new) = 2 /\ new[1] = a /\ new[2] = b
        BY <1>4
    <2>2. \A q \in 1 .. Len(new) : NotBegun(new[q], stop /\ q = Len(new))
        <3> SUFFICES ASSUME NEW q \in 1 .. 2 PROVE NotBegun(new[q], stop /\ q = 2)
            BY <2>1
        <3>1. CASE q = 1
            <4>1. (stop /\ q = 2) = FALSE
                BY <3>1
            <4> QED BY <1>1, <2>1, <3>1, <4>1
        <3>2. CASE q = 2
            <4>1. (stop /\ q = 2) = stop
                BY <3>2
            <4> QED BY <1>1, <2>1, <3>2, <4>1
        <3> QED BY <3>1, <3>2
    <2> QED BY <1>3, <2>1, <2>2
<1>5. CASE new = <<c>>
    <2>1. Len(new) = 1 /\ new[1] = c
        BY <1>5
    <2>2. \A q \in 1 .. Len(new) : NotBegun(new[q], stop /\ q = Len(new))
        <3> SUFFICES ASSUME NEW q \in 1 .. 1 PROVE NotBegun(new[q], stop /\ q = 1)
            BY <2>1
        <3>1. (stop /\ q = 1) = stop /\ q = 1
            OBVIOUS
        <3> QED BY <1>1, <2>1, <3>1
    <2> QED BY <1>3, <2>1, <2>2
<1> QED BY <1>2, <1>4, <1>5

LEMMA BeforeAdds ==
    ASSUME TypeInv, Before, AddQueue
    PROVE  Before'
<1>1. PICK mode \in {"READ", "WRITE"}, addrReq \in AddrReqs, stop \in BOOLEAN :
          \E length \in IF mode = "READ" THEN Reads ELSE Writes :
              /\ Len(dq) + Len(Queued(mode, length, stop, addrReq)) <= MaxEntries
              /\ dq' = dq \o Queued(mode, length, stop, addrReq)
              /\ pc' = IF stop THEN "proc" ELSE "idle"
    BY DEF AddQueue
<1>2. PICK length \in Nat :
          /\ Len(dq) + Len(Queued(mode, length, stop, addrReq)) <= MaxEntries
          /\ dq' = dq \o Queued(mode, length, stop, addrReq)
          /\ pc' = IF stop THEN "proc" ELSE "idle"
    BY <1>1, TransferAssumption
<1> DEFINE new == Queued(mode, length, stop, addrReq)
           n == Len(dq)
           m == Len(new)
<1>3. pc = "idle" /\ active' = active /\ stage' = stage
      /\ mishaps' = mishaps \cup {x \in {"late"} : StillServed}
    BY DEF AddQueue, isrVars
<1>4. /\ new \in Seq(Item) /\ m \in {1, 2}
      /\ \A q \in 1 .. m : NotBegun(new[q], stop /\ q = m)
    <2>1. addrReq \in {1, 2}
        BY TransferAssumption
    <2>2. new = Queued(mode, length, stop, addrReq)
        OBVIOUS
    <2> HIDE DEF new
    <2> QED BY <2>1, <2>2, QueuedFresh
<1>5. n \in Nat /\ dq \in Seq(Item) /\ DOMAIN dq = 1 .. n
    BY QueueTyped DEF TypeInv
<1>6. dq' = dq \o new /\ n + m <= MaxEntries /\ m = Len(new) /\ n = Len(dq)
      /\ pc' = IF stop THEN "proc" ELSE "idle"
    BY <1>2
<1> HIDE DEF new, n, m
<1>7. /\ Len(dq)' = n + m /\ DOMAIN dq' = 1 .. n + m
      /\ \A q \in 1 .. n + m : dq'[q] = IF q <= n THEN dq[q] ELSE new[q - n]
    BY <1>4, <1>5, <1>6
<1>8. ASSUME NEW q \in 1 .. n + m
      PROVE  \/ q \in 1 .. n /\ q # n + m /\ dq'[q] = dq[q]
             \/ q > n /\ q - n \in 1 .. m /\ (q - n = m <=> q = n + m) /\ dq'[q] = new[q - n]
    <2>1. CASE q <= n
        BY <1>4, <1>5, <1>7, <2>1
    <2>2. CASE ~(q <= n)
        BY <1>4, <1>5, <1>7, <2>2
    <2> QED BY <2>1, <2>2
<1>9. ASSUME NEW q \in 1 .. n + m
      PROVE  dq'[q].stop <=> (stop /\ q = n + m)
    <2>1. CASE q \in 1 .. n /\ q # n + m /\ dq'[q] = dq[q]
        <3>1. ~dq[q].stop
            BY <1>3, <1>5, <2>1 DEF Before
        <3> QED BY <2>1, <3>1
    <2>2. CASE q - n \in 1 .. m /\ (q - n = m <=> q = n + m) /\ dq'[q] = new[q - n]
        <3>1. new[q - n].stop = (stop /\ q - n = m)
            BY <1>4, <2>2 DEF NotBegun
        <3> QED BY <2>2, <3>1
    <2> QED BY <1>8, <2>1, <2>2
<1>10. ASSUME "late" \notin mishaps'
       PROVE  Fresh(dq') /\ Unserved'
    <2>1. "late" \notin mishaps /\ ~StillServed
        BY <1>3, <1>10
    <2>2. Unserved'
        BY <1>3, <2>1 DEF StillServed, Unserved
    <2>3. n # 0 => Fresh(dq)
        BY <1>3, <1>6, <2>1 DEF Before
    <2>4. ASSUME NEW q \in 1 .. n + m
          PROVE  /\ Unlisted(dq'[q]) /\ dq'[q].position = 0 /\ dq'[q].addrSent = 0
                 /\ dq'[q].rw = 0
        <3>1. CASE q \in 1 .. n /\ dq'[q] = dq[q]
            <4>1. Fresh(dq)
                BY <1>5, <2>3, <3>1
            <4> QED BY <1>5, <3>1, <4>1 DEF Fresh
        <3>2. CASE q - n \in 1 .. m /\ dq'[q] = new[q - n]
            BY <1>4, <3>2 DEF NotBegun
        <3> QED BY <1>8, <3>1, <3>2
    <2>5. Fresh(dq')
        BY <1>7, <2>4 DEF Fresh
    <2> QED BY <2>2, <2>5
<1>11. n + m # 0
    BY <1>4, <1>5
<1>12. pc' # "idle" => OnlyLastStops(n + m, dq')
    BY <1>6, <1>9, <1>11 DEF OnlyLastStops
<1>13. pc' = "idle" => \A q \in DOMAIN dq' : ~dq'[q].stop
    BY <1>6, <1>7, <1>9
<1>14. Fresh(dq') <=> Fresh(dq)'
    BY DEF Fresh
<1>15. pc' # "idle" => OnlyLastStops(Len(dq), dq)'
    BY <1>7, <1>12
<1>16. pc' \in {"idle", "proc"}
    BY <1>6
<1> QED BY <1>6, <1>7, <1>10, <1>13, <1>14, <1>15, <1>16 DEF Before

LEMMA BeforeStep ==
    ASSUME TypeInv, Before, [Next]_vars
    PROVE  Before'
<1>1. CASE Caller
    <2>1. CASE BusBusy
        BY <2>1, BeforeTurns DEF BusBusy, isrVars, Unserved
    <2>2. CASE Launch
        BY <2>2, BeforeTurns DEF Launch, history
    <2>3. CASE WaitEnds
        BY <2>3, BeforeTurns DEF WaitEnds, Undisturbed, Disturb
    <2>4. CASE Judge
        BY <2>4, BeforeTurns DEF Judge, history
    <2>5. CASE Reinit
        BY <2>5, BeforeTurns DEF Reinit, isrVars, history, Unserved
    <2>6. CASE i2cFlush
        <3>1. dq' = <<>> /\ pc' = "idle"
            BY <2>6 DEF i2cFlush
        <3>2. Len(<<>>) = 0 /\ DOMAIN <<>> = {} /\ 0 <= MaxEntries
            BY TransferAssumption
        <3> QED BY <3>1, <3>2 DEF Before
    <2> QED BY <1>1, <2>1, <2>2, <2>3, <2>4, <2>5, <2>6, BeforeAdds, PrepareBefore DEF Caller
<1>2. CASE Handler
    BY <1>2, BeforeHandler
<1>3. CASE TimerTask
    BY <1>3, BeforeStays DEF TimerTask, Task, taskVars, history, Unserved
<1>4. CASE Controller
    <2>1. dq' = dq /\ pc' = pc /\ active' = active /\ stage' = stage
        BY <1>4 DEF Controller, Execute, HwFault, Driver, taskVars, isrVars
    <2>2. mishaps \subseteq mishaps'
        BY <1>4 DEF Controller, Execute, HwStart, HwWrite, HwRead, HwDummy, HwStop, HwEnd,
                    HwFault, Undisturbed, Disturb
    <2> QED BY <2>1, <2>2, BeforeStays DEF Unserved
<1>5. CASE UNCHANGED vars
    BY <1>5, BeforeStays DEF vars, taskVars, isrVars, history, Unserved
<1> QED BY <1>1, <1>2, <1>3, <1>4, <1>5 DEF Next

-----------------------------------------------------------------------------
(* The whole invariant.                                                     *)

LEMMA MishapsStay ==
    ASSUME [Next]_vars, pc' # "idle"
    PROVE  mishaps \subseteq mishaps'
<1>1. CASE Caller
    BY <1>1 DEF Caller, AddQueue, BusBusy, Prepare, Launch, WaitEnds, Judge, Reinit, i2cFlush,
                Undisturbed, Disturb, history
<1>2. CASE Handler
    BY <1>2 DEF Handler, IsrEnter, IsrTransStart, IsrTxEmpty, IsrRxFull, IsrAckErr,
                IsrTransComplete, IsrArbitration, IsrEndDetect, i2cIsrExit, history
<1>3. CASE Controller
    BY <1>3 DEF Controller, Execute, HwStart, HwWrite, HwRead, HwDummy, HwStop, HwEnd,
                HwFault, Undisturbed, Disturb
<1>4. CASE TimerTask \/ UNCHANGED vars
    BY <1>4 DEF TimerTask, vars, history
<1> QED BY <1>1, <1>2, <1>3, <1>4 DEF Next

LEMMA LiveStep ==
    ASSUME TypeInv, WholeInv, [Next]_vars, Live'
    PROVE  InStep'
<1>1. pc' \in {"start", "wait", "judge"} /\ Undeceived'
    BY DEF Live
<1>2. Undeceived
    BY <1>1, MishapsStay DEF Undeceived
<1>3. Before /\ hw \in HwState
    BY DEF WholeInv
<1>4. ASSUME pc \in {"start", "wait", "judge"} PROVE InStep
    BY <1>2, <1>4 DEF WholeInv, Live
<1>5. CASE Caller
    <2>1. CASE Prepare
        BY <1>1, <1>3, <2>1, PrepareInStep
    <2>2. CASE Launch
        BY <1>3, <1>4, <2>2, LaunchInStep DEF Launch
    <2>3. CASE WaitEnds
        <3>1. InStep
            BY <1>4, <2>3 DEF WaitEnds
        <3> QED BY <1>3, <2>3, <3>1, InStepStays DEF WaitEnds, isrVars, hwVars
    <2>4. CASE AddQueue \/ BusBusy \/ Judge \/ Reinit \/ i2cFlush
        BY <1>1, <2>4 DEF AddQueue, BusBusy, Judge, Reinit, i2cFlush
    <2> QED BY <1>5, <2>1, <2>2, <2>3, <2>4 DEF Caller
<1>6. CASE Handler
    <2>1. pc' = pc
        BY <1>6 DEF Handler, IsrEnter, IsrTransStart, IsrTxEmpty, IsrRxFull, IsrAckErr,
                    IsrTransComplete, IsrArbitration, IsrEndDetect, i2cIsrExit, Task, taskVars
    <2> QED BY <1>1, <1>3, <1>4, <1>6, <2>1, HandlerInStep
<1>7. CASE TimerTask
    BY <1>1, <1>3, <1>4, <1>7, InStepStays DEF TimerTask, Task, taskVars, hwVars, history
<1>8. CASE Controller
    <2>1. pc' = pc
        BY <1>8 DEF Controller, Execute, HwFault, Driver, taskVars
    <2> QED BY <1>1, <1>3, <1>4, <1>8, <2>1, ControllerInStep
<1>9. CASE UNCHANGED vars
    BY <1>1, <1>3, <1>4, <1>9, InStepStays DEF vars, taskVars, isrVars, hwVars, history
<1> QED BY <1>5, <1>6, <1>7, <1>8, <1>9 DEF Next

\* nobody is at work any more
LEMMA FrozenStays ==
    ASSUME TypeInv, Frozen, dq' = dq, sent' = sent, garbled' = garbled,
           misplaced' = misplaced, active' = active, ena' = ena, hw' = hw
    PROVE  Frozen'
<1>1. Transfer[Len(dq)] = Asked /\ Transfer[Len(dq)]' = Asked' /\ Asked' = Asked
    <2>1. Transfer[Len(dq)]' = Asked'
        BY DEF Transfer, TransferOf, Asked
    <2>2. Asked' = Asked
        BY DEF Asked
    <2> QED BY <2>1, <2>2, AskedIs
<1> QED BY <1>1 DEF Frozen, Whole

LEMMA FrozenIdle ==
    ASSUME Frozen
    PROVE  ~Handler /\ ~Controller
<1>1. active = {} /\ ena = {} /\ ~hw.run
    BY DEF Frozen
<1>2. Status = {}
    BY <1>1 DEF Status
<1>3. ~Handler
    BY <1>1, <1>2 DEF Handler, IsrEnter, IsrTransStart, IsrTxEmpty, IsrRxFull, IsrAckErr,
                      IsrTransComplete, IsrArbitration, IsrEndDetect, Serve
<1>4. ~Controller
    BY <1>1 DEF Controller, Execute, HwFault
<1> QED BY <1>3, <1>4

LEMMA EndedStep ==
    ASSUME TypeInv, WholeInv, [Next]_vars, pc' = "ended", reason' = "OK", Undeceived'
    PROVE  Frozen'
<1>1. Undeceived
    BY MishapsStay DEF Undeceived
<1>2. CASE Judge
    <2>1. /\ pc = "judge" /\ eBits # "none" => reason' = Reason(exitCode) /\ ena' = ena
          /\ eBits = "none" => reason' \in {"BUSY", "TIMEOUT"}
        BY <1>2 DEF Judge
    <2>2. exitCode = "OK" /\ ena' = ena
        BY <1>2, <2>1 DEF Reason, Judge
    <2>3. InStep
        BY <1>1, <1>2 DEF WholeInv, Live, Judge
    <2>4. Frozen
        BY <2>2, <2>3 DEF InStep, Exits
    <2> QED BY <1>2, <2>2, <2>4, FrozenStays DEF Judge, history
<1>3. CASE AddQueue \/ BusBusy \/ Prepare \/ Launch \/ WaitEnds \/ Reinit \/ i2cFlush
    BY <1>3 DEF AddQueue, BusBusy, Prepare, Launch, WaitEnds, Reinit, i2cFlush
<1>4. ASSUME pc' = pc, reason' = reason PROVE Frozen
    BY <1>1, <1>4 DEF WholeInv
<1>5. CASE Handler
    <2>1. pc' = pc /\ reason' = reason
        BY <1>5 DEF Handler, IsrEnter, IsrTransStart, IsrTxEmpty, IsrRxFull, IsrAckErr,
                    IsrTransComplete, IsrArbitration, IsrEndDetect, i2cIsrExit, Task, taskVars
    <2> QED BY <1>4, <1>5, <2>1, FrozenIdle
<1>6. CASE Controller
    <2>1. pc' = pc /\ reason' = reason
        BY <1>6 DEF Controller, Execute, HwFault, Driver, taskVars
    <2> QED BY <1>4, <1>6, <2>1, FrozenIdle
<1>7. CASE TimerTask
    BY <1>4, <1>7, FrozenStays DEF TimerTask, Task, taskVars, hwVars, history
<1>8. CASE UNCHANGED vars
    BY <1>4, <1>8, FrozenStays DEF vars, taskVars, isrVars, hwVars, history
<1> QED BY <1>2, <1>3, <1>5, <1>6, <1>7, <1>8 DEF Next, Caller

LEMMA WholeInit == Init => WholeInv
<1> SUFFICES ASSUME Init PROVE WholeInv
    OBVIOUS
<1>1. hw \in HwState
    BY DEF Init, Stopped, HwState
<1>2. Before
    <2>1. dq = <<>> /\ pc = "idle" /\ Len(<<>>) = 0 /\ DOMAIN <<>> = {}
        BY DEF Init
    <2>2. 0 <= MaxEntries
        BY TransferAssumption
    <2> QED BY <2>1, <2>2 DEF Before
<1>3. ~Live /\ pc # "ended"
    BY DEF Init, Live
<1> QED BY <1>1, <1>2, <1>3 DEF WholeInv

LEMMA WholeStep == TypeInv /\ WholeInv /\ [Next]_vars => WholeInv'
<1> SUFFICES ASSUME TypeInv, WholeInv, [Next]_vars PROVE WholeInv'
    OBVIOUS
<1>1. hw \in HwState /\ Before
    BY DEF WholeInv
<1>2. hw' \in HwState
    BY <1>1, HwTyped
<1>3. Before'
    BY <1>1, BeforeStep
<1> QED BY <1>2, <1>3, LiveStep, EndedStep DEF WholeInv

LEMMA WholeImplies == WholeInv => SuccessIsWhole
BY DEF WholeInv, SuccessIsWhole, Ended, Undeceived, Frozen

LEMMA WholeAlways == Spec => [](TypeInv /\ WholeInv)
<1>1. Init => TypeInv /\ WholeInv
    BY TypeInit, WholeInit
<1>2. (TypeInv /\ WholeInv) /\ [Next]_vars => (TypeInv /\ WholeInv)'
    BY TypeStep, WholeStep
<1> QED BY <1>1, <1>2, PTL DEF Spec

\* Unless the transfer was skipped, resumed or late, the caller is told OK only for a whole
\* one: every START, address, byte and STOP of the queue was on the bus, once and in order,
\* and each byte received is where it belongs, whatever the lists and the FIFOs cut the
\* transfer into, whoever is slow, and whether or not slave, clock and event group play
\* along.  Nothing is said of a transfer in which queuePos passed an entry whose commands
\* were not all listed (skipped: this needs no fault, only a queue that is longer than the
\* list, see SkipsNeedRefills), of a second attempt on the queue the first has left
\* (resumed), and of one queued while an earlier one is still served (late).
THEOREM SuccessMeansWhole == Spec => []SuccessIsWhole
BY WholeAlways, WholeImplies, PTL

-----------------------------------------------------------------------------
(* The invariant behind CleanSucceeds: as long as no mishap has come, there *)
(* is an interrupt for everything that the controller can come to wait for. *)

\* what is no good news
Hurts == {"ack_err", "time_out", "arbitration_lost"}

\* The handler will be called: when a FIFO runs full or empty, at the end of the list and
\* of the transfer.  It may have shut off the TX FIFO's interrupt, once all bytes are put,
\* and has none for the end of the list, once the whole queue is listed.
Attended ==
    /\ stage # "DONE" /\ {"rx_full", "trans_complete"} \subseteq ena
    /\ "tx_empty" \in active => "tx_empty" \in ena
    /\ "tx_empty" \notin ena => \A q \in 1 .. Len(dq) : EntryPut(dq[q])
    /\ "end_detect" \notin ena => dq[Len(dq)].stopCmdSent
    /\ ~hw.run => raw \cap {"end_detect", "trans_complete"} # {}

Unhurt ==
    /\ (raw \cup active) \cap Hurts = {} /\ exitCode \in {"none", "OK"}
    /\ wakeup \/ eventDone => exitCode = "OK"
    /\ pc = "judge" => exitCode = "OK" /\ eBits = "OK"
    /\ pc = "wait" /\ exitCode = "none" => Attended

CleanInv ==
    mishaps = {} => /\ pc \in {"start", "wait", "judge"} => Unhurt
                    /\ pc = "ended" => reason = "OK"

\* all is put that is to be put
LEMMA AllPut ==
    ASSUME NEW n \in Nat, NEW d \in [1 .. n -> Item], NEW B, NEW T, Script(n, d, B, T),
           \A q \in 1 .. n : EntryPut(d[q]), NEW i \in 1 .. Len(T), T[i].ev = "WRITE"
    PROVE  Put(d, T[i])
<1>1. PICK p \in 1 .. n : PlacedAt(i, p, d, B)
    BY EventPlaced
<1> DEFINE j == i - B[p]
           e == d[p]
           r == e.addrReq
           len == e.length
           a == e.addrSent
           b == e.position
           P == Put(d, T[i])
<1>2. /\ j > 1 /\ j <= 1 + r + len
      /\ j <= 1 + r => (P <=> j - 1 <= a)
      /\ j > 1 + r => e.mode = "WRITE" /\ (P <=> j - 1 - r <= b)
    <2>1. j \in 1 .. Size(d[p]) /\ B[p] + j = i
        BY <1>1 DEF PlacedAt
    <2> HIDE DEF j
    <2> QED BY <2>1, PutOf
<1>3. j \in Nat /\ r \in Nat /\ len \in Nat /\ a \in Nat /\ b \in Nat
      /\ e.mode \in {"READ", "WRITE"}
    <2>1. e \in Item /\ j \in Nat
        BY <1>1 DEF PlacedAt
    <2> HIDE DEF e, j
    <2> QED BY <2>1, ItemTyped
<1>4. a = r /\ (b = len \/ e.mode = "READ")
    BY DEF EntryPut
<1> HIDE DEF j, r, len, a, b, P, e
<1>5. P
    BY ONLY <1>2, <1>3, <1>4
<1> QED BY <1>5 DEF P

\* nothing of the script is left to be listed
LEMMA AllListed ==
    ASSUME NEW n \in Nat \ {0}, NEW d \in [1 .. n -> Item], NEW B, NEW T, Script(n, d, B, T),
           NEW f, Frontier(n, d, f), d[n].stop, d[n].stopCmdSent
    PROVE  ListedOf(d[f], B[f]) = Len(T)
<1>1. f = n
    <2>1. f \in 1 .. n /\ (f < n => Unlisted(d[n]))
        BY DEF Frontier
    <2> QED BY <2>1 DEF Unlisted
<1> DEFINE e == d[n]
           b == B[n]
           z == Size(e)
           r == e.addrReq
           len == e.length
           left == e.cmdBytesNeeded
<1>2. e \in Item /\ b + z = Len(T) /\ b \in Nat
    BY ScriptFits
<1>3. left = 0
    BY <1>1 DEF Frontier
<1>4. e.startCmdSent /\ e.addrCmdSent
    BY <1>2 DEF Item
<1>5. r \in Nat /\ len \in Nat
    <2> HIDE DEF e
    <2> QED BY <1>2, ItemTyped
<1>6. z = 1 + r + len + 1
    BY DEF Size
<1>7. ListedOf(e, b) = b + 1 + r + (len - left) + 1
    BY <1>4 DEF ListedOf
<1> DEFINE l == ListedOf(e, b)
<1> HIDE DEF e, b, z, r, len, left, l
<1>8. l = b + z
    BY ONLY <1>2, <1>3, <1>5, <1>6, <1>7 DEF l
<1> QED BY <1>1, <1>2, <1>8 DEF l, e, b

LEMMA NoWriteLeft ==
    ASSUME NEW n \in Nat, NEW d \in [1 .. n -> Item], NEW B, NEW T, Script(n, d, B, T),
           NEW s \in Nat, TxOf(n, d, T, s, <<>>), Len(T) \in Nat,
           \A q \in 1 .. n : EntryPut(d[q]), s + 1 \in 1 .. Len(T)
    PROVE  T[s + 1].ev # "WRITE"
<1> SUFFICES ASSUME T[s + 1].ev = "WRITE" PROVE FALSE
    OBVIOUS
<1>1. PICK g \in s .. Len(T) : PutUpTo(T, d, g) /\ Window(T, "WRITE", s, g, <<>>)
    BY DEF TxOf
<1>2. Put(d, T[s + 1])
    BY AllPut
<1>3. s + 1 \in s + 1 .. g
    <2>1. s + 1 <= g
        BY <1>1, <1>2 DEF PutUpTo
    <2> QED BY <1>1, <2>1
<1>4. Len(<<>>) = 0
    OBVIOUS
<1> QED BY <1>1, <1>3, <1>4 DEF Window

\* As long as the handler is needed, something goes on: the controller can execute, or
\* there is an interrupt.
LEMMA NeverQuiet ==
    ASSUME TypeInv, Before, InStep, hw \in HwState, pc = "wait", Attended
    PROVE  ~Quiet
<1> DEFINE n == Len(dq)
           T == Asked
           c == command
<1> SUFFICES ASSUME Quiet PROVE FALSE
    OBVIOUS
<1>1. /\ n \in Nat \ {0} /\ dq \in [1 .. n -> Item] /\ Script(n, dq, Base, T) /\ Len(T) \in Nat
      /\ dq[n].stop /\ c \in CommandList
    <2>1. OnlyLastStops(n, dq) /\ n \in Nat \ {0}
        BY Scripted
    <2>2. n \in 1 .. n
        BY <2>1
    <2> QED BY <2>1, <2>2, Scripted DEF OnlyLastStops, TypeInv
<1>2. /\ TxOf(n, dq, T, sent, tx) /\ sent \in 0 .. Len(T)
      /\ ListOf(n, dq, Base, T, sent, c, hw, raw \cup active)
    BY DEF InStep, InFifos, HwNow, Found
<1> HIDE DEF n, T, c
<1>3. PICK f, l : /\ ListAt(n, dq, Base, T, f, l, sent)
                  /\ Executes(c, T, l, sent, hw) /\ Tells(T, l, sent, hw, raw \cup active)
    BY <1>2, ListOpened
<1>4. Status = {} /\ ~CanExecute
    BY DEF Quiet
<1>5. CASE ~hw.run
    <2>1. "trans_complete" \notin raw
        BY <1>4 DEF Attended, Status
    <2>2. "end_detect" \in raw
        BY <1>5, <2>1 DEF Attended
    <2>3. "end_detect" \notin ena
        BY <1>4, <2>2 DEF Status
    <2>4. dq[n].stopCmdSent
        BY <2>3 DEF Attended, n
    <2>5. Frontier(n, dq, f) /\ l = ListedOf(dq[f], Base[f])
        BY <1>3 DEF ListAt
    <2>6. l = Len(T)
        BY <1>1, <2>4, <2>5, AllListed
    <2> QED BY <1>1, <1>3, <2>2, <2>6 DEF Tells
<1>6. CASE hw.run
    <2>1. l \in 0 .. Len(T)
        BY <1>3 DEF ListAt
    <2>2. PICK last, cur : Program(c, T, last, cur, l) /\ Runs(c, sent, hw, last, cur)
        BY <1>3 DEF Executes
    <2>3. hw.ip \in 0 .. Slots - 1 /\ hw.ip < Slots
        <3>1. last \in 0 .. Slots - 1 /\ hw.ip \in 0 .. last
            BY <1>6, <2>2 DEF Program, Runs
        <3> QED BY <3>1, CommandsAssumption
    <2>4. c[hw.ip] \in Command
        BY <1>1, <2>3 DEF CommandList
    <2>5. /\ c[hw.ip].op \in {"READ", "WRITE"} /\ c[hw.ip].num # 0
          /\ c[hw.ip].op = "WRITE" => tx = <<>>
          /\ c[hw.ip].op = "READ" => ~(Len(rx) < FifoLen)
        BY <1>4, <1>6, <2>3 DEF CanExecute, Current, c
    <2>6. c[hw.ip].num > 0
        BY <2>4, <2>5 DEF Command
    <2>7. Advances(T, l, sent, c[hw.ip].op)
        BY <1>1, <1>3, <1>6, <2>1, <2>5, <2>6, ByteNext
    <2>8. sent \in Nat /\ sent + 1 \in 1 .. Len(T) /\ T[sent + 1].ev = c[hw.ip].op
        BY <1>1, <2>1, <2>7 DEF Advances
    <2>9. CASE c[hw.ip].op = "READ"
        <3>1. Len(rx) \in Nat
            BY DEF TypeInv, RxFifo
        <3>2. Len(rx) >= RxThreshold
            BY <2>5, <2>9, <3>1, CommandsAssumption, TransferAssumption
        <3>3. "rx_full" \in Status
            BY <3>2 DEF Status, Attended
        <3> QED BY <1>4, <3>3
    <2>10. CASE c[hw.ip].op = "WRITE"
        <3>1. tx = <<>> /\ Len(<<>>) <= TxThreshold
            BY <2>5, <2>10, TransferAssumption
        <3>2. "tx_empty" \notin ena
            BY <1>4, <3>1 DEF Status
        <3>3. \A q \in 1 .. n : EntryPut(dq[q])
            BY <3>2 DEF Attended, n
        <3>4. n \in Nat /\ TxOf(n, dq, T, sent, <<>>)
            BY <1>1, <1>2, <3>1
        <3> QED BY <1>1, <2>8, <2>10, <3>3, <3>4, NoWriteLeft
    <2> QED BY <2>5, <2>9, <2>10
<1> QED BY <1>5, <1>6

\* what the handler and the controller leave alone
LEMMA EntryPutStays ==
    ASSUME NEW n, NEW d, NEW e, NEW q \in 1 .. n, EntryPut(d[q]),
           Continues(n, d, e) \/ (SameFlags(n, d, e) /\ SamePuts(n, d, e)),
           d[q].mode \in {"READ", "WRITE"}
    PROVE  EntryPut(e[q])
<1>1. CASE Continues(n, d, e)
    BY <1>1 DEF Continues, Alike, EntryPut
<1>2. CASE SameFlags(n, d, e) /\ SamePuts(n, d, e)
    <2>1. /\ e[q].mode = d[q].mode /\ e[q].addrReq = d[q].addrReq /\ e[q].length = d[q].length
          /\ e[q].addrSent = d[q].addrSent
          /\ d[q].mode = "WRITE" => e[q].position = d[q].position
        BY <1>2 DEF SameFlags, SamePuts, Moves
    <2> QED BY <2>1 DEF EntryPut
<1> QED BY <1>1, <1>2

\* the queue moves on while the handler is at work
LEMMA AttendedOn ==
    ASSUME TypeInv, Attended, NEW n, n = Len(dq), n \in Nat \ {0},
           dq' \in [1 .. n -> Item], Len(dq)' = n,
           stage' # "DONE", active' \subseteq active \/ "tx_empty" \in ena',
           {"rx_full", "trans_complete"} \cap ena \subseteq ena',
           "end_detect" \in ena /\ "end_detect" \notin ena' => dq'[n].stopCmdSent,
           "tx_empty" \in ena /\ "tx_empty" \notin ena' =>
               (\A q \in 1 .. n : EntryPut(dq'[q])) /\ "tx_empty" \notin active',
           \/ Continues(n, dq, dq')
           \/ SameFlags(n, dq, dq') /\ SamePuts(n, dq, dq')
           \/ SameFlags(n, dq, dq') /\ ("tx_empty" \in ena' \/ \A q \in 1 .. n : EntryPut(dq'[q])),
           ~hw'.run => raw' \cap {"end_detect", "trans_complete"} # {}
    PROVE  Attended'
<1>1. /\ dq \in [1 .. n -> Item] /\ n \in 1 .. n
    BY QueueTyped
<1>2. \A q \in 1 .. n : dq[q].mode \in {"READ", "WRITE"}
    BY <1>1, ItemTyped
<1>3. "tx_empty" \notin ena' => \A q \in 1 .. n : EntryPut(dq'[q])
    <2> SUFFICES ASSUME "tx_empty" \notin ena', NEW q \in 1 .. n PROVE EntryPut(dq'[q])
        OBVIOUS
    <2>1. CASE "tx_empty" \in ena
        BY <2>1
    <2>2. CASE "tx_empty" \notin ena
        <3>1. EntryPut(dq[q])
            BY <2>2 DEF Attended
        <3> QED BY <1>2, <3>1, EntryPutStays
    <2> QED BY <2>1, <2>2
<1>4. "end_detect" \notin ena' => dq'[n].stopCmdSent
    <2> SUFFICES ASSUME "end_detect" \notin ena' PROVE dq'[n].stopCmdSent
        OBVIOUS
    <2>1. CASE "end_detect" \in ena
        BY <2>1
    <2>2. CASE "end_detect" \notin ena
        <3>1. dq[n].stopCmdSent
            BY <2>2 DEF Attended
        <3> QED BY <1>1, <3>1 DEF Continues, Alike, SameFlags, Moves
    <2> QED BY <2>1, <2>2
<1>5. {"rx_full", "trans_complete"} \subseteq ena'
    BY DEF Attended
<1>6. "tx_empty" \in active' => "tx_empty" \in ena'
    BY DEF Attended
<1> QED BY <1>3, <1>4, <1>5, <1>6 DEF Attended

\* what is so before a step, as long as no mishap has come
Calm == TypeInv /\ ListInv /\ WholeInv /\ CleanInv /\ mishaps = {}

LEMMA CalmIs ==
    ASSUME Calm, pc \in {"start", "wait", "judge"}
    PROVE  /\ TypeInv /\ ListInv /\ Before /\ hw \in HwState /\ InStep /\ Exits /\ Unhurt
           /\ exitCode = "OK" => Frozen
           /\ pc = "start" => /\ exitCode = "none" /\ active = {} /\ raw = {}
                              /\ stage = "DONE" /\ ~hw.run
           /\ exitCode \in {"none", "OK"}
<1>1. Undeceived
    BY DEF Calm, Undeceived
<1>2. InStep /\ Before /\ hw \in HwState
    BY <1>1 DEF Calm, WholeInv, Live
<1>3. Exits
    BY <1>2 DEF InStep
<1>4. Unhurt
    BY DEF Calm, CleanInv
<1> QED BY <1>2, <1>3, <1>4 DEF Calm, Exits, Unhurt

\* the task waits and the handler has not left yet: so it must stay
CleanWaits ==
    /\ (raw \cup active) \cap Hurts = {} /\ exitCode = "none" /\ ~wakeup /\ ~eventDone
    /\ Attended

LEMMA CleanWaiting ==
    ASSUME Calm, pc = "wait", exitCode # "OK"
    PROVE  CleanWaits /\ exitCode = "none"
BY CalmIs DEF Unhurt, CleanWaits

LEMMA CleanWaited ==
    ASSUME pc' = "wait", CleanWaits'
    PROVE  CleanInv'
BY DEF CleanWaits, CleanInv, Unhurt

LEMMA WaitServed ==
    ASSUME Calm, pc = "wait", exitCode # "OK", active # {}
    PROVE  /\ Serving /\ Len(dq) \in Nat \ {0} /\ dq \in [1 .. Len(dq) -> Item]
           /\ OnlyLastStops(Len(dq), dq) /\ dq[Len(dq)].stop
<1>1. Serving
    BY CalmIs DEF Serving
<1>2. /\ Len(dq) \in Nat \ {0} /\ dq \in [1 .. Len(dq) -> Item]
      /\ OnlyLastStops(Len(dq), dq)
    BY <1>1, ServingIs
<1>3. Len(dq) \in 1 .. Len(dq)
    BY <1>2
<1> QED BY <1>1, <1>2, <1>3 DEF OnlyLastStops

LEMMA IsrEnterClean ==
    ASSUME Calm, pc = "wait", exitCode # "OK", IsrEnter
    PROVE  CleanInv'
<1>1. CleanWaits
    BY CleanWaiting
<1>2. stage # "DONE"
    BY <1>1 DEF CleanWaits, Attended
<1>3. /\ active' = Status /\ ena' = ena /\ raw' = raw /\ pc' = pc /\ exitCode' = exitCode
      /\ wakeup' = wakeup /\ eventDone' = eventDone /\ stage' = stage /\ hw' = hw /\ dq' = dq
    BY <1>2 DEF IsrEnter, Task, taskVars
<1>4. Status \subseteq ena /\ Status \subseteq raw \cup {"tx_empty", "rx_full"}
    BY DEF Status
<1>5. (raw' \cup active') \cap Hurts = {}
    BY <1>1, <1>3, <1>4 DEF CleanWaits, Hurts
<1>6. Attended'
    BY <1>1, <1>3, <1>4 DEF CleanWaits, Attended
<1> QED BY <1>1, <1>3, <1>5, <1>6, CleanWaited DEF CleanWaits

LEMMA IsrTransStartClean ==
    ASSUME Calm, pc = "wait", exitCode # "OK", IsrTransStart
    PROVE  CleanInv'
<1>1. CleanWaits
    BY CleanWaiting
<1>2. /\ active' = active \ {"trans_start"} /\ raw' = raw \ {"trans_start"}
      /\ ena' = ena \cup {"trans_start"} /\ pc' = pc /\ exitCode' = exitCode
      /\ wakeup' = wakeup /\ eventDone' = eventDone /\ hw' = hw /\ dq' = dq
      /\ stage' \in {stage, "RUNNING"}
    BY DEF IsrTransStart, Task, taskVars
<1>3. (raw' \cup active') \cap Hurts = {}
    BY <1>1, <1>2 DEF CleanWaits, Hurts
<1>4. Attended'
    <2>1. raw \cap {"end_detect", "trans_complete"} = raw' \cap {"end_detect", "trans_complete"}
        BY <1>2
    <2>2. stage' # "DONE" /\ Attended
        BY <1>1, <1>2 DEF CleanWaits, Attended
    <2>3. \A i \in {"rx_full", "trans_complete", "tx_empty", "end_detect"} : i \in ena' <=> i \in ena
        BY <1>2
    <2>4. "tx_empty" \in active' => "tx_empty" \in active
        BY <1>2
    <2>5. /\ "tx_empty" \in active => "tx_empty" \in ena
          /\ "tx_empty" \notin ena => \A q \in 1 .. Len(dq) : EntryPut(dq[q])
          /\ "end_detect" \notin ena => dq[Len(dq)].stopCmdSent
          /\ ~hw.run => raw \cap {"end_detect", "trans_complete"} # {}
          /\ {"rx_full", "trans_complete"} \subseteq ena
        BY <2>2 DEF Attended
    <2>6. {"rx_full", "trans_complete"} \subseteq ena'
        BY <2>3, <2>5
    <2> QED BY <1>2, <2>1, <2>2, <2>3, <2>4, <2>5, <2>6 DEF Attended
<1> QED BY <1>1, <1>2, <1>3, <1>4, CleanWaited DEF CleanWaits

LEMMA IsrTxEmptyClean ==
    ASSUME Calm, pc = "wait", exitCode # "OK", IsrTxEmpty, mishaps' = {}
    PROVE  CleanInv'
<1> DEFINE n == Len(dq)
           u == fillTxFifo(dq, queuePos, tx)
<1>1. CleanWaits
    BY CleanWaiting
<1>2. active # {}
    BY DEF IsrTxEmpty, Serve
<1>3. /\ n \in Nat \ {0} /\ dq \in [1 .. n -> Item] /\ dq \in Seq(Item)
      /\ Script(n, dq, Base, Asked) /\ Len(Asked) \in Nat /\ sent \in Nat
      /\ queuePos \in 1 .. n + 1 /\ tx \in TxFifo
      /\ InFifos(n, dq, Asked, sent, tx, rx, queuePos)
    BY <1>2, WaitServed, ServingIs
<1>4. /\ dq' = u.dq /\ raw' = raw /\ active' = active \ {"tx_empty"} /\ hw' = hw
      /\ ena' = (IF u.at > Len(u.dq) THEN ena \ {"tx_empty"} ELSE ena)
      /\ pc' = pc /\ exitCode' = exitCode /\ stage' = stage
      /\ wakeup' = wakeup /\ eventDone' = eventDone /\ "tx_empty" \in active
    BY DEF IsrTxEmpty, Serve, Task, taskVars
<1>5. u \in Sending(n)
    BY <1>3, fillTxFifoTyped
<1>6. \A q \in 1 .. n : q < u.queuePos => u.dq[q].stopCmdSent
    <2>1. ~ \E q \in 1 .. u.queuePos - 1 : ~u.dq[q].stopCmdSent
        <3>1. (\E q \in 1 .. u.queuePos - 1 : ~u.dq[q].stopCmdSent) => "skipped" \in mishaps'
            BY DEF IsrTxEmpty
        <3> QED BY <3>1
    <2>2. u.queuePos \in 1 .. n + 1
        BY <1>5 DEF Sending
    <2> HIDE DEF u
    <2> QED BY <1>3, <2>1, <2>2
<1>7. SameFlags(n, dq, u.dq) /\ (u.at > n => \A q \in 1 .. n : EntryPut(u.dq[q]))
    <2>1. u = fillTxFifo(dq, queuePos, tx) /\ Len(dq) = n /\ n \in Nat
        BY <1>3
    <2> HIDE DEF u, n
    <2> QED BY <1>3, <1>6, <2>1, TxFilled
<1>8. u.dq \in [1 .. n -> Item] /\ u.at \in 1 .. n + 1
    BY <1>5 DEF Sending
<1>9. Len(dq)' = n /\ Len(u.dq) = n
    BY <1>3, <1>4, <1>8
<1> HIDE DEF u
<1>10. (raw' \cup active') \cap Hurts = {}
    BY <1>1, <1>4 DEF CleanWaits, Hurts
<1>11. Attended /\ "tx_empty" \in ena
    BY <1>1, <1>4 DEF CleanWaits, Attended
<1>12. /\ {"rx_full", "trans_complete"} \cap ena \subseteq ena'
       /\ "end_detect" \in ena => "end_detect" \in ena'
       /\ active' \subseteq active /\ "tx_empty" \notin active'
       /\ "tx_empty" \notin ena' => u.at > n
    BY <1>4, <1>9, <1>11
<1>13. Attended'
    <2>1. TypeInv /\ n = Len(dq)
        BY DEF Calm
    <2>2. stage' # "DONE" /\ (~hw'.run => raw' \cap {"end_detect", "trans_complete"} # {})
        BY <1>4, <1>11 DEF Attended
    <2> HIDE DEF n
    <2>3. "tx_empty" \in ena' \/ \A q \in 1 .. n : EntryPut(dq'[q])
        BY <1>4, <1>7, <1>12
    <2> QED BY <1>3, <1>4, <1>7, <1>8, <1>9, <1>11, <1>12, <2>1, <2>2, <2>3, AttendedOn
<1> QED BY <1>1, <1>4, <1>10, <1>13, CleanWaited DEF CleanWaits

LEMMA IsrRxFullClean ==
    ASSUME Calm, pc = "wait", exitCode # "OK", IsrRxFull
    PROVE  CleanInv'
<1> DEFINE n == Len(dq)
           r == emptyRxFifo(Received)
<1>1. CleanWaits
    BY CleanWaiting
<1>2. PICK interrupt \in {"rx_full", "time_out"} :
          /\ StoreReceived(r)
          /\ active' = active \ {interrupt} /\ raw' = raw \ {interrupt} /\ active # {}
    BY DEF IsrRxFull, Serve
<1>3. /\ hw' = hw /\ pc' = pc /\ exitCode' = exitCode /\ stage' = stage
      /\ ena' = ena \cup {"rx_full"} /\ wakeup' = wakeup /\ eventDone' = eventDone
    BY DEF IsrRxFull, Task, taskVars
<1>4. /\ n \in Nat \ {0} /\ dq \in [1 .. n -> Item] /\ Serving
    BY <1>2, WaitServed
<1>5. /\ dq' \in [1 .. n -> Item] /\ Len(dq)' = n
      /\ SameFlags(n, dq, dq') /\ SamePuts(n, dq, dq')
    <2>1. r \in {Received, emptyRxFifo(Received)}
        OBVIOUS
    <2> HIDE DEF r
    <2> QED BY <1>2, <1>4, <2>1, StoresInStep
<1>6. (raw' \cup active') \cap Hurts = {}
    BY <1>1, <1>2 DEF CleanWaits, Hurts
<1>7. Attended'
    <2>1. TypeInv /\ n = Len(dq) /\ Attended
        BY <1>1 DEF Calm, CleanWaits
    <2>2. raw \cap {"end_detect", "trans_complete"} = raw' \cap {"end_detect", "trans_complete"}
        BY <1>2
    <2>3. stage' # "DONE" /\ (~hw'.run => raw' \cap {"end_detect", "trans_complete"} # {})
        BY <1>3, <2>1, <2>2 DEF Attended
    <2>4. active' \subseteq active /\ ena \subseteq ena'
        BY <1>2, <1>3
    <2> HIDE DEF n
    <2> QED BY <1>4, <1>5, <2>1, <2>3, <2>4, AttendedOn
<1> QED BY <1>1, <1>3, <1>6, <1>7, CleanWaited DEF CleanWaits

LEMMA IsrEndDetectClean ==
    ASSUME Calm, pc = "wait", exitCode # "OK", IsrEndDetect
    PROVE  CleanInv'
<1> DEFINE n == Len(dq)
           u == fillCmdQueue(dq, queuePos, command)
<1>1. CleanWaits
    BY CleanWaiting
<1>2. /\ dq' = u.dq /\ ena' = (ena \ {"end_detect"}) \cup u.ena /\ active # {}
      /\ raw' = (raw \ {"end_detect"}) \cup {"trans_start"} /\ active' = active \ {"end_detect"}
      /\ hw' = Ready /\ pc' = pc /\ exitCode' = exitCode /\ stage' = stage
      /\ wakeup' = wakeup /\ eventDone' = eventDone
    BY DEF IsrEndDetect, Serve, Task, taskVars, Ready
<1>3. /\ n \in Nat \ {0} /\ dq \in [1 .. n -> Item] /\ dq[n].stop
      /\ InFifos(n, dq, Asked, sent, tx, rx, queuePos) /\ command \in CommandList
    BY <1>2, WaitServed, ServingIs
<1>4. queuePos \in 1 .. n /\ queuePos \in 1 .. n + 1 /\ queuePos <= n
    <2>1. queuePos \in 1 .. n
        BY <1>3 DEF InFifos, PlaceOf, AtPlace
    <2> QED BY <1>3, <2>1
<1>5. StartsAddressed(dq) /\ InOrder(n, dq, queuePos)
    BY DEF Calm, ListInv
<1>6. u = fillCmdQueue(dq, queuePos, command) /\ n = Len(dq)
    OBVIOUS
<1> HIDE DEF u, n
<1>7. u.dq \in [1 .. n -> Item] /\ ("end_detect" \in u.ena \/ u.dq[n].stopCmdSent)
    BY <1>3, <1>4, <1>5, <1>6, fillCmdQueueWellFormed
<1>8. Continues(n, dq, u.dq)
    BY <1>3, <1>4, <1>6, fillCmdQueueContinues
<1>9. Len(dq)' = n
    BY <1>2, <1>3, <1>7
<1>10. (raw' \cup active') \cap Hurts = {}
    BY <1>1, <1>2 DEF CleanWaits, Hurts
<1>11. Attended'
    <2>1. TypeInv /\ Attended
        BY <1>1 DEF Calm, CleanWaits
    <2>2. stage' # "DONE" /\ hw'.run
        BY <1>2, <2>1 DEF Attended, Ready
    <2>3. /\ active' \subseteq active /\ {"rx_full", "trans_complete"} \cap ena \subseteq ena'
          /\ "tx_empty" \in ena => "tx_empty" \in ena'
          /\ "end_detect" \notin ena' => dq'[n].stopCmdSent
        BY <1>2, <1>7
    <2> QED BY <1>2, <1>3, <1>6, <1>7, <1>8, <1>9, <2>1, <2>2, <2>3, AttendedOn
<1> QED BY <1>1, <1>2, <1>10, <1>11, CleanWaited DEF CleanWaits

LEMMA HandlerClean ==
    ASSUME Calm, Handler, mishaps' = {}
    PROVE  CleanInv'
<1>1. pc' = pc /\ reason' = reason /\ eBits' = eBits
    BY DEF Handler, IsrEnter, IsrTransStart, IsrTxEmpty, IsrRxFull, IsrAckErr,
           IsrTransComplete, IsrArbitration, IsrEndDetect, i2cIsrExit, Task, taskVars
<1>2. CASE pc \notin {"start", "wait", "judge"}
    BY <1>1, <1>2 DEF Calm, CleanInv
<1>3. CASE pc \in {"start", "wait", "judge"}
    <2>1. exitCode # "OK"
        BY <1>3, CalmIs, FrozenIdle
    <2>2. pc # "judge"
        BY <1>3, <2>1, CalmIs DEF Unhurt
    <2>3. CASE pc = "start"
        <3>1. active = {} /\ raw = {} /\ stage = "DONE" /\ exitCode = "none" /\ Unhurt
            BY <2>3, CalmIs
        <3>2. IsrEnter
            BY <3>1 DEF Handler, IsrTransStart, IsrTxEmpty, IsrRxFull, IsrAckErr,
                        IsrTransComplete, IsrArbitration, IsrEndDetect, Serve
        <3>3. /\ raw' = {} /\ active' = {} /\ exitCode' = exitCode /\ pc' = "start"
              /\ wakeup' = wakeup /\ eventDone' = eventDone
            BY <1>1, <2>3, <3>1, <3>2 DEF IsrEnter
        <3>4. (raw' \cup active') \cap Hurts = {}
            BY <3>3
        <3> QED BY <3>1, <3>3, <3>4 DEF CleanInv, Unhurt
    <2>4. CASE pc = "wait"
        <3>1. (raw \cup active) \cap Hurts = {} /\ ~wakeup /\ ~eventDone
            BY <2>1, <2>4, CleanWaiting DEF CleanWaits
        <3>2. ~IsrAckErr /\ ~IsrArbitration
            BY <3>1 DEF Hurts, IsrAckErr, IsrArbitration, Serve
        <3>3. CASE IsrTransComplete
            <4>1. /\ raw' = {} /\ active' = {} /\ exitCode' = "OK" /\ pc' = "wait"
                BY <1>1, <2>4, <3>3 DEF IsrTransComplete, i2cIsrExit
            <4>2. (raw' \cup active') \cap Hurts = {}
                BY <4>1
            <4> QED BY <4>1, <4>2 DEF CleanInv, Unhurt
        <3> QED BY <2>1, <2>4, <3>2, <3>3, IsrEnterClean, IsrTransStartClean, IsrTxEmptyClean,
                   IsrRxFullClean, IsrEndDetectClean DEF Handler
    <2> QED BY <1>3, <2>2, <2>3, <2>4
<1> QED BY <1>2, <1>3

\* the controller goes on, or asks for the handler
LEMMA ControllerClean ==
    ASSUME Calm, Controller, mishaps' = {}
    PROVE  CleanInv'
<1>1. ~HwFault
    BY DEF HwFault, Disturb
<1>2. Execute
    BY <1>1 DEF Controller
<1>3. /\ pc' = pc /\ reason' = reason /\ eBits' = eBits /\ dq' = dq /\ ena' = ena
      /\ stage' = stage /\ exitCode' = exitCode /\ wakeup' = wakeup /\ eventDone' = eventDone
      /\ active' = active /\ hw.run
    BY <1>2 DEF Execute, Driver, taskVars, isrVars
<1>4. CASE pc \notin {"start", "wait", "judge"}
    BY <1>3, <1>4 DEF Calm, CleanInv
<1>5. CASE pc \in {"start", "wait", "judge"}
    <2>1. exitCode # "OK" /\ pc # "start"
        BY <1>3, <1>5, CalmIs DEF Frozen
    <2>2. pc = "wait"
        BY <1>5, <2>1, CalmIs DEF Unhurt
    <2>3. CleanWaits /\ hw \in HwState
        BY <2>1, <2>2, CleanWaiting, CalmIs
    <2>4. \/ raw' = raw /\ hw'.run
          \/ raw' = raw \cup {"end_detect"}
          \/ raw' = raw \cup {"trans_complete"}
        <3>1. \A num \in Nat : Step(num) = NextHw(hw, num) /\ NextHw(hw, num).run
            BY <1>3, <2>3, NextHwTyped DEF Step, NextHw
        <3>2. CASE HwStart
            BY <3>1, <3>2 DEF HwStart
        <3>3. CASE HwDummy
            BY <3>1, <3>3 DEF HwDummy
        <3>4. ASSUME NEW num, num = Current.num, num > 0, hw' = Step(num) PROVE hw'.run
            <4>1. num \in Nat
                <5>1. hw.ip \in 0 .. Slots - 1 /\ command \in CommandList
                    <6>1. hw.ip < Slots /\ hw.ip \in Nat
                        BY <1>2, <2>3 DEF Execute, HwState
                    <6> QED BY <6>1, CommandsAssumption DEF Calm, TypeInv
                <5>2. command[hw.ip] \in Command
                    BY <5>1 DEF CommandList
                <5> QED BY <3>4, <5>2 DEF Current, Command
            <4> QED BY <3>1, <3>4, <4>1
        <3>5. CASE HwWrite
            <4>1. hw' = Step(Current.num) /\ Current.num > 0 /\ raw' = raw
                BY <3>5 DEF HwWrite, Disturb
            <4> QED BY <3>4, <4>1
        <3>6. CASE HwRead
            <4>1. hw' = Step(Current.num) /\ Current.num > 0 /\ raw' = raw
                BY <3>6 DEF HwRead
            <4> QED BY <3>4, <4>1
        <3>7. CASE HwStop \/ HwEnd
            BY <3>7 DEF HwStop, HwEnd, Latch
        <3> QED BY <1>2, <3>2, <3>3, <3>5, <3>6, <3>7 DEF Execute
    <2>5. (raw' \cup active') \cap Hurts = {}
        BY <1>3, <2>3, <2>4 DEF CleanWaits, Hurts
    <2>6. ~hw'.run => raw' \cap {"end_detect", "trans_complete"} # {}
        BY <2>4
    <2>7. Attended'
        BY <1>3, <2>3, <2>6 DEF CleanWaits, Attended
    <2> QED BY <1>3, <2>2, <2>3, <2>5, <2>7, CleanWaited DEF CleanWaits
<1> QED BY <1>4, <1>5

\* the wait ends when the handler has left with success
LEMMA CallerClean ==
    ASSUME Calm, Caller, mishaps' = {}
    PROVE  CleanInv'
<1>1. CASE Prepare
    <2>1. ~StillServed /\ ~wakeup
        BY <1>1 DEF Prepare
    <2>2. /\ pc' = "start" /\ raw' = {} /\ active' = {} /\ exitCode' = "none"
          /\ ~wakeup' /\ ~eventDone'
        BY <1>1, <2>1 DEF Prepare, StillServed
    <2>3. (raw' \cup active') \cap Hurts = {}
        BY <2>2
    <2> QED BY <2>2, <2>3 DEF CleanInv, Unhurt
<1>2. CASE Launch
    <2>1. pc = "start" /\ pc' = "wait"
        BY <1>2 DEF Launch
    <2>2. exitCode = "none" /\ active = {} /\ raw = {} /\ Unhurt
        BY <2>1, CalmIs
    <2>3. /\ raw' = {"trans_start"} /\ active' = {} /\ ena' = Interrupts /\ stage' = "STARTUP"
          /\ hw' = Ready /\ exitCode' = "none" /\ wakeup' = wakeup /\ eventDone' = eventDone
        BY <1>2, <2>2 DEF Launch, Latch, Ready
    <2>4. ~wakeup /\ ~eventDone
        BY <2>2 DEF Unhurt
    <2>5. (raw' \cup active') \cap Hurts = {}
        BY <2>3 DEF Hurts
    <2>6. Attended'
        BY <2>3 DEF Attended, Interrupts, Ready
    <2> QED BY <2>1, <2>3, <2>4, <2>5, <2>6, CleanWaited DEF CleanWaits
<1>3. CASE WaitEnds
    <2>1. pc = "wait" /\ pc' = "judge" /\ eBits' = exitCode /\ exitCode' = exitCode
          /\ raw' = raw /\ active' = active /\ wakeup' = wakeup /\ eventDone' = eventDone
        BY <1>3 DEF WaitEnds, isrVars, hwVars
    <2>2. eventDone \/ wakeup \/ Quiet
        BY <1>3 DEF WaitEnds, Disturb
    <2>3. Unhurt
        BY <2>1, CalmIs
    <2>4. exitCode = "OK"
        <3>1. SUFFICES ASSUME exitCode # "OK" PROVE FALSE
            OBVIOUS
        <3>2. CleanWaits
            BY <2>1, <3>1, CleanWaiting
        <3>3. ~Quiet
            BY <2>1, <3>2, CalmIs, NeverQuiet DEF CleanWaits
        <3> QED BY <2>2, <3>2, <3>3 DEF CleanWaits
    <2>5. (raw' \cup active') \cap Hurts = {}
        BY <2>1, <2>3 DEF Unhurt
    <2> QED BY <2>1, <2>4, <2>5 DEF CleanInv, Unhurt
<1>4. CASE Judge
    <2>1. pc = "judge" /\ pc' = "ended"
        BY <1>4 DEF Judge
    <2>2. exitCode = "OK" /\ eBits = "OK"
        BY <2>1, CalmIs DEF Unhurt
    <2>3. reason' = Reason("OK")
        BY <1>4, <2>2 DEF Judge
    <2>4. Reason("OK") = "OK"
        BY DEF Reason
    <2> QED BY <2>1, <2>3, <2>4 DEF CleanInv
<1>5. CASE Reinit
    <2>1. pc = "ended" /\ reason = "BUSY"
        BY <1>5 DEF Reinit
    <2> QED BY <2>1 DEF Calm, CleanInv
<1>6. CASE BusBusy
    BY <1>6 DEF BusBusy
<1>7. CASE AddQueue
    <2>1. pc' \in {"proc", "idle"}
        BY <1>7 DEF AddQueue
    <2> QED BY <2>1 DEF CleanInv
<1>8. CASE i2cFlush
    BY <1>8 DEF i2cFlush, CleanInv
<1> QED BY <1>1, <1>2, <1>3, <1>4, <1>5, <1>6, <1>7, <1>8 DEF Caller

LEMMA CleanStep ==
    TypeInv /\ ListInv /\ WholeInv /\ CleanInv /\ [Next]_vars => CleanInv'
<1> SUFFICES ASSUME TypeInv, ListInv, WholeInv, CleanInv, [Next]_vars, mishaps' = {}
             PROVE  CleanInv'
    BY DEF CleanInv
<1>1. CASE pc' = "idle"
    BY <1>1 DEF CleanInv
<1>2. CASE pc' # "idle"
    <2>1. Calm
        BY <1>2, MishapsStay DEF Calm
    <2>2. CASE TimerTask
        <3>1. /\ wakeup /\ pc' = pc /\ reason' = reason /\ eBits' = eBits /\ dq' = dq
              /\ hw' = hw /\ ena' = ena /\ raw' = raw /\ active' = active
              /\ stage' = stage /\ exitCode' = exitCode
            BY <2>2 DEF TimerTask, Task, taskVars, hwVars
        <3>2. CASE pc \in {"start", "wait", "judge"}
            <4>1. Unhurt /\ exitCode = "OK"
                BY <2>1, <3>1, <3>2, CalmIs DEF Unhurt
            <4> QED BY <3>1, <3>2, <4>1 DEF CleanInv, Unhurt
        <3>3. CASE pc \notin {"start", "wait", "judge"}
            BY <2>1, <3>1, <3>3 DEF Calm, CleanInv
        <3> QED BY <3>2, <3>3
    <2>3. CASE UNCHANGED vars
        BY <2>3 DEF vars, taskVars, isrVars, hwVars, history, CleanInv, Unhurt, Attended
    <2> QED BY <2>1, <2>2, <2>3, CallerClean, HandlerClean, ControllerClean DEF Next
<1> QED BY <1>1, <1>2

LEMMA CleanInit == Init => CleanInv
BY DEF Init, CleanInv

LEMMA CleanImplies == WholeInv /\ CleanInv => CleanSucceeds
<1> SUFFICES ASSUME WholeInv, CleanInv, Ended, mishaps = {} PROVE reason = "OK" /\ Whole
    BY DEF CleanSucceeds
<1>1. reason = "OK"
    BY DEF CleanInv, Ended
<1> QED BY <1>1, WholeImplies DEF SuccessIsWhole

\* A transfer that no mishap befalls never runs into its time-out: as long as it is not
\* complete, the controller can go on or an interrupt calls the handler, and the handler
\* leaves with success, which the caller is told whether or not the event bits come.  That
\* is: neither the slave nor the clock disturbs it; it finds the bus free and no handler at
\* work; no event bits of an earlier transfer are still to come; it is no second attempt;
\* and its queue is one of which no entry is passed before its commands are all listed.
THEOREM CleanTransfersSucceed == Spec => []CleanSucceeds
<1>1. Init => TypeInv /\ ListInv /\ WholeInv /\ CleanInv
    BY TypeInit, ListInit, WholeInit, CleanInit
<1>2. (TypeInv /\ ListInv /\ WholeInv /\ CleanInv) /\ [Next]_vars
          => (TypeInv /\ ListInv /\ WholeInv /\ CleanInv)'
    BY TypeStep, ListStep, WholeStep, CleanStep
<1>3. TypeInv /\ ListInv /\ WholeInv /\ CleanInv => CleanSucceeds
    BY CleanImplies
<1> QED BY <1>1, <1>2, <1>3, PTL DEF Spec

-----------------------------------------------------------------------------
(* The walk from the last byte on the bus.                                  *)

\* For the last byte on the bus the walk tells whether it is one of an address.
LEMMA Blames ==
    ASSUME Len(dq) \in Nat, dq \in [1 .. Len(dq) -> Item],
           NEW B, NEW T, Script(Len(dq), dq, B, T), OnlyLastStops(Len(dq), dq), Len(T) \in Nat,
           NEW s \in 1 .. Len(T), T[s].ev = "WRITE", NEW t, TxOf(Len(dq), dq, T, s, t),
           Counts(Len(dq), dq, B, s, BytesMoved)
    PROVE  ByteReached.bc < 0 <=> T[s].b < 0
<1> DEFINE n == Len(dq)
<1>1. s \in Nat \ {0}
    OBVIOUS
<1>2. PICK q \in 1 .. n :
          s - B[q] \in 1 .. 1 + dq[q].addrReq + dq[q].length /\ BytesMoved = s - q
    BY <1>1 DEF Counts
<1> DEFINE j == s - B[q]
           r == dq[q].addrReq
           len == dq[q].length
           a == dq[q].addrSent
           b == B[q]
           z == Size(dq[q])
<1>3. /\ r \in Nat /\ len \in Nat /\ a \in Nat /\ a <= r /\ b \in Nat /\ z \in Nat
      /\ 1 + r + len \in 1 .. z
    BY SizeTyped, ItemTyped
<1>4. j \in 1 .. z /\ j <= 1 + r + len /\ b + j = s /\ j \in Nat
    <2>1. j \in 1 .. 1 + r + len /\ j = s - b
        BY <1>2
    <2> HIDE DEF j, r, len, b, z
    <2> QED BY <1>1, <1>3, <2>1
<1>5. \A m \in 1 .. s : T[m].ev = "WRITE" => Put(dq, T[m])
    <2>1. PICK g \in s .. Len(T) : PutUpTo(T, dq, g)
        BY DEF TxOf
    <2>2. \A m \in 1 .. s : m \in 1 .. Len(T) /\ m <= g
        BY <2>1
    <2> QED BY <2>1, <2>2 DEF PutUpTo
<1>6. /\ j > 1 /\ T[s].b = j - 2 - r
      /\ j <= 1 + r => T[s].b < 0 /\ (Put(dq, T[s]) <=> j - 1 <= a)
      /\ j > 1 + r => ~(T[s].b < 0)
    <2>1. T[B[q] + j] = T[s] /\ j \in 1 .. Size(dq[q])
        BY <1>4
    <2> HIDE DEF j
    <2> QED BY <2>1, PutOf
<1>7. Put(dq, T[s])
    BY <1>1, <1>5
<1>8. j > 1 + r => a = r
    <2> SUFFICES ASSUME j > 1 + r PROVE a = r
        OBVIOUS
    <2> DEFINE k == 1 + r
    <2>1. k \in 1 .. z /\ b + k \in 1 .. s /\ k \in Nat /\ k > 1 /\ k <= 1 + r
        <3>1. r # 0
            BY ItemTyped
        <3> HIDE DEF j, r, len, b, z, a
        <3> QED BY <1>3, <1>4, <3>1
    <2>2. T[B[q] + k] = EventOf(dq[q], q, k) /\ dq[q] \in Item
        BY <2>1 DEF Script
    <2> HIDE DEF k
    <2>3. EventOf(dq[q], q, k).ev = "WRITE"
        BY <2>1, <2>2, EventAddress
    <2>4. Put(dq, T[B[q] + k])
        BY <1>5, <2>1, <2>2, <2>3
    <2>5. Put(dq, T[B[q] + k]) <=> k - 1 <= a
        <3>1. T[B[q] + k].ev = "WRITE" /\ k \in 1 .. Size(dq[q])
            BY <2>1, <2>2, <2>3
        <3>2. k <= 1 + dq[q].addrReq => (Put(dq, T[B[q] + k]) <=> k - 1 <= dq[q].addrSent)
            <4> HIDE DEF r, a, n, b, len, z, j
            <4> QED BY <3>1, PutOf DEF n
        <3> QED BY <2>1, <3>2
    <2>6. k - 1 = r
        <3> HIDE DEF r
        <3> QED BY <1>3 DEF k
    <2> HIDE DEF r, a
    <2> QED BY <1>3, <2>4, <2>5, <2>6
<1>9. ASSUME NEW p \in 1 .. n, p < q PROVE dq[p].addrSent = dq[p].addrReq
    <2>1. B[p] + Size(dq[p]) <= B[q] /\ B[p] \in Nat /\ Size(dq[p]) \in Nat
        BY <1>9, ScriptFits DEF Script
    <2>2. B[p] + Size(dq[p]) < s
        <3>1. b < s
            <4> HIDE DEF j, b
            <4> QED BY <1>3, <1>4
        <3> QED BY <1>3, <2>1, <3>1
    <2>3. \A m \in 1 .. s - 1 : T[m].ev = "WRITE" => Put(dq, T[m])
        BY <1>5
    <2>4. n \in Nat /\ dq \in [1 .. n -> Item] /\ Script(n, dq, B, T) /\ p \in 1 .. n /\ s \in Nat
        BY <1>1
    <2> HIDE DEF n
    <2>5. /\ dq[p].addrSent = dq[p].addrReq
          /\ dq[p].mode = "WRITE" => dq[p].position = dq[p].length
        BY ONLY <2>2, <2>3, <2>4, WritesBefore
    <2> QED BY ONLY <2>5
<1> DEFINE i == j - 1
<1>10. PutTo(n, dq, q, i) /\ BytesMoved = i + B[q] - q + 1 /\ (i <= r <=> T[s].b < 0)
    <2>1. /\ i \in 1 .. r + len /\ (i <= r => i <= a) /\ (i > r => a = r)
          /\ (i <= r <=> T[s].b < 0) /\ s - q = i + b - q + 1
        <3> DEFINE y == T[s].b
        <3>1. /\ r \in Nat /\ len \in Nat /\ a \in Nat /\ b \in Nat /\ s \in Nat /\ q \in Nat
              /\ j \in Nat /\ j <= 1 + r + len /\ b + j = s
              /\ j > 1 /\ (j <= 1 + r => y < 0 /\ j - 1 <= a)
              /\ (j > 1 + r => ~(y < 0) /\ a = r) /\ i = j - 1
            <4> HIDE DEF j, r, len, b, z, a
            <4> QED BY <1>1, <1>3, <1>4, <1>6, <1>7, <1>8 DEF i
        <3> HIDE DEF i, j, r, len, b, z, a, y
        <3>2. i \in 1 .. r + len /\ s - q = i + b - q + 1
            BY ONLY <3>1
        <3>3. (i <= r => i <= a) /\ (i > r => a = r) /\ (i <= r <=> y < 0)
            <4>1. CASE i <= r
                BY <3>1, <4>1
            <4>2. CASE ~(i <= r)
                BY <3>1, <4>2
            <4> QED BY <4>1, <4>2
        <3> QED BY <3>2, <3>3 DEF y
    <2> HIDE DEF i
    <2> QED BY <1>2, <1>9, <2>1 DEF PutTo
<1> HIDE DEF i, j
<1>11. ByteReached.bc < 0 <=> i <= dq[q].addrReq
    BY <1>10, WalkEnds
<1> QED BY <1>10, <1>11

-----------------------------------------------------------------------------
(* The invariant behind NakBlamed: until the handler leaves, the bytes that *)
(* were moved are those that were on the bus, and a refused byte was the    *)
(* last of them.                                                            *)

Counted ==
    sent < Len(Asked) =>
        Counts(Len(dq), dq, Base, sent, BytesIn(dq) - Len(tx) + Len(rx))

RefusedLast ==
    /\ ~hw.run /\ "end_detect" \notin raw \cup active
    /\ sent \in 1 .. Len(Asked) /\ Asked[sent].ev = "WRITE" /\ Asked[sent].b = refused.b

Refuses == Counted /\ ("ack_err" \in raw \cup active => RefusedLast)

Naks == exitCode \in {"ADDR_NAK", "DATA_NAK"}

Blamed == exitCode = "ADDR_NAK" <=> refused.b < 0

NakInv ==
    /\ Live => /\ exitCode = "none" => Refuses
               /\ Naks => Blamed /\ ~hw.run
    /\ pc = "ended" /\ reason = "ACK" /\ Undeceived =>
          Naks /\ Blamed /\ ~hw.run /\ active = {} /\ ena = {}

\* as many bytes as before are moved, and the controller does not go on
LEMMA RefusesKept ==
    ASSUME TypeInv, Before, Refuses, NEW d, d = dq', Len(dq)' = Len(dq),
           d \in [1 .. Len(dq) -> Item], Static(Len(dq), dq, d),
           BytesIn(d) - Len(tx') + Len(rx') = BytesIn(dq) - Len(tx) + Len(rx),
           sent' = sent, refused' = refused,
           \/ "ack_err" \notin raw' \cup active'
           \/ /\ hw' = hw
              /\ \A i \in {"ack_err", "end_detect"} :
                    i \in raw' \cup active' => i \in raw \cup active
    PROVE  Refuses'
<1>1. Asked' = Asked /\ Base' = Base
    BY ScriptKept
<1>2. Counted'
    <2>1. sent < Len(Asked) => Counts(Len(dq), dq, Base, sent, BytesIn(dq) - Len(tx) + Len(rx))
        BY DEF Refuses, Counted
    <2>2. Len(dq) \in Nat
        BY QueueTyped
    <2>3. sent < Len(Asked) => Counts(Len(dq), d, Base, sent, BytesIn(d) - Len(tx') + Len(rx'))
        BY <2>1, <2>2, CountsSame
    <2> QED BY <1>1, <2>3 DEF Counted
<1>3. ("ack_err" \in raw \cup active => RefusedLast)'
    <2> SUFFICES ASSUME "ack_err" \in raw' \cup active' PROVE RefusedLast'
        OBVIOUS
    <2>1. RefusedLast /\ hw' = hw /\ "end_detect" \notin raw' \cup active'
        BY DEF Refuses, RefusedLast
    <2> QED BY <1>1, <2>1 DEF RefusedLast
<1> QED BY <1>2, <1>3 DEF Refuses

\* queue and FIFOs are left alone
LEMMA RefusesHeld ==
    ASSUME TypeInv, Before, Refuses, dq' = dq, tx' = tx, rx' = rx,
           sent' = sent, refused' = refused,
           \/ "ack_err" \notin raw' \cup active'
           \/ /\ hw' = hw
              /\ \A i \in {"ack_err", "end_detect"} :
                    i \in raw' \cup active' => i \in raw \cup active
    PROVE  Refuses'
<1>1. dq \in [1 .. Len(dq) -> Item] /\ Static(Len(dq), dq, dq)
    BY QueueTyped DEF Static
<1>2. dq = dq' /\ Len(dq)' = Len(dq)
    OBVIOUS
<1>3. BytesIn(dq) - Len(tx') + Len(rx') = BytesIn(dq) - Len(tx) + Len(rx)
    OBVIOUS
<1> QED BY <1>1, <1>2, <1>3, RefusesKept

-----------------------------------------------------------------------------
(* The steps of the controller. *)

\* the event that comes is the next, since what was asked for is not garbled
LEMMA OnBusWas ==
    ASSUME NEW event, OnBus(event), ~garbled', sent \in Nat, Len(Asked) \in Nat
    PROVE  sent' = sent + 1 /\ sent + 1 \in 1 .. Len(Asked) /\ Asked[sent + 1] = event
<1> DEFINE right == ~garbled /\ sent < Len(Asked) /\ Asked[sent + 1] = event
<1>1. IF right THEN sent' = sent + 1 /\ UNCHANGED garbled
               ELSE garbled' = TRUE /\ UNCHANGED sent
    BY AskedIs DEF OnBus
<1>2. right
    BY <1>1
<1> QED BY <1>1, <1>2

\* the state the controller works in, and after its step
Refusing ==
    /\ Working /\ InStep' /\ Refuses

LEMMA RefusingIs ==
    ASSUME Refusing
    PROVE  /\ Len(dq) \in Nat \ {0} /\ dq \in [1 .. Len(dq) -> Item] /\ Len(Asked) \in Nat
           /\ Script(Len(dq), dq, Base, Asked) /\ OnlyLastStops(Len(dq), dq)
           /\ sent \in Nat /\ Len(tx) \in Nat /\ Len(rx) \in Nat /\ BytesIn(dq) \in Int
           /\ Asked' = Asked /\ Base' = Base /\ dq' = dq /\ active' = active
           /\ ~garbled' /\ "ack_err" \notin raw \cup active /\ hw.run
           /\ sent < Len(Asked) =>
                 Counts(Len(dq), dq, Base, sent, BytesIn(dq) - Len(tx) + Len(rx))
<1>1. /\ Len(dq) \in Nat \ {0} /\ dq \in [1 .. Len(dq) -> Item] /\ Len(Asked) \in Nat
      /\ Script(Len(dq), dq, Base, Asked) /\ OnlyLastStops(Len(dq), dq)
    BY Scripted DEF Refusing, Working
<1>2. sent \in Nat
    BY <1>1, WorkingIs DEF Refusing
<1>3. Len(tx) \in Nat /\ Len(rx) \in Nat
    BY DEF Refusing, Working, TypeInv, TxFifo, RxFifo
<1>4. BytesIn(dq) \in Int
    BY <1>1, BytesInTyped
<1>5. dq' = dq /\ active' = active
    BY DEF Refusing, Working, Driver, isrVars
<1>6. Asked' = Asked /\ Base' = Base
    BY <1>5, ScriptHeld DEF Refusing, Working
<1>7. ~garbled'
    BY DEF Refusing, InStep
<1>8. hw.run /\ "ack_err" \notin raw \cup active
    BY DEF Refusing, Refuses, RefusedLast, Working
<1> QED BY <1>1, <1>2, <1>3, <1>4, <1>5, <1>6, <1>7, <1>8 DEF Refusing, Refuses, Counted

LEMMA RefusesAfter ==
    ASSUME Refusing, sent' = sent + 1, sent + 1 \in 1 .. Len(Asked),
           Counts(Len(dq), dq, Base, sent + 1, BytesIn(dq) - Len(tx') + Len(rx')),
           "ack_err" \in raw' => RefusedLast'
    PROVE  Refuses'
<1>1. Counted'
    BY RefusingIs DEF Counted
<1>2. "ack_err" \notin active'
    BY RefusingIs
<1> QED BY <1>1, <1>2 DEF Refuses

\* the end of the list is found only when the controller has stopped there
LEMMA RunningNoEnd ==
    ASSUME Working
    PROVE  "end_detect" \notin raw \cup active
<1>1. hw.run /\ ListOf(Len(dq), dq, Base, Asked, sent, command, hw, raw \cup active)
    BY WorkingIs DEF Working
<1>2. PICK f, l : Tells(Asked, l, sent, hw, raw \cup active)
    BY <1>1, ListOpened
<1> QED BY <1>1, <1>2 DEF Tells

LEMMA HwStartRefuses ==
    ASSUME Refusing, HwStart
    PROVE  Refuses'
<1>1. /\ OnBus(Event("START", 0, 0, FALSE)) /\ tx' = tx /\ rx' = rx /\ raw' = raw
    BY DEF HwStart
<1>2. /\ sent' = sent + 1 /\ sent + 1 \in 1 .. Len(Asked)
      /\ Asked[sent + 1] = Event("START", 0, 0, FALSE)
    BY <1>1, RefusingIs, OnBusWas
<1>3. Asked[sent + 1].ev = "START"
    BY <1>2 DEF Event
<1> DEFINE m == BytesIn(dq) - Len(tx) + Len(rx)
<1>4. m \in Int /\ Counts(Len(dq), dq, Base, sent, m)
    BY <1>2, RefusingIs
<1>5. Counts(Len(dq), dq, Base, sent + 1, m)
    <2> HIDE DEF m
    <2> QED BY <1>2, <1>3, <1>4, RefusingIs, CountsStart
<1>6. "ack_err" \notin raw'
    BY <1>1, RefusingIs
<1> QED BY <1>1, <1>2, <1>5, <1>6, RefusesAfter

LEMMA HwWriteRefuses ==
    ASSUME Refusing, HwWrite
    PROVE  Refuses'
<1>1. /\ OnBus(WriteEvent(Head(tx))) /\ tx # <<>> /\ tx' = Tail(tx) /\ rx' = rx
      /\ \/ raw' = raw
         \/ /\ hw' = Stopped /\ raw' = raw \cup {"ack_err"}
            /\ refused' = [q |-> Head(tx).q, b |-> Head(tx).b]
    BY DEF HwWrite, Latch
<1>2. /\ sent' = sent + 1 /\ sent + 1 \in 1 .. Len(Asked)
      /\ Asked[sent + 1] = WriteEvent(Head(tx))
    BY <1>1, RefusingIs, OnBusWas
<1>3. Asked[sent + 1].ev = "WRITE"
    BY <1>2 DEF WriteEvent, Event
<1> DEFINE m == BytesIn(dq) - Len(tx) + Len(rx)
<1>4. m \in Int /\ Counts(Len(dq), dq, Base, sent, m)
    BY <1>2, RefusingIs
<1>5. Counts(Len(dq), dq, Base, sent + 1, m + 1)
    <2> HIDE DEF m
    <2> QED BY <1>2, <1>3, <1>4, RefusingIs, CountsByte
<1>6. BytesIn(dq) - Len(tx') + Len(rx') = m + 1
    <2>1. Len(tx') = Len(tx) - 1
        <3>1. tx \in Seq(TxByte)
            BY DEF Refusing, Working, TypeInv, TxFifo
        <3> QED BY <1>1, <3>1
    <2> QED BY <1>1, <2>1, RefusingIs
<1>7. ASSUME "ack_err" \in raw' PROVE RefusedLast'
    <2>1. /\ hw' = Stopped /\ raw' = raw \cup {"ack_err"}
          /\ refused' = [q |-> Head(tx).q, b |-> Head(tx).b]
        BY <1>1, <1>7, RefusingIs
    <2>2. ~hw'.run /\ refused'.b = Head(tx).b
        BY <2>1 DEF Stopped
    <2>3. "end_detect" \notin raw' \cup active'
        <3>1. "end_detect" \notin raw \cup active
            BY RunningNoEnd DEF Refusing
        <3> QED BY <2>1, <3>1, RefusingIs
    <2>4. Asked[sent + 1].b = Head(tx).b
        <3>1. Head(tx).b < 0 => Head(tx).rw = 1
            <4>1. TxOf(Len(dq), dq, Asked, sent, tx)
                BY WorkingIs DEF Refusing, InFifos
            <4>2. 1 \in 1 .. Len(tx) /\ Head(tx) = tx[1]
                <5>1. tx \in Seq(TxByte)
                    BY DEF Refusing, Working, TypeInv, TxFifo
                <5> QED BY <1>1, <5>1
            <4> QED BY <4>1, <4>2 DEF TxOf
        <3>2. WriteEvent(Head(tx)) = Event("WRITE", Head(tx).q, Head(tx).b, FALSE)
            BY <3>1 DEF WriteEvent
        <3> QED BY <1>2, <3>2 DEF Event
    <2> QED BY <1>2, <1>3, <2>2, <2>3, <2>4, RefusingIs DEF RefusedLast
<1> HIDE DEF m
<1>8. Counts(Len(dq), dq, Base, sent + 1, BytesIn(dq) - Len(tx') + Len(rx'))
    BY <1>5, <1>6
<1> QED BY <1>2, <1>7, <1>8, RefusesAfter

LEMMA HwReadRefuses ==
    ASSUME Refusing, HwRead
    PROVE  Refuses'
<1>1. PICK event : OnBus(event) /\ rx' = Append(rx, [q |-> event.q, b |-> event.b])
    BY DEF HwRead
<1>2. tx' = tx /\ raw' = raw
    BY DEF HwRead
<1>3. sent' = sent + 1 /\ sent + 1 \in 1 .. Len(Asked) /\ Asked[sent + 1].ev = "READ"
    <2>1. sent' = sent + 1 /\ sent + 1 \in 1 .. Len(Asked)
        BY <1>1, RefusingIs, OnBusWas
    <2>2. /\ command \in CommandList /\ hw \in HwState /\ hw.run
          /\ ListOf(Len(dq), dq, Base, Asked, sent, command, hw, raw \cup active)
        BY WorkingIs DEF Refusing, Working
    <2>3. command[hw.ip].op = "READ" /\ command[hw.ip].num > 0
        BY DEF HwRead, Current
    <2>4. Upcoming(Asked, sent, command[hw.ip].op)
        BY <2>2, <2>3, RefusingIs, ListByte
    <2> QED BY <2>1, <2>3, <2>4 DEF Upcoming
<1> DEFINE m == BytesIn(dq) - Len(tx) + Len(rx)
<1>4. m \in Int /\ Counts(Len(dq), dq, Base, sent, m)
    BY <1>3, RefusingIs
<1>5. Counts(Len(dq), dq, Base, sent + 1, m + 1)
    <2> HIDE DEF m
    <2> QED BY <1>3, <1>4, RefusingIs, CountsByte
<1>6. BytesIn(dq) - Len(tx') + Len(rx') = m + 1
    <2>1. Len(rx') = Len(rx) + 1
        <3>1. PICK X : rx \in Seq(X)
            BY DEF Refusing, Working, TypeInv, RxFifo
        <3> QED BY <1>1, <3>1
    <2> QED BY <1>2, <2>1, RefusingIs
<1> HIDE DEF m
<1>7. Counts(Len(dq), dq, Base, sent + 1, BytesIn(dq) - Len(tx') + Len(rx'))
    BY <1>5, <1>6
<1>8. "ack_err" \notin raw'
    BY <1>2, RefusingIs
<1> QED BY <1>3, <1>7, <1>8, RefusesAfter

LEMMA HwStopRefuses ==
    ASSUME Refusing, HwStop
    PROVE  Refuses'
<1>1. OnBus(Event("STOP", 0, 0, FALSE)) /\ raw' = raw \cup {"trans_complete"}
    BY DEF HwStop, Latch
<1>2. /\ sent' = sent + 1 /\ sent + 1 \in 1 .. Len(Asked)
      /\ Asked[sent + 1] = Event("STOP", 0, 0, FALSE)
    BY <1>1, RefusingIs, OnBusWas
<1>3. Asked[sent + 1].ev = "STOP"
    BY <1>2 DEF Event
<1>4. sent + 1 = Len(Asked)
    BY <1>2, <1>3, RefusingIs, ScriptStops
<1>5. Counted'
    BY <1>2, <1>4, RefusingIs DEF Counted
<1>6. "ack_err" \notin raw' \cup active'
    BY <1>1, RefusingIs
<1> QED BY <1>5, <1>6 DEF Refuses

LEMMA ControllerRefuses ==
    ASSUME TypeInv, hw \in HwState, Before, InStep, pc # "idle", Controller, InStep', Refuses
    PROVE  Refuses'
<1>1. CASE Execute
    <2>1. Refusing
        BY <1>1 DEF Refusing, Working, Execute
    <2>2. CASE HwDummy \/ HwEnd
        <3>1. /\ dq' = dq /\ tx' = tx /\ rx' = rx /\ sent' = sent /\ refused' = refused
              /\ raw' \subseteq raw \cup {"end_detect"} /\ active' = active
            BY <2>1, <2>2, RefusingIs DEF HwDummy, HwEnd, Latch
        <3>2. "ack_err" \notin raw' \cup active'
            BY <2>1, <3>1, RefusingIs
        <3> QED BY <3>1, <3>2, RefusesHeld
    <2>3. HwStart \/ HwWrite \/ HwRead \/ HwDummy \/ HwStop \/ HwEnd
        BY <1>1 DEF Execute
    <2> QED BY <2>1, <2>2, <2>3, HwStartRefuses, HwWriteRefuses, HwReadRefuses, HwStopRefuses
<1>2. CASE HwFault
    <2>1. Refusing
        BY <1>2 DEF Refusing, Working, HwFault
    <2>2. /\ dq' = dq /\ tx' = tx /\ rx' = rx /\ sent' = sent /\ refused' = refused
          /\ raw' \subseteq raw \cup {"arbitration_lost", "time_out"} /\ active' = active
        BY <1>2, <2>1, RefusingIs DEF HwFault, Latch
    <2>3. "ack_err" \notin raw' \cup active'
        BY <2>1, <2>2, RefusingIs
    <2> QED BY <2>2, <2>3, RefusesHeld
<1> QED BY <1>1, <1>2 DEF Controller

-----------------------------------------------------------------------------
(* The steps of the handler. *)

LEMMA IsrEnterRefuses ==
    ASSUME TypeInv, Before, Refuses, IsrEnter
    PROVE  Refuses'
<1>1. /\ dq' = dq /\ tx' = tx /\ rx' = rx /\ sent' = sent /\ refused' = refused /\ hw' = hw
    BY DEF IsrEnter, history
<1>2. \A i \in {"ack_err", "end_detect"} : i \in raw' \cup active' => i \in raw \cup active
    <2>1. Status \subseteq raw \cup {"tx_empty", "rx_full"}
        BY DEF Status
    <2>2. raw' \cup active' \subseteq raw \cup Status
        BY DEF IsrEnter
    <2> QED BY <2>1, <2>2
<1> QED BY <1>1, <1>2, RefusesHeld

LEMMA IsrTransStartRefuses ==
    ASSUME TypeInv, Before, Refuses, IsrTransStart
    PROVE  Refuses'
<1>1. /\ dq' = dq /\ tx' = tx /\ rx' = rx /\ sent' = sent /\ refused' = refused /\ hw' = hw
      /\ raw' \subseteq raw /\ active' \subseteq active
    BY DEF IsrTransStart, history
<1> QED BY <1>1, RefusesHeld

LEMMA IsrTxEmptyRefuses ==
    ASSUME Serving, Refuses, IsrTxEmpty
    PROVE  Refuses'
<1> DEFINE n == Len(dq)
           u == fillTxFifo(dq, queuePos, tx)
<1>1. /\ n \in Nat \ {0} /\ dq \in [1 .. n -> Item] /\ dq \in Seq(Item)
      /\ queuePos \in 1 .. n + 1 /\ tx \in TxFifo /\ TypeInv /\ Before
    BY ServingIs DEF Serving
<1>2. /\ dq' = u.dq /\ tx' = u.tx /\ rx' = rx
      /\ sent' = sent /\ refused' = refused /\ hw' = hw
      /\ raw' = raw /\ active' \subseteq active
    BY DEF IsrTxEmpty
<1>3. u \in Sending(n) /\ SameFlags(n, dq, u.dq)
    BY <1>1, fillTxFifoTyped, fillTxFifoFlags
<1>4. u.dq \in [1 .. n -> Item] /\ Len(u.tx) \in Nat
    BY <1>3 DEF Sending, TxFifo
<1>5. BytesIn(u.dq) - Len(u.tx) = BytesIn(dq) - Len(tx)
    BY <1>1, fillTxFifoCounts
<1>6. Len(dq)' = n
    BY <1>1, <1>2, <1>4
<1>7. n = Len(dq)
    OBVIOUS
<1> HIDE DEF n, u
<1>8. Static(n, dq, u.dq)
    BY <1>3, MovesStatic
<1>9. BytesIn(u.dq) - Len(tx') + Len(rx') = BytesIn(dq) - Len(tx) + Len(rx)
    BY <1>2, <1>5
<1> QED BY <1>1, <1>2, <1>4, <1>6, <1>7, <1>8, <1>9, RefusesKept

LEMMA IsrRxFullRefuses ==
    ASSUME Serving, Refuses, IsrRxFull
    PROVE  Refuses'
<1> DEFINE n == Len(dq)
           r == emptyRxFifo(Received)
<1>1. /\ StoreReceived(r) /\ raw' \subseteq raw /\ active' \subseteq active
      /\ tx' = tx /\ hw' = hw /\ sent' = sent /\ refused' = refused
    BY DEF IsrRxFull
<1>2. /\ r.dq = dq' /\ dq' \in [1 .. n -> Item] /\ Len(dq)' = n /\ SameFlags(n, dq, dq')
      /\ ~misplaced'
    BY <1>1, StoresInStep
<1>3. /\ n \in Nat \ {0} /\ dq \in [1 .. n -> Item] /\ queuePos \in 1 .. n + 1
      /\ TypeInv /\ Before
    BY ServingIs DEF Serving
<1>4. PICK X : rx \in RxFifo(X)
    BY <1>3 DEF TypeInv
<1>5. Received \in Storing(n, X) /\ Received.dq = dq /\ Received.rx = rx
    BY <1>3, <1>4 DEF Received, Storing, TypeInv
<1>6. r.rx = rx' /\ ~r.misplaced
    BY <1>1, <1>2 DEF StoreReceived
<1>7. BytesIn(r.dq) + Len(r.rx) = BytesIn(dq) + Len(rx)
    BY <1>3, <1>5, <1>6, emptyRxFifoCounts
<1>8. r \in Storing(n, X)
    BY <1>3, <1>5, emptyRxFifoTyped
<1>9. BytesIn(dq') - Len(tx') + Len(rx') = BytesIn(dq) - Len(tx) + Len(rx)
    <2>1. /\ BytesIn(dq) \in Int /\ BytesIn(dq') \in Int
        BY <1>2, <1>3, BytesInTyped
    <2>2. Len(rx) \in Nat /\ Len(r.rx) \in Nat /\ Len(tx) \in Nat
        BY <1>3, <1>4, <1>8 DEF Storing, RxFifo, TypeInv, TxFifo
    <2>3. BytesIn(dq') + Len(rx') = BytesIn(dq) + Len(rx)
        BY <1>2, <1>6, <1>7
    <2> HIDE DEF r
    <2> QED BY <1>1, <1>6, <2>1, <2>2, <2>3
<1>10. Static(n, dq, dq')
    BY <1>2, MovesStatic
<1>11. n = Len(dq)
    OBVIOUS
<1> HIDE DEF n, r
<1> QED BY <1>1, <1>2, <1>3, <1>9, <1>10, <1>11, RefusesKept

LEMMA IsrEndDetectRefuses ==
    ASSUME Serving, Refuses, IsrEndDetect
    PROVE  Refuses'
<1> DEFINE n == Len(dq)
           u == fillCmdQueue(dq, queuePos, command)
<1>1. /\ "end_detect" \in active /\ dq' = u.dq /\ tx' = tx /\ rx' = rx
      /\ raw' = (raw \ {"end_detect"}) \cup {"trans_start"} /\ active' = active \ {"end_detect"}
      /\ sent' = sent /\ refused' = refused
    BY DEF IsrEndDetect, Serve, history
<1>2. /\ n \in Nat \ {0} /\ dq \in [1 .. n -> Item] /\ queuePos \in 1 .. n + 1
      /\ command \in CommandList /\ TypeInv /\ Before
    BY ServingIs DEF Serving
<1>3. u.dq \in [1 .. n -> Item] /\ Continues(n, dq, u.dq)
    BY <1>2, fillCmdQueueTyped, fillCmdQueueContinues
<1>4. Len(dq)' = n
    BY <1>1, <1>2, <1>3
<1>5. "ack_err" \notin raw' \cup active'
    BY <1>1 DEF Refuses, RefusedLast
<1>6. n = Len(dq)
    OBVIOUS
<1> HIDE DEF n, u
<1>7. BytesIn(u.dq) = BytesIn(dq)
    <2>1. \A q \in 1 .. n : /\ u.dq[q].addrSent = dq[q].addrSent
                            /\ u.dq[q].position = dq[q].position
        BY <1>3 DEF Continues, Alike
    <2>2. DOMAIN dq = 1 .. n /\ DOMAIN u.dq = 1 .. n
        BY <1>2, <1>3
    <2> QED BY <1>2, <2>1, <2>2, BytesInSame
<1>8. Static(n, dq, u.dq)
    BY <1>3, ContinuesStatic
<1>9. BytesIn(u.dq) - Len(tx') + Len(rx') = BytesIn(dq) - Len(tx) + Len(rx)
    BY <1>1, <1>7
<1> QED BY <1>1, <1>2, <1>3, <1>4, <1>5, <1>6, <1>8, <1>9, RefusesKept

\* the handler leaves because a byte was refused, and tells which
LEMMA IsrAckErrBlames ==
    ASSUME Serving, Refuses, IsrAckErr
    PROVE  Blamed' /\ ~hw'.run
<1>1. /\ "ack_err" \in active
      /\ exitCode' = IF ByteReached.bc < 0 THEN "ADDR_NAK" ELSE "DATA_NAK"
      /\ hw' = hw /\ refused' = refused
    BY DEF IsrAckErr, Serve, i2cIsrExit
<1>2. /\ Len(dq) \in Nat \ {0} /\ dq \in [1 .. Len(dq) -> Item]
      /\ Script(Len(dq), dq, Base, Asked) /\ OnlyLastStops(Len(dq), dq) /\ Len(Asked) \in Nat
      /\ TxOf(Len(dq), dq, Asked, sent, tx)
    BY ServingIs DEF InFifos
<1>3. /\ ~hw.run /\ sent \in 1 .. Len(Asked) /\ Asked[sent].ev = "WRITE"
      /\ Asked[sent].b = refused.b
    BY <1>1 DEF Refuses, RefusedLast
<1>4. sent < Len(Asked)
    <2>1. Asked[Len(Asked)].ev = "STOP"
        BY <1>2, ScriptStops
    <2> QED BY <1>2, <1>3, <2>1
<1>5. Counts(Len(dq), dq, Base, sent, BytesMoved)
    BY <1>4, MovedIs DEF Refuses, Counted
<1>6. ByteReached.bc < 0 <=> Asked[sent].b < 0
    BY <1>2, <1>3, <1>5, Blames
<1>7. exitCode' = "ADDR_NAK" <=> refused.b < 0
    BY <1>1, <1>3, <1>6
<1> QED BY <1>1, <1>3, <1>7 DEF Blamed

-----------------------------------------------------------------------------
(* The steps of the task. *)

\* the queue is prepared only once, unless it is told
LEMMA PrepareFresh ==
    ASSUME TypeInv, Before, Prepare, Undeceived'
    PROVE  Fresh(dq) /\ active = {}
<1>1. pc = "proc" /\ Len(dq) \in Nat \ {0}
    BY PreparedQueue
<1>2. ~StillServed /\ (\A q \in DOMAIN dq : ~dq[q].startCmdSent) /\ "late" \notin mishaps
    <2>1. "resumed" \notin mishaps' /\ "late" \notin mishaps'
        BY DEF Undeceived, Deceptive
    <2>2. mishaps' = mishaps \cup {m \in {"resumed"} : \E q \in DOMAIN dq : dq[q].startCmdSent}
                             \cup {m \in {"late"} : StillServed}
                             \cup {m \in {"stale"} : wakeup}
        BY DEF Prepare
    <2> QED BY <2>1, <2>2
<1>3. 1 \in DOMAIN dq
    BY <1>1, QueueTyped
<1> QED BY <1>1, <1>2, <1>3 DEF Before, StillServed

LEMMA PrepareRefuses ==
    ASSUME TypeInv, Before, Prepare, Undeceived'
    PROVE  Refuses' /\ exitCode' = "none"
<1> DEFINE n == Len(dq)
           u == fillCmdQueue(Prepared, 1, command)
<1>1. /\ dq' = u.dq /\ Len(dq)' = n /\ u.dq \in [1 .. n -> Item] /\ n \in Nat \ {0}
    BY PreparedQueue
<1>2. /\ exitCode' = "none" /\ raw' = {} /\ active' = active /\ tx' = <<>> /\ rx' = <<>>
      /\ sent' = 0
    BY DEF Prepare
<1>3. Fresh(dq) /\ active = {}
    BY PrepareFresh
<1>4. Prepared \in [1 .. n -> Item]
      /\ \A q \in 1 .. n : Prepared[q].position = 0 /\ Prepared[q].addrSent = 0
    BY <1>3, PreparedIs
<1>5. Continues(n, Prepared, u.dq)
    <2>1. 1 \in 1 .. n + 1 /\ command \in CommandList
        BY <1>1 DEF TypeInv
    <2> HIDE DEF n
    <2> QED BY <1>1, <1>4, <2>1, fillCmdQueueContinues
<1> HIDE DEF n, u
<1>6. BytesIn(dq') = 0
    <2>1. \A q \in 1 .. n : u.dq[q].addrSent = 0 /\ u.dq[q].position = 0
        BY <1>4, <1>5 DEF Continues, Alike
    <2>2. DOMAIN u.dq = 1 .. n
        BY <1>1
    <2> QED BY <1>1, <2>1, <2>2, BytesInNone
<1>7. Counted'
    BY <1>2, <1>6 DEF Counted, Counts
<1> QED BY <1>2, <1>3, <1>7 DEF Refuses

-----------------------------------------------------------------------------
(* The invariant. *)

LEMMA HandlerNak ==
    ASSUME TypeInv, Before, InStep, pc # "idle", Handler,
           exitCode = "none" => Refuses, Naks => Blamed /\ ~hw.run
    PROVE  /\ exitCode' = "none" => Refuses'
           /\ (Naks => Blamed /\ ~hw.run)'
<1>1. CASE IsrEnter
    <2>1. exitCode' = exitCode /\ hw' = hw /\ refused' = refused
        BY <1>1 DEF IsrEnter, history
    <2>2. exitCode = "none" => Refuses'
        BY <1>1, IsrEnterRefuses
    <2> QED BY <2>1, <2>2 DEF Naks, Blamed
<1>2. CASE ~IsrEnter
    <2>1. active # {}
        BY <1>2 DEF Handler, IsrTransStart, IsrTxEmpty, IsrRxFull, IsrAckErr, IsrTransComplete,
                    IsrArbitration, IsrEndDetect, Serve
    <2>2. Serving
        BY <2>1 DEF Serving
    <2>3. exitCode = "none" /\ Refuses
        BY <2>2, ServingIs
    <2>4. CASE IsrTransStart \/ IsrTxEmpty \/ IsrRxFull \/ IsrEndDetect
        <3>1. exitCode' = "none"
            BY <2>3, <2>4 DEF IsrTransStart, IsrTxEmpty, IsrRxFull, IsrEndDetect
        <3>2. Refuses'
            BY <2>2, <2>3, <2>4, IsrTransStartRefuses, IsrTxEmptyRefuses, IsrRxFullRefuses,
               IsrEndDetectRefuses
        <3> QED BY <3>1, <3>2 DEF Naks
    <2>5. CASE IsrAckErr
        <3>1. exitCode' # "none"
            BY <2>5 DEF IsrAckErr, i2cIsrExit
        <3> QED BY <2>2, <2>3, <2>5, <3>1, IsrAckErrBlames
    <2>6. CASE IsrTransComplete \/ IsrArbitration
        <3>1. exitCode' \in {"OK", "ARBITRATION"}
            BY <2>6 DEF IsrTransComplete, IsrArbitration, i2cIsrExit
        <3> QED BY <3>1 DEF Naks
    <2> QED BY <1>2, <2>4, <2>5, <2>6 DEF Handler
<1> QED BY <1>1, <1>2

LEMMA LiveNak ==
    ASSUME TypeInv, WholeInv, NakInv, [Next]_vars, Live'
    PROVE  /\ exitCode' = "none" => Refuses'
           /\ (Naks => Blamed /\ ~hw.run)'
<1>1. pc' \in {"start", "wait", "judge"} /\ Undeceived' /\ InStep'
    BY LiveStep DEF Live
<1>2. Undeceived
    BY <1>1, MishapsStay DEF Undeceived
<1>3. Before /\ hw \in HwState
    BY DEF WholeInv
<1>4. ASSUME pc \in {"start", "wait", "judge"}
      PROVE  InStep /\ (exitCode = "none" => Refuses) /\ (Naks => Blamed /\ ~hw.run)
    BY <1>2, <1>4 DEF WholeInv, NakInv, Live
<1>5. ASSUME pc \in {"start", "wait", "judge"}, dq' = dq, tx' = tx, rx' = rx, hw' = hw,
             raw' = raw, active' = active, exitCode' = exitCode, sent' = sent, refused' = refused
      PROVE  /\ exitCode' = "none" => Refuses'
             /\ (Naks => Blamed /\ ~hw.run)'
    <2>1. exitCode = "none" => Refuses'
        BY <1>3, <1>4, <1>5, RefusesHeld
    <2> QED BY <1>4, <1>5, <2>1 DEF Naks, Blamed
<1>6. CASE Caller
    <2>1. CASE Prepare
        <3>1. Refuses' /\ exitCode' = "none"
            BY <1>1, <1>3, <2>1, PrepareRefuses
        <3> QED BY <3>1 DEF Naks
    <2>2. CASE Launch
        <3>1. pc = "start" /\ exitCode' = exitCode /\ dq' = dq /\ tx' = tx /\ rx' = rx
              /\ sent' = sent /\ refused' = refused /\ active' = active
              /\ raw' = raw \cup {"trans_start"}
            BY <2>2 DEF Launch, Latch, history
        <3>2. exitCode = "none" /\ active = {} /\ raw = {}
            BY <1>4, <3>1 DEF InStep, Exits
        <3>3. Refuses'
            BY <1>3, <1>4, <3>1, <3>2, RefusesHeld
        <3> QED BY <3>1, <3>2, <3>3 DEF Naks
    <2>3. CASE WaitEnds
        BY <1>5, <2>3 DEF WaitEnds, isrVars, hwVars
    <2>4. CASE AddQueue \/ BusBusy \/ Judge \/ Reinit \/ i2cFlush
        BY <1>1, <2>4 DEF AddQueue, BusBusy, Judge, Reinit, i2cFlush
    <2> QED BY <1>6, <2>1, <2>2, <2>3, <2>4 DEF Caller
<1>7. CASE Handler
    <2>1. pc' = pc
        BY <1>7 DEF Handler, IsrEnter, IsrTransStart, IsrTxEmpty, IsrRxFull, IsrAckErr,
                    IsrTransComplete, IsrArbitration, IsrEndDetect, i2cIsrExit, Task, taskVars
    <2> QED BY <1>1, <1>3, <1>4, <1>7, <2>1, HandlerNak
<1>8. CASE TimerTask
    BY <1>1, <1>5, <1>8 DEF TimerTask, Task, taskVars, hwVars, history
<1>9. CASE Controller
    <2>1. pc' = pc /\ exitCode' = exitCode /\ hw.run
        BY <1>9 DEF Controller, Execute, HwFault, Driver, taskVars, isrVars
    <2>2. InStep /\ (exitCode = "none" => Refuses) /\ ~Naks
        BY <1>1, <1>4, <2>1
    <2>3. exitCode = "none" => Refuses'
        BY <1>1, <1>3, <1>9, <2>1, <2>2, ControllerRefuses
    <2> QED BY <2>1, <2>2, <2>3 DEF Naks
<1>10. CASE UNCHANGED vars
    BY <1>1, <1>5, <1>10 DEF vars, taskVars, isrVars, hwVars, history
<1> QED BY <1>6, <1>7, <1>8, <1>9, <1>10 DEF Next

\* nobody is at work any more
NakEnded == Naks /\ Blamed /\ ~hw.run /\ active = {} /\ ena = {}

LEMMA NakEndedIdle ==
    ASSUME NakEnded
    PROVE  ~Handler /\ ~Controller
<1>1. Status = {}
    BY DEF NakEnded, Status
<1>2. ~Handler
    BY <1>1 DEF NakEnded, Handler, IsrEnter, IsrTransStart, IsrTxEmpty, IsrRxFull, IsrAckErr,
                IsrTransComplete, IsrArbitration, IsrEndDetect, Serve
<1>3. ~Controller
    BY DEF NakEnded, Controller, Execute, HwFault
<1> QED BY <1>2, <1>3

LEMMA EndedNak ==
    ASSUME TypeInv, WholeInv, NakInv, [Next]_vars, pc' = "ended", reason' = "ACK", Undeceived'
    PROVE  NakEnded'
<1>1. Undeceived
    BY MishapsStay DEF Undeceived
<1>2. CASE Judge
    <2>1. /\ pc = "judge" /\ eBits # "none" => reason' = Reason(exitCode) /\ ena' = ena
          /\ eBits = "none" => reason' \in {"BUSY", "TIMEOUT"}
        BY <1>2 DEF Judge
    <2>2. Naks /\ ena' = ena
        BY <1>2, <2>1 DEF Reason, Judge, Naks
    <2>3. InStep /\ (Naks => Blamed /\ ~hw.run)
        BY <1>1, <1>2 DEF WholeInv, NakInv, Live, Judge
    <2>4. active = {} /\ ena = {}
        BY <2>2, <2>3 DEF InStep, Exits, Naks
    <2>5. exitCode' = exitCode /\ refused' = refused /\ hw' = hw /\ active' = active
        BY <1>2 DEF Judge, history
    <2> QED BY <2>2, <2>3, <2>4, <2>5 DEF NakEnded, Naks, Blamed
<1>3. CASE AddQueue \/ BusBusy \/ Prepare \/ Launch \/ WaitEnds \/ Reinit \/ i2cFlush
    BY <1>3 DEF AddQueue, BusBusy, Prepare, Launch, WaitEnds, Reinit, i2cFlush
<1>4. ASSUME pc' = pc, reason' = reason PROVE NakEnded
    BY <1>1, <1>4 DEF NakInv, NakEnded
<1>5. CASE Handler
    <2>1. pc' = pc /\ reason' = reason
        BY <1>5 DEF Handler, IsrEnter, IsrTransStart, IsrTxEmpty, IsrRxFull, IsrAckErr,
                    IsrTransComplete, IsrArbitration, IsrEndDetect, i2cIsrExit, Task, taskVars
    <2> QED BY <1>4, <1>5, <2>1, NakEndedIdle
<1>6. CASE Controller
    <2>1. pc' = pc /\ reason' = reason
        BY <1>6 DEF Controller, Execute, HwFault, Driver, taskVars
    <2> QED BY <1>4, <1>6, <2>1, NakEndedIdle
<1>7. CASE TimerTask \/ UNCHANGED vars
    <2>1. /\ pc' = pc /\ reason' = reason /\ exitCode' = exitCode /\ refused' = refused
          /\ hw' = hw /\ active' = active /\ ena' = ena
        BY <1>7 DEF TimerTask, Task, taskVars, hwVars, isrVars, history, vars
    <2> QED BY <1>4, <2>1 DEF NakEnded, Naks, Blamed
<1> QED BY <1>2, <1>3, <1>5, <1>6, <1>7 DEF Next, Caller

LEMMA NakStep == TypeInv /\ WholeInv /\ NakInv /\ [Next]_vars => NakInv'
<1> SUFFICES ASSUME TypeInv, WholeInv, NakInv, [Next]_vars PROVE NakInv'
    OBVIOUS
<1> QED BY LiveNak, EndedNak DEF NakInv, NakEnded

LEMMA NakInit == Init => NakInv
BY DEF Init, NakInv, Live

LEMMA NakImplies == NakInv => NakBlamed
<1> SUFFICES ASSUME NakInv, Ended, reason = "ACK", Undeceived
             PROVE  (exitCode = "ADDR_NAK") = (refused.b < 0)
    BY DEF NakBlamed, Undeceived
<1>1. exitCode = "ADDR_NAK" <=> refused.b < 0
    BY DEF NakInv, Ended, Blamed
<1> QED BY <1>1

\* When the slave has refused a byte, the caller is told rightly whether it was one of an
\* address: what i2c_update_error_byte_cnt counts from the queue and the FIFOs is what was
\* on the bus, however far ahead the FIFO was filled and whatever is still to be taken from
\* the other one, and its walk over the entries ends at the byte that was refused.  Nothing
\* is said of a transfer that was skipped, resumed or late (see SuccessMeansWhole).
THEOREM RefusedByteIsBlamed == Spec => []NakBlamed
<1>1. Init => TypeInv /\ WholeInv /\ NakInv
    BY TypeInit, WholeInit, NakInit
<1>2. (TypeInv /\ WholeInv /\ NakInv) /\ [Next]_vars => (TypeInv /\ WholeInv /\ NakInv)'
    BY TypeStep, WholeStep, NakStep
<1>3. NakInv => NakBlamed
    BY NakImplies
<1> QED BY <1>1, <1>2, <1>3, PTL DEF Spec

=============================================================================
