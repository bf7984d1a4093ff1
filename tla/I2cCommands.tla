----------------------------- MODULE I2cCommands -----------------------------
(***************************************************************************)
(* The command list of the ESP32's I2C controller and its two FIFOs, as    *)
(* esp32-hal-i2c.c fills and empties them: fillCmdQueue, fillTxFifo and    *)
(* emptyRxFifo, as operators on the transfer's state.                      *)
(*                                                                         *)
(* A transfer is a queue dq of writes and reads.  The hardware executes a  *)
(* list of Slots commands, which the driver refills when it ends with END. *)
(* A byte is known by where it belongs: of entry q, address byte b < 0 or  *)
(* data byte b >= 0; rw is how often the address has been shifted left to  *)
(* make room for the R/W bit.                                              *)
(***************************************************************************)
EXTENDS Integers, Sequences

CONSTANTS
    Slots,    \* 16: commands in the list; the last is kept for END
    BlkMax,   \* 255: bytes that one command can move
    FifoLen   \* 32: bytes in each FIFO

ASSUME CommandsAssumption ==
    /\ Slots \in Nat /\ Slots >= 6
    /\ BlkMax \in Nat \ {0}
    /\ FifoLen \in Nat \ {0, 1}

LesserOf(a, b) == IF a < b THEN a ELSE b

\* s after n rounds of a loop; Round changes nothing once the loop has ended
Rounds(Round(_), s, n) ==
    LET after[k \in 0 .. n] == IF k = 0 THEN s ELSE Round(after[k - 1])
    IN  after[n]

\* an element of the queue as i2cAddQueue makes it
Entry(mode, length, stop, addrReq) ==
    [mode |-> mode, length |-> length, stop |-> stop, position |-> 0,
     cmdBytesNeeded |-> length, addrReq |-> addrReq, addrSent |-> 0, rw |-> 0,
     startCmdSent |-> FALSE, addrCmdSent |-> FALSE, stopCmdSent |-> FALSE]

Cmd(op, num, nak) == [op |-> op, num |-> num, nak |-> nak]

-----------------------------------------------------------------------------
(* fillCmdQueue: s has the queue, the list, the next free slot cmdIdx, the  *)
(* entry qp being added, done, and which FIFO interrupts are wanted.        *)

Full(s) == s.cmdIdx > Slots - 2

SetCmd(s, cmd) ==
    [s EXCEPT !.command[s.cmdIdx] = cmd, !.cmdIdx = s.cmdIdx + 1]

\* (mutant) the START is left in the slot before END
AddStartAnywhere(s) ==
    IF ~s.dq[s.qp].startCmdSent
    THEN [SetCmd(s, Cmd("RSTART", 0, FALSE)) EXCEPT !.dq[s.qp].startCmdSent = TRUE]
    ELSE s

\* a START cannot directly precede END
AddStart(s) ==
    IF ~s.dq[s.qp].startCmdSent /\ s.cmdIdx < Slots - 2
    THEN [SetCmd(s, Cmd("RSTART", 0, FALSE)) EXCEPT !.dq[s.qp].startCmdSent = TRUE]
    ELSE s

AddAddress(s) ==
    LET e == s.dq[s.qp]
        t == [SetCmd(s, Cmd("WRITE", e.addrReq, FALSE)) EXCEPT
                 !.dq[s.qp].addrCmdSent = TRUE, !.ena = @ \cup {"tx_empty"}]
    IN  IF e.startCmdSent /\ ~e.addrCmdSent THEN [t EXCEPT !.done = Full(t)] ELSE s

\* (mutant) the last byte of a read is read with the others, and acknowledged
AddBlockAll(s) ==
    LET e   == s.dq[s.qp]
        blk == LesserOf(e.cmdBytesNeeded, BlkMax)
        t   == [SetCmd(s, Cmd(e.mode, blk, FALSE)) EXCEPT
                   !.dq[s.qp].cmdBytesNeeded = @ - blk,
                   !.ena = @ \cup {IF e.mode = "READ" THEN "rx_full" ELSE "tx_empty"}]
    IN  IF ~s.done /\ e.cmdBytesNeeded > 0 THEN [t EXCEPT !.done = Full(t)] ELSE s

\* one byte of a read is left for a command of its own, which does not acknowledge
AddBlock(s) ==
    LET e    == s.dq[s.qp]
        kept == IF e.mode = "READ" THEN 1 ELSE 0
        blk  == IF e.cmdBytesNeeded > BlkMax THEN BlkMax ELSE e.cmdBytesNeeded - kept
        t    == [SetCmd(s, Cmd(e.mode, blk, FALSE)) EXCEPT
                    !.dq[s.qp].cmdBytesNeeded = @ - blk,
                    !.ena = @ \cup {IF e.mode = "READ" THEN "rx_full" ELSE "tx_empty"}]
    IN  IF ~s.done /\ e.cmdBytesNeeded > kept THEN [t EXCEPT !.done = Full(t)] ELSE s

\* each round takes a slot of the list
AddBlocks(s) == Rounds(AddBlock, s, Slots)

AddLastRead(s) ==
    LET e == s.dq[s.qp]
        t == [SetCmd(s, Cmd("READ", 1, TRUE)) EXCEPT
                 !.dq[s.qp].cmdBytesNeeded = 0, !.ena = @ \cup {"rx_full"}]
    IN  IF ~s.done /\ e.mode = "READ" /\ e.cmdBytesNeeded = 1
        THEN [t EXCEPT !.done = Full(t)] ELSE s

AddStop(s) ==
    LET e == s.dq[s.qp]
        t == IF e.stop THEN SetCmd(s, Cmd("STOP", 0, FALSE)) ELSE s
    IN  IF ~s.done /\ e.cmdBytesNeeded = 0 /\ ~e.stopCmdSent
        THEN [t EXCEPT !.dq[s.qp].stopCmdSent = TRUE, !.done = e.stop /\ Full(t)]
        ELSE s

AddData(s) ==
    IF ~s.done /\ s.dq[s.qp].addrCmdSent THEN AddStop(AddLastRead(AddBlocks(s))) ELSE s

\* A START would come into the slot before END: the last READ or WRITE, or the whole
\* list if there is none, moves down, with what follows it, behind a dummy of no bytes.
Stretch(s) ==
    LET moves == {0} \cup {i \in 1 .. Slots - 3 : s.command[i].op \in {"READ", "WRITE"}}
        at    == CHOOSE i \in moves : \A j \in moves : j <= i
    IN  IF s.cmdIdx = Slots - 2 /\ ~s.dq[s.qp].startCmdSent
        THEN [s EXCEPT !.done = TRUE, !.cmdIdx = Slots - 1,
                       !.command = [i \in 0 .. Slots - 1 |->
                           IF i = at THEN [s.command[at] EXCEPT !.num = 0]
                           ELSE IF i \in at + 1 .. Slots - 2 THEN s.command[i - 1]
                           ELSE s.command[i]]]
        ELSE s

AddEnd(s) ==
    IF s.cmdIdx = Slots - 1
    THEN [SetCmd(s, Cmd("END", 0, FALSE)) EXCEPT
             !.done = TRUE, !.ena = @ \cup {"end_detect"}]
    ELSE s

NextEntry(s) ==
    IF ~s.done /\ s.dq[s.qp].stopCmdSent
    THEN [s EXCEPT !.qp = s.qp + 1, !.done = s.qp = Len(s.dq)] ELSE s

FillEntry(s) ==
    IF s.done THEN s ELSE NextEntry(AddEnd(Stretch(AddData(AddAddress(AddStart(s))))))

\* a round that does not end the loop goes to the next entry
FillEntries(s) == Rounds(FillEntry, s, Len(s.dq))

\* from the first entry, not before queuePos, that still needs commands
fillCmdQueue(dq, queuePos, command) ==
    LET open == {q \in queuePos .. Len(dq) : ~dq[q].stopCmdSent}
        s    == [dq |-> dq, command |-> command, cmdIdx |-> 0, qp |-> 0,
                 done |-> open = {}, ena |-> {}]
    IN  IF open = {} THEN s
        ELSE FillEntries([s EXCEPT !.qp = CHOOSE q \in open : \A p \in open : q <= p])

-----------------------------------------------------------------------------
(* fillTxFifo: from queuePos on, address bytes of every entry and data of   *)
(* writes, while the FIFO has room.                                         *)

Room(tx) == Len(tx) < FifoLen - 1

\* what entry q still has to send, as far as it fits
AddressBytes(e, q) ==
    [i \in 1 .. e.addrReq - e.addrSent |->
        [q |-> q, b |-> e.addrSent + i - 1 - e.addrReq, rw |-> e.rw]]

DataBytes(e, q, num) ==
    [i \in 1 .. num |-> [q |-> q, b |-> e.position + i - 1, rw |-> 0]]

\* the second byte of a 10 bit address waits for room
SendAddress(s, q) ==
    LET e   == s.dq[q]
        num == IF e.addrReq = e.addrSent THEN 0
               ELSE IF e.addrReq - e.addrSent = 2 /\ Len(s.tx) = FifoLen - 2 THEN 1
               ELSE e.addrReq - e.addrSent
    IN  [s EXCEPT !.tx = @ \o SubSeq(AddressBytes(e, q), 1, num),
                  !.dq[q].addrSent = @ + num]

\* (mutant) the room in the FIFO is not looked at
SendDataAll(s, q) ==
    LET e   == s.dq[q]
        num == e.length - e.position
    IN  IF e.mode = "WRITE" /\ e.addrSent = e.addrReq
        THEN [s EXCEPT !.tx = @ \o DataBytes(e, q, num), !.dq[q].position = @ + num]
        ELSE s

SendData(s, q) ==
    LET e   == s.dq[q]
        num == LesserOf(FifoLen - Len(s.tx), e.length - e.position)
    IN  IF e.mode = "WRITE" /\ e.addrSent = e.addrReq
        THEN [s EXCEPT !.tx = @ \o DataBytes(e, q, num), !.dq[q].position = @ + num]
        ELSE s

\* the first read that is met becomes the entry that emptyRxFifo fills
MeetRead(s, q) ==
    IF s.dq[q].mode = "READ" /\ ~s.met
    THEN [s EXCEPT !.met = TRUE, !.queuePos = IF q > @ THEN q ELSE @] ELSE s

SendEntry(s) ==
    LET t == MeetRead(SendData(SendAddress(s, s.at), s.at), s.at)
    IN  IF s.at > Len(s.dq) \/ ~Room(s.tx) THEN s
        ELSE IF Room(t.tx) THEN [t EXCEPT !.at = @ + 1] ELSE t

\* at the end, at is beyond the queue when every byte is in the FIFO, and its interrupt
\* no longer needed
fillTxFifo(dq, queuePos, tx) ==
    Rounds(SendEntry,
           [dq |-> dq, queuePos |-> queuePos, tx |-> tx, met |-> FALSE, at |-> queuePos],
           Len(dq))

-----------------------------------------------------------------------------
(* emptyRxFifo: what was received goes to the read that queuePos names, or  *)
(* to the next one that has room; bytes without a place are thrown away.    *)

\* r has a byte misplaced when it is stored where another one belongs
StoreBytes(r) ==
    LET free == {q \in r.queuePos .. Len(r.dq) : r.dq[q].position < r.dq[q].length}
        to   == IF free = {} THEN Len(r.dq) + 1 ELSE CHOOSE q \in free : \A p \in free : q <= p
        e    == r.dq[to]
        num  == LesserOf(Len(r.rx), e.length - e.position)
        lost == [r EXCEPT !.rx = <<>>, !.queuePos = to, !.misplaced = TRUE]
    IN  IF r.rx = <<>> \/ r.queuePos > Len(r.dq) THEN r
        ELSE IF free = {} THEN lost
        ELSE IF e.mode = "WRITE" THEN lost
        ELSE [r EXCEPT !.queuePos = to,
                       !.rx = SubSeq(r.rx, num + 1, Len(r.rx)),
                       !.dq[to].position = @ + num,
                       !.misplaced = @ \/ \E i \in 1 .. num :
                           r.rx[i] # [q |-> to, b |-> e.position + i - 1]]

\* each round takes a byte at least
emptyRxFifo(r) == Rounds(StoreBytes, r, Len(r.rx))

=============================================================================
