----------------------------- MODULE I2cTransfer -----------------------------
(***************************************************************************)
(* One transfer of the I2C driver (esp32-hal-i2c.c) from the call that     *)
(* queues it to its result: i2cAddQueue, i2cProcQueue, the interrupt       *)
(* handler, the retry of i2cWrite and i2cRead, and i2cFlush.               *)
(*                                                                         *)
(* Four actors: the task that transfers; the controller, which executes    *)
(* the command list and moves bytes between its FIFOs and the bus; the     *)
(* handler, which works through the interrupts it found, one at a time,    *)
(* while the controller goes on; and the timer task of FreeRTOS, which     *)
(* sets the event bits some time after the handler asked for it.           *)
(*                                                                         *)
(* faults, each of which can come once: "slave", a byte is refused, the    *)
(* arbitration lost or the clock held; "wait", the wait times out at any   *)
(* time, and not only when nothing else can happen; "wakeup", the event    *)
(* bits come late or never.  The handler may run on the other core: the    *)
(* task goes on while it is at work.                                       *)
(***************************************************************************)
EXTENDS I2cCommands, FiniteSetsExt

CONSTANTS
    TxThreshold, \* tx_fifo_empty_thrhd
    RxThreshold, \* rx_fifo_full_thrhd
    MaxEntries,  \* bound: entries of a queue
    Writes,      \* bound: the lengths of the writes ...
    Reads,       \* ... and of the reads that are queued
    AddrReqs,    \* bound: 1 for 7 bit addresses, 2 for 10 bit ones
    FaultSets    \* bound: the faults that come together

Faults == {"slave", "wait", "wakeup"}

ASSUME TransferAssumption ==
    /\ TxThreshold \in 0 .. FifoLen - 2
    /\ RxThreshold \in 1 .. FifoLen
    /\ MaxEntries \in Nat \ {0}
    /\ Writes \subseteq Nat /\ Reads \subseteq Nat \ {0}
    /\ AddrReqs \subseteq {1, 2}
    /\ FaultSets \subseteq SUBSET Faults

VARIABLES
    faults,           \* those that can still come
    dq, queuePos,     \* the queue, and the entry that has or needs data
    command,          \* the command list
    stage,            \* I2C_STARTUP, I2C_RUNNING, I2C_DONE
    exitCode,         \* what i2cIsrExit left: none yet, or the value of error
    eventDone,        \* EVENT_DONE is set in the event group ...
    wakeup,           \* ... or will be, once the timer task runs
    ena, raw,         \* interrupts enabled, and latched
    active,           \* those the handler has found and not yet served
    hw,               \* the controller: run, ip, bytes done of the command
    tx, rx,           \* the FIFOs
    bus_busy,         \* status_reg.bus_busy
    pc, eBits, reason, attempt, \* the task
    sent,             \* history: how much of the transfer was on the bus
    garbled,          \* history: something else was
    misplaced,        \* history: a byte was stored where another belongs
    refused,          \* history: the byte the slave has refused
    mishaps           \* history: see below

taskVars == <<pc, eBits, reason, attempt>>
isrVars  == <<stage, exitCode, eventDone, wakeup, active>>
hwVars   == <<ena, raw, hw, tx, rx, bus_busy>>
history  == <<sent, garbled, misplaced, refused, mishaps>>
vars     == <<faults, dq, queuePos, command, taskVars, isrVars, hwVars, history>>

Interrupts == {"trans_start", "tx_empty", "rx_full", "ack_err", "time_out",
               "trans_complete", "arbitration_lost", "end_detect"}

(* What can spoil a transfer without a fault of the bus: *)
(*   skipped   queuePos passed an entry whose commands were not all listed  *)
(*   resumed   the second attempt finds the queue as the first has left it  *)
(*   late      an earlier transfer is still served, by the handler of the    *)
(*             other core, when this one is queued or prepared              *)
(*   stale     the event bits of an earlier transfer are still to come      *)
(*   held      an earlier transfer was given up and has left the bus busy   *)
(*   disturbed the slave, another master or an early time-out came between  *)
Mishaps == {"skipped", "resumed", "late", "stale", "held", "disturbed"}

\* a transfer they befall may be reported as what it was not
Deceptive == {"skipped", "resumed", "late"}

NoCommands == [i \in 0 .. Slots - 1 |-> Cmd("RSTART", 0, FALSE)]

Stopped == [run |-> FALSE, ip |-> 0, k |-> 0]

NoByte == [q |-> 0, b |-> 0]

Init ==
    /\ faults \in FaultSets
    /\ dq = <<>> /\ queuePos = 1
    /\ command = NoCommands
    /\ stage = "DONE" /\ exitCode = "none"
    /\ eventDone = FALSE /\ wakeup = FALSE
    /\ ena = {} /\ raw = {} /\ active = {}
    /\ hw = Stopped /\ tx = <<>> /\ rx = <<>> /\ bus_busy = FALSE
    /\ pc = "idle" /\ eBits = "none" /\ reason = "OK" /\ attempt = 1
    /\ sent = 0 /\ garbled = FALSE /\ misplaced = FALSE /\ refused = NoByte
    /\ mishaps = {}

-----------------------------------------------------------------------------
(* What the queue asks for: for each entry a START, its address and its     *)
(* data, the last byte of a read not acknowledged; a STOP at the end.       *)

Event(ev, q, b, nak) == [ev |-> ev, q |-> q, b |-> b, nak |-> nak]

EntryEvents(e, q) ==
    <<Event("START", 0, 0, FALSE)>>
    \o [i \in 1 .. e.addrReq |-> Event("WRITE", q, i - 1 - e.addrReq, FALSE)]
    \o [i \in 1 .. e.length |->
           Event(e.mode, q, i - 1, e.mode = "READ" /\ i = e.length)]
    \o IF e.stop THEN <<Event("STOP", 0, 0, FALSE)>> ELSE <<>>

Transfer[n \in 0 .. MaxEntries] ==
    IF n = 0 THEN <<>> ELSE Transfer[n - 1] \o EntryEvents(dq[n], n)

\* the bus sees an event
OnBus(event) ==
    LET expected == Transfer[Len(dq)]
        right    == ~garbled /\ sent < Len(expected) /\ expected[sent + 1] = event
    IN  IF right THEN sent' = sent + 1 /\ UNCHANGED garbled
                 ELSE garbled' = TRUE /\ UNCHANGED sent

-----------------------------------------------------------------------------
(* The controller (external). *)

Current == command[hw.ip]

\* the next byte of a command, or the next command after its last byte
Step(num) == IF hw.k + 1 >= num THEN [hw EXCEPT !.ip = @ + 1, !.k = 0]
                                ELSE [hw EXCEPT !.k = @ + 1]

Latch(interrupt) == raw' = raw \cup {interrupt}

Driver == <<dq, queuePos, command, taskVars, isrVars, ena, misplaced>>

Undisturbed == UNCHANGED <<faults, mishaps>>

Disturb(fault) ==
    /\ fault \in faults
    /\ faults' = faults \ {fault}
    /\ mishaps' = mishaps \cup {"disturbed"}

HwStart ==
    /\ Current.op = "RSTART"
    /\ OnBus(Event("START", 0, 0, FALSE))
    /\ hw' = Step(1) /\ bus_busy' = TRUE
    /\ Undisturbed /\ UNCHANGED <<raw, tx, rx, refused>>

\* an address byte is the right one only when it was shifted once
WriteEvent(byte) ==
    IF byte.b < 0 /\ byte.rw # 1 THEN Event("WRITE", 0, 0, FALSE)
                                 ELSE Event("WRITE", byte.q, byte.b, FALSE)

HwWrite ==
    /\ Current.op = "WRITE" /\ Current.num > 0 /\ tx # <<>>
    /\ OnBus(WriteEvent(Head(tx)))
    /\ tx' = Tail(tx)
    /\ \/ hw' = Step(Current.num) /\ Undisturbed /\ UNCHANGED <<raw, refused, bus_busy>>
       \/ /\ Disturb("slave")
          /\ hw' = Stopped /\ bus_busy' \in BOOLEAN
          /\ Latch("ack_err")
          /\ refused' = [q |-> Head(tx).q, b |-> Head(tx).b]
    /\ UNCHANGED rx

\* The slave sends the byte that is next.  RxThreshold leaves the handler time to
\* make room (i2cSetFrequency), so that no byte comes into a full FIFO.
HwRead ==
    /\ Current.op = "READ" /\ Current.num > 0 /\ Len(rx) < FifoLen
    /\ LET expected == Transfer[Len(dq)]
           next  == IF ~garbled /\ sent < Len(expected) THEN expected[sent + 1]
                                                        ELSE Event("READ", 0, 0, FALSE)
           event == [next EXCEPT !.ev = "READ", !.nak = Current.nak]
       IN  OnBus(event) /\ rx' = Append(rx, [q |-> event.q, b |-> event.b])
    /\ hw' = Step(Current.num)
    /\ Undisturbed /\ UNCHANGED <<raw, tx, bus_busy, refused>>

\* a READ or WRITE of no bytes
HwDummy ==
    /\ Current.op \in {"READ", "WRITE"} /\ Current.num = 0
    /\ hw' = Step(1)
    /\ Undisturbed /\ UNCHANGED <<raw, tx, rx, bus_busy, sent, garbled, refused>>

HwStop ==
    /\ Current.op = "STOP"
    /\ OnBus(Event("STOP", 0, 0, FALSE))
    /\ hw' = Stopped /\ bus_busy' = FALSE
    /\ Latch("trans_complete")
    /\ Undisturbed /\ UNCHANGED <<tx, rx, refused>>

HwEnd ==
    /\ Current.op = "END"
    /\ hw' = [hw EXCEPT !.run = FALSE]
    /\ Latch("end_detect")
    /\ Undisturbed /\ UNCHANGED <<tx, rx, bus_busy, sent, garbled, refused>>

Execute ==
    /\ hw.run /\ hw.ip < Slots
    /\ HwStart \/ HwWrite \/ HwRead \/ HwDummy \/ HwStop \/ HwEnd
    /\ UNCHANGED Driver

\* another master wins the bus, or holds it; a slave holds the clock
HwFault ==
    /\ Disturb("slave") /\ hw.run
    /\ \/ hw' = Stopped /\ Latch("arbitration_lost") /\ bus_busy' \in BOOLEAN
       \/ Latch("time_out") /\ UNCHANGED <<hw, bus_busy>>
    /\ UNCHANGED <<Driver, tx, rx, sent, garbled, refused>>

Controller == Execute \/ HwFault

\* the two FIFO interrupts are levels, the others stay until they are cleared
Status ==
    ena \cap (raw \cup {i \in {"tx_empty"} : Len(tx) <= TxThreshold}
                  \cup {i \in {"rx_full"} : Len(rx) >= RxThreshold})

CanExecute ==
    /\ hw.run /\ hw.ip < Slots
    /\ \/ Current.op \notin {"READ", "WRITE"} \/ Current.num = 0
       \/ Current.op = "WRITE" /\ tx # <<>>
       \/ Current.op = "READ" /\ Len(rx) < FifoLen

-----------------------------------------------------------------------------
(* The handler: it takes what it finds once, then serves one after another. *)

Task == taskVars

\* in this order
Ahead(interrupt) ==
    CASE interrupt = "trans_start"      -> {}
      [] interrupt = "tx_empty"         -> {"trans_start"}
      [] interrupt = "rx_full"          -> {"trans_start", "tx_empty"}
      [] interrupt = "ack_err"          -> {"trans_start", "tx_empty", "rx_full"}
      [] interrupt = "time_out"         -> {"trans_start", "tx_empty", "rx_full", "ack_err"}
      [] interrupt = "trans_complete"   ->
            Interrupts \ {"trans_complete", "arbitration_lost", "end_detect"}
      [] interrupt = "arbitration_lost" -> Interrupts \ {"arbitration_lost", "end_detect"}
      [] interrupt = "end_detect"       -> Interrupts \ {"end_detect"}

Serve(interrupt) ==
    interrupt \in active /\ active \cap Ahead(interrupt) = {}

IsrEnter ==
    /\ active = {} /\ Status # {}
    /\ IF stage = "DONE" THEN ena' = {} /\ raw' = {} /\ UNCHANGED active
                         ELSE active' = Status /\ UNCHANGED <<ena, raw>>
    /\ UNCHANGED <<Task, dq, queuePos, command, stage, exitCode, eventDone,
                   wakeup, hw, tx, rx, bus_busy, faults, history>>

IsrTransStart ==
    /\ Serve("trans_start")
    /\ stage' = IF stage = "STARTUP" THEN "RUNNING" ELSE stage
    /\ active' = active \ {"trans_start"}
    /\ ena' = ena \cup {"trans_start"} /\ raw' = raw \ {"trans_start"}
    /\ UNCHANGED <<Task, dq, queuePos, command, exitCode, eventDone, wakeup,
                   hw, tx, rx, bus_busy, faults, history>>

IsrTxEmpty ==
    LET s       == fillTxFifo(dq, queuePos, tx)
        skipped == \E q \in 1 .. s.queuePos - 1 : ~s.dq[q].stopCmdSent
    IN  /\ Serve("tx_empty")
        /\ dq' = s.dq /\ queuePos' = s.queuePos /\ tx' = s.tx
        /\ mishaps' = IF skipped THEN mishaps \cup {"skipped"} ELSE mishaps
        /\ ena' = IF s.at > Len(s.dq) THEN ena \ {"tx_empty"} ELSE ena
        /\ active' = active \ {"tx_empty"}
        /\ UNCHANGED <<Task, command, stage, exitCode, eventDone, wakeup, raw,
                       hw, rx, bus_busy, faults, sent, garbled, misplaced, refused>>

Received == [dq |-> dq, queuePos |-> queuePos, rx |-> rx, misplaced |-> misplaced]

StoreReceived(r) ==
    dq' = r.dq /\ queuePos' = r.queuePos /\ rx' = r.rx /\ misplaced' = r.misplaced

\* the bus time-out is not an error: the received bytes are taken, the wait goes on
IsrRxFull ==
    \E interrupt \in {"rx_full", "time_out"} :
        /\ Serve(interrupt)
        /\ StoreReceived(emptyRxFifo(Received))
        /\ active' = active \ {interrupt}
        /\ ena' = ena \cup {"rx_full"} /\ raw' = raw \ {interrupt}
        /\ UNCHANGED <<Task, command, stage, exitCode, eventDone, wakeup, hw, tx,
                       bus_busy, faults, sent, garbled, refused, mishaps>>

\* the timer task is asked to set the event bits
i2cIsrExit(err) ==
    /\ exitCode' = err
    /\ StoreReceived(IF queuePos <= Len(dq) /\ dq[queuePos].mode = "READ"
                     THEN emptyRxFifo(Received) ELSE Received)
    /\ ena' = {} /\ raw' = {}
    /\ stage' = "DONE"
    /\ active' = {}
    /\ \/ wakeup' = TRUE /\ UNCHANGED faults
       \/ "wakeup" \in faults /\ faults' = faults \ {"wakeup"} /\ UNCHANGED wakeup
    /\ UNCHANGED <<Task, eventDone, command, hw, tx, bus_busy, sent, garbled, refused, mishaps>>

\* (mutant) the bytes that wait in the FIFO are counted as sent
BytesMovedAll == MapThenSumSet(LAMBDA q : dq[q].addrSent + dq[q].position, DOMAIN dq)

\* i2c_update_error_byte_cnt: the byte the controller has come to, counted from the
\* bytes put into and taken out of the FIFOs: of entry q, bc < 0 for its address
BytesMoved == MapThenSumSet(LAMBDA q : dq[q].addrSent + dq[q].position, DOMAIN dq)
              - Len(tx) + Len(rx)

PassEntry(r) ==
    LET e    == dq[r.q]
        left == r.bc - e.addrSent
    IN  IF r.found \/ r.q > Len(dq) \/ r.bc <= 0 THEN r
        ELSE IF left <= 0 THEN [r EXCEPT !.bc = -1, !.found = TRUE]
        ELSE IF e.length > left THEN [r EXCEPT !.bc = left, !.found = TRUE]
        ELSE [r EXCEPT !.q = @ + 1, !.bc = left - e.length]

ByteReached == Rounds(PassEntry, [q |-> 1, bc |-> BytesMoved, found |-> FALSE], Len(dq))

IsrAckErr ==
    /\ Serve("ack_err")
    /\ i2cIsrExit(IF ByteReached.bc < 0 THEN "ADDR_NAK" ELSE "DATA_NAK")

IsrTransComplete == Serve("trans_complete") /\ i2cIsrExit("OK")

IsrArbitration == Serve("arbitration_lost") /\ i2cIsrExit("ARBITRATION")

\* the list is refilled, and the controller goes on at its beginning
IsrEndDetect ==
    LET s == fillCmdQueue(dq, queuePos, command)
    IN  /\ Serve("end_detect")
        /\ dq' = s.dq /\ command' = s.command
        /\ ena' = (ena \ {"end_detect"}) \cup s.ena
        /\ raw' = (raw \ {"end_detect"}) \cup {"trans_start"}
        /\ hw' = [run |-> TRUE, ip |-> 0, k |-> 0]
        /\ active' = active \ {"end_detect"}
        /\ UNCHANGED <<Task, queuePos, stage, exitCode, eventDone, wakeup, tx, rx,
                       bus_busy, faults, history>>

Handler == \/ IsrEnter \/ IsrTransStart \/ IsrTxEmpty \/ IsrRxFull \/ IsrAckErr
           \/ IsrTransComplete \/ IsrArbitration \/ IsrEndDetect

\* the timer task of FreeRTOS (external)
TimerTask ==
    /\ wakeup
    /\ wakeup' = FALSE /\ eventDone' = TRUE
    /\ UNCHANGED <<Task, dq, queuePos, command, stage, exitCode, active, hwVars, faults, history>>

-----------------------------------------------------------------------------
(* The task. *)

StillServed == active # {} \/ stage # "DONE"

\* A 10 bit read is a write of no data and a read; a read of no data is refused.
Queued(mode, length, stop, addrReq) ==
    IF mode = "READ" /\ addrReq = 2
    THEN <<Entry("WRITE", 0, FALSE, 2), Entry("READ", length, stop, 1)>>
    ELSE <<Entry(mode, length, stop, addrReq)>>

\* sendStop ends the transfer and starts it
AddQueue ==
    \E mode \in {"READ", "WRITE"}, addrReq \in AddrReqs, stop \in BOOLEAN :
    \E length \in IF mode = "READ" THEN Reads ELSE Writes :
        LET new == Queued(mode, length, stop, addrReq)
        IN  /\ pc = "idle"
            /\ Len(dq) + Len(new) <= MaxEntries
            /\ Len(dq) + Len(new) = MaxEntries => stop
            /\ dq' = dq \o new
            /\ pc' = IF stop THEN "proc" ELSE "idle"
            /\ mishaps' = mishaps \cup {m \in {"late"} : StillServed}
            /\ UNCHANGED <<faults, queuePos, command, eBits, reason, attempt,
                           isrVars, hwVars, sent, garbled, misplaced, refused>>

BusBusy ==
    /\ pc = "proc" /\ bus_busy
    /\ reason' = "BUSY" /\ pc' = "ended"
    /\ mishaps' = mishaps \cup {"held"}
    /\ UNCHANGED <<faults, dq, queuePos, command, eBits, attempt, isrVars,
                   hwVars, sent, garbled, misplaced, refused>>

\* i2cProcQueue up to the release of the FIFOs
Prepare ==
    LET fixed == [q \in DOMAIN dq |-> [dq[q] EXCEPT !.rw = @ + 1]]
        s     == fillCmdQueue(fixed, 1, command)
        again == \E q \in DOMAIN dq : dq[q].startCmdSent
    IN  /\ pc = "proc" /\ ~bus_busy
        /\ stage' = "DONE" /\ exitCode' = "none" /\ eventDone' = FALSE
        /\ raw' = {} /\ ena' = ena \cup (s.ena \cap {"end_detect"})
        /\ dq' = s.dq /\ queuePos' = 1 /\ command' = s.command
        /\ hw' = Stopped /\ tx' = <<>> /\ rx' = <<>>
        /\ sent' = 0 /\ garbled' = FALSE /\ misplaced' = FALSE /\ refused' = NoByte
        /\ mishaps' = mishaps \cup {m \in {"resumed"} : again}
                              \cup {m \in {"late"} : StillServed}
                              \cup {m \in {"stale"} : wakeup}
        /\ pc' = "start"
        /\ UNCHANGED <<faults, wakeup, active, bus_busy, eBits, reason, attempt>>

Launch ==
    /\ pc = "start"
    /\ stage' = "STARTUP"
    /\ ena' = Interrupts
    /\ hw' = [run |-> TRUE, ip |-> 0, k |-> 0]
    /\ Latch("trans_start")
    /\ pc' = "wait"
    /\ UNCHANGED <<faults, dq, queuePos, command, eBits, reason, attempt,
                   exitCode, eventDone, wakeup, active, tx, rx, bus_busy, history>>

\* nothing can happen any more but that the event bits come
Quiet == ~CanExecute /\ active = {} /\ Status = {}

\* (mutant) the code the handler left is not looked at
WaitEndsByBits ==
    /\ pc = "wait"
    /\ \/ (eventDone \/ (Quiet /\ ~wakeup)) /\ Undisturbed
       \/ Disturb("wait")
       \/ /\ Quiet /\ wakeup /\ "wakeup" \in faults
          /\ faults' = faults \ {"wakeup"} /\ UNCHANGED mishaps
    /\ eBits' = IF eventDone THEN exitCode ELSE "none"
    /\ pc' = "judge"
    /\ UNCHANGED <<dq, queuePos, command, reason, attempt, isrVars, hwVars,
                   sent, garbled, misplaced, refused>>

\* what counts is the code the handler left, not the event bits, which can be lost
WaitEnds ==
    /\ pc = "wait"
    /\ \/ (eventDone \/ (Quiet /\ ~wakeup)) /\ Undisturbed
       \/ Disturb("wait")
       \/ /\ Quiet /\ wakeup /\ "wakeup" \in faults
          /\ faults' = faults \ {"wakeup"} /\ UNCHANGED mishaps
    /\ eBits' = exitCode
    /\ pc' = "judge"
    /\ UNCHANGED <<dq, queuePos, command, reason, attempt, isrVars, hwVars,
                   sent, garbled, misplaced, refused>>

Reason(err) ==
    CASE err = "OK"                         -> "OK"
      [] err \in {"ADDR_NAK", "DATA_NAK"}  -> "ACK"
      [] err = "ARBITRATION"                -> "BUS"
      [] OTHER                              -> "DEV"

\* without an exit code it was the wait that timed out: interrupts are shut off
Judge ==
    LET byte == ByteReached
    IN  /\ pc = "judge"
        /\ IF eBits # "none"
           THEN reason' = Reason(exitCode) /\ UNCHANGED <<stage, ena, raw>>
           ELSE /\ reason' = IF byte.bc = 0 /\ byte.q = 1 THEN "BUSY" ELSE "TIMEOUT"
                /\ stage' = "DONE" /\ ena' = {} /\ raw' = {}
        /\ pc' = "ended"
        /\ UNCHANGED <<faults, dq, queuePos, command, eBits, attempt,
                       exitCode, eventDone, wakeup, active, hw, tx, rx, bus_busy, history>>

\* i2cWrite, i2cRead: a busy bus is cleared by i2cInit, which can fail, and the queue
\* is processed again
Reinit ==
    /\ pc = "ended" /\ reason = "BUSY" /\ attempt = 1
    /\ hw' = Stopped /\ ena' = {} /\ raw' = {} /\ tx' = <<>> /\ rx' = <<>>
    /\ command' = NoCommands
    /\ attempt' = 2
    /\ \/ pc' = "proc" /\ bus_busy' = FALSE
       \/ UNCHANGED <<pc, bus_busy>>
    /\ UNCHANGED <<faults, dq, queuePos, eBits, reason, isrVars, history>>

Ended == pc = "ended" /\ (reason # "BUSY" \/ attempt = 2)

\* Forgotten here, if nothing is at work with it any more: what Prepare writes before
\* anyone reads it again (bounds the state space).
i2cFlush ==
    LET still == hw.run \/ active # {}
    IN  /\ Ended
        /\ dq' = <<>> /\ queuePos' = 1
        /\ pc' = "idle" /\ attempt' = 1 /\ eBits' = "none" /\ reason' = "OK"
        /\ sent' = 0 /\ garbled' = FALSE /\ misplaced' = FALSE /\ refused' = NoByte
        /\ mishaps' = {}
        /\ IF still THEN UNCHANGED <<command, hw, tx, rx, stage, exitCode, eventDone>>
           ELSE /\ command' = NoCommands /\ hw' = Stopped /\ tx' = <<>> /\ rx' = <<>>
                /\ stage' = "DONE" /\ exitCode' = "none" /\ eventDone' = FALSE
        /\ UNCHANGED <<faults, wakeup, active, ena, raw, bus_busy>>

Caller == AddQueue \/ BusBusy \/ Prepare \/ Launch \/ WaitEnds \/ Judge \/ Reinit \/ i2cFlush

Next == Caller \/ Handler \/ TimerTask \/ Controller

Spec == Init /\ [][Next]_vars

-----------------------------------------------------------------------------
\* Where the driver is: each variable keeps to its range, and positions to their buffers.
TypeOK ==
    /\ faults \subseteq Faults
    /\ queuePos \in 1 .. Len(dq) + 1
    /\ \A q \in DOMAIN dq : /\ dq[q].position \in 0 .. dq[q].length
                            /\ dq[q].cmdBytesNeeded \in 0 .. dq[q].length
                            /\ dq[q].addrSent \in 0 .. dq[q].addrReq
    /\ Len(tx) <= FifoLen /\ Len(rx) <= FifoLen
    /\ ena \subseteq Interrupts /\ raw \subseteq Interrupts /\ active \subseteq Interrupts
    /\ mishaps \subseteq Mishaps

\* Everything the queue asks for was on the bus, once and in order, and what was
\* received is where it belongs.
Whole ==
    /\ sent = Len(Transfer[Len(dq)]) /\ ~garbled /\ ~misplaced
    /\ \A q \in DOMAIN dq : dq[q].position = dq[q].length

\* Unless the transfer was skipped, resumed or late, the caller is told OK only for a whole
\* one (i2cWrite, i2cRead); no other mishap makes the driver report what was not.
SuccessIsWhole ==
    Ended /\ reason = "OK" /\ mishaps \cap Deceptive = {} => Whole

\* A transfer that neither the slave nor the clock disturbs succeeds, also when the event
\* group refused the handler's bits ("try to recover from O/S failure").  Excluded are, too,
\* one that passed entries whose commands were not all listed, a second attempt, and one
\* that found the bus held, an earlier transfer still served or its event bits to come.
CleanSucceeds ==
    Ended /\ mishaps = {} => reason = "OK" /\ Whole

\* The byte that was refused is told rightly, from counts of bytes that are still in
\* the FIFOs, as part of an address or of the data (i2c_update_error_byte_cnt), unless the
\* transfer was skipped, resumed or late.
NakBlamed ==
    Ended /\ reason = "ACK" /\ mishaps \cap Deceptive = {}
        => (exitCode = "ADDR_NAK") = (refused.b < 0)

\* The list the controller executes never has a START before END ("else a time out
\* cascade occurs"), and does not run past its end (fillCmdQueue).
ListWellFormed ==
    pc = "wait" /\ mishaps \cap Deceptive = {} =>
        \E last \in 0 .. Slots - 1 :
            /\ command[last].op \in {"STOP", "END"}
            /\ \A i \in 0 .. last - 1 :
                  /\ command[i].op \notin {"STOP", "END"}
                  /\ command[i].op = "RSTART" => command[i + 1].op = "WRITE"

=============================================================================
