------------------------------- MODULE TwoWire -------------------------------
(***************************************************************************)
(* TwoWire (Wire.cpp): the calls by which a client writes to a device and  *)
(* reads from it.  With sendStop = false a call only queues its part; the  *)
(* next call with sendStop = true moves all of it over the bus.            *)
(*                                                                         *)
(* The object keeps, for either direction, where in its buffer the client  *)
(* is, how much is there, and how much of it is queued in the driver.  A   *)
(* byte to send is one of two values; of a received byte it is known which *)
(* one of the last answer it is.  The error is known from the call         *)
(* (last_error only repeats it).  One client, which does not call          *)
(* requestFrom in the middle of a transmission.                            *)
(***************************************************************************)
EXTENDS Integers, Sequences

CONSTANTS
    BufLen,   \* I2C_BUFFER_LENGTH, 128
    MaxQueue, \* bound: entries queued in the driver
    Sizes     \* bound: bytes that are requested

ASSUME WireAssumption ==
    BufLen \in Nat \ {0, 1} /\ MaxQueue \in Nat \ {0} /\ Sizes \subseteq Nat

VARIABLES
    tx, rx,             \* [index, length, queued]: txIndex, txLength, txQueued, ...
    txBuffer, rxBuffer,
    transmitting,
    dq,                 \* the driver's queue: which part of which buffer
    pc,                 \* ready, called (the driver is at work), returned
    call,               \* the call that waits for the driver
    result,             \* what the driver returned: error, bytes read
    wrote,              \* history: the bytes of this transmission
    blame,              \* history: the call that left the counts wrong
    skewed              \* history: a call since the last request began with wrong counts

wireVars == <<tx, rx, txBuffer, rxBuffer, transmitting, dq, pc, call, result,
              wrote, blame, skewed>>

Stale == -1

Nothing == [index |-> 0, length |-> 0, queued |-> 0]

WireInit ==
    /\ tx = Nothing /\ rx = Nothing
    /\ txBuffer = [i \in 0 .. BufLen - 1 |-> 0]
    /\ rxBuffer = [i \in 0 .. BufLen - 1 |-> Stale]
    /\ transmitting = FALSE
    /\ dq = <<>>
    /\ pc = "ready" /\ call = [op |-> "none", cnt |-> 0]
    /\ result = [err |-> "OK", count |-> 0]
    /\ wrote = <<>> /\ blame = "none" /\ skewed = FALSE

\* bytes that the first entries of a queue hold for a direction
Bytes(queue, mode) ==
    LET n[k \in 0 .. Len(queue)] ==
            IF k = 0 THEN 0
            ELSE n[k - 1] + (IF queue[k].mode = mode THEN queue[k].num ELSE 0)
    IN  n

Pending(mode) == Bytes(dq, mode)[Len(dq)]

Skew == rx.queued # Pending("READ") \/ tx.queued # Pending("WRITE")

-----------------------------------------------------------------------------
(* beginTransmission, write, read, flush *)

\* (mutant) what is already queued is written over
beginTransmissionAtZero ==
    /\ pc = "ready"
    /\ transmitting' = TRUE
    /\ tx' = [tx EXCEPT !.index = 0, !.length = 0]
    /\ wrote' = <<>>
    /\ UNCHANGED <<rx, txBuffer, rxBuffer, dq, pc, call, result, blame, skewed>>

beginTransmission ==
    /\ pc = "ready"
    /\ transmitting' = TRUE
    /\ tx' = [tx EXCEPT !.index = tx.queued, !.length = tx.queued]
    /\ wrote' = <<>>
    /\ UNCHANGED <<rx, txBuffer, rxBuffer, dq, pc, call, result, blame, skewed>>

\* (mutant) the length is not checked
writeUnchecked ==
    LET data == (Len(dq) + Len(wrote)) % 2 IN
    /\ pc = "ready" /\ transmitting /\ tx.length <= BufLen
    /\ txBuffer' = [txBuffer EXCEPT ![tx.index] = data]
    /\ tx' = [tx EXCEPT !.index = @ + 1, !.length = tx.index + 1]
    /\ wrote' = Append(wrote, data)
    /\ UNCHANGED <<rx, rxBuffer, transmitting, dq, pc, call, result, blame, skewed>>

\* The bytes differ from one part of a transfer to the next.  A byte that does not fit,
\* or comes without a begin, is refused (MEMORY, NO_BEGIN).
write ==
    LET data == (Len(dq) + Len(wrote)) % 2 IN
    /\ pc = "ready" /\ transmitting /\ tx.length < BufLen
    /\ txBuffer' = [txBuffer EXCEPT ![tx.index] = data]
    /\ tx' = [tx EXCEPT !.index = @ + 1, !.length = tx.index + 1]
    /\ wrote' = Append(wrote, data)
    /\ UNCHANGED <<rx, rxBuffer, transmitting, dq, pc, call, result, blame, skewed>>

read ==
    /\ pc = "ready" /\ rx.index < rx.length
    /\ rx' = [rx EXCEPT !.index = @ + 1]
    /\ UNCHANGED <<tx, txBuffer, rxBuffer, transmitting, dq, pc, call, result,
                   wrote, blame, skewed>>

\* the driver's queue is emptied with the counts
flush ==
    tx' = Nothing /\ rx' = Nothing /\ dq' = <<>> /\ blame' = "none"

-----------------------------------------------------------------------------
(* endTransmission and requestFrom, up to the driver *)

\* (mutant) every read starts at the beginning of the buffer
AddQueueAtZero(mode, at, num, want) ==
    dq' = Append(dq, [mode |-> mode, at |-> IF mode = "READ" THEN 0 ELSE at,
                      num |-> num, want |-> want])

AddQueue(mode, at, num, want) ==
    dq' = Append(dq, [mode |-> mode, at |-> at, num |-> num, want |-> want])

endTransmission(sendStop) ==
    /\ pc = "ready"
    /\ IF ~transmitting
       THEN /\ flush
            /\ UNCHANGED <<transmitting, pc, call, skewed>>
       ELSE /\ Len(dq) < MaxQueue
            /\ AddQueue("WRITE", tx.queued, tx.length - tx.queued, wrote)
            /\ skewed' = (skewed \/ Skew)
            /\ IF sendStop
               THEN /\ pc' = "called" /\ call' = [op |-> "end", cnt |-> 0]
                    /\ UNCHANGED <<tx, transmitting>>
               ELSE /\ tx' = [index |-> 0, length |-> 0, queued |-> tx.length]
                    /\ transmitting' = FALSE
                    /\ UNCHANGED <<pc, call>>
            /\ UNCHANGED <<rx, blame>>
    /\ wrote' = <<>>
    /\ UNCHANGED <<txBuffer, rxBuffer, result>>

\* what was received before is no answer any more
Forget == rxBuffer' = [i \in 0 .. BufLen - 1 |-> Stale]

\* A read of no bytes is refused by i2cRead: what is queued stays in the driver, while
\* the object takes it for done.
requestFrom(size, sendStop) ==
    LET cnt == rx.queued IN
    /\ pc = "ready" /\ ~transmitting
    /\ Forget
    /\ skewed' = Skew
    /\ IF ~(cnt < BufLen - 1 /\ size + cnt <= BufLen)
       THEN flush /\ UNCHANGED <<pc, call>>
       ELSE IF size = 0
       THEN /\ rx' = [index |-> 0, length |-> cnt, queued |-> 0]
            /\ tx' = [tx EXCEPT !.queued = 0]
            /\ blame' = "empty"
            /\ UNCHANGED <<dq, pc, call>>
       ELSE /\ Len(dq) < MaxQueue
            /\ AddQueue("READ", cnt, size, <<>>)
            /\ IF sendStop
               THEN /\ pc' = "called" /\ call' = [op |-> "request", cnt |-> cnt]
                    /\ rx' = [rx EXCEPT !.queued = cnt + size]
               ELSE /\ rx' = [index |-> 0, length |-> cnt, queued |-> cnt + size]
                    /\ UNCHANGED <<pc, call>>
            /\ UNCHANGED <<tx, blame>>
    /\ UNCHANGED <<txBuffer, transmitting, result, wrote>>

-----------------------------------------------------------------------------
(* The driver, and the end of the call. *)

\* where the k-th byte of the answer goes: reads are filled in the order of the queue
Before(q) == Bytes(dq, "READ")[q - 1]

Answer(count) ==
    [i \in 0 .. BufLen - 1 |->
        LET holds == {q \in DOMAIN dq : /\ dq[q].mode = "READ"
                                        /\ i \in dq[q].at .. dq[q].at + dq[q].num - 1
                                        /\ Before(q) + i - dq[q].at < count}
            q     == CHOOSE h \in holds : \A g \in holds : g <= h
        IN  IF holds = {} THEN rxBuffer[i] ELSE Before(q) + i - dq[q].at]

\* i2cProcQueue: all of it moves, or an error comes after some bytes were read
Transfer ==
    /\ \/ result' = [err |-> "OK", count |-> Pending("READ")]
       \/ \E count \in 0 .. Pending("READ") - 1 : result' = [err |-> "ACK", count |-> count]
       \/ Pending("READ") = 0 /\ result' = [err |-> "ACK", count |-> 0]
    /\ rxBuffer' = Answer(result'.count)
    /\ UNCHANGED <<tx, rx, txBuffer, transmitting, dq, call, wrote, blame, skewed>>

\* (mutant) a failed request leaves what it had queued
FinishRequestKept ==
    /\ call.op = "request"
    /\ rx' = [index |-> 0, length |-> result.count,
              queued |-> IF result.err = "OK" THEN 0 ELSE rx.queued]
    /\ tx' = [tx EXCEPT !.queued = 0]
    /\ blame' = "none"
    /\ UNCHANGED transmitting

FinishRequest ==
    /\ call.op = "request"
    /\ rx' = [index |-> 0, length |-> result.count, queued |-> 0]
    /\ tx' = [tx EXCEPT !.queued = 0]
    /\ blame' = "none"
    /\ UNCHANGED transmitting

\* only success ends the queueing: after an error the counts stay
FinishEnd ==
    /\ call.op = "end"
    /\ IF result.err = "OK"
       THEN /\ rx' = [index |-> 0, length |-> rx.queued, queued |-> 0]
            /\ tx' = Nothing
            /\ blame' = "none"
       ELSE /\ tx' = [index |-> 0, length |-> 0, queued |-> tx.queued]
            /\ blame' = "end"
            /\ UNCHANGED rx
    /\ transmitting' = FALSE

\* i2cFlush, and back in the object
Finish ==
    /\ pc = "returned"
    /\ dq' = <<>>
    /\ FinishRequest \/ FinishEnd
    /\ pc' = "ready" /\ call' = [op |-> "none", cnt |-> 0]
    /\ result' = [err |-> "OK", count |-> 0]
    /\ UNCHANGED <<txBuffer, rxBuffer, wrote, skewed>>

Calls ==
    \/ beginTransmission \/ write \/ read
    \/ \E sendStop \in BOOLEAN : endTransmission(sendStop)
    \/ \E size \in Sizes, sendStop \in BOOLEAN : requestFrom(size, sendStop)

-----------------------------------------------------------------------------
(* Properties *)

\* Indices stay in the buffers: what is to be read too, unless a call has found the
\* driver's queue not as the object believes it to be.
WireTypeOK ==
    /\ tx.index \in 0 .. BufLen /\ tx.length \in 0 .. BufLen /\ tx.queued \in 0 .. BufLen
    /\ 0 <= rx.index /\ rx.index <= rx.length
    /\ pc = "ready" /\ ~skewed => rx.length <= BufLen
    /\ rx.queued \in 0 .. BufLen
    /\ \A q \in DOMAIN dq : dq[q].at + dq[q].num <= BufLen
    /\ pc \in {"ready", "called", "returned"}

\* What read() gives, once no read is queued any more, are the bytes of the last answer,
\* in order (TwoWire::requestFrom, endTransmission, read).
FreshReads ==
    pc = "ready" /\ rx.queued = 0 /\ ~skewed /\ blame # "empty" =>
        \A i \in rx.index .. rx.length - 1 : rxBuffer[i] = i

\* What goes over the bus is what the client wrote, for each queued part of it
\* (beginTransmission, write, endTransmission).
SentAsWritten ==
    pc = "called" /\ ~skewed =>
        \A q \in {p \in DOMAIN dq : dq[p].mode = "WRITE"} :
            dq[q].want = [i \in 1 .. dq[q].num |-> txBuffer[dq[q].at + i - 1]]

\* Of what a call may leave wrong, each makes the counts wrong in one way only: after a
\* failed endTransmission the object counts bytes that the driver has dropped, after a
\* request of no bytes it has forgotten some that the driver still holds.  In every other
\* state between two calls the counts are those of the driver's queue.
CountsAgree ==
    pc = "ready" =>
        /\ blame # "empty" => rx.queued >= Pending("READ") /\ tx.queued >= Pending("WRITE")
        /\ blame # "end"   => rx.queued <= Pending("READ") /\ tx.queued <= Pending("WRITE")

=============================================================================
