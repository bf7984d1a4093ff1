------------------------------- MODULE ImuFifo -------------------------------
(***************************************************************************)
(* The shake detector (src/components/IMU/SensorIMU.cpp, task_imu): a task *)
(* that drains the FIFO of the motion sensor while the sensor fills it.    *)
(*                                                                         *)
(* Interrupt status, byte count and bytes are transactions of their own,   *)
(* and the sensor's processor writes packets at any moment between them,   *)
(* also between two bytes of a burst.  When the FIFO is full it drops the  *)
(* oldest bytes, so that what is read next starts inside a packet.         *)
(***************************************************************************)
EXTENDS Naturals

CONSTANTS
    FifoLen,   \* 1024 bytes, no multiple of
    PacketLen  \* dmpPacketSize, 28 bytes

ASSUME ImuAssumption ==
    /\ PacketLen \in Nat \ {0}
    /\ FifoLen \in Nat
    /\ FifoLen >= 2 * PacketLen

Interrupts == {"DMP_INT", "FIFO_OFLOW"}

VARIABLES
    INT_STATUS,    \* the interrupts pending in the sensor
    fifo,          \* bytes in it
    offset,        \* which byte of its packet the oldest of them is
    pc,            \* where task_imu is
    mpuIntStatus, fifoCount,
    got,           \* bytes of fifoBuffer that have been read
    torn,          \* is what it holds no packet?
    before         \* history: was a torn packet used since the FIFO was reset?

vars == <<INT_STATUS, fifo, offset, pc, mpuIntStatus, fifoCount, got, torn, before>>

sensor == <<INT_STATUS, fifo, offset>>
packet == <<got, torn, before>>

Init ==
    /\ INT_STATUS = {} /\ fifo = 0 /\ offset = 0
    /\ pc = "status" /\ mpuIntStatus = {} /\ fifoCount = 0
    /\ got = 0 /\ torn = FALSE /\ before = FALSE

\* the place in its packet of a byte n further on, n at most a packet
Onward(n) ==
    IF offset + n < PacketLen THEN offset + n ELSE offset + n - PacketLen

-----------------------------------------------------------------------------
(* task_imu, after its initialisation *)

\* a read of the interrupt status clears it
GetIntStatus ==
    /\ pc = "status" /\ pc' = "count"
    /\ mpuIntStatus' = INT_STATUS
    /\ INT_STATUS' = {}
    /\ UNCHANGED <<fifo, offset, fifoCount, packet>>

\* (mutant) only the count tells of an overflow
GetFIFOCountOnly ==
    /\ pc = "count"
    /\ fifoCount' = fifo
    /\ pc' = IF fifo >= FifoLen THEN "reset"
             ELSE IF "DMP_INT" \in mpuIntStatus THEN "wait" ELSE "status"
    /\ UNCHANGED <<sensor, mpuIntStatus, packet>>

GetFIFOCount ==
    /\ pc = "count"
    /\ fifoCount' = fifo
    /\ pc' = IF "FIFO_OFLOW" \in mpuIntStatus \/ fifo >= FifoLen THEN "reset"
             ELSE IF "DMP_INT" \in mpuIntStatus THEN "wait" ELSE "status"
    /\ UNCHANGED <<sensor, mpuIntStatus, packet>>

\* resetFIFO empties the FIFO; interrupts that came meanwhile stay pending
ResetFIFO ==
    /\ pc = "reset" /\ pc' = "recount"
    /\ fifo' = 0 /\ offset' = 0
    /\ before' = FALSE
    /\ UNCHANGED <<INT_STATUS, mpuIntStatus, fifoCount, got, torn>>

CountAfterReset ==
    /\ pc = "recount" /\ pc' = "status"
    /\ fifoCount' = fifo
    /\ UNCHANGED <<sensor, mpuIntStatus, packet>>

\* (mutant) nobody waits for the packet the interrupt announced
WaitForPacketSkipped ==
    /\ pc = "wait" /\ pc' = "bytes"
    /\ got' = 0 /\ torn' = FALSE
    /\ UNCHANGED <<sensor, mpuIntStatus, fifoCount, before>>

\* (mutant) the count is not read again
WaitForPacketOnce ==
    /\ pc = "wait"
    /\ IF fifoCount < PacketLen
       THEN UNCHANGED <<pc, fifoCount, got, torn>>
       ELSE pc' = "bytes" /\ got' = 0 /\ torn' = FALSE /\ UNCHANGED fifoCount
    /\ UNCHANGED <<sensor, mpuIntStatus, before>>

\* while (fifoCount < packetSize) fifoCount = gyro.getFIFOCount()
WaitForPacket ==
    /\ pc = "wait"
    /\ IF fifoCount < PacketLen
       THEN fifoCount' = fifo /\ UNCHANGED <<pc, got, torn>>
       ELSE pc' = "bytes" /\ got' = 0 /\ torn' = FALSE /\ UNCHANGED fifoCount
    /\ UNCHANGED <<sensor, mpuIntStatus, before>>

\* an empty FIFO repeats the byte read last
GetFIFOBytes ==
    /\ pc = "bytes"
    /\ fifo' = IF fifo = 0 THEN 0 ELSE fifo - 1
    /\ offset' = IF fifo = 0 THEN offset ELSE Onward(1)
    /\ torn' = (torn \/ fifo = 0 \/ offset # got)
    /\ got' = got + 1
    /\ pc' = IF got' = PacketLen THEN "use" ELSE "bytes"
    /\ UNCHANGED <<INT_STATUS, mpuIntStatus, fifoCount, before>>

\* what is in the buffer, a packet or not, is tested for a shake
UseBuffer(packetSize) ==
    /\ pc = "use" /\ pc' = "status"
    /\ fifoCount' = fifoCount - packetSize
    /\ before' = (before \/ torn)
    /\ got' = 0 /\ torn' = FALSE
    /\ UNCHANGED <<sensor, mpuIntStatus>>

Use == UseBuffer(PacketLen)

TaskImu ==
    \/ GetIntStatus \/ GetFIFOCount \/ ResetFIFO \/ CountAfterReset
    \/ WaitForPacket \/ GetFIFOBytes \/ Use

-----------------------------------------------------------------------------
\* The sensor puts a packet into the FIFO, at the expense of the oldest bytes.
DmpPacket ==
    LET lost == IF fifo + PacketLen > FifoLen THEN fifo + PacketLen - FifoLen ELSE 0
    IN  /\ fifo' = fifo + PacketLen - lost
        /\ offset' = Onward(lost)
        /\ INT_STATUS' = INT_STATUS \cup {"DMP_INT"}
                            \cup IF lost > 0 THEN {"FIFO_OFLOW"} ELSE {}
        /\ UNCHANGED <<pc, mpuIntStatus, fifoCount, packet>>

Next == TaskImu \/ DmpPacket

Spec == Init /\ [][Next]_vars

-----------------------------------------------------------------------------
(* Properties *)

\* Every variable keeps its type, and no burst writes past fifoBuffer's packet.
TypeOK ==
    /\ INT_STATUS \in SUBSET Interrupts /\ mpuIntStatus \in SUBSET Interrupts
    /\ fifo \in 0 .. FifoLen /\ fifoCount \in 0 .. FifoLen
    /\ offset \in 0 .. PacketLen - 1
    /\ pc \in {"status", "count", "reset", "recount", "wait", "bytes", "use"}
    /\ got \in 0 .. PacketLen
    /\ torn \in BOOLEAN /\ before \in BOOLEAN

\* The count that task_imu checked may be old, but it is never more than what is
\* there: no burst reads from an empty FIFO.
NeverReadsEmpty == pc = "bytes" => fifo > 0

\* An overflow after the checks, before or in the burst, tears one packet, and
\* its interrupt resets the FIFO before the next: no two torn packets in a row
\* from the same overflow.
TornOnce == ~(pc = "use" /\ torn /\ before)

=============================================================================
