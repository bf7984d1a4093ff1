------------------------------- MODULE ImuStart -------------------------------
(***************************************************************************)
(* The start of the shake detector: task_imu brings up the motion sensor   *)
(* (src/components/MPU6050/MPU6050.cpp, on the register operations of      *)
(* src/components/I2Cdev/I2Cdev.cpp) and then enters the loop of ImuFifo.  *)
(*                                                                         *)
(* Each register operation is one or two transactions, any of which may    *)
(* fail; I2Cdev logs the error and reports success.  A failed write leaves *)
(* the register as it was, and writeBit writes back a byte that was never  *)
(* set when its read fails.  Only the upload of the processor's program is *)
(* verified.  The sensor keeps its power when the program restarts: it may *)
(* still run, with the program of the earlier session in its memory.       *)
(*                                                                         *)
(* Left out are registers that decide what is measured, not whether: the   *)
(* ranges, filters, dividers and offsets, and the arithmetic of PID.       *)
(***************************************************************************)
EXTENDS ImuFifo, FiniteSetsExt

CONSTANTS
    ImageLen,  \* MPU6050_DMP_CODE_SIZE
    BankLen,   \* MPU6050_DMP_MEMORY_BANK_SIZE
    ChunkLen,  \* MPU6050_DMP_MEMORY_CHUNK_SIZE
    MaxFaults  \* transactions that fail while the sensor is started, a bound

ASSUME StartAssumption ==
    /\ ImageLen \in Nat \ {0} /\ BankLen \in Nat \ {0} /\ ChunkLen \in Nat \ {0}
    /\ MaxFaults \in Nat

VARIABLES
    at,             \* where the start of task_imu is, "loop" after it
    asleep,         \* PWR_MGMT_1
    USER_CTRL,      \* of its bits, DMP_EN and FIFO_EN
    INT_ENABLE,     \* is the processor's interrupt enabled?
    program,        \* is the processor's start address set?
    BANK_SEL, MEM_START_ADDR,
    memory,         \* of the processor: which byte of the image each cell holds
    bank, address,  \* locals of writeMemoryBlock ...
    i,              \* ... and its bytes written and verified
    devStatus, dmpReady,
    dmpPacketSize,  \* has it been set?
    warm,           \* did the sensor run before the program started?
    faults          \* transactions that have failed

registers == <<asleep, USER_CTRL, INT_ENABLE, program>>
upload    == <<BANK_SEL, MEM_START_ADDR, memory, bank, address, i>>
outcome   == <<devStatus, dmpReady, dmpPacketSize>>
startVars == <<vars, at, registers, upload, outcome, warm, faults>>

Banks == 0 .. (ImageLen - 1) \div BankLen
Cells == Banks \X (0 .. BankLen - 1)

\* where byte k of the image belongs
CellOf(k) == <<k \div BankLen, k % BankLen>>

ImageWhole == \A k \in 0 .. ImageLen - 1 : memory[CellOf(k)] = k

Running ==
    /\ ~asleep /\ USER_CTRL = {"DMP_EN", "FIFO_EN"} /\ INT_ENABLE
    /\ program /\ ImageWhole

StartInit ==
    /\ Init
    /\ at = "wake"
    /\ warm \in BOOLEAN
    /\ asleep = ~warm /\ INT_ENABLE = warm /\ program = warm
    /\ USER_CTRL = IF warm THEN {"DMP_EN", "FIFO_EN"} ELSE {}
    /\ BANK_SEL = 0 /\ MEM_START_ADDR = 0
    /\ memory = [c \in Cells |-> IF warm THEN c[1] * BankLen + c[2] ELSE ImageLen]
    /\ bank = 0 /\ address = 0 /\ i = 0
    /\ devStatus = 0 /\ dmpReady = FALSE /\ dmpPacketSize = FALSE
    /\ faults = 0

-----------------------------------------------------------------------------
(* I2Cdev *)

Step(from, to) == at = from /\ at' = to

Works == UNCHANGED faults
Fails == faults < MaxFaults /\ faults' = faults + 1

\* one transaction that sets a register
Write(register, new, old) == (Works /\ register = new) \/ (Fails /\ register = old)

\* writeBit and writeBits of USER_CTRL.  When the read fails, writeBit writes back
\* the bits of a local that was never set.
WriteUserCtrl(set, cleared) ==
    LET WriteBack(b) == USER_CTRL' = (b \ cleared) \cup set
    IN  \/ Works /\ WriteBack(USER_CTRL)
        \/ Fails /\ \E b \in SUBSET {"DMP_EN", "FIFO_EN"} : WriteBack(b)

UserCtrlLost == Fails /\ UNCHANGED USER_CTRL

OnlyUserCtrl(from, to, set, cleared) ==
    /\ Step(from, to)
    /\ WriteUserCtrl(set, cleared) \/ UserCtrlLost
    /\ UNCHANGED <<vars, asleep, INT_ENABLE, program, upload, outcome, warm>>

\* the same with FIFO_RESET among the bits: the write empties the FIFO
ResetFifo(from, to) ==
    /\ Step(from, to)
    /\ \/ WriteUserCtrl({}, {}) /\ fifo' = 0 /\ offset' = 0 /\ before' = FALSE
       \/ UserCtrlLost /\ UNCHANGED <<fifo, offset, before>>
    /\ UNCHANGED <<INT_STATUS, pc, mpuIntStatus, fifoCount, got, torn,
                   asleep, INT_ENABLE, program, upload, outcome, warm>>

-----------------------------------------------------------------------------
(* initialize and dmpInitialize, up to the upload *)

SetSleepEnabled ==
    /\ Step("wake", "reset")
    /\ Write(asleep', FALSE, asleep)
    /\ UNCHANGED <<vars, USER_CTRL, INT_ENABLE, program, upload, outcome, warm>>

\* (mutant) the sensor is not reset
ResetForgotten ==
    /\ Step("reset", "signal")
    /\ UNCHANGED <<vars, registers, upload, outcome, warm, faults>>

\* DEVICE_RESET clears the registers; the processor's memory keeps what it holds
Reset ==
    /\ Step("reset", "signal")
    /\ \/ /\ Works
          /\ asleep' = TRUE /\ USER_CTRL' = {} /\ INT_ENABLE' = FALSE /\ program' = FALSE
          /\ BANK_SEL' = 0 /\ MEM_START_ADDR' = 0
          /\ INT_STATUS' = {} /\ fifo' = 0 /\ offset' = 0 /\ before' = FALSE
       \/ Fails /\ UNCHANGED <<registers, BANK_SEL, MEM_START_ADDR, INT_STATUS,
                               fifo, offset, before>>
    /\ UNCHANGED <<pc, mpuIntStatus, fifoCount, got, torn, memory, bank, address, i,
                   outcome, warm>>

ResetSignalPath == ResetFifo("signal", "clock")

SetClock ==
    /\ at \in {"clock", "clock again"}
    /\ at' = IF at = "clock" THEN "no interrupt" ELSE "bank"
    /\ Write(asleep', FALSE, asleep)
    /\ UNCHANGED <<vars, USER_CTRL, INT_ENABLE, program, upload, outcome, warm>>

NoInterrupt ==
    /\ Step("no interrupt", "clock again")
    /\ Write(INT_ENABLE', FALSE, INT_ENABLE)
    /\ UNCHANGED <<vars, asleep, USER_CTRL, program, upload, outcome, warm>>

-----------------------------------------------------------------------------
(* writeMemoryBlock: chunks that cross no bank, each of them read back *)

OnlyUpload == UNCHANGED <<vars, registers, outcome, warm>>

SetMemoryBank(from, to) ==
    /\ Step(from, to)
    /\ Write(BANK_SEL', bank, BANK_SEL)
    /\ UNCHANGED <<MEM_START_ADDR, memory, bank, address, i>> /\ OnlyUpload

SetMemoryStartAddress(from, to) ==
    /\ Step(from, to)
    /\ Write(MEM_START_ADDR', address, MEM_START_ADDR)
    /\ UNCHANGED <<BANK_SEL, memory, bank, address, i>> /\ OnlyUpload

ChunkSize == Min({ChunkLen, ImageLen - i, BankLen - address})

\* the cell that the n-th access after MEM_START_ADDR was set goes to
Accessed(n) == <<BANK_SEL, (MEM_START_ADDR + n) % BankLen>>

WriteChunk ==
    /\ Step("write", "verify bank")
    /\ \/ /\ Works
          /\ memory' = [c \in Cells |->
                 IF \E n \in 0 .. ChunkSize - 1 : c = Accessed(n)
                 THEN i + ((c[2] - MEM_START_ADDR) % BankLen) ELSE memory[c]]
          /\ MEM_START_ADDR' = (MEM_START_ADDR + ChunkSize) % BankLen
       \/ Fails /\ UNCHANGED <<memory, MEM_START_ADDR>>
    /\ UNCHANGED <<BANK_SEL, bank, address, i>> /\ OnlyUpload

Verified == \A n \in 0 .. ChunkSize - 1 : memory[Accessed(n)] = i + n

\* the next chunk, and with address 0 the next bank
Advance ==
    /\ i' = i + ChunkSize
    /\ address' = (address + ChunkSize) % BankLen
    /\ IF i' < ImageLen
       THEN bank' = (IF address' = 0 THEN bank + 1 ELSE bank) /\ at' = "bank"
       ELSE bank' = bank /\ at' = "program"
    /\ UNCHANGED outcome

\* (mutant) the chunk is not compared
VerifyNothing ==
    /\ at = "verify"
    /\ Works /\ Advance
    /\ MEM_START_ADDR' = (MEM_START_ADDR + ChunkSize) % BankLen
    /\ UNCHANGED <<vars, registers, BANK_SEL, memory, warm>>

\* memcmp with what was read, or, when the read fails, with whatever the buffer
\* held; on a difference dmpInitialize ends with 1
Verify ==
    /\ at = "verify"
    /\ \/ Works /\ Verified /\ Advance
       \/ Fails /\ Advance
       \/ /\ (Works /\ ~Verified) \/ Fails
          /\ devStatus' = 1 /\ at' = "loop"
          /\ UNCHANGED <<bank, address, i, dmpReady, dmpPacketSize>>
    /\ \/ MEM_START_ADDR' = (MEM_START_ADDR + ChunkSize) % BankLen
       \/ faults' > faults /\ UNCHANGED MEM_START_ADDR
    /\ UNCHANGED <<vars, registers, BANK_SEL, memory, warm>>

WriteMemoryBlock ==
    \/ SetMemoryBank("bank", "address") \/ SetMemoryStartAddress("address", "write")
    \/ WriteChunk
    \/ SetMemoryBank("verify bank", "verify address")
    \/ SetMemoryStartAddress("verify address", "verify")
    \/ Verify

-----------------------------------------------------------------------------
(* The rest of dmpInitialize, and of the start of task_imu *)

ProgramStart ==
    /\ Step("program", "user")
    /\ Write(program', TRUE, program)
    /\ UNCHANGED <<vars, asleep, USER_CTRL, INT_ENABLE, upload, outcome, warm>>

\* writeBytes(0x6A, 0xC0)
EnableFifo ==
    /\ Step("user", "interrupt")
    /\ Write(USER_CTRL', {"DMP_EN", "FIFO_EN"}, USER_CTRL)
    /\ UNCHANGED <<vars, asleep, INT_ENABLE, program, upload, outcome, warm>>

EnableInterrupt ==
    /\ Step("interrupt", "last reset")
    /\ Write(INT_ENABLE', TRUE, INT_ENABLE)
    /\ UNCHANGED <<vars, asleep, USER_CTRL, program, upload, outcome, warm>>

LastReset == ResetFifo("last reset", "disable")

DisableDmp == OnlyUserCtrl("disable", "size", {}, {"DMP_EN"})

SetPacketSize ==
    /\ Step("size", "accel fifo")
    /\ dmpPacketSize' = TRUE
    /\ UNCHANGED <<vars, registers, upload, devStatus, dmpReady, warm, faults>>

\* CalibrateAccel and CalibrateGyro: each call of PID ends with both resets
Calibrate ==
    \/ ResetFifo("accel fifo", "accel dmp") \/ OnlyUserCtrl("accel dmp", "gyro fifo", {}, {})
    \/ ResetFifo("gyro fifo", "gyro dmp") \/ OnlyUserCtrl("gyro dmp", "enable", {}, {})

\* (mutant) the processor stays disabled
EnableDmpForgotten == OnlyUserCtrl("enable", "ready", {}, {})

EnableDmp == OnlyUserCtrl("enable", "ready", {"DMP_EN"}, {})

Ready ==
    /\ Step("ready", "loop")
    /\ dmpReady' = TRUE
    /\ UNCHANGED <<vars, registers, upload, devStatus, dmpPacketSize, warm, faults>>

Start ==
    \/ SetSleepEnabled \/ Reset \/ ResetSignalPath \/ SetClock \/ NoInterrupt
    \/ WriteMemoryBlock
    \/ ProgramStart \/ EnableFifo \/ EnableInterrupt \/ LastReset \/ DisableDmp
    \/ SetPacketSize \/ Calibrate \/ EnableDmp \/ Ready

-----------------------------------------------------------------------------
Rest == UNCHANGED <<at, registers, upload, outcome, warm, faults>>

\* With a packet size of 0 no count is too small, and getFIFOBytes reads nothing: the
\* bytes that are used next have never been in the FIFO.
GetNoBytes ==
    /\ pc = "wait" /\ pc' = "use"
    /\ got' = 0 /\ torn' = TRUE
    /\ UNCHANGED <<sensor, mpuIntStatus, fifoCount, before>>

\* the loop with a packet size that was never set, 0: it goes on all the same
TaskImuUnsized ==
    \/ GetIntStatus \/ GetFIFOCount \/ ResetFIFO \/ CountAfterReset
    \/ GetNoBytes \/ UseBuffer(0)

Loop ==
    /\ at = "loop"
    /\ IF dmpPacketSize THEN TaskImu ELSE TaskImuUnsized
    /\ Rest

\* A sensor that runs makes packets; one whose interrupt is off fills its FIFO
\* unseen, which is left out.
Sensor == Running /\ DmpPacket /\ Rest

StartNext == Start \/ Loop \/ Sensor

StartSpec == StartInit /\ [][StartNext]_startVars

\* The task is scheduled; a sensor that runs makes packets at a steady rate.
StartFairSpec ==
    StartSpec /\ WF_startVars(Start) /\ WF_startVars(Loop) /\ WF_startVars(Sensor)

-----------------------------------------------------------------------------
(* Properties *)

\* An upload that is reported as good is good, whichever transaction failed: a
\* chunk that was lost, or went to the wrong bank or address, is noticed when it
\* is read back.  With the image of an earlier session in the memory, a chunk in
\* the wrong bank is not noticed.
UploadIsVerified ==
    ~warm /\ faults <= 1 /\ i = ImageLen => ImageWhole

\* Nobody looks at dmpReady.  A start whose upload failed is followed by the loop
\* all the same, with a packet size of 0, and what keeps it from using a buffer
\* that was never filled is that the sensor was reset and announces nothing: it
\* takes two failures to get there.
FailedStartIsQuiet ==
    at = "loop" /\ ~dmpReady /\ faults <= 1 => pc \in {"status", "count"}

\* With a packet size that was set, one overflow tears at most one packet, whatever
\* the start left behind.  With one that was not, what is used is never a packet.
SizedTornOnce == IF dmpPacketSize THEN TornOnce ELSE pc = "use" => torn

\* A start in which no transaction fails leaves the sensor running, whatever the
\* earlier session left behind, and only failures make the task wait for ever.
StartSucceeds == at = "loop" /\ faults = 0 => dmpReady /\ Running

\* The busy wait of a sensor that runs ends, also when the interrupt was for a
\* packet that a reset of the FIFO has thrown away.
WaitEnds == pc = "wait" /\ Running /\ dmpPacketSize ~> pc = "bytes"

=============================================================================
