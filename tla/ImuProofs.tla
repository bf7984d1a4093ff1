------------------------------- MODULE ImuProofs -------------------------------
(***************************************************************************)
(* Theorems about the motion sensor: ImuFifo and ImuStart, for every FIFO  *)
(* and packet length, for every length of the image, of its banks and      *)
(* chunks, and any number of failing transactions; and MpuRegisters, for   *)
(* every register.                                                         *)
(*                                                                         *)
(* The loop: counts that the task has read are never more than what is in  *)
(* the FIFO, which only the task empties; and a FIFO that has lost its     *)
(* alignment has an overflow pending that the task will see before its     *)
(* next burst.                                                             *)
(*                                                                         *)
(* The start: the invariants of the loop carry over, because the start     *)
(* leaves the loop's variables as a reset of the FIFO leaves them, unless  *)
(* it failed: then the loop runs without a packet size and reads nothing.  *)
(* For the rest the invariant follows the start step by step: what the     *)
(* registers hold while nothing has failed, and what one failure can have  *)
(* left in the memory, until the chunk is compared.                        *)
(*                                                                         *)
(* The registers: no two fields overlap, and a setter changes no bit but   *)
(* those of its field.                                                     *)
(***************************************************************************)
EXTENDS ImuStart, MpuRegisters, TLAPS

-----------------------------------------------------------------------------
(* The loop *)

\* In a burst the FIFO holds the rest of the packet.
CountHolds ==
    /\ pc = "wait" => fifoCount <= fifo
    /\ pc = "bytes" => got < PacketLen /\ PacketLen - got <= fifo
    /\ pc \in {"bytes", "use"} => fifoCount >= PacketLen

\* The overflow that the task has not acted upon yet.
OverflowSeen ==
    \/ "FIFO_OFLOW" \in INT_STATUS
    \/ pc = "count" /\ "FIFO_OFLOW" \in mpuIntStatus
    \/ pc = "reset"

\* Without it the burst is where it should be, and nothing has been torn.
Aligned ==
    ~OverflowSeen =>
        /\ offset = IF pc = "bytes" THEN got ELSE 0
        /\ ~torn
        /\ ~before

\* A burst begins with nothing torn since the last reset.
CleanStart ==
    /\ pc \in {"wait", "bytes", "use", "recount"} => ~before
    /\ pc = "count" /\ before => "FIFO_OFLOW" \in mpuIntStatus
    /\ pc \in {"status", "count", "wait", "recount", "reset"} => ~torn

FifoInv == TypeOK /\ CountHolds /\ Aligned /\ CleanStart

LEMMA InitFifo == Init => FifoInv
<1> SUFFICES ASSUME Init PROVE FifoInv
    OBVIOUS
<1> USE ImuAssumption DEF Init
<1>1. torn \in BOOLEAN /\ before \in BOOLEAN
    OBVIOUS
<1>2. TypeOK
    BY <1>1 DEF TypeOK, Interrupts
<1>3. CountHolds /\ Aligned /\ CleanStart
    BY DEF CountHolds, OverflowSeen, Aligned, CleanStart
<1> QED
    BY <1>2, <1>3 DEF FifoInv

LEMMA NextFifo == FifoInv /\ [Next]_vars => FifoInv'
<1> SUFFICES ASSUME FifoInv, [Next]_vars PROVE FifoInv'
    OBVIOUS
<1> USE ImuAssumption DEF FifoInv, sensor, packet
<1>1. CASE GetIntStatus
    <2> USE <1>1 DEF GetIntStatus
    <2>1. TypeOK'
        BY DEF TypeOK, CountHolds, Interrupts
    <2>2. CountHolds'
        BY DEF TypeOK, CountHolds
    <2>3. Aligned'
        BY DEF TypeOK, CountHolds, Aligned, OverflowSeen, CleanStart
    <2>4. CleanStart'
        BY DEF TypeOK, CleanStart, Aligned, OverflowSeen
    <2> QED
        BY <2>1, <2>2, <2>3, <2>4
<1>2. CASE GetFIFOCount
    <2> USE <1>2 DEF GetFIFOCount
    <2>1. TypeOK'
        BY DEF TypeOK, CountHolds, Interrupts
    <2>2. CountHolds'
        BY DEF TypeOK, CountHolds
    <2>3. Aligned'
        BY DEF TypeOK, CountHolds, Aligned, OverflowSeen, CleanStart
    <2>4. CleanStart'
        BY DEF TypeOK, CleanStart, Aligned, OverflowSeen
    <2> QED
        BY <2>1, <2>2, <2>3, <2>4
<1>3. CASE ResetFIFO
    <2> USE <1>3 DEF ResetFIFO
    <2>1. TypeOK'
        <3>1. torn' \in BOOLEAN /\ before' \in BOOLEAN
            BY DEF TypeOK
        <3> QED
            BY <3>1 DEF TypeOK, CountHolds, Interrupts
    <2>2. CountHolds'
        BY DEF TypeOK, CountHolds
    <2>3. Aligned'
        BY DEF TypeOK, CountHolds, Aligned, OverflowSeen, CleanStart
    <2>4. CleanStart'
        BY DEF TypeOK, CleanStart, Aligned, OverflowSeen
    <2> QED
        BY <2>1, <2>2, <2>3, <2>4
<1>4. CASE CountAfterReset
    <2> USE <1>4 DEF CountAfterReset
    <2>1. TypeOK'
        BY DEF TypeOK, CountHolds, Interrupts
    <2>2. CountHolds'
        BY DEF TypeOK, CountHolds
    <2>3. Aligned'
        BY DEF TypeOK, CountHolds, Aligned, OverflowSeen, CleanStart
    <2>4. CleanStart'
        BY DEF TypeOK, CleanStart, Aligned, OverflowSeen
    <2> QED
        BY <2>1, <2>2, <2>3, <2>4
<1>5. CASE WaitForPacket
    <2> USE <1>5 DEF WaitForPacket
    <2>1. TypeOK'
        <3>1. torn' \in BOOLEAN /\ before' \in BOOLEAN
            BY DEF TypeOK
        <3> QED
            BY <3>1 DEF TypeOK, CountHolds, Interrupts
    <2>2. CountHolds'
        BY DEF TypeOK, CountHolds
    <2>3. Aligned'
        BY DEF TypeOK, CountHolds, Aligned, OverflowSeen, CleanStart
    <2>4. CleanStart'
        BY DEF TypeOK, CleanStart, Aligned, OverflowSeen
    <2> QED
        BY <2>1, <2>2, <2>3, <2>4
<1>6. CASE GetFIFOBytes
    <2> USE <1>6 DEF GetFIFOBytes, Onward
    <2>1. TypeOK'
        BY DEF TypeOK, CountHolds, Interrupts
    <2>2. CountHolds'
        BY DEF TypeOK, CountHolds
    <2>3. Aligned'
        BY DEF TypeOK, CountHolds, Aligned, OverflowSeen, CleanStart
    <2>4. CleanStart'
        BY DEF TypeOK, CleanStart, Aligned, OverflowSeen
    <2> QED
        BY <2>1, <2>2, <2>3, <2>4
<1>7. CASE Use
    <2> USE <1>7 DEF Use, UseBuffer
    <2>1. TypeOK'
        <3>1. torn' \in BOOLEAN /\ before' \in BOOLEAN
            BY DEF TypeOK
        <3> QED
            BY <3>1 DEF TypeOK, CountHolds, Interrupts
    <2>2. CountHolds'
        BY DEF TypeOK, CountHolds
    <2>3. Aligned'
        BY DEF TypeOK, CountHolds, Aligned, OverflowSeen, CleanStart
    <2>4. CleanStart'
        BY DEF TypeOK, CleanStart, Aligned, OverflowSeen
    <2> QED
        BY <2>1, <2>2, <2>3, <2>4
<1>8. CASE DmpPacket
    <2> USE <1>8 DEF DmpPacket, Onward
    <2>1. TypeOK'
        BY DEF TypeOK, CountHolds, Interrupts
    <2>2. CountHolds'
        BY DEF TypeOK, CountHolds
    <2>3. Aligned'
        BY DEF TypeOK, CountHolds, Aligned, OverflowSeen, CleanStart
    <2>4. CleanStart'
        BY DEF TypeOK, CleanStart, Aligned, OverflowSeen
    <2> QED
        BY <2>1, <2>2, <2>3, <2>4
<1>9. CASE UNCHANGED vars
    BY <1>9 DEF vars, TypeOK, CountHolds, Aligned, OverflowSeen, CleanStart
<1> QED
    BY <1>1, <1>2, <1>3, <1>4, <1>5, <1>6, <1>7, <1>8, <1>9 DEF Next, TaskImu

LEMMA FifoInvariant == Spec => []FifoInv
BY InitFifo, NextFifo, PTL DEF Spec

\* The lengths and flags keep their types: no burst overruns fifoBuffer.
THEOREM TypeCorrect == Spec => []TypeOK
<1>1. FifoInv => TypeOK
    BY DEF FifoInv
<1> QED
    BY <1>1, FifoInvariant, PTL

\* The sensor is never asked for a byte it does not have.
THEOREM NeverEmpty == Spec => []NeverReadsEmpty
<1>1. FifoInv => NeverReadsEmpty
    BY ImuAssumption DEF FifoInv, TypeOK, CountHolds, NeverReadsEmpty
<1> QED
    BY <1>1, FifoInvariant, PTL

\* One overflow tears at most one packet.
THEOREM Resynchronises == Spec => []TornOnce
<1>1. FifoInv => TornOnce
    BY DEF FifoInv, CleanStart, TornOnce
<1> QED
    BY <1>1, FifoInvariant, PTL

-----------------------------------------------------------------------------
(* Division by the length of a bank *)

LEMMA Euclid ==
    ASSUME NEW b \in Nat, b > 0, NEW n \in Int
    PROVE  n = b * (n \div b) + (n % b)
BY SMT

LEMMA DivMod ==
    ASSUME NEW b \in Nat \ {0}, NEW n \in Nat
    PROVE  /\ n \div b \in Nat /\ n % b \in 0 .. b - 1
           /\ n = b * (n \div b) + (n % b)
<1>1. n % b \in 0 .. b - 1
    OBVIOUS
<1>2. n \div b \in Nat
    OBVIOUS
<1>3. n = b * (n \div b) + (n % b)
    <2>1. b \in Nat /\ b > 0 /\ n \in Int
        OBVIOUS
    <2> QED BY ONLY <2>1, Euclid, Zenon
<1> QED BY <1>1, <1>2, <1>3

LEMMA AtLeastOne ==
    ASSUME NEW b \in Nat \ {0}, NEW d \in Nat \ {0}
    PROVE  b * d >= b
<1>1. b * d = b * (d - 1) + b
    OBVIOUS
<1>2. b * (d - 1) >= 0
    OBVIOUS
<1>3. b * (d - 1) \in Int /\ b * d \in Int
    OBVIOUS
<1> QED BY <1>1, <1>2, <1>3

LEMMA OneQuotient ==
    ASSUME NEW b \in Nat \ {0}, NEW q \in Nat, NEW p \in Nat,
           NEW r \in 0 .. b - 1, NEW s \in 0 .. b - 1, b * q + r = b * p + s
    PROVE  q = p /\ r = s
<1>1. CASE q > p
    <2>1. q - p \in Nat \ {0}
        BY <1>1
    <2>2. b * (q - p) >= b
        BY <2>1, AtLeastOne
    <2>3. b * (q - p) = b * q - b * p
        OBVIOUS
    <2>4. b * q \in Int /\ b * p \in Int
        OBVIOUS
    <2> QED BY <2>2, <2>3, <2>4
<1>2. CASE p > q
    <2>1. p - q \in Nat \ {0}
        BY <1>2
    <2>2. b * (p - q) >= b
        BY <2>1, AtLeastOne
    <2>3. b * (p - q) = b * p - b * q
        OBVIOUS
    <2>4. b * q \in Int /\ b * p \in Int
        OBVIOUS
    <2> QED BY <2>2, <2>3, <2>4
<1>3. CASE q = p
    <2>1. b * q \in Int
        OBVIOUS
    <2> QED BY <1>3, <2>1
<1> QED BY <1>1, <1>2, <1>3

LEMMA DivModUnique ==
    ASSUME NEW b \in Nat \ {0}, NEW q \in Nat, NEW r \in 0 .. b - 1,
           NEW n \in Nat, n = b * q + r
    PROVE  n \div b = q /\ n % b = r
<1>1. n \div b \in Nat /\ n % b \in 0 .. b - 1 /\ n = b * (n \div b) + (n % b)
    BY DivMod
<1> QED BY <1>1, OneQuotient

LEMMA DivModShift ==
    ASSUME NEW b \in Nat \ {0}, NEW a \in Nat, NEW n \in Nat, (a % b) + n < b
    PROVE  (a + n) \div b = a \div b /\ (a + n) % b = (a % b) + n
<1> DEFINE q == a \div b
           r == a % b
<1>1. a = b * q + r /\ q \in Nat /\ r \in 0 .. b - 1
    BY DivMod
<1>2. r + n \in 0 .. b - 1 /\ a + n \in Nat
    BY <1>1
<1> HIDE DEF q, r
<1>3. a + n = b * q + (r + n)
    BY <1>1
<1>4. (a + n) \div b = q /\ (a + n) % b = r + n
    BY <1>1, <1>2, <1>3, DivModUnique
<1> QED BY <1>4 DEF q, r

LEMMA DivModNext ==
    ASSUME NEW b \in Nat \ {0}, NEW a \in Nat, NEW n \in Nat, (a % b) + n = b
    PROVE  (a + n) \div b = a \div b + 1 /\ (a + n) % b = 0
<1> DEFINE q == a \div b
           r == a % b
<1>1. a = b * q + r /\ q \in Nat /\ r \in 0 .. b - 1 /\ r + n = b
    BY DivMod
<1> HIDE DEF q, r
<1>2. a + n = b * (q + 1) + 0 /\ a + n \in Nat /\ q + 1 \in Nat /\ 0 \in 0 .. b - 1
    BY <1>1
<1>3. \A m \in Nat, p \in Nat, s \in 0 .. b - 1 :
          m = b * p + s => m \div b = p /\ m % b = s
    BY DivModUnique
<1> DEFINE p == q + 1
<1> HIDE DEF p
<1>4. (a + n) \div b = p /\ (a + n) % b = 0
    <2>1. a + n = b * p + 0 /\ a + n \in Nat /\ p \in Nat
        BY <1>2 DEF p
    <2>2. 0 \in 0 .. b - 1
        BY <1>2
    <2> QED BY <1>3, <2>1, <2>2
<1> QED BY <1>4 DEF q, r, p

LEMMA DivMonotone ==
    ASSUME NEW b \in Nat \ {0}, NEW a \in Nat, NEW c \in Nat, a <= c
    PROVE  a \div b <= c \div b
OBVIOUS

LEMMA SmallMod ==
    ASSUME NEW b \in Nat \ {0}, NEW n \in 0 .. b - 1
    PROVE  n % b = n
OBVIOUS

LEMMA NoMultiple ==
    ASSUME NEW b \in Nat \ {0}, NEW n \in Int, -b < n, n < b, n # 0
    PROVE  n % b \in Nat \ {0}
<1>1. n % b \in Nat
    OBVIOUS
<1>2. n >= 0 => n % b = n
    BY SmallMod
<1>3. n < 0 => n % b = n + b
    OBVIOUS
<1> QED BY <1>1, <1>2, <1>3

-----------------------------------------------------------------------------
(* Where the bytes of the image belong *)

LEMMA CellInside ==
    ASSUME NEW k \in 0 .. ImageLen - 1
    PROVE  CellOf(k) \in Cells
<1>1. k \div BankLen \in Nat /\ k % BankLen \in 0 .. BankLen - 1
    <2>1. k \in Nat /\ BankLen \in Nat \ {0}
        BY StartAssumption
    <2> QED BY <2>1, DivMod
<1>2. k \div BankLen <= (ImageLen - 1) \div BankLen
    BY StartAssumption, DivMonotone
<1>3. (ImageLen - 1) \div BankLen \in Nat
    <2>1. ImageLen - 1 \in Nat /\ BankLen \in Nat \ {0}
        BY StartAssumption
    <2> QED BY <2>1, DivMod
<1> QED BY <1>1, <1>2, <1>3 DEF CellOf, Cells, Banks

LEMMA CellsDiffer ==
    ASSUME NEW j \in Nat, NEW k \in Nat, CellOf(j) = CellOf(k)
    PROVE  j = k
<1>1. j \div BankLen = k \div BankLen /\ j % BankLen = k % BankLen
    BY DEF CellOf
<1>2. j = BankLen * (j \div BankLen) + (j % BankLen)
    BY StartAssumption, DivMod
<1>3. k = BankLen * (k \div BankLen) + (k % BankLen)
    BY StartAssumption, DivMod
<1> QED BY <1>1, <1>2, <1>3

LEMMA CellShift ==
    ASSUME NEW k \in Nat, NEW n \in Nat, (k % BankLen) + n < BankLen
    PROVE  CellOf(k + n) = <<k \div BankLen, (k % BankLen) + n>>
BY StartAssumption, DivModShift DEF CellOf

-----------------------------------------------------------------------------
(* The parts of the invariant *)

Early == {"wake", "reset", "signal", "clock", "no interrupt", "clock again"}

Uploading == {"bank", "address", "write", "verify bank", "verify address", "verify"}

Late == {"program", "user", "interrupt", "last reset", "disable", "size", "accel fifo",
         "accel dmp", "gyro fifo", "gyro dmp", "enable", "ready"}

Started == {"loop"}

StartTypes ==
    /\ at \in Early \cup Uploading \cup Late \cup Started
    /\ USER_CTRL \in SUBSET {"DMP_EN", "FIFO_EN"}
    /\ BANK_SEL \in Nat /\ MEM_START_ADDR \in 0 .. BankLen - 1
    /\ memory \in [Cells -> Nat]
    /\ asleep \in BOOLEAN /\ INT_ENABLE \in BOOLEAN /\ program \in BOOLEAN
    /\ warm \in BOOLEAN /\ dmpReady \in BOOLEAN /\ faults \in Nat

\* Before the loop its variables are as they were, and nothing is ready.
Idle ==
    at \notin Started =>
        /\ pc = "status" /\ got = 0 /\ torn = FALSE /\ mpuIntStatus = {}
        /\ dmpReady = FALSE

InPlace == bank = i \div BankLen /\ address = i % BankLen

\* The upload keeps its place in the image; the rest follows only a whole upload.
Position ==
    /\ i \in 0 .. ImageLen
    /\ at \in Early => i = 0
    /\ at \in Early \cup Uploading =>
           i < ImageLen /\ InPlace
    /\ at \in Late => i = ImageLen
    /\ at \in Started => (dmpReady <=> i = ImageLen)

\* Nothing in the sensor can become a packet.
Quiet == program = FALSE /\ INT_STATUS = {} /\ fifo = 0 /\ mpuIntStatus = {}

\* What the sensor holds while nothing has failed.
WhileReset ==
    faults = 0 /\ at \in (Early \ {"wake", "reset"}) \cup Uploading \cup {"program"} =>
        Quiet /\ USER_CTRL = {} /\ INT_ENABLE = FALSE

WhileAwake ==
    faults = 0 /\ at \in {"no interrupt", "clock again"} \cup Uploading \cup Late \cup Started =>
        asleep = FALSE

WhileProgrammed == faults = 0 /\ at \in (Late \ {"program"}) \cup Started => program = TRUE

WhileEnabled ==
    faults = 0 /\ at \in {"interrupt", "last reset", "disable", "ready"} \cup Started =>
        USER_CTRL = {"DMP_EN", "FIFO_EN"}

WhileInterrupting ==
    faults = 0 /\ at \in (Late \ {"program", "user", "interrupt"}) \cup Started =>
        INT_ENABLE = TRUE

WhileDisabled ==
    faults = 0 /\ at \in {"size", "accel fifo", "accel dmp", "gyro fifo", "gyro dmp", "enable"} =>
        USER_CTRL = {"FIFO_EN"}

Trace ==
    /\ WhileReset /\ WhileAwake /\ WhileProgrammed /\ WhileEnabled
    /\ WhileInterrupting /\ WhileDisabled
    /\ faults = 0 /\ at \in Started => dmpReady

\* The one failure came with, or before, a quiet sensor.
Spent == faults = 1 /\ Quiet

Clean == faults <= 1 /\ ~(warm /\ Spent)

\* The memory holds the image up to n, and, if it was empty, nothing behind it.
Uploaded(n) ==
    \A k \in 0 .. ImageLen - 1 :
        /\ k < n => memory[CellOf(k)] = k
        /\ k >= n => warm \/ memory[CellOf(k)] = ImageLen

Chunk == Uploaded(i + ChunkSize)

Wrong == Spent /\ memory[CellOf(i)] # i

Selected == BANK_SEL = bank /\ MEM_START_ADDR = address

Memory ==
    /\ at \in Early => Uploaded(0)
    /\ Clean =>
        /\ at = "bank" => Uploaded(i)
        /\ at = "address" => Uploaded(i) /\ (BANK_SEL = bank \/ Spent)
        /\ at = "write" => Uploaded(i) /\ (Selected \/ Spent)
        /\ at = "verify bank" => Chunk \/ Wrong
        /\ at = "verify address" =>
               \/ Chunk /\ (BANK_SEL = bank \/ Spent)
               \/ Wrong /\ BANK_SEL = bank
        /\ at = "verify" => \/ Chunk /\ (Selected \/ Spent)
                            \/ Wrong /\ Selected
    /\ at \in Late \cup Started /\ i = ImageLen
           /\ (faults = 0 \/ (~warm /\ faults <= 1)) => ImageWhole

\* A failed start leaves a quiet sensor to the loop.
Failed ==
    at \in Started /\ ~dmpReady /\ faults <= 1 =>
        Quiet /\ pc \in {"status", "count"}

\* In the loop of a start that set no packet size nothing is ever read from the FIFO.
Unsized == at \in Started /\ ~dmpPacketSize

NoPacket == TypeOK /\ pc # "bytes" /\ (pc = "use" => torn)

LoopInv ==
    /\ ~Unsized => FifoInv
    /\ Unsized => NoPacket

StartInv ==
    /\ LoopInv /\ StartTypes /\ Idle /\ Position /\ Trace /\ Memory /\ Failed

-----------------------------------------------------------------------------
(* The loop's invariant *)

LEMMA FifoReset ==
    ASSUME FifoInv, Idle, at \notin Started,
           fifo' = 0, offset' = 0, before' = FALSE,
           INT_STATUS' = INT_STATUS \/ INT_STATUS' = {},
           UNCHANGED <<pc, mpuIntStatus, fifoCount, got, torn>>
    PROVE  FifoInv'
<1> USE ImuAssumption DEF FifoInv, Idle
<1>1. TypeOK'
    <2>1. torn' \in BOOLEAN /\ before' \in BOOLEAN
        BY DEF TypeOK
    <2>2. INT_STATUS' \in SUBSET Interrupts
        BY DEF TypeOK
    <2> QED BY <2>1, <2>2 DEF TypeOK
<1>2. CountHolds' /\ CleanStart'
    BY DEF CountHolds, CleanStart
<1>3. Aligned'
    BY DEF Aligned, OverflowSeen, TypeOK
<1> QED BY <1>1, <1>2, <1>3

\* The start leaves the loop's variables as they are, but for resets of the FIFO.
LEMMA FifoBefore ==
    ASSUME StartInv, at \notin Started, [StartNext]_startVars
    PROVE  FifoInv' /\ pc' = pc
<1>0. FifoInv /\ Idle
    BY DEF StartInv, LoopInv, Unsized
<1> USE <1>0
<1>1. CASE UNCHANGED vars
    <2>1. [Next]_vars /\ pc' = pc
        BY <1>1 DEF vars
    <2> QED BY <2>1, NextFifo
<1>2. CASE Reset
    <2> USE <1>2 DEF Reset
    <2>1. at \notin Started
        BY DEF Step, Started
    <2>2. CASE UNCHANGED <<INT_STATUS, fifo, offset, before>>
        BY <2>2, <1>1 DEF vars
    <2>3. CASE INT_STATUS' = {} /\ fifo' = 0 /\ offset' = 0 /\ before' = FALSE
        BY <2>1, <2>3, FifoReset
    <2> QED BY <2>2, <2>3
<1>3. ASSUME NEW from, NEW to, from \notin Started, ResetFifo(from, to)
      PROVE  FifoInv' /\ pc' = pc
    <2> USE <1>3 DEF ResetFifo
    <2>1. at \notin Started
        BY DEF Step
    <2>2. CASE UNCHANGED <<fifo, offset, before>>
        BY <2>2, <1>1 DEF vars
    <2>3. CASE fifo' = 0 /\ offset' = 0 /\ before' = FALSE
        BY <2>1, <2>3, FifoReset
    <2> QED BY <2>2, <2>3
<1>4. CASE ResetSignalPath
    BY <1>4, <1>3 DEF ResetSignalPath, Started
<1>5. CASE LastReset
    BY <1>5, <1>3 DEF LastReset, Started
<1>6. CASE Calibrate
    <2>1. CASE ResetFifo("accel fifo", "accel dmp") \/ ResetFifo("gyro fifo", "gyro dmp")
        BY <2>1, <1>3 DEF Started
    <2>2. CASE \/ OnlyUserCtrl("accel dmp", "gyro fifo", {}, {})
               \/ OnlyUserCtrl("gyro dmp", "enable", {}, {})
        BY <2>2, <1>1 DEF OnlyUserCtrl
    <2> QED BY <1>6, <2>1, <2>2 DEF Calibrate
<1>7. CASE Sensor
    <2>1. [Next]_vars /\ pc' = pc
        BY <1>7 DEF Sensor, Next, DmpPacket
    <2> QED BY <2>1, NextFifo
<1>8. CASE SetSleepEnabled \/ SetClock \/ NoInterrupt
    BY <1>8, <1>1 DEF SetSleepEnabled, SetClock, NoInterrupt
<1>9. CASE WriteMemoryBlock
    BY <1>9, <1>1 DEF WriteMemoryBlock, SetMemoryBank, SetMemoryStartAddress, WriteChunk,
                      Verify, OnlyUpload
<1>10. CASE ProgramStart \/ EnableFifo \/ EnableInterrupt \/ DisableDmp \/ SetPacketSize
    BY <1>10, <1>1 DEF ProgramStart, EnableFifo, EnableInterrupt, DisableDmp, OnlyUserCtrl,
                       SetPacketSize
<1>11. CASE EnableDmp \/ Ready \/ UNCHANGED startVars
    BY <1>11, <1>1 DEF EnableDmp, OnlyUserCtrl, Ready, startVars
<1>12. ~Loop
    BY DEF Loop, Started
<1> QED
    BY <1>2, <1>4, <1>5, <1>6, <1>7, <1>8, <1>9, <1>10, <1>11, <1>12 DEF StartNext, Start

LEMMA NotStarted == Start => at \notin Started
BY DEF Start, SetSleepEnabled, Reset, ResetSignalPath, SetClock, NoInterrupt,
       WriteMemoryBlock, SetMemoryBank, SetMemoryStartAddress, WriteChunk, Verify,
       ProgramStart, EnableFifo, EnableInterrupt, LastReset, DisableDmp, SetPacketSize,
       Calibrate, EnableDmp, Ready, ResetFifo, OnlyUserCtrl, Step, Started

LEMMA UnsizedStep ==
    ASSUME NoPacket, TaskImuUnsized \/ DmpPacket \/ UNCHANGED vars
    PROVE  NoPacket'
<1> USE ImuAssumption DEF NoPacket, sensor, packet
<1>1. TypeOK /\ torn \in BOOLEAN /\ before \in BOOLEAN
    BY DEF TypeOK
<1>2. CASE GetIntStatus
    BY <1>2 DEF GetIntStatus, TypeOK, Interrupts
<1>3. CASE GetFIFOCount
    BY <1>3 DEF GetFIFOCount, TypeOK, Interrupts
<1>4. CASE ResetFIFO
    <2>1. torn' \in BOOLEAN /\ before' \in BOOLEAN
        BY <1>1, <1>4 DEF ResetFIFO
    <2> QED BY <1>4, <2>1 DEF ResetFIFO, TypeOK, Interrupts
<1>5. CASE CountAfterReset
    BY <1>5 DEF CountAfterReset, TypeOK, Interrupts
<1>6. CASE GetNoBytes
    <2>1. torn' \in BOOLEAN /\ before' \in BOOLEAN
        BY <1>1, <1>6 DEF GetNoBytes
    <2> QED BY <1>6, <2>1 DEF GetNoBytes, TypeOK, Interrupts
<1>7. CASE UseBuffer(0)
    <2>1. torn' \in BOOLEAN /\ before' \in BOOLEAN
        BY <1>1, <1>7 DEF UseBuffer
    <2> QED BY <1>7, <2>1 DEF UseBuffer, TypeOK, Interrupts
<1>8. CASE DmpPacket
    BY <1>8 DEF DmpPacket, Onward, TypeOK, Interrupts
<1>9. CASE UNCHANGED vars
    BY <1>9 DEF vars, TypeOK
<1> QED BY <1>2, <1>3, <1>4, <1>5, <1>6, <1>7, <1>8, <1>9 DEF TaskImuUnsized

LEMMA FifoStart ==
    ASSUME StartInv, [StartNext]_startVars
    PROVE  LoopInv'
<1>1. LoopInv /\ Idle
    BY DEF StartInv
<1>2. CASE at \notin Started
    <2>1. FifoInv' /\ pc' = "status"
        BY <1>1, <1>2, FifoBefore DEF Idle
    <2> QED BY <2>1 DEF LoopInv, NoPacket, FifoInv
<1>3. CASE at \in Started
    <2>1. Loop \/ Sensor \/ UNCHANGED startVars
        BY <1>3, NotStarted DEF StartNext
    <2>2. at' = at /\ dmpPacketSize' = dmpPacketSize
        BY <2>1 DEF Loop, Sensor, Rest, outcome, startVars
    <2>3. CASE dmpPacketSize
        <3>1. FifoInv
            BY <1>1, <2>3 DEF LoopInv, Unsized
        <3>2. [Next]_vars
            BY <2>1, <2>3 DEF Loop, Sensor, Next, startVars
        <3>3. FifoInv'
            BY <3>1, <3>2, NextFifo
        <3>4. ~Unsized'
            BY <2>2, <2>3 DEF Unsized
        <3> QED BY <3>3, <3>4 DEF LoopInv
    <2>4. CASE ~dmpPacketSize
        <3>1. NoPacket
            BY <1>1, <1>3, <2>4 DEF LoopInv, Unsized
        <3>2. TaskImuUnsized \/ DmpPacket \/ UNCHANGED vars
            BY <2>1, <2>4 DEF Loop, Sensor, startVars
        <3>3. NoPacket'
            BY <3>1, <3>2, UnsizedStep
        <3>4. Unsized'
            BY <1>3, <2>2, <2>4 DEF Unsized
        <3> QED BY <3>3, <3>4 DEF LoopInv
    <2> QED BY <2>3, <2>4
<1> QED BY <1>2, <1>3

-----------------------------------------------------------------------------
(* Each step keeps the rest *)

Bits == {"DMP_EN", "FIFO_EN"}

LEMMA UserCtrlStep ==
    ASSUME USER_CTRL \in SUBSET Bits, NEW set \in SUBSET Bits, NEW cleared,
           WriteUserCtrl(set, cleared) \/ UserCtrlLost
    PROVE  /\ USER_CTRL' \in SUBSET Bits
           /\ \/ faults' = faults /\ USER_CTRL' = (USER_CTRL \ cleared) \cup set
              \/ faults' = faults + 1
<1>1. CASE Works /\ USER_CTRL' = (USER_CTRL \ cleared) \cup set
    BY <1>1 DEF Works
<1>2. CASE Fails /\ \E b \in SUBSET Bits : USER_CTRL' = (b \ cleared) \cup set
    BY <1>2 DEF Fails
<1>3. CASE UserCtrlLost
    BY <1>3 DEF UserCtrlLost, Fails
<1> QED BY <1>1, <1>2, <1>3 DEF WriteUserCtrl, Bits

LEMMA ResetFifoStep ==
    ASSUME StartTypes, NEW from, NEW to, ResetFifo(from, to)
    PROVE  /\ at = from /\ at' = to
           /\ \/ faults' = faults /\ USER_CTRL' = USER_CTRL /\ fifo' = 0
              \/ faults' = faults + 1
           /\ USER_CTRL' \in SUBSET Bits /\ (fifo' = 0 \/ fifo' = fifo)
           /\ UNCHANGED <<INT_STATUS, pc, mpuIntStatus, got, torn,
                          asleep, INT_ENABLE, program, BANK_SEL, MEM_START_ADDR, memory,
                          bank, address, i, dmpReady, warm>>
<1> USE DEF ResetFifo
<1>1. WriteUserCtrl({}, {}) \/ UserCtrlLost
    OBVIOUS
<1>2. USER_CTRL \in SUBSET Bits
    BY DEF StartTypes, Bits
<1>3. /\ USER_CTRL' \in SUBSET Bits
      /\ \/ faults' = faults /\ USER_CTRL' = (USER_CTRL \ {}) \cup {}
         \/ faults' = faults + 1
    <2>1. {} \in SUBSET Bits
        OBVIOUS
    <2> QED BY <1>1, <1>2, <2>1, UserCtrlStep
<1>4. (USER_CTRL \ {}) \cup {} = USER_CTRL
    OBVIOUS
<1>5. faults' = faults => fifo' = 0
    BY DEF UserCtrlLost, Fails, StartTypes
<1> QED BY <1>3, <1>4, <1>5 DEF Step, upload, outcome

LEMMA OnlyUserCtrlStep ==
    ASSUME StartTypes, NEW from, NEW to, NEW set \in SUBSET Bits, NEW cleared,
           OnlyUserCtrl(from, to, set, cleared)
    PROVE  /\ at = from /\ at' = to
           /\ \/ faults' = faults /\ USER_CTRL' = (USER_CTRL \ cleared) \cup set
              \/ faults' = faults + 1
           /\ USER_CTRL' \in SUBSET Bits
           /\ UNCHANGED <<INT_STATUS, fifo, pc, mpuIntStatus, got, torn,
                          asleep, INT_ENABLE, program, BANK_SEL, MEM_START_ADDR, memory,
                          bank, address, i, dmpReady, warm>>
<1>1. USER_CTRL \in SUBSET Bits
    BY DEF StartTypes, Bits
<1> QED BY <1>1, UserCtrlStep DEF OnlyUserCtrl, Step, vars, upload, outcome

\* What the steps outside the upload leave alone.
Frame == UNCHANGED <<pc, mpuIntStatus, got, torn, memory, bank, address, i, warm>>

LEMMA FrameSteps ==
    ASSUME StartInv, Frame, faults' \in {faults, faults + 1},
           USER_CTRL' \in SUBSET Bits, BANK_SEL' \in {BANK_SEL, 0},
           MEM_START_ADDR' \in {MEM_START_ADDR, 0},
           asleep' \in BOOLEAN, INT_ENABLE' \in BOOLEAN, program' \in BOOLEAN,
           \/ at \in Early /\ at' \in Early \cup {"bank"} /\ dmpReady' = dmpReady
           \/ at \in Late /\ at' \in Late /\ dmpReady' = dmpReady
           \/ at \in Late /\ at' = "loop" /\ dmpReady' = TRUE
    PROVE  StartTypes' /\ Idle' /\ Position' /\ Memory' /\ Failed'
<1>0. StartTypes /\ Idle /\ Position /\ Memory
    BY DEF StartInv
<1>a. /\ faults \in Nat /\ BANK_SEL \in Nat /\ MEM_START_ADDR \in 0 .. BankLen - 1
      /\ memory \in [Cells -> Nat] /\ warm \in BOOLEAN /\ BankLen \in Nat \ {0}
    BY <1>0, StartAssumption DEF StartTypes
<1>b. BANK_SEL' = BANK_SEL \/ BANK_SEL' = 0
    OBVIOUS
<1>c. MEM_START_ADDR' = MEM_START_ADDR \/ MEM_START_ADDR' = 0
    OBVIOUS
<1>d. faults' = faults \/ faults' = faults + 1
    OBVIOUS
<1> USE <1>0 DEF Early, Uploading, Late, Started
<1>1. InPlace' = InPlace /\ ImageWhole' = ImageWhole
    BY DEF Frame, InPlace, ImageWhole
<1>2. Uploaded(0)' = Uploaded(0)
    BY DEF Frame, Uploaded
<1>3. i' = 0 /\ Uploaded(0)' => Uploaded(i)'
    BY DEF Uploaded
<1>4. StartTypes'
    <2>1. dmpReady' \in BOOLEAN
        BY DEF StartTypes
    <2>2. BANK_SEL' \in Nat /\ MEM_START_ADDR' \in 0 .. BankLen - 1
        BY ONLY <1>a, <1>b, <1>c
    <2>3. memory' \in [Cells -> Nat] /\ warm' \in BOOLEAN
        BY <1>a DEF Frame
    <2>5. faults' \in Nat
        BY ONLY <1>a, <1>d
    <2>4. at' \in Early \cup Uploading \cup Late \cup Started
        OBVIOUS
    <2> QED BY <2>1, <2>2, <2>3, <2>4, <2>5 DEF StartTypes, Bits
<1>5. Idle' /\ Position'
    <2>1. CASE at' # "loop"
        BY <1>1, <2>1 DEF Frame, Idle, Position
    <2>2. CASE at' = "loop"
        BY <1>1, <2>2 DEF Frame, Idle, Position
    <2> QED BY <2>1, <2>2
<1>6. Memory'
    <2>1. at \in Early => Uploaded(0)
        BY DEF Memory
    <2>2. at' \in Early => Uploaded(0)'
        BY <1>2, <2>1
    <2>3. at' = "bank" => Uploaded(i)'
        BY <1>2, <1>3, <2>1 DEF Position, Frame
    <2>4. /\ at \in Late /\ i = ImageLen /\ (faults = 0 \/ (~warm /\ faults <= 1)) => ImageWhole
        BY DEF Memory
    <2>5. faults' <= 1 => faults <= 1
        BY ONLY <1>a, <1>d
    <2>6. faults' = 0 => faults = 0
        BY ONLY <1>a, <1>d
    <2>7. at' \in Late \cup Started /\ i' = ImageLen
             /\ (faults' = 0 \/ (~warm' /\ faults' <= 1)) => ImageWhole'
        BY <1>1, <2>4, <2>5, <2>6 DEF Frame
    <2> QED BY <2>2, <2>3, <2>7 DEF Memory
<1>7. Failed'
    BY DEF Failed
<1> QED BY <1>4, <1>5, <1>6, <1>7

LEMMA RegisterSteps ==
    ASSUME StartInv,
           \/ SetSleepEnabled \/ Reset \/ ResetSignalPath \/ SetClock \/ NoInterrupt
           \/ ProgramStart \/ EnableFifo \/ EnableInterrupt \/ LastReset \/ DisableDmp
           \/ SetPacketSize \/ Calibrate \/ EnableDmp \/ Ready
    PROVE  StartTypes' /\ Idle' /\ Position' /\ Trace' /\ Memory' /\ Failed'
<1> DEFINE Framed ==
        /\ Frame /\ faults' \in {faults, faults + 1}
        /\ USER_CTRL' \in SUBSET Bits /\ BANK_SEL' \in {BANK_SEL, 0}
        /\ MEM_START_ADDR' \in {MEM_START_ADDR, 0}
        /\ asleep' \in BOOLEAN /\ INT_ENABLE' \in BOOLEAN /\ program' \in BOOLEAN
        /\ \/ at \in Early /\ at' \in Early \cup {"bank"} /\ dmpReady' = dmpReady
           \/ at \in Late /\ at' \in Late /\ dmpReady' = dmpReady
           \/ at \in Late /\ at' = "loop" /\ dmpReady' = TRUE
<1>0. SUFFICES Framed /\ Trace'
    BY FrameSteps
<1>a. /\ StartTypes /\ Idle /\ Position /\ USER_CTRL \in SUBSET Bits
      /\ faults \in Nat /\ asleep \in BOOLEAN /\ INT_ENABLE \in BOOLEAN /\ program \in BOOLEAN
    BY DEF StartInv, StartTypes, Bits
<1>c. /\ WhileReset /\ WhileAwake /\ WhileProgrammed /\ WhileEnabled
      /\ WhileInterrupting /\ WhileDisabled
    BY DEF StartInv, Trace
<1>b. {} \in SUBSET Bits /\ {"DMP_EN"} \in SUBSET Bits /\ {"DMP_EN", "FIFO_EN"} \in SUBSET Bits
    BY DEF Bits
<1>e. faults' = 0 => faults' # faults + 1
    BY <1>a
<1> USE DEF Early, Uploading, Late, Started, vars, upload, outcome
<1>1. CASE SetSleepEnabled
    <2>1. Framed
        BY <1>1, <1>a, <1>b, StartAssumption
           DEF SetSleepEnabled, Step, Write, Works, Fails, registers, Frame, Bits, Idle
    <2>2. /\ at = "wake" /\ at' = "reset"
        BY <1>1, <1>a, <1>e DEF SetSleepEnabled, Step, Write, Works, Fails, registers, Idle
    <2>3. Trace'
        BY <2>2, <1>c DEF Trace, WhileReset, WhileAwake, WhileProgrammed, WhileEnabled,
                    WhileInterrupting, WhileDisabled, Quiet
    <2> QED BY <2>1, <2>3
<1>2. CASE Reset
    <2>1. Framed
        BY <1>2, <1>a, <1>b, StartAssumption
           DEF Reset, Step, Works, Fails, registers, Frame, Bits, Idle
    <2>2. /\ at = "reset" /\ at' = "signal"
          /\ faults' = 0 =>
                 /\ asleep' = TRUE /\ USER_CTRL' = {} /\ INT_ENABLE' = FALSE /\ program' = FALSE
                 /\ INT_STATUS' = {} /\ fifo' = 0 /\ mpuIntStatus' = {}
        BY <1>2, <1>a, <1>e DEF Reset, Step, Works, Fails, registers, Idle
    <2>3. Trace'
        BY <2>2, <1>c DEF Trace, WhileReset, WhileAwake, WhileProgrammed, WhileEnabled,
                    WhileInterrupting, WhileDisabled, Quiet
    <2> QED BY <2>1, <2>3
<1>3. CASE ResetSignalPath
    <2>1. /\ at = "signal" /\ at' = "clock"
          /\ \/ faults' = faults /\ USER_CTRL' = USER_CTRL /\ fifo' = 0
             \/ faults' = faults + 1
          /\ USER_CTRL' \in SUBSET Bits
          /\ UNCHANGED <<INT_STATUS, pc, mpuIntStatus, got, torn,
                         asleep, INT_ENABLE, program, BANK_SEL, MEM_START_ADDR, memory,
                         bank, address, i, dmpReady, warm>>
        BY <1>3, <1>a, ResetFifoStep DEF ResetSignalPath
    <2>2. Framed
        BY <2>1, <1>a DEF Frame
    <2>3. /\ at = "signal" /\ at' = "clock" /\ dmpReady' = dmpReady
          /\ UNCHANGED <<asleep, INT_ENABLE, program, INT_STATUS, mpuIntStatus>>
          /\ faults' = 0 => faults = 0 /\ USER_CTRL' = USER_CTRL /\ fifo' = 0
        BY <2>1, <1>e
    <2>4. Trace'
        BY <2>3, <1>c DEF Trace, WhileReset, WhileAwake, WhileProgrammed, WhileEnabled,
                    WhileInterrupting, WhileDisabled, Quiet
    <2> QED BY <2>2, <2>4
<1>4. CASE SetClock
    <2>1. Framed
        BY <1>4, <1>a, <1>b, StartAssumption
           DEF SetClock, Write, Works, Fails, registers, Frame, Bits, Idle
    <2>2. /\ \/ at = "clock" /\ at' = "no interrupt"
             \/ at = "clock again" /\ at' = "bank"
          /\ UNCHANGED <<INT_STATUS, fifo, mpuIntStatus, dmpReady, USER_CTRL, INT_ENABLE, program>>
          /\ faults' = 0 => faults = 0 /\ asleep' = FALSE
        BY <1>4, <1>a, <1>e DEF SetClock, Write, Works, Fails, registers, Idle
    <2>3. Trace'
        BY <2>2, <1>c DEF Trace, WhileReset, WhileAwake, WhileProgrammed, WhileEnabled,
                    WhileInterrupting, WhileDisabled, Quiet
    <2> QED BY <2>1, <2>3
<1>5. CASE NoInterrupt
    <2>1. Framed
        BY <1>5, <1>a, <1>b, StartAssumption
           DEF NoInterrupt, Step, Write, Works, Fails, registers, Frame, Bits, Idle
    <2>2. /\ at = "no interrupt" /\ at' = "clock again"
          /\ UNCHANGED <<INT_STATUS, fifo, mpuIntStatus, dmpReady, asleep, USER_CTRL, program>>
          /\ faults' = 0 => faults = 0 /\ INT_ENABLE' = FALSE
        BY <1>5, <1>a, <1>e DEF NoInterrupt, Step, Write, Works, Fails, registers, Idle
    <2>3. Trace'
        BY <2>2, <1>c DEF Trace, WhileReset, WhileAwake, WhileProgrammed, WhileEnabled,
                    WhileInterrupting, WhileDisabled, Quiet
    <2> QED BY <2>1, <2>3
<1>6. CASE ProgramStart
    <2>1. Framed
        BY <1>6, <1>a, <1>b, StartAssumption
           DEF ProgramStart, Step, Write, Works, Fails, registers, Frame, Bits, Idle
    <2>2. /\ at = "program" /\ at' = "user"
          /\ UNCHANGED <<INT_STATUS, fifo, mpuIntStatus, dmpReady, asleep, USER_CTRL, INT_ENABLE>>
          /\ faults' = 0 => faults = 0 /\ program' = TRUE
        BY <1>6, <1>a, <1>e DEF ProgramStart, Step, Write, Works, Fails, registers, Idle
    <2>3. Trace'
        BY <2>2, <1>c DEF Trace, WhileReset, WhileAwake, WhileProgrammed, WhileEnabled,
                    WhileInterrupting, WhileDisabled, Quiet
    <2> QED BY <2>1, <2>3
<1>7. CASE EnableFifo
    <2>1. Framed
        BY <1>7, <1>a, <1>b, StartAssumption
           DEF EnableFifo, Step, Write, Works, Fails, registers, Frame, Bits, Idle
    <2>2. /\ at = "user" /\ at' = "interrupt"
          /\ UNCHANGED <<INT_STATUS, fifo, mpuIntStatus, dmpReady, asleep, INT_ENABLE, program>>
          /\ faults' = 0 => faults = 0 /\ USER_CTRL' = {"DMP_EN", "FIFO_EN"}
        BY <1>7, <1>a, <1>e DEF EnableFifo, Step, Write, Works, Fails, registers, Idle
    <2>3. Trace'
        BY <2>2, <1>c DEF Trace, WhileReset, WhileAwake, WhileProgrammed, WhileEnabled,
                    WhileInterrupting, WhileDisabled, Quiet
    <2> QED BY <2>1, <2>3
<1>8. CASE EnableInterrupt
    <2>1. Framed
        BY <1>8, <1>a, <1>b, StartAssumption
           DEF EnableInterrupt, Step, Write, Works, Fails, registers, Frame, Bits, Idle
    <2>2. /\ at = "interrupt" /\ at' = "last reset"
          /\ UNCHANGED <<INT_STATUS, fifo, mpuIntStatus, dmpReady, asleep, USER_CTRL, program>>
          /\ faults' = 0 => faults = 0 /\ INT_ENABLE' = TRUE
        BY <1>8, <1>a, <1>e DEF EnableInterrupt, Step, Write, Works, Fails, registers, Idle
    <2>3. Trace'
        BY <2>2, <1>c DEF Trace, WhileReset, WhileAwake, WhileProgrammed, WhileEnabled,
                    WhileInterrupting, WhileDisabled, Quiet
    <2> QED BY <2>1, <2>3
<1>9. CASE LastReset
    <2>1. /\ at = "last reset" /\ at' = "disable"
          /\ \/ faults' = faults /\ USER_CTRL' = USER_CTRL /\ fifo' = 0
             \/ faults' = faults + 1
          /\ USER_CTRL' \in SUBSET Bits
          /\ UNCHANGED <<INT_STATUS, pc, mpuIntStatus, got, torn,
                         asleep, INT_ENABLE, program, BANK_SEL, MEM_START_ADDR, memory,
                         bank, address, i, dmpReady, warm>>
        BY <1>9, <1>a, ResetFifoStep DEF LastReset
    <2>2. Framed
        BY <2>1, <1>a DEF Frame
    <2>3. /\ at = "last reset" /\ at' = "disable" /\ dmpReady' = dmpReady
          /\ UNCHANGED <<asleep, INT_ENABLE, program, INT_STATUS, mpuIntStatus>>
          /\ faults' = 0 => faults = 0 /\ USER_CTRL' = USER_CTRL /\ fifo' = 0
        BY <2>1, <1>e
    <2>4. Trace'
        BY <2>3, <1>c DEF Trace, WhileReset, WhileAwake, WhileProgrammed, WhileEnabled,
                    WhileInterrupting, WhileDisabled, Quiet
    <2> QED BY <2>2, <2>4
<1>10. CASE DisableDmp
    <2>1. /\ at = "disable" /\ at' = "size"
          /\ \/ faults' = faults /\ USER_CTRL' = (USER_CTRL \ {"DMP_EN"}) \cup {}
             \/ faults' = faults + 1
          /\ USER_CTRL' \in SUBSET Bits
          /\ UNCHANGED <<INT_STATUS, fifo, pc, mpuIntStatus, got, torn,
                         asleep, INT_ENABLE, program, BANK_SEL, MEM_START_ADDR, memory,
                         bank, address, i, dmpReady, warm>>
        BY <1>10, <1>a, <1>b, OnlyUserCtrlStep DEF DisableDmp
    <2>2. Framed
        BY <2>1, <1>a DEF Frame
    <2>3. /\ at = "disable" /\ at' = "size" /\ dmpReady' = dmpReady
          /\ UNCHANGED <<asleep, INT_ENABLE, program, INT_STATUS, mpuIntStatus>>
          /\ faults' = 0 => faults = 0 /\ USER_CTRL' = (USER_CTRL \ {"DMP_EN"}) \cup {} /\ fifo' = fifo
        BY <2>1, <1>e
    <2>4. Trace'
        BY <2>3, <1>c DEF Trace, WhileReset, WhileAwake, WhileProgrammed, WhileEnabled,
                    WhileInterrupting, WhileDisabled, Quiet
    <2> QED BY <2>2, <2>4
<1>11. CASE SetPacketSize
    <2>1. Framed
        BY <1>11, <1>a, <1>b, StartAssumption
           DEF SetPacketSize, Step, registers, Frame, Bits, Idle
    <2>2. /\ at = "size" /\ at' = "accel fifo"
          /\ UNCHANGED <<INT_STATUS, fifo, mpuIntStatus, dmpReady, asleep, USER_CTRL, INT_ENABLE, program>>
          /\ faults' = 0 => faults = 0
        BY <1>11, <1>a, <1>e DEF SetPacketSize, Step, registers, Idle
    <2>3. Trace'
        BY <2>2, <1>c DEF Trace, WhileReset, WhileAwake, WhileProgrammed, WhileEnabled,
                    WhileInterrupting, WhileDisabled, Quiet
    <2> QED BY <2>1, <2>3
<1>12. CASE Calibrate
    <2>1. CASE ResetFifo("accel fifo", "accel dmp")
        <3>1. /\ at = "accel fifo" /\ at' = "accel dmp"
              /\ \/ faults' = faults /\ USER_CTRL' = USER_CTRL /\ fifo' = 0
                 \/ faults' = faults + 1
              /\ USER_CTRL' \in SUBSET Bits
              /\ UNCHANGED <<INT_STATUS, pc, mpuIntStatus, got, torn,
                             asleep, INT_ENABLE, program, BANK_SEL, MEM_START_ADDR, memory,
                             bank, address, i, dmpReady, warm>>
            BY <2>1, <1>a, ResetFifoStep
        <3>2. Framed
            BY <3>1, <1>a DEF Frame
        <3>3. /\ at = "accel fifo" /\ at' = "accel dmp" /\ dmpReady' = dmpReady
              /\ UNCHANGED <<asleep, INT_ENABLE, program, INT_STATUS, mpuIntStatus>>
              /\ faults' = 0 => faults = 0 /\ USER_CTRL' = USER_CTRL /\ fifo' = 0
            BY <3>1, <1>e
        <3>4. Trace'
            BY <3>3, <1>c DEF Trace, WhileReset, WhileAwake, WhileProgrammed, WhileEnabled,
                    WhileInterrupting, WhileDisabled, Quiet
        <3> QED BY <3>2, <3>4
    <2>2. CASE OnlyUserCtrl("accel dmp", "gyro fifo", {}, {})
        <3>1. /\ at = "accel dmp" /\ at' = "gyro fifo"
              /\ \/ faults' = faults /\ USER_CTRL' = (USER_CTRL \ {}) \cup {}
                 \/ faults' = faults + 1
              /\ USER_CTRL' \in SUBSET Bits
              /\ UNCHANGED <<INT_STATUS, fifo, pc, mpuIntStatus, got, torn,
                             asleep, INT_ENABLE, program, BANK_SEL, MEM_START_ADDR, memory,
                             bank, address, i, dmpReady, warm>>
            BY <2>2, <1>a, <1>b, OnlyUserCtrlStep
        <3>2. Framed
            BY <3>1, <1>a DEF Frame
        <3>3. /\ at = "accel dmp" /\ at' = "gyro fifo" /\ dmpReady' = dmpReady
              /\ UNCHANGED <<asleep, INT_ENABLE, program, INT_STATUS, mpuIntStatus>>
              /\ faults' = 0 => faults = 0 /\ USER_CTRL' = (USER_CTRL \ {}) \cup {} /\ fifo' = fifo
            BY <3>1, <1>e
        <3>4. Trace'
            BY <3>3, <1>c DEF Trace, WhileReset, WhileAwake, WhileProgrammed, WhileEnabled,
                    WhileInterrupting, WhileDisabled, Quiet
        <3> QED BY <3>2, <3>4
    <2>3. CASE ResetFifo("gyro fifo", "gyro dmp")
        <3>1. /\ at = "gyro fifo" /\ at' = "gyro dmp"
              /\ \/ faults' = faults /\ USER_CTRL' = USER_CTRL /\ fifo' = 0
                 \/ faults' = faults + 1
              /\ USER_CTRL' \in SUBSET Bits
              /\ UNCHANGED <<INT_STATUS, pc, mpuIntStatus, got, torn,
                             asleep, INT_ENABLE, program, BANK_SEL, MEM_START_ADDR, memory,
                             bank, address, i, dmpReady, warm>>
            BY <2>3, <1>a, ResetFifoStep
        <3>2. Framed
            BY <3>1, <1>a DEF Frame
        <3>3. /\ at = "gyro fifo" /\ at' = "gyro dmp" /\ dmpReady' = dmpReady
              /\ UNCHANGED <<asleep, INT_ENABLE, program, INT_STATUS, mpuIntStatus>>
              /\ faults' = 0 => faults = 0 /\ USER_CTRL' = USER_CTRL /\ fifo' = 0
            BY <3>1, <1>e
        <3>4. Trace'
            BY <3>3, <1>c DEF Trace, WhileReset, WhileAwake, WhileProgrammed, WhileEnabled,
                    WhileInterrupting, WhileDisabled, Quiet
        <3> QED BY <3>2, <3>4
    <2>4. CASE OnlyUserCtrl("gyro dmp", "enable", {}, {})
        <3>1. /\ at = "gyro dmp" /\ at' = "enable"
              /\ \/ faults' = faults /\ USER_CTRL' = (USER_CTRL \ {}) \cup {}
                 \/ faults' = faults + 1
              /\ USER_CTRL' \in SUBSET Bits
              /\ UNCHANGED <<INT_STATUS, fifo, pc, mpuIntStatus, got, torn,
                             asleep, INT_ENABLE, program, BANK_SEL, MEM_START_ADDR, memory,
                             bank, address, i, dmpReady, warm>>
            BY <2>4, <1>a, <1>b, OnlyUserCtrlStep
        <3>2. Framed
            BY <3>1, <1>a DEF Frame
        <3>3. /\ at = "gyro dmp" /\ at' = "enable" /\ dmpReady' = dmpReady
              /\ UNCHANGED <<asleep, INT_ENABLE, program, INT_STATUS, mpuIntStatus>>
              /\ faults' = 0 => faults = 0 /\ USER_CTRL' = (USER_CTRL \ {}) \cup {} /\ fifo' = fifo
            BY <3>1, <1>e
        <3>4. Trace'
            BY <3>3, <1>c DEF Trace, WhileReset, WhileAwake, WhileProgrammed, WhileEnabled,
                    WhileInterrupting, WhileDisabled, Quiet
        <3> QED BY <3>2, <3>4
    <2> QED BY <1>12, <2>1, <2>2, <2>3, <2>4 DEF Calibrate
<1>13. CASE EnableDmp
    <2>1. /\ at = "enable" /\ at' = "ready"
          /\ \/ faults' = faults /\ USER_CTRL' = (USER_CTRL \ {}) \cup {"DMP_EN"}
             \/ faults' = faults + 1
          /\ USER_CTRL' \in SUBSET Bits
          /\ UNCHANGED <<INT_STATUS, fifo, pc, mpuIntStatus, got, torn,
                         asleep, INT_ENABLE, program, BANK_SEL, MEM_START_ADDR, memory,
                         bank, address, i, dmpReady, warm>>
        BY <1>13, <1>a, <1>b, OnlyUserCtrlStep DEF EnableDmp
    <2>2. Framed
        BY <2>1, <1>a DEF Frame
    <2>3. /\ at = "enable" /\ at' = "ready" /\ dmpReady' = dmpReady
          /\ UNCHANGED <<asleep, INT_ENABLE, program, INT_STATUS, mpuIntStatus>>
          /\ faults' = 0 => faults = 0 /\ USER_CTRL' = (USER_CTRL \ {}) \cup {"DMP_EN"} /\ fifo' = fifo
        BY <2>1, <1>e
    <2>4. Trace'
        BY <2>3, <1>c DEF Trace, WhileReset, WhileAwake, WhileProgrammed, WhileEnabled,
                    WhileInterrupting, WhileDisabled, Quiet
    <2> QED BY <2>2, <2>4
<1>14. CASE Ready
    <2>1. Framed
        BY <1>14, <1>a, <1>b, StartAssumption DEF Ready, Step, registers, Frame, Bits, Idle
    <2>2. /\ at = "ready" /\ at' = "loop"
          /\ UNCHANGED <<INT_STATUS, fifo, mpuIntStatus, asleep, USER_CTRL, INT_ENABLE, program>>
          /\ faults' = 0 => faults = 0 /\ dmpReady' = TRUE
        BY <1>14, <1>a, <1>e DEF Ready, Step, registers, Idle
    <2>3. Trace'
        BY <2>2, <1>c DEF Trace, WhileReset, WhileAwake, WhileProgrammed, WhileEnabled,
                    WhileInterrupting, WhileDisabled, Quiet
    <2> QED BY <2>1, <2>3
<1> QED BY <1>1, <1>2, <1>3, <1>4, <1>5, <1>6, <1>7, <1>8, <1>9, <1>10, <1>11, <1>12, <1>13,
           <1>14

-----------------------------------------------------------------------------
(* A chunk of the upload *)

LEMMA ChunkBounds ==
    ASSUME i \in Nat, i < ImageLen, InPlace
    PROVE  /\ ChunkSize \in Nat \ {0} /\ i + ChunkSize <= ImageLen
           /\ address + ChunkSize <= BankLen
           /\ address \in 0 .. BankLen - 1 /\ bank \in Nat
<1>1. address \in 0 .. BankLen - 1 /\ bank \in Nat
    BY StartAssumption, DivMod DEF InPlace
<1> DEFINE S == {ChunkLen, ImageLen - i, BankLen - address}
<1>2. \A n \in S : n \in Nat \ {0}
    BY <1>1, StartAssumption
<1>3. \E n \in S : \A m \in S : n <= m
    <2>1. ChunkLen \in Nat /\ ImageLen - i \in Nat /\ BankLen - address \in Nat
        BY <1>2
    <2>2. CASE ChunkLen <= ImageLen - i /\ ChunkLen <= BankLen - address
        BY <2>1, <2>2
    <2>3. CASE ImageLen - i <= ChunkLen /\ ImageLen - i <= BankLen - address
        BY <2>1, <2>3
    <2>4. CASE BankLen - address <= ChunkLen /\ BankLen - address <= ImageLen - i
        <3>1. BankLen - address \in S
            OBVIOUS
        <3>2. \A m \in S : BankLen - address <= m
            BY <2>1, <2>4
        <3> QED BY <3>1, <3>2
    <2> QED BY <2>1, <2>2, <2>3, <2>4
<1>4. Min(S) \in S /\ \A m \in S : Min(S) <= m
    <2> HIDE DEF S
    <2> QED BY <1>3 DEF Min
<1>5. ChunkSize = Min(S)
    BY DEF ChunkSize
<1>6. ChunkSize \in Nat \ {0} /\ ChunkSize <= ImageLen - i /\ ChunkSize <= BankLen - address
    BY <1>2, <1>4, <1>5
<1> QED BY <1>1, <1>6, StartAssumption

LEMMA InBank ==
    ASSUME i \in Nat, InPlace, NEW n \in Nat, address + n < BankLen
    PROVE  CellOf(i + n) = <<bank, address + n>> /\ (address + n) % BankLen = address + n
<1>1. (i % BankLen) + n < BankLen
    BY DEF InPlace
<1>2. CellOf(i + n) = <<bank, address + n>>
    BY <1>1, CellShift DEF InPlace
<1>3. address \in 0 .. BankLen - 1
    BY StartAssumption, DivMod DEF InPlace
<1>4. address + n \in 0 .. BankLen - 1
    BY <1>3, StartAssumption
<1>5. \A m \in 0 .. BankLen - 1 : m % BankLen = m
    BY StartAssumption, SmallMod
<1>6. (address + n) % BankLen = address + n
    BY <1>4, <1>5
<1> QED BY <1>2, <1>6

LEMMA InChunk ==
    ASSUME i \in Nat, i < ImageLen, InPlace, NEW n \in 0 .. ChunkSize - 1
    PROVE  /\ CellOf(i + n) = <<bank, address + n>> /\ (address + n) % BankLen = address + n
           /\ i + n \in 0 .. ImageLen - 1
<1>1. /\ ChunkSize \in Nat /\ i + ChunkSize <= ImageLen /\ address + ChunkSize <= BankLen
      /\ address \in 0 .. BankLen - 1
    BY ChunkBounds
<1>2. n \in Nat /\ address + n < BankLen /\ i + n \in 0 .. ImageLen - 1
    BY <1>1, StartAssumption
<1> QED BY <1>2, InBank

ChunkWritten ==
    memory' = [c \in Cells |->
                 IF \E n \in 0 .. ChunkSize - 1 : c = Accessed(n)
                 THEN i + ((c[2] - MEM_START_ADDR) % BankLen) ELSE memory[c]]

\* With the right bank and address selected the chunk gets where it belongs.
LEMMA RightChunk ==
    ASSUME i \in Nat, i < ImageLen, InPlace, Selected, Uploaded(i), ChunkWritten,
           UNCHANGED <<bank, address, i, warm>>
    PROVE  Chunk'
<1>1. /\ ChunkSize \in Nat \ {0} /\ i + ChunkSize <= ImageLen /\ address \in 0 .. BankLen - 1
    BY ChunkBounds
<1>2. \A n \in 0 .. ChunkSize - 1 : Accessed(n) = CellOf(i + n)
    BY InChunk DEF Accessed, Selected
<1>3. ASSUME NEW n \in 0 .. ChunkSize - 1
      PROVE  memory'[CellOf(i + n)] = i + n
    <2>1. CellOf(i + n) = <<bank, address + n>> /\ i + n \in 0 .. ImageLen - 1
        BY InChunk
    <2>2. CellOf(i + n) \in Cells
        BY <2>1, CellInside
    <2>3. memory'[CellOf(i + n)] = i + ((CellOf(i + n)[2] - MEM_START_ADDR) % BankLen)
        BY <1>2, <2>2 DEF ChunkWritten
    <2>4. CellOf(i + n)[2] - MEM_START_ADDR = n
        BY <1>1, <2>1 DEF Selected
    <2>5. n \in 0 .. BankLen - 1
        BY <1>1, ChunkBounds, StartAssumption
    <2>6. n % BankLen = n
        BY <2>5, StartAssumption, SmallMod
    <2> QED BY <2>3, <2>4, <2>6
<1>4. ASSUME NEW k \in 0 .. ImageLen - 1, k < i \/ k >= i + ChunkSize
      PROVE  memory'[CellOf(k)] = memory[CellOf(k)]
    <2>1. CellOf(k) \in Cells
        BY CellInside
    <2>2. \A n \in 0 .. ChunkSize - 1 : CellOf(k) # Accessed(n)
        <3> SUFFICES ASSUME NEW n \in 0 .. ChunkSize - 1, CellOf(k) = CellOf(i + n)
                     PROVE  FALSE
            BY <1>2
        <3>1. k \in Nat /\ i + n \in Nat /\ n \in Nat
            BY StartAssumption, <1>1
        <3>2. k = i + n
            BY <3>1, CellsDiffer
        <3> QED BY <3>1, <3>2, <1>1, <1>4
    <2> QED BY <2>1, <2>2 DEF ChunkWritten
<1>5. ASSUME NEW k \in 0 .. ImageLen - 1
      PROVE  /\ k < i + ChunkSize => memory'[CellOf(k)] = k
             /\ k >= i + ChunkSize => warm \/ memory'[CellOf(k)] = ImageLen
    <2>1. CASE k < i
        BY <1>1, <1>4, <2>1, StartAssumption DEF Uploaded
    <2>2. CASE k >= i + ChunkSize
        BY <1>1, <1>4, <2>2, StartAssumption DEF Uploaded
    <2>3. CASE k >= i /\ k < i + ChunkSize
        <3>1. k - i \in 0 .. ChunkSize - 1 /\ i + (k - i) = k
            BY <1>1, <2>3, StartAssumption
        <3> QED BY <1>1, <1>3, <2>3, <3>1
    <2> QED BY <1>1, <2>1, <2>2, <2>3, StartAssumption
<1>6. i' + ChunkSize' = i + ChunkSize /\ warm' = warm
    BY DEF ChunkSize
<1> QED BY <1>5, <1>6 DEF Chunk, Uploaded

\* With a wrong one, it does not.
LEMMA WrongChunk ==
    ASSUME i \in Nat, i < ImageLen, InPlace, BANK_SEL \in Nat,
           MEM_START_ADDR \in 0 .. BankLen - 1,
           ~Selected, Uploaded(i), ~warm, ChunkWritten
    PROVE  memory'[CellOf(i)] # i
<1>0. i \in 0 .. ImageLen - 1
    BY StartAssumption
<1>1. CellOf(i) = <<bank, address>> /\ CellOf(i) \in Cells
    BY <1>0, CellInside DEF CellOf, InPlace
<1>2. address \in 0 .. BankLen - 1
    BY ChunkBounds
<1>3. CASE \E n \in 0 .. ChunkSize - 1 : CellOf(i) = Accessed(n)
    <2>1. BANK_SEL = bank
        BY <1>1, <1>3 DEF Accessed
    <2>2. MEM_START_ADDR # address
        BY <2>1 DEF Selected
    <2>3. (address - MEM_START_ADDR) % BankLen \in Nat \ {0}
        BY <1>2, <2>2, StartAssumption, NoMultiple
    <2>4. memory'[CellOf(i)] = i + ((address - MEM_START_ADDR) % BankLen)
        BY <1>1, <1>3 DEF ChunkWritten
    <2> QED BY <2>3, <2>4
<1>4. CASE ~\E n \in 0 .. ChunkSize - 1 : CellOf(i) = Accessed(n)
    <2>1. memory'[CellOf(i)] = memory[CellOf(i)]
        BY <1>1, <1>4 DEF ChunkWritten
    <2>2. i \in 0 .. ImageLen - 1 /\ i >= i
        BY StartAssumption
    <2>3. memory[CellOf(i)] = ImageLen
        BY <2>2 DEF Uploaded
    <2> QED BY <2>1, <2>3, StartAssumption
<1> QED BY <1>3, <1>4

\* The comparison accepts a right chunk and refuses a wrong one.
LEMMA RightVerified ==
    ASSUME i \in Nat, i < ImageLen, InPlace, Selected, Chunk
    PROVE  Verified
<1> SUFFICES ASSUME NEW n \in 0 .. ChunkSize - 1 PROVE memory[Accessed(n)] = i + n
    BY DEF Verified
<1>1. Accessed(n) = CellOf(i + n) /\ i + n \in 0 .. ImageLen - 1
    BY InChunk DEF Accessed, Selected
<1>2. ChunkSize \in Nat
    BY ChunkBounds
<1>3. i + n < i + ChunkSize
    BY <1>2
<1> QED BY <1>1, <1>3 DEF Chunk, Uploaded

LEMMA WrongRefused ==
    ASSUME i \in Nat, i < ImageLen, InPlace, Selected, memory[CellOf(i)] # i
    PROVE  ~Verified
<1>1. 0 \in 0 .. ChunkSize - 1
    BY ChunkBounds
<1>2. Accessed(0) = CellOf(i + 0) /\ i + 0 = i
    BY <1>1, InChunk DEF Accessed, Selected
<1> QED BY <1>1, <1>2 DEF Verified

\* The place of the next chunk.
LEMMA NextPlace ==
    ASSUME i \in Nat, i < ImageLen, InPlace, Advance
    PROVE  i' = i + ChunkSize /\ i' \in 0 .. ImageLen /\ (i' < ImageLen => InPlace')
<1>1. /\ ChunkSize \in Nat \ {0} /\ i + ChunkSize <= ImageLen
      /\ address + ChunkSize <= BankLen /\ address \in 0 .. BankLen - 1 /\ bank \in Nat
    BY ChunkBounds
<1>2. i' = i + ChunkSize /\ address' = (address + ChunkSize) % BankLen
    BY DEF Advance
<1>3. address = i % BankLen /\ bank = i \div BankLen /\ BankLen \in Nat \ {0}
    BY StartAssumption DEF InPlace
<1> DEFINE size == ChunkSize
<1> HIDE DEF size
<1>4. CASE address + ChunkSize < BankLen
    <2>1. address' = address + ChunkSize
        BY <1>1, <1>2, <1>4, InBank
    <2>2. CellOf(i + ChunkSize) = <<bank, address + ChunkSize>>
        BY <1>1, <1>4, InBank
    <2>3. (i + ChunkSize) \div BankLen = bank /\ (i + ChunkSize) % BankLen = address + ChunkSize
        BY <2>2 DEF CellOf
    <2>4. address' # 0
        BY <1>1, <2>1
    <2>5. i' < ImageLen => bank' = bank
        BY <2>4 DEF Advance
    <2> QED BY <1>1, <1>2, <2>1, <2>3, <2>5, StartAssumption DEF InPlace
<1>5. CASE address + ChunkSize = BankLen
    <2>1. (i + ChunkSize) \div BankLen = bank + 1 /\ (i + ChunkSize) % BankLen = 0
        BY <1>1, <1>3, <1>5, DivModNext
    <2>2. BankLen % BankLen = 0
        <3>1. \A m \in Nat : m = BankLen * 1 + 0 => m % BankLen = 0
            <4>1. 1 \in Nat /\ 0 \in 0 .. BankLen - 1
                BY <1>3
            <4> QED BY <1>3, <4>1, DivModUnique
        <3>2. BankLen = BankLen * 1 + 0
            BY <1>3
        <3> QED BY <1>3, <3>1, <3>2
    <2>3. address' = 0
        BY <1>2, <1>5, <2>2
    <2>4. i' < ImageLen => bank' = bank + 1
        BY <2>3 DEF Advance
    <2> QED BY <1>1, <1>2, <2>1, <2>3, <2>4, StartAssumption DEF InPlace
<1> QED BY <1>1, <1>4, <1>5, StartAssumption

-----------------------------------------------------------------------------
(* The steps of the upload *)

\* A second failure loses the claim; the first comes with a quiet sensor.
LEMMA Faults ==
    ASSUME StartInv, at \in Uploading, UNCHANGED <<vars, registers, warm>>,
           faults' = faults \/ faults' = faults + 1
    PROVE  /\ Clean' => Clean
           /\ Clean' /\ faults' # faults => Spent' /\ ~warm
           /\ Clean' /\ Spent => Spent' /\ ~warm /\ faults' = faults
<1>1. faults \in Nat /\ (faults = 0 => Quiet)
    BY DEF StartInv, StartTypes, Trace, WhileReset
<1>2. Quiet' = Quiet
    BY DEF Quiet, vars, registers
<1> QED BY <1>1, <1>2 DEF Clean, Spent

LEMMA UploadFrame ==
    ASSUME StartInv, at \in Uploading, at' \in Uploading,
           UNCHANGED <<vars, registers, outcome, warm, bank, address, i>>,
           faults' = faults \/ faults' = faults + 1,
           BANK_SEL' \in Nat, MEM_START_ADDR' \in 0 .. BankLen - 1,
           memory' \in [Cells -> Nat]
    PROVE  StartTypes' /\ Idle' /\ Position' /\ Trace' /\ Failed'
<1>1. StartTypes /\ Idle /\ Position
    BY DEF StartInv
<1>2. /\ WhileReset /\ WhileAwake /\ WhileProgrammed /\ WhileEnabled
      /\ WhileInterrupting /\ WhileDisabled
    BY DEF StartInv, Trace
<1>3. faults' = 0 => faults = 0
    BY <1>1 DEF StartTypes
<1>4. faults' \in Nat
    BY <1>1 DEF StartTypes
<1>5. InPlace' = InPlace
    BY DEF InPlace
<1>6. Quiet' = Quiet
    BY DEF Quiet, vars, registers
<1> USE DEF Early, Uploading, Late, Started
<1>7. StartTypes'
    BY <1>1, <1>4 DEF StartTypes, registers, outcome
<1>8. Idle' /\ Position'
    BY <1>1, <1>5 DEF Idle, Position, vars, outcome
<1>9. WhileReset' /\ WhileAwake'
    BY <1>2, <1>3, <1>6 DEF WhileReset, WhileAwake, registers
<1>10. WhileProgrammed' /\ WhileEnabled' /\ WhileInterrupting' /\ WhileDisabled'
    BY DEF WhileProgrammed, WhileEnabled, WhileInterrupting, WhileDisabled
<1>11. Trace'
    BY <1>9, <1>10 DEF Trace
<1>12. Failed'
    BY DEF Failed
<1> QED BY <1>7, <1>8, <1>11, <1>12

LEMMA UploadSteps ==
    ASSUME StartInv, WriteMemoryBlock, ~Verify
    PROVE  StartTypes' /\ Idle' /\ Position' /\ Trace' /\ Memory' /\ Failed'
<1> DEFINE Aside == UNCHANGED <<vars, registers, outcome, warm, bank, address, i>>
           Counted == faults' = faults \/ faults' = faults + 1
<1>1. /\ StartTypes /\ Position /\ Memory
      /\ BANK_SEL \in Nat /\ MEM_START_ADDR \in 0 .. BankLen - 1 /\ memory \in [Cells -> Nat]
    BY DEF StartInv, StartTypes
<1>2. at \in Uploading => i \in Nat /\ i < ImageLen /\ InPlace /\ i \in 0 .. ImageLen - 1
    BY <1>1, StartAssumption DEF Position
<1>3. at \in Uploading => /\ address \in 0 .. BankLen - 1 /\ bank \in Nat
                          /\ ChunkSize \in Nat \ {0}
    BY <1>2, ChunkBounds
<1>4. Aside => /\ ChunkSize' = ChunkSize /\ CellOf(i)' = CellOf(i)
                /\ (memory' = memory => /\ Uploaded(i)' = Uploaded(i) /\ Chunk' = Chunk
                                        /\ memory'[CellOf(i)'] = memory[CellOf(i)])
    BY DEF ChunkSize, CellOf, Chunk, Uploaded
<1>5. ASSUME NEW from \in Uploading, NEW to \in Uploading, SetMemoryBank(from, to)
      PROVE  /\ at = from /\ at' = to /\ Aside /\ memory' = memory
             /\ MEM_START_ADDR' = MEM_START_ADDR /\ Counted
             /\ BANK_SEL' = bank \/ (faults' = faults + 1 /\ BANK_SEL' = BANK_SEL)
    BY <1>5 DEF SetMemoryBank, Step, Write, Works, Fails, OnlyUpload
<1>6. ASSUME NEW from \in Uploading, NEW to \in Uploading, SetMemoryStartAddress(from, to)
      PROVE  /\ at = from /\ at' = to /\ Aside /\ memory' = memory
             /\ BANK_SEL' = BANK_SEL /\ Counted
             /\ \/ MEM_START_ADDR' = address
                \/ faults' = faults + 1 /\ MEM_START_ADDR' = MEM_START_ADDR
    BY <1>6 DEF SetMemoryStartAddress, Step, Write, Works, Fails, OnlyUpload
<1>7. CASE SetMemoryBank("bank", "address")
    <2>1. /\ at = "bank" /\ at' = "address" /\ Aside /\ memory' = memory
          /\ MEM_START_ADDR' = MEM_START_ADDR /\ Counted
          /\ BANK_SEL' = bank \/ (faults' = faults + 1 /\ BANK_SEL' = BANK_SEL)
        BY <1>5, <1>7 DEF Uploading
    <2>2. StartTypes' /\ Idle' /\ Position' /\ Trace' /\ Failed'
        BY <1>1, <1>3, <2>1, UploadFrame DEF Uploading
    <2>3. Clean' => Uploaded(i)' /\ (BANK_SEL' = bank' \/ Spent')
        BY <1>1, <1>4, <2>1, Faults DEF Memory, Uploading, StartTypes
    <2>4. Memory'
        BY <2>1, <2>3 DEF Memory, Early, Late, Started
    <2> QED BY <2>2, <2>4
<1>8. CASE SetMemoryStartAddress("address", "write")
    <2>1. /\ at = "address" /\ at' = "write" /\ Aside /\ memory' = memory
          /\ BANK_SEL' = BANK_SEL /\ Counted
          /\ \/ MEM_START_ADDR' = address
             \/ faults' = faults + 1 /\ MEM_START_ADDR' = MEM_START_ADDR
        BY <1>6, <1>8 DEF Uploading
    <2>2. StartTypes' /\ Idle' /\ Position' /\ Trace' /\ Failed'
        BY <1>1, <1>3, <2>1, UploadFrame DEF Uploading
    <2>3. Clean' => Uploaded(i)' /\ (Selected' \/ Spent')
        BY <1>1, <1>4, <2>1, Faults DEF Memory, Uploading, Selected, StartTypes
    <2>4. Memory'
        BY <2>1, <2>3 DEF Memory, Early, Late, Started
    <2> QED BY <2>2, <2>4
<1>9. CASE WriteChunk
    <2>1. /\ at = "write" /\ at' = "verify bank" /\ Aside /\ Counted
          /\ BANK_SEL' = BANK_SEL
        BY <1>9 DEF WriteChunk, Step, Works, Fails, OnlyUpload
    <2>2. \/ faults' = faults /\ ChunkWritten
             /\ MEM_START_ADDR' = (MEM_START_ADDR + ChunkSize) % BankLen
          \/ faults' = faults + 1 /\ memory' = memory /\ MEM_START_ADDR' = MEM_START_ADDR
        BY <1>9 DEF WriteChunk, Works, Fails, ChunkWritten
    <2>3. /\ i \in Nat /\ i < ImageLen /\ InPlace /\ i \in 0 .. ImageLen - 1
          /\ ChunkSize \in Nat
        BY <1>2, <1>3, <2>1 DEF Uploading
    <2>4. ASSUME ChunkWritten PROVE memory' \in [Cells -> Nat]
        <3>1. ASSUME NEW c \in Cells
              PROVE  i + ((c[2] - MEM_START_ADDR) % BankLen) \in Nat
            <4>1. c[2] \in 0 .. BankLen - 1
                BY DEF Cells
            <4>2. (c[2] - MEM_START_ADDR) % BankLen \in Nat
                BY <1>1, <4>1, StartAssumption
            <4> QED BY <2>3, <4>2
        <3> QED BY <1>1, <2>4, <3>1 DEF ChunkWritten
    <2>5. (MEM_START_ADDR + ChunkSize) % BankLen \in 0 .. BankLen - 1
        BY <1>1, <2>3, StartAssumption
    <2>6. StartTypes' /\ Idle' /\ Position' /\ Trace' /\ Failed'
        BY <1>1, <2>1, <2>2, <2>4, <2>5, UploadFrame DEF Uploading
    <2>7. ASSUME Clean' PROVE Chunk' \/ Wrong'
        <3>1. Clean /\ Uploaded(i) /\ (Selected \/ Spent)
            BY <1>1, <2>1, <2>7, Faults DEF Memory, Uploading
        <3>2. CASE faults' = faults /\ ChunkWritten /\ Selected
            BY <2>1, <2>3, <3>1, <3>2, RightChunk
        <3>3. CASE faults' = faults /\ ChunkWritten /\ ~Selected
            <4>1. Spent' /\ ~warm
                BY <2>1, <2>7, <3>1, <3>3, Faults DEF Uploading
            <4>2. memory'[CellOf(i)] # i
                BY <1>1, <2>3, <3>1, <3>3, <4>1, WrongChunk
            <4> QED BY <1>4, <2>1, <4>1, <4>2 DEF Wrong
        <3>4. CASE faults' = faults + 1 /\ memory' = memory
            <4>1. faults' # faults
                BY <1>1, <3>4 DEF StartTypes
            <4>2. Spent' /\ ~warm
                BY <2>1, <2>7, <4>1, Faults DEF Uploading
            <4>3. memory[CellOf(i)] = ImageLen
                BY <2>3, <3>1, <4>2 DEF Uploaded
            <4>4. memory'[CellOf(i)'] = memory[CellOf(i)] /\ i' = i
                BY <1>4, <2>1, <3>4
            <4>5. ImageLen # i
                BY <2>3
            <4>6. memory'[CellOf(i)'] # i'
                BY <4>3, <4>4, <4>5
            <4> QED BY <4>2, <4>6 DEF Wrong
        <3> QED BY <2>2, <3>2, <3>3, <3>4
    <2>8. Memory'
        BY <2>1, <2>7 DEF Memory, Early, Late, Started
    <2> QED BY <2>6, <2>8
<1>10. CASE SetMemoryBank("verify bank", "verify address")
    <2>1. /\ at = "verify bank" /\ at' = "verify address" /\ Aside /\ memory' = memory
          /\ MEM_START_ADDR' = MEM_START_ADDR /\ Counted
          /\ BANK_SEL' = bank \/ (faults' = faults + 1 /\ BANK_SEL' = BANK_SEL)
        BY <1>5, <1>10 DEF Uploading
    <2>2. StartTypes' /\ Idle' /\ Position' /\ Trace' /\ Failed'
        BY <1>1, <1>3, <2>1, UploadFrame DEF Uploading
    <2>3. Clean' => \/ Chunk' /\ (BANK_SEL' = bank' \/ Spent')
                    \/ Wrong' /\ BANK_SEL' = bank'
        <3>1. faults + 1 # faults
            BY <1>1 DEF StartTypes
        <3>2. Clean' => Clean /\ (Chunk \/ Wrong)
            BY <1>1, <2>1, Faults DEF Memory, Uploading
        <3>3. Clean' /\ Wrong => Wrong' /\ BANK_SEL' = bank'
            BY <1>4, <2>1, <3>1, Faults DEF Wrong, Uploading
        <3>4. Clean' => BANK_SEL' = bank' \/ Spent'
            BY <2>1, <3>1, Faults DEF Uploading
        <3>5. Chunk' = Chunk
            BY <1>4, <2>1
        <3> QED BY <3>2, <3>3, <3>4, <3>5
    <2>4. Memory'
        BY <2>1, <2>3 DEF Memory, Early, Late, Started
    <2> QED BY <2>2, <2>4
<1>11. CASE SetMemoryStartAddress("verify address", "verify")
    <2>1. /\ at = "verify address" /\ at' = "verify" /\ Aside /\ memory' = memory
          /\ BANK_SEL' = BANK_SEL /\ Counted
          /\ \/ MEM_START_ADDR' = address
             \/ faults' = faults + 1 /\ MEM_START_ADDR' = MEM_START_ADDR
        BY <1>6, <1>11 DEF Uploading
    <2>2. StartTypes' /\ Idle' /\ Position' /\ Trace' /\ Failed'
        BY <1>1, <1>3, <2>1, UploadFrame DEF Uploading
    <2>3. Clean' => \/ Chunk' /\ (Selected' \/ Spent')
                    \/ Wrong' /\ Selected'
        <3>1. faults + 1 # faults
            BY <1>1 DEF StartTypes
        <3>2. Clean' => \/ Chunk /\ (BANK_SEL = bank \/ Spent)
                        \/ Wrong /\ BANK_SEL = bank
            BY <1>1, <2>1, Faults DEF Memory, Uploading
        <3>3. Clean' /\ Wrong /\ BANK_SEL = bank => Wrong' /\ Selected'
            BY <1>4, <2>1, <3>1, Faults DEF Wrong, Uploading, Selected
        <3>4. Clean' /\ (BANK_SEL = bank \/ Spent) => Selected' \/ Spent'
            BY <2>1, <3>1, Faults DEF Uploading, Selected
        <3>5. Chunk' = Chunk
            BY <1>4, <2>1
        <3> QED BY <3>2, <3>3, <3>4, <3>5
    <2>4. Memory'
        BY <2>1, <2>3 DEF Memory, Early, Late, Started
    <2> QED BY <2>2, <2>4
<1> QED BY <1>7, <1>8, <1>9, <1>10, <1>11 DEF WriteMemoryBlock

LEMMA VerifyStep ==
    ASSUME StartInv, Verify
    PROVE  StartTypes' /\ Idle' /\ Position' /\ Trace' /\ Memory' /\ Failed'
<1>1. /\ at = "verify" /\ UNCHANGED <<vars, registers, BANK_SEL, memory, warm, dmpReady>>
      /\ faults' = faults \/ faults' = faults + 1
    BY DEF Verify, Works, Fails, Advance, outcome
<1>2. /\ StartTypes /\ Idle /\ Position /\ Memory
      /\ faults \in Nat /\ BANK_SEL \in Nat /\ MEM_START_ADDR \in 0 .. BankLen - 1
      /\ WhileReset /\ WhileAwake
    BY DEF StartInv, StartTypes, Trace
<1>3. i \in Nat /\ i < ImageLen /\ InPlace
    BY <1>1, <1>2, StartAssumption DEF Position, Uploading
<1>4. ChunkSize \in Nat \ {0}
    BY <1>3, ChunkBounds
<1>5. Clean => (Chunk /\ (Selected \/ Spent)) \/ (Wrong /\ Selected)
    BY <1>1, <1>2 DEF Memory
<1>6. /\ Clean' => Clean
      /\ Clean' /\ faults' # faults => Spent' /\ ~warm
      /\ Clean' /\ Spent => Spent' /\ ~warm /\ faults' = faults
    BY <1>1, Faults DEF Uploading
<1>7. (MEM_START_ADDR + ChunkSize) % BankLen \in 0 .. BankLen - 1
    BY <1>2, <1>4, StartAssumption
<1>8. MEM_START_ADDR' \in 0 .. BankLen - 1
    BY <1>2, <1>7 DEF Verify
<1>9. (faults' = 0 => faults = 0) /\ faults' \in Nat /\ (faults' <= 1 => faults <= 1)
    BY <1>1, <1>2
<1>10. Quiet' = Quiet /\ pc' = pc /\ (faults = 0 => Quiet)
    BY <1>1, <1>2 DEF Quiet, vars, registers, WhileReset, Uploading
<1>11. at' \in {"bank", "program", "loop"}
    BY DEF Verify, Advance
<1>12. StartTypes'
    BY <1>1, <1>2, <1>8, <1>9, <1>11 DEF StartTypes, registers, Early, Uploading, Late, Started
<1>13. dmpReady = FALSE /\ pc = "status"
    BY <1>1, <1>2 DEF Idle, Started
<1>14. Idle'
    BY <1>1, <1>2 DEF Idle, vars, Started
<1>15. CASE Advance /\ ((Works /\ Verified) \/ Fails)
    <2>1. i' = i + ChunkSize /\ i' \in 0 .. ImageLen /\ (i' < ImageLen => InPlace')
        BY <1>3, <1>15, NextPlace
    <2>2. \/ at' = "bank" /\ i' < ImageLen
          \/ at' = "program" /\ i' = ImageLen
        BY <1>15, <2>1, StartAssumption DEF Advance
    <2>3. Position'
        BY <2>1, <2>2 DEF Position, Early, Uploading, Late, Started
    <2>4. Clean' => Chunk
        <3> SUFFICES ASSUME Clean', ~Chunk PROVE FALSE
            OBVIOUS
        <3>1. Spent /\ Selected /\ memory[CellOf(i)] # i
            BY <1>5, <1>6 DEF Wrong
        <3>2. faults' = faults
            BY <1>6, <3>1
        <3>3. Verified
            BY <1>2, <1>15, <3>2 DEF Fails
        <3> QED BY <1>3, <3>1, <3>3, WrongRefused
    <2>5. Clean' => Uploaded(i)'
        BY <1>1, <2>1, <2>4 DEF Chunk, Uploaded
    <2>6. faults' = 0 \/ (~warm' /\ faults' <= 1) => Clean'
        BY <1>9 DEF Clean, Spent
    <2>7. i' = ImageLen /\ Uploaded(i)' => ImageWhole'
        BY StartAssumption DEF Uploaded, ImageWhole
    <2>8. Memory'
        BY <2>2, <2>5, <2>6, <2>7 DEF Memory, Early, Late, Started
    <2>9. WhileReset' /\ WhileAwake'
        BY <1>1, <1>2, <1>9, <1>10, <2>2
           DEF WhileReset, WhileAwake, registers, Early, Uploading, Late, Started
    <2>10. Trace'
        BY <2>2, <2>9 DEF Trace, WhileProgrammed, WhileEnabled, WhileInterrupting,
                          WhileDisabled, Late, Started
    <2>11. Failed'
        BY <2>2 DEF Failed, Started
    <2> QED BY <1>12, <1>14, <2>3, <2>8, <2>10, <2>11
<1>16. CASE /\ (Works /\ ~Verified) \/ Fails
            /\ at' = "loop" /\ UNCHANGED <<bank, address, i>>
    <2>1. Position'
        BY <1>1, <1>2, <1>3, <1>13, <1>16, StartAssumption
           DEF Position, Early, Uploading, Late, Started
    <2>2. Clean /\ ~Verified => Spent
        BY <1>3, <1>5, RightVerified DEF Wrong
    <2>3. faults' <= 1 => Quiet
        BY <1>2, <1>9, <1>10, <1>16, <2>2 DEF Clean, Spent, Works, Fails
    <2>4. faults' # 0
        BY <1>2, <1>16, <2>2 DEF Clean, Spent, Works, Fails
    <2>5. Memory'
        BY <1>3, <1>16 DEF Memory, Early, Late
    <2>6. Trace'
        BY <2>4 DEF Trace, WhileReset, WhileAwake, WhileProgrammed, WhileEnabled,
                    WhileInterrupting, WhileDisabled
    <2>7. Failed'
        BY <1>10, <1>13, <1>16, <2>3 DEF Failed
    <2> QED BY <1>12, <1>14, <2>1, <2>5, <2>6, <2>7
<1> QED BY <1>15, <1>16 DEF Verify

-----------------------------------------------------------------------------
(* The loop and the sensor *)

\* What they leave alone.
LEMMA RestSteps ==
    ASSUME StartInv, UNCHANGED <<registers, upload, outcome, warm, faults>>,
           \/ at \in Started /\ at' \in Started
           \/ at' = at /\ Quiet' = Quiet
    PROVE  StartTypes' /\ Position' /\ Trace' /\ Memory'
<1>1. StartTypes /\ Position /\ Memory
    BY DEF StartInv
<1>2. /\ WhileReset /\ WhileAwake /\ WhileProgrammed /\ WhileEnabled
      /\ WhileInterrupting /\ WhileDisabled /\ (faults = 0 /\ at \in Started => dmpReady)
    BY DEF StartInv, Trace
<1> USE DEF Early, Uploading, Late, Started
<1>3. StartTypes'
    BY <1>1 DEF StartTypes, registers, upload, outcome
<1>4. InPlace' = InPlace /\ ImageWhole' = ImageWhole
    BY DEF InPlace, ImageWhole, upload
<1>5. Position'
    BY <1>1, <1>4 DEF Position, upload, outcome
<1>6. WhileAwake' /\ WhileProgrammed' /\ WhileEnabled'
    BY <1>2 DEF WhileAwake, WhileProgrammed, WhileEnabled, registers
<1>7. WhileInterrupting' /\ WhileDisabled' /\ (faults = 0 /\ at \in Started => dmpReady)'
    BY <1>2 DEF WhileInterrupting, WhileDisabled, registers, outcome
<1>8. CASE at \in Started /\ at' \in Started
    <2>1. WhileReset'
        BY <1>8 DEF WhileReset
    <2>2. Memory'
        BY <1>1, <1>4, <1>8 DEF Memory, upload
    <2> QED BY <1>3, <1>5, <1>6, <1>7, <2>1, <2>2 DEF Trace
<1>9. CASE at' = at /\ Quiet' = Quiet
    <2>1. WhileReset'
        BY <1>2, <1>9 DEF WhileReset, registers
    <2>2. (Clean' <=> Clean) /\ (Spent' <=> Spent) /\ (Selected' <=> Selected)
        BY <1>9 DEF Clean, Spent, Selected, upload
    <2>3. (Uploaded(0)' <=> Uploaded(0)) /\ (Uploaded(i)' <=> Uploaded(i))
        BY DEF Uploaded, upload
    <2>4. Chunk' <=> Chunk
        BY DEF Chunk, Uploaded, ChunkSize, upload
    <2>5. Wrong' <=> Wrong
        BY <2>2 DEF Wrong, upload
    <2>6. BANK_SEL' = BANK_SEL /\ bank' = bank /\ i' = i /\ faults' = faults /\ warm' = warm
        BY DEF upload
    <2>7. Memory'
        <3>1. (at \in Early => Uploaded(0))'
            BY <1>1, <1>9, <2>3 DEF Memory
        <3>2. ASSUME Clean'
              PROVE  /\ at' = "bank" => Uploaded(i)'
                     /\ at' = "address" => Uploaded(i)' /\ (BANK_SEL' = bank' \/ Spent')
                     /\ at' = "write" => Uploaded(i)' /\ (Selected' \/ Spent')
                     /\ at' = "verify bank" => Chunk' \/ Wrong'
            BY <1>1, <1>9, <2>2, <2>3, <2>4, <2>5, <2>6, <3>2 DEF Memory
        <3>3. ASSUME Clean'
              PROVE  /\ at' = "verify address" =>
                            \/ Chunk' /\ (BANK_SEL' = bank' \/ Spent')
                            \/ Wrong' /\ BANK_SEL' = bank'
                     /\ at' = "verify" => \/ Chunk' /\ (Selected' \/ Spent')
                                          \/ Wrong' /\ Selected'
            <4>1. Clean /\ at' = at
                BY <1>9, <2>2, <3>3
            <4>2. at = "verify address" => \/ Chunk /\ (BANK_SEL = bank \/ Spent)
                                           \/ Wrong /\ BANK_SEL = bank
                BY <1>1, <4>1 DEF Memory
            <4>3. at = "verify" => \/ Chunk /\ (Selected \/ Spent)
                                   \/ Wrong /\ Selected
                BY <1>1, <4>1 DEF Memory
            <4>4. (BANK_SEL' = bank') <=> (BANK_SEL = bank)
                BY <2>6
            <4>5. CASE at = "verify address"
                <5>1. CASE Chunk /\ (BANK_SEL = bank \/ Spent)
                    BY ONLY <2>2, <2>4, <4>1, <4>4, <4>5, <5>1
                <5>2. CASE Wrong /\ BANK_SEL = bank
                    BY ONLY <2>5, <4>1, <4>4, <4>5, <5>2
                <5> QED BY <4>2, <4>5, <5>1, <5>2
            <4>6. CASE at = "verify"
                <5>1. CASE Chunk /\ (Selected \/ Spent)
                    <6>1. Chunk'
                        BY ONLY <2>4, <5>1
                    <6>2. Selected' \/ Spent'
                        BY ONLY <2>2, <5>1
                    <6>3. at' # "verify address"
                        BY ONLY <4>1, <4>6
                    <6> QED BY <6>1, <6>2, <6>3
                <5>2. CASE Wrong /\ Selected
                    BY ONLY <2>2, <2>5, <4>1, <4>6, <5>2
                <5> QED BY <4>3, <4>6, <5>1, <5>2
            <4> QED BY <4>1, <4>5, <4>6
        <3>4. (at \in Late \cup Started /\ i = ImageLen
                  /\ (faults = 0 \/ (~warm /\ faults <= 1)) => ImageWhole)'
            <4>1. at \in Late \cup Started /\ i = ImageLen
                      /\ (faults = 0 \/ (~warm /\ faults <= 1)) => ImageWhole
                BY <1>1 DEF Memory
            <4>2. (at \in Late \cup Started /\ i = ImageLen
                      /\ (faults = 0 \/ (~warm /\ faults <= 1)))'
                  <=> (at \in Late \cup Started /\ i = ImageLen
                      /\ (faults = 0 \/ (~warm /\ faults <= 1)))
                BY <1>9, <2>6
            <4> QED BY <1>4, <4>1, <4>2
        <3> QED BY <3>1, <3>2, <3>3, <3>4 DEF Memory
    <2> QED BY <1>3, <1>5, <1>6, <1>7, <2>1, <2>7 DEF Trace
<1> QED BY <1>8, <1>9

LEMMA LoopStep ==
    ASSUME StartInv, Loop
    PROVE  StartTypes' /\ Idle' /\ Position' /\ Trace' /\ Memory' /\ Failed'
<1>1. at = "loop" /\ at' = at /\ (TaskImu \/ TaskImuUnsized)
      /\ UNCHANGED <<registers, upload, outcome, warm, faults>>
    BY DEF Loop, Rest
<1>2. StartTypes' /\ Position' /\ Trace' /\ Memory'
    BY <1>1, RestSteps DEF Started
<1>3. Idle'
    BY <1>1 DEF Idle, Started
<1>4. ASSUME ~dmpReady, faults <= 1 PROVE Quiet' /\ pc' \in {"status", "count"}
    <2>1. Quiet /\ pc \in {"status", "count"}
        BY <1>1, <1>4 DEF StartInv, Failed, Started
    <2>2. program' = program
        BY <1>1 DEF registers
    <2>3. CASE GetIntStatus
        BY <2>1, <2>2, <2>3 DEF GetIntStatus, Quiet
    <2>4. CASE GetFIFOCount
        <3>1. ~(fifo >= FifoLen)
            BY <2>1, ImuAssumption DEF Quiet
        <3>2. pc' = "status" /\ UNCHANGED <<INT_STATUS, fifo, mpuIntStatus>>
            BY <2>1, <2>4, <3>1 DEF GetFIFOCount, Quiet, sensor
        <3> QED BY <2>1, <2>2, <3>2 DEF Quiet
    <2> QED
        BY <1>1, <2>1, <2>3, <2>4 DEF TaskImu, TaskImuUnsized, ResetFIFO, CountAfterReset,
                                      WaitForPacket, GetFIFOBytes, GetNoBytes, Use, UseBuffer
<1>5. Failed'
    BY <1>1, <1>4 DEF Failed, outcome
<1> QED BY <1>2, <1>3, <1>5

LEMMA SensorStep ==
    ASSUME StartInv, Sensor
    PROVE  StartTypes' /\ Idle' /\ Position' /\ Trace' /\ Memory' /\ Failed'
<1>1. /\ at' = at /\ program /\ program' = program
      /\ UNCHANGED <<registers, upload, outcome, warm, faults, pc, mpuIntStatus, got, torn>>
    BY DEF Sensor, Running, Rest, DmpPacket, packet, registers
<1>2. Quiet = FALSE /\ Quiet' = FALSE
    BY <1>1 DEF Quiet
<1>3. StartTypes' /\ Position' /\ Trace' /\ Memory'
    BY <1>1, <1>2, RestSteps
<1>4. Idle'
    BY <1>1 DEF StartInv, Idle, outcome
<1>5. Failed'
    BY <1>1, <1>2 DEF StartInv, Failed, outcome
<1> QED BY <1>3, <1>4, <1>5

-----------------------------------------------------------------------------
(* The invariant, and what follows from it *)

LEMMA InitStart == StartInit => StartInv
<1> SUFFICES ASSUME StartInit PROVE StartInv
    OBVIOUS
<1> USE StartAssumption DEF StartInit
<1>1. FifoInv
    BY InitFifo
<1>2. 0 \in 0 .. BankLen - 1
    OBVIOUS
<1>3. memory \in [Cells -> Nat]
    <2>1. ASSUME NEW c \in Cells
          PROVE  (IF warm THEN c[1] * BankLen + c[2] ELSE ImageLen) \in Nat
        <3>1. (ImageLen - 1) \div BankLen \in Nat
            <4>1. ImageLen - 1 \in Nat /\ BankLen \in Nat \ {0}
                OBVIOUS
            <4> QED BY <4>1, DivMod
        <3>2. c[1] \in Nat /\ c[2] \in Nat
            BY <3>1 DEF Cells, Banks
        <3>3. c[1] * BankLen \in Nat
            BY <3>2
        <3> QED BY <3>2, <3>3
    <2> QED BY <2>1
<1>4. StartTypes
    <2>1. /\ asleep \in BOOLEAN /\ INT_ENABLE \in BOOLEAN /\ program \in BOOLEAN
          /\ warm \in BOOLEAN /\ dmpReady \in BOOLEAN
        OBVIOUS
    <2>2. USER_CTRL \in SUBSET {"DMP_EN", "FIFO_EN"}
        OBVIOUS
    <2> QED BY <1>2, <1>3, <2>1, <2>2 DEF StartTypes, Early
<1>5. Idle
    BY DEF Idle, Init
<1>6. 0 \div BankLen = 0 /\ 0 % BankLen = 0
    <2>1. \A m \in Nat : m = BankLen * 0 + 0 => m \div BankLen = 0 /\ m % BankLen = 0
        BY <1>2, DivModUnique
    <2>2. 0 = BankLen * 0 + 0
        OBVIOUS
    <2> QED BY <2>1, <2>2
<1>7. Position
    BY <1>6 DEF Position, InPlace, Early, Uploading, Late, Started
<1>8. Trace
    BY DEF Trace, WhileReset, WhileAwake, WhileProgrammed, WhileEnabled, WhileInterrupting,
           WhileDisabled, Early, Uploading, Late, Started
<1>9. Uploaded(0)
    <2> SUFFICES ASSUME NEW k \in 0 .. ImageLen - 1, ~warm
                 PROVE  memory[CellOf(k)] = ImageLen
        BY DEF Uploaded
    <2>1. CellOf(k) \in Cells
        BY CellInside
    <2> QED BY <2>1
<1>10. Memory
    BY <1>9 DEF Memory, Late, Started
<1>11. Failed
    BY DEF Failed, Started
<1>12. LoopInv
    BY <1>1 DEF LoopInv, Unsized, Started
<1> QED BY <1>12, <1>4, <1>5, <1>7, <1>8, <1>10, <1>11 DEF StartInv

LEMMA NextStart == StartInv /\ [StartNext]_startVars => StartInv'
<1> SUFFICES ASSUME StartInv, [StartNext]_startVars PROVE StartInv'
    OBVIOUS
<1>1. LoopInv'
    BY FifoStart
<1>2. CASE \/ SetSleepEnabled \/ Reset \/ ResetSignalPath \/ SetClock \/ NoInterrupt
           \/ ProgramStart \/ EnableFifo \/ EnableInterrupt \/ LastReset \/ DisableDmp
           \/ SetPacketSize \/ Calibrate \/ EnableDmp \/ Ready
    BY <1>1, <1>2, RegisterSteps DEF StartInv
<1>3. CASE WriteMemoryBlock /\ ~Verify
    BY <1>1, <1>3, UploadSteps DEF StartInv
<1>4. CASE Verify
    BY <1>1, <1>4, VerifyStep DEF StartInv
<1>5. CASE Loop
    BY <1>1, <1>5, LoopStep DEF StartInv
<1>7. CASE Sensor
    BY <1>1, <1>7, SensorStep DEF StartInv
<1>8. CASE UNCHANGED startVars
    <2>1. UNCHANGED <<vars, at, registers, upload, outcome, warm, faults>>
        BY <1>8 DEF startVars
    <2>2. Quiet' = Quiet
        BY <2>1 DEF Quiet, vars, registers
    <2>3. StartTypes' /\ Position' /\ Trace' /\ Memory'
        BY <2>1, <2>2, RestSteps
    <2>4. Idle' /\ Failed'
        BY <2>1, <2>2 DEF StartInv, Idle, Failed, vars, outcome
    <2> QED BY <1>1, <2>3, <2>4 DEF StartInv
<1> QED BY <1>2, <1>3, <1>4, <1>5, <1>7, <1>8 DEF StartNext, Start

LEMMA StartInvariant == StartSpec => []StartInv
BY InitStart, NextStart, PTL DEF StartSpec

\* Also with the start in front of it, and whatever fails there, the loop keeps its
\* types: no burst overruns fifoBuffer.
THEOREM LoopTypes == StartSpec => []TypeOK
<1>1. StartInv => TypeOK
    BY DEF StartInv, LoopInv, NoPacket, FifoInv
<1> QED BY <1>1, StartInvariant, PTL

\* No burst of the loop reads an empty FIFO; with a packet size that was never set
\* there is no burst.
THEOREM LoopNeverEmpty == StartSpec => []NeverReadsEmpty
<1>1. StartInv => NeverReadsEmpty
    BY ImuAssumption DEF StartInv, LoopInv, NoPacket, FifoInv, TypeOK, CountHolds,
                         NeverReadsEmpty
<1> QED BY <1>1, StartInvariant, PTL

\* Where the start set a packet size, one overflow tears at most one packet.  Where it
\* set none, because its upload failed, no buffer the loop ever uses is a packet.
THEOREM LoopResynchronises == StartSpec => []SizedTornOnce
<1>1. StartInv => SizedTornOnce
    <2> SUFFICES ASSUME StartInv PROVE SizedTornOnce
        OBVIOUS
    <2>1. CASE Unsized
        BY <2>1 DEF StartInv, LoopInv, NoPacket, Unsized, SizedTornOnce
    <2>2. CASE ~Unsized
        <3>1. FifoInv /\ Idle
            BY <2>2 DEF StartInv, LoopInv
        <3>2. TornOnce
            BY <3>1 DEF FifoInv, CleanStart, TornOnce
        <3>3. ~dmpPacketSize => pc = "status"
            BY <2>2, <3>1 DEF Unsized, Idle
        <3> QED BY <3>2, <3>3 DEF SizedTornOnce
    <2> QED BY <2>1, <2>2
<1> QED BY <1>1, StartInvariant, PTL

\* For every image, bank and chunk: an upload into an empty memory that is reported
\* as good is good, if at most one transaction failed, whichever it was.
THEOREM UploadChecked == StartSpec => []UploadIsVerified
<1>1. StartInv => UploadIsVerified
    <2> SUFFICES ASSUME StartInv, ~warm, faults <= 1, i = ImageLen PROVE ImageWhole
        BY DEF UploadIsVerified
    <2>1. StartTypes /\ Position /\ Memory
        BY DEF StartInv
    <2>2. at \in Late \cup Started
        BY <2>1, StartAssumption DEF StartTypes, Position
    <2> QED BY <2>1, <2>2 DEF Memory
<1> QED BY <1>1, StartInvariant, PTL

\* A start that failed, with at most one failed transaction, leaves the loop a sensor
\* that announces nothing: the loop never comes to use a buffer.
THEOREM FailureIsQuiet == StartSpec => []FailedStartIsQuiet
<1>1. StartInv => FailedStartIsQuiet
    BY DEF StartInv, Failed, FailedStartIsQuiet, Started
<1> QED BY <1>1, StartInvariant, PTL

\* A start without failures leaves the sensor running.
THEOREM SuccessIsRunning == StartSpec => []StartSucceeds
<1>1. StartInv => StartSucceeds
    <2> SUFFICES ASSUME StartInv, at = "loop", faults = 0 PROVE dmpReady /\ Running
        BY DEF StartSucceeds
    <2>1. at \in Started
        BY DEF Started
    <2>2. dmpReady /\ asleep = FALSE /\ program = TRUE /\ INT_ENABLE = TRUE
          /\ USER_CTRL = {"DMP_EN", "FIFO_EN"}
        BY <2>1 DEF StartInv, Trace, WhileAwake, WhileProgrammed, WhileInterrupting,
                    WhileEnabled
    <2>3. i = ImageLen
        BY <2>1, <2>2 DEF StartInv, Position
    <2>4. ImageWhole
        BY <2>1, <2>3 DEF StartInv, Memory
    <2> QED BY <2>2, <2>4 DEF Running
<1> QED BY <1>1, StartInvariant, PTL

-----------------------------------------------------------------------------
(* The registers.  A byte, or a word, in three parts: what is above a field, *)
(* the field, and what is below it.                                          *)

LEMMA PositiveProduct ==
    ASSUME NEW p \in Nat \ {0}, NEW q \in Nat \ {0}
    PROVE  p * q \in Nat \ {0}
<1>1. p * q >= p
    BY AtLeastOne
<1>2. p * q \in Int
    OBVIOUS
<1> QED BY <1>1, <1>2

\* A number in its three parts: above a field, the field, and below it.
Composed(p, q, high, mid, low) == p * (q * high + mid) + low

LEMMA ThreeParts ==
    ASSUME NEW p \in Nat \ {0}, NEW q \in Nat \ {0},
           NEW high \in Nat, NEW mid \in 0 .. q - 1, NEW low \in 0 .. p - 1,
           NEW b, b = Composed(p, q, high, mid, low)
    PROVE  /\ b \in Nat /\ b % p = low
           /\ (b \div p) % q = mid /\ (b \div p) \div q = high
           /\ b \div (p * q) = high
<1>0. b = p * (q * high + mid) + low
    BY DEF Composed
<1> DEFINE a == q * high + mid
<1>1. a \in Nat /\ p * a \in Nat
    <2>1. q * high \in Nat
        OBVIOUS
    <2>2. a \in Nat
        BY <2>1
    <2> HIDE DEF a
    <2> QED BY <2>2
<1>9. b \in Nat
    BY <1>0, <1>1
<1>2. a \div q = high /\ a % q = mid
    <2>1. a = q * high + mid
        OBVIOUS
    <2> HIDE DEF a
    <2> QED BY <1>1, <2>1, DivModUnique
<1>3. b \div p = a /\ b % p = low
    <2>1. b = p * a + low
        BY <1>0
    <2> HIDE DEF a
    <2> QED BY <1>1, <1>9, <2>1, DivModUnique
<1>4. b \div (p * q) = high
    <2> DEFINE pq == p * q
               rest == p * mid + low
    <2>1. pq \in Nat \ {0}
        BY PositiveProduct
    <2>2. rest \in 0 .. pq - 1
        <3>1. mid + 1 <= q /\ q - (mid + 1) \in Nat
            OBVIOUS
        <3>2. p * (q - (mid + 1)) \in Nat
            BY <3>1
        <3>3. p * (q - (mid + 1)) = p * q - p * mid - p
            OBVIOUS
        <3>4. p * mid \in Nat /\ p * q \in Nat
            BY <2>1
        <3> QED BY <3>2, <3>3, <3>4
    <2>3. b = pq * high + rest
        <3>1. p * (q * high + mid) = p * q * high + p * mid
            OBVIOUS
        <3>2. p * q * high \in Nat /\ p * mid \in Nat
            OBVIOUS
        <3> QED BY <1>0, <3>1, <3>2
    <2> HIDE DEF pq, rest
    <2>4. b \div pq = high
        BY <1>9, <2>1, <2>2, <2>3, DivModUnique
    <2> QED BY <2>4 DEF pq
<1> QED BY <1>9, <1>2, <1>3, <1>4

LEMMA HasParts ==
    ASSUME NEW p \in Nat \ {0}, NEW q \in Nat \ {0}, NEW b \in Nat
    PROVE  /\ b % p \in 0 .. p - 1 /\ (b \div p) % q \in 0 .. q - 1
           /\ (b \div p) \div q \in Nat
           /\ b = Composed(p, q, (b \div p) \div q, (b \div p) % q, b % p)
<1> DEFINE a == b \div p
<1>1. a \in Nat /\ b % p \in 0 .. p - 1 /\ b = p * a + (b % p)
    BY DivMod
<1> HIDE DEF a
<1>2. a \div q \in Nat /\ a % q \in 0 .. q - 1 /\ a = q * (a \div q) + (a % q)
    BY <1>1, DivMod
<1> QED BY <1>1, <1>2 DEF a, Composed

\* The number b with d in the place of its field.
Put(p, q, b, d) == b + (d - ((b \div p) % q)) * p

\* What writeBits and writeBit change: the field, and nothing above or below it.
LEMMA Replaced ==
    ASSUME NEW p \in Nat \ {0}, NEW q \in Nat \ {0}, NEW b \in Nat, NEW d \in 0 .. q - 1
    PROVE  /\ Put(p, q, b, d) \in Nat
           /\ (Put(p, q, b, d) \div p) % q = d
           /\ Put(p, q, b, d) % p = b % p
           /\ Put(p, q, b, d) \div (p * q) = b \div (p * q)
<1> DEFINE c == Put(p, q, b, d)
           high == (b \div p) \div q
           mid == (b \div p) % q
           low == b % p
<1>1. high \in Nat /\ mid \in 0 .. q - 1 /\ low \in 0 .. p - 1
      /\ b = Composed(p, q, high, mid, low)
    BY HasParts
<1>2. c = b + (d - mid) * p
    BY DEF Put
<1> HIDE DEF high, mid, low, c
<1>3. c = Composed(p, q, high, d, low)
    <2>1. p * (q * high + mid) = p * q * high + p * mid
        BY <1>1
    <2>2. p * (q * high + d) = p * q * high + p * d
        BY <1>1
    <2>3. (d - mid) * p = p * d - p * mid
        BY <1>1
    <2>4. p * q * high \in Int /\ p * d \in Int /\ p * mid \in Int
        BY <1>1
    <2>5. b = p * (q * high + mid) + low
        BY <1>1 DEF Composed
    <2> QED BY <1>1, <1>2, <2>1, <2>2, <2>3, <2>4, <2>5 DEF Composed
<1>5. c \in Nat /\ c % p = low /\ (c \div p) % q = d /\ c \div (p * q) = high
    BY <1>1, <1>3, ThreeParts
<1>6. b \div (p * q) = high
    BY <1>1, ThreeParts
<1> QED BY <1>5, <1>6 DEF c, low

FieldOf(p, q, b) == (b \div p) % q

\* b and c agree below a place; between it and the field q at p there is room for k values.
AgreeBelow(p, q, k, b, c) == b % (p * q * k) = c % (p * q * k)

\* A field sees only what is below the place.
LEMMA FieldBelow ==
    ASSUME NEW p \in Nat \ {0}, NEW q \in Nat \ {0}, NEW k \in Nat \ {0},
           NEW b \in Nat, NEW c \in Nat,
           AgreeBelow(p, q, k, b, c)
    PROVE  FieldOf(p, q, b) = FieldOf(p, q, c)
<1> DEFINE m == p * q * k
<1>1. m \in Nat \ {0}
    BY PositiveProduct
<1>2. ASSUME NEW x \in Nat PROVE (x \div p) % q = ((x % m) \div p) % q
    <2> DEFINE y == x % m
               n == x \div m
               high == (y \div p) \div q
               mid == (y \div p) % q
               low == y % p
    <2> HIDE DEF m
    <2>1. y \in Nat /\ n \in Nat /\ x = m * n + y
        <3>1. y \in 0 .. m - 1 /\ n \in Nat /\ x = m * n + y
            BY ONLY <1>1, x \in Nat, DivMod
        <3> QED BY <1>1, <3>1
    <2> HIDE DEF y, n
    <2>2. high \in Nat /\ mid \in 0 .. q - 1 /\ low \in 0 .. p - 1
          /\ y = Composed(p, q, high, mid, low)
        BY <2>1, HasParts
    <2> HIDE DEF high, mid, low
    <2> DEFINE above == k * n + high
    <2>3. above \in Nat
        <3>1. k * n \in Nat
            BY <2>1
        <3> QED BY <2>2, <3>1
    <2>4. x = Composed(p, q, above, mid, low)
        <3>1. m * n = p * (q * (k * n))
            BY <2>1 DEF m
        <3>2. q * above = q * (k * n) + q * high
            BY <2>1, <2>2
        <3>3. q * (k * n) \in Int /\ q * high \in Int
            BY <2>1, <2>2
        <3>4. p * (q * above + mid) = p * (q * (k * n)) + p * (q * high + mid)
            <4> DEFINE u == q * (k * n)
                       v == q * high
            <4>1. u \in Int /\ v \in Int /\ q * above = u + v
                BY <3>2, <3>3
            <4> HIDE DEF u, v, above
            <4>2. p * (q * above + mid) = p * u + p * (v + mid)
                BY <2>2, <4>1
            <4> QED BY <4>2 DEF u, v
        <3>5. m * n \in Int /\ p * (q * high + mid) \in Int
            BY <1>1, <2>1, <2>2
        <3>6. y = p * (q * high + mid) + low
            BY <2>2 DEF Composed
        <3> QED BY <2>1, <2>2, <3>1, <3>4, <3>5, <3>6 DEF Composed
    <2> HIDE DEF above
    <2>5. (x \div p) % q = mid
        BY <2>2, <2>3, <2>4, ThreeParts
    <2> QED BY <2>5 DEF mid, y
<1> HIDE DEF m
<1>3. (b \div p) % q = ((b % m) \div p) % q /\ (c \div p) % q = ((c % m) \div p) % q
    BY <1>2
<1>4. b % m = c % m
    BY DEF m, AgreeBelow
<1> QED BY <1>3, <1>4 DEF FieldOf

\* A field above another one sees only what is above.
LEMMA FieldAbove ==
    ASSUME NEW p \in Nat \ {0}, NEW k \in Nat \ {0}, NEW b \in Nat, NEW c \in Nat,
           b \div p = c \div p
    PROVE  b \div (p * k) = c \div (p * k)
<1>1. ASSUME NEW x \in Nat PROVE x \div (p * k) = (x \div p) \div k
    <2> DEFINE high == (x \div p) \div k
               mid == (x \div p) % k
               low == x % p
    <2>1. high \in Nat /\ mid \in 0 .. k - 1 /\ low \in 0 .. p - 1
          /\ x = Composed(p, k, high, mid, low)
        BY HasParts
    <2> HIDE DEF high, mid, low
    <2>2. x \div (p * k) = high
        BY <2>1, ThreeParts
    <2> QED BY <2>2 DEF high
<1> QED BY <1>1

-----------------------------------------------------------------------------
(* The fields *)

Lowest(f) == f[3] - f[4] + 1

\* whole registers and words are written as they are, the rest lies within a byte
Shaped(f) ==
    \/ f[3] = 15 /\ f[4] = 16
    \/ f[3] = 7 /\ f[4] = 8
    \/ f[3] \in 0 .. 7 /\ f[4] \in 1 .. 6 /\ Lowest(f) >= 0

Apart(f, g) == f[3] < Lowest(g) \/ g[3] < Lowest(f)

LEMMA TrimApart ==
    /\ \A f \in TrimFields \cup RateFields :
           Shaped(f) /\ (ReadsFirst(f) => f[2] \in {0, 1, 2, 26, 117})
    /\ \A f, g \in TrimFields \cup RateFields :
          ReadsFirst(f) /\ ReadsFirst(g) /\ f # g /\ f[2] = g[2] => Apart(f, g)
BY DEF TrimFields, RateFields, Shaped, Lowest, Apart, ReadsFirst

LEMMA RangeApart ==
    /\ \A f \in GyroAccelFields \cup FreefallFields :
           Shaped(f) /\ (ReadsFirst(f) => f[2] \in {27, 28})
    /\ \A f, g \in GyroAccelFields \cup FreefallFields :
          ReadsFirst(f) /\ ReadsFirst(g) /\ f # g /\ f[2] = g[2] => Apart(f, g)
BY DEF GyroAccelFields, FreefallFields, Shaped, Lowest, Apart, ReadsFirst

LEMMA FifoEnableApart ==
    /\ \A f \in FifoEnableFields : Shaped(f) /\ (ReadsFirst(f) => f[2] \in {35})
    /\ \A f, g \in FifoEnableFields :
          ReadsFirst(f) /\ ReadsFirst(g) /\ f # g /\ f[2] = g[2] => Apart(f, g)
BY DEF FifoEnableFields, Shaped, Lowest, Apart, ReadsFirst

LEMMA MasterApart ==
    /\ \A f \in MasterFields : Shaped(f) /\ (ReadsFirst(f) => f[2] \in {36})
    /\ \A f, g \in MasterFields :
          ReadsFirst(f) /\ ReadsFirst(g) /\ f # g /\ f[2] = g[2] => Apart(f, g)
BY DEF MasterFields, Shaped, Lowest, Apart, ReadsFirst

LEMMA SlaveApart ==
    /\ \A f \in SlaveControlFields : Shaped(f) /\ (ReadsFirst(f) => f[2] \in {39, 42, 45, 48})
    /\ \A f, g \in SlaveControlFields :
          ReadsFirst(f) /\ ReadsFirst(g) /\ f # g /\ f[2] = g[2] => Apart(f, g)
BY DEF SlaveControlFields, Shaped, Lowest, Apart, ReadsFirst

LEMMA Slave4Apart ==
    /\ \A f \in Slave4Fields : Shaped(f) /\ (ReadsFirst(f) => f[2] \in {52})
    /\ \A f, g \in Slave4Fields :
          ReadsFirst(f) /\ ReadsFirst(g) /\ f # g /\ f[2] = g[2] => Apart(f, g)
BY DEF Slave4Fields, Shaped, Lowest, Apart, ReadsFirst

LEMMA InterruptPinApart ==
    /\ \A f \in InterruptPinFields : Shaped(f) /\ (ReadsFirst(f) => f[2] \in {55})
    /\ \A f, g \in InterruptPinFields :
          ReadsFirst(f) /\ ReadsFirst(g) /\ f # g /\ f[2] = g[2] => Apart(f, g)
BY DEF InterruptPinFields, Shaped, Lowest, Apart, ReadsFirst

LEMMA InterruptApart ==
    /\ \A f \in InterruptFields \cup UserControlFields \cup DmpFields :
           Shaped(f) /\ (ReadsFirst(f) => f[2] \in {56, 106})
    /\ \A f, g \in InterruptFields \cup UserControlFields \cup DmpFields :
          ReadsFirst(f) /\ ReadsFirst(g) /\ f # g /\ f[2] = g[2] => Apart(f, g)
BY DEF InterruptFields, UserControlFields, DmpFields, Shaped, Lowest, Apart, ReadsFirst

LEMMA DelayApart ==
    /\ \A f \in DelayFields : Shaped(f) /\ (ReadsFirst(f) => f[2] \in {103})
    /\ \A f, g \in DelayFields :
          ReadsFirst(f) /\ ReadsFirst(g) /\ f # g /\ f[2] = g[2] => Apart(f, g)
BY DEF DelayFields, Shaped, Lowest, Apart, ReadsFirst

LEMMA DetectionApart ==
    /\ \A f \in DetectionFields : Shaped(f) /\ (ReadsFirst(f) => f[2] \in {105})
    /\ \A f, g \in DetectionFields :
          ReadsFirst(f) /\ ReadsFirst(g) /\ f # g /\ f[2] = g[2] => Apart(f, g)
BY DEF DetectionFields, Shaped, Lowest, Apart, ReadsFirst

LEMMA PowerApart ==
    /\ \A f \in PowerFields : Shaped(f) /\ (ReadsFirst(f) => f[2] \in {107})
    /\ \A f, g \in PowerFields :
          ReadsFirst(f) /\ ReadsFirst(g) /\ f # g /\ f[2] = g[2] => Apart(f, g)
BY DEF PowerFields, Shaped, Lowest, Apart, ReadsFirst

LEMMA StandbyApart ==
    /\ \A f \in StandbyFields : Shaped(f) /\ (ReadsFirst(f) => f[2] \in {108})
    /\ \A f, g \in StandbyFields :
          ReadsFirst(f) /\ ReadsFirst(g) /\ f # g /\ f[2] = g[2] => Apart(f, g)
BY DEF StandbyFields, Shaped, Lowest, Apart, ReadsFirst

LEMMA WholeShaped ==
    \A f \in UNION {MotionFields, SlaveAddressFields, OffsetFields, DmpConfigFields} :
        Shaped(f) /\ ~ReadsFirst(f)
BY DEF MotionFields, SlaveAddressFields, OffsetFields, DmpConfigFields, Shaped, Lowest, ReadsFirst

LEMMA FieldsApart ==
    /\ \A f \in Fields : Shaped(f)
    /\ \A f, g \in Fields :
          ReadsFirst(f) /\ ReadsFirst(g) /\ f # g /\ f[2] = g[2] => Apart(f, g)
<1> DEFINE Placed(f) ==
        \/ f[2] \in {0, 1, 2, 26, 117} /\ f \in TrimFields \cup RateFields
        \/ f[2] \in {27, 28} /\ f \in GyroAccelFields \cup FreefallFields
        \/ f[2] \in {35} /\ f \in FifoEnableFields
        \/ f[2] \in {36} /\ f \in MasterFields
        \/ f[2] \in {39, 42, 45, 48} /\ f \in SlaveControlFields
        \/ f[2] \in {52} /\ f \in Slave4Fields
        \/ f[2] \in {55} /\ f \in InterruptPinFields
        \/ f[2] \in {56, 106} /\ f \in InterruptFields \cup UserControlFields \cup DmpFields
        \/ f[2] \in {103} /\ f \in DelayFields
        \/ f[2] \in {105} /\ f \in DetectionFields
        \/ f[2] \in {107} /\ f \in PowerFields
        \/ f[2] \in {108} /\ f \in StandbyFields
<1>1. \A f \in Fields : Shaped(f) /\ (ReadsFirst(f) => Placed(f))
    BY TrimApart, RangeApart, FifoEnableApart, MasterApart, SlaveApart, Slave4Apart,
       InterruptPinApart, InterruptApart, DelayApart, DetectionApart, PowerApart, StandbyApart,
       WholeShaped DEF Fields
<1>2. ASSUME NEW f \in Fields, NEW g \in Fields,
             ReadsFirst(f), ReadsFirst(g), f # g, f[2] = g[2]
      PROVE  Apart(f, g)
    <2>1. Placed(f) /\ Placed(g)
        BY <1>1, <1>2
    <2>2. CASE f[2] \in {0, 1, 2, 26, 117}
        <3>1. f \in TrimFields \cup RateFields /\ g \in TrimFields \cup RateFields
            BY <1>2, <2>1, <2>2
        <3> QED BY <1>2, <3>1, TrimApart
    <2>3. CASE f[2] \in {27, 28}
        <3>1. f \in GyroAccelFields \cup FreefallFields /\ g \in GyroAccelFields \cup FreefallFields
            BY <1>2, <2>1, <2>3
        <3> QED BY <1>2, <3>1, RangeApart
    <2>4. CASE f[2] \in {35}
        <3>1. f \in FifoEnableFields /\ g \in FifoEnableFields
            BY <1>2, <2>1, <2>4
        <3> QED BY <1>2, <3>1, FifoEnableApart
    <2>5. CASE f[2] \in {36}
        <3>1. f \in MasterFields /\ g \in MasterFields
            BY <1>2, <2>1, <2>5
        <3> QED BY <1>2, <3>1, MasterApart
    <2>6. CASE f[2] \in {39, 42, 45, 48}
        <3>1. f \in SlaveControlFields /\ g \in SlaveControlFields
            BY <1>2, <2>1, <2>6
        <3> QED BY <1>2, <3>1, SlaveApart
    <2>7. CASE f[2] \in {52}
        <3>1. f \in Slave4Fields /\ g \in Slave4Fields
            BY <1>2, <2>1, <2>7
        <3> QED BY <1>2, <3>1, Slave4Apart
    <2>8. CASE f[2] \in {55}
        <3>1. f \in InterruptPinFields /\ g \in InterruptPinFields
            BY <1>2, <2>1, <2>8
        <3> QED BY <1>2, <3>1, InterruptPinApart
    <2>9. CASE f[2] \in {56, 106}
        <3>1. /\ f \in InterruptFields \cup UserControlFields \cup DmpFields
              /\ g \in InterruptFields \cup UserControlFields \cup DmpFields
            BY <1>2, <2>1, <2>9
        <3> QED BY <1>2, <3>1, InterruptApart
    <2>10. CASE f[2] \in {103}
        <3>1. f \in DelayFields /\ g \in DelayFields
            BY <1>2, <2>1, <2>10
        <3> QED BY <1>2, <3>1, DelayApart
    <2>11. CASE f[2] \in {105}
        <3>1. f \in DetectionFields /\ g \in DetectionFields
            BY <1>2, <2>1, <2>11
        <3> QED BY <1>2, <3>1, DetectionApart
    <2>12. CASE f[2] \in {107}
        <3>1. f \in PowerFields /\ g \in PowerFields
            BY <1>2, <2>1, <2>12
        <3> QED BY <1>2, <3>1, PowerApart
    <2>13. CASE f[2] \in {108}
        <3>1. f \in StandbyFields /\ g \in StandbyFields
            BY <1>2, <2>1, <2>13
        <3> QED BY <1>2, <3>1, StandbyApart
    <2> QED BY <2>1, <2>2, <2>3, <2>4, <2>5, <2>6, <2>7, <2>8, <2>9, <2>10, <2>11, <2>12, <2>13
<1> QED BY <1>1, <1>2

\* a bit that resets something lies outside of every setting of its register
LEMMA ResetBitsApart ==
    \A t \in ResetBits :
        /\ t[3] \in 0 .. 7
        /\ \A f \in Fields : f[2] = t[2] => ReadsFirst(f) /\ (t[3] < Lowest(f) \/ f[3] < t[3])
<1> SUFFICES ASSUME NEW t \in ResetBits
             PROVE  /\ t[3] \in 0 .. 7
                    /\ \A f \in Fields : f[2] = t[2] =>
                           ReadsFirst(f) /\ (t[3] < Lowest(f) \/ f[3] < t[3])
    OBVIOUS
<1>1. t[3] \in 0 .. 7 /\ t[2] \in {104, 106, 107}
    BY DEF ResetBits
<1>2. ASSUME NEW f \in Fields, f[2] = t[2]
      PROVE  ReadsFirst(f) /\ (t[3] < Lowest(f) \/ f[3] < t[3])
    <2>1. /\ f \notin RateFields /\ f \notin GyroAccelFields /\ f \notin FreefallFields
          /\ f \notin MotionFields /\ f \notin FifoEnableFields /\ f \notin MasterFields
          /\ f \notin SlaveAddressFields /\ f \notin SlaveControlFields
          /\ f \notin Slave4Fields /\ f \notin InterruptPinFields
          /\ f \notin InterruptFields /\ f \notin DelayFields
          /\ f \notin DetectionFields /\ f \notin StandbyFields /\ f \notin TrimFields
          /\ f \notin OffsetFields /\ f \notin DmpConfigFields
        BY <1>1, <1>2 DEF RateFields, GyroAccelFields, FreefallFields, MotionFields,
           FifoEnableFields, MasterFields, SlaveAddressFields, SlaveControlFields,
           Slave4Fields, InterruptPinFields, InterruptFields, DelayFields,
           DetectionFields, StandbyFields, TrimFields, OffsetFields, DmpConfigFields
    <2>2. f \in UserControlFields \cup DmpFields \/ f \in PowerFields
        BY <2>1 DEF Fields
    <2> QED BY <1>2, <2>2 DEF UserControlFields, DmpFields, PowerFields, ResetBits, ReadsFirst,
                              Lowest
<1> QED BY <1>1, <1>2

-----------------------------------------------------------------------------
(* Powers of two *)

Power(n) == 2^n

LEMMA Powers ==
    /\ Power(0) = 1 /\ Power(1) = 2 /\ Power(2) = 4 /\ Power(3) = 8
    /\ Power(4) = 16 /\ Power(5) = 32 /\ Power(6) = 64 /\ Power(7) = 128
    /\ Power(8) = 256 /\ Power(16) = 65536
BY DEF Power

LEMMA PowersPositive == \A n \in 0 .. 8 : Power(n) \in Nat \ {0}
<1> SUFFICES ASSUME NEW n \in 0 .. 8 PROVE Power(n) \in Nat \ {0}
    OBVIOUS
<1>1. n = 0 \/ n = 1 \/ n = 2 \/ n = 3 \/ n = 4 \/ n = 5 \/ n = 6 \/ n = 7 \/ n = 8
    OBVIOUS
<1> QED BY <1>1, Powers

LEMMA PowersMultiply == \A m, n \in 0 .. 8 : m + n <= 8 => Power(m + n) = Power(m) * Power(n)
<1> SUFFICES ASSUME NEW m \in 0 .. 8, NEW n \in 0 .. 8, m + n <= 8
             PROVE  Power(m + n) = Power(m) * Power(n)
    OBVIOUS
<1>1. n = 0 \/ n = 1 \/ n = 2 \/ n = 3 \/ n = 4 \/ n = 5 \/ n = 6 \/ n = 7 \/ n = 8
    OBVIOUS
<1>2. CASE m = 0
    BY <1>1, <1>2, Powers
<1>3. CASE m = 1
    BY <1>1, <1>3, Powers
<1>4. CASE m = 2
    BY <1>1, <1>4, Powers
<1>5. CASE m = 3
    BY <1>1, <1>5, Powers
<1>6. CASE m = 4
    BY <1>1, <1>6, Powers
<1>7. CASE m = 5
    BY <1>1, <1>7, Powers
<1>8. CASE m = 6
    BY <1>1, <1>8, Powers
<1>9. CASE m = 7
    BY <1>1, <1>9, Powers
<1>10. CASE m = 8
    BY <1>1, <1>10, Powers
<1> QED BY <1>2, <1>3, <1>4, <1>5, <1>6, <1>7, <1>8, <1>9, <1>10

\* b and c may differ in the l bits from s on.
Differ(s, l, b, c) ==
    /\ c % Power(s) = b % Power(s)
    /\ c \div (Power(s) * Power(l)) = b \div (Power(s) * Power(l))

\* They are beside the m bits from t on, in one byte.
Beside(s, l, t, m) ==
    /\ s \in 0 .. 7 /\ l \in 1 .. 6 /\ s + l <= 8
    /\ t \in 0 .. 7 /\ m \in 1 .. 6 /\ t + m <= 8
    /\ s + l <= t \/ t + m <= s

LEMMA BitsKept ==
    ASSUME NEW s, NEW l, NEW t, NEW m, Beside(s, l, t, m),
           NEW b \in Nat, NEW c \in Nat,
           Differ(s, l, b, c)
    PROVE  (c \div Power(t)) % Power(m) = (b \div Power(t)) % Power(m)
<1>0. /\ s \in 0 .. 8 /\ l \in 0 .. 8 /\ t \in 0 .. 8 /\ m \in 0 .. 8
      /\ s + l <= 8 /\ t + m <= 8 /\ (s + l <= t \/ t + m <= s)
    BY DEF Beside
<1> DEFINE ps == Power(s)
           pl == Power(l)
           pt == Power(t)
           pm == Power(m)
<1>1. ps \in Nat \ {0} /\ pl \in Nat \ {0} /\ pt \in Nat \ {0} /\ pm \in Nat \ {0}
    BY <1>0, PowersPositive
<1>2. CASE t + m <= s
    <2> DEFINE k == s - (t + m)
               pk == Power(k)
    <2>1. k \in 0 .. 8 /\ t + m \in 0 .. 8 /\ (t + m) + k = s
        BY <1>0, <1>2
    <2>2. Power(t + m) = pt * pm
        BY <1>0, <2>1, PowersMultiply
    <2>3. Power((t + m) + k) = Power(t + m) * pk
        <3> HIDE DEF k
        <3> QED BY <1>0, <2>1, PowersMultiply
    <2>4. pk \in Nat \ {0}
        BY <2>1, PowersPositive
    <2>5. ps = pt * pm * pk
        BY <2>1, <2>2, <2>3
    <2>6. c % ps = b % ps
        BY DEF Differ
    <2> HIDE DEF ps, pt, pm, pk
    <2>7. (b \div pt) % pm = (c \div pt) % pm
        <3>1. AgreeBelow(pt, pm, pk, b, c)
            BY <2>5, <2>6 DEF AgreeBelow
        <3>2. pt \in Nat \ {0} /\ pm \in Nat \ {0}
            BY <1>1
        <3>3. FieldOf(pt, pm, b) = FieldOf(pt, pm, c)
            BY ONLY <2>4, <3>1, <3>2, b \in Nat, c \in Nat, FieldBelow
        <3> QED BY ONLY <3>3 DEF FieldOf
    <2> QED BY ONLY <2>7 DEF pt, pm
<1>3. CASE s + l <= t
    <2> DEFINE k == t - (s + l)
               pk == Power(k)
               p == ps * pl
    <2>1. k \in 0 .. 8 /\ s + l \in 0 .. 8 /\ (s + l) + k = t
        BY <1>0, <1>3
    <2>2. Power(s + l) = p
        BY <1>0, <2>1, PowersMultiply
    <2>3. Power((s + l) + k) = Power(s + l) * pk
        <3> HIDE DEF k
        <3> QED BY <1>0, <2>1, PowersMultiply
    <2>4. pk \in Nat \ {0} /\ p \in Nat \ {0}
        <3>1. pk \in Nat \ {0}
            BY <2>1, PowersPositive
        <3>2. p \in Nat \ {0}
            <4> HIDE DEF ps, pl
            <4> QED BY <1>1, PositiveProduct
        <3> QED BY <3>1, <3>2
    <2>5. pt = p * pk
        BY <2>1, <2>2, <2>3
    <2>6. c \div p = b \div p
        BY DEF Differ
    <2> HIDE DEF p, pk, pt
    <2>7. c \div pt = b \div pt
        BY <2>4, <2>5, <2>6, FieldAbove
    <2> QED BY <2>7 DEF pt
<1> QED BY <1>0, <1>2, <1>3

-----------------------------------------------------------------------------
(* Setters and getters *)

LEMMA ReadBitsIs ==
    ASSUME NEW b, NEW f
    PROVE  readBits(b, f[3], f[4]) = (b \div Power(Lowest(f))) % Power(f[4])
BY Zenon DEF readBits, Power, Lowest

\* f[3] and f[4] of a field that is read first
LEMMA PartShape ==
    ASSUME NEW f \in Fields, ReadsFirst(f)
    PROVE  /\ Lowest(f) \in 0 .. 7 /\ f[3] \in 0 .. 7 /\ f[4] \in 1 .. 6
           /\ Lowest(f) + f[4] <= 8 /\ Lowest(f) + f[4] = f[3] + 1
BY FieldsApart DEF Shaped, ReadsFirst, Lowest

LEMMA Truncated ==
    ASSUME NEW l \in 1 .. 6, NEW v \in Nat
    PROVE  v % Power(l) \in 0 .. Power(l) - 1 /\ (v % Power(8)) % Power(l) = v % Power(l)
<1>1. l = 1 \/ l = 2 \/ l = 3 \/ l = 4 \/ l = 5 \/ l = 6
    OBVIOUS
<1>2. CASE l = 1
    BY <1>2, Powers
<1>3. CASE l = 2
    BY <1>3, Powers
<1>4. CASE l = 3
    BY <1>4, Powers
<1>5. CASE l = 4
    BY <1>5, Powers
<1>6. CASE l = 5
    BY <1>6, Powers
<1>7. CASE l = 6
    BY <1>7, Powers
<1> QED BY <1>1, <1>2, <1>3, <1>4, <1>5, <1>6, <1>7

\* The bit is replaced by 1 or by 0.
LEMMA WriteBitIs ==
    ASSUME NEW b \in Nat, NEW n \in 0 .. 7, NEW v \in Nat
    PROVE  writeBit(b, n, v) =
               b + ((IF v # 0 THEN 1 ELSE 0) - ((b \div Power(n)) % 2)) * Power(n)
<1> DEFINE p == Power(n)
           bit == (b \div p) % 2
<1>1. p \in Nat \ {0}
    BY PowersPositive
<1>2. writeBit(b, n, v) = b - bit * p + IF v # 0 THEN p ELSE 0
    BY Zenon DEF writeBit, readBit, Power
<1> HIDE DEF p
<1>3. bit = 0 \/ bit = 1
    BY <1>1
<1> HIDE DEF bit
<1>4. b - bit * p + (IF v # 0 THEN p ELSE 0) = b + ((IF v # 0 THEN 1 ELSE 0) - bit) * p
    BY <1>1, <1>3
<1> QED BY <1>2, <1>4 DEF p, bit

\* What every setter that reads first does to the byte.
With(f, b, d) == Put(Power(Lowest(f)), Power(f[4]), b, d)

LEMMA MergedIs ==
    ASSUME NEW f \in Fields, ReadsFirst(f), NEW b \in Nat, NEW v \in Nat
    PROVE  Merged(f, b, v) = With(f, b, Meant(f, v)) /\ Meant(f, v) \in 0 .. Power(f[4]) - 1
<1>1. CASE f[4] = 1
    <2>1. Lowest(f) = f[3]
        <3>1. f[3] \in Int
            BY PartShape
        <3> QED BY <1>1, <3>1 DEF Lowest
    <2> DEFINE d == IF v # 0 THEN 1 ELSE 0
    <2>2. Meant(f, v) = d
        BY <1>1, Zenon DEF Meant
    <2>3. Merged(f, b, v) = b + (d - ((b \div Power(f[3])) % 2)) * Power(f[3])
        <3>1. Merged(f, b, v) = writeBit(b, f[3], v)
            BY <1>1 DEF Merged
        <3>2. f[3] \in 0 .. 7
            BY PartShape
        <3> QED BY <3>1, <3>2, WriteBitIs
    <2>4. d \in 0 .. 1 /\ Power(f[4]) = 2
        BY <1>1, Powers
    <2> HIDE DEF d
    <2> QED BY <2>1, <2>2, <2>3, <2>4 DEF With, Put
<1>2. CASE f[4] # 1
    <2>1. f[4] # 8 /\ f[4] # 16
        BY DEF ReadsFirst
    <2>2. Merged(f, b, v) = writeBits(b, f[3], f[4], v % 2^8)
        BY <1>2, <2>1, Zenon DEF Merged
    <2>3. Merged(f, b, v) = With(f, b, (v % Power(8)) % Power(f[4]))
        BY <2>2, Zenon DEF With, Put, Power, writeBits, readBits, Lowest
    <2>4. Meant(f, v) = v % Power(f[4])
        BY <1>2, Zenon DEF Meant, Power
    <2>5. f[4] \in 1 .. 6
        BY PartShape
    <2>6. v % Power(f[4]) \in 0 .. Power(f[4]) - 1
          /\ (v % Power(8)) % Power(f[4]) = v % Power(f[4])
        BY <2>5, Truncated
    <2> QED BY ONLY <2>3, <2>4, <2>6
<1> QED BY <1>1, <1>2

\* What With leaves: other fields, when they lie apart.
LEMMA WithKeeps ==
    ASSUME NEW f, Lowest(f) \in 0 .. 7, f[4] \in 1 .. 6, Lowest(f) + f[4] <= 8,
           NEW b \in Nat, NEW d \in 0 .. Power(f[4]) - 1
    PROVE  /\ With(f, b, d) \in Nat
           /\ readBits(With(f, b, d), f[3], f[4]) = d
           /\ \A g \in Fields :
                  /\ ReadsFirst(g)
                  /\ Lowest(f) + f[4] <= Lowest(g) \/ Lowest(g) + g[4] <= Lowest(f)
                  => readBits(With(f, b, d), g[3], g[4]) = readBits(b, g[3], g[4])
<1> DEFINE p == Power(Lowest(f))
           q == Power(f[4])
           c == With(f, b, d)
<1>1. p \in Nat \ {0} /\ q \in Nat \ {0}
    BY PowersPositive
<1>2. c = Put(p, q, b, d)
    BY DEF With
<1>3. c \in Nat /\ (c \div p) % q = d /\ c % p = b % p /\ c \div (p * q) = b \div (p * q)
    <2> HIDE DEF c, p
    <2>1. d \in 0 .. q - 1
        OBVIOUS
    <2> HIDE DEF q
    <2> QED BY ONLY <1>1, <1>2, <2>1, b \in Nat, Replaced
<1>4. readBits(c, f[3], f[4]) = d
    BY <1>3, ReadBitsIs, Zenon
<1>5. ASSUME NEW g \in Fields, ReadsFirst(g),
             Lowest(f) + f[4] <= Lowest(g) \/ Lowest(g) + g[4] <= Lowest(f)
      PROVE  readBits(c, g[3], g[4]) = readBits(b, g[3], g[4])
    <2> DEFINE s == Lowest(f)
               l == f[4]
               u == Lowest(g)
               m == g[4]
    <2>1. u \in 0 .. 7 /\ m \in 1 .. 6 /\ u + m <= 8
        BY <1>5, PartShape
    <2>2. s \in 0 .. 7 /\ l \in 1 .. 6 /\ s + l <= 8 /\ (s + l <= u \/ u + m <= s)
        BY <1>5
    <2>3. Differ(s, l, b, c)
        BY <1>3 DEF Differ
    <2> HIDE DEF c, s, l, u, m
    <2>4. (c \div Power(u)) % Power(m) = (b \div Power(u)) % Power(m)
        <3>1. Beside(s, l, u, m)
            BY ONLY <2>1, <2>2 DEF Beside
        <3> QED BY ONLY <1>3, <2>3, <3>1, b \in Nat, BitsKept
    <2>5. /\ readBits(c, g[3], g[4]) = (c \div Power(u)) % Power(m)
          /\ readBits(b, g[3], g[4]) = (b \div Power(u)) % Power(m)
        BY ONLY ReadBitsIs, Zenon DEF u, m
    <2> QED BY ONLY <2>4, <2>5, Zenon
<1> QED BY <1>3, <1>4, <1>5 DEF c

\* A setter of a field sets it and keeps the other fields of its register.
LEMMA FieldSet ==
    ASSUME NEW f \in Fields, ReadsFirst(f), NEW b \in Nat, NEW v \in Nat
    PROVE  /\ Merged(f, b, v) \in Nat
           /\ readBits(Merged(f, b, v), f[3], f[4]) = Meant(f, v)
           /\ \A g \in Fields : ReadsFirst(g) /\ g # f /\ g[2] = f[2] =>
                  readBits(Merged(f, b, v), g[3], g[4]) = readBits(b, g[3], g[4])
<1>1. Merged(f, b, v) = With(f, b, Meant(f, v)) /\ Meant(f, v) \in 0 .. Power(f[4]) - 1
    BY MergedIs
<1>2. ASSUME NEW g \in Fields, ReadsFirst(g), g # f, g[2] = f[2]
      PROVE  Lowest(f) + f[4] <= Lowest(g) \/ Lowest(g) + g[4] <= Lowest(f)
    <2>1. Apart(f, g)
        BY <1>2, FieldsApart
    <2>2. /\ Lowest(f) + f[4] = f[3] + 1 /\ Lowest(g) + g[4] = g[3] + 1
          /\ Lowest(f) \in Int /\ Lowest(g) \in Int /\ f[3] \in Int /\ g[3] \in Int
        BY <1>2, PartShape
    <2> QED BY <2>1, <2>2 DEF Apart
<1>3. Lowest(f) \in 0 .. 7 /\ f[4] \in 1 .. 6 /\ Lowest(f) + f[4] <= 8
    BY PartShape
<1> DEFINE d == Meant(f, v)
<1> HIDE DEF d
<1>4. /\ With(f, b, d) \in Nat
      /\ readBits(With(f, b, d), f[3], f[4]) = d
      /\ \A g \in Fields :
             /\ ReadsFirst(g)
             /\ Lowest(f) + f[4] <= Lowest(g) \/ Lowest(g) + g[4] <= Lowest(f)
             => readBits(With(f, b, d), g[3], g[4]) = readBits(b, g[3], g[4])
    <2>1. d \in 0 .. Power(f[4]) - 1
        BY <1>1 DEF d
    <2> QED BY ONLY <1>3, <2>1, b \in Nat, WithKeeps
<1>5. Merged(f, b, v) = With(f, b, d)
    BY <1>1 DEF d
<1> QED BY <1>2, <1>4, <1>5 DEF d

\* So does the setter of a whole register or word: there are no others.
LEMMA WholeSet ==
    ASSUME NEW f \in Fields, ~ReadsFirst(f), NEW b, NEW v \in Nat
    PROVE  Merged(f, b, v) \in Nat /\ readBits(Merged(f, b, v), f[3], f[4]) = Meant(f, v)
<1>1. (f[4] = 8 \/ f[4] = 16) /\ Lowest(f) = 0
    BY FieldsApart DEF Shaped, ReadsFirst, Lowest
<1>2. readBits(Merged(f, b, v), f[3], f[4]) = (Merged(f, b, v) \div Power(0)) % Power(f[4])
    BY <1>1, ReadBitsIs
<1>3. Meant(f, v) = v % Power(f[4])
    <2>1. f[4] # 1
        BY <1>1
    <2> QED BY <2>1, Zenon DEF Meant, Power
<1>4. CASE f[4] = 8
    <2>1. Merged(f, b, v) = v % Power(8)
        <3>1. f[4] # 1 /\ f[4] # 16
            BY <1>4
        <3> QED BY <1>4, <3>1, Zenon DEF Merged, Power
    <2> DEFINE w == v % Power(8)
    <2>2. w \in 0 .. 255
        BY Powers
    <2> HIDE DEF w
    <2>3. w \div Power(0) = w /\ w % Power(8) = w
        BY <2>2, Powers
    <2>4. Merged(f, b, v) = w /\ Meant(f, v) = w
        BY <1>3, <1>4, <2>1 DEF w
    <2>5. readBits(Merged(f, b, v), f[3], f[4]) = (w \div Power(0)) % Power(8)
        BY ONLY <1>2, <1>4, <2>4
    <2> QED BY ONLY <2>2, <2>3, <2>4, <2>5
<1>5. CASE f[4] = 16
    <2>1. Merged(f, b, v) = v
        <3>1. f[4] # 1 /\ f[4] # 8
            BY <1>5
        <3> QED BY <1>5, <3>1, Zenon DEF Merged
    <2>2. v \div Power(0) = v
        BY Powers
    <2>3. readBits(Merged(f, b, v), f[3], f[4]) = v % Power(f[4])
        BY ONLY <1>2, <2>1, <2>2
    <2> QED BY <1>3, <2>1, <2>3
<1> QED BY <1>1, <1>4, <1>5

\* A bit that resets something is not in any field.
LEMMA BitReset ==
    ASSUME NEW t \in ResetBits, NEW b \in Nat
    PROVE  /\ writeBit(b, t[3], 0) \in Nat
           /\ \A g \in Fields : g[2] = t[2] =>
                  readBits(writeBit(b, t[3], 0), g[3], g[4]) = readBits(b, g[3], g[4])
<1> DEFINE f == <<t[1], t[2], t[3], 1>>
<1>1. t[3] \in 0 .. 7 /\ f[3] = t[3] /\ f[4] = 1 /\ Lowest(f) = t[3]
    BY ResetBitsApart DEF Lowest
<1>2. writeBit(b, t[3], 0) = With(f, b, 0)
    <2>1. writeBit(b, t[3], 0) = b + (0 - ((b \div Power(t[3])) % 2)) * Power(t[3])
        <3>1. (IF 0 # 0 THEN 1 ELSE 0) = 0
            OBVIOUS
        <3> QED BY <1>1, <3>1, WriteBitIs
    <2>2. Power(1) = 2
        BY Powers
    <2> HIDE DEF f
    <2> QED BY <1>1, <2>1, <2>2 DEF With, Put
<1> HIDE DEF f
<1>3. 0 \in 0 .. Power(f[4]) - 1
    BY <1>1, Powers
<1>4. ASSUME NEW g \in Fields, g[2] = t[2]
      PROVE  ReadsFirst(g)
             /\ (Lowest(f) + f[4] <= Lowest(g) \/ Lowest(g) + g[4] <= Lowest(f))
    <2>1. ReadsFirst(g) /\ (t[3] < Lowest(g) \/ g[3] < t[3])
        BY <1>4, ResetBitsApart
    <2>2. Lowest(g) + g[4] = g[3] + 1 /\ Lowest(g) \in Int /\ g[3] \in Int
        BY <2>1, PartShape
    <2> QED BY <1>1, <2>1, <2>2
<1>5. /\ With(f, b, 0) \in Nat
      /\ \A g \in Fields :
             /\ ReadsFirst(g)
             /\ Lowest(f) + f[4] <= Lowest(g) \/ Lowest(g) + g[4] <= Lowest(f)
             => readBits(With(f, b, 0), g[3], g[4]) = readBits(b, g[3], g[4])
    <2>1. Lowest(f) \in 0 .. 7 /\ f[4] \in 1 .. 6 /\ Lowest(f) + f[4] <= 8
        BY <1>1
    <2> QED BY ONLY <1>3, <2>1, b \in Nat, WithKeeps
<1> QED BY <1>2, <1>4, <1>5

-----------------------------------------------------------------------------
(* The settings *)

\* the bits of each field are what it was set to
FieldsHold ==
    \A f \in DOMAIN asked : asked[f] # Unknown => readBits(byte, f[3], f[4]) = asked[f]

RegistersInv ==
    /\ byte \in Nat
    /\ asked \in [FieldsOfRegister(reg) -> Int]
    /\ FieldsHold

LEMMA ArgumentsAreNumbers == Written \subseteq Nat /\ Strays \subseteq Nat
<1>1. Written \subseteq 0 .. MaxWord /\ Strays \subseteq 0 .. 255
    BY RegistersAssumption
<1>2. MaxWord \in Int
    BY DEF MaxWord
<1> QED BY <1>1, <1>2

LEMMA MeantIsInt ==
    ASSUME NEW f \in Fields, NEW v \in Nat
    PROVE  Meant(f, v) \in Int
<1>1. CASE ReadsFirst(f)
    <2>1. f[4] \in 0 .. 8 /\ Meant(f, v) \in 0 .. Power(f[4]) - 1
        BY <1>1, 0 \in Nat, MergedIs, PartShape
    <2> QED BY <2>1
<1>2. CASE ~ReadsFirst(f)
    <2>1. Meant(f, v) = readBits(Merged(f, 0, v), f[3], f[4]) /\ Merged(f, 0, v) \in Nat
        BY <1>2, WholeSet
    <2>2. f[4] = 8 \/ f[4] = 16
        BY <1>2 DEF ReadsFirst
    <2>3. Meant(f, v) = v % Power(f[4])
        <3>1. f[4] # 1
            BY <2>2
        <3> QED BY <3>1, Zenon DEF Meant, Power
    <2> QED BY <2>2, <2>3, Powers
<1> QED BY <1>1, <1>2

LEMMA SetKeeps ==
    ASSUME RegistersInv, NEW f \in FieldsOfRegister(reg), NEW v \in Written, Set(f, v)
    PROVE  RegistersInv'
<1>1. /\ f \in Fields /\ f[2] = reg /\ v \in Nat /\ byte \in Nat
      /\ asked \in [FieldsOfRegister(reg) -> Int]
      /\ reg' = reg
    BY ArgumentsAreNumbers DEF RegistersInv, FieldsOfRegister, Set
<1>2. DOMAIN asked = FieldsOfRegister(reg)
    BY <1>1
<1>3. Meant(f, v) \in Int /\ Unknown \in Int
    BY <1>1, MeantIsInt DEF Unknown
<1>4. ASSUME NEW b \in Nat, NEW kept \in BOOLEAN, kept => b = byte, kept \/ ReadsFirst(f),
             byte' = Merged(f, b, v), asked' = AskedAfter(f, v, kept)
      PROVE  RegistersInv'
    <2>1. byte' \in Nat /\ readBits(byte', f[3], f[4]) = Meant(f, v)
        BY <1>1, <1>4, FieldSet, WholeSet
    <2>2. asked' = [g \in FieldsOfRegister(reg) |->
                        IF g = f THEN Meant(f, v)
                        ELSE IF kept /\ ReadsFirst(f) /\ ReadsFirst(g) THEN asked[g]
                             ELSE Unknown]
        BY <1>2, <1>4 DEF AskedAfter
    <2>3. asked' \in [FieldsOfRegister(reg') -> Int]
        BY <1>1, <1>3, <2>2
    <2>4. ASSUME NEW g \in FieldsOfRegister(reg), asked'[g] # Unknown
          PROVE  readBits(byte', g[3], g[4]) = asked'[g]
        <3>1. CASE g = f
            BY <2>1, <2>2, <3>1
        <3>2. CASE g # f
            <4>1. kept /\ ReadsFirst(f) /\ ReadsFirst(g) /\ asked'[g] = asked[g]
                BY <2>2, <2>4, <3>2
            <4>2. g \in Fields /\ g[2] = f[2]
                BY <1>1 DEF FieldsOfRegister
            <4>3. readBits(byte', g[3], g[4]) = readBits(byte, g[3], g[4])
                <5>1. b = byte /\ byte' = Merged(f, b, v)
                    BY <1>4, <4>1
                <5>2. readBits(Merged(f, b, v), g[3], g[4]) = readBits(b, g[3], g[4])
                    <6>1. \A h \in Fields : ReadsFirst(h) /\ h # f /\ h[2] = f[2] =>
                              readBits(Merged(f, b, v), h[3], h[4]) = readBits(b, h[3], h[4])
                        BY ONLY <1>1, <4>1, b \in Nat, FieldSet
                    <6> QED BY ONLY <3>2, <4>1, <4>2, <6>1
                <5> QED BY ONLY <5>1, <5>2
            <4>4. readBits(byte, g[3], g[4]) = asked[g]
                BY <1>2, <2>4, <4>1 DEF RegistersInv, FieldsHold
            <4> QED BY <4>1, <4>3, <4>4
        <3> QED BY <3>1, <3>2
    <2>5. FieldsHold'
        BY <2>2, <2>4 DEF FieldsHold
    <2> QED BY <2>1, <2>3, <2>5 DEF RegistersInv
<1>5. CASE byte' = Merged(f, byte, v) /\ asked' = AskedAfter(f, v, TRUE)
    BY <1>1, <1>4, <1>5
<1>6. ASSUME ReadsFirst(f), NEW b \in Strays,
             byte' = Merged(f, b, v), asked' = AskedAfter(f, v, FALSE)
      PROVE  RegistersInv'
    <2>1. b \in Nat
        BY ArgumentsAreNumbers
    <2> QED BY <1>4, <1>6, <2>1
<1>7. CASE UNCHANGED byte /\ asked' = [asked EXCEPT ![f] = Unknown]
    <2>1. asked' \in [FieldsOfRegister(reg') -> Int]
        BY <1>1, <1>3, <1>7
    <2>2. FieldsHold'
        BY <1>1, <1>7 DEF RegistersInv, FieldsHold
    <2> QED BY <1>1, <1>7, <2>1, <2>2 DEF RegistersInv
<1> QED BY <1>5, <1>6, <1>7 DEF Set

LEMMA TriggerKeeps ==
    ASSUME RegistersInv, NEW t \in ResetBits, t[2] = reg, Trigger(t[1], t[3])
    PROVE  RegistersInv'
<1>1. /\ byte \in Nat /\ asked \in [FieldsOfRegister(reg) -> Int] /\ reg' = reg
      /\ DOMAIN asked = FieldsOfRegister(reg) /\ Unknown \in Int
    BY DEF RegistersInv, Trigger, Unknown
<1>2. ASSUME byte' \in Nat, asked' = [g \in DOMAIN asked |-> Unknown] PROVE RegistersInv'
    BY <1>1, <1>2 DEF RegistersInv, FieldsHold
<1>3. ASSUME NEW b \in Nat PROVE AfterReset(t[1], writeBit(b, t[3], 0)) \in Nat
    BY BitReset DEF AfterReset
<1>4. CASE /\ byte' = AfterReset(t[1], writeBit(byte, t[3], 0))
           /\ asked' = IF t[1] = "reset" THEN [g \in DOMAIN asked |-> Unknown] ELSE asked
    <2>1. CASE t[1] = "reset"
        BY <1>1, <1>2, <1>3, <1>4, <2>1
    <2>2. CASE t[1] # "reset"
        <3>1. byte' = writeBit(byte, t[3], 0) /\ asked' = asked
            BY <1>4, <2>2 DEF AfterReset
        <3>2. byte' \in Nat
            BY <1>1, <3>1, BitReset
        <3>3. ASSUME NEW g \in FieldsOfRegister(reg), asked[g] # Unknown
              PROVE  readBits(byte', g[3], g[4]) = asked[g]
            <4>1. g \in Fields /\ g[2] = t[2]
                BY DEF FieldsOfRegister
            <4>2. readBits(byte', g[3], g[4]) = readBits(byte, g[3], g[4])
                BY <1>1, <3>1, <4>1, BitReset
            <4> QED BY <1>1, <3>3, <4>2 DEF RegistersInv, FieldsHold
        <3> QED BY <1>1, <3>1, <3>2, <3>3 DEF RegistersInv, FieldsHold
    <2> QED BY <2>1, <2>2
<1>5. ASSUME NEW b \in Strays, byte' = AfterReset(t[1], writeBit(b, t[3], 0)),
             asked' = [g \in DOMAIN asked |-> Unknown]
      PROVE  RegistersInv'
    <2>1. b \in Nat
        BY ArgumentsAreNumbers
    <2> QED BY <1>2, <1>3, <1>5, <2>1
<1>6. CASE UNCHANGED <<byte, asked>>
    BY <1>1, <1>6 DEF RegistersInv, FieldsHold
<1> QED BY <1>4, <1>5, <1>6 DEF Trigger

\* the bits of the two getters that return a byte
LEMMA ByteGetterBits ==
    \A f \in Fields :
        /\ f[1] = "AuxVDDIOLevel" => f[3] = 7 /\ f[4] = 1
        /\ f[1] = "OTPBankValid" => f[3] = 0 /\ f[4] = 1
<1>1. \A f \in RateFields \cup TrimFields :
          /\ f[1] = "AuxVDDIOLevel" => f[3] = 7 /\ f[4] = 1
          /\ f[1] = "OTPBankValid" => f[3] = 0 /\ f[4] = 1
    BY DEF RateFields, TrimFields
<1>2. \A f \in UNION {GyroAccelFields, FreefallFields, MotionFields, FifoEnableFields,
                      MasterFields, Slave4Fields} :
          f[1] # "AuxVDDIOLevel" /\ f[1] # "OTPBankValid"
    BY DEF GyroAccelFields, FreefallFields, MotionFields, FifoEnableFields, MasterFields,
           Slave4Fields
<1>3. \A f \in SlaveAddressFields \cup SlaveControlFields :
          f[1] # "AuxVDDIOLevel" /\ f[1] # "OTPBankValid"
    BY DEF SlaveAddressFields, SlaveControlFields
<1>4. \A f \in UNION {InterruptPinFields, InterruptFields, DelayFields, DetectionFields} :
          f[1] # "AuxVDDIOLevel" /\ f[1] # "OTPBankValid"
    BY DEF InterruptPinFields, InterruptFields, DelayFields, DetectionFields
<1>5. \A f \in UNION {UserControlFields, PowerFields, StandbyFields, OffsetFields, DmpFields,
                      DmpConfigFields} :
          f[1] # "AuxVDDIOLevel" /\ f[1] # "OTPBankValid"
    BY DEF UserControlFields, PowerFields, StandbyFields, OffsetFields, DmpFields,
           DmpConfigFields
<1> QED BY <1>1, <1>2, <1>3, <1>4, <1>5 DEF Fields

\* What the bits hold, the getters make a bool of, a number, or the masked byte.
LEMMA HeldIsRead == RegistersInv => SettingsHold
<1> SUFFICES ASSUME RegistersInv, NEW f \in DOMAIN asked, asked[f] # Unknown
             PROVE  Get(f) = IF f[1] = "AuxVDDIOLevel" THEN asked[f] * 128 ELSE asked[f]
    BY DEF SettingsHold
<1>1. f \in Fields /\ byte \in Nat /\ readBits(byte, f[3], f[4]) = asked[f]
    BY DEF RegistersInv, FieldsHold, FieldsOfRegister
<1>2. CASE f[4] # 1
    <2>1. f[1] # "AuxVDDIOLevel" /\ Get(f) = readBits(byte, f[3], f[4])
        BY <1>1, <1>2, ByteGetterBits DEF Get
    <2> QED BY <1>1, <2>1
<1>3. CASE f[4] = 1
    <2> DEFINE p == Power(f[3])
               bit == (byte \div p) % 2
    <2>1. f[3] \in 0 .. 7 /\ Lowest(f) = f[3]
        BY <1>1, <1>3, PartShape DEF ReadsFirst, Lowest
    <2>2. p \in Nat \ {0}
        BY <2>1, PowersPositive
    <2>3. readBits(byte, f[3], f[4]) = (byte \div Power(Lowest(f))) % Power(f[4])
        BY ReadBitsIs
    <2>4. readBit(byte, f[3]) = bit * p
        BY Zenon DEF readBit, Power
    <2>5. asked[f] = bit
        BY <1>1, <1>3, <2>1, <2>3, Powers
    <2> HIDE DEF p
    <2>6. bit \in 0 .. 1
        BY <1>1, <2>2
    <2> HIDE DEF bit
    <2>7. CASE f[1] = "AuxVDDIOLevel"
        <3>1. p = 128 /\ Get(f) = readBit(byte, f[3])
            BY <1>1, <1>3, <2>7, ByteGetterBits, Powers DEF Get, ByteGetters, p
        <3> QED BY <2>4, <2>5, <2>7, <3>1
    <2>8. CASE f[1] = "OTPBankValid"
        <3>1. p = 1 /\ Get(f) = readBit(byte, f[3])
            BY <1>1, <1>3, <2>8, ByteGetterBits, Powers DEF Get, ByteGetters, p
        <3> QED BY <2>4, <2>5, <2>6, <2>8, <3>1
    <2>9. CASE f[1] \notin ByteGetters
        <3>1. Get(f) = IF bit * p # 0 THEN 1 ELSE 0
            BY <1>3, <2>4, <2>9 DEF Get
        <3>2. bit = 0 \/ bit = 1
            BY <2>6
        <3>3. Get(f) = bit
            BY <2>2, <3>1, <3>2
        <3> QED BY <2>5, <2>9, <3>3 DEF ByteGetters
    <2> QED BY <2>7, <2>8, <2>9 DEF ByteGetters
<1> QED BY <1>2, <1>3

\* A setting that no failure and no setter of its whole register has disturbed is
\* read back, in each of the sensor's registers and whatever else was set there:
\* as it was set, but for the 1 of getAuxVDDIOLevel, which is read back as 128.
THEOREM SettingsAreHeld == RegisterSpec => []SettingsHold
<1>1. RegisterInit => RegistersInv
    <2> SUFFICES ASSUME RegisterInit PROVE RegistersInv
        OBVIOUS
    <2>1. byte \in Nat
        BY ArgumentsAreNumbers DEF RegisterInit
    <2>2. asked \in [FieldsOfRegister(reg) -> Int] /\ \A f \in DOMAIN asked : asked[f] = Unknown
        BY DEF RegisterInit, Unknown
    <2> QED BY <2>1, <2>2 DEF RegistersInv, FieldsHold
<1>2. RegistersInv /\ [RegisterNext]_registerVars => RegistersInv'
    <2> SUFFICES ASSUME RegistersInv, [RegisterNext]_registerVars PROVE RegistersInv'
        OBVIOUS
    <2>1. CASE UNCHANGED registerVars
        BY <2>1 DEF registerVars, RegistersInv, FieldsHold
    <2> QED BY <2>1, SetKeeps, TriggerKeeps DEF RegisterNext
<1> QED BY <1>1, <1>2, HeldIsRead, PTL DEF RegisterSpec

=============================================================================
