----------------------------- MODULE MpuRegisters -----------------------------
(***************************************************************************)
(* The settings of the motion sensor (src/components/MPU6050/MPU6050.cpp): *)
(* fields of a few bits in registers of a byte, or words, that setters     *)
(* change by reading the register, replacing the field, and writing it     *)
(* back (src/components/I2Cdev/I2Cdev.cpp).  Read and write are separate   *)
(* transactions that may fail, and no setter notices.                      *)
(*                                                                         *)
(* The behaviours follow one register, any of them, through calls of the   *)
(* setters that have a field in it.                                        *)
(***************************************************************************)
EXTENDS Integers

CONSTANTS
    Written,  \* arguments of the setters: a uint8_t, or a word
    Strays    \* what a read that failed may leave in the byte read

MaxWord == 65535

ASSUME RegistersAssumption == Written \subseteq 0 .. MaxWord /\ Strays \subseteq 0 .. 255

-----------------------------------------------------------------------------
(* The fields: name, register, number of the highest bit, bits.  A field of *)
(* 8 bits is the whole register, one of 16 a register and the next.         *)

RateFields == {
    <<"AuxVDDIOLevel", 1, 7, 1>>, <<"Rate", 25, 7, 8>>,
    <<"ExternalFrameSync", 26, 5, 3>>, <<"DLPFMode", 26, 2, 3>>}

GyroAccelFields == {
    <<"FullScaleGyroRange", 27, 4, 2>>, <<"AccelXSelfTest", 28, 7, 1>>,
    <<"AccelYSelfTest", 28, 6, 1>>, <<"AccelZSelfTest", 28, 5, 1>>,
    <<"FullScaleAccelRange", 28, 4, 2>>}

FreefallFields == {
    <<"DHPFMode", 28, 2, 3>>, <<"FreefallDetectionThreshold", 29, 7, 8>>,
    <<"FreefallDetectionDuration", 30, 7, 8>>}

MotionFields == {
    <<"MotionDetectionThreshold", 31, 7, 8>>, <<"MotionDetectionDuration", 32, 7, 8>>,
    <<"ZeroMotionDetectionThreshold", 33, 7, 8>>,
    <<"ZeroMotionDetectionDuration", 34, 7, 8>>}

FifoEnableFields == {
    <<"TempFIFOEnabled", 35, 7, 1>>, <<"XGyroFIFOEnabled", 35, 6, 1>>,
    <<"YGyroFIFOEnabled", 35, 5, 1>>, <<"ZGyroFIFOEnabled", 35, 4, 1>>,
    <<"AccelFIFOEnabled", 35, 3, 1>>, <<"Slave2FIFOEnabled", 35, 2, 1>>,
    <<"Slave1FIFOEnabled", 35, 1, 1>>, <<"Slave0FIFOEnabled", 35, 0, 1>>}

MasterFields == {
    <<"MultiMasterEnabled", 36, 7, 1>>, <<"WaitForExternalSensorEnabled", 36, 6, 1>>,
    <<"Slave3FIFOEnabled", 36, 5, 1>>, <<"SlaveReadWriteTransitionEnabled", 36, 4, 1>>,
    <<"MasterClockSpeed", 36, 3, 4>>}

SlaveAddressFields == UNION {{
    <<"SlaveAddress", 37 + 3 * num, 7, 8>>,
    <<"SlaveRegister", 38 + 3 * num, 7, 8>>} : num \in 0 .. 3}

SlaveControlFields == UNION {{
    <<"SlaveEnabled", 39 + 3 * num, 7, 1>>, <<"SlaveWordByteSwap", 39 + 3 * num, 6, 1>>,
    <<"SlaveWriteMode", 39 + 3 * num, 5, 1>>,
    <<"SlaveWordGroupOffset", 39 + 3 * num, 4, 1>>,
    <<"SlaveDataLength", 39 + 3 * num, 3, 4>>} : num \in 0 .. 3}

Slave4Fields == {
    <<"Slave4Address", 49, 7, 8>>, <<"Slave4Register", 50, 7, 8>>,
    <<"Slave4OutputByte", 51, 7, 8>>, <<"Slave4Enabled", 52, 7, 1>>,
    <<"Slave4InterruptEnabled", 52, 6, 1>>, <<"Slave4WriteMode", 52, 5, 1>>,
    <<"Slave4MasterDelay", 52, 4, 5>>}

InterruptPinFields == {
    <<"InterruptMode", 55, 7, 1>>, <<"InterruptDrive", 55, 6, 1>>,
    <<"InterruptLatch", 55, 5, 1>>, <<"InterruptLatchClear", 55, 4, 1>>,
    <<"FSyncInterruptLevel", 55, 3, 1>>, <<"FSyncInterruptEnabled", 55, 2, 1>>,
    <<"I2CBypassEnabled", 55, 1, 1>>, <<"ClockOutputEnabled", 55, 0, 1>>}

InterruptFields == {
    <<"IntEnabled", 56, 7, 8>>, <<"IntFreefallEnabled", 56, 7, 1>>,
    <<"IntMotionEnabled", 56, 6, 1>>, <<"IntZeroMotionEnabled", 56, 5, 1>>,
    <<"IntFIFOBufferOverflowEnabled", 56, 4, 1>>, <<"IntI2CMasterEnabled", 56, 3, 1>>,
    <<"IntDataReadyEnabled", 56, 0, 1>>}

DelayFields == {
    <<"ExternalShadowDelayEnabled", 103, 7, 1>>}
    \cup {<<"SlaveDelayEnabled", 103, num, 1>> : num \in 0 .. 4}
    \cup {<<"SlaveOutputByte", 99 + num, 7, 8>> : num \in 0 .. 3}

DetectionFields == {
    <<"AccelerometerPowerOnDelay", 105, 5, 2>>,
    <<"FreefallDetectionCounterDecrement", 105, 3, 2>>,
    <<"MotionDetectionCounterDecrement", 105, 1, 2>>}

UserControlFields == {
    <<"FIFOEnabled", 106, 6, 1>>, <<"I2CMasterModeEnabled", 106, 5, 1>>,
    <<"SPIEnabled", 106, 4, 1>>}

\* (mutant) a clock source of four bits
PowerFieldsWide == {
    <<"SleepEnabled", 107, 6, 1>>, <<"WakeCycleEnabled", 107, 5, 1>>,
    <<"TempSensorEnabled", 107, 3, 1>>, <<"ClockSource", 107, 3, 4>>}

PowerFields == {
    <<"SleepEnabled", 107, 6, 1>>, <<"WakeCycleEnabled", 107, 5, 1>>,
    <<"TempSensorEnabled", 107, 3, 1>>, <<"ClockSource", 107, 2, 3>>}

StandbyFields == {
    <<"WakeFrequency", 108, 7, 2>>, <<"StandbyXAccelEnabled", 108, 5, 1>>,
    <<"StandbyYAccelEnabled", 108, 4, 1>>, <<"StandbyZAccelEnabled", 108, 3, 1>>,
    <<"StandbyXGyroEnabled", 108, 2, 1>>, <<"StandbyYGyroEnabled", 108, 1, 1>>,
    <<"StandbyZGyroEnabled", 108, 0, 1>>}

TrimFields == {
    <<"OTPBankValid", 0, 0, 1>>, <<"XGyroOffsetTC", 0, 6, 6>>,
    <<"YGyroOffsetTC", 1, 6, 6>>, <<"ZGyroOffsetTC", 2, 6, 6>>,
    <<"XFineGain", 3, 7, 8>>, <<"YFineGain", 4, 7, 8>>, <<"ZFineGain", 5, 7, 8>>,
    <<"DeviceID", 117, 6, 6>>}

\* the accelerometer's by the device id: below 0x38 it is an MPU6050
OffsetFields == {
    <<"XAccelOffset", 6, 15, 16>>, <<"YAccelOffset", 8, 15, 16>>,
    <<"ZAccelOffset", 10, 15, 16>>, <<"XAccelOffset", 119, 15, 16>>,
    <<"YAccelOffset", 122, 15, 16>>, <<"ZAccelOffset", 125, 15, 16>>,
    <<"XGyroOffset", 19, 15, 16>>, <<"YGyroOffset", 21, 15, 16>>,
    <<"ZGyroOffset", 23, 15, 16>>}

DmpFields == {
    <<"IntPLLReadyEnabled", 56, 2, 1>>, <<"IntDMPEnabled", 56, 1, 1>>,
    <<"DMPEnabled", 106, 7, 1>>}

DmpConfigFields == {<<"DMPConfig1", 112, 7, 8>>, <<"DMPConfig2", 113, 7, 8>>}

Fields ==
    UNION {RateFields, GyroAccelFields, FreefallFields, MotionFields, FifoEnableFields,
           MasterFields, SlaveAddressFields, SlaveControlFields, Slave4Fields,
           InterruptPinFields, InterruptFields, DelayFields, DetectionFields,
           UserControlFields, PowerFields, StandbyFields, TrimFields, OffsetFields,
           DmpFields, DmpConfigFields}

\* bits that the sensor clears once it has done what they ask for
ResetBits == {
    <<"resetGyroscopePath", 104, 2>>, <<"resetAccelerometerPath", 104, 1>>,
    <<"resetTemperaturePath", 104, 0>>, <<"resetFIFO", 106, 2>>,
    <<"resetI2CMaster", 106, 1>>, <<"resetSensors", 106, 0>>, <<"resetDMP", 106, 3>>,
    <<"reset", 107, 7>>}

FieldsOfRegister(r) == {f \in Fields : f[2] = r}

-----------------------------------------------------------------------------
(* I2Cdev: the arithmetic of its masks and shifts *)

\* b & (1 << bitNum): the bit stays where the register has it
readBit(b, bitNum) == ((b \div 2^bitNum) % 2) * 2^bitNum

readBits(b, bitStart, length) == (b \div 2^(bitStart - length + 1)) % 2^length

\* b | (1 << bitNum), or b & ~(1 << bitNum)
writeBit(b, bitNum, data) == b - readBit(b, bitNum) + IF data # 0 THEN 2^bitNum ELSE 0

writeBits(b, bitStart, length, data) ==
    LET shift == bitStart - length + 1
    IN  b + ((data % 2^length) - readBits(b, bitStart, length)) * 2^shift

-----------------------------------------------------------------------------
VARIABLES
    reg,    \* the register
    byte,   \* what it holds, for OffsetFields with the register after it
    asked   \* history: what each of its fields was last set to, or Unknown

Unknown == -1

registerVars == <<reg, byte, asked>>

RegisterInit ==
    /\ reg \in {f[2] : f \in Fields}
    /\ byte \in Strays
    /\ asked = [f \in FieldsOfRegister(reg) |-> Unknown]

\* the getters of one bit that return the byte; all others make a bool of it
ByteGetters == {"AuxVDDIOLevel", "OTPBankValid"}

\* a getter
Get(f) ==
    CASE f[4] # 1 -> readBits(byte, f[3], f[4])
      [] f[4] = 1 /\ f[1] \in ByteGetters -> readBit(byte, f[3])
      [] f[4] = 1 /\ f[1] \notin ByteGetters -> IF readBit(byte, f[3]) # 0 THEN 1 ELSE 0

\* What a setter writes: whole registers as they are, fields into the byte read.
Merged(f, b, v) ==
    CASE f[4] = 1 -> writeBit(b, f[3], v)
      [] f[4] = 8 -> v % 2^8
      [] f[4] = 16 -> v
      [] OTHER -> writeBits(b, f[3], f[4], v % 2^8)

ReadsFirst(f) == f[4] \notin {8, 16}

\* the value that a setter was asked for
Meant(f, v) == IF f[4] = 1 THEN IF v # 0 THEN 1 ELSE 0 ELSE v % 2^f[4]

\* what is still known once f is written: of the other fields all, when only f's
\* bits were changed in the byte read, and else nothing
AskedAfter(f, v, kept) ==
    [g \in DOMAIN asked |->
        IF g = f THEN Meant(f, v)
        ELSE IF kept /\ ReadsFirst(f) /\ ReadsFirst(g) THEN asked[g] ELSE Unknown]

\* A read that fails is not noticed: readBytes returns its length.
Set(f, v) ==
    /\ \/ byte' = Merged(f, byte, v) /\ asked' = AskedAfter(f, v, TRUE)
       \/ /\ ReadsFirst(f)
          /\ \E b \in Strays : byte' = Merged(f, b, v) /\ asked' = AskedAfter(f, v, FALSE)
       \/ UNCHANGED byte /\ asked' = [asked EXCEPT ![f] = Unknown]
    /\ UNCHANGED reg

\* reset clears every register; 107 is left with SLEEP set
AfterReset(name, b) == IF name = "reset" THEN 64 ELSE b

Trigger(name, bit) ==
    /\ \/ /\ byte' = AfterReset(name, writeBit(byte, bit, 0))
          /\ asked' = IF name = "reset" THEN [g \in DOMAIN asked |-> Unknown] ELSE asked
       \/ /\ \E b \in Strays : byte' = AfterReset(name, writeBit(b, bit, 0))
          /\ asked' = [g \in DOMAIN asked |-> Unknown]
       \/ UNCHANGED <<byte, asked>>
    /\ UNCHANGED reg

RegisterNext ==
    \/ \E f \in FieldsOfRegister(reg), v \in Written : Set(f, v)
    \/ \E t \in ResetBits : t[2] = reg /\ Trigger(t[1], t[3])

RegisterSpec == RegisterInit /\ [][RegisterNext]_registerVars

-----------------------------------------------------------------------------
(* Properties *)

\* A field that was set, and not disturbed by a failed transaction or a setter of
\* the whole register since, is read back as it was set, whatever the setters of
\* the other fields in its register did, and whatever failed before.  But the 1 of
\* getAuxVDDIOLevel is read back as 128, not as the "1=VDD" of MPU6050.cpp:79.
SettingsHold ==
    \A f \in DOMAIN asked : asked[f] # Unknown =>
        Get(f) = IF f[1] = "AuxVDDIOLevel" THEN asked[f] * 128 ELSE asked[f]

=============================================================================
