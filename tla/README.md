# Alarm clock firmware: TLA+ specifications

Specifications of the application code of this repository: an ESP32 firmware for
an alarm clock that plays a ring, can be deferred with a button, takes its time
from a DS3231 clock chip, and has a buzzer and a shake detector on an MPU6050.
The modules are model-checked with TLC; the results that matter most are proved
with TLAPS for every value of the constants.

Paths below are relative to `src/`. Most of the repository is vendored (Arduino
core, BLE, SPI, Adafruit graphics, u8glib) or generated (`build/`). Its own logic
is in `main/main.cpp`, `main/play_mp3.c` and the components `DS3231`, `Buzzer` and
`IMU`. Of the vendored code those parts are modelled that this logic runs through:
the motion sensor's driver (`MPU6050`, `I2Cdev`), `Wire`, and the ESP32's I2C driver.

`app_main` is the scaffold of a program in progress: at this commit it starts the
music pipeline and the three tasks of the alarm control; `init_alarm`,
`task_check_alarm` and `test_play_music` are complete, but their calls are
commented out. They are specified as what they do when they are called.

## 1. Inventory

### Alarm control (`main/main.cpp`)
* **State.** Two plain ints, `buffer_status` (seconds of silence left, 0..4) and
  `count` (presses), shared by all tasks without a lock.
* **Operations.** `task_minus_bufer` takes one unit a second and clamps at 0;
  `task_simalate_button` samples GPIO 18 and, while it is 0, adds a unit every
  200 ms, clamps at 4, and counts; `task_control_alarm` prints "ring is playing"
  when the budget is 0 and "ring is suspended" otherwise, and suspends itself for
  good after "completed" (more than 20 presses); `task_check_alarm` stores 3 when
  the clock chip has raised its alarm.
* **Interaction.** Only the shared ints. FreeRTOS tasks of priority 1 on a dual core
  chip with a 100 Hz tick. The player's pipeline is started beside them and shares
  nothing with them.
* **Hard.** Unlocked read-modify-writes with a clamp of their own: `build/main/main.o`
  (`-Og`) stores the decremented and the incremented value before the clamp, so -1
  and 5 are visible to the other tasks. A store of 3 that an update under way takes
  back. Delays of 1 s and 5 s during which presses are not seen.
* **Correct when.** No interleaving leaves a value outside 0..4 behind; the reported
  state follows from the budget; a held button silences and then completes; a budget
  left alone drains; an alarm's seconds are used up one a second and not otherwise;
  the session completes neither early nor while it rings.

### Music player (`main/play_mp3.c`, `test_play_music` in `main/main.cpp`)
* **State.** `mp3_start`, `mp3_end`, `mp3_pos`, `mp3_pos_ring`, `mp3_pos_music`,
  `state_runing`, the pipeline handle and its elements.
* **Operations.** `init_play_mp3`, `start_music`, `pause_music_playing`,
  `resume_music`, the decoder's `mp3_music_read_cb`, the listener loop of
  `play_mp3_task`.
* **Interaction.** Three tasks on the same globals: the loop that chooses the
  track, the decoder's element task, the listener. The audio library (ADF) in
  between is only there as objects (`build/audio_pipeline/audio_element.o`): a pause
  waits up to 2 s for the element, whose answer the caller ignores; an element that
  has finished ignores pause and resume.
* **Hard.** A callback that reads three globals and advances one, while another task
  rewrites them; a time-out whose result nobody looks at; events lost at a full queue,
  which the element's statuses fill as well as its reports of the music;
  a pipeline that another task has still to create.
* **Correct when.** The decoder copies from inside one track; a resumed track skips
  nothing; `state_runing` names the track; the output's rate follows the decoder.

### RTC alarm (`components/DS3231/DS3231.cpp`, `init_alarm` and `task_check_alarm`)
* **State.** The chip's battery-backed status, control and alarm registers, the
  setting in flash.
* **Operations.** `begin`, `armAlarm1`, `clearAlarm1`, `setAlarm1`, `isAlarm1`: each
  a read and a write of a register in two I2C transactions. The other settings of the
  same registers: alarm 2, output, battery, 32 kHz, conversion, temperature.
* **Hard.** The chip raises flags between the two transactions; failed reads spin in
  `while (!Wire.available())`; failed writes go unnoticed; registers of an earlier
  session survive a reset; a missing setting is used uninitialised; the match bits of
  an alarm share its BCD bytes.
* **Correct when.** No alarm is lost; clearing one alarm does not clear the other;
  nothing of an earlier session stays armed; each alarm is reported; what is set reads
  back.

### RTC calendar (same file)
* Pure arithmetic: BCD, weekday, days and seconds since 2000 and 1970, `__DATE__`.
* **Correct when.** What is set reads back as the same date, weekday and time.

### Buzzer (`components/Buzzer/GBBBuzzer.cpp`)
* **State.** A queue of two requests, a binary semaphore, a static request, a static
  note of two entries.
* **Operations.** `playNoteIndex`, `playNoteLength`, `playMidiSound`, `waitComplete`,
  and the task `runTaskSound`.
* **Hard.** Requests dropped at a full queue without a word; a semaphore that counts
  no sounds; statics shared by the clients, and by a client and the player task.
* **Correct when.** Only notes of the requested array are played; a queued note stays
  as it was requested; whoever waits is released.

### Shake detector (`components/IMU/SensorIMU.cpp`)
* **State.** The sensor's FIFO and interrupt status; `fifoCount`, `mpuIntStatus`.
* **Operations.** The start of `task_imu`, and its loop: status, count, reset, wait,
  burst.
* **Hard.** The sensor fills and overflows the FIFO between any two transactions,
  after which everything read is misaligned. Nobody looks at whether the start failed.
* **Correct when.** No read from an empty FIFO; resynchronised after an overflow; the
  busy wait ends; a start that failed does not lead to the use of packets that were
  never read.

### Motion sensor driver (`components/MPU6050/MPU6050.cpp`, `components/I2Cdev/I2Cdev.cpp`)
* **State.** The sensor's registers and the motion processor's memory, both of which
  outlive a restart of the program.
* **Operations.** About 130 setters and getters of register fields; `initialize`,
  `dmpInitialize` with the upload of the processor's program in chunks, `setDMPEnabled`.
* **Hard.** A setter reads the register and writes it back; errors are logged and
  reported as success; `writeBit` writes back a local that was never set when its read
  fails; only the upload is verified.
* **Correct when.** A setter changes its field and no other; an upload reported as good
  is whole; a start without failures leaves the sensor running, cold or warm.

### Transport (`components/Wire/Wire.cpp`, `components/ESP_lib_arduino/esp32-hal-i2c.c`, `esp32-hal-cpu.c`)
* **State.** `TwoWire`'s transmit and receive buffers with index, length and queued
  count for each; the driver's command queue, sixteen hardware command slots, two FIFOs,
  stage, exit code and event group; the lock of the bus and the lock of the list of
  callbacks that a change of the CPU clock goes through.
* **Operations.** `beginTransmission`, `write`, `endTransmission`, `requestFrom`, `read`;
  `i2cAddQueue`, `i2cProcQueue`, `fillCmdQueue`, `fillTxFifo`, `emptyRxFifo`, the interrupt
  handler; `i2cInit`, `i2cApbChangeCallback`.
* **Interaction.** The task starts the controller and waits for bits of an event group,
  which the handler asks the FreeRTOS timer task to set. Handler and controller work on
  the same FIFOs. `i2cInit` and a clock change take the two locks in opposite order.
* **Hard.** A command list that must be refilled in the middle of a transfer; bytes of
  several reads in one FIFO; a time-out that races the handler on the other core; event
  bits that come late or never; a retry of a queue that was half processed; locks that
  one call takes and another gives back; counts of a queue that the driver has dropped.
* **Correct when.** OK is told only of a transfer that was whole; an undisturbed one
  succeeds; the refused byte is named rightly; the clock does not change under a transfer;
  what a client reads is the last answer, and what goes over the bus is what it wrote.

### The rest
`PWM.cpp`, `lcd.cpp`, DS3232, SSD1306 and GFX, BLE and SPI, the other Arduino HALs, u8glib,
the build outputs: see "Not modelled". The repository's own tests do not reach any of this
code: `example_test.py` is the stock one of an SDK example.

## 2. Modules

| Module | Models | Extends |
|---|---|---|
| `AlarmControl` | the four tasks and `app_main` | |
| `AlarmSession` | abstract: what a session promises | |
| `AlarmSnooze` | the history of an alarm's seconds | `AlarmControl` |
| `MCAlarmTimed` | two stopwatches beside `AlarmControl` | `AlarmControl` |
| `Mp3Player` | loop, decoder callback, listener, pipeline | |
| `MCMp3Heard` | a record of the bytes decoded | `Mp3Player` |
| `RtcAlarm` | register transactions, `init_alarm`, `task_check_alarm`, the chip | |
| `RtcCalendar` | calendar arithmetic against a calendar walked day by day | |
| `RtcRegisters` | the clock chip's other registers | `RtcCalendar` |
| `MpuRegisters` | the motion sensor's register fields | |
| `MCDrivers` | one of the last three at a time | `RtcRegisters`, `MpuRegisters` |
| `Buzzer` | requests, queue, notes, player task, semaphore | |
| `ImuFifo` | the loop of `task_imu` against a sensor that overflows | |
| `ImuStart` | the start of `task_imu`, then its loop | `ImuFifo` |
| `I2cCommands` | command list and FIFOs, as operators | |
| `I2cTransfer` | a transfer: task, controller, handler, timer task | `I2cCommands` |
| `TwoWire` | the calls of one client | |
| `I2cLocks` | the client's call in the driver, and a clock change | `TwoWire` |
| `AlarmProofs` | theorems about the alarm's tasks | `AlarmSnooze`, `MCAlarmTimed` |
| `Mp3PlayerProofs` | theorems about the player | `MCMp3Heard` |
| `RtcProofs` | theorems about the clock | `RtcAlarm`, `RtcRegisters` |
| `BuzzerProofs` | theorems about the buzzer | `Buzzer` |
| `ImuProofs` | theorems about the sensor's loop, start and registers | `ImuStart`, `MpuRegisters` |
| `I2cQueueProofs` | lemmas about the operators of a transfer | `I2cTransfer` |
| `I2cTransferProofs` | theorems about a transfer | `I2cQueueProofs` |
| `I2cLocksProofs` | theorems about client and locks | `I2cLocks` |

`PROJECT.json` maps every definition to its lines. The operators marked "(mutant)" are
variants of a definition with a plausible bug. Nothing refers to them; they show, one
for each property a run checks, that the property can fail.

**AlarmControl.** `buffer_status`, `count` and `gpio` are the program's; `pc`, `reg`
and `sleep` are the tasks' program counters, registers and remaining ticks of
`vTaskDelay`. Each load and each store of a shared int is a step, in the order of the
build's object code; a step runs up to the next access or delay. `count` saturates at
`Limit + 1`, because the code only asks whether it exceeds `Limit`. `NvsInit` and
`NvsErase` keep the error paths of `app_main`; a failed `ESP_ERROR_CHECK` reboots, with
nothing started yet. `task_check_alarm` is the fourth task when `Alarms` is TRUE: it
looks (`AlarmLook`, the alarm may have been raised or not) and stores `Snooze`
(`AlarmStore`). With `Prompt` time passes only when all tasks sleep; without it a task may
be late by any amount.

**AlarmSnooze** runs the tasks of `AlarmControl` and keeps, for the latest alarm, which
tasks had loaded the budget before it (`late`), whether one of them has stored since
(`lost`), and how many seconds the minus task has taken since (`drains`).

**AlarmSession** has no tasks, no delays and no budget: ringing, deferred, completed;
`SessionPhase` maps the control task's program counter to it. `SessionSpec` says that
`AlarmControl` implements it.

**Mp3Player.** A pointer is the track it belongs to, the addresses come back through
`StartOf` and `EndOf` (the two files lie side by side, so that pointers of two tracks
give a size too large or negative, as in the program). `mp3_music_read_cb` is three
steps: size, copy, advance. `resume_music`'s stores are separate as well. The library is
external: commands are taken between two calls of the callback, and `MaxTimeouts` of its
waits may give up before the element has answered. The decoder's queue of events holds its
statuses (paused, running, finished) and its reports of the music; an event that finds it full
is lost, and `missed` remembers a report lost when no other was waiting. The listener takes an
event at a time and goes on after one that is not for it, or after an error (`ListenDecoder`,
`ListenOther`). `PipelineRun` keeps the race between
`start_music` and `play_mp3_task`: a null handle faults, an unlinked pipeline stays silent.
The teardown after the listener's loop is never reached and left out.

**RtcAlarm.** A register is the set of its bits. Every operation has a read and a write,
between which the chip's `Match1` and `Match2` may happen. `A1F` is raised whether or not
`A1IE` is set, as the chip does. Any transaction may fail, which `failed` remembers: a
write is lost, a read hangs, and when the write of the register's number was lost, another
register is read, so that an alarm may also be reported that never was. `getDateTime` and
the display change nothing here; `Drained` is the two tasks of `AlarmControl` that use the
budget up.

**RtcCalendar, RtcRegisters.** The driver's functions translated with their 8 and 16 bit
widths (its loops as rounds that stop where the loop does), a calendar that does midnight
after midnight, and the control, status, alarm and
temperature registers with their bits, one operation a step (what happens between the two
transactions of an operation is in `RtcAlarm`). `TimeRegisters` has the eight bytes that
`setDateTime` writes, the last of them over alarm 1's seconds: `TimeSet` calls it after the
alarm was set.

**MpuRegisters.** The fields are a table: name, register, highest bit, length. `Set` is a
setter on top of `writeBit`, `writeBits`, `writeByte` or `writeWord`, whose read may leave a
stray byte and whose write may be lost; `readBit` leaves the bit where the register has it, and
`Get` is what a getter makes of it, a bool but for the two that return the byte; `asked` remembers what a field was last set to, and
forgets it when a failure disturbed the field. A behaviour uses one register, since
registers do not touch each other.

**Buzzer.** `playMidiSound`'s two stores to its static request and its send are steps. Of
the notes that `playNoteLength` writes into its static array it is known which ones they
are, so that a change of a queued note can be seen.

**ImuFifo.** Bytes are counted, not named: `offset` is the place in its packet of the
oldest byte. A packet arrives at once; the sensor drops the oldest bytes when the FIFO
is full. `GetIntStatus`, `GetFIFOCount` and the rest are transactions of their own.

**ImuStart.** One step for each register operation of `initialize`, `dmpInitialize` and
`setDMPEnabled` that decides whether the sensor runs; `at` is where the start is, and
`"loop"` hands over to `ImuFifo`. `memory` says which byte of the image each cell of the
motion processor holds. The sensor begins cold, or warm: still running, with the image of
the last session. After a start that has not set its packet size the loop goes on with a size
of 0 (`TaskImuUnsized`): no count is too small, `getFIFOBytes` reads nothing of length 0
(`GetNoBytes`), and the local buffer that is used has never held a packet, round after round.

**I2cCommands, I2cTransfer.** A byte is known by where it belongs: entry of the queue and
position, with the number of times its address was shifted. `fillCmdQueue`, `fillTxFifo`
and `emptyRxFifo` are operators on the state of a transfer; the four actors run between
them. Their loops are rounds (`Rounds`: a function of the number of rounds made), as many as
can be needed, the last ones changing nothing; an entry of the queue is a step of the outer
loop and a block of 255 bytes one of the inner. The controller executes one command byte a step; the handler serves one interrupt
a step, the most urgent first, while the controller goes on. `mishaps` is a history of
what can spoil a transfer without a fault of the bus: an entry passed before all its
commands were listed, a queue resumed by the second attempt, a handler of the other core
that is late, stale event bits, a bus left busy.

**TwoWire, I2cLocks.** The object's three counts for either direction, its two buffers, and
the driver's queue as the object's calls fill it. `wrote`, `blame` and `skewed` are
histories: what the client meant to send, and the call that left the counts different from
the driver's queue. `I2cLocks` puts what happens between a call and its return on the two
locks, with `i2cInit` between two attempts, and runs `setCpuFrequencyMhz` beside it.

## 3. Runs

| Run | Shows |
|---|---|
| `control_safety` | four late tasks: `SettledInRange`, `AlarmHonoured`, `SuspendedIsJustified`, `SessionSpec` |
| `control_timed` | prompt tasks and the real delays: `LeftAloneDrains`, `HeldCompletes`, `HeldIsSilent` |
| `player` | the library answers, or gives up once: `CopyInsideTrack`, `NothingSkipped`, `ClockFollowsDecoder`, `HeldSelectsMusic` |
| `player_comment` | counterexample to `HeldPlaysMusic` |
| `alarm` | a bus that may fail: `NoAlarmLost`, `StaleNeverArmed`, `OtherFlagLostOnlyInWindow`, `AlarmReported` |
| `drivers` | `SetReadsBack` and `CountsDaysUpToLeap` (calendar), `RegistersReadBack` (clock chip), `SettingsHold` (motion sensor) |
| `calendar_month` | counterexample to `ParsesMonth` |
| `buzzer_client` | one client: `InsideSound`, `NobodyWaitsForNothing`, `NotesStay`, `WaitReturns` |
| `buzzer_header` | counterexample to `WaitsUntilCompleted` |
| `imu_start` | `NeverReadsEmpty`, `SizedTornOnce`, `UploadIsVerified`, `FailedStartIsQuiet`, `StartSucceeds`, `WaitEnds` |
| `i2c_transfer` | `TypeOK`, `SuccessIsWhole`, `CleanSucceeds`, `NakBlamed`, `ListWellFormed` |
| `i2c_locks` | `WireTypeOK`, `FreshReads`, `SentAsWritten`, `CountsAgree`, `StuckOnlyInEmbrace`, `ClockSteady` |

The type invariants of the modules that have a proof module are proved there (`TypeOK`, and
`LocksOK`, which says who owns each lock) and not run again; `BudgetInv`,
`StateNamesTrack` and `AlarmSilences` likewise.

### Bounds
* `control_safety`: the real cap of 4, the real 3 of an alarm, a limit of 3 and delays of 1
  to 3 ticks. Tasks may be late without bound, so only the order of the delays matters. The
  real limit of 20 only repeats what 3 shows (and the theorems hold for every limit).
  2.9 million states.
* `control_timed`: all of the program's own numbers, in units of 100 ms. The stopwatches
  stop one tick after their limits. The margins: a held button stays silent after 0.7 s
  (a press that may take three delays, and two more of two delays each, one of which the
  drain may overwrite); it completes after 6.7 s (that, one second and the five-second delay).
  The theorems hold for all delays (with 0.6 s, which is enough for the program's own, they
  would not). 1.8 million states. No alarm: `task_check_alarm` has no bound on when it stores.
* `player`: tracks of 1 and 2 chunks. A queue of two events, so that statuses alone can fill
  it, or a status and a report. One time-out. 1.9 million states. That the last chunk of a
  track may be a short one is left to the theorems, which hold for any lengths.
* `alarm`: no bound, the state is finite (30 148 states).
* `drivers`: every day the two-digit year can hold, and the seconds at which a minute, hour,
  half day or day carries; alarms on both sides of what their types depend on; every
  temperature; every register of the sensor with arguments that fit a field and that do not,
  and two stray bytes. An alarm is set once, since its registers depend on nothing before;
  the clock any number of times after it. 294 000 states.
* `buzzer_client`: one client, since the static request of `playMidiSound` does not allow
  two (and nothing in the repository calls it); a tune longer than a single note; two notes,
  to tell one from the other. 49 000 states.
* `imu_start`: a FIFO of 11 bytes and packets of 4, like 1024 and 28: no multiple of each
  other, with room for two packets and a partial one. An image of 9 in banks of 4 and chunks
  of 3, like 3062, 256 and 16: it ends inside a bank, and the end of a bank cuts a chunk. Three
  transactions may fail, two more than the properties that count failures allow; two suffice
  for a warm sensor to announce packets to a loop without a packet size. 30 000 states.
* `i2c_transfer`: six slots instead of 16 (the driver needs five for one entry and keeps one),
  blocks of 1 instead of 255, FIFOs of 3 instead of 32, so that writes of 5 need the list and
  the FIFO refilled more than once, at every remainder; reads of 2, so that the last byte that
  is not acknowledged follows another; addresses of 7 and 10 bits. Two entries, in any
  order. One kind of fault at a time, each once. 2.1 million states.
* `i2c_locks`: buffers of 3, two queued parts, requests of 0, 1 and 2 bytes, one change of
  the clock with callbacks of other peripherals about. 3.4 million states.

### Deadlock
Off in three runs. `drivers` and `calendar_month` end with the last year, or with a register that is
set; `i2c_locks` has a real deadlock, which `StuckOnlyInEmbrace` delimits: a task that
removes its callback while a clock change waits in it. Elsewhere it is checked: in
`AlarmControl` the finger, in `RtcAlarm` the chip, in `ImuFifo` the sensor may always act, and a
transfer that has ended may be followed by the next. The task that hangs in
`while (!Wire.available())` is therefore no deadlock of the model; it is why `AlarmReported`
is claimed only while no transaction has failed.

### Fairness
* `Mp3Player`, `MCMp3Heard`: weak fairness of each of the three tasks. They block or delay
  in each round and FreeRTOS serves them by priority; the element task is stopped only by
  its own state.
* `RtcAlarm`: weak fairness of the one task that runs `init_alarm` and then
  `task_check_alarm`. None of the chip: alarms may never come.
* `Buzzer`: the player task, and the calls that a client has begun. A client need not call.
* `ImuStart`: the task, in its start and in its loop, and the sensor, which produces packets
  at a fixed rate once its processor runs; `WaitEnds` is claimed of a sensor that runs, and
  would not hold of one that stops.
* `AlarmControl` needs none: its promises about progress are bounds on a clock
  (`MCAlarmTimed`), stronger than "eventually". They are stated as invariants of two
  stopwatches, which do get that far: the mutants of these properties are only found out
  once the stopwatch has passed the limit.
* `I2cTransfer` and `I2cLocks` claim no liveness. That a transfer ends follows from the
  time-outs of its wait, which the model allows at any time when nothing else can happen.

## 4. What the code does not do

Disagreements with the repository's own words, each with a counterexample:
* `player_comment`: the loop's comment says that a held button "will play music". After the
  ring has finished, `audio_pipeline_resume` is ignored, `state_runing` says music, nothing
  plays, and the loop never tries again.
* `calendar_month`: the commented-out line above it makes January of "Jan"; the code that
  replaced it makes June.
* `buzzer_header`: `waitComplete` promises to wait until the sound is completed; it returns
  at once on the token of an earlier sound.

Met on the way, stated as an exception in a property, in the hazards, or only here:

Alarm control and player
* The control task goes past its first loop ("wait semaphore") without a press when it
  reads the -1 that the minus task is about to clamp. This is the exception in
  `SuspendedIsJustified`.
* A press can be lost to the drain; `HeldIsSilent` has the time for one more. The 3 of an
  alarm can be lost to an update under way (`AlarmHonoured`).
* `start_music` runs a pipeline that may not exist yet.
* A report of the music that finds the decoder's queue full of statuses is lost for good: the
  output keeps the rate of the other track until the next switch. This is the exception in
  `ClockFollowsDecoder`.

Clock chip
* `init_alarm` uses `size_require` and the setting uninitialised when the flash has none,
  and ignores the setting's `status`.
* `unixtime` is off by one day in leap years: one too many in February, one too few from
  March (`CountsDaysUpToLeap` states it exactly).
* `clearAlarm1` clears an alarm 2 that is raised between its two transactions. `setBattery`
  clears `INTCN`, so that the alarm pin stays silent.
* `setDateTime` writes one register too many: the number of the clock's first register, 0,
  over the seconds of alarm 1 and the bit that says to ignore them. `getAlarm1` returns a
  weekday 40 too high; `getAlarmType1` is wrong for ignored minutes and seconds from 48 and an
  ignored day from 16; `readTemperature` gives 256 degrees too many below zero
  (`RegistersReadBack` states all four as its exceptions).
* `task_check_alarm` polls the alarm's flag whatever its interrupt is: when the flash cannot
  be opened, `init_alarm` has disarmed the old alarm (`StaleNeverArmed`), which is reported
  all the same when it comes.

Buzzer
* Two clients tear the static request; `playNoteLength` overwrites the note that a queued
  request points to (`NotesStay` has the client that waits).

Motion sensor
* `SensorIMU.cpp:90` says that the count lets it read further packets at once; it never
  uses the decremented count, and waits for the next interrupt.
* `devStatus` and `dmpReady` are not consulted. With a failed upload and a lost reset, a warm
  sensor announces packets to a task whose packet size is 0: it reads none, and tests a local
  buffer that was never filled for a shake (`FailedStartIsQuiet` says what it takes). A lost
  `setDMPEnabled` leaves a task that waits silently.
* The image of an earlier session hides a chunk that was written into the wrong bank
  (`UploadIsVerified` asks for a cold sensor).
* The comment at `MPU6050.cpp:3897` names `SIGNAL_PATH_RESET`; the write goes to `USER_CTRL`.
* `writeBit` writes back a local that was not set when its read failed; `I2Cdev`'s writes
  always return true, since its `ESP_ERROR_CHECK` is redefined to log only. Its `readWords`
  reads one word whatever the length.
* `getAuxVDDIOLevel` returns 128 for 1, where the comment at `MPU6050.cpp:79` has "0=VLOGIC,
  1=VDD": `readBit` does not shift the bit down (`SettingsHold` states it as its exception).
  `setSlaveDelayEnabled` does not bound its number.
* `PID` starts its count anew while the error is above 1000. The `setZAccelOffset` before it
  overwrites the bit 0 that it preserves.
* Two drivers use the same peripheral and pins: `I2Cdev::init` that of ESP-IDF, `Wire` that of
  the Arduino HAL.

Transport
* The second attempt after a busy bus finds the queue as the first has left it, with addresses
  shifted and entries marked as sent (`"resumed"`).
* `fillTxFifo` moves `queuePos` past entries whose commands are still to be listed, against the
  comment at `esp32-hal-i2c.c:499` ("completely processed") (`"skipped"`). This takes no fault,
  only a queue that is longer than the list (`SkipsNeedRefills`).
* A handler that is still at work on the other core can end the next transfer as a success
  (`"late"`); event bits that come late make the next one fail (`"stale"`).
* After an `endTransmission` that failed the object goes on counting what the driver has
  dropped: with reads queued the next answer is misread, and more than the buffer holds may be
  offered to be read. `requestFrom` of no bytes does the reverse, it forgets what the driver
  still holds. `CountsAgree` says how each leaves the counts; `FreshReads`, `SentAsWritten` and
  the bound on `rx.length` in `WireTypeOK` do not speak of the calls that begin with them
  (`blame`, `skewed`).
* `i2cInit` and a change of the clock can wait for each other for ever (`Embrace`). The clock
  may change under a first transfer, which installs its callback too late, and when the new
  clock is below 3 MHz.

## 5. Proofs

Constants are arbitrary within their assumptions (`ControlAssumption`, `PlayerAssumption`,
`ImuAssumption`, `StartAssumption`, `BuzzerAssumption`, `WireAssumption`, `LocksAssumption`,
`CommandsAssumption`, `CalendarAssumption`, `ClockAssumption`, `RegistersAssumption`), which the
runs evaluate. A theorem that needs more states it as a hypothesis; the runs' values satisfy each of them.

**AlarmProofs.** `SettledInRange` is not inductive: that both tasks sleep says nothing
of the registers they loaded before. `BudgetInv` adds who owns a value out of range: -1 is
in memory only while the minus task is at its clamp and has not slept (no one else can
store -1, since what the button task loaded is at least -1 and it adds one), `Cap + 1`
only while the button task is at its clamp, and the registers hold values whose update is
again in range (`RegistersSettled`); `CreatedOnce` keeps `app_main` from starting a task
twice. Then a late store can only put back a value that its own owner, or nobody, has to
clamp; the store of an alarm is in range by itself. From it follow `TypeCorrect`,
`SettledBudget` and `VerdictsJustified`. `ImplementsSession` needs one more invariant: the
control task checks the count only after it has reported "suspended".

*History of an alarm.* A step of `AlarmSnooze` is a step of `AlarmControl` (`StepOfControl`), so that its
invariant carries over. `AlarmHonoured` becomes inductive with `UpdatesHonour`: an update
begun after the alarm has loaded what the alarm gave less what was drained since, and its
clamp to 0 comes only when everything is drained.

*The clock.* The three bounds of `MCAlarmTimed` hold for all delays, not only the program's
(`Prompt` is their hypothesis: a late task keeps no bound). `Asleep` says how long each task
can sleep in each place. `Lasting` is a ranking: a budget of b lasts another
(b - 1) whole delays of the minus task and what it still sleeps, and that together with the
time since the last press never exceeds `DrainTime`; a value loaded and not yet stored counts
like one in memory. An alarm's store is no press, hence `~Alarms`. `HeldInv`: while the button
is down, the time it has been down and the time to the next press add up to an odd number of
delays, which tells how many presses there were; what the budget is then follows from the
place of the last two presses in the minus task's second. `Paced` (a second is more than four
button delays, the cap at least 2) is what this needs, and `Enough` (the first suspension
lasts longer than all presses up to `Limit`) what `HeldCompletes` needs besides.

**Mp3PlayerProofs.** As long as no wait has given up, `Handshake` says that the element stands
still, or has not got beyond its answer, while main rewrites the globals, and `Positions`
that each saved position and the current one lie in their track. `Reported` follows the rate
on its way: at the decoder, as an event somewhere among the statuses in the queue, in the
listener's hand, or at the output, one of which is always right, unless a report was lost
to a full queue and none has come since (`missed`, which `ClockIsRight` states as its
exception). `Heard` adds, for `NothingSkipped`, that no position is
beyond what the decoder has been given.

**RtcProofs.** *The alarm.* `NoAlarmLost` is inductive only with two more parts: an operation on the
control register has read control bits, and nothing is owed outside of the loop. The
register operations are lemmas of their own (`ReadStep`, `ControlStep`, `StatusStep`), used
at every place that calls them. `OtherFlagKept` is an action property from the same
invariant. `NothingStaleArmed` holds while no transaction has failed: a lost write of
`armAlarm1(false)` keeps the old alarm armed, a lost write of the registers arms it again.

*The calendar.* `DateInv` says which day a date is: `YearStart` and `MonthStart`, the days
before a year of the century and before a month of its year, in closed form. Midnight keeps it
(`MonthsFollow`, `YearsFollow`: each month and year begins where the last one ends), and the loops of
`setDateTime` undo it (`TakesYears`, `TakesMonths`: by `Induct`, after k rounds the loop stands at
year k with the days since then, until it is at the year sought, where it stays). The rest is
arithmetic of division: two digits survive their BCD byte (`DigitsReadBack`), a time of day its
three quotients (`TimeReadsBack`), and `dow` counts whole weeks more or less than the calendar
does (`WeekdayIsRight`). Both theorems hold up to the end of 2099, where the chip's two
digits of the year end (`CalendarAssumption`), and for every second of a day.

*The other registers.* `ClockInv` says in terms of bits what `SettingsKept` says of the readers, and
that an alarm's registers are those of the request that was last made, except that
`setDateTime` leaves alarm 1 with its own seconds and the bit that ignores them. `ChangesOneBit` is the
lemma it rests on: setting one bit changes no other, nor the two bits of the square wave's
rate; `StatusIsWritten` that a write to the status register, whatever flags it clears, leaves
`EN32kHz` as written. How an alarm reads back follows from `ValueReadsBack`: with bit 7 set,
two decimal digits n become n + 80, and of that sum `MarkReadsBack` finds the two bits that
`getAlarmType` looks at. `RegistersAreReadBack` holds for every alarm a caller may set
(`ClockAssumption`), every temperature of ten bits and any number of calls of `setDateTime`,
but for the four differences that section 4 names.

**BuzzerProofs.** For one client (`OneClient`, an assumption of each theorem). `Whole` says that
a pointer and the length next to it belong together wherever they are: in the static
request, the queue, the player. `Owed` says that a client that may wait has a token or a
sound to come; `Matched` that a patient client has exactly one, which is why its note cannot
be overwritten.

**ImuProofs.** *The loop.* `FifoInv`: the count that was checked, and what is left of a burst, never
exceed what the FIFO holds, since only a reset takes bytes away from under the task and it
is the task's own; the FIFO is misaligned, or a packet torn, only while the overflow that
did it is still pending in the interrupt status or in the copy the task has read, or
while the torn packet is in use; and a burst begins with nothing torn since the reset. The
overflow bit is what makes this inductive: the count alone would not tell.

*The start.* `StartInv`: `LoopInv` of the loop, `Position` and `Trace` (what each register holds at each
step of the start, in terms of the failures so far), `Memory` (while nothing has failed the
chunks up to `i` are in their cells and the rest is untouched; after one failure, the chunk
in hand is whole in its place, or the place it should be in differs from the image, and the
comparison sees it), and `Failed` (a start that failed, by one failure, leaves a quiet sensor). `LoopInv` is
`FifoInv` when the task has its packet size, since the start leaves the loop's variables as a
reset of the FIFO leaves them. Without one (`Unsized`) the loop reads nothing and tests
a buffer that is no packet, round after round: `NoPacket` says that what it uses there is never a
packet; `LoopResynchronises` states both cases. The cells of two
positions differ by the arithmetic of division, whose lemmas come first (`DivModUnique`,
`DivModNext`, `CellsDiffer`): the cells of a lost or misplaced chunk are therefore those it
is compared with.

*The registers.* `RegistersInv` is `SettingsHold` with its types; what carries it is arithmetic.
A byte is taken in three parts, above a field, the field and below it (`ThreeParts`), and what
`writeBits` and `writeBit` change is the part in the middle (`Replaced`), so that a field that lies
above or below reads as before (`FieldAbove`, `FieldBelow`). `FieldsApart` checks, register by
register, that no two fields which are read before they are written overlap, and that each lies within
its byte; `ResetBitsApart` that the bits which reset a part of the sensor lie outside all of
them. The theorem holds for any byte that a failed read leaves and any argument of a setter up
to 16 bits; `readBit` leaves a bit in its place in the byte, which is a
1 again in a getter that returns `bool`, and 128 in `getAuxVDDIOLevel`.

**Induction over the numbers.** The library's induction takes the predicate as an operator, which
the provers cannot instantiate. In the three modules that need it, it is a set that is closed under
successor (`Induct`), which they can; `Greatest` and, for the loops of a transfer, `Looped` (what a
loop's rounds do not leave, the loop does not leave) follow.

**I2cLocksProofs.** `LocksInv`: the owner of each lock follows from the two program counters,
and a change that has locked the bus finds its callback still installed when it comes to
unlock it, since the client cannot get past the lock to remove it. It covers any number of
changes, and callbacks of others or none.

*The client's counts.* `WireInv` is the invariant for `WireTypeOK`, `CountsAgree`,
`FreshReads` and `SentAsWritten`. The counts of the object are compared with sums over the
driver's queue; what a call does to a sum (one more entry, the queue dropped) is proved by
`Induct` on the length of the queue. That the sums agree is not enough: `ReadsTile` and
`WritesApart` say that then each entry lies where the ones before it end, so that a write
cannot overwrite bytes that are queued; `Called` that a call which began with right counts
keeps them until it returns, and which way they are wrong after a failed end or an empty
request (`blame`); `Kept` that an answer stays whole while it is read.

`WaitsOnlyInEmbrace` is the safety part of `StuckOnlyInEmbrace`: in every state either one of
the two tasks finds the guard of its next step true, or they are in the embrace.

**I2cQueueProofs, I2cTransferProofs.** *Positions.* `TypeOK` contains what the C code needs to stay inside its
arrays: positions within the length of an entry, command indices below `Slots`, bytes in each
FIFO up to `FifoLen`. Each of the loops has a lemma that names the states its rounds go
through, and a type that the rounds keep; `TypeInv` adds where the handler is. The hard place is
`fillTxFifo`: the second byte of a ten bit address waits until it fits, and data goes only as
far as the FIFO has room at that moment.

*The list.* `ListInv` is stronger than `ListWellFormed`, which looks at one moment of
one actor: unless the queue was resumed, every entry from `queuePos` on gets its commands in
order and each START with its address; and whatever happened, the last entry of the queue
stops. A pass of `fillCmdQueue` goes through `Round` (the list so far is well formed and
ends in the middle of an entry), `Written` (the entry is complete) or `Waiting` (no room for a START
with its address: the list is stretched by an empty command), and `PassEnds` says that it ends in STOP or END at the place
where `done` is set. The FIFO loops do not touch the flags (`fillTxFifoFlags`,
`emptyRxFifoFlags`), so that only `fillCmdQueue` and a new transfer change what the
invariant speaks of. The theorem says more than the run's property:
`OnlyResumingBreaksLists` needs no hypothesis on any mishap but the resumed queue.

`SkipsNeedRefills` is the other way
round: once the list holds the commands of all entries (`EachListed`), as it does from the start when
they fit the slots, no step skips an entry.

*The bytes.* This theorem and the two after it are about transfers whose history has no deceptive
mishap: no entry skipped, no queue resumed, no handler late. `SuccessMeansWhole` is about the data of all entries at once. `Script` says where in
the transfer each event of each entry lies; `Prepared` that the recursion `Transfer` of the model
is such a script. Everything between queue and bus is then a window of that script, which nothing but
its two edges tell apart: the transmit FIFO holds the writes from `sent` up to the last byte put
(`TxOf`), the receive FIFO the reads from the last byte stored up to `sent` (`RxOf`), `queuePos`
is not past an entry with bytes to move (`PlaceOf`), and the list of commands is a program that
takes the bus from `sent` to the last event listed (`ListOf`, `Program`, `Runs`). One step of
the controller moves `sent` in all windows together; a pass of `fillCmdQueue`, `fillTxFifo` or
`emptyRxFifo` moves one edge. `Tells` says what an interrupt means that the handler has found
and not yet served, `Exits` and `Frozen` that after the exit nothing is at work any more, and
`Before` what the queue looks like until it is prepared. `WholeInv` is their conjunction, as long
as no deceptive mishap has occurred. It is needed in this strength because OK is told when
`trans_complete` is *found*, which says something of the bus but nothing of the FIFOs: that all
bytes put were sent, and all bytes received fit in the entries that wait for them, is only to be had
from the windows.

*The undisturbed transfer.* `CleanTransfersSucceed` is about what does not happen: as long as no
mishap has come, the wait never ends for want of an interrupt. `Attended` says for each thing the
controller can come to wait for that the handler is still to be called for it: the TX interrupt is
off only when all bytes are put, the one for the end of the list only when the whole queue is
listed, and a controller that stands still has left the end of the list or of the transfer to be
found. With the windows of `WholeInv` it follows that the time-out finds the exit code already
set, which `i2cProcQueue` takes for success when the event bits were lost (`Unhurt`,
`CleanInv`).

*The blamed byte.* `RefusedByteIsBlamed` is about `i2c_update_error_byte_cnt`, which tells a refused
address from refused data by counting. `NakInv` says that until the handler leaves, the bytes
put into the TX FIFO and stored from the other, less those that wait in the one and more those
that wait in the other, are the events on the bus but the STARTs (`Counts`), and that a byte
the slave has refused was the last of them. A pass of `fillTxFifo` and `emptyRxFifo` moves bytes
between entry and FIFO and keeps the difference (`fillTxFifoCounts`, `emptyRxFifoCounts`); an event on
the bus adds one to both sides or, a START, to neither (`CountsByte`, `CountsStart`). The model sums
over the entries with a fold; `Sums` is the function it computes, by induction over the size
of the set. `WalkEnds` then follows the loop of the C code over the entries: at each it has as
many bytes left as lie between that entry and the refused byte, so that it comes to a stop at its
entry, with a negative rest just when the byte belongs to the address.

**Only model-checked.**
* Liveness and fairness, and `StuckOnlyInEmbrace` as it is stated: the prover has no `ENABLED`.

## 6. Abstractions that matter

* Display, printing and formatting are left out. Nothing depends on them but time.
* `vTaskDelay` counts whole ticks of the model; on the chip the first tick may be short.
* A packet of the motion processor enters the FIFO in one step.
* The library's pause and resume are what its object code does at this commit's build.
* `I2Cdev` logs its errors and goes on, as does the driver of the clock: `ImuStart`,
  `MpuRegisters` and `RtcAlarm` have transactions that fail. The loop of `task_imu` has none,
  in `ImuStart` either: a failed read of a count or a status there would be a value of
  the stack, and nothing of the loop's properties would be left to say.
* `I2cTransfer`'s faults are those the handler has an interrupt for; the line itself (glitches,
  recovery by clocking the pins) is left out. Its result is not connected to `RtcAlarm`'s
  faults by a refinement: `RtcAlarm` allows a failure of any transaction.
* `TwoWire` and `I2cLocks` take a driver that may fail any call; a transfer between its locks is
  one step.
* Scheduling is any interleaving of steps, which covers two cores.

## 7. Plan

Done: alarm control with its fourth task, player, alarm, calendar and registers, buzzer,
FIFO, start of the sensor and its registers, transfer, client, locks.

What is left, in this order:
1. The abstract transaction that `RtcAlarm`, `ImuStart` and `TwoWire` each assume, as one
   specification that `I2cTransfer` implements where no mishap occurred.
2. Direct calls of the buzzer's `playFile` and `playNote` beside its task.
3. Reading memory blocks, and the packet arithmetic of the motion processor (pure functions).

### Not modelled
* **BLE, SPI, DS3232, u8glib and the chess engine, the Arduino core's UART, RMT and
  strings.** Vendored, and not reached from `main/`: there is no use from which to
  model their environment, and no property of this program about them.
* **Display (SSD1306, GFX, SPITFT), `lcd.cpp`.** Pixels and layout. `main.cpp` draws, and its
  state does not depend on what was drawn.
* **`PWM.cpp`.** One call of the LEDC driver for each operation; the buzzer has its effect.
* **Build outputs.** Generated; read to see which loads and stores the compiler makes.
* **Two clients of `Wire`.** It has no lock, and `i2cAddQueue` reallocates a queue in use: what
  follows is undefined, and no property of the code is left.
* **`requestFrom` between `beginTransmission` and `endTransmission`.** It is a caller's mistake. `TwoWire` has it only outside of a transmission.
* Of the parts that are modelled partly, `PROJECT.json` names what is missing.

The vendored and unused parts are most of the repository's lines, so that the modelled ones
are a small share of it, though they are the larger part of what the program executes of its own
logic.
