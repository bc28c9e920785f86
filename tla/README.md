# Verification of RtlSdrDiags

TLA+ models of the receiver program in `src/radioDiags`, the TLC runs that check
them on small instances, and theorems about them that TLAPS proves for every value
of the constants. Paths are relative to `src/radioDiags/src_diags/` unless they
say otherwise.

## 1. The program

`radioDiags` receives with an RTL-SDR dongle, demodulates and writes PCM audio to
standard output, and is controlled over a TCP command line. `radioApp.cc` creates
one `Radio`, one `FrequencyScanner` and, on demand, one `FrequencySweeper`, and
starts the command line. The driver of the dongle (librtlsdr with its tuner drivers)
is part of the sources and linked in.

### 1.1 Threads

| thread | code | what it does |
|---|---|---|
| main | `radioApp.cc:210-291` | creates everything, waits for `exit system`, destroys everything |
| CLI listener | `diagUi.cc:2213-2320` | accepts connections, hands a socket over |
| user interface | `diagUi.cc:2450-2492` | executes the commands, one at a time |
| event consumer | `Radio.cc:1871-1926` | reads blocks of samples, passes them on |
| data consumer | `DataConsumer.cc:320-352` | takes blocks, runs the whole signal chain: squelch, notification, AGC, demodulator |
| sweeper (optional) | `FrequencySweeper.cc:186-246` | tunes, sleeps, tunes |

    device --read--> event consumer --acceptData--> pool + MessageQueue
       ^                | radioLock                      |
       |user interface--+ ioSubsystemLock                v
       |   start/stop/set functions          data consumer: acceptIqData
       |                ^                     |  Fs/4 mixer -> UdpClient (dump)
    librtlsdr + tuner   |                     |  Squelch -> signal?
       |                |                     |--> FrequencyScanner::run --+
       |                |                     |--> AutomaticGainControl::run|
       +----------------+---- set functions --+----------------------------+
                                              |--> demodulator (filters) -> stdout

Two locks order the radio: `ioSubsystemLock` (recursive) around start, stop and
every set function, `radioLock` around the event consumer's read and around the
part of stop that closes the device. `MessageQueue` has its own mutex and
condition variable. Everything else is shared with no lock: the flags of `Radio`,
the fields of the scanner and of the AGC, the switches of `IqDataProcessor`, the
flags between listener, user interface thread and main.

### 1.2 Components

| component | state | operations | hard because |
|---|---|---|---|
| `MessageQueue` | ring, head, tail, mutex, condition | enqueueEntry, dequeueEntry (waits up to 1 s) | signal sent after the unlock; full looks empty |
| `DataConsumer` | pool of 64 messages, index, enabled, timeToExit | acceptData, start, stop, thread, destructor | messages are processed in place and nothing says when a slot is free; two counters must stay in step |
| `Radio`, sessions | receiveEnabled, requestReceiverToStop, devicePtr, two locks, counters | startReceiver, stopReceiver, thread, destructor | flags read without a lock, then a wait for a lock; partial failure of a start |
| `Radio`, configuration | receive attributes | seven set functions, start, stop | attributes and dongle must agree, also after a restart, a refused value or a failed register write; Fs/4 offset |
| librtlsdr | freq, rate, bw, corr, gain, direct sampling; demodulator registers; I2C repeater | open, close, set functions | set functions call each other; the repeater must be on for the tuner; what opening or direct sampling resets must be set again |
| tuner drivers | register shadow or chip registers | init, tuning, filter, gain, standby | writes that fail midway; tables by frequency |
| `IqDataProcessor` | demodulator mode, two switches, dump switch | acceptIqData, setters | switches change between two tests in one block |
| `Squelch`, `SignalTracker`, `SignalDetector`, `DbfsCalculator` | tracker state, threshold, magnitude | run, detectSignal | tail of one block; division by half the byte count; table lookup; gain read later than the block |
| demodulators | decimators' positions, arrays of fixed size, gain, sideband | acceptIqData, gain commands | what a short block leaves over; wraps into 16 bits |
| filters | rings of samples, commutator, polyphase table | filter, decimate, interpolate, reset | ring wraps; 32-bit sums of 16-bit products |
| `UdpClient` | socket | sendData | cuts a block into datagrams |
| `AutomaticGainControl` | gains, filter state, blanking counter | run, setters, enable, disable | a control loop around a pipeline with delay; gain changed from outside |
| `FrequencyScanner` | state, range, current frequency | setScanParameters, start, stop, callback | called back from another thread with no lock, on stale blocks |
| `FrequencySweeper` | range, dwell time, thread flag | thread, destructor | 32 and 64 bit products; a loop without an effect; tunings that are refused |
| `diagUi`, `console` | sockets, connection flag, last command | listener, user interface thread, 50 commands | hand-over of the connection by polling a flag; writing to a client that has gone |
| `radioApp` | the objects | start, shutdown | objects destroyed while threads still use others |
| `demodulatorResearch` | the demodulators' ancestors and a program around them | | the same text with other scales |

### 1.3 What makes them correct

- Queue: it is a FIFO; no wakeup is lost; dequeueEntry returns.
- DataConsumer: while the consumer keeps up, every accepted block is processed
  once, in order, unaltered, across stops and restarts; the object can be
  destroyed.
- Sessions: whenever the I/O lock is free the flags, the handle, the driver and
  the data consumer agree; no read, and no set function, works on a closed device;
  what a read has delivered reaches no other session; stop and the destructor end;
  the AGC ends with the session.
- Configuration: what the user set is in the registers while the receiver
  runs; oscillator, filters and down-converter belong together; the tuner is
  never addressed while it cannot be reached.
- Signal path: the wanted channel comes to zero frequency; audio passes for
  every block with a signal and for one after it, whatever the gain; one PCM sample
  leaves per 32 pairs and no array is overrun.
- Filters and detectors: they compute their formulas, across ring wraps, resets
  and gain commands.
- AGC: it ends up within a step of its operating point, stays in 0..46 dB, and
  never fights a change it has caused itself and not yet seen.
- Scanner: it stays in its range and, where there is no signal, visits every
  frequency.
- Command line and shutdown: one connection at a time, a broken one is given up;
  `exit system` ends the program; a sweep goes on past what the tuner refuses;
  nothing is used after it was deleted.

`PROJECT.json` lists the hazards at their lines, with the properties that cover
them.

## 2. The modules

| module | models |
|---|---|
| `FlushFifo` | abstract: a FIFO that empties itself when overfilled |
| `MessageQueue` | ring, mutex, condition variable; implements `FlushFifo` |
| `DataConsumer` | pool, acceptData, thread; contains an instance of `MessageQueue` |
| `Radio` | start, stop, event consumer, set functions as users of the locks, AGC switch |
| `RadioConfig` | the receive attributes, the set functions and the commands over the driver; extends `Rtlsdr` |
| `Rtlsdr` | librtlsdr and the convenience functions; instances of the tuner modules |
| `R82xx`, `E4k`, `Fc001x`, `Fc2580` | the tuner drivers, down to the fields of the registers |
| `FrequencyScanner` | the scanner around squelch, queue and tuner |
| `AutomaticGainControl` | the control loop: parameters, blanking, both algorithms, amplifier, blocks under way |
| `Demodulators` | how many samples each step of each demodulator takes, keeps and gives |
| `SignalPath` | acceptIqData around the demodulators: mixer, dump, squelch, mode, with the commands |
| `Filters` | the seven filter classes |
| `Detectors` | what the demodulators compute, built of `Filters` with the source's coefficients |
| `FilterBench` | the objects of `Filters` and `Detectors` driven, reset and adjusted |
| `FrequencySweeper` | the sweeper's thread |
| `Program` | main, listener, user interface thread, clients, sweeper, shutdown; extends `FrequencySweeper` |
| `*_proofs` | theorems of the module they extend |
| `MC*` | values of the constants for TLC |

### 2.1 MessageQueue and FlushFifo

Each critical section is one action; `dequeueEntry` is cut where
`pthread_cond_timedwait` gives the mutex up: `dequeueEntry` (up to the result or
the wait), `timedwaitReturns` (timeout or spurious, at any time) or a `signal` by
a producer, then `dequeueAfterWait`. `signal` is a separate action because
`enqueueEntry` calls it after the unlock (`MessageQueue.cc:217-221`). The ring has
no notion of full: `head = tail` is empty. `FlushFifo` states what that gives a
caller, and the refinement maps the entries between head and tail to its `fifo`.

### 2.2 DataConsumer

`acceptData` is cut into the header store and the begin of the copy, `copyDone`,
`enqueue` and `signalAndAdvance`, because the consumer thread runs between them.
`MessageQueue` is instantiated with the pool's slot numbers as entries; its
actions appear as conjuncts, so the queue's steps are the same in both modules.
A block is its number; `timeStamp` carries it. `everFull` records that a block
came when the queue had no room: from then on the code promises nothing.
`timeToExit` starts with any value (the constructor does not set it).

### 2.3 Radio

One action per step another thread can see: taking a lock, storing a flag,
opening, closing. The control thread is the user interface thread and then the
destroying one; the event consumer tests `timeToExit`, `receiveEnabled` and
`requestReceiverToStop` in three steps with no lock and then waits for
`radioLock`. The spin on `requestReceiverToStop` makes no call, and the optimised
build does not read `timeToExit` on it again; the model spins in place.

A device handle is the ordinal of the open that returned it, so a read on a stale
handle shows. An open has three outcomes: a device (`openSucceeds`), an error of the
search or of `rtlsdr_open` (`openFails`), and success without a device
(`openWithoutDevice`), when the kernel driver cannot be detached; then `devicePtr`
stays null, the set functions only note their values and the receiver is enabled
(`obtained` is what the last successful open gave). A read fills the buffer
(`ReadDelivers`) or fails and leaves buffer and count as they were (`ReadFails`):
always for a null handle, and whenever a device refuses the transfer. The code does
not look at the result, so `passBlock` passes on what is there; `bytesFrom` says
which device the bytes in the buffer came from, `delivered` whether the last read
brought them. `undercut` is history: the device of the read under way was closed by
a start that failed (the finding of `radio_dangling`). `MaxOpens` bounds the opens
that give a device; counters wrap at `Modulus`.

### 2.4 RadioConfig, Rtlsdr and the tuners

`ioSubsystemLock` makes each set function, start and stop one step, so the driver is
modelled as functions from device to device: `rtlsdr_set_center_freq(d, khz, bad)`
returns the device as the C function leaves it, with its outcome in `ok`, and goes
through the same calls in the same order. A tuner is a record of register fields;
for the R82xx both the driver's shadow and the chip are kept, because a masked write
sends the shadow. `bad` is the set of register groups the bus cannot reach during
the call: every early return and every ignored outcome of the code shows as a
different final state. Groups hold the fields that settings change; constants of
the initialisation are left out. Frequencies are in kHz, gains in tenths of a dB.

An action of `RadioConfig` is a command of `diagUi.cc` with its range check and the
set function of `Radio` behind it, or start and stop. Three pieces of history say
where the code leaves a setting behind, and with it where `AttributesApplied` makes
no claim:

- `unsure`: a call that met a fault or was refused has touched it. It becomes sure
  again when it is applied with success, by a start without a fault at the latest.
- `reset`: an R820T was put to sleep or initialised by a tuning across 24 MHz since
  the setting was applied, and nobody applies it again. This takes no fault. `TypeOK`
  says that no other tuner ever has one.
- `tunedAt`: the rate the Fs/4 offset of the present frequency was computed with.
  A new rate on a running receiver does not tune again.

`Centred` puts numbers on the PLLs: `LoOf` of each tuner reads the frequency back from
the registers, to the kilohertz. The word of the R82xx's sigma-delta modulator comes
out of a loop over halving fractions; `Sdm` has its fifteen turns as `SdmStep`s, four
at a time (`FourSteps`).

### 2.5 FrequencyScanner

Every statement of `setScanParameters`, `start` and `stop` that the callback can
see is an action, and the callback is cut as the compiled code does it: load and
add, store, compare and wrap, tune (`run` is inlined into the callback, and the
value computed travels in a register). The commands refuse frequencies outside
`LowestFrequency..HighestFrequency` and a scan while one is running. Blocks are
reduced to "is there a signal in it"; a block begun on one frequency and finished on
another may show either. The queue between read and judgement holds up to
`MaxBehind` blocks. The squelch lets one block more through than has a signal.
`setRxFrequency` is the command that tunes by hand. The receiver runs throughout.
`EveryFrequencyVisited` is about a scan that meets no signal (`Quiet`): one that
meets a signal should stop there and does not always (section 3.1).

### 2.6 AutomaticGainControl

The loop is closed: a level at the antenna, the amplifier (`VgaGain`, in the runs
the real steps of the R820T from `../src/tuner_r82xx.c`), the blocks read and not
yet judged, `run`, and the gain again. The callback is cut where the user interface
thread can come between: the two switches (`IqDataProcessor`'s and the AGC's own),
the take-over of the radio's gain (`sync`), the test of the blanking, the store of
its counter (`blankingCounter++` is a load and a store), the computation, the set
function and the mark that starts the next blanking. `resetBlankingSystem` is two
stores when the user interface thread calls it; called by `run` it is one step,
since both callers store the same values. A command without its argument passes on
an uninitialised variable: any value of the command's set.

The two algorithms share everything but one line, so `run` is one action and
`runHarris` and `runLowpass` are the formulas of that line; for the lines they share
the map names those of `runLowpass`, for the whole those of `runHarris`. The
filtered gain is a float; the model counts it in 1/`Scale` dB. Where a value falls
between two points of that grid the model takes either, and where it falls on a
whole number the truncation to `uint32_t` gives that number or the one below. Two
fields are history: `inStep` (nobody else has set the gain, and the driver did not
refuse the last one) and `forgiven` (blanking was reset in the middle of an interval,
or an interval began with its counter off zero). A block carries its level and
whether the gain changed after it was begun.

The receiver runs throughout; that the AGC is enabled only then, and ends with the
session, is checked in `Radio`. The run begins with the constructor's parameters.
`EndsNearOperatingPoint` is what the loop comes to with them: the signal within the
deadband, the gain at its rail, or the operating point between the present step of
the amplifier and a neighbouring one (`BetweenSteps`), where the gain may go back
and forth for ever.

### 2.7 Demodulators and SignalPath

`Demodulators` counts: each function of the four classes is an operator from object
to object, an object being the position of each decimator and the fill of each
array. `SignalPath` has the event thread read blocks (`BeginRead`, `EndRead`: the
gain may change in between), the data consumer take each through `acceptIqData` in
one action per place where the user interface thread's stores can be seen
(`ConvertBlock`, `DumpBlock`, `ReadGain`, `Detect`, `Track`, `Demodulate`), and the
commands. A command of two stores is two actions.

Assumptions. Four samples stand for a block; the mean of a block of any length
is computed from them. The tuner amplifies by exactly its IF gain, a multiple of
20 dB so that it is a whole factor. The antenna delivers a tone in the wanted
channel; an amplitude is at least 1, the floor the noise sets. What the squelch
ought to say of a block during whose reading the gain changed, which was judged
under another gain than it was read with, or which overdrove the ADC, is "unsure".
A read that fails delivers a block of no byte, and the mean of no sample divides by
zero, which the model lets end the program or give 0, as machines differ.

### 2.8 Filters, Detectors and FilterBench

`Filters` has the methods of the seven classes with their rings, indices and
commutator, the 16-bit ones with scaled coefficients, rounding and the clip after
every tap. Whole numbers stand for floats, where float arithmetic is exact.
`Detectors` builds the chains of the demodulators of them, with the coefficients of
`radioDiags`, and the detectors between them, the two taps of FM's differentiator
that come to 0 included. `DetectorsFollowSignal` says nothing of narrow band FM:
what its differentiator gives and what its comments say differ (section 3.1). `FilterBench` drives one object:
any samples for a filter, a steady signal for a detector until it has settled,
then the gain command once; and a reset at any time.

Assumptions of `Detectors`: frequencies in 100 Hz; the dc removal's state in
hundredths; the deemphasis' coefficients to 1/10000; a division of whole numbers
where the source rounds a float; modulation and tones at a quarter of the rate;
a conversion from float to `int16_t` that does not fit keeps the low 16 bits;
gains in tenths of the nominal one. AM, SSB and all filters have the same text in
`demodulatorResearch/demodulators`, and `map` names whichever copy a definition was
translated from: `Filters`, `Demodulators` and most of `Detectors` from the receiver's
copy, the rest of `Detectors` from the research copy. FM and wideband FM differ in
their scales, and `program` in a design says which is meant.

### 2.9 FrequencySweeper and Program

The sweeper is a record with the thread's place and the outcome of its last tuning,
which any tuning may be refused (`success`) and nobody looks at; the products of its
command and constructor wrap at `Word64` and `Word32`. `Program` has a process per thread:
main's loop and its order of joins and deletes, one action each; the listener with
`select`, `accept`, the 100 ms poll and the join; the user interface thread with
the console's reads and writes. A client connects, types lines, closes or breaks
the connection whenever it likes; writing to one that has gone ends the process
(SIGPIPE), and a reset connection may be noticed by a read or a write first. An
unbound server socket makes accept fail for ever. The two threads of `Radio` are
there as users of what main deletes. The data consumer is also a user of the scanner
and the AGC, which `acceptIqData` calls back (`IqDataProcessor.cc:771-790`): the model
has its test of switch and pointer, the load of the context and the call as steps
(`acceptIqData`, `CallBack`, `signalStateCallback`), and the scanner's destructor
against them as its three stores and the release (`DeleteScanner`, `ClearContext`,
`ClearCallback`, `FreeScanner`). The AGC is deleted after the data consumer's join.

## 3. The runs

| run | asks | instance |
|---|---|---|
| `message_queue` | types, no lost wakeup, refinement of `FlushFifo`, dequeue returns | ring of 3, two producers, two consumers, two entries |
| `data_consumer` | below capacity nothing lost, repeated, reordered or overwritten; forwarded in the end, destructor ends (`ConsumerMakesProgress`) | pool of 3, 5 blocks, lengths below, at and above the buffer |
| `radio` | consistency, no set function on a closed device, AGC ends with the session; a read outlived by its device unless a failed start closes it, what it delivered stays in its session; stop and destructor end | two tuners, starts that fail or get no device, reads that fail, 3 opens |
| `radio_dangling` | VIOLATION: every read is on the open device | one tuner, 2 opens |
| `radio_config` | types, settings in effect, centred, tuner reached, direct sampling below 24 MHz | six tuners, 5 commands, one of them with a fault; frequencies in the direct, VHF and UHF ranges |
| `frequency_scanner` | types, range, every frequency visited, both ends included | two overlapping scans, a failing tuner, hand tuning, one block behind |
| `agc` | types; no error corrected twice; every step the right way; the gain ends within a step of the operating point | real amplifier, both algorithms, four signals, three disturbances, one block behind |
| `agc_external_gain` | VIOLATION: the next gain starts from the present one | same, two disturbances |
| `signal_path` | samples in 8 bits, channel, rate, squelch | two tones, gains 0 and 40 dB, two thresholds (one refused), all modes, blocks of 0, 44 and 32768 bytes; 3 blocks, 2 commands |
| `filters` | filters compute their definitions; detectors return their signal (all but narrow band FM's) | nine designs with 6 samples of 4 values and resets; the demodulators' own chains and detectors to their end, one gain command |
| `program` | nothing outlives what the joins protect; exit, hand-over, sweep | 2 clients of 2 lines, four sweeps, tunings that are refused |
| `program_scanner` | VIOLATION: no notification outlives the scanner | same |

Why the bounds are enough. A ring of 3 holds two entries and wraps twice with five
blocks; the pool is lapped, filled and flushed within `MaxBlocks = 5`. Two opens
make two sessions, the least in which something of an old one can reach a new one;
a third (in `radio`) lets a failed start lie between two good ones; opens without
a device are not counted. The scanner may
meet a signal on one frequency, and its visits are watched on all; the two scans share one frequency and each has frequencies outside the other, so a step taken
for one lands inside and outside the other; the increment of one does not divide
its range. The AGC meets a signal within reach of the operating point, one that falls
between two of the amplifier's widest steps, one too weak and one too strong for it;
with three disturbances (a command, a change of the signal or a refused setting) it
can be enabled, settle, be disturbed and settle again. One block behind is what the
constructor's blanking limit of 1 covers. The instance begins with the constructor's
parameters, and the user may set deadbands of 0 and 2 dB.

Five commands let the user set two things, start, set a third and restart, in
any order; with the three frequencies every change of direct sampling and of band
occurs, on a stopped and on a running receiver. Three blocks are the squelch's
memory (a block, its tail, the next) and let a short block lie before and behind a
full one; two commands can change gain and threshold, or the mode twice, within
one block. A block of 44 bytes leaves every decimator and the mixer within a group.
Six samples wrap every ring of the designs at least once; the real chains are run
for as long as their longest impulse response. Two clients are the one served and
the one who waits, and with two lines each a sweep can be started and stopped,
repeated, or left running at exit; `Word64` and `Word32` are small so that both
products wrap.

The theorems of section 4 remove the bounds for most of the safety properties.

Where the code and what it says of itself differ:

- `radio_dangling`: after a failed configuration `startReceiver` closes the device
  holding only `ioSubsystemLock` (`Radio.cc:484-489`). An event consumer that saw
  `receiveEnabled` before the preceding stop gets `radioLock` during the restart
  and reads the new device while it is closed.
- `agc_external_gain`: after the user turned the gain down to 10 dB, the AGC answers
  a signal 2 dB too strong with 22 dB, because `runHarris` goes on from
  `filteredIfGainInDb` and not from the gain it has just taken over.
- `program_scanner`: main deletes the scanner while the data consumer runs
  (`radioApp.cc:275`; the thread is joined in `Radio.cc:236`). "Disable callback function
  processing" and "Unregister the callback" (`FrequencyScanner.cc:128`, `134`) do not
  wait for a call that has passed its test: in the trace the context is NULL when it
  is loaded, and the callback works on no scanner; it may also work on one that is
  released under it.

### 3.1 Further observations

They are visible in the models and have no run of their own; the properties speak of
what holds beside them.

Threads and shutdown:
- A thread whose first statement `timeToExit = false` comes after the destructor's
  `true` never ends, and the join waits for it (`DataConsumer.cc:331`,
  `Radio.cc:1883`; `FrequencySweeper` likewise).
- The first read after a stop can be one of the null handle and is counted: the
  flags are tested before `radioLock` is waited for (`Radio.cc:1889`).
- A read that fails, as each of the null handle does, is passed on like any other: its
  bytes and its count are those of the read before (`Radio.cc:1895-1906`; before
  the first read the count is whatever the stack held). With a stop and a start
  between the test of the flags and the read, a block of the old session reaches the
  new one. `DeliveredInItsSession` is about reads that delivered.
- An enabled receiver need not have a device: see the kernel driver below. It reads the
  null handle then, again and again. `ReceiverConsistent` compares with what the open
  gave.
- The block that fills the queue loses all 64 (`NoLossBelowCapacity` says when not).
- A block is judged without knowing its frequency: a consumer one block behind steps
  over a lasting signal for ever (`FrequencyScanner.cc:382`; the top-level
  `README.txt:182-184` promises to stop at it).
- A notification under way when `stop` returns still retunes the radio
  (`FrequencyScanner!tune`; it is why `ScansInRange` speaks of `~overlap`).
- The destructor of the AGC writes to the `IqDataProcessor` deleted before it
  (`Radio.cc:270`), at every exit. `RadioOutlivesItsUsers` leaves it out.
- Writing to a client that has gone is a SIGPIPE (`console.cc:187`); with an unbound
  server socket the listener spins in accept.
- A sweep's upper frequency wraps 64 bits (`diagUi.cc:1789`) and its dwell time 2^32
  (`FrequencySweeper.cc:199`): a sweep far out of range may be accepted, which the
  tuner then refuses frequency by frequency. Both are in the run and no property says
  which sweeps should be refused. A sweep of no
  frequencies ends by itself when optimised and spins otherwise; `sweepState` is not
  set before the thread runs.
- Commands without their argument use uninitialised variables (AGC, scan,
  demodulator gain and mode, squelch).

AGC:
- `blankingCounter++` against a reset by `set agcblank` or `enable agc` can leave
  the counter off zero with blanking off; the next interval is then too short and an
  error is corrected twice. `NoDoubleCorrection` forgives exactly that: with
  `forgiven' = FALSE` in `set` it fails.
- With the constructor's deadband of 1 dB the gain never comes to rest on a signal that
  the amplifier's neighbouring steps, up to 4.2 dB apart, put below and above the
  deadband: it alternates between them, in spite of "Apply deadband to eliminate gain
  oscillations" (`AutomaticGainControl.cc:843`, `135`). Without `BetweenSteps`
  `EndsNearOperatingPoint` fails.

Configuration and driver:
- A new sample rate on a running receiver is not followed by a tuning, so the Fs/4
  offset stays that of the old rate (`IqDataProcessor.cc:741-748` moves by the new one,
  `Radio.cc:894-933`): `AttributesApplied` counts from the rate of the last tuning.
- A correction of 0 is not passed on; a repeated one is refused; more than 488 ppm
  wraps in the resampler's 14 bits.
- A tuning of an R820T across 24 MHz initialises the tuner or puts it to sleep
  (`librtlsdr.c:906`, `1213-1269`) and nobody sets gain, bandwidth and IF gain again:
  with no fault at all the dongle runs with others than the user is shown, until
  they are set again or the receiver is started anew. `AttributesApplied` leaves them
  out from there on (`reset`). A failed tuning sets the driver's frequency to 0. An R82xx whose PLL
  does not lock reports success. The outcome of the tuner's initialisation is ignored.
- `fc0012_set_params` multiplies frequency and divider in 32 bits (`tuner_fc0012.c:202`;
  `f_vco` has 64). From 1073.742 MHz on the product wraps: told 1.6 GHz the oscillator is
  set as for 526 MHz and success is reported, and the commands accept up to 1.7 GHz
  (`diagUi.cc:1174`). The FC0013 divides its highest band by 2 and is not affected.
  `Centred` speaks of the FC0012 where the product fits (`InReach`).
- With an E4000 the receiver never starts: `rtlsdr_set_tuner_if_gain` is called with
  stage 0, which is refused.
- When the kernel driver cannot be detached, `r` still holds the 0 of `libusb_open`:
  `rtlsdr_open` closes the device, frees it and returns success without handing one
  over (`librtlsdr.c:1565-1571`), and `startReceiver` enables the receiver
  (`Radio.cc:415-482`). When the interface cannot be claimed, a kernel driver
  that was detached before stays detached (`librtlsdr.c:1582`).
- The comments on the squelch threshold say -100..10, the code accepts -400..10
  (`Radio.cc:1095`).

Signal path and demodulators:
- A block of no byte divides by zero (`SignalDetector.cc:255`); -(-128) keeps its sign
  (`IqDataProcessor.cc:594`); a block that is no multiple of 8 bytes shifts the mixer
  against the samples, which the tone's phase shows and its frequency does not.
- With a gain the squelch cannot reach thresholds above minus that gain, because a
  level saturates at 0 dB. `UdpClient::sendData` returns the opposite of its success.
- `IirFilter` applies more than one feedback coefficient in the wrong order; every
  one in the program has one.
- A coefficient of 1.0 wraps to -1 in 16 bits (`FirFilter_int16.cc:53`), which the
  SSB demodulator's choice of sign (`SsbDemodulator.cc:577-586`) makes up for.
- Two taps of FM's differentiator are the integer division 1/16, that is 0
  (`FmDemodulator.cc:112-122`): the difference spans two samples, the output is twice
  the deviation and wraps above 7.5 kHz where line 437 speaks of 15 kHz. No property
  claims anything of what FM gives.
- `WbFmDemodulator` does not reset its deemphasis filter; its filter before the
  demodulation is cast to `int8_t` and wraps for a constant level of 124 and more.
- AM and SSB at their nominal gain wrap 16 bits above a magnitude of about 109 and
  54: the receptions of `MCFilters` end there.
- `demod.cc` falls through from LSB to USB (`demod.cc:233-241`).

### 3.2 Fairness

- Threads that can run, run: weak fairness of a thread's steps. They are real
  threads of one process with equal priority. In `Program` each of main, listener,
  user interface thread, sweeper and the two threads of `Radio` has its own, and the
  clients owe nothing: a client may stay connected and silent for ever.
- `pthread_cond_timedwait` ends: it has a timeout of one second.
- A read returns: the device streams. `librtlsdr` waits without a timeout, so a
  device that stops streaming blocks the program (listed as a hazard).
- Mutexes are NOT fair: weak fairness of `disable`, which needs `radioLock`, says
  nothing while the event consumer takes it again and again. That `StopCompletes`
  holds is due to `requestReceiverToStop`; without that test it fails.
- Nobody has to type a command, and in `DataConsumer` no block has to come. In
  `FrequencyScanner` and `AutomaticGainControl` blocks keep coming. A tuning that
  is tried again and again succeeds at last (strong fairness of each `tuneTo`, in the
  scanner only): without it no frequency need ever be reached. `SweepGoesOn` needs none of
  that, because it asks for the attempt only. `EndsNearOperatingPoint` asks
  for an AGC that stays enabled; that the disturbances end is the bound
  `MaxDisturbances`.

## 4. The proofs

All from the ASSUMEs of the constants in the modules, which TLC evaluates in the
runs. Constants are unbounded: any ring, pool, number of threads, of tuners, of
blocks, of opens, of clients, any set of scans, sweeps, tones and commands.

| module | theorem | argument |
|---|---|---|
| `MessageQueue_proofs` | `TypeCorrect` | inductive |
| | `NoWakeupIsLost` | `NoLostWakeup` is not inductive: two entries and one signal would break it. `WakeupCount`: while somebody sleeps there are at most as many entries as producers about to signal plus consumers woken. |
| | `RingImplementsFifo` | storing appends or flushes, taking removes the head, for any ring size; every other step stutters |
| `DataConsumer_proofs` | `TypeCorrect` | inductive, with the typing of the queue's steps |
| | `NothingIsLost`, `SlotInUseIsKept`, `BlocksInOrder` | one invariant, `PoolInv`: message index and tail move in step; below capacity the waiting blocks are numbered without gap from the last one handed over, each in the pool slot of its queue slot; the slot in use is the one before head, which is not the one at tail |
| `Radio_proofs` | `TypeCorrect` | inductive |
| | `SetFunctionsOnOpenDevice`, `ConsistentWhenUnlocked`, `AgcEndsWithSession` | `LockInv` ties each lock's holder to the places of the threads, `DeviceInv` says for every place of the control thread what flags, handle and driver are, the handle being what the open gave, null included |
| | `ReadsOnOpenDevice`, `BlocksStayInTheirSession` | `ReadInv`: every close is made with `radioLock` held, apart from the one of a failed start, which `undercut` notes; a read that delivered had a handle, and the bytes are of it. Starts that fail and opens without a device are included; the blocks of reads that failed are not (`delivered`) |
| `FrequencyScanner_proofs` | `TypeCorrect` | inductive |
| | `ScanStaysInRange` | `RangeInv`: from setScanParameters to the end of start nobody steps unless a notification was under way; afterwards the parameters are settled and a step leaves the range only between its store and its wrap |
| `AutomaticGainControl_proofs` | `TypeCorrect` | inductive: limiting and truncating give a gain of the command's range whatever the algorithm computed |
| | `NoErrorCorrectedTwice` | `BlankingInv`: the stale blocks stand at the head of the line, and none behind the number of blocks still to be ignored (`StaleCovered`), for any number of blocks under way |
| | `StepsTheRightWay` | `GainInv`: while nobody but the AGC sets the gain, the filtered gain lies between the radio's gain and the next one (`Between`); between `run` and `set` the new gain has gone the way of the error, if at all. Both algorithms keep that (`AlgorithmMoves`), and truncating a float that may lie just below a whole gain does (`TruncatedIs`) |
| `RadioConfig_proofs` | `TypeCorrect`, `TunerAlwaysReached` | `ConfigInv`: types, only an enabled receiver has its device open, and no call was deaf (that only an R820T is ever `reset` comes from `SoundInv`). One lemma per driver function (`Same`): it leaves the types and the kind of tuner alone and, entered with the repeater as its callers leave it, never calls the tuner while the repeater is off |
| | `AttributesAlwaysApplied` | `SoundInv`. `InEffect` is not inductive: a masked write sends the driver's shadow, so a gain lasts only while shadow and chip agree (`GainAgrees`), the V4's input only while its switches do (`InputAgrees`), a correction only as `ResamplerOffset` of its ppm. `AppliedTo` says so for each setting. Each driver call is a `Step(W, G, d, e)`: the parts `W` of the tuner and all fields of the device outside `G` are as before; calls that may tune again have an `Outcome`. From these each set function is `Moved`: it establishes its own setting, or marks it unsure, and undoes no other without noting it (unsure or, without a fault, `reset`); and a start establishes them one after the other (`AllAppliedChain`) |
| | `DirectExactlyBelow24MHz` | the other half of `SoundInv`: before the first fault an open R820T `Fits`: sleep and demodulator mode belong to direct sampling, direct sampling to the frequency. It needs the frequency to be one a command lets through (`Tunable`), and `Outcome` again, because tuning switches direct sampling, which tunes |
| | `OscillatorCentred` | `AlignedInv`: `Centred` is not inductive, because it is silent while a setting is unsure and because it takes three facts from elsewhere: an R82xx reckons with the device's correction, an FC2580 has its registers (`Whole`), and frequency (`OnFreq`) and down-converter (`Shifted`) become sure one without the other. Per tuner, the registers are within 2 kHz of the frequency they were computed from: for the R82xx the integer part by the quotient's rest, the fraction bit by bit (`SdmIs`: the first eight bits are exact, each later one is off by its rounding, together at most 4 below and 2 above), for FC0012 and FC0013 by the rounding of the 16 bits of `Xin` (`FitipowerLo`), for the FC2580 without rest (`FciLo`). Then each driver call leaves PLL, filter, down-converter and frequency alone (`Core`) or sets them together (`Retuned`, `Steered`), and each set function, start and stop keeps `Aligned`. The E4000 is left out of `Centred`: with it the receiver never starts |
| `SignalPath_proofs` | `RateKept` | `PcmKeepsRate` speaks of quotients and is not inductive. For each demodulator an equation is: 32 times what was sent, plus what each decimator holds weighted by the stages before it, is what was given (`Held`, `AmInv`, `FmInv`, `WbFmInv`, `SsbInv`). The weights bound what is held by 31, so the quotient follows, and 16384 pairs more never fill more than 512 entries. I and Q are one parameter of the object, so they agree |
| | `TypeCorrect` | `TypeInv`: a block being read is not counted yet. A phase turns a sample by swapping and negating its parts, which stays in 8 bits because `Negated` wraps; quarter turns of a tone are the tone again |
| | `ChannelSelected` | `SelectedInv`: between conversion and the end of `acceptIqData` the samples in hand are `Convert` of the block in hand; the mixer's four cases undo the ADC's quarter turns for every amplitude. `SidebandInv`: mode and demodulator agree unless a command is between its two stores |
| | `SquelchJudgesAntenna` | `SourcesInv`: every block comes from the antenna. `VerdictsInv`: between detector and tracker the newest verdict is about the detector's answer and the one before it about the tracker's state, otherwise the newest is about the tracker's state; a gain taken off the level leaves the antenna's level where nothing saturated |
| `Program_proofs` | `TypeCorrect` | inductive, with the sweeper's (`SweeperType`: a thread that tunes has a frequency left) |
| | `NothingOutlived` | `ConnectionInv`: a user interface thread is there exactly while the listener serves a connection; `ShutdownInv`: what main has deleted and whom it joined before. From these, commands are executed only while main waits (`CommandsWhileWaiting`), so no sweeper is made after main has looked for one. The theorem covers what the joins protect: the callback of the scanner is unregistered before the scanner is released, but a call under way, and the AGC destructor's writes, are not part of it and do happen |

Nothing is assumed of faults or lengths of histories: `RadioConfig_proofs` holds for any
set of dongles, frequencies, rates, bandwidths, gains and corrections, any faults of
the bus at any call, and any `MaxCalls` and `MaxFaults`; what the commands refuse
(above 1700 MHz, above 3200 kS/s) is the guard of their actions and not an assumption.

Only model-checked:

- the liveness properties (`DequeueReturns`, `ConsumerMakesProgress`, `StopCompletes`,
  `ExitHonouredOnceRunning`, `EveryFrequencyVisited`, `EndsNearOperatingPoint`, `ExitEndsProgram`,
  `ServedAgain`, `SweepGoesOn`), which rest on fairness and are out of the prover's reach;
- `OutputMatchesDefinition` and `DetectorsFollowSignal`: what folds over samples
  compute, which would need induction over data;
- the violations.

## 5. Not modelled

- Displays and statistics of every component, parsing and help in `diagUi`, editing
  of a line in `console`, the command line options of `radioApp`: text in and out.
- `DataConsumer::reset` and other functions nothing calls: the R82xx's multi-byte read,
  the E4000's DC offset tables, EEPROM, GPIO, test mode and asynchronous reading in
  librtlsdr.
- USB transfers: libusb is a library; a register write reaches its register or
  does not.
- Values of arbitrary samples through whole demodulators: the filters are checked
  for all short sequences, the demodulators for steady signals. The discriminators are
  given the phase angle, so `atan2` itself is left out; the AM detector's magnitude is
  the source's own whole-number approximation.
- The composition of `Radio` and `DataConsumer` in one state space: each is checked
  against what the other one promises it.
- `systemDesign`, `doc`, `hacks`, `sdrCaptureScripts`: no part of the program. The header
  files of libusb in `include` describe a library.
- Data races on single words are modelled as interleavings of the loads and stores
  the build makes, not as undefined.

What would add most next: `Radio` and `DataConsumer` composed, implementing an abstract
FIFO per session.
