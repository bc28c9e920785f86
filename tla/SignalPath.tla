----------------------------- MODULE SignalPath -----------------------------
(***************************************************************************)
(* What happens to the samples: the event thread of Radio reads blocks      *)
(* while the tuner amplifies with some IF gain, the consumer thread hands   *)
(* them one by one to IqDataProcessor::acceptIqData, which shifts the       *)
(* wanted channel to zero frequency, streams the block, squelches it and    *)
(* lets it be demodulated; the user interface changes IF gain, squelch      *)
(* threshold, demodulator mode and streaming meanwhile, without a lock.     *)
(*                                                                          *)
(* The antenna delivers a tone in the wanted channel, of which the ADC sees *)
(* a quarter turn less per sample because Radio tunes Fs/4 too high.  Four  *)
(* samples stand for a block: sample n of a block is work[n % 4].           *)
(***************************************************************************)
EXTENDS Demodulators, Sequences, FiniteSets

CONSTANTS Amplitudes,      \* of the tone before the IF amplifier, in ADC units
          Gains,           \* IF gains, multiples of 20 dB
          Thresholds,      \* what the user asks the squelch for
          Modes,           \* the numbers of the modes the user selects
          Sizes,           \* bytes a read may return
          MaxBlocks,       \* bound: blocks read
          MaxBehind,       \* bound: blocks waiting for the consumer
          MaxCommands      \* bound: commands of the user

demodulatorType == <<"None", "Am", "Fm", "WbFm", "Lsb", "Usb">>      \* from 0 on
AllModes == {demodulatorType[n] : n \in 1..6}

ASSUME SignalPathAssumption ==
    /\ Amplitudes \subseteq 1..127 /\ Gains \subseteq {0, 20, 40} /\ 0 \in Gains
    /\ Thresholds \subseteq Int /\ Modes \subseteq Int
    /\ MaxBlocks \in Nat /\ MaxBehind \in Nat /\ MaxCommands \in Nat

\* Whole pairs, and no more than the buffer holds.
ASSUME SizesAssumption == \A bytes \in Sizes : \E n \in 0..16384 : bytes = 2 * n

VARIABLES tunerGain,       \* the gain of the tuner's IF amplifier
          radio_adjustableReceiveGainInDb,
          reading,         \* the block being read, or none
          line,            \* the blocks that wait
          turns,           \* pairs the ADC has delivered, modulo 4
          blocks,          \* history: blocks read so far
          pc,              \* where the consumer thread is
          block,           \* the block it has in hand
          work,            \* four samples of that block
          gainInDb,        \* the gain it has read for the squelch
          present,         \* the detector's answer for it
          signalAllowed,   \* the squelch's
          threshold, state, signalMagnitude,
          demodulatorMode, demodulators,
          iqDumpEnabled, socketOpen,
          datagrams,       \* the sizes of the datagrams sent for the block
          command,         \* the command whose second half is still to come
          commands,        \* history: commands given so far
          verdicts,        \* history: was the threshold reached, the last block and this one
          fed              \* history: pairs each demodulator has been given

radio == <<tunerGain, reading, line, turns, blocks>>
data == <<block, work, gainInDb, present, signalAllowed, state, signalMagnitude,
          demodulators, datagrams, verdicts, fed>>
settings == <<radio_adjustableReceiveGainInDb, threshold, demodulatorMode, iqDumpEnabled,
              command, commands>>
vars == <<radio, pc, data, settings, socketOpen>>

NoBlock == [amplitude |-> 0, gain |-> 0, mixed |-> FALSE, bytes |-> 0, turns |-> 0]
----------------------------------------------------------------------------
(* Samples: pairs of 8-bit numbers.                                         *)

Int8(x) == ((x + 128) % 256) - 128

\* z turned back by n quarters: the wanted channel as the ADC sees it.
Behind(z, n) == CASE n % 4 = 0 -> z
                  [] n % 4 = 1 -> <<z[2], -z[1]>>
                  [] n % 4 = 2 -> <<-z[1], -z[2]>>
                  [] n % 4 = 3 -> <<-z[2], z[1]>>

\* The sum of the tone and 128, in 0..255.
Saturated(x) == IF x + 128 > 255 THEN 255 ELSE IF x + 128 < 0 THEN 0 ELSE x + 128
Raw(z, n) == [part \in 1..2 |-> Saturated(Behind(z, n)[part])]

Amplified(b) == b.amplitude * (CASE b.gain = 0 -> 1 [] b.gain = 20 -> 10 [] b.gain = 40 -> 100)
Tone(b) == <<Amplified(b), 0>>

\* Faulty variant: as if int8_t were wider.
NegatedWide(x) == -x

Negated(x) == Int8(-x)     \* -(-128) is -128

downconvertByFsOver4(s) ==
    [n \in 0..3 |-> CASE n = 0 -> s[0]
                      [] n = 1 -> <<s[1][2], Negated(s[1][1])>>
                      [] n = 2 -> <<Negated(s[2][1]), Negated(s[2][2])>>
                      [] n = 3 -> <<Negated(s[3][2]), s[3][1]>>]

upconvertByFsOver4(s) ==
    [n \in 0..3 |-> CASE n = 0 -> s[0]
                      [] n = 1 -> <<Negated(s[1][2]), s[1][1]>>
                      [] n = 2 -> <<Negated(s[2][1]), Negated(s[2][2])>>
                      [] n = 3 -> <<s[3][2], Negated(s[3][1])>>]

\* Faulty variant: the channel is moved the wrong way.
ConvertDown(b) ==
    downconvertByFsOver4([n \in 0..3 |-> [part \in 1..2 |->
                              Int8(Raw(Tone(b), b.turns + n)[part] - 128)]])

\* From offset binary to signed, then up by Fs/4.
Convert(b) ==
    upconvertByFsOver4([n \in 0..3 |-> [part \in 1..2 |->
                            Int8(Raw(Tone(b), b.turns + n)[part] - 128)]])
----------------------------------------------------------------------------
(* The squelch: detector, decibels, tracker.                                *)

Abs(x) == IF x < 0 THEN -x ELSE x
Larger(x, y) == IF x > y THEN x ELSE y
Smaller(x, y) == IF x > y THEN y ELSE x

\* An approximation of the absolute value of a sample.
Magnitude(s) == Larger(Abs(s[1]), Abs(s[2])) + (Smaller(Abs(s[1]), Abs(s[2])) \div 2)

\* The mean over the pairs of a block, pairs > 0.
AverageMagnitude(s, pairs) ==
    LET Sum(n) == Magnitude(s[n]) * ((pairs + 3 - n) \div 4)
    IN  (Sum(0) + Sum(1) + Sum(2) + Sum(3)) \div pairs

\* LeastMagnitude[d]: the smallest m with 20 * log10(m) >= d.
LeastMagnitude ==
    <<2, 2, 2, 2, 2, 2, 3, 3, 3, 4, 4, 4, 5, 6, 6, 7, 8, 8, 9, 10, 12, 13, 15, 16, 18, 20,
      23, 26, 29, 32, 36, 40, 45, 51, 57, 64, 71, 80, 90, 100, 113, 126>>

fullScaleValue == 127
dbTable == [m \in 0..fullScaleValue |->
               Cardinality({d \in DOMAIN LeastMagnitude : LeastMagnitude[d] <= m})]
fullScaleValueInDb == dbTable[fullScaleValue]

convertMagnitudeToDbFs(m) ==
    dbTable[IF m > fullScaleValue THEN fullScaleValue ELSE m] - fullScaleValueInDb

\* Faulty variant: the level after the amplifier counts.
detectAmplified(gain, magnitude, limit) == convertMagnitudeToDbFs(magnitude) >= limit

detectSignal(gain, magnitude, limit) == convertMagnitudeToDbFs(magnitude) - gain >= limit

SignalTrackerRun(old, isPresent) ==
    [state |-> IF isPresent THEN "Tracking" ELSE "NoSignal",
     indicator |-> CASE old = "NoSignal" /\ isPresent -> "STARTOFSIGNAL"
                     [] old = "NoSignal" /\ ~isPresent -> "NOISE"
                     [] old = "Tracking" /\ isPresent -> "SIGNALPRESENT"
                     [] old = "Tracking" /\ ~isPresent -> "ENDOFSIGNAL"]

\* The block after a signal passes, too: the squelch tail.
Allows(indicator) == indicator \in {"STARTOFSIGNAL", "SIGNALPRESENT", "ENDOFSIGNAL"}
----------------------------------------------------------------------------
\* Whether a new client has a socket: one that cannot be made large enough is
\* closed again.
UdpClient(created, resized) == created /\ resized

Squelch(limit) == threshold = limit /\ state = "NoSignal" /\ signalMagnitude = 0

Init ==
    /\ tunerGain = 0 /\ radio_adjustableReceiveGainInDb = 0
    /\ reading = NoBlock /\ line = <<>> /\ turns = 0 /\ blocks = 0
    /\ pc = "idle" /\ block = NoBlock /\ work = [n \in 0..3 |-> <<0, 0>>]
    /\ gainInDb = 0 /\ present = FALSE /\ signalAllowed = FALSE
    /\ Squelch(-200)
    /\ demodulatorMode = "Fm" /\ demodulators = Demodulators
    /\ iqDumpEnabled = FALSE /\ datagrams = <<>>
    /\ socketOpen \in {UdpClient(created, resized) : created, resized \in BOOLEAN}
    /\ command = "none" /\ commands = 0
    /\ verdicts = <<"missed", "missed">> /\ fed = [name \in Names |-> 0]
----------------------------------------------------------------------------
(* The event thread.  A read lasts as long as its samples do; one that      *)
(* fails delivers no byte, and a short one any number.                      *)

BeginRead(amplitude) ==
    /\ reading = NoBlock /\ blocks < MaxBlocks /\ pc # "dead"
    /\ reading' = [NoBlock EXCEPT !.amplitude = amplitude, !.gain = tunerGain, !.turns = turns]
    /\ UNCHANGED <<tunerGain, line, turns, blocks, pc, data, settings, socketOpen>>

EndRead(bytes) ==
    /\ reading # NoBlock /\ Len(line) < MaxBehind /\ pc # "dead"
    /\ line' = Append(line, [reading EXCEPT !.bytes = bytes])
    /\ reading' = NoBlock
    /\ turns' = (turns + (bytes \div 2)) % 4
    /\ blocks' = blocks + 1
    /\ UNCHANGED <<tunerGain, pc, data, settings, socketOpen>>
----------------------------------------------------------------------------
(* The consumer thread in acceptIqData.                                     *)

ConvertBlock ==
    /\ pc = "idle" /\ line # <<>>
    /\ block' = Head(line) /\ line' = Tail(line)
    /\ work' = Convert(block')
    /\ datagrams' = <<>>
    /\ pc' = "dump"
    /\ UNCHANGED <<tunerGain, reading, turns, blocks, gainInDb, present, signalAllowed, state,
                   signalMagnitude, demodulators, verdicts, fed, settings, socketOpen>>

\* At most 2048 bytes per datagram, on an open socket only.
sendData(bytes) ==
    LET full == bytes \div 2048
        rest == bytes % 2048
    IN  [n \in 1..full |-> 2048] \o (IF rest = 0 THEN <<>> ELSE <<rest>>)

DumpBlock ==
    /\ pc = "dump"
    /\ datagrams' = IF iqDumpEnabled /\ socketOpen THEN sendData(block.bytes) ELSE <<>>
    /\ pc' = "squelch"
    /\ UNCHANGED <<radio, block, work, gainInDb, present, signalAllowed, state, signalMagnitude,
                   demodulators, verdicts, fed, settings, socketOpen>>

\* The gain is an argument of the squelch, the threshold is read at the end.
ReadGain ==
    /\ pc = "squelch"
    /\ gainInDb' = radio_adjustableReceiveGainInDb
    /\ pc' = "detect"
    /\ UNCHANGED <<radio, block, work, present, signalAllowed, state, signalMagnitude,
                   demodulators, datagrams, verdicts, fed, settings, socketOpen>>

\* What the antenna's level says, where the block's loudness and the gain that
\* is subtracted are those of one gain and the ADC was not overdriven.
AntennaLevel(amplitude) == convertMagnitudeToDbFs(amplitude)
Overdriven(b) == Amplified(b) > 127
Verdict(b) ==
    IF b.bytes = 0 \/ b.mixed \/ Overdriven(b) \/ b.gain # gainInDb THEN "unsure"
    ELSE IF AntennaLevel(b.amplitude) >= threshold THEN "reached" ELSE "missed"

\* The mean of no sample is a division by zero: it ends the program on some
\* machines and is 0 on others.
Detect ==
    /\ pc = "detect"
    /\ \/ /\ block.bytes > 0
          /\ signalMagnitude' = AverageMagnitude(work, block.bytes \div 2)
          /\ pc' = "track"
       \/ /\ block.bytes = 0
          /\ signalMagnitude' = 0
          /\ pc' \in {"track", "dead"}
    /\ present' = detectSignal(gainInDb, signalMagnitude', threshold)
    /\ verdicts' = <<verdicts[2], Verdict(block)>>
    /\ UNCHANGED <<radio, block, work, gainInDb, signalAllowed, state, demodulators, datagrams,
                   fed, settings, socketOpen>>

Track ==
    /\ pc = "track"
    /\ LET t == SignalTrackerRun(state, present) IN
         /\ state' = t.state
         /\ signalAllowed' = Allows(t.indicator)
    /\ pc' = "demodulate"
    /\ UNCHANGED <<radio, block, work, gainInDb, present, signalMagnitude, demodulators,
                   datagrams, verdicts, fed, settings, socketOpen>>

DemodulatorOf(mode) == CASE mode = "Am" -> "am"
                         [] mode = "Fm" -> "fm"
                         [] mode = "WbFm" -> "wbFm"
                         [] mode \in {"Lsb", "Usb"} -> "ssb"

Accepted(name, bytes) == CASE name = "am" -> AmAcceptIqData(demodulators.am, bytes)
                           [] name = "fm" -> FmAcceptIqData(demodulators.fm, bytes)
                           [] name = "wbFm" -> WbFmAcceptIqData(demodulators.wbFm, bytes)
                           [] name = "ssb" -> SsbAcceptIqData(demodulators.ssb, bytes)

Demodulate ==
    /\ pc = "demodulate"
    /\ IF signalAllowed /\ demodulatorMode # "None"
       THEN LET name == DemodulatorOf(demodulatorMode) IN
            /\ demodulators' = [demodulators EXCEPT ![name] = Accepted(name, block.bytes)]
            /\ fed' = [fed EXCEPT ![name] = @ + (block.bytes \div 2)]
       ELSE UNCHANGED <<demodulators, fed>>
    /\ pc' = "idle"
    /\ UNCHANGED <<radio, block, work, gainInDb, present, signalAllowed, state, signalMagnitude,
                   datagrams, verdicts, settings, socketOpen>>
----------------------------------------------------------------------------
(* The user interface thread.                                               *)

Issues ==
    /\ command = "none" /\ commands < MaxCommands /\ pc # "dead"
    /\ commands' = commands + 1

\* The tuner gets the gain first, the squelch's copy second.
setReceiveIfGainInDb(gain) ==
    /\ Issues
    /\ tunerGain' = gain
    /\ reading' = IF reading # NoBlock /\ gain # tunerGain
                  THEN [reading EXCEPT !.mixed = TRUE] ELSE reading
    /\ command' = "gain"
    /\ UNCHANGED <<line, turns, blocks, pc, data, radio_adjustableReceiveGainInDb, threshold,
                   demodulatorMode, iqDumpEnabled, socketOpen>>

CopyGain ==
    /\ command = "gain" /\ pc # "dead"
    /\ radio_adjustableReceiveGainInDb' = tunerGain
    /\ command' = "none"
    /\ UNCHANGED <<radio, pc, data, threshold, demodulatorMode, iqDumpEnabled, commands,
                   socketOpen>>

\* A threshold out of range is refused.
setSignalDetectThreshold(limit) == IF limit \in -400..10 THEN limit ELSE threshold

cmdSetSquelch(limit) ==
    /\ Issues
    /\ threshold' = setSignalDetectThreshold(limit)
    /\ UNCHANGED <<radio, pc, data, radio_adjustableReceiveGainInDb, demodulatorMode,
                   iqDumpEnabled, command, socketOpen>>

\* The mode first, the sideband of the SSB demodulator second.
setDemodulatorMode(mode) ==
    /\ demodulatorMode' = mode
    /\ command' = IF mode \in {"Lsb", "Usb"} THEN "mode" ELSE "none"

\* Any other number is refused.
cmdSetDemodMode(number) ==
    /\ Issues
    /\ IF number \in 0..5 THEN setDemodulatorMode(demodulatorType[number + 1])
       ELSE UNCHANGED <<demodulatorMode, command>>
    /\ UNCHANGED <<radio, pc, data, radio_adjustableReceiveGainInDb, threshold, iqDumpEnabled,
                   socketOpen>>

Sideband(ssb) == IF demodulatorMode = "Lsb" THEN setLsbDemodulationMode(ssb)
                 ELSE setUsbDemodulationMode(ssb)

SetSideband ==
    /\ command = "mode" /\ pc # "dead"
    /\ demodulators' = [demodulators EXCEPT !.ssb = Sideband(@)]
    /\ command' = "none"
    /\ UNCHANGED <<radio, pc, block, work, gainInDb, present, signalAllowed, state,
                   signalMagnitude, datagrams, verdicts, fed, radio_adjustableReceiveGainInDb,
                   threshold, demodulatorMode, iqDumpEnabled, commands, socketOpen>>

enableIqDump == iqDumpEnabled' = TRUE
disableIqDump == iqDumpEnabled' = FALSE

\* Each command is refused when it would change nothing.
cmdEnableIqDump ==
    /\ Issues /\ ~iqDumpEnabled /\ enableIqDump
    /\ UNCHANGED <<radio, pc, data, radio_adjustableReceiveGainInDb, threshold, demodulatorMode,
                   command, socketOpen>>

cmdDisableIqDump ==
    /\ Issues /\ iqDumpEnabled /\ disableIqDump
    /\ UNCHANGED <<radio, pc, data, radio_adjustableReceiveGainInDb, threshold, demodulatorMode,
                   command, socketOpen>>
----------------------------------------------------------------------------
Next ==
    \/ \E amplitude \in Amplitudes : BeginRead(amplitude)
    \/ \E bytes \in Sizes : EndRead(bytes)
    \/ ConvertBlock \/ DumpBlock \/ ReadGain \/ Detect \/ Track \/ Demodulate
    \/ \E gain \in Gains : setReceiveIfGainInDb(gain)
    \/ CopyGain
    \/ \E limit \in Thresholds : cmdSetSquelch(limit)
    \/ \E number \in Modes : cmdSetDemodMode(number)
    \/ SetSideband
    \/ cmdEnableIqDump \/ cmdDisableIqDump

Spec == Init /\ [][Next]_vars
----------------------------------------------------------------------------
Block == [amplitude : Amplitudes \cup {0}, gain : Gains, mixed : BOOLEAN,
          bytes : Sizes \cup {0}, turns : 0..3]
Kept3 == [s1 : 0..3, s2 : 0..3, s3 : 0..1]
Sample == (-128..127) \X (-128..127)

SettingsOK ==
    /\ tunerGain \in Gains /\ radio_adjustableReceiveGainInDb \in Gains
    /\ threshold \in -400..10 /\ demodulatorMode \in AllModes /\ iqDumpEnabled \in BOOLEAN
    /\ command \in {"none", "gain", "mode"} /\ commands \in 0..MaxCommands

SquelchOK ==
    /\ pc \in {"idle", "dump", "squelch", "detect", "track", "demodulate", "dead"}
    /\ gainInDb \in Gains /\ present \in BOOLEAN /\ signalAllowed \in BOOLEAN
    /\ state \in {"NoSignal", "Tracking"} /\ signalMagnitude \in 0..192
    /\ DOMAIN verdicts = 1..2
    /\ \A n \in 1..2 : verdicts[n] \in {"missed", "reached", "unsure"}

SamplesOK ==
    /\ reading \in Block /\ block \in Block /\ line \in Seq(Block) /\ Len(line) <= MaxBehind
    /\ turns \in 0..3 /\ blocks \in 0..MaxBlocks
    /\ DOMAIN work = 0..3 /\ \A n \in 0..3 : work[n] \in Sample
    /\ datagrams \in Seq(1..2048) /\ socketOpen \in BOOLEAN

\* Every variable has its type: samples stay in 8 bits, magnitudes fit a byte
\* of the detector's buffer and no datagram is empty or above 2048 bytes
\* (IqDataProcessor.cc, SignalDetector.cc, UdpClient.cc).
TypeOK == SettingsOK /\ SquelchOK /\ SamplesOK

\* The turns a channel Fs/4 below the tuned frequency makes are undone
\* exactly: every sample of a block that does not overdrive the ADC is the
\* tone at the phase the block began with, wherever the block began; and
\* between two commands the SSB demodulator takes the sideband of the mode
\* (Radio.cc:618 tunes, IqDataProcessor.cc:567 mixes, :236 selects).
WantedChannelSelected ==
    /\ pc # "idle" /\ ~Overdriven(block) =>
           \A n \in 0..3 : work[n] = Behind(Tone(block), block.turns)
    /\ command # "mode" /\ demodulatorMode \in {"Lsb", "Usb"} =>
           (demodulators.ssb.lsbDemodulationMode <=> demodulatorMode = "Lsb")

\* Whatever the lengths of the blocks, and however often the mode changes
\* between them, each demodulator has sent one PCM sample per 32 pairs it was
\* given, its I and Q decimators are at the same position, and no block
\* writes beyond the end of an array (the acceptIqData functions).
PcmKeepsRate ==
    /\ \A name \in Names :
         /\ demodulators[name].sent = fed[name] \div 32
         /\ demodulators[name].demodulatedData <= DemodulatedSize[name]
         /\ demodulators[name].pcmData <= PcmSize
    /\ \A name \in {"am", "fm", "ssb"} :
         /\ demodulators[name].i = demodulators[name].q
         /\ demodulators[name].iData = demodulators[name].qData
         /\ demodulators[name].iData <= IqSize[name]

\* The squelch judges the antenna, not the gain: a block read, and squelched,
\* under one gain passes when its level before the amplifier reaches the
\* threshold; the block after such a block passes (the tail); a block below
\* the threshold after another below it does not (IqDataProcessor.cc:765,
\* SignalDetector.cc:205, SignalTracker.cc:104, Squelch.cc:227).
SquelchFollowsAntenna ==
    pc # "track" =>
       /\ verdicts[2] = "reached" => signalAllowed
       /\ verdicts[1] = "reached" => signalAllowed
       /\ verdicts = <<"missed", "missed">> => ~signalAllowed
=============================================================================
