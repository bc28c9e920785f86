---------------------------- MODULE Demodulators ----------------------------
(***************************************************************************)
(* The four demodulators (src/radioDiags/*Demodulator): how many samples     *)
(* each step takes, keeps and passes on, in arrays of fixed size.  Between  *)
(* two blocks a demodulator keeps what its decimators have not used yet;    *)
(* nothing resets it when the mode changes.  The values of the samples are  *)
(* left out.                                                                *)
(*                                                                          *)
(* An object is a record: the number of samples each decimator keeps, how   *)
(* many entries of each array the last block has written, and how many PCM  *)
(* samples have gone to the callback (history).                             *)
(***************************************************************************)
EXTENDS Integers

\* A decimator that keeps some samples is given n more.
Stage(factor, kept, n) == [out |-> (kept + n) \div factor, kept |-> (kept + n) % factor]

\* Three decimators in a row, from 256000 S/s over 64000 and 16000 to 8000.
ThreeStages(k, n) ==
    LET a == Stage(4, k.s1, n)
        b == Stage(4, k.s2, a.out)
        c == Stage(2, k.s3, b.out)
    IN  [out |-> c.out, kept |-> [s1 |-> a.kept, s2 |-> b.kept, s3 |-> c.kept]]

None3 == [s1 |-> 0, s2 |-> 0, s3 |-> 0]

\* Bytes 0, 2, 4... of a block are in phase, bytes 1, 3, 5... in quadrature.
InPhase(bytes) == (bytes + 1) \div 2

\* Faulty variant: the loop over the quadrature samples ends one pair early.
QuadratureShort(bytes) == IF bytes = 0 THEN 0 ELSE (bytes - 1) \div 2

Quadrature(bytes) == (bytes + 1) \div 2
----------------------------------------------------------------------------
(* AM.                                                                      *)

AmDemodulator == [i |-> None3, q |-> None3, iData |-> 0, qData |-> 0,
                  demodulatedData |-> 0, pcmData |-> 0, sent |-> 0]

AmReduceSampleRate(d, bytes) ==
    LET i == ThreeStages(d.i, InPhase(bytes))
        q == ThreeStages(d.q, Quadrature(bytes))
    IN  [d EXCEPT !.i = i.kept, !.q = q.kept, !.iData = i.out, !.qData = q.out]

\* One magnitude, freed of its mean, per pair; the count is that of the
\* quadrature samples.
AmDemodulateSignal(d) == [d EXCEPT !.demodulatedData = d.qData]
AmCreatePcmData(d) == [d EXCEPT !.pcmData = d.demodulatedData]
AmSendPcmData(d) == [d EXCEPT !.sent = @ + d.pcmData]

AmAcceptIqData(d, bytes) ==
    AmSendPcmData(AmCreatePcmData(AmDemodulateSignal(AmReduceSampleRate(d, bytes))))
----------------------------------------------------------------------------
(* FM: one decimation before the demodulation, two after it.                *)

FmDemodulator == [i |-> 0, q |-> 0, post |-> 0, audio |-> 0, iData |-> 0, qData |-> 0,
                  demodulatedData |-> 0, pcmData |-> 0, sent |-> 0]

FmReduceSampleRate(d, bytes) ==
    LET i == Stage(4, d.i, InPhase(bytes))
        q == Stage(4, d.q, Quadrature(bytes))
    IN  [d EXCEPT !.i = i.kept, !.q = q.kept, !.iData = i.out, !.qData = q.out]

\* One phase difference per pair.
FmDemodulateSignal(d) == [d EXCEPT !.demodulatedData = d.qData]

FmCreatePcmData(d) ==
    LET p == Stage(4, d.post, d.demodulatedData)
        a == Stage(2, d.audio, p.out)
    IN  [d EXCEPT !.post = p.kept, !.audio = a.kept, !.pcmData = a.out]

FmSendPcmData(d) == [d EXCEPT !.sent = @ + d.pcmData]

FmAcceptIqData(d, bytes) ==
    FmSendPcmData(FmCreatePcmData(FmDemodulateSignal(FmReduceSampleRate(d, bytes))))
----------------------------------------------------------------------------
(* Wideband FM: demodulated at the full rate, all decimation after it.      *)

WbFmDemodulator == [post |-> None3, demodulatedData |-> 0, pcmData |-> 0, sent |-> 0]

WbFmDemodulateSignal(d, bytes) == [d EXCEPT !.demodulatedData = bytes \div 2]

WbFmCreatePcmData(d) ==
    LET p == ThreeStages(d.post, d.demodulatedData)
    IN  [d EXCEPT !.post = p.kept, !.pcmData = p.out]

WbFmSendPcmData(d) == [d EXCEPT !.sent = @ + d.pcmData]

WbFmAcceptIqData(d, bytes) == WbFmSendPcmData(WbFmCreatePcmData(WbFmDemodulateSignal(d, bytes)))
----------------------------------------------------------------------------
(* SSB: decimated like AM; the flag says which sideband is taken.           *)

SsbDemodulator == [i |-> None3, q |-> None3, iData |-> 0, qData |-> 0,
                   demodulatedData |-> 0, pcmData |-> 0, sent |-> 0,
                   lsbDemodulationMode |-> TRUE]

setLsbDemodulationMode(d) == [d EXCEPT !.lsbDemodulationMode = TRUE]
setUsbDemodulationMode(d) == [d EXCEPT !.lsbDemodulationMode = FALSE]

SsbReduceSampleRate(d, bytes) ==
    LET i == ThreeStages(d.i, InPhase(bytes))
        q == ThreeStages(d.q, Quadrature(bytes))
    IN  [d EXCEPT !.i = i.kept, !.q = q.kept, !.iData = i.out, !.qData = q.out]

\* A delayed sample minus (LSB) or plus (USB) a phase-shifted one per pair.
SsbDemodulateSignal(d) == [d EXCEPT !.demodulatedData = d.qData]
SsbCreatePcmData(d) == [d EXCEPT !.pcmData = d.demodulatedData]
SsbSendPcmData(d) == [d EXCEPT !.sent = @ + d.pcmData]

SsbAcceptIqData(d, bytes) ==
    SsbSendPcmData(SsbCreatePcmData(SsbDemodulateSignal(SsbReduceSampleRate(d, bytes))))
----------------------------------------------------------------------------
(* What the four have in common.                                            *)

Names == {"am", "fm", "wbFm", "ssb"}

Demodulators == [am |-> AmDemodulator, fm |-> FmDemodulator,
                 wbFm |-> WbFmDemodulator, ssb |-> SsbDemodulator]

\* The sizes of the arrays in the header files.
IqSize == [am |-> 512, fm |-> 4096, wbFm |-> 0, ssb |-> 512]
DemodulatedSize == [am |-> 512, fm |-> 4096, wbFm |-> 16384, ssb |-> 512]
PcmSize == 512
=============================================================================
