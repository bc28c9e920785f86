-------------------------- MODULE SignalPath_proofs --------------------------
(***************************************************************************)
(* Proofs about SignalPath and Demodulators, for any amplitudes, gains,     *)
(* thresholds and modes, blocks of any even length up to 32768 bytes, and   *)
(* any number of blocks and commands.                                       *)
(***************************************************************************)
EXTENDS SignalPath, SequenceTheorems, FiniteSetTheorems, TLAPS

\* The pairs of a block and the entries of the smaller arrays.
Pairs == 0..16384
Entries == 0..512

(***************************************************************************)
(* Decimators: nothing is lost between two blocks.                          *)
(***************************************************************************)

LEMMA QuarterKeepsCount ==
  ASSUME NEW kept \in 0..3, NEW n \in Nat
  PROVE  /\ Stage(4, kept, n).out \in Nat /\ Stage(4, kept, n).kept \in 0..3
         /\ (4 * Stage(4, kept, n).out) + Stage(4, kept, n).kept = kept + n
BY DEF Stage

LEMMA HalfKeepsCount ==
  ASSUME NEW kept \in 0..1, NEW n \in Nat
  PROVE  /\ Stage(2, kept, n).out \in Nat /\ Stage(2, kept, n).kept \in 0..1
         /\ (2 * Stage(2, kept, n).out) + Stage(2, kept, n).kept = kept + n
BY DEF Stage

\* The pairs three decimators hold back.
Held(k) == k.s1 + (4 * k.s2) + (16 * k.s3)

LEMMA HeldBounds == \A k \in Kept3 : Held(k) \in 0..31
BY DEF Kept3, Held

\* What comes out of three decimators and what they hold back account for
\* every pair; a block of at most 16384 pairs fills at most 512 entries.
LEMMA ThreeStagesKeepCount ==
  ASSUME NEW k \in Kept3, NEW n \in Pairs
  PROVE  \E l \in Kept3, out \in Entries :
            /\ ThreeStages(k, n) = [out |-> out, kept |-> l]
            /\ (32 * out) + Held(l) = Held(k) + n
<1> DEFINE a == Stage(4, k.s1, n)
           b == Stage(4, k.s2, a.out)
           c == Stage(2, k.s3, b.out)
           kept == [s1 |-> a.kept, s2 |-> b.kept, s3 |-> c.kept]
<1>n. n \in Nat
  BY DEF Pairs
<1>m. n <= 16384
  BY DEF Pairs
<1>0. k.s1 \in 0..3 /\ k.s2 \in 0..3 /\ k.s3 \in 0..1
  BY DEF Kept3
<1>1. a.out \in Nat /\ a.kept \in 0..3 /\ (4 * a.out) + a.kept = k.s1 + n
  BY <1>0, <1>n, QuarterKeepsCount
<1> HIDE DEF a
<1>2. b.out \in Nat /\ b.kept \in 0..3 /\ (4 * b.out) + b.kept = k.s2 + a.out
  BY <1>0, <1>1, QuarterKeepsCount
<1> HIDE DEF b
<1>3. c.out \in Nat /\ c.kept \in 0..1 /\ (2 * c.out) + c.kept = k.s3 + b.out
  BY <1>0, <1>2, HalfKeepsCount
<1> HIDE DEF c
<1>4. ThreeStages(k, n) = [out |-> c.out, kept |-> kept]
  BY DEF ThreeStages, a, b, c
<1>5. kept \in Kept3
  BY <1>1, <1>2, <1>3 DEF Kept3
<1>6. Held(kept) = a.kept + (4 * b.kept) + (16 * c.kept)
  BY DEF Held
<1>7. Held(k) = k.s1 + (4 * k.s2) + (16 * k.s3)
  BY DEF Held
<1> HIDE DEF kept
<1>8. (32 * c.out) + Held(kept) = Held(k) + n
  <2>1. PICK s1 \in Nat, s2 \in Nat, s3 \in Nat : s1 = k.s1 /\ s2 = k.s2 /\ s3 = k.s3
    BY <1>0
  <2>2. PICK p \in Nat, q \in Nat, r \in Nat : p = a.out /\ q = b.out /\ r = c.out
    BY <1>1, <1>2, <1>3
  <2>3. PICK x \in Nat, y \in Nat, z \in Nat : x = a.kept /\ y = b.kept /\ z = c.kept
    BY <1>1, <1>2, <1>3
  <2>4. (4 * p) + x = s1 + n /\ (4 * q) + y = s2 + p /\ (2 * r) + z = s3 + q
    BY <1>1, <1>2, <1>3, <2>1, <2>2, <2>3
  <2>5. (32 * r) + (x + (4 * y) + (16 * z)) = (s1 + (4 * s2) + (16 * s3)) + n
    BY <1>n, <2>4
  <2> QED
    BY <1>6, <1>7, <2>1, <2>2, <2>3, <2>5
<1>9. c.out <= 512
  <2>1. PICK before \in Nat, after \in Nat : before = Held(k) /\ before <= 31 /\ after = Held(kept)
    BY <1>5, HeldBounds
  <2>2. PICK r \in Nat : r = c.out
    BY <1>3
  <2>3. (32 * r) + after = before + n
    BY <1>8, <2>1, <2>2
  <2>4. r <= 512
    BY <1>n, <1>m, <2>1, <2>3
  <2> QED
    BY <2>2, <2>4
<1>10. PICK out \in Entries : out = c.out
  BY <1>3, <1>9 DEF Entries
<1>11. PICK l \in Kept3 : l = kept
  BY <1>5
<1>12. ThreeStages(k, n) = [out |-> out, kept |-> l]
  BY <1>4, <1>10, <1>11, Zenon
<1>13. (32 * out) + Held(l) = Held(k) + n
  BY <1>8, <1>10, <1>11
<1> QED
  BY <1>12, <1>13

(***************************************************************************)
(* One block through each demodulator.                                      *)
(***************************************************************************)

LEMMA EvenBlocks ==
  ASSUME NEW n \in Pairs
  PROVE  (2 * n) \div 2 = n /\ InPhase(2 * n) = n /\ Quadrature(2 * n) = n
<1>1. (2 * n) \div 2 = n /\ ((2 * n) + 1) \div 2 = n
  BY DEF Pairs
<1> QED
  BY <1>1 DEF InPhase, Quadrature

\* What was sent and what is held back account for every pair.
LEMMA SentAndHeld ==
  ASSUME NEW k \in Kept3, NEW l \in Kept3, NEW sent \in Nat, NEW out \in Entries,
         NEW pairs \in Nat, NEW n \in Pairs,
         (32 * sent) + Held(k) = pairs, (32 * out) + Held(l) = Held(k) + n
  PROVE  sent + out \in Nat /\ (32 * (sent + out)) + Held(l) = pairs + n
<1>1. PICK before \in Nat, after \in Nat : before = Held(k) /\ after = Held(l)
  BY HeldBounds
<1>0. out \in Nat /\ n \in Nat
  BY DEF Entries, Pairs
<1>2. (32 * sent) + before = pairs /\ (32 * out) + after = before + n
  BY <1>0, <1>1
<1>3. (32 * (sent + out)) + after = pairs + n
  BY <1>0, <1>2
<1> QED
  BY <1>0, <1>1, <1>3

\* An AM demodulator whose I and Q decimators are at the same position.
AmObject(k, o, demodulated, pcm, sent) ==
    [i |-> k, q |-> k, iData |-> o, qData |-> o, demodulatedData |-> demodulated,
     pcmData |-> pcm, sent |-> sent]

\* It has been given so many pairs.
AmInv(d, pairs) ==
    \E k \in Kept3, o \in Entries, demodulated \in Entries, pcm \in Entries, sent \in Nat :
       /\ d = AmObject(k, o, demodulated, pcm, sent)
       /\ (32 * sent) + Held(k) = pairs

LEMMA AmDecimated ==
  ASSUME NEW k, NEW a, NEW b, NEW c, NEW sent, NEW n \in Pairs, NEW l, NEW o,
         ThreeStages(k, n) = [out |-> o, kept |-> l]
  PROVE  AmAcceptIqData(AmObject(k, a, b, c, sent), 2 * n) = AmObject(l, o, o, o, sent + o)
<1>1. /\ ThreeStages(k, InPhase(2 * n)) = [out |-> o, kept |-> l]
      /\ ThreeStages(k, Quadrature(2 * n)) = [out |-> o, kept |-> l]
  BY EvenBlocks, Zenon
<1>2. AmReduceSampleRate(AmObject(k, a, b, c, sent), 2 * n) = AmObject(l, o, b, c, sent)
  <2> DEFINE d == AmObject(k, a, b, c, sent)
             r == [out |-> o, kept |-> l]
             e1 == [d EXCEPT !.i = l]
             e2 == [e1 EXCEPT !.q = l]
             e3 == [e2 EXCEPT !.iData = o]
             e4 == [e3 EXCEPT !.qData = o]
  <2>1. d.i = k /\ d.q = k
    BY DEF AmObject
  <2>2. r.out = o /\ r.kept = l
    OBVIOUS
  <2>3. ThreeStages(d.i, InPhase(2 * n)) = r /\ ThreeStages(d.q, Quadrature(2 * n)) = r
    BY <1>1, <2>1, Zenon
  <2> HIDE DEF r
  <2>4. AmReduceSampleRate(d, 2 * n) =
            [d EXCEPT !.i = r.kept, !.q = r.kept, !.iData = r.out, !.qData = r.out]
    <3> HIDE DEF d
    <3> QED
      BY <2>3, Zenon DEF AmReduceSampleRate
  <2>5. AmReduceSampleRate(d, 2 * n) = e4
    <3> HIDE DEF d
    <3> QED
      BY <2>2, <2>4, Zenon
  <2>6. e1 = [d EXCEPT !.i = l]
    OBVIOUS
  <2> HIDE DEF e1
  <2>7. e1 = [i |-> l, q |-> k, iData |-> a, qData |-> a, demodulatedData |-> b,
              pcmData |-> c, sent |-> sent]
    BY <2>6 DEF AmObject
  <2>8. e2 = [i |-> l, q |-> l, iData |-> a, qData |-> a, demodulatedData |-> b,
              pcmData |-> c, sent |-> sent]
    BY <2>7
  <2> HIDE DEF e2
  <2>9. e3 = [i |-> l, q |-> l, iData |-> o, qData |-> a, demodulatedData |-> b,
              pcmData |-> c, sent |-> sent]
    BY <2>8
  <2> HIDE DEF e3
  <2>10. e4 = [i |-> l, q |-> l, iData |-> o, qData |-> o, demodulatedData |-> b,
               pcmData |-> c, sent |-> sent]
    BY <2>9
  <2> HIDE DEF e4
  <2> QED
    BY <2>5, <2>10, Zenon DEF AmObject
<1>3. AmDemodulateSignal(AmObject(l, o, b, c, sent)) = AmObject(l, o, o, c, sent)
  BY DEF AmDemodulateSignal, AmObject
<1>4. AmCreatePcmData(AmObject(l, o, o, c, sent)) = AmObject(l, o, o, o, sent)
  BY DEF AmCreatePcmData, AmObject
<1>5. AmSendPcmData(AmObject(l, o, o, o, sent)) = AmObject(l, o, o, o, sent + o)
  BY DEF AmSendPcmData, AmObject
<1> QED
  BY <1>2, <1>3, <1>4, <1>5, Zenon DEF AmAcceptIqData

LEMMA AmKeepsCount ==
  ASSUME NEW d, NEW pairs \in Nat, AmInv(d, pairs), NEW n \in Pairs
  PROVE  AmInv(AmAcceptIqData(d, 2 * n), pairs + n)
<1>1. PICK k \in Kept3, a \in Entries, b \in Entries, c \in Entries, sent \in Nat :
         d = AmObject(k, a, b, c, sent) /\ (32 * sent) + Held(k) = pairs
  BY Zenon DEF AmInv
<1>2. PICK l \in Kept3, o \in Entries :
         ThreeStages(k, n) = [out |-> o, kept |-> l] /\ (32 * o) + Held(l) = Held(k) + n
  BY <1>1, ThreeStagesKeepCount
<1>3. AmAcceptIqData(d, 2 * n) = AmObject(l, o, o, o, sent + o)
  BY <1>1, <1>2, AmDecimated
<1>4. sent + o \in Nat /\ (32 * (sent + o)) + Held(l) = pairs + n
  BY <1>1, <1>2, SentAndHeld
<1>5. SUFFICES \E k2 \in Kept3, o2 \in Entries, demodulated \in Entries, pcm \in Entries,
                   s2 \in Nat :
                  /\ AmAcceptIqData(d, 2 * n) = AmObject(k2, o2, demodulated, pcm, s2)
                  /\ (32 * s2) + Held(k2) = pairs + n
  BY Zenon DEF AmInv
<1>6. PICK next \in Nat : next = sent + o
  BY <1>4
<1> WITNESS l \in Kept3, o \in Entries, o \in Entries, o \in Entries, next \in Nat
<1> QED
  BY <1>3, <1>4, <1>6, Zenon

\* An SSB demodulator, which also has a sideband.
SsbObject(k, o, demodulated, pcm, sent, lsb) ==
    [i |-> k, q |-> k, iData |-> o, qData |-> o, demodulatedData |-> demodulated,
     pcmData |-> pcm, sent |-> sent,
     lsbDemodulationMode |-> lsb]

\* It has been given so many pairs.
SsbInv(d, pairs) ==
    \E k \in Kept3, o \in Entries, demodulated \in Entries, pcm \in Entries, sent \in Nat,
       lsb \in BOOLEAN :
       /\ d = SsbObject(k, o, demodulated, pcm, sent, lsb)
       /\ (32 * sent) + Held(k) = pairs

LEMMA SsbDecimated ==
  ASSUME NEW k, NEW a, NEW b, NEW c, NEW sent, NEW n \in Pairs, NEW l, NEW o, NEW lsb,
         ThreeStages(k, n) = [out |-> o, kept |-> l]
  PROVE  SsbAcceptIqData(SsbObject(k, a, b, c, sent, lsb), 2 * n) =
             SsbObject(l, o, o, o, sent + o, lsb)
<1>1. /\ ThreeStages(k, InPhase(2 * n)) = [out |-> o, kept |-> l]
      /\ ThreeStages(k, Quadrature(2 * n)) = [out |-> o, kept |-> l]
  BY EvenBlocks, Zenon
<1>2. SsbReduceSampleRate(SsbObject(k, a, b, c, sent, lsb), 2 * n) =
          SsbObject(l, o, b, c, sent, lsb)
  <2> DEFINE d == SsbObject(k, a, b, c, sent, lsb)
             r == [out |-> o, kept |-> l]
             e1 == [d EXCEPT !.i = l]
             e2 == [e1 EXCEPT !.q = l]
             e3 == [e2 EXCEPT !.iData = o]
             e4 == [e3 EXCEPT !.qData = o]
  <2>1. d.i = k /\ d.q = k
    BY DEF SsbObject
  <2>2. r.out = o /\ r.kept = l
    OBVIOUS
  <2>3. ThreeStages(d.i, InPhase(2 * n)) = r /\ ThreeStages(d.q, Quadrature(2 * n)) = r
    BY <1>1, <2>1, Zenon
  <2> HIDE DEF r
  <2>4. SsbReduceSampleRate(d, 2 * n) =
            [d EXCEPT !.i = r.kept, !.q = r.kept, !.iData = r.out, !.qData = r.out]
    <3> HIDE DEF d
    <3> QED
      BY <2>3, Zenon DEF SsbReduceSampleRate
  <2>5. SsbReduceSampleRate(d, 2 * n) = e4
    <3> HIDE DEF d
    <3> QED
      BY <2>2, <2>4, Zenon
  <2>6. e1 = [d EXCEPT !.i = l]
    OBVIOUS
  <2> HIDE DEF e1
  <2>7. e1 = [i |-> l, q |-> k, iData |-> a, qData |-> a, demodulatedData |-> b,
              pcmData |-> c, sent |-> sent, lsbDemodulationMode |-> lsb]
    BY <2>6 DEF SsbObject
  <2>8. e2 = [i |-> l, q |-> l, iData |-> a, qData |-> a, demodulatedData |-> b,
              pcmData |-> c, sent |-> sent, lsbDemodulationMode |-> lsb]
    BY <2>7
  <2> HIDE DEF e2
  <2>9. e3 = [i |-> l, q |-> l, iData |-> o, qData |-> a, demodulatedData |-> b,
              pcmData |-> c, sent |-> sent, lsbDemodulationMode |-> lsb]
    BY <2>8
  <2> HIDE DEF e3
  <2>10. e4 = [i |-> l, q |-> l, iData |-> o, qData |-> o, demodulatedData |-> b,
               pcmData |-> c, sent |-> sent, lsbDemodulationMode |-> lsb]
    BY <2>9
  <2> HIDE DEF e4
  <2> QED
    BY <2>5, <2>10, Zenon DEF SsbObject
<1>3. SsbDemodulateSignal(SsbObject(l, o, b, c, sent, lsb)) = SsbObject(l, o, o, c, sent, lsb)
  BY DEF SsbDemodulateSignal, SsbObject
<1>4. SsbCreatePcmData(SsbObject(l, o, o, c, sent, lsb)) = SsbObject(l, o, o, o, sent, lsb)
  BY DEF SsbCreatePcmData, SsbObject
<1>5. SsbSendPcmData(SsbObject(l, o, o, o, sent, lsb)) = SsbObject(l, o, o, o, sent + o, lsb)
  BY DEF SsbSendPcmData, SsbObject
<1> QED
  BY <1>2, <1>3, <1>4, <1>5, Zenon DEF SsbAcceptIqData

LEMMA SsbKeepsCount ==
  ASSUME NEW d, NEW pairs \in Nat, SsbInv(d, pairs), NEW n \in Pairs
  PROVE  SsbInv(SsbAcceptIqData(d, 2 * n), pairs + n)
<1>1. PICK k \in Kept3, a \in Entries, b \in Entries, c \in Entries, sent \in Nat, lsb \in BOOLEAN :
         d = SsbObject(k, a, b, c, sent, lsb) /\ (32 * sent) + Held(k) = pairs
  BY Zenon DEF SsbInv
<1>2. PICK l \in Kept3, o \in Entries :
         ThreeStages(k, n) = [out |-> o, kept |-> l] /\ (32 * o) + Held(l) = Held(k) + n
  BY <1>1, ThreeStagesKeepCount
<1>3. SsbAcceptIqData(d, 2 * n) = SsbObject(l, o, o, o, sent + o, lsb)
  BY <1>1, <1>2, SsbDecimated
<1>4. sent + o \in Nat /\ (32 * (sent + o)) + Held(l) = pairs + n
  BY <1>1, <1>2, SentAndHeld
<1>5. SUFFICES \E k2 \in Kept3, o2 \in Entries, demodulated \in Entries, pcm \in Entries,
                   s2 \in Nat, lsb2 \in BOOLEAN :
                  /\ SsbAcceptIqData(d, 2 * n) = SsbObject(k2, o2, demodulated, pcm, s2, lsb2)
                  /\ (32 * s2) + Held(k2) = pairs + n
  BY Zenon DEF SsbInv
<1>6. PICK next \in Nat : next = sent + o
  BY <1>4
<1> WITNESS l \in Kept3, o \in Entries, o \in Entries, o \in Entries, next \in Nat, lsb \in BOOLEAN
<1> QED
  BY <1>3, <1>4, <1>6, Zenon


\* An FM demodulator.  Its three decimators are one before the demodulation and
\* two after it, each keeping what the same stage of AM keeps.
FmObject(k, post, audio, o, demodulated, pcm, sent) ==
    [i |-> k, q |-> k, post |-> post, audio |-> audio, iData |-> o, qData |-> o,
     demodulatedData |-> demodulated, pcmData |-> pcm, sent |-> sent]

FmEntries == 0..4096

FmInv(d, pairs) ==
    \E k \in 0..3, post \in 0..3, audio \in 0..1, o \in FmEntries, demodulated \in FmEntries,
       pcm \in Entries, sent \in Nat :
       /\ d = FmObject(k, post, audio, o, demodulated, pcm, sent)
       /\ (32 * sent) + (k + (4 * post) + (16 * audio)) = pairs

LEMMA FmDecimated ==
  ASSUME NEW k, NEW post, NEW audio, NEW a, NEW b, NEW c, NEW sent, NEW n \in Pairs,
         NEW k2, NEW o, NEW post2, NEW p, NEW audio2, NEW s,
         Stage(4, k, n) = [out |-> o, kept |-> k2],
         Stage(4, post, o) = [out |-> p, kept |-> post2],
         Stage(2, audio, p) = [out |-> s, kept |-> audio2]
  PROVE  FmAcceptIqData(FmObject(k, post, audio, a, b, c, sent), 2 * n) =
             FmObject(k2, post2, audio2, o, o, s, sent + s)
<1>1. /\ Stage(4, k, InPhase(2 * n)) = [out |-> o, kept |-> k2]
      /\ Stage(4, k, Quadrature(2 * n)) = [out |-> o, kept |-> k2]
  BY EvenBlocks, Zenon
<1>2. FmReduceSampleRate(FmObject(k, post, audio, a, b, c, sent), 2 * n) =
          FmObject(k2, post, audio, o, b, c, sent)
  <2> DEFINE d == FmObject(k, post, audio, a, b, c, sent)
             r == [out |-> o, kept |-> k2]
             e1 == [d EXCEPT !.i = k2]
             e2 == [e1 EXCEPT !.q = k2]
             e3 == [e2 EXCEPT !.iData = o]
             e4 == [e3 EXCEPT !.qData = o]
  <2>1. d.i = k /\ d.q = k
    BY DEF FmObject
  <2>2. r.out = o /\ r.kept = k2
    OBVIOUS
  <2>3. Stage(4, d.i, InPhase(2 * n)) = r /\ Stage(4, d.q, Quadrature(2 * n)) = r
    BY <1>1, <2>1, Zenon
  <2> HIDE DEF r
  <2>4. FmReduceSampleRate(d, 2 * n) =
            [d EXCEPT !.i = r.kept, !.q = r.kept, !.iData = r.out, !.qData = r.out]
    <3> HIDE DEF d
    <3> QED
      BY <2>3, Zenon DEF FmReduceSampleRate
  <2>5. FmReduceSampleRate(d, 2 * n) = e4
    <3> HIDE DEF d
    <3> QED
      BY <2>2, <2>4, Zenon
  <2>6. e1 = [d EXCEPT !.i = k2]
    OBVIOUS
  <2> HIDE DEF e1
  <2>7. e1 = [i |-> k2, q |-> k, post |-> post, audio |-> audio, iData |-> a, qData |-> a,
              demodulatedData |-> b, pcmData |-> c, sent |-> sent]
    BY <2>6 DEF FmObject
  <2>8. e2 = [i |-> k2, q |-> k2, post |-> post, audio |-> audio, iData |-> a, qData |-> a,
              demodulatedData |-> b, pcmData |-> c, sent |-> sent]
    BY <2>7
  <2> HIDE DEF e2
  <2>9. e3 = [i |-> k2, q |-> k2, post |-> post, audio |-> audio, iData |-> o, qData |-> a,
              demodulatedData |-> b, pcmData |-> c, sent |-> sent]
    BY <2>8
  <2> HIDE DEF e3
  <2>10. e4 = [i |-> k2, q |-> k2, post |-> post, audio |-> audio, iData |-> o, qData |-> o,
               demodulatedData |-> b, pcmData |-> c, sent |-> sent]
    BY <2>9
  <2> HIDE DEF e4
  <2> QED
    BY <2>5, <2>10, Zenon DEF FmObject
<1>3. FmDemodulateSignal(FmObject(k2, post, audio, o, b, c, sent)) =
          FmObject(k2, post, audio, o, o, c, sent)
  BY DEF FmDemodulateSignal, FmObject
<1>4. FmCreatePcmData(FmObject(k2, post, audio, o, o, c, sent)) =
          FmObject(k2, post2, audio2, o, o, s, sent)
  <2> DEFINE d == FmObject(k2, post, audio, o, o, c, sent)
             f == [out |-> p, kept |-> post2]
             g == [out |-> s, kept |-> audio2]
             e1 == [d EXCEPT !.post = post2]
             e2 == [e1 EXCEPT !.audio = audio2]
             e3 == [e2 EXCEPT !.pcmData = s]
  <2>1. d.post = post /\ d.audio = audio /\ d.demodulatedData = o
    BY DEF FmObject
  <2>2. f.out = p /\ f.kept = post2 /\ g.out = s /\ g.kept = audio2
    OBVIOUS
  <2>3. Stage(4, d.post, d.demodulatedData) = f
    BY <2>1, Zenon
  <2> HIDE DEF f
  <2>4. Stage(2, d.audio, f.out) = g
    <3> HIDE DEF d
    <3> QED
      BY <2>1, <2>2, Zenon
  <2> HIDE DEF g
  <2>5. FmCreatePcmData(d) =
            [d EXCEPT !.post = f.kept, !.audio = g.kept, !.pcmData = g.out]
    <3> HIDE DEF d
    <3> QED
      BY <2>3, <2>4, Zenon DEF FmCreatePcmData
  <2>6. FmCreatePcmData(d) = e3
    <3> HIDE DEF d
    <3> QED
      BY <2>2, <2>5, Zenon
  <2>7. e1 = [d EXCEPT !.post = post2]
    OBVIOUS
  <2> HIDE DEF e1
  <2>8. e1 = [i |-> k2, q |-> k2, post |-> post2, audio |-> audio, iData |-> o, qData |-> o,
              demodulatedData |-> o, pcmData |-> c, sent |-> sent]
    BY <2>7 DEF FmObject
  <2>9. e2 = [i |-> k2, q |-> k2, post |-> post2, audio |-> audio2, iData |-> o, qData |-> o,
              demodulatedData |-> o, pcmData |-> c, sent |-> sent]
    BY <2>8
  <2> HIDE DEF e2
  <2>10. e3 = [i |-> k2, q |-> k2, post |-> post2, audio |-> audio2, iData |-> o, qData |-> o,
               demodulatedData |-> o, pcmData |-> s, sent |-> sent]
    BY <2>9
  <2> HIDE DEF e3
  <2> QED
    BY <2>6, <2>10, Zenon DEF FmObject
<1>5. FmSendPcmData(FmObject(k2, post2, audio2, o, o, s, sent)) =
          FmObject(k2, post2, audio2, o, o, s, sent + s)
  BY DEF FmSendPcmData, FmObject
<1> QED
  BY <1>2, <1>3, <1>4, <1>5, Zenon DEF FmAcceptIqData

\* What a stage gives and keeps, by name.
LEMMA QuarterStage ==
  ASSUME NEW kept \in 0..3, NEW n \in Nat
  PROVE  \E l \in 0..3, out \in Nat :
            Stage(4, kept, n) = [out |-> out, kept |-> l] /\ (4 * out) + l = kept + n
BY DEF Stage

LEMMA HalfStage ==
  ASSUME NEW kept \in 0..1, NEW n \in Nat
  PROVE  \E l \in 0..1, out \in Nat :
            Stage(2, kept, n) = [out |-> out, kept |-> l] /\ (2 * out) + l = kept + n
BY DEF Stage

LEMMA FmKeepsCount ==
  ASSUME NEW d, NEW pairs \in Nat, FmInv(d, pairs), NEW n \in Pairs
  PROVE  FmInv(FmAcceptIqData(d, 2 * n), pairs + n)
<1>1. PICK k \in 0..3, post \in 0..3, audio \in 0..1, a \in FmEntries, b \in FmEntries,
           c \in Entries, sent \in Nat :
         /\ d = FmObject(k, post, audio, a, b, c, sent)
         /\ (32 * sent) + (k + (4 * post) + (16 * audio)) = pairs
  BY Zenon DEF FmInv
<1>n. n \in Nat
  BY DEF Pairs
<1>2. PICK k2 \in 0..3, o \in Nat : Stage(4, k, n) = [out |-> o, kept |-> k2]
                                    /\ (4 * o) + k2 = k + n
  BY <1>1, <1>n, QuarterStage, Zenon
<1>3. PICK post2 \in 0..3, p \in Nat : Stage(4, post, o) = [out |-> p, kept |-> post2]
                                       /\ (4 * p) + post2 = post + o
  BY <1>1, <1>2, QuarterStage, Zenon
<1>4. PICK audio2 \in 0..1, s \in Nat : Stage(2, audio, p) = [out |-> s, kept |-> audio2]
                                        /\ (2 * s) + audio2 = audio + p
  BY <1>1, <1>3, HalfStage, Zenon
<1>5. FmAcceptIqData(d, 2 * n) = FmObject(k2, post2, audio2, o, o, s, sent + s)
  BY <1>1, <1>2, <1>3, <1>4, FmDecimated
<1>6. /\ o \in FmEntries /\ s \in Entries /\ sent + s \in Nat
      /\ (32 * (sent + s)) + (k2 + (4 * post2) + (16 * audio2)) = pairs + n
  <2>1. /\ k \in Nat /\ k <= 3 /\ post \in Nat /\ post <= 3 /\ audio \in Nat /\ audio <= 1
        /\ k2 \in Nat /\ post2 \in Nat /\ audio2 \in Nat
        /\ o \in Nat /\ p \in Nat /\ s \in Nat /\ sent \in Nat
    BY <1>1, <1>2, <1>3, <1>4
  <2>2. n <= 16384
    BY DEF Pairs
  <2>3. (4 * o) + k2 = k + n /\ (4 * p) + post2 = post + o /\ (2 * s) + audio2 = audio + p
    BY <1>2, <1>3, <1>4
  <2>4. o <= 4096
    BY <1>n, <2>1, <2>2, <2>3
  <2>5. p <= 1024
    BY <2>1, <2>3, <2>4
  <2>6. s <= 512
    BY <2>1, <2>3, <2>5
  <2>7. (32 * sent) + (k + (4 * post) + (16 * audio)) = pairs
    BY <1>1
  <2>8. (32 * (sent + s)) + (k2 + (4 * post2) + (16 * audio2)) = pairs + n
    BY <1>n, <2>1, <2>3, <2>7
  <2> QED
    BY <2>1, <2>4, <2>6, <2>8 DEF FmEntries, Entries
<1>7. SUFFICES \E k3 \in 0..3, post3 \in 0..3, audio3 \in 0..1, o3 \in FmEntries,
                  demodulated \in FmEntries, pcm \in Entries, s3 \in Nat :
                  /\ FmAcceptIqData(d, 2 * n) =
                         FmObject(k3, post3, audio3, o3, demodulated, pcm, s3)
                  /\ (32 * s3) + (k3 + (4 * post3) + (16 * audio3)) = pairs + n
  BY Zenon DEF FmInv
<1>8. PICK next \in Nat : next = sent + s
  BY <1>6
<1>9. PICK filled \in FmEntries, pcm \in Entries : filled = o /\ pcm = s
  BY <1>6
<1> WITNESS k2 \in 0..3, post2 \in 0..3, audio2 \in 0..1, filled \in FmEntries,
            filled \in FmEntries, pcm \in Entries, next \in Nat
<1> QED
  BY <1>5, <1>6, <1>8, <1>9, Zenon

\* A wideband FM demodulator.
WbFmObject(k, demodulated, pcm, sent) ==
    [post |-> k, demodulatedData |-> demodulated, pcmData |-> pcm, sent |-> sent]

WbFmInv(d, pairs) ==
    \E k \in Kept3, demodulated \in Pairs, pcm \in Entries, sent \in Nat :
       /\ d = WbFmObject(k, demodulated, pcm, sent)
       /\ (32 * sent) + Held(k) = pairs

LEMMA WbFmDecimated ==
  ASSUME NEW k, NEW b, NEW c, NEW sent, NEW n \in Pairs, NEW l, NEW o,
         ThreeStages(k, n) = [out |-> o, kept |-> l]
  PROVE  WbFmAcceptIqData(WbFmObject(k, b, c, sent), 2 * n) = WbFmObject(l, n, o, sent + o)
<1>1. (2 * n) \div 2 = n
  BY EvenBlocks
<1>2. WbFmDemodulateSignal(WbFmObject(k, b, c, sent), 2 * n) = WbFmObject(k, n, c, sent)
  BY <1>1 DEF WbFmDemodulateSignal, WbFmObject
<1>3. WbFmCreatePcmData(WbFmObject(k, n, c, sent)) = WbFmObject(l, n, o, sent)
  <2> DEFINE d == WbFmObject(k, n, c, sent)
             r == [out |-> o, kept |-> l]
             e1 == [d EXCEPT !.post = l]
             e2 == [e1 EXCEPT !.pcmData = o]
  <2>1. d.post = k /\ d.demodulatedData = n
    BY DEF WbFmObject
  <2>2. r.out = o /\ r.kept = l
    OBVIOUS
  <2>3. ThreeStages(d.post, d.demodulatedData) = r
    BY <2>1, Zenon
  <2> HIDE DEF r
  <2>4. WbFmCreatePcmData(d) = [d EXCEPT !.post = r.kept, !.pcmData = r.out]
    <3> HIDE DEF d
    <3> QED
      BY <2>3, Zenon DEF WbFmCreatePcmData
  <2>5. WbFmCreatePcmData(d) = e2
    <3> HIDE DEF d
    <3> QED
      BY <2>2, <2>4, Zenon
  <2>6. e1 = [d EXCEPT !.post = l]
    OBVIOUS
  <2> HIDE DEF e1
  <2>7. e1 = [post |-> l, demodulatedData |-> n, pcmData |-> c, sent |-> sent]
    BY <2>6 DEF WbFmObject
  <2>8. e2 = [post |-> l, demodulatedData |-> n, pcmData |-> o, sent |-> sent]
    BY <2>7
  <2> HIDE DEF e2
  <2> QED
    BY <2>5, <2>8, Zenon DEF WbFmObject
<1>4. WbFmSendPcmData(WbFmObject(l, n, o, sent)) = WbFmObject(l, n, o, sent + o)
  BY DEF WbFmSendPcmData, WbFmObject
<1> QED
  BY <1>2, <1>3, <1>4, Zenon DEF WbFmAcceptIqData

LEMMA WbFmKeepsCount ==
  ASSUME NEW d, NEW pairs \in Nat, WbFmInv(d, pairs), NEW n \in Pairs
  PROVE  WbFmInv(WbFmAcceptIqData(d, 2 * n), pairs + n)
<1>1. PICK k \in Kept3, b \in Pairs, c \in Entries, sent \in Nat :
         d = WbFmObject(k, b, c, sent) /\ (32 * sent) + Held(k) = pairs
  BY Zenon DEF WbFmInv
<1>2. PICK l \in Kept3, o \in Entries :
         ThreeStages(k, n) = [out |-> o, kept |-> l] /\ (32 * o) + Held(l) = Held(k) + n
  BY <1>1, ThreeStagesKeepCount
<1>3. WbFmAcceptIqData(d, 2 * n) = WbFmObject(l, n, o, sent + o)
  BY <1>1, <1>2, WbFmDecimated
<1>4. sent + o \in Nat /\ (32 * (sent + o)) + Held(l) = pairs + n
  BY <1>1, <1>2, SentAndHeld
<1>5. SUFFICES \E k2 \in Kept3, demodulated \in Pairs, pcm \in Entries, s2 \in Nat :
                  /\ WbFmAcceptIqData(d, 2 * n) = WbFmObject(k2, demodulated, pcm, s2)
                  /\ (32 * s2) + Held(k2) = pairs + n
  BY Zenon DEF WbFmInv
<1>6. PICK next \in Nat : next = sent + o
  BY <1>4
<1> WITNESS l \in Kept3, n \in Pairs, o \in Entries, next \in Nat
<1> QED
  BY <1>3, <1>4, <1>6, Zenon

(***************************************************************************)
(* The signal path: blocks of even length, each to at most one demodulator. *)
(***************************************************************************)

BlocksInv ==
    /\ tunerGain \in Gains /\ turns \in 0..3
    /\ reading \in Block /\ line \in Seq(Block) /\ block \in Block

\* Each demodulator has the pairs it was fed, sent or held back.
DemodulatorsInv ==
    /\ demodulators = [am |-> demodulators.am, fm |-> demodulators.fm,
                       wbFm |-> demodulators.wbFm, ssb |-> demodulators.ssb]
    /\ fed \in [Names -> Nat]
    /\ AmInv(demodulators.am, fed["am"]) /\ FmInv(demodulators.fm, fed["fm"])
    /\ WbFmInv(demodulators.wbFm, fed["wbFm"]) /\ SsbInv(demodulators.ssb, fed["ssb"])

RateInv == BlocksInv /\ demodulatorMode \in AllModes /\ DemodulatorsInv

LEMMA EvenSizes == \A x \in Sizes : \E n \in Pairs : x = 2 * n
BY SizesAssumption DEF Pairs

LEMMA EvenBytes ==
  ASSUME NEW b \in Block
  PROVE  \E n \in Pairs : b.bytes = 2 * n
<1>1. b.bytes \in Sizes \cup {0}
  BY DEF Block
<1>2. 0 \in Pairs /\ 0 = 2 * 0
  BY DEF Pairs
<1>3. \A x \in Sizes : \E n \in Pairs : x = 2 * n
  BY EvenSizes
<1> QED
  BY <1>1, <1>2, <1>3

LEMMA BlocksInvInit == Init => BlocksInv
<1> SUFFICES ASSUME Init PROVE BlocksInv
  OBVIOUS
<1>1. 0 \in Gains
  BY SignalPathAssumption
<1>2. NoBlock \in Block
  BY <1>1 DEF NoBlock, Block
<1> QED
  BY <1>1, <1>2 DEF Init, BlocksInv

LEMMA BlocksInvStep == BlocksInv /\ [Next]_vars => BlocksInv'
<1> SUFFICES ASSUME BlocksInv, [Next]_vars PROVE BlocksInv'
  OBVIOUS
<1>0. 0 \in Gains
  BY SignalPathAssumption
<1>1. CASE \E amplitude \in Amplitudes : BeginRead(amplitude)
  <2>1. PICK amplitude \in Amplitudes : BeginRead(amplitude)
    BY <1>1
  <2>2. reading' \in Block
    BY <2>1 DEF BlocksInv, BeginRead, NoBlock, Block
  <2> QED
    BY <2>1, <2>2 DEF BlocksInv, BeginRead, data
<1>2. CASE \E bytes \in Sizes : EndRead(bytes)
  <2>1. PICK bytes \in Sizes : EndRead(bytes)
    BY <1>2
  <2>2. [reading EXCEPT !.bytes = bytes] \in Block
    BY DEF BlocksInv, Block
  <2>3. line' \in Seq(Block)
    BY <2>1, <2>2, AppendProperties DEF BlocksInv, EndRead
  <2>4. NoBlock \in Block
    BY <1>0 DEF NoBlock, Block
  <2>5. turns' \in 0..3
    <3>1. PICK n \in Pairs : bytes = 2 * n
      BY EvenSizes
    <3>2. bytes \div 2 = n /\ n \in Nat
      BY <3>1, EvenBlocks DEF Pairs
    <3> QED
      BY <2>1, <3>2 DEF EndRead, BlocksInv
  <2> QED
    BY <2>1, <2>3, <2>4, <2>5 DEF BlocksInv, EndRead, data
<1>3. CASE ConvertBlock
  <2>1. Head(line) \in Block /\ Tail(line) \in Seq(Block)
    BY <1>3, HeadTailProperties DEF BlocksInv, ConvertBlock
  <2> QED
    BY <1>3, <2>1 DEF BlocksInv, ConvertBlock
<1>4. CASE \E gain \in Gains : setReceiveIfGainInDb(gain)
  <2>1. PICK gain \in Gains : setReceiveIfGainInDb(gain)
    BY <1>4
  <2>2. [reading EXCEPT !.mixed = TRUE] \in Block
    BY DEF BlocksInv, Block
  <2>3. reading' \in Block
    BY <2>1, <2>2 DEF BlocksInv, setReceiveIfGainInDb
  <2> QED
    BY <2>1, <2>3 DEF BlocksInv, setReceiveIfGainInDb, data
<1>5. CASE UNCHANGED <<tunerGain, turns, reading, line, block>>
  BY <1>5 DEF BlocksInv
<1>6. ASSUME \/ DumpBlock \/ ReadGain \/ Detect \/ Track \/ Demodulate \/ CopyGain
             \/ \E limit \in Thresholds : cmdSetSquelch(limit)
             \/ \E number \in Modes : cmdSetDemodMode(number)
             \/ SetSideband \/ cmdEnableIqDump \/ cmdDisableIqDump \/ UNCHANGED vars
      PROVE  UNCHANGED <<tunerGain, turns, reading, line, block>>
  BY <1>6 DEF DumpBlock, ReadGain, Detect, Track, Demodulate, CopyGain, cmdSetSquelch,
              cmdSetDemodMode, SetSideband, cmdEnableIqDump, cmdDisableIqDump, vars, radio, data
<1> QED
  BY <1>1, <1>2, <1>3, <1>4, <1>5, <1>6 DEF Next

LEMMA ModeStep == demodulatorMode \in AllModes /\ [Next]_vars => demodulatorMode' \in AllModes
<1> SUFFICES ASSUME demodulatorMode \in AllModes, [Next]_vars
             PROVE  demodulatorMode' \in AllModes
  OBVIOUS
<1>1. CASE \E number \in Modes : cmdSetDemodMode(number)
  <2>1. PICK number \in Modes : cmdSetDemodMode(number)
    BY <1>1
  <2>2. CASE number \in 0..5
    <3>1. number + 1 \in 1..6
      BY <2>2
    <3>2. demodulatorType[number + 1] \in AllModes
      BY <3>1, Zenon DEF AllModes
    <3> QED
      BY <2>1, <2>2, <3>2 DEF cmdSetDemodMode, setDemodulatorMode
  <2>3. CASE number \notin 0..5
    BY <2>1, <2>3 DEF cmdSetDemodMode
  <2> QED
    BY <2>2, <2>3
<1>2. ASSUME ~ \E number \in Modes : cmdSetDemodMode(number)
      PROVE  UNCHANGED demodulatorMode
  BY <1>2 DEF Next, BeginRead, EndRead, ConvertBlock, DumpBlock, ReadGain, Detect, Track,
              Demodulate, setReceiveIfGainInDb, CopyGain, cmdSetSquelch, SetSideband,
              cmdEnableIqDump, cmdDisableIqDump, vars, settings
<1> QED
  BY <1>1, <1>2

LEMMA DemodulatorsInvInit == Init => DemodulatorsInv
<1> SUFFICES ASSUME Init PROVE DemodulatorsInv
  OBVIOUS
<1>1. /\ demodulators = [am |-> AmDemodulator, fm |-> FmDemodulator,
                         wbFm |-> WbFmDemodulator, ssb |-> SsbDemodulator]
      /\ fed = [name \in Names |-> 0]
  BY DEF Init, Demodulators
<1>2. None3 \in Kept3 /\ Held(None3) = 0 /\ 0 \in Entries /\ 0 \in FmEntries /\ 0 \in Pairs
  BY DEF None3, Kept3, Held, Entries, FmEntries, Pairs
<1>3. AmInv(AmDemodulator, 0)
  <2>1. AmDemodulator = AmObject(None3, 0, 0, 0, 0)
    BY DEF AmDemodulator, AmObject
  <2> QED
    BY <1>2, <2>1 DEF AmInv
<1>4. FmInv(FmDemodulator, 0)
  <2>1. FmDemodulator = FmObject(0, 0, 0, 0, 0, 0, 0)
    BY DEF FmDemodulator, FmObject
  <2> QED
    BY <1>2, <2>1 DEF FmInv
<1>5. WbFmInv(WbFmDemodulator, 0)
  <2>1. WbFmDemodulator = WbFmObject(None3, 0, 0, 0)
    BY DEF WbFmDemodulator, WbFmObject
  <2> QED
    BY <1>2, <2>1 DEF WbFmInv
<1>6. SsbInv(SsbDemodulator, 0)
  <2>1. SsbDemodulator = SsbObject(None3, 0, 0, 0, 0, TRUE)
    BY DEF SsbDemodulator, SsbObject
  <2>2. (32 * 0) + Held(None3) = 0
    BY <1>2
  <2>3. 0 \in Nat
    OBVIOUS
  <2>4. SUFFICES \E k \in Kept3, o \in Entries, demodulated \in Entries, pcm \in Entries,
                    sent \in Nat, lsb \in BOOLEAN :
                    /\ SsbDemodulator = SsbObject(k, o, demodulated, pcm, sent, lsb)
                    /\ (32 * sent) + Held(k) = 0
    BY Zenon DEF SsbInv
  <2> USE <1>2
  <2> WITNESS None3 \in Kept3, 0 \in Entries, 0 \in Entries, 0 \in Entries, 0 \in Nat,
              TRUE \in BOOLEAN
  <2> QED
    BY <2>1, <2>2
<1>7. /\ demodulators.am = AmDemodulator /\ demodulators.fm = FmDemodulator
      /\ demodulators.wbFm = WbFmDemodulator /\ demodulators.ssb = SsbDemodulator
  BY <1>1
<1>8. /\ fed["am"] = 0 /\ fed["fm"] = 0 /\ fed["wbFm"] = 0 /\ fed["ssb"] = 0
      /\ fed \in [Names -> Nat]
  BY <1>1 DEF Names
<1> QED
  BY <1>1, <1>3, <1>4, <1>5, <1>6, <1>7, <1>8, Zenon DEF DemodulatorsInv

\* The sideband of the SSB demodulator plays no part in the counts.
LEMMA SidebandKeepsCount ==
  ASSUME NEW d, NEW pairs \in Nat, SsbInv(d, pairs), NEW b \in BOOLEAN
  PROVE  SsbInv([d EXCEPT !.lsbDemodulationMode = b], pairs)
<1>1. PICK k \in Kept3, a \in Entries, demodulated \in Entries, c \in Entries, sent \in Nat,
           lsb \in BOOLEAN :
         d = SsbObject(k, a, demodulated, c, sent, lsb) /\ (32 * sent) + Held(k) = pairs
  BY Zenon DEF SsbInv
<1>2. [d EXCEPT !.lsbDemodulationMode = b] = SsbObject(k, a, demodulated, c, sent, b)
  BY <1>1 DEF SsbObject
<1>3. SUFFICES \E k2 \in Kept3, o2 \in Entries, demodulated2 \in Entries, pcm2 \in Entries,
                  s2 \in Nat, lsb2 \in BOOLEAN :
                  /\ [d EXCEPT !.lsbDemodulationMode = b]
                         = SsbObject(k2, o2, demodulated2, pcm2, s2, lsb2)
                  /\ (32 * s2) + Held(k2) = pairs
  BY Zenon DEF SsbInv
<1> WITNESS k \in Kept3, a \in Entries, demodulated \in Entries, c \in Entries,
            sent \in Nat, b \in BOOLEAN
<1> QED
  BY <1>1, <1>2, Zenon

\* Only a demodulated block and a command for the sideband change the
\* demodulators; the block goes to the demodulator of the mode.
LEMMA DemodulatorsInvStep == RateInv /\ [Next]_vars => DemodulatorsInv'
<1> SUFFICES ASSUME RateInv, [Next]_vars PROVE DemodulatorsInv'
  OBVIOUS
<1>1. CASE Demodulate
  <2>1. PICK n \in Pairs : block.bytes = 2 * n
    BY EvenBytes DEF RateInv, BlocksInv
  <2>2. block.bytes \div 2 = n /\ n \in Nat
    BY <2>1, EvenBlocks DEF Pairs
  <2>3. fed \in [Names -> Nat]
    BY DEF RateInv, DemodulatorsInv
  <2>4. fed["am"] \in Nat /\ fed["fm"] \in Nat /\ fed["wbFm"] \in Nat /\ fed["ssb"] \in Nat
    BY <2>3 DEF Names
  <2>5. /\ AmInv(AmAcceptIqData(demodulators.am, block.bytes), fed["am"] + n)
        /\ FmInv(FmAcceptIqData(demodulators.fm, block.bytes), fed["fm"] + n)
        /\ WbFmInv(WbFmAcceptIqData(demodulators.wbFm, block.bytes), fed["wbFm"] + n)
        /\ SsbInv(SsbAcceptIqData(demodulators.ssb, block.bytes), fed["ssb"] + n)
    <3>1. /\ AmInv(demodulators.am, fed["am"]) /\ FmInv(demodulators.fm, fed["fm"])
          /\ WbFmInv(demodulators.wbFm, fed["wbFm"]) /\ SsbInv(demodulators.ssb, fed["ssb"])
      BY DEF RateInv, DemodulatorsInv
    <3> QED
      BY <2>1, <2>4, <3>1, AmKeepsCount, FmKeepsCount, WbFmKeepsCount, SsbKeepsCount
  <2>6. ASSUME NEW name \in Names,
               demodulators' = [demodulators EXCEPT ![name] = Accepted(name, block.bytes)],
               fed' = [fed EXCEPT ![name] = @ + n]
        PROVE  DemodulatorsInv'
    <3>1. demodulators = [am |-> demodulators.am, fm |-> demodulators.fm,
                          wbFm |-> demodulators.wbFm, ssb |-> demodulators.ssb]
      BY DEF RateInv, DemodulatorsInv
    <3>2. fed' \in [Names -> Nat]
      BY <2>2, <2>3, <2>6
    <3>3. CASE name = "am"
      <4>1. demodulators' = [am |-> AmAcceptIqData(demodulators.am, block.bytes),
                             fm |-> demodulators.fm, wbFm |-> demodulators.wbFm,
                             ssb |-> demodulators.ssb]
        BY <2>6, <3>1, <3>3 DEF Accepted
      <4>2. /\ fed'["am"] = fed["am"] + n /\ fed'["fm"] = fed["fm"]
            /\ fed'["wbFm"] = fed["wbFm"] /\ fed'["ssb"] = fed["ssb"]
        BY <2>3, <2>6, <3>3 DEF Names
      <4> QED
        BY <2>5, <3>2, <4>1, <4>2 DEF RateInv, DemodulatorsInv
    <3>4. CASE name = "fm"
      <4>1. demodulators' = [am |-> demodulators.am,
                             fm |-> FmAcceptIqData(demodulators.fm, block.bytes),
                             wbFm |-> demodulators.wbFm, ssb |-> demodulators.ssb]
        BY <2>6, <3>1, <3>4 DEF Accepted
      <4>2. /\ fed'["fm"] = fed["fm"] + n /\ fed'["am"] = fed["am"]
            /\ fed'["wbFm"] = fed["wbFm"] /\ fed'["ssb"] = fed["ssb"]
        BY <2>3, <2>6, <3>4 DEF Names
      <4> QED
        BY <2>5, <3>2, <4>1, <4>2 DEF RateInv, DemodulatorsInv
    <3>5. CASE name = "wbFm"
      <4>1. demodulators' = [am |-> demodulators.am, fm |-> demodulators.fm,
                             wbFm |-> WbFmAcceptIqData(demodulators.wbFm, block.bytes),
                             ssb |-> demodulators.ssb]
        BY <2>6, <3>1, <3>5 DEF Accepted
      <4>2. /\ fed'["wbFm"] = fed["wbFm"] + n /\ fed'["am"] = fed["am"]
            /\ fed'["fm"] = fed["fm"] /\ fed'["ssb"] = fed["ssb"]
        BY <2>3, <2>6, <3>5 DEF Names
      <4> QED
        BY <2>5, <3>2, <4>1, <4>2 DEF RateInv, DemodulatorsInv
    <3>6. CASE name = "ssb"
      <4>1. demodulators' = [am |-> demodulators.am, fm |-> demodulators.fm,
                             wbFm |-> demodulators.wbFm,
                             ssb |-> SsbAcceptIqData(demodulators.ssb, block.bytes)]
        BY <2>6, <3>1, <3>6 DEF Accepted
      <4>2. /\ fed'["ssb"] = fed["ssb"] + n /\ fed'["am"] = fed["am"]
            /\ fed'["fm"] = fed["fm"] /\ fed'["wbFm"] = fed["wbFm"]
        BY <2>3, <2>6, <3>6 DEF Names
      <4> QED
        BY <2>5, <3>2, <4>1, <4>2 DEF RateInv, DemodulatorsInv
    <3> QED
      BY <2>6, <3>3, <3>4, <3>5, <3>6 DEF Names
  <2>7. CASE signalAllowed /\ demodulatorMode # "None"
    <3>1. DemodulatorOf(demodulatorMode) \in Names
      BY <2>7 DEF RateInv, AllModes, demodulatorType, DemodulatorOf, Names
    <3> QED
      BY <1>1, <2>2, <2>6, <2>7, <3>1 DEF Demodulate
  <2>8. CASE ~(signalAllowed /\ demodulatorMode # "None")
    BY <1>1, <2>8 DEF Demodulate, RateInv, DemodulatorsInv
  <2> QED
    BY <2>7, <2>8
<1>2. CASE SetSideband
  <2>1. PICK b \in BOOLEAN : Sideband(demodulators.ssb)
                                 = [demodulators.ssb EXCEPT !.lsbDemodulationMode = b]
    BY DEF Sideband, setLsbDemodulationMode, setUsbDemodulationMode
  <2>2. fed["ssb"] \in Nat
    BY DEF RateInv, DemodulatorsInv, Names
  <2>3. SsbInv(Sideband(demodulators.ssb), fed["ssb"])
    BY <2>1, <2>2, SidebandKeepsCount DEF RateInv, DemodulatorsInv
  <2>4. demodulators = [am |-> demodulators.am, fm |-> demodulators.fm,
                        wbFm |-> demodulators.wbFm, ssb |-> demodulators.ssb]
    BY DEF RateInv, DemodulatorsInv
  <2>5. demodulators' = [am |-> demodulators.am, fm |-> demodulators.fm,
                         wbFm |-> demodulators.wbFm, ssb |-> Sideband(demodulators.ssb)]
    BY <1>2, <2>4 DEF SetSideband
  <2>6. fed' = fed
    BY <1>2 DEF SetSideband
  <2> QED
    BY <2>3, <2>5, <2>6 DEF RateInv, DemodulatorsInv
<1>3. CASE UNCHANGED <<demodulators, fed>>
  BY <1>3 DEF RateInv, DemodulatorsInv
<1>4. ASSUME ~Demodulate, ~SetSideband
      PROVE  UNCHANGED <<demodulators, fed>>
  BY <1>4 DEF Next, BeginRead, EndRead, ConvertBlock, DumpBlock, ReadGain, Detect, Track,
              setReceiveIfGainInDb, CopyGain, cmdSetSquelch, cmdSetDemodMode,
              cmdEnableIqDump, cmdDisableIqDump, vars, data
<1> QED
  BY <1>1, <1>2, <1>3, <1>4

\* Pairs given and PCM samples sent, from the invariant of each demodulator.
LEMMA RateInvImplies == DemodulatorsInv => PcmKeepsRate
<1> SUFFICES ASSUME DemodulatorsInv PROVE PcmKeepsRate
  OBVIOUS
<1>0. fed["am"] \in Nat /\ fed["fm"] \in Nat /\ fed["wbFm"] \in Nat /\ fed["ssb"] \in Nat
  BY DEF DemodulatorsInv, Names
<1>1. /\ demodulators.am.sent = fed["am"] \div 32
      /\ demodulators.am.demodulatedData <= 512 /\ demodulators.am.pcmData <= 512
      /\ demodulators.am.i = demodulators.am.q
      /\ demodulators.am.iData = demodulators.am.qData /\ demodulators.am.iData <= 512
  <2>1. PICK k \in Kept3, a \in Entries, b \in Entries, c \in Entries, sent \in Nat :
           demodulators.am = AmObject(k, a, b, c, sent) /\ (32 * sent) + Held(k) = fed["am"]
    BY Zenon DEF DemodulatorsInv, AmInv
  <2>2. PICK h \in 0..31, pairs \in Nat : h = Held(k) /\ pairs = fed["am"]
    BY <1>0, <2>1, HeldBounds
  <2>3. sent = pairs \div 32
    BY <2>1, <2>2
  <2>4. a <= 512 /\ b <= 512 /\ c <= 512
    BY <2>1 DEF Entries
  <2> QED
    BY <2>1, <2>2, <2>3, <2>4 DEF AmObject
<1>2. /\ demodulators.ssb.sent = fed["ssb"] \div 32
      /\ demodulators.ssb.demodulatedData <= 512 /\ demodulators.ssb.pcmData <= 512
      /\ demodulators.ssb.i = demodulators.ssb.q
      /\ demodulators.ssb.iData = demodulators.ssb.qData /\ demodulators.ssb.iData <= 512
  <2>1. PICK k \in Kept3, a \in Entries, b \in Entries, c \in Entries, sent \in Nat,
             lsb \in BOOLEAN :
           /\ demodulators.ssb = SsbObject(k, a, b, c, sent, lsb)
           /\ (32 * sent) + Held(k) = fed["ssb"]
    BY Zenon DEF DemodulatorsInv, SsbInv
  <2>2. PICK h \in 0..31, pairs \in Nat : h = Held(k) /\ pairs = fed["ssb"]
    BY <1>0, <2>1, HeldBounds
  <2>3. sent = pairs \div 32
    BY <2>1, <2>2
  <2>4. a <= 512 /\ b <= 512 /\ c <= 512
    BY <2>1 DEF Entries
  <2> QED
    BY <2>1, <2>2, <2>3, <2>4 DEF SsbObject
<1>3. /\ demodulators.wbFm.sent = fed["wbFm"] \div 32
      /\ demodulators.wbFm.demodulatedData <= 16384 /\ demodulators.wbFm.pcmData <= 512
  <2>1. PICK k \in Kept3, b \in Pairs, c \in Entries, sent \in Nat :
           demodulators.wbFm = WbFmObject(k, b, c, sent) /\ (32 * sent) + Held(k) = fed["wbFm"]
    BY Zenon DEF DemodulatorsInv, WbFmInv
  <2>2. PICK h \in 0..31, pairs \in Nat : h = Held(k) /\ pairs = fed["wbFm"]
    BY <1>0, <2>1, HeldBounds
  <2>3. sent = pairs \div 32
    BY <2>1, <2>2
  <2>4. b <= 16384 /\ c <= 512
    BY <2>1 DEF Entries, Pairs
  <2> QED
    BY <2>1, <2>2, <2>3, <2>4 DEF WbFmObject
<1>4. /\ demodulators.fm.sent = fed["fm"] \div 32
      /\ demodulators.fm.demodulatedData <= 4096 /\ demodulators.fm.pcmData <= 512
      /\ demodulators.fm.i = demodulators.fm.q
      /\ demodulators.fm.iData = demodulators.fm.qData /\ demodulators.fm.iData <= 4096
  <2>1. PICK k \in 0..3, post \in 0..3, audio \in 0..1, a \in FmEntries, b \in FmEntries,
             c \in Entries, sent \in Nat :
           /\ demodulators.fm = FmObject(k, post, audio, a, b, c, sent)
           /\ (32 * sent) + (k + (4 * post) + (16 * audio)) = fed["fm"]
    BY Zenon DEF DemodulatorsInv, FmInv
  <2>2. PICK pairs \in Nat : pairs = fed["fm"]
    BY <1>0
  <2>3. sent = pairs \div 32
    BY <2>1, <2>2
  <2>4. a <= 4096 /\ b <= 4096 /\ c <= 512
    BY <2>1 DEF Entries, FmEntries
  <2> QED
    BY <2>1, <2>2, <2>3, <2>4 DEF FmObject
<1>5. ASSUME NEW name \in Names
      PROVE  /\ demodulators[name].sent = fed[name] \div 32
             /\ demodulators[name].demodulatedData <= DemodulatedSize[name]
             /\ demodulators[name].pcmData <= PcmSize
  BY <1>1, <1>2, <1>3, <1>4 DEF Names, DemodulatedSize, PcmSize
<1>6. ASSUME NEW name \in {"am", "fm", "ssb"}
      PROVE  /\ demodulators[name].i = demodulators[name].q
             /\ demodulators[name].iData = demodulators[name].qData
             /\ demodulators[name].iData <= IqSize[name]
  BY <1>1, <1>2, <1>4 DEF IqSize
<1> QED
  BY <1>5, <1>6 DEF PcmKeepsRate

(***************************************************************************)
(* For blocks of any even length up to 32768 bytes, in any order, and with  *)
(* the mode changed at any moment, every demodulator sends one PCM sample    *)
(* per 32 pairs it was given, its I and Q decimators stay at the same        *)
(* position and no array is overrun (the acceptIqData functions).           *)
(***************************************************************************)
THEOREM RateKept == Spec => []PcmKeepsRate
<1>1. Init => RateInv
  <2>1. Init => demodulatorMode \in AllModes
    BY DEF Init, AllModes, demodulatorType
  <2> QED
    BY <2>1, BlocksInvInit, DemodulatorsInvInit DEF RateInv
<1>2. RateInv /\ [Next]_vars => RateInv'
  BY BlocksInvStep, ModeStep, DemodulatorsInvStep DEF RateInv
<1>3. RateInv => PcmKeepsRate
  BY RateInvImplies DEF RateInv
<1> QED
  BY <1>1, <1>2, <1>3, PTL DEF Spec

(***************************************************************************)
(* The mixer.                                                               *)
(***************************************************************************)

\* A quarter turn forward for every sample undoes the quarters the ADC sees the
\* channel fall behind, wherever in the turn the block begins.
LEMMA AmplifiedIsNat == \A b \in Block : Amplified(b) \in Nat
<1> SUFFICES ASSUME NEW b \in Block PROVE Amplified(b) \in Nat
  OBVIOUS
<1>1. b.amplitude \in Amplitudes \cup {0} /\ b.gain \in Gains
  BY DEF Block
<1>2. Amplitudes \subseteq 1..127 /\ Gains \subseteq {0, 20, 40}
  BY SignalPathAssumption
<1>3. b.amplitude \in (1..127) \cup {0} /\ b.gain \in {0, 20, 40}
  BY <1>1, <1>2, Zenon
<1>4. b.amplitude \in Nat
  BY <1>3
<1> QED
  BY <1>3, <1>4 DEF Amplified

LEMMA MixerUndoesTurns ==
  ASSUME NEW b \in Block, ~Overdriven(b), NEW n \in 0..3
  PROVE  Convert(b)[n] = Behind(Tone(b), b.turns)
<1>1. PICK a \in 0..127 : a = Amplified(b)
  BY AmplifiedIsNat DEF Overdriven
<1>2. PICK t \in 0..3 : t = b.turns
  BY DEF Block
<1>3. ASSUME NEW m \in 0..3, NEW part \in 1..2
      PROVE  Int8(Raw(Tone(b), b.turns + m)[part] - 128) = Behind(<<a, 0>>, t + m)[part]
  <2>1. Behind(<<a, 0>>, t + m)[part] \in -127..127
    BY DEF Behind
  <2>2. Raw(Tone(b), b.turns + m)[part] = Saturated(Behind(<<a, 0>>, t + m)[part])
    BY <1>1, <1>2 DEF Raw, Tone
  <2>3. ASSUME NEW x \in -127..127 PROVE Int8(Saturated(x) - 128) = x
    BY DEF Saturated, Int8
  <2> QED
    BY <2>1, <2>2, <2>3
<1> DEFINE s == [m \in 0..3 |-> [part \in 1..2 |->
                     Int8(Raw(Tone(b), b.turns + m)[part] - 128)]]
<1>4. ASSUME NEW m \in 0..3 PROVE s[m] = Behind(<<a, 0>>, t + m)
  <2>1. s[m] = [part \in 1..2 |-> Behind(<<a, 0>>, t + m)[part]]
    BY <1>3
  <2>2. Behind(<<a, 0>>, t + m) = <<Behind(<<a, 0>>, t + m)[1], Behind(<<a, 0>>, t + m)[2]>>
    BY DEF Behind
  <2> QED
    BY <2>1, <2>2
<1>5. Convert(b) = upconvertByFsOver4(s)
  BY DEF Convert
<1> HIDE DEF s
<1>6. ASSUME NEW x \in -127..127 PROVE Negated(x) = -x
  BY DEF Negated, Int8
<1>7. Behind(Tone(b), b.turns) = Behind(<<a, 0>>, t)
  BY <1>1, <1>2 DEF Tone
<1>8. upconvertByFsOver4(s)[n] = Behind(<<a, 0>>, t)
  <2>1. CASE n = 0
    BY <2>1, <1>4 DEF upconvertByFsOver4
  <2>2. CASE n = 1
    <3>1. upconvertByFsOver4(s)[1] = <<Negated(s[1][2]), s[1][1]>>
      BY DEF upconvertByFsOver4
    <3>2. s[1] = Behind(<<a, 0>>, t + 1)
      BY <1>4
    <3> QED
      BY <2>2, <3>1, <3>2, <1>6 DEF Behind
  <2>3. CASE n = 2
    <3>1. upconvertByFsOver4(s)[2] = <<Negated(s[2][1]), Negated(s[2][2])>>
      BY DEF upconvertByFsOver4
    <3>2. s[2] = Behind(<<a, 0>>, t + 2)
      BY <1>4
    <3> QED
      BY <2>3, <3>1, <3>2, <1>6 DEF Behind
  <2>4. CASE n = 3
    <3>1. upconvertByFsOver4(s)[3] = <<s[3][2], Negated(s[3][1])>>
      BY DEF upconvertByFsOver4
    <3>2. s[3] = Behind(<<a, 0>>, t + 3)
      BY <1>4
    <3> QED
      BY <2>4, <3>1, <3>2, <1>6 DEF Behind
  <2> QED
    BY <2>1, <2>2, <2>3, <2>4
<1> QED
  BY <1>5, <1>7, <1>8

\* Whatever the ADC sees, a block is made of pairs of 8-bit numbers after the
\* mixer, too.
LEMMA MixedSamples ==
  ASSUME NEW b \in Block
  PROVE  DOMAIN Convert(b) = 0..3 /\ \A n \in 0..3 : Convert(b)[n] \in Sample
<1>1. PICK a \in Nat, t \in 0..3 : a = Amplified(b) /\ t = b.turns
  BY AmplifiedIsNat DEF Block
<1> DEFINE s == [m \in 0..3 |-> [part \in 1..2 |->
                     Int8(Raw(Tone(b), b.turns + m)[part] - 128)]]
<1>2. ASSUME NEW x \in -128..127 PROVE Negated(x) \in -128..127
  BY DEF Negated, Int8
<1>3. ASSUME NEW m \in 0..3, NEW part \in 1..2 PROVE s[m][part] \in -128..127
  <2>1. Behind(<<a, 0>>, t + m)[part] \in Int
    BY DEF Behind
  <2>2. Raw(Tone(b), b.turns + m)[part] = Saturated(Behind(<<a, 0>>, t + m)[part])
    BY <1>1 DEF Raw, Tone
  <2>3. Raw(Tone(b), b.turns + m)[part] \in 0..255
    BY <2>1, <2>2 DEF Saturated
  <2>4. Int8(Raw(Tone(b), b.turns + m)[part] - 128) \in -128..127
    BY <2>3 DEF Int8
  <2> QED
    BY <2>4
<1>4. Convert(b) = upconvertByFsOver4(s)
  BY DEF Convert
<1>5. s[0] \in Sample
  <2>1. s[0] = <<s[0][1], s[0][2]>>
    OBVIOUS
  <2> HIDE DEF s
  <2>2. s[0][1] \in -128..127 /\ s[0][2] \in -128..127
    BY <1>3
  <2> QED
    BY <2>1, <2>2 DEF Sample
<1> HIDE DEF s
<1>6. DOMAIN upconvertByFsOver4(s) = 0..3
  BY DEF upconvertByFsOver4
<1>7. ASSUME NEW n \in 0..3 PROVE upconvertByFsOver4(s)[n] \in Sample
  <2>1. /\ upconvertByFsOver4(s)[0] = s[0]
        /\ upconvertByFsOver4(s)[1] = <<Negated(s[1][2]), s[1][1]>>
        /\ upconvertByFsOver4(s)[2] = <<Negated(s[2][1]), Negated(s[2][2])>>
        /\ upconvertByFsOver4(s)[3] = <<s[3][2], Negated(s[3][1])>>
    BY DEF upconvertByFsOver4
  <2>2. /\ s[1][1] \in -128..127 /\ s[1][2] \in -128..127
        /\ s[2][1] \in -128..127 /\ s[2][2] \in -128..127
        /\ s[3][1] \in -128..127 /\ s[3][2] \in -128..127
    BY <1>3
  <2>3. /\ Negated(s[1][2]) \in -128..127 /\ Negated(s[2][1]) \in -128..127
        /\ Negated(s[2][2]) \in -128..127 /\ Negated(s[3][1]) \in -128..127
    BY <1>2, <2>2
  <2> QED
    BY <1>5, <2>1, <2>2, <2>3 DEF Sample
<1> QED
  BY <1>4, <1>6, <1>7

(***************************************************************************)
(* Magnitudes.                                                              *)
(***************************************************************************)

LEMMA MagnitudeBounds == \A s \in Sample : Magnitude(s) \in 0..192
<1> SUFFICES ASSUME NEW s \in Sample PROVE Magnitude(s) \in 0..192
  OBVIOUS
<1>1. PICK x \in -128..127, y \in -128..127 : x = s[1] /\ y = s[2]
  BY DEF Sample
<1>2. Abs(x) \in 0..128 /\ Abs(y) \in 0..128
  BY DEF Abs
<1>3. PICK u \in 0..128, v \in 0..128 : u = Abs(x) /\ v = Abs(y)
  BY <1>2
<1>4. Larger(u, v) \in 0..128 /\ Smaller(u, v) \div 2 \in 0..64
  BY DEF Larger, Smaller
<1> QED
  BY <1>1, <1>3, <1>4 DEF Magnitude

\* A sample that lies on an axis has the magnitude of the tone.
LEMMA MagnitudeOfTone ==
  ASSUME NEW a \in Nat, NEW t \in 0..3
  PROVE  Magnitude(Behind(<<a, 0>>, t)) = a
<1>1. \/ Behind(<<a, 0>>, t) = <<a, 0>> \/ Behind(<<a, 0>>, t) = <<0, -a>>
      \/ Behind(<<a, 0>>, t) = <<-a, -0>> \/ Behind(<<a, 0>>, t) = <<-0, a>>
  BY DEF Behind
<1>2. -0 = 0
  <2>1. \A z \in Int : -z = 0 - z
    OBVIOUS
  <2>2. 0 \in Int /\ 0 - 0 = 0
    OBVIOUS
  <2> QED
    BY <2>1, <2>2, Zenon
<1>3. Abs(a) = a /\ Abs(0) = 0
  BY DEF Abs
<1>4. Abs(-a) = a
  BY DEF Abs
<1>5. Larger(a, 0) = a /\ Larger(0, a) = a /\ Smaller(a, 0) \div 2 = 0 /\ Smaller(0, a) \div 2 = 0
  BY DEF Larger, Smaller
<1> QED
  BY <1>1, <1>2, <1>3, <1>4, <1>5 DEF Magnitude

\* The four classes of samples divide the pairs of a block among them.
LEMMA ClassSizes ==
  ASSUME NEW pairs \in Nat
  PROVE  \E c0 \in Nat, c1 \in Nat, c2 \in Nat, c3 \in Nat :
           /\ c0 = (pairs + 3 - 0) \div 4 /\ c1 = (pairs + 3 - 1) \div 4
           /\ c2 = (pairs + 3 - 2) \div 4 /\ c3 = (pairs + 3 - 3) \div 4
           /\ c0 + c1 + c2 + c3 = pairs
OBVIOUS

LEMMA AverageBounds ==
  ASSUME NEW s, \A n \in 0..3 : s[n] \in Sample, NEW pairs \in Nat \ {0}
  PROVE  AverageMagnitude(s, pairs) \in 0..192
<1>1. PICK m0 \in 0..192, m1 \in 0..192, m2 \in 0..192, m3 \in 0..192 :
         /\ m0 = Magnitude(s[0]) /\ m1 = Magnitude(s[1])
         /\ m2 = Magnitude(s[2]) /\ m3 = Magnitude(s[3])
  <2>1. \A n \in 0..3 : Magnitude(s[n]) \in 0..192
    BY MagnitudeBounds
  <2>2. /\ Magnitude(s[0]) \in 0..192 /\ Magnitude(s[1]) \in 0..192
        /\ Magnitude(s[2]) \in 0..192 /\ Magnitude(s[3]) \in 0..192
    BY <2>1
  <2> QED
    BY <2>2, Zenon
<1>2. PICK c0 \in Nat, c1 \in Nat, c2 \in Nat, c3 \in Nat :
         /\ c0 = (pairs + 3 - 0) \div 4 /\ c1 = (pairs + 3 - 1) \div 4
         /\ c2 = (pairs + 3 - 2) \div 4 /\ c3 = (pairs + 3 - 3) \div 4
         /\ c0 + c1 + c2 + c3 = pairs
  BY ClassSizes
<1>3. AverageMagnitude(s, pairs) = (m0 * c0 + m1 * c1 + m2 * c2 + m3 * c3) \div pairs
  BY <1>1, <1>2 DEF AverageMagnitude
<1>4. ASSUME NEW m \in 0..192, NEW c \in Nat PROVE m * c \in Nat /\ m * c <= 192 * c
  OBVIOUS
<1>5. PICK sum \in Nat : sum = m0 * c0 + m1 * c1 + m2 * c2 + m3 * c3 /\ sum <= 192 * pairs
  <2>1. /\ m0 * c0 \in Nat /\ m0 * c0 <= 192 * c0 /\ m1 * c1 \in Nat /\ m1 * c1 <= 192 * c1
        /\ m2 * c2 \in Nat /\ m2 * c2 <= 192 * c2 /\ m3 * c3 \in Nat /\ m3 * c3 <= 192 * c3
    BY <1>4
  <2>2. PICK p0 \in Nat, p1 \in Nat, p2 \in Nat, p3 \in Nat :
           p0 = m0 * c0 /\ p1 = m1 * c1 /\ p2 = m2 * c2 /\ p3 = m3 * c3
    BY <2>1
  <2>3. p0 + p1 + p2 + p3 \in Nat /\ p0 + p1 + p2 + p3 <= 192 * pairs
    <3>1. p0 <= 192 * c0 /\ p1 <= 192 * c1 /\ p2 <= 192 * c2 /\ p3 <= 192 * c3
      BY <2>1, <2>2
    <3> QED
      BY <1>2, <3>1
  <2> QED
    BY <2>2, <2>3, Zenon
<1>6. sum \div pairs \in 0..192
  BY <1>5
<1> QED
  BY <1>3, <1>5, <1>6

\* A steady block has the magnitude of its samples.
LEMMA AverageOfTone ==
  ASSUME NEW s, NEW m \in Nat, \A n \in 0..3 : Magnitude(s[n]) = m, NEW pairs \in Nat \ {0}
  PROVE  AverageMagnitude(s, pairs) = m
<1>1. PICK c0 \in Nat, c1 \in Nat, c2 \in Nat, c3 \in Nat :
         /\ c0 = (pairs + 3 - 0) \div 4 /\ c1 = (pairs + 3 - 1) \div 4
         /\ c2 = (pairs + 3 - 2) \div 4 /\ c3 = (pairs + 3 - 3) \div 4
         /\ c0 + c1 + c2 + c3 = pairs
  BY ClassSizes
<1>0. /\ Magnitude(s[0]) = m /\ Magnitude(s[1]) = m
      /\ Magnitude(s[2]) = m /\ Magnitude(s[3]) = m
  OBVIOUS
<1>2. AverageMagnitude(s, pairs) = (m * c0 + m * c1 + m * c2 + m * c3) \div pairs
  BY <1>0, <1>1 DEF AverageMagnitude
<1>3. m * c0 + m * c1 + m * c2 + m * c3 = m * pairs
  BY <1>1
<1>4. (m * pairs) \div pairs = m
  OBVIOUS
<1> QED
  BY <1>2, <1>3, <1>4

(***************************************************************************)
(* Decibels.                                                                *)
(***************************************************************************)

\* The decibels of a magnitude are the last that it reaches.
LEMMA Decibels ==
  ASSUME NEW m \in 0..127, NEW k \in 0..42,
         \A d \in 1..42 : LeastMagnitude[d] <= m <=> d <= k
  PROVE  dbTable[m] = k
<1>1. DOMAIN LeastMagnitude = 1..42
  BY DEF LeastMagnitude
<1>2. {d \in DOMAIN LeastMagnitude : LeastMagnitude[d] <= m} = 1..k
  BY <1>1
<1>3. Cardinality(1..k) = k
  <2>1. 1 \in Int /\ k \in Int /\ (IF 1 > k THEN 0 ELSE k - 1 + 1) = k
    OBVIOUS
  <2>2. Cardinality(1..k) = IF 1 > k THEN 0 ELSE k - 1 + 1
    BY <2>1, FS_Interval, Zenon
  <2> QED
    BY <2>1, <2>2
<1> QED
  BY <1>2, <1>3 DEF dbTable, fullScaleValue

\* The entries of the table for these magnitudes.
LEMMA SomeDecibels ==
  /\ dbTable[1] = 0 /\ dbTable[2] = 6 /\ dbTable[3] = 9 /\ dbTable[4] = 12
  /\ dbTable[5] = 13 /\ dbTable[6] = 15 /\ dbTable[7] = 16 /\ dbTable[8] = 18
  /\ dbTable[9] = 19 /\ dbTable[10] = 20 /\ dbTable[11] = 20 /\ dbTable[12] = 21
  /\ dbTable[20] = 26 /\ dbTable[30] = 29 /\ dbTable[40] = 32 /\ dbTable[50] = 33
  /\ dbTable[60] = 35 /\ dbTable[70] = 36 /\ dbTable[80] = 38 /\ dbTable[90] = 39
  /\ dbTable[100] = 40 /\ dbTable[110] = 40 /\ dbTable[120] = 41
<1>1. dbTable[1] = 0
  <2>1. \A d \in 1..42 : LeastMagnitude[d] <= 1 <=> d <= 0
    BY DEF LeastMagnitude
  <2>2. 1 \in 0..127 /\ 0 \in 0..42
    OBVIOUS
  <2> QED
    BY <2>1, <2>2, Decibels, Zenon
<1>2. dbTable[2] = 6
  <2>1. \A d \in 1..42 : LeastMagnitude[d] <= 2 <=> d <= 6
    BY DEF LeastMagnitude
  <2>2. 2 \in 0..127 /\ 6 \in 0..42
    OBVIOUS
  <2> QED
    BY <2>1, <2>2, Decibels, Zenon
<1>3. dbTable[3] = 9
  <2>1. \A d \in 1..42 : LeastMagnitude[d] <= 3 <=> d <= 9
    BY DEF LeastMagnitude
  <2>2. 3 \in 0..127 /\ 9 \in 0..42
    OBVIOUS
  <2> QED
    BY <2>1, <2>2, Decibels, Zenon
<1>4. dbTable[4] = 12
  <2>1. \A d \in 1..42 : LeastMagnitude[d] <= 4 <=> d <= 12
    BY DEF LeastMagnitude
  <2>2. 4 \in 0..127 /\ 12 \in 0..42
    OBVIOUS
  <2> QED
    BY <2>1, <2>2, Decibels, Zenon
<1>5. dbTable[5] = 13
  <2>1. \A d \in 1..42 : LeastMagnitude[d] <= 5 <=> d <= 13
    BY DEF LeastMagnitude
  <2>2. 5 \in 0..127 /\ 13 \in 0..42
    OBVIOUS
  <2> QED
    BY <2>1, <2>2, Decibels, Zenon
<1>6. dbTable[6] = 15
  <2>1. \A d \in 1..42 : LeastMagnitude[d] <= 6 <=> d <= 15
    BY DEF LeastMagnitude
  <2>2. 6 \in 0..127 /\ 15 \in 0..42
    OBVIOUS
  <2> QED
    BY <2>1, <2>2, Decibels, Zenon
<1>7. dbTable[7] = 16
  <2>1. \A d \in 1..42 : LeastMagnitude[d] <= 7 <=> d <= 16
    BY DEF LeastMagnitude
  <2>2. 7 \in 0..127 /\ 16 \in 0..42
    OBVIOUS
  <2> QED
    BY <2>1, <2>2, Decibels, Zenon
<1>8. dbTable[8] = 18
  <2>1. \A d \in 1..42 : LeastMagnitude[d] <= 8 <=> d <= 18
    BY DEF LeastMagnitude
  <2>2. 8 \in 0..127 /\ 18 \in 0..42
    OBVIOUS
  <2> QED
    BY <2>1, <2>2, Decibels, Zenon
<1>9. dbTable[9] = 19
  <2>1. \A d \in 1..42 : LeastMagnitude[d] <= 9 <=> d <= 19
    BY DEF LeastMagnitude
  <2>2. 9 \in 0..127 /\ 19 \in 0..42
    OBVIOUS
  <2> QED
    BY <2>1, <2>2, Decibels, Zenon
<1>10. dbTable[10] = 20
  <2>1. \A d \in 1..42 : LeastMagnitude[d] <= 10 <=> d <= 20
    BY DEF LeastMagnitude
  <2>2. 10 \in 0..127 /\ 20 \in 0..42
    OBVIOUS
  <2> QED
    BY <2>1, <2>2, Decibels, Zenon
<1>11. dbTable[11] = 20
  <2>1. \A d \in 1..42 : LeastMagnitude[d] <= 11 <=> d <= 20
    BY DEF LeastMagnitude
  <2>2. 11 \in 0..127 /\ 20 \in 0..42
    OBVIOUS
  <2> QED
    BY <2>1, <2>2, Decibels, Zenon
<1>12. dbTable[12] = 21
  <2>1. \A d \in 1..42 : LeastMagnitude[d] <= 12 <=> d <= 21
    BY DEF LeastMagnitude
  <2>2. 12 \in 0..127 /\ 21 \in 0..42
    OBVIOUS
  <2> QED
    BY <2>1, <2>2, Decibels, Zenon
<1>13. dbTable[20] = 26
  <2>1. \A d \in 1..42 : LeastMagnitude[d] <= 20 <=> d <= 26
    BY DEF LeastMagnitude
  <2>2. 20 \in 0..127 /\ 26 \in 0..42
    OBVIOUS
  <2> QED
    BY <2>1, <2>2, Decibels, Zenon
<1>14. dbTable[30] = 29
  <2>1. \A d \in 1..42 : LeastMagnitude[d] <= 30 <=> d <= 29
    BY DEF LeastMagnitude
  <2>2. 30 \in 0..127 /\ 29 \in 0..42
    OBVIOUS
  <2> QED
    BY <2>1, <2>2, Decibels, Zenon
<1>15. dbTable[40] = 32
  <2>1. \A d \in 1..42 : LeastMagnitude[d] <= 40 <=> d <= 32
    BY DEF LeastMagnitude
  <2>2. 40 \in 0..127 /\ 32 \in 0..42
    OBVIOUS
  <2> QED
    BY <2>1, <2>2, Decibels, Zenon
<1>16. dbTable[50] = 33
  <2>1. \A d \in 1..42 : LeastMagnitude[d] <= 50 <=> d <= 33
    BY DEF LeastMagnitude
  <2>2. 50 \in 0..127 /\ 33 \in 0..42
    OBVIOUS
  <2> QED
    BY <2>1, <2>2, Decibels, Zenon
<1>17. dbTable[60] = 35
  <2>1. \A d \in 1..42 : LeastMagnitude[d] <= 60 <=> d <= 35
    BY DEF LeastMagnitude
  <2>2. 60 \in 0..127 /\ 35 \in 0..42
    OBVIOUS
  <2> QED
    BY <2>1, <2>2, Decibels, Zenon
<1>18. dbTable[70] = 36
  <2>1. \A d \in 1..42 : LeastMagnitude[d] <= 70 <=> d <= 36
    BY DEF LeastMagnitude
  <2>2. 70 \in 0..127 /\ 36 \in 0..42
    OBVIOUS
  <2> QED
    BY <2>1, <2>2, Decibels, Zenon
<1>19. dbTable[80] = 38
  <2>1. \A d \in 1..42 : LeastMagnitude[d] <= 80 <=> d <= 38
    BY DEF LeastMagnitude
  <2>2. 80 \in 0..127 /\ 38 \in 0..42
    OBVIOUS
  <2> QED
    BY <2>1, <2>2, Decibels, Zenon
<1>20. dbTable[90] = 39
  <2>1. \A d \in 1..42 : LeastMagnitude[d] <= 90 <=> d <= 39
    BY DEF LeastMagnitude
  <2>2. 90 \in 0..127 /\ 39 \in 0..42
    OBVIOUS
  <2> QED
    BY <2>1, <2>2, Decibels, Zenon
<1>21. dbTable[100] = 40
  <2>1. \A d \in 1..42 : LeastMagnitude[d] <= 100 <=> d <= 40
    BY DEF LeastMagnitude
  <2>2. 100 \in 0..127 /\ 40 \in 0..42
    OBVIOUS
  <2> QED
    BY <2>1, <2>2, Decibels, Zenon
<1>22. dbTable[110] = 40
  <2>1. \A d \in 1..42 : LeastMagnitude[d] <= 110 <=> d <= 40
    BY DEF LeastMagnitude
  <2>2. 110 \in 0..127 /\ 40 \in 0..42
    OBVIOUS
  <2> QED
    BY <2>1, <2>2, Decibels, Zenon
<1>23. dbTable[120] = 41
  <2>1. \A d \in 1..42 : LeastMagnitude[d] <= 120 <=> d <= 41
    BY DEF LeastMagnitude
  <2>2. 120 \in 0..127 /\ 41 \in 0..42
    OBVIOUS
  <2> QED
    BY <2>1, <2>2, Decibels, Zenon
<1> QED
  BY <1>1, <1>2, <1>3, <1>4, <1>5, <1>6, <1>7, <1>8, <1>9, <1>10, <1>11, <1>12, <1>13,
     <1>14, <1>15, <1>16, <1>17, <1>18, <1>19, <1>20, <1>21, <1>22, <1>23

LEMMA DecibelsAreIntegers == \A m \in 0..127 : dbTable[m] \in Int
<1> SUFFICES ASSUME NEW m \in 0..127 PROVE dbTable[m] \in Int
  OBVIOUS
<1> DEFINE reached == {d \in DOMAIN LeastMagnitude : LeastMagnitude[d] <= m}
<1>1. reached \subseteq 1..42
  BY DEF LeastMagnitude
<1>2. IsFiniteSet(1..42)
  <2>1. 1 \in Int /\ 42 \in Int
    OBVIOUS
  <2> QED
    BY <2>1, FS_Interval, Zenon
<1>3. IsFiniteSet(reached)
  BY <1>1, <1>2, FS_Subset
<1>4. Cardinality(reached) \in Nat
  BY <1>3, FS_CardinalityType
<1>5. dbTable[m] = Cardinality(reached)
  BY DEF dbTable, fullScaleValue
<1> QED
  BY <1>4, <1>5

LEMMA DecibelsOfFullScale == dbTable[127] = 42
<1>1. \A d \in 1..42 : LeastMagnitude[d] <= 127 <=> d <= 42
  BY DEF LeastMagnitude
<1>2. 127 \in 0..127 /\ 42 \in 0..42
  OBVIOUS
<1> QED
  BY <1>1, <1>2, Decibels, Zenon

LEMMA TenfoldIs20Decibels ==
  \A a \in 1..12 : dbTable[10 * a] = dbTable[a] + 20
BY SomeDecibels

(***************************************************************************)
(* Types.                                                                   *)
(***************************************************************************)

\* A block being read is not among those counted yet.
ReadingCounted == reading # NoBlock => blocks < MaxBlocks

TypeInv == TypeOK /\ ReadingCounted

LEMMA TypeInvInit == Init => TypeInv
<1> SUFFICES ASSUME Init PROVE TypeInv
  OBVIOUS
<1>1. 0 \in Gains /\ MaxBlocks \in Nat /\ MaxBehind \in Nat /\ MaxCommands \in Nat
  BY SignalPathAssumption
<1>2. SettingsOK
  <2>1. demodulatorMode \in AllModes
    BY DEF Init, AllModes, demodulatorType
  <2>2. threshold \in -400..10
    BY DEF Init, Squelch
  <2>3. /\ tunerGain = 0 /\ radio_adjustableReceiveGainInDb = 0 /\ iqDumpEnabled = FALSE
        /\ command = "none" /\ commands = 0
    BY DEF Init
  <2>4. 0 \in 0..MaxCommands
    BY <1>1
  <2> QED
    BY <1>1, <2>1, <2>2, <2>3, <2>4, Zenon DEF SettingsOK
<1>3. SquelchOK
  <2>1. verdicts = <<"missed", "missed">>
    BY DEF Init
  <2>2. DOMAIN verdicts = 1..2 /\ \A n \in 1..2 : verdicts[n] \in {"missed", "reached", "unsure"}
    BY <2>1
  <2>3. state = "NoSignal" /\ signalMagnitude = 0
    BY DEF Init, Squelch
  <2> QED
    BY <1>1, <2>2, <2>3 DEF Init, SquelchOK
<1>4. SamplesOK
  <2>1. NoBlock \in Block
    BY <1>1 DEF NoBlock, Block
  <2>2. line \in Seq(Block) /\ Len(line) <= MaxBehind
    <3>1. line = <<>> 
      BY DEF Init
    <3>2. <<>> \in Seq(Block) /\ Len(<<>>) = 0
      BY EmptySeq
    <3> QED
      BY <1>1, <3>1, <3>2
  <2>3. datagrams \in Seq(1..2048)
    BY EmptySeq DEF Init
  <2>4. DOMAIN work = 0..3 /\ \A n \in 0..3 : work[n] \in Sample
    BY DEF Init, Sample
  <2>5. socketOpen \in BOOLEAN
    BY DEF Init, UdpClient
  <2> QED
    BY <1>1, <2>1, <2>2, <2>3, <2>4, <2>5 DEF Init, SamplesOK
<1> QED
  BY <1>2, <1>3, <1>4 DEF Init, TypeInv, TypeOK, ReadingCounted

\* Only the user interface changes the settings.
LEMMA SettingsStep == SettingsOK /\ [Next]_vars => SettingsOK'
<1> SUFFICES ASSUME SettingsOK, [Next]_vars PROVE SettingsOK'
  OBVIOUS
<1>1. MaxCommands \in Nat /\ Thresholds \subseteq Int
  BY SignalPathAssumption
<1>2. demodulatorMode' \in AllModes
  BY ModeStep DEF SettingsOK
<1>3. ASSUME Issues PROVE commands' \in 0..MaxCommands
  BY <1>1, <1>3 DEF Issues, SettingsOK
<1>4. CASE \E gain \in Gains : setReceiveIfGainInDb(gain)
  <2>1. PICK gain \in Gains : setReceiveIfGainInDb(gain)
    BY <1>4
  <2> QED
    BY <1>2, <1>3, <2>1 DEF setReceiveIfGainInDb, SettingsOK
<1>5. CASE CopyGain
  BY <1>2, <1>5 DEF CopyGain, SettingsOK, radio
<1>6. CASE \E limit \in Thresholds : cmdSetSquelch(limit)
  <2>1. PICK limit \in Thresholds : cmdSetSquelch(limit)
    BY <1>6
  <2>2. threshold' \in -400..10
    BY <2>1 DEF cmdSetSquelch, setSignalDetectThreshold, SettingsOK
  <2> QED
    BY <1>2, <1>3, <2>1, <2>2 DEF cmdSetSquelch, SettingsOK, radio
<1>7. CASE \E number \in Modes : cmdSetDemodMode(number)
  <2>1. PICK number \in Modes : cmdSetDemodMode(number)
    BY <1>7
  <2>2. command' \in {"none", "gain", "mode"}
    BY <2>1 DEF cmdSetDemodMode, setDemodulatorMode, SettingsOK
  <2> QED
    BY <1>2, <1>3, <2>1, <2>2 DEF cmdSetDemodMode, SettingsOK, radio
<1>8. CASE SetSideband
  BY <1>2, <1>8 DEF SetSideband, SettingsOK, radio
<1>9. CASE cmdEnableIqDump \/ cmdDisableIqDump
  BY <1>2, <1>3, <1>9 DEF cmdEnableIqDump, cmdDisableIqDump, enableIqDump, disableIqDump,
                         SettingsOK, radio
<1>10. CASE \/ \E amplitude \in Amplitudes : BeginRead(amplitude)
            \/ \E bytes \in Sizes : EndRead(bytes)
            \/ ConvertBlock \/ DumpBlock \/ ReadGain \/ Detect \/ Track \/ Demodulate
            \/ UNCHANGED vars
  <2>1. UNCHANGED <<tunerGain, settings>>
    BY <1>10 DEF BeginRead, EndRead, ConvertBlock, DumpBlock, ReadGain, Detect, Track,
                 Demodulate, vars, radio
  <2> QED
    BY <2>1 DEF SettingsOK, settings
<1> QED
  BY <1>4, <1>5, <1>6, <1>7, <1>8, <1>9, <1>10 DEF Next

\* The magnitude fits the detector's byte, whatever the samples.
LEMMA SquelchStep == TypeInv /\ [Next]_vars => SquelchOK'
<1> SUFFICES ASSUME TypeInv, [Next]_vars PROVE SquelchOK'
  OBVIOUS
<1>0. SettingsOK /\ SquelchOK /\ SamplesOK
  BY DEF TypeInv, TypeOK
<1>1. CASE Detect
  <2>1. present' \in BOOLEAN
    BY <1>1 DEF Detect, detectSignal
  <2>2. signalMagnitude' \in 0..192
    <3>1. CASE block.bytes > 0 /\ signalMagnitude' = AverageMagnitude(work, block.bytes \div 2)
      <4>1. PICK n \in Pairs : block.bytes = 2 * n
        BY <1>0, EvenBytes DEF SamplesOK
      <4>2. block.bytes \div 2 = n /\ n \in Nat \ {0}
        BY <3>1, <4>1, EvenBlocks DEF Pairs
      <4>3. \A m \in 0..3 : work[m] \in Sample
        BY <1>0 DEF SamplesOK
      <4> QED
        BY <3>1, <4>2, <4>3, AverageBounds
    <3>2. CASE signalMagnitude' = 0
      BY <3>2
    <3> QED
      BY <1>1, <3>1, <3>2 DEF Detect
  <2>3. DOMAIN verdicts' = 1..2 /\ \A n \in 1..2 : verdicts'[n] \in {"missed", "reached", "unsure"}
    <3>1. verdicts' = <<verdicts[2], Verdict(block)>>
      BY <1>1 DEF Detect
    <3>2. Verdict(block) \in {"missed", "reached", "unsure"}
      BY DEF Verdict
    <3>3. verdicts[2] \in {"missed", "reached", "unsure"}
      BY <1>0 DEF SquelchOK
    <3> QED
      BY <3>1, <3>2, <3>3
  <2> QED
    BY <1>0, <1>1, <2>1, <2>2, <2>3 DEF Detect, SquelchOK
<1>2. CASE Track
  <2>1. SignalTrackerRun(state, present).state \in {"NoSignal", "Tracking"}
    BY DEF SignalTrackerRun
  <2>2. Allows(SignalTrackerRun(state, present).indicator) \in BOOLEAN
    BY DEF Allows
  <2> QED
    BY <1>0, <1>2, <2>1, <2>2 DEF Track, SquelchOK
<1>3. CASE ReadGain
  BY <1>0, <1>3 DEF ReadGain, SquelchOK, SettingsOK
<1>4. CASE ConvertBlock \/ DumpBlock \/ Demodulate
  BY <1>0, <1>4 DEF ConvertBlock, DumpBlock, Demodulate, SquelchOK
<1>5. CASE UNCHANGED <<pc, gainInDb, present, signalAllowed, state, signalMagnitude, verdicts>>
  BY <1>0, <1>5 DEF SquelchOK
<1>6. ASSUME ~(Detect \/ Track \/ ReadGain \/ ConvertBlock \/ DumpBlock \/ Demodulate)
      PROVE  UNCHANGED <<pc, gainInDb, present, signalAllowed, state, signalMagnitude, verdicts>>
  BY <1>6 DEF Next, BeginRead, EndRead, setReceiveIfGainInDb, CopyGain, cmdSetSquelch,
              cmdSetDemodMode, SetSideband, cmdEnableIqDump, cmdDisableIqDump, vars, data
<1> QED
  BY <1>1, <1>2, <1>3, <1>4, <1>5, <1>6

\* No datagram is empty or larger than 2048 bytes.
LEMMA DatagramSizes ==
  ASSUME NEW bytes \in Nat
  PROVE  sendData(bytes) \in Seq(1..2048)
<1>1. PICK count \in Nat, left \in 0..2047 : count = bytes \div 2048 /\ left = bytes % 2048
  OBVIOUS
<1> DEFINE full == [n \in 1..count |-> 2048]
           rest == IF left = 0 THEN <<>> ELSE <<left>>
<1>2. full \in Seq(1..2048)
  BY IsASeq
<1>3. rest \in Seq(1..2048)
  <2>1. CASE left = 0
    BY <2>1, EmptySeq
  <2>2. CASE left # 0
    <3>1. left \in 1..2048 /\ rest = <<left>>
      BY <2>2
    <3> HIDE DEF rest
    <3> QED
      BY <3>1
  <2> QED
    BY <2>1, <2>2
<1>4. sendData(bytes) = full \o rest
  BY <1>1 DEF sendData
<1> HIDE DEF full, rest
<1>5. full \o rest \in Seq(1..2048)
  BY <1>2, <1>3, ConcatProperties
<1> QED
  BY <1>4, <1>5

LEMMA SamplesStep == TypeInv /\ [Next]_vars => SamplesOK' /\ ReadingCounted'
<1> SUFFICES ASSUME TypeInv, [Next]_vars PROVE SamplesOK' /\ ReadingCounted'
  OBVIOUS
<1>0. SettingsOK /\ SquelchOK /\ SamplesOK /\ ReadingCounted
  BY DEF TypeInv, TypeOK
<1>c. MaxBlocks \in Nat /\ MaxBehind \in Nat
  BY SignalPathAssumption
<1>b. BlocksInv'
  <2>1. BlocksInv
    BY <1>0 DEF SettingsOK, SamplesOK, BlocksInv
  <2> QED
    BY <2>1, BlocksInvStep
<1>1. blocks' \in 0..MaxBlocks /\ ReadingCounted'
  <2>1. CASE \E amplitude \in Amplitudes : BeginRead(amplitude)
    BY <1>0, <2>1 DEF BeginRead, ReadingCounted, SamplesOK
  <2>2. CASE \E bytes \in Sizes : EndRead(bytes)
    BY <1>0, <1>c, <2>2 DEF EndRead, ReadingCounted, SamplesOK
  <2>3. CASE \E gain \in Gains : setReceiveIfGainInDb(gain)
    BY <1>0, <2>3 DEF setReceiveIfGainInDb, ReadingCounted, SamplesOK
  <2>4. CASE UNCHANGED <<reading, blocks>>
    BY <1>0, <2>4 DEF ReadingCounted, SamplesOK
  <2>5. ASSUME \/ ConvertBlock \/ DumpBlock \/ ReadGain \/ Detect \/ Track \/ Demodulate
               \/ CopyGain \/ \E limit \in Thresholds : cmdSetSquelch(limit)
               \/ \E number \in Modes : cmdSetDemodMode(number)
               \/ SetSideband \/ cmdEnableIqDump \/ cmdDisableIqDump \/ UNCHANGED vars
        PROVE  UNCHANGED <<reading, blocks>>
    BY <2>5 DEF ConvertBlock, DumpBlock, ReadGain, Detect, Track, Demodulate, CopyGain,
                cmdSetSquelch, cmdSetDemodMode, SetSideband, cmdEnableIqDump,
                cmdDisableIqDump, vars, radio
  <2> QED
    BY <2>1, <2>2, <2>3, <2>4, <2>5 DEF Next
<1>2. Len(line') <= MaxBehind
  <2>0. line \in Seq(Block) /\ Len(line) <= MaxBehind /\ Len(line) \in Nat
    BY <1>0, LenProperties DEF SamplesOK
  <2>1. CASE \E bytes \in Sizes : EndRead(bytes)
    <3>1. PICK bytes \in Sizes : EndRead(bytes)
      BY <2>1
    <3>2. [reading EXCEPT !.bytes = bytes] \in Block
      BY <1>0 DEF SamplesOK, Block
    <3>3. Len(line') = Len(line) + 1
      BY <2>0, <3>1, <3>2, AppendProperties DEF EndRead
    <3> QED
      BY <1>c, <2>0, <3>1, <3>3 DEF EndRead
  <2>2. CASE ConvertBlock
    <3>1. Len(line') = Len(line) - 1
      BY <2>0, <2>2, HeadTailProperties DEF ConvertBlock
    <3> QED
      BY <1>c, <2>0, <3>1
  <2>3. CASE UNCHANGED line
    BY <2>0, <2>3
  <2>4. ASSUME ~ConvertBlock, ~ \E bytes \in Sizes : EndRead(bytes)
        PROVE  UNCHANGED line
    BY <2>4 DEF Next, BeginRead, DumpBlock, ReadGain, Detect, Track, Demodulate, CopyGain,
                setReceiveIfGainInDb, cmdSetSquelch, cmdSetDemodMode, SetSideband,
                cmdEnableIqDump, cmdDisableIqDump, vars, radio
  <2> QED
    BY <2>1, <2>2, <2>3, <2>4
<1>3. DOMAIN work' = 0..3 /\ \A n \in 0..3 : work'[n] \in Sample
  <2>1. CASE ConvertBlock
    <3>1. block' \in Block /\ work' = Convert(block')
      BY <1>b, <2>1 DEF ConvertBlock, BlocksInv
    <3> QED
      BY <3>1, MixedSamples
  <2>2. CASE UNCHANGED work
    BY <1>0, <2>2 DEF SamplesOK
  <2>3. ASSUME ~ConvertBlock PROVE UNCHANGED work
    BY <2>3 DEF Next, BeginRead, EndRead, DumpBlock, ReadGain, Detect, Track, Demodulate, CopyGain,
                setReceiveIfGainInDb, cmdSetSquelch, cmdSetDemodMode, SetSideband,
                cmdEnableIqDump, cmdDisableIqDump, vars, data
  <2> QED
    BY <2>1, <2>2, <2>3
<1>4. datagrams' \in Seq(1..2048)
  <2>0. <<>> \in Seq(1..2048)
    BY EmptySeq
  <2>1. CASE DumpBlock
    <3>1. PICK n \in Pairs : block.bytes = 2 * n
      BY <1>0, EvenBytes DEF SamplesOK
    <3>2. block.bytes \in Nat
      BY <3>1 DEF Pairs
    <3> QED
      BY <2>0, <2>1, <3>2, DatagramSizes DEF DumpBlock
  <2>2. CASE ConvertBlock
    BY <2>0, <2>2 DEF ConvertBlock
  <2>3. CASE UNCHANGED datagrams
    BY <1>0, <2>3 DEF SamplesOK
  <2>4. ASSUME ~ConvertBlock, ~DumpBlock PROVE UNCHANGED datagrams
    BY <2>4 DEF Next, BeginRead, EndRead, ReadGain, Detect, Track, Demodulate, CopyGain,
                setReceiveIfGainInDb, cmdSetSquelch, cmdSetDemodMode, SetSideband,
                cmdEnableIqDump, cmdDisableIqDump, vars, data
  <2> QED
    BY <2>1, <2>2, <2>3, <2>4
<1>5. UNCHANGED socketOpen
  BY DEF Next, BeginRead, EndRead, ConvertBlock, DumpBlock, ReadGain, Detect, Track, Demodulate,
         CopyGain, setReceiveIfGainInDb, cmdSetSquelch, cmdSetDemodMode, SetSideband,
         cmdEnableIqDump, cmdDisableIqDump, vars
<1> QED
  BY <1>0, <1>b, <1>1, <1>2, <1>3, <1>4, <1>5 DEF BlocksInv, SamplesOK

(***************************************************************************)
(* Samples stay in 8 bits through the mixer, magnitudes fit the byte of the *)
(* detector, no datagram is empty or above 2048 bytes, and every other      *)
(* variable has its type (IqDataProcessor, SignalDetector, UdpClient).      *)
(***************************************************************************)
THEOREM TypeCorrect == Spec => []TypeOK
<1>1. TypeInv /\ [Next]_vars => TypeInv'
  BY SettingsStep, SquelchStep, SamplesStep DEF TypeInv, TypeOK
<1>2. TypeInv => TypeOK
  BY DEF TypeInv
<1> QED
  BY <1>1, <1>2, TypeInvInit, PTL DEF Spec

(***************************************************************************)
(* The wanted channel.                                                      *)
(***************************************************************************)

\* The samples in hand are the mixed ones of the block in hand.
SelectedInv == pc # "idle" => work = Convert(block)

\* A command for a sideband has not been carried out, or mode and demodulator
\* agree.
SidebandInv ==
    command # "mode" /\ demodulatorMode \in {"Lsb", "Usb"} =>
      (demodulators.ssb.lsbDemodulationMode <=> demodulatorMode = "Lsb")

LEMMA SelectedStep == SelectedInv /\ SquelchOK /\ [Next]_vars => SelectedInv'
<1> SUFFICES ASSUME SelectedInv, SquelchOK, [Next]_vars PROVE SelectedInv'
  OBVIOUS
<1>1. CASE ConvertBlock
  BY <1>1 DEF ConvertBlock, SelectedInv
<1>2. CASE DumpBlock \/ ReadGain \/ Detect \/ Track \/ Demodulate
  BY <1>2 DEF DumpBlock, ReadGain, Detect, Track, Demodulate, SelectedInv
<1>3. CASE UNCHANGED <<pc, block, work>>
  BY <1>3 DEF SelectedInv
<1>4. ASSUME ~(ConvertBlock \/ DumpBlock \/ ReadGain \/ Detect \/ Track \/ Demodulate)
      PROVE  UNCHANGED <<pc, block, work>>
  BY <1>4 DEF Next, BeginRead, EndRead, setReceiveIfGainInDb, CopyGain, cmdSetSquelch,
              cmdSetDemodMode, SetSideband, cmdEnableIqDump, cmdDisableIqDump, vars, data
<1> QED
  BY <1>1, <1>2, <1>3, <1>4

\* Demodulating a block leaves the sideband alone.
LEMMA SidebandKept ==
  ASSUME NEW d, NEW pairs \in Nat, SsbInv(d, pairs), NEW n \in Pairs
  PROVE  SsbAcceptIqData(d, 2 * n).lsbDemodulationMode = d.lsbDemodulationMode
<1>1. PICK k \in Kept3, a \in Entries, b \in Entries, c \in Entries, sent \in Nat, lsb \in BOOLEAN :
         d = SsbObject(k, a, b, c, sent, lsb) /\ (32 * sent) + Held(k) = pairs
  BY Zenon DEF SsbInv
<1>2. PICK l \in Kept3, o \in Entries :
         ThreeStages(k, n) = [out |-> o, kept |-> l] /\ (32 * o) + Held(l) = Held(k) + n
  BY <1>1, ThreeStagesKeepCount
<1>3. SsbAcceptIqData(d, 2 * n) = SsbObject(l, o, o, o, sent + o, lsb)
  BY <1>1, <1>2, SsbDecimated
<1> QED
  BY <1>1, <1>3 DEF SsbObject

LEMMA SidebandStep == SidebandInv /\ RateInv /\ [Next]_vars => SidebandInv'
<1> SUFFICES ASSUME SidebandInv, RateInv, [Next]_vars PROVE SidebandInv'
  OBVIOUS
<1>0. demodulators = [am |-> demodulators.am, fm |-> demodulators.fm,
                      wbFm |-> demodulators.wbFm, ssb |-> demodulators.ssb]
  BY DEF RateInv, DemodulatorsInv
<1>1. CASE Demodulate
  <2>1. PICK n \in Pairs : block.bytes = 2 * n
    BY EvenBytes DEF RateInv, BlocksInv
  <2>2. fed["ssb"] \in Nat /\ SsbInv(demodulators.ssb, fed["ssb"])
    BY DEF RateInv, DemodulatorsInv, Names
  <2>3. SsbAcceptIqData(demodulators.ssb, block.bytes).lsbDemodulationMode
            = demodulators.ssb.lsbDemodulationMode
    BY <2>1, <2>2, SidebandKept
  <2>4. demodulators'.ssb.lsbDemodulationMode = demodulators.ssb.lsbDemodulationMode
    <3>1. CASE ~(signalAllowed /\ demodulatorMode # "None")
      BY <1>1, <3>1 DEF Demodulate
    <3>2. CASE signalAllowed /\ demodulatorMode # "None"
      <4>1. PICK name \in Names :
               demodulators' = [demodulators EXCEPT ![name] = Accepted(name, block.bytes)]
        BY <1>1, <3>2 DEF Demodulate, RateInv, AllModes, demodulatorType, DemodulatorOf, Names
      <4>2. CASE name = "ssb"
        <5>1. demodulators'.ssb = SsbAcceptIqData(demodulators.ssb, block.bytes)
          BY <1>0, <4>1, <4>2 DEF Accepted
        <5> QED
          BY <2>3, <5>1
      <4>3. CASE name # "ssb"
        BY <1>0, <4>1, <4>3
      <4> QED
        BY <4>2, <4>3
    <3> QED
      BY <3>1, <3>2
  <2> QED
    BY <1>1, <2>4 DEF Demodulate, SidebandInv, settings
<1>2. CASE SetSideband
  <2>1. demodulators'.ssb = Sideband(demodulators.ssb)
    BY <1>0, <1>2 DEF SetSideband
  <2>2. PICK k \in Kept3, o \in Entries, demodulated \in Entries, pcm \in Entries,
             sent \in Nat, lsb \in BOOLEAN :
           demodulators.ssb = SsbObject(k, o, demodulated, pcm, sent, lsb)
    BY Zenon DEF RateInv, DemodulatorsInv, SsbInv
  <2>3. Sideband(demodulators.ssb).lsbDemodulationMode <=> demodulatorMode = "Lsb"
    BY <2>2 DEF Sideband, setLsbDemodulationMode, setUsbDemodulationMode, SsbObject
  <2> QED
    BY <1>2, <2>1, <2>3 DEF SetSideband, SidebandInv
<1>3. CASE \E number \in Modes : cmdSetDemodMode(number)
  BY <1>3 DEF cmdSetDemodMode, setDemodulatorMode, Issues, SidebandInv, data
<1>4. CASE CopyGain
  BY <1>4 DEF CopyGain, SidebandInv, data
<1>5. CASE \E gain \in Gains : setReceiveIfGainInDb(gain)
  BY <1>5 DEF setReceiveIfGainInDb, Issues, SidebandInv, data
<1>6. CASE UNCHANGED <<demodulators, demodulatorMode, command>>
  BY <1>6 DEF SidebandInv
<1>7. ASSUME \/ \E amplitude \in Amplitudes : BeginRead(amplitude)
             \/ \E bytes \in Sizes : EndRead(bytes)
             \/ ConvertBlock \/ DumpBlock \/ ReadGain \/ Detect \/ Track
             \/ \E limit \in Thresholds : cmdSetSquelch(limit)
             \/ cmdEnableIqDump \/ cmdDisableIqDump \/ UNCHANGED vars
      PROVE  UNCHANGED <<demodulators, demodulatorMode, command>>
  BY <1>7 DEF BeginRead, EndRead, ConvertBlock, DumpBlock, ReadGain, Detect, Track,
              cmdSetSquelch, cmdEnableIqDump, cmdDisableIqDump, vars, data, settings
<1> QED
  BY <1>1, <1>2, <1>3, <1>4, <1>5, <1>6, <1>7 DEF Next

\* What RateKept and TypeCorrect rest on, together.
PathInv == RateInv /\ TypeInv

LEMMA PathInvInit == Init => PathInv
<1>1. Init => demodulatorMode \in AllModes
  BY DEF Init, AllModes, demodulatorType
<1> QED
  BY <1>1, BlocksInvInit, DemodulatorsInvInit, TypeInvInit DEF PathInv, RateInv

LEMMA PathInvStep == PathInv /\ [Next]_vars => PathInv'
BY BlocksInvStep, ModeStep, DemodulatorsInvStep, SettingsStep, SquelchStep, SamplesStep
   DEF PathInv, RateInv, TypeInv, TypeOK

LEMMA ChannelInvImplies == SelectedInv /\ SidebandInv /\ TypeInv => WantedChannelSelected
<1> SUFFICES ASSUME SelectedInv, SidebandInv, TypeInv PROVE WantedChannelSelected
  OBVIOUS
<1>1. block \in Block
  BY DEF TypeInv, TypeOK, SamplesOK
<1>2. ASSUME pc # "idle", ~Overdriven(block), NEW n \in 0..3
      PROVE  work[n] = Behind(Tone(block), block.turns)
  BY <1>1, <1>2, MixerUndoesTurns DEF SelectedInv
<1> QED
  BY <1>2 DEF WantedChannelSelected, SidebandInv

(***************************************************************************)
(* For a tone of any amplitude that does not overdrive the ADC, blocks of   *)
(* any even length and any commands: every sample after the mixer is the    *)
(* tone at the phase its block began with, and between two commands the SSB *)
(* demodulator takes the sideband of the mode (IqDataProcessor.cc).         *)
(***************************************************************************)
THEOREM ChannelSelected == Spec => []WantedChannelSelected
<1>1. Init => SelectedInv /\ SidebandInv
  BY DEF Init, SelectedInv, SidebandInv
<1>2. PathInv /\ SelectedInv /\ SidebandInv /\ [Next]_vars => SelectedInv' /\ SidebandInv'
  BY SelectedStep, SidebandStep DEF PathInv, TypeInv, TypeOK
<1>3. PathInv /\ SelectedInv /\ SidebandInv => WantedChannelSelected
  BY ChannelInvImplies DEF PathInv
<1> QED
  BY <1>1, <1>2, <1>3, PathInvInit, PathInvStep, PTL DEF Spec

(***************************************************************************)
(* The squelch.                                                             *)
(***************************************************************************)

\* Every block that is read comes from the antenna.
SourcesInv ==
    /\ reading = NoBlock \/ reading.amplitude \in Amplitudes
    /\ \A i \in 1..Len(line) : line[i].amplitude \in Amplitudes
    /\ pc # "idle" => block.amplitude \in Amplitudes

LEMMA SourcesStep == SourcesInv /\ TypeInv /\ [Next]_vars => SourcesInv'
<1> SUFFICES ASSUME SourcesInv, TypeInv, [Next]_vars PROVE SourcesInv'
  OBVIOUS
<1>0. reading \in Block /\ line \in Seq(Block)
  BY DEF TypeInv, TypeOK, SamplesOK
<1>1. CASE \E amplitude \in Amplitudes : BeginRead(amplitude)
  <2>1. PICK amplitude \in Amplitudes : BeginRead(amplitude)
    BY <1>1
  <2>2. reading'.amplitude = amplitude
    BY <2>1 DEF BeginRead, NoBlock
  <2> QED
    BY <2>1, <2>2 DEF BeginRead, SourcesInv, data
<1>2. CASE \E bytes \in Sizes : EndRead(bytes)
  <2>1. PICK bytes \in Sizes : EndRead(bytes)
    BY <1>2
  <2> DEFINE read == [reading EXCEPT !.bytes = bytes]
  <2>2. read \in Block /\ read.amplitude \in Amplitudes
    BY <1>0, <2>1 DEF EndRead, SourcesInv, Block
  <2> HIDE DEF read
  <2>3. line' = Append(line, read)
    BY <2>1 DEF EndRead, read
  <2>4. \A i \in 1..Len(line') : line'[i].amplitude \in Amplitudes
    <3>1. /\ Len(line') = Len(line) + 1 /\ Len(line) \in Nat
          /\ \A i \in 1..Len(line) : line'[i] = line[i]
          /\ line'[Len(line) + 1] = read
      BY <1>0, <2>2, <2>3, AppendProperties, LenProperties
    <3> QED
      BY <2>2, <3>1 DEF SourcesInv
  <2> QED
    BY <2>1, <2>4 DEF EndRead, SourcesInv, data
<1>3. CASE ConvertBlock
  <2>1. Len(line) \in Nat \ {0} /\ Head(line) = line[1]
    BY <1>0, <1>3, LenProperties, EmptySeq, HeadTailProperties DEF ConvertBlock
  <2>2. block'.amplitude \in Amplitudes
    BY <1>3, <2>1 DEF ConvertBlock, SourcesInv
  <2>3. /\ Len(Tail(line)) = Len(line) - 1
        /\ \A i \in 1..Len(Tail(line)) : Tail(line)[i] = line[i + 1]
    BY <1>0, <1>3, HeadTailProperties DEF ConvertBlock
  <2>4. \A i \in 1..Len(line') : line'[i].amplitude \in Amplitudes
    BY <1>3, <2>1, <2>3 DEF ConvertBlock, SourcesInv
  <2> QED
    BY <1>3, <2>2, <2>4 DEF ConvertBlock, SourcesInv
<1>4. CASE DumpBlock \/ ReadGain \/ Detect \/ Track \/ Demodulate
  BY <1>4 DEF DumpBlock, ReadGain, Detect, Track, Demodulate, SourcesInv, radio
<1>5. CASE \E gain \in Gains : setReceiveIfGainInDb(gain)
  <2>1. PICK gain \in Gains : setReceiveIfGainInDb(gain)
    BY <1>5
  <2>2. reading' = NoBlock \/ reading'.amplitude \in Amplitudes
    BY <1>0, <2>1 DEF setReceiveIfGainInDb, SourcesInv, Block
  <2> QED
    BY <2>1, <2>2 DEF setReceiveIfGainInDb, SourcesInv, data
<1>6. CASE UNCHANGED <<reading, line, pc, block>>
  BY <1>6 DEF SourcesInv
<1>7. ASSUME \/ CopyGain \/ \E limit \in Thresholds : cmdSetSquelch(limit)
             \/ \E number \in Modes : cmdSetDemodMode(number)
             \/ SetSideband \/ cmdEnableIqDump \/ cmdDisableIqDump \/ UNCHANGED vars
      PROVE  UNCHANGED <<reading, line, pc, block>>
  BY <1>7 DEF CopyGain, cmdSetSquelch, cmdSetDemodMode, SetSideband, cmdEnableIqDump,
              cmdDisableIqDump, vars, radio, data
<1> QED
  BY <1>1, <1>2, <1>3, <1>4, <1>5, <1>6, <1>7 DEF Next

\* The gain that was subtracted is the gain the block was read with: what is
\* left is the level at the antenna.
LEMMA GainSubtractedOut ==
  ASSUME NEW b \in Block, b.amplitude \in Amplitudes, ~Overdriven(b)
  PROVE  convertMagnitudeToDbFs(Amplified(b)) - b.gain = convertMagnitudeToDbFs(b.amplitude)
<1>1. PICK a \in 1..127 : a = b.amplitude
  BY SignalPathAssumption
<1>2. b.gain \in {0, 20, 40}
  <2>1. b.gain \in Gains /\ Gains \subseteq {0, 20, 40}
    BY SignalPathAssumption DEF Block
  <2> QED
    BY <2>1, Zenon
<1>3. \A m \in 0..127 : convertMagnitudeToDbFs(m) = dbTable[m] - fullScaleValueInDb
  BY DEF convertMagnitudeToDbFs, fullScaleValue
<1>4. dbTable[127] = 42 /\ fullScaleValueInDb = 42
  BY DecibelsOfFullScale DEF fullScaleValueInDb, fullScaleValue
<1>5. CASE b.gain = 0
  <2>1. Amplified(b) = a
    BY <1>1, <1>5 DEF Amplified
  <2>2. dbTable[a] \in Int
    BY DecibelsAreIntegers
  <2> QED
    BY <1>1, <1>3, <1>4, <1>5, <2>1, <2>2
<1>6. CASE b.gain = 20
  <2>1. Amplified(b) = 10 * a
    BY <1>1, <1>6 DEF Amplified
  <2>2. a \in 1..12
    BY <2>1 DEF Overdriven
  <2>3. dbTable[10 * a] = dbTable[a] + 20 /\ dbTable[a] \in Int
    BY <2>2, TenfoldIs20Decibels, DecibelsAreIntegers
  <2>4. 10 * a \in 0..127
    BY <2>2
  <2> QED
    BY <1>1, <1>3, <1>4, <1>6, <2>1, <2>3, <2>4
<1>7. CASE b.gain = 40
  <2>1. Amplified(b) = 100 * a
    BY <1>1, <1>7 DEF Amplified
  <2>2. a = 1
    BY <2>1 DEF Overdriven
  <2>3. convertMagnitudeToDbFs(1) = -42 /\ convertMagnitudeToDbFs(100) = -2
    BY <1>3, <1>4, SomeDecibels
  <2> QED
    BY <1>1, <1>7, <2>1, <2>2, <2>3
<1> QED
  BY <1>2, <1>5, <1>6, <1>7

\* A block in hand that does not overdrive the ADC has the magnitude of the
\* amplified tone.
LEMMA MagnitudeInHand ==
  ASSUME SelectedInv, block \in Block, pc # "idle", ~Overdriven(block), block.bytes > 0
  PROVE  AverageMagnitude(work, block.bytes \div 2) = Amplified(block)
<1>1. Amplified(block) \in Nat /\ Tone(block) = <<Amplified(block), 0>>
  BY AmplifiedIsNat DEF Tone
<1>2. block.turns \in 0..3
  BY DEF Block
<1>3. Magnitude(Behind(Tone(block), block.turns)) = Amplified(block)
  BY <1>1, <1>2, MagnitudeOfTone
<1>4. \A n \in 0..3 : Magnitude(work[n]) = Amplified(block)
  BY <1>3, MixerUndoesTurns DEF SelectedInv
<1>5. PICK n \in Pairs : block.bytes = 2 * n
  BY EvenBytes
<1>6. block.bytes \div 2 = n /\ n \in Nat \ {0}
  BY <1>5, EvenBlocks DEF Pairs
<1> QED
  BY <1>1, <1>4, <1>6, AverageOfTone

\* The verdict on a block, where there is one, is what the tracker was told.
Judged(verdict, heard) == (verdict = "reached" => heard) /\ (verdict = "missed" => ~heard)

\* Between detector and tracker the last verdict is about the detector's answer
\* and the one before about the tracker's state; otherwise the last is about the
\* tracker's state.
VerdictsInv ==
    IF pc = "track" THEN Judged(verdicts[2], present) /\ Judged(verdicts[1], state = "Tracking")
    ELSE Judged(verdicts[2], state = "Tracking") /\ SquelchFollowsAntenna

LEMMA DetectJudges ==
  ASSUME SelectedInv, SourcesInv, TypeInv, Detect
  PROVE  Judged(Verdict(block), present')
<1>1. block \in Block
  BY DEF TypeInv, TypeOK, SamplesOK
<1>2. SUFFICES ASSUME Verdict(block) # "unsure"
               PROVE  (Verdict(block) = "reached" <=> present')
                        /\ Verdict(block) \in {"reached", "missed"}
  BY DEF Judged
<1>3. /\ block.bytes # 0 /\ ~Overdriven(block) /\ block.gain = gainInDb
      /\ Verdict(block) = IF AntennaLevel(block.amplitude) >= threshold THEN "reached" ELSE "missed"
  BY <1>2 DEF Verdict
<1>4. block.amplitude \in Amplitudes
  BY DEF SourcesInv, Detect
<1>5. signalMagnitude' = Amplified(block)
  <2>1. block.bytes > 0 /\ signalMagnitude' = AverageMagnitude(work, block.bytes \div 2)
    BY <1>3 DEF Detect
  <2> QED
    BY <1>1, <1>3, <2>1, MagnitudeInHand DEF Detect
<1>6. present' = (convertMagnitudeToDbFs(signalMagnitude') - gainInDb >= threshold)
  BY DEF Detect, detectSignal
<1>7. present' = (AntennaLevel(block.amplitude) >= threshold)
  BY <1>1, <1>3, <1>4, <1>5, <1>6, GainSubtractedOut DEF AntennaLevel
<1> QED
  BY <1>3, <1>7

LEMMA VerdictsStep ==
  SelectedInv /\ SourcesInv /\ TypeInv /\ VerdictsInv /\ [Next]_vars => VerdictsInv'
<1> SUFFICES ASSUME SelectedInv, SourcesInv, TypeInv, VerdictsInv, [Next]_vars
             PROVE  VerdictsInv'
  OBVIOUS
<1>0. /\ present \in BOOLEAN /\ signalAllowed \in BOOLEAN /\ state \in {"NoSignal", "Tracking"}
      /\ DOMAIN verdicts = 1..2
  BY DEF TypeInv, TypeOK, SquelchOK
<1>1. CASE Detect
  <2>1. verdicts' = <<verdicts[2], Verdict(block)>> /\ UNCHANGED <<state, signalAllowed>>
    BY <1>1 DEF Detect
  <2>2. pc = "detect" /\ Judged(verdicts[2], state = "Tracking") /\ SquelchFollowsAntenna
    BY <1>1 DEF Detect, VerdictsInv
  <2>3. verdicts'[1] = verdicts[2] /\ verdicts'[2] = Verdict(block)
    BY <2>1
  <2>4. CASE pc' = "track"
    BY <1>1, <2>1, <2>2, <2>3, <2>4, DetectJudges DEF VerdictsInv
  <2>5. CASE pc' = "dead"
    <3>1. block.bytes = 0
      BY <1>1, <2>5 DEF Detect
    <3>2. Verdict(block) = "unsure"
      BY <3>1 DEF Verdict
    <3> QED
      BY <2>1, <2>2, <2>3, <2>5, <3>2 DEF VerdictsInv, SquelchFollowsAntenna, Judged
  <2> QED
    BY <1>1, <2>4, <2>5 DEF Detect
<1>2. CASE Track
  <2>1. /\ state' = IF present THEN "Tracking" ELSE "NoSignal"
        /\ signalAllowed' = (present \/ state = "Tracking")
        /\ pc' = "demodulate" /\ verdicts' = verdicts
    BY <1>0, <1>2 DEF Track, SignalTrackerRun, Allows
  <2>2. Judged(verdicts[2], present) /\ Judged(verdicts[1], state = "Tracking")
    BY <1>2 DEF Track, VerdictsInv
  <2>3. Judged(verdicts'[2], state' = "Tracking")
    BY <1>0, <2>1, <2>2 DEF Judged
  <2>4. /\ verdicts'[2] = "reached" => signalAllowed'
        /\ verdicts'[1] = "reached" => signalAllowed'
    BY <1>0, <2>1, <2>2 DEF Judged
  <2>5. verdicts' = <<"missed", "missed">> => ~signalAllowed'
    <3>1. SUFFICES ASSUME verdicts' = <<"missed", "missed">> PROVE ~signalAllowed'
      OBVIOUS
    <3>2. verdicts[1] = "missed" /\ verdicts[2] = "missed"
      BY <2>1, <3>1
    <3>3. ~present /\ state # "Tracking"
      BY <2>2, <3>2 DEF Judged
    <3> QED
      BY <1>0, <2>1, <3>3
  <2> QED
    BY <2>1, <2>3, <2>4, <2>5 DEF VerdictsInv, SquelchFollowsAntenna
<1>3. CASE /\ UNCHANGED <<verdicts, state, signalAllowed, present>>
           /\ pc' = "track" <=> pc = "track"
  BY <1>3 DEF VerdictsInv, SquelchFollowsAntenna, Judged
<1>4. ASSUME ~Detect, ~Track
      PROVE  /\ UNCHANGED <<verdicts, state, signalAllowed, present>>
             /\ pc' = "track" <=> pc = "track"
  BY <1>4 DEF Next, BeginRead, EndRead, ConvertBlock, DumpBlock, ReadGain, Demodulate,
              setReceiveIfGainInDb, CopyGain, cmdSetSquelch, cmdSetDemodMode, SetSideband,
              cmdEnableIqDump, cmdDisableIqDump, vars, data
<1> QED
  BY <1>1, <1>2, <1>3, <1>4

(***************************************************************************)
(* For any amplitude, gain and threshold, and with gain and threshold       *)
(* changed at any moment: a block read and squelched under one gain passes  *)
(* when its level at the antenna reaches the threshold, so does the block   *)
(* after it, and none does after two that do not reach it (SignalDetector,  *)
(* SignalTracker, Squelch).                                                 *)
(***************************************************************************)
THEOREM SquelchJudgesAntenna == Spec => []SquelchFollowsAntenna
<1>1. Init => SelectedInv /\ SourcesInv /\ VerdictsInv
  <2> SUFFICES ASSUME Init PROVE SelectedInv /\ SourcesInv /\ VerdictsInv
    OBVIOUS
  <2>1. SelectedInv
    BY DEF Init, SelectedInv
  <2>2. SourcesInv
    <3>1. line = <<>> /\ Len(<<>>) = 0
      BY EmptySeq DEF Init
    <3> QED
      BY <3>1 DEF Init, SourcesInv
  <2>3. VerdictsInv
    BY DEF Init, Squelch, VerdictsInv, SquelchFollowsAntenna, Judged
  <2> QED
    BY <2>1, <2>2, <2>3
<1>2. PathInv /\ SelectedInv /\ SourcesInv /\ VerdictsInv /\ [Next]_vars
         => SelectedInv' /\ SourcesInv' /\ VerdictsInv'
  BY SelectedStep, SourcesStep, VerdictsStep DEF PathInv, TypeInv, TypeOK
<1>3. TypeInv /\ VerdictsInv => SquelchFollowsAntenna
  BY DEF VerdictsInv, SquelchFollowsAntenna
<1> QED
  BY <1>1, <1>2, <1>3, PathInvInit, PathInvStep, PTL DEF Spec, PathInv
=============================================================================
