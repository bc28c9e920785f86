------------------------------ MODULE MCFilters ------------------------------
(***************************************************************************)
(* A small instance of FilterBench for TLC: each class with one or two      *)
(* designs, among them a decimator whose pipeline is no multiple of its     *)
(* factor and one with more samples per output than taps; and the           *)
(* demodulators' own chains and detectors with signals as loud as they      *)
(* take.                                                                    *)
(***************************************************************************)
EXTENDS FilterBench

MCDesigns ==
    {Design("FirFilter", <<1, -2, 5>>, <<>>, 1),
     Design("FirFilter_int16", <<3051910, -1525750, 4577637>>, <<>>, 1),
     Design("FirFilter_int16", <<9155273, 9918365, -7629395>>, <<>>, 1),
     Design("IirFilter", <<1, -1>>, <<-2>>, 1),
     Design("Decimator", <<3, 1, -1, 2>>, <<>>, 2),
     Design("Decimator", <<3, 1>>, <<>>, 3),
     Design("Decimator_int16", <<-3051757, 4577789, 1186675>>, <<>>, 2),
     Design("Interpolator", <<1, 2, 3, 4, 5, 6>>, <<>>, 2),
     Design("Interpolator_int16", <<1883697, -3051910, 4578094, 1373>>, <<>>, 2)}

MCGains == {-5, 5}

MCSamples == {-32768, 1, 300, 32767}

Chains == [class : {"Chain"}, stages : {AmDecimators, SsbDecimators, <<FmTunerDecimator>>},
           signal : {100, -128}, settled : {340}, duration : {416}]
          \cup [class : {"Chain"}, stages : {FmPcmDecimators, WbFmPcmDecimators},
                signal : {20000, -32768}, settled : {1500}, duration : {1600}]
Bands == [class : {"PreDemod"}, signal : {120, -120}, settled : {20}, duration : {24}]
Carriers == [class : {"Am"}, signal : {110}, depth : {0, 100}, settled : {100}, duration : {120}]
Tones == [class : {"Ssb"}, program : {"radioDiags", "demodulatorResearch"}, option : {"Lsb", "Usb"},
          signal : {50}, upper : BOOLEAN, settled : {100}, duration : {120}]
Deviations == [class : {"Fm"}, program : {"radioDiags"}, signal : {0, 7, -74}, settled : {6},
               duration : {30}]
              \cup [class : {"Fm"}, program : {"demodulatorResearch"}, signal : {-7, 150},
                    settled : {6}, duration : {30}]
WideDeviations == [class : {"WbFm"}, program : {"radioDiags"}, signal : {-3, 750}, settled : {160},
                   duration : {180}]
                  \cup [class : {"WbFm"}, program : {"demodulatorResearch"}, signal : {750},
                        settled : {160}, duration : {180}]

MCReceptions == Chains \cup Bands \cup Carriers \cup Tones \cup Deviations \cup WideDeviations
=============================================================================
