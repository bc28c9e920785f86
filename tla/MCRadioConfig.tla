--------------------------- MODULE MCRadioConfig ---------------------------
(***************************************************************************)
(* A small instance of RadioConfig for TLC.                                 *)
(***************************************************************************)
EXTENDS RadioConfig

MCDongles == Kinds
MCFrequencies == {10000, 100000, 500000}
MCRates == {1024}
MCBandwidths == {2000}
MCGains == {30}
MCIfGains == {10}
MCWarps == {50}
MCFaults == [kind \in MCDongles |->
               CASE kind = "R820T" -> {{}, {"r14"}}
                 [] kind = "V4" -> {{}, {"r05"}}
                 [] kind = "FC0013" -> {{}, {"pll"}}
                 [] kind = "FC2580" -> {{}, {"absent"}, {"usb"}, {"driver"}}
                 [] OTHER -> {{}}]
=============================================================================
