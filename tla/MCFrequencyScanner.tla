------------------------- MODULE MCFrequencyScanner -------------------------
\* Two scans that share a frequency: a notification left over from one of them
\* lands inside or outside the other.  The first is watched at its beginning, in
\* its middle and at its end.  The increment of the second does not divide its
\* range and is given downwards: its one step passes the end.  The third runs
\* downwards and the last two leave the receiver's range: none of them is let
\* through.
EXTENDS FrequencyScanner

MCScans == {[start |-> 1, end |-> 3, increment |-> 1],
            [start |-> 3, end |-> 4, increment |-> -2],
            [start |-> 4, end |-> 2, increment |-> 1],
            [start |-> 0, end |-> 3, increment |-> 1],
            [start |-> 2, end |-> 5, increment |-> 1]}
MCFrequencies == {2}
MCHandTuned == {4}
=============================================================================
