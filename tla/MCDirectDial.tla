---------------------------- MODULE MCDirectDial ----------------------------
EXTENDS DirectDial, TLC


\* Profile 1 is p00, 2 is p01, and 3 stands for p07 and p02 .. p06.
MCConfigs ==
    <<{[chunks |-> 1, splits |-> "none"]},
      {[chunks |-> 8, splits |-> "sniOrEqual"]},
      {[chunks |-> 8, splits |-> "sni"], [chunks |-> 16, splits |-> "equal"]}>>

\* Too short to cut, shorter and longer than the chunks, a name in the middle,
\* a name of two letters at the end.
MCHellos ==
    {[n |-> 1, hs |-> 0, he |-> 0], [n |-> 9, hs |-> 0, he |-> 0],
     [n |-> 90, hs |-> 60, he |-> 74], [n |-> 62, hs |-> 60, he |-> 62]}
=============================================================================
