---------------------------- MODULE MCSyncAlign ----------------------------
\* 16 bins, the preamble of 8 upchirps of the code.
EXTENDS SyncAlign

MCHeaders == {[cr |-> 1, pay_len |-> 3, crc |-> 0]}
MCModes == {FALSE}
MCBins == -1 .. 15
MCNoise == -1 .. 15
MCNone == {0}
MCUp == 0 .. 3
MCDown == -3 .. -1
============================================================================
