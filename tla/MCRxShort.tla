----------------------------- MODULE MCRxShort -----------------------------
\* One byte, no CRC: at spreading factor 9 the header block holds the whole frame.
EXTENDS RxLoop

MCHeaders == {[cr |-> 1, pay_len |-> 1, crc |-> 0]}
MCBins == {0, 8, 16}
MCModes == {FALSE}
============================================================================
