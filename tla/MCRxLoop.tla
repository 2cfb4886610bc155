------------------------------ MODULE MCRxLoop ------------------------------
\* Spreading factor 7; frames of one or two payload blocks with two coding rates.
EXTENDS RxLoopInv

MCHeaders == {[cr |-> 1, pay_len |-> 3, crc |-> 0], [cr |-> 2, pay_len |-> 3, crc |-> 1]}
MCBins == {0, 8, 16}
MCModes == BOOLEAN
============================================================================
