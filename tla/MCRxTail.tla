------------------------------ MODULE MCRxTail ------------------------------
\* Frames of one to three bytes, with and without CRC, with and without errors.
EXTENDS RxTail

MCKinds == {[pay_len |-> 1, crc |-> 0, ok |-> TRUE],
            [pay_len |-> 2, crc |-> 1, ok |-> TRUE],
            [pay_len |-> 3, crc |-> 1, ok |-> FALSE]}
MCExits == BOOLEAN
============================================================================
