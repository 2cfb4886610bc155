------------------------------ MODULE MCTxPath ------------------------------
\* Two frames of one or three bytes (one to three blocks), so that frames follow each other in every
\* buffer; each buffer only as large as its block needs at SF = 7.
EXTENDS TxPath

MCCapacity == [whitened |-> 6, headed |-> 2, checked |-> 6, coded |-> 7, tx_symbols |-> 8]
MCLens == {1, 3}
MCRates == {1}
=============================================================================
