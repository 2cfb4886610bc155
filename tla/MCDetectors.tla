------------------------------ MODULE MCDetectors ------------------------------
\* Symbols of 8 samples, preambles of 3 symbols; m_cnt wraps at 4. Room for less than a quarter
\* symbol, for half of one, for a symbol and for more.
EXTENDS FrameDetectors

MCBins == {0, 1, 3}
MCRooms == {1, 4, 8, 9}
================================================================================
