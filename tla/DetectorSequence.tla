--------------------------- MODULE DetectorSequence ---------------------------
(***************************************************************************)
(* lib/frame_detector_sequence_impl.cc: a frame ends with a run of m_n_seq *)
(* equal symbols.                                                          *)
(***************************************************************************)
EXTENDS FrameDetector

CONSTANT NSeq   \* m_n_seq

ASSUME SequenceAssumption == NSeq \in 1 .. 255

SequenceSearch ==
  /\ kind = "sequence"
  /\ SearchPreamble(NUp - 1, "SEND_BUFFER", <<>>)

SequenceBuffer ==
  /\ kind = "sequence" /\ HasSymbol
  /\ SendBuffer("SEND_BUFFER", "SEND_PREAMBLE")

(***************************************************************************)
(* case SEND_PREAMBLE.  "if (m_cnt = 6)" assigns 6 and is true: of the     *)
(* network identifiers and downchirps only a quarter symbol is passed on   *)
(* here.  The room offered is not looked at.                               *)
(***************************************************************************)
SequenceQuarter ==
  \E noutput \in Rooms :
    /\ kind = "sequence" /\ m_state = "SEND_PREAMBLE" /\ HasSymbol
    /\ PassOn(SamplesPerSymbol \div 4, noutput)
    /\ m_state' = "SEND_FRAME"
    /\ m_cnt' = 0
    /\ NotSearched
    /\ UNCHANGED <<bin_idx, symbol_cnt, buffer, tags>>

\* case SEND_FRAME: every symbol is passed on, the last of the sequence too.
SequenceSymbol ==
  \E noutput \in Rooms, bin \in Bins :
    /\ kind = "sequence" /\ m_state = "SEND_FRAME" /\ HasSymbol
    /\ noutput >= SamplesPerSymbol
    /\ bin_idx' = IF Continues(bin) THEN bin_idx ELSE bin
    /\ \/ /\ CountNow(bin) = NSeq
          /\ symbol_cnt' = 0
          /\ m_state' = "SEND_END_FRAME"
       \/ /\ CountNow(bin) # NSeq
          /\ symbol_cnt' = CountNow(bin)
          /\ UNCHANGED m_state
    /\ PassOn(SamplesPerSymbol, noutput)
    /\ NotSearched
    /\ UNCHANGED <<m_cnt, buffer, tags>>

SequenceEnd ==
  /\ kind = "sequence" /\ m_state = "SEND_END_FRAME" /\ HasSymbol
  /\ m_state' = "FIND_PREAMBLE"
  /\ UNCHANGED <<pos, bin_idx, symbol_cnt, m_cnt, buffer, tags, history, written>>

SequenceWork ==
  SequenceSearch \/ SequenceBuffer \/ SequenceQuarter \/ SequenceSymbol \/ SequenceEnd
==============================================================================
