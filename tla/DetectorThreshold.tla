-------------------------- MODULE DetectorThreshold --------------------------
(***************************************************************************)
(* lib/frame_detector_threshold_impl.cc: a frame ends when the power of a  *)
(* symbol falls below that of the preamble by the threshold; that it does  *)
(* is a nondeterministic choice.  Some symbols more are passed on then.    *)
(***************************************************************************)
EXTENDS FrameDetector

CONSTANTS
  SureSymbols,        \* 10: symbols behind the preamble whose power is not looked at
  InterFramePadding   \* m_inter_frame_padding

ASSUME ThresholdAssumption == SureSymbols \in Nat /\ InterFramePadding \in Nat

VARIABLE cnt_padding

ThresholdInit == cnt_padding = 0

ThresholdSearch ==
  /\ kind = "threshold"
  /\ SearchPreamble(NUp, "SEND_PREAMBLE", <<>>)
  /\ UNCHANGED cnt_padding

\* No input is asked for.
ThresholdPreamble ==
  /\ kind = "threshold"
  /\ SendBuffer("SEND_PREAMBLE", "SEND_FRAME")
  /\ UNCHANGED cnt_padding

\* case SEND_FRAME
ThresholdSymbol ==
  \E noutput \in Rooms :
    /\ kind = "threshold" /\ m_state = "SEND_FRAME" /\ HasSymbol
    /\ noutput >= SamplesPerSymbol
    /\ PassOn(SamplesPerSymbol, noutput)
    /\ m_cnt' = m_cnt + 1
    /\ NotSearched
    /\ UNCHANGED <<m_state, bin_idx, symbol_cnt, buffer, tags, cnt_padding>>

PowerFalls ==
  /\ kind = "threshold" /\ m_state = "SEND_FRAME" /\ HasSymbol
  /\ \E noutput \in Rooms : noutput >= SamplesPerSymbol
  /\ m_cnt >= SureSymbols
  /\ m_cnt' = m_cnt + 1
  /\ m_state' = "SEND_END_FRAME"
  /\ UNCHANGED <<pos, bin_idx, symbol_cnt, buffer, tags, history, written, cnt_padding>>

\* case SEND_END_FRAME: the room offered is not looked at.
ThresholdPadding ==
  \E noutput \in Rooms :
    /\ kind = "threshold" /\ m_state = "SEND_END_FRAME" /\ HasSymbol
    /\ cnt_padding # InterFramePadding
    /\ PassOn(SamplesPerSymbol, noutput)
    /\ cnt_padding' = cnt_padding + 1
    /\ NotSearched
    /\ UNCHANGED <<m_state, bin_idx, symbol_cnt, m_cnt, buffer, tags>>

ThresholdEnd ==
  \E noutput \in Rooms :
    /\ kind = "threshold" /\ m_state = "SEND_END_FRAME" /\ HasSymbol
    /\ cnt_padding = InterFramePadding
    /\ PassOn(SamplesPerSymbol \div 4, noutput)
    /\ cnt_padding' = 0
    /\ symbol_cnt' = 0
    /\ m_cnt' = 0
    /\ m_state' = "FIND_PREAMBLE"
    /\ NotSearched
    /\ UNCHANGED <<bin_idx, buffer, tags>>

ThresholdWork ==
  \/ ThresholdSearch \/ ThresholdPreamble
  \/ ThresholdSymbol \/ PowerFalls \/ ThresholdPadding \/ ThresholdEnd
==============================================================================
