---------------------------- MODULE FrameDetectors ----------------------------
(***************************************************************************)
(* Each of the three frame detectors on any input.                         *)
(***************************************************************************)
EXTENDS DetectorTimeout, DetectorThreshold, DetectorSequence

vars == <<kind, detectorVars, written, history, timeoutVars, cnt_padding>>

Init == DetectorInit /\ TimeoutInit /\ ThresholdInit

TimeoutStep   == TimeoutWork /\ UNCHANGED <<kind, cnt_padding>>
ThresholdStep == ThresholdWork /\ UNCHANGED <<kind, timeoutVars>>
SequenceStep  == SequenceWork /\ UNCHANGED <<kind, timeoutVars, cnt_padding>>
DoneStep      == WorkDone /\ UNCHANGED <<kind, timeoutVars, cnt_padding>>

Next == TimeoutStep \/ ThresholdStep \/ SequenceStep \/ DoneStep

Spec == Init /\ [][Next]_vars
----------------------------------------------------------------------------

TypeOK ==
  /\ kind \in {"timeout", "threshold", "sequence"}
  /\ pos \in 0 .. InputSymbols * SamplesPerSymbol
  /\ m_state \in {"FIND_PREAMBLE", "SEND_BUFFER", "SEND_PREAMBLE", "SEND_FRAME", "SEND_END_FRAME"}
  /\ bin_idx \in Nat
  /\ symbol_cnt \in 0 .. InputSymbols
  /\ m_cnt \in 0 .. InputSymbols
  /\ m_n_bytes \in 0 .. CntRange - 1
  /\ cnt_padding \in 0 .. InterFramePadding
  /\ Len(buffer) <= (NUp + 1) * SamplesPerSymbol

(***************************************************************************)
(* What is passed on of a frame is a piece of the input without gaps or    *)
(* repetitions, however the buffer is emptied and wherever the quarter     *)
(* symbols fall; only between two frames is input left out.                *)
(***************************************************************************)
NothingLostInside ==
  \A k \in 1 .. Len(passed) - 1 :
    \/ passed[k + 1] = passed[k] + 1
    \/ passed[k + 1] > passed[k] /\ \E f \in 1 .. Len(began) : began[f].at = k + 1

(***************************************************************************)
(* A frame is passed on from its preamble: at most the first upchirp is    *)
(* missing (dropped with the run it ended), and at most one symbol comes   *)
(* before (the oldest in the buffer when a second packet is found).        *)
(***************************************************************************)
StartsInPreamble ==
  \A f \in 1 .. Len(began) :
    began[f].at <= Len(passed) =>
      passed[began[f].at] - began[f].from \in {-SamplesPerSymbol, 0, SamplesPerSymbol}

(***************************************************************************)
(* No preamble goes unnoticed while a detector is searching: it has not    *)
(* seen as many equal symbols as make one.  With detect_second_packet the  *)
(* end of the window forgets a run, and the property does not hold.        *)
(***************************************************************************)
PreambleFound ==
  ~(kind = "timeout" /\ m_detect_second_packet) =>
    same < (IF kind = "sequence" THEN NUp - 1 ELSE NUp)

(***************************************************************************)
(* frame_detector_timeout writes no more than it is offered.  The others   *)
(* look at the room in some of their states only.                          *)
(***************************************************************************)
RoomKept == kind = "timeout" => room_kept

\* Items of a frame behind its preamble: in the one mode a quarter symbol takes
\* the place of the first symbol.
WindowLength ==
  IF m_detect_second_packet THEN NBytes * SamplesPerSymbol
  ELSE (NBytes - 1) * SamplesPerSymbol + SamplesPerSymbol \div 4

\* The last item of frame f if its window is passed on in full.
LastOf(f) == began[f].from + NUp * SamplesPerSymbol + WindowLength - 1

\* The k-th tag is where it belongs.
TaggedRight(k) ==
  \/ tags[k].value = "work_done" /\ k = Len(tags)
  \/ tags[k].value = "start" /\ k % 2 = 1
  \/ /\ tags[k].value = "end" /\ k % 2 = 0
     /\ LET last == out[tags[k].at - 1] IN
        IF last = Pad THEN k < Len(tags) /\ out[tags[k].at - 2] <= LastOf(k \div 2)
        ELSE last = LastOf(k \div 2)

(***************************************************************************)
(* The tags "start" and "end" alternate, and nothing follows "work_done".  *)
(* Behind the last item of a frame lies its "end": a window of n_bytes     *)
(* symbols from its own preamble on, for a second packet too and also      *)
(* where m_cnt, which goes on counting, passes 2^16.  The preamble of the  *)
(* next frame cuts a window short; "end" and "start" then follow an item   *)
(* without a tag.                                                          *)
(***************************************************************************)
FramesTagged == \A k \in 1 .. Len(tags) : TaggedRight(k)
===============================================================================
