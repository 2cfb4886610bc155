--------------------------- MODULE DetectorTimeout ---------------------------
(***************************************************************************)
(* lib/frame_detector_timeout_impl.cc: a frame is n_bytes symbols long.    *)
(* With detect_second_packet it goes on searching inside that window, one  *)
(* preamble behind which it keeps what it passes on.                       *)
(***************************************************************************)
EXTENDS FrameDetector

CONSTANTS
  NBytes,    \* n_bytes, m_store_n_bytes
  CntRange   \* 2^16, the range of m_cnt and m_n_bytes

ASSUME TimeoutAssumption == NBytes \in 1 .. 255 /\ CntRange \in Nat /\ CntRange > NBytes

VARIABLES m_detect_second_packet, m_n_bytes

timeoutVars == <<m_detect_second_packet, m_n_bytes>>

TimeoutInit == m_detect_second_packet \in BOOLEAN /\ m_n_bytes = NBytes

\* case SEND_FRAME: nothing is done until more than a symbol can be written.
Sending(noutput) ==
  /\ kind = "timeout" /\ m_state = "SEND_FRAME" /\ HasSymbol
  /\ noutput > SamplesPerSymbol

\* Back to the search, with an item that carries the tag "end".
EndOfWindow(noutput) ==
  /\ tags' = Append(tags, Tag("end", 0))
  /\ Padded(1, noutput)
  /\ m_state' = "FIND_PREAMBLE"
  /\ m_cnt' = 0
  /\ symbol_cnt' = 0
  /\ m_n_bytes' = NBytes

TimeoutQuarter ==
  \E noutput \in Rooms :
    /\ Sending(noutput) /\ ~m_detect_second_packet
    /\ m_cnt = 0
    /\ PassOn(SamplesPerSymbol \div 4, noutput)
    /\ m_cnt' = 1
    /\ NotSearched
    /\ UNCHANGED <<m_state, bin_idx, symbol_cnt, buffer, tags, timeoutVars>>

WindowFull == m_cnt = m_n_bytes

TimeoutEnd ==
  \E noutput \in Rooms :
    /\ Sending(noutput) /\ ~m_detect_second_packet
    /\ m_cnt # 0 /\ WindowFull
    /\ EndOfWindow(noutput)
    /\ NotSearched
    /\ UNCHANGED <<pos, bin_idx, buffer, m_detect_second_packet>>

TimeoutSymbol ==
  \E noutput \in Rooms :
    /\ Sending(noutput) /\ ~m_detect_second_packet
    /\ m_cnt # 0 /\ ~WindowFull
    /\ PassOn(SamplesPerSymbol, noutput)
    /\ m_cnt' = (m_cnt + 1) % CntRange
    /\ NotSearched
    /\ UNCHANGED <<m_state, bin_idx, symbol_cnt, buffer, tags, timeoutVars>>

----------------------------------------------------------------------------
\* m_detect_second_packet: every symbol goes into the buffer and the search.

Buffered == buffer \o Items(SamplesPerSymbol)

Second(noutput, bin) ==
  /\ Sending(noutput) /\ m_detect_second_packet
  /\ Searched(bin)
  /\ pos' = pos + SamplesPerSymbol

\* A preamble inside the window: its end and the new beginning are tagged, and
\* the window is counted from here on.
\* Mutant: the window is not extended.
WindowExtendedNot == m_n_bytes

WindowExtended == (m_cnt + NBytes) % CntRange

SecondPacket ==
  \E noutput \in Rooms, bin \in Bins :
    /\ Second(noutput, bin)
    /\ CountNow(bin) = NUp
    /\ buffer' = Buffered
    /\ m_n_bytes' = WindowExtended
    /\ tags' = tags \o <<Tag("end", 1), Tag("start", 2)>>
    /\ Padded(2, noutput)
    /\ symbol_cnt' = 0
    /\ same' = 0
    /\ m_state' = "SEND_PREAMBLE"
    /\ began' = Append(began, Beginning(bin))
    /\ UNCHANGED <<m_cnt, m_detect_second_packet>>

\* Mutant: one symbol more is kept back.
BufferFullLate == Len(Buffered) > (NUp + 1) * SamplesPerSymbol

BufferFull == Len(Buffered) > NUp * SamplesPerSymbol

\* The preamble's length is kept back.
SecondKeeps ==
  \E noutput \in Rooms, bin \in Bins :
    /\ Second(noutput, bin)
    /\ CountNow(bin) # NUp
    /\ ~BufferFull
    /\ buffer' = Buffered
    /\ symbol_cnt' = CountNow(bin)
    /\ same' = SameNow(bin)
    /\ UNCHANGED <<m_state, m_cnt, tags, began, written, timeoutVars>>

SecondSymbol ==
  \E noutput \in Rooms, bin \in Bins :
    /\ Second(noutput, bin)
    /\ CountNow(bin) # NUp
    /\ BufferFull /\ ~WindowFull
    /\ Written(SubSeq(Buffered, 1, SamplesPerSymbol), noutput)
    /\ buffer' = SubSeq(Buffered, SamplesPerSymbol + 1, Len(Buffered))
    /\ m_cnt' = (m_cnt + 1) % CntRange
    /\ symbol_cnt' = CountNow(bin)
    /\ same' = SameNow(bin)
    /\ UNCHANGED <<m_state, tags, began, timeoutVars>>

\* The end of the window empties the buffer, which holds what followed it, and
\* forgets the run.
SecondEnd ==
  \E noutput \in Rooms, bin \in Bins :
    /\ Second(noutput, bin)
    /\ CountNow(bin) # NUp
    /\ BufferFull /\ WindowFull
    /\ EndOfWindow(noutput)
    /\ buffer' = <<>>
    /\ same' = SameNow(bin)
    /\ UNCHANGED <<began, m_detect_second_packet>>

----------------------------------------------------------------------------

TimeoutSearch ==
  /\ kind = "timeout"
  /\ SearchPreamble(NUp, "SEND_PREAMBLE", <<Tag("start", 0)>>)
  /\ UNCHANGED timeoutVars

TimeoutPreamble ==
  /\ kind = "timeout" /\ HasSymbol
  /\ SendBuffer("SEND_PREAMBLE", "SEND_FRAME")
  /\ UNCHANGED timeoutVars

TimeoutWork ==
  \/ TimeoutSearch \/ TimeoutPreamble
  \/ TimeoutQuarter \/ TimeoutSymbol \/ TimeoutEnd
  \/ SecondPacket \/ SecondKeeps \/ SecondSymbol \/ SecondEnd
==============================================================================
