---------------------------- MODULE FrameDetector ----------------------------
(***************************************************************************)
(* What lib/frame_detector_timeout_impl.cc, _threshold_impl.cc and         *)
(* _sequence_impl.cc have in common.  A frame detector stands between the  *)
(* radio and the network: it looks for the preamble of a frame and passes  *)
(* on the samples of the frame, those of the preamble included, which it   *)
(* has kept in a buffer meanwhile.  The three blocks differ in how they    *)
(* find the end of the frame.                                              *)
(*                                                                         *)
(* An input item is its position in the stream; what get_symbol_val makes  *)
(* of a window of one symbol is any element of Bins.  samp_rate = bw, so   *)
(* m_N = m_samples_per_symbol.  Tags are kept by the offset of their item. *)
(***************************************************************************)
EXTENDS Integers, Sequences, FiniteSetsExt

CONSTANTS
  SamplesPerSymbol,  \* m_samples_per_symbol
  NUp,               \* n_up
  Bins,              \* the values of get_symbol_val explored
  InputSymbols,      \* symbols received: bounds every counter
  Rooms              \* noutput_items explored

ASSUME DetectorAssumption ==
  /\ SamplesPerSymbol \in Nat \ {0} /\ SamplesPerSymbol % 4 = 0
  /\ NUp \in Nat /\ NUp >= 3
  /\ Bins \subseteq Nat
  /\ InputSymbols \in Nat
  /\ Rooms \subseteq Nat \ {0}

VARIABLES
  kind,      \* which of the three blocks this is
  pos,       \* items consumed
  m_state, bin_idx, symbol_cnt, m_cnt,
  buffer,
  out,       \* history: the items written, Pad for one that is not input
  passed,    \* history: the items of the input among them
  tags,      \* history: the tags added
  run,       \* history: where the run of symbols counted by symbol_cnt begins
  same,      \* history: windows searched since the last change of bin
  last_bin,  \* history: bin of the last window
  began,     \* history: where each frame begins in passed, and its preamble in the input
  room_kept  \* history: no call wrote more than it was offered

Pad == -1

detectorVars == <<pos, m_state, bin_idx, symbol_cnt, m_cnt, buffer, tags>>
written == <<out, passed, room_kept>>
history == <<run, same, last_bin, began>>

\* Items from the read position on.
Items(n) == [k \in 1 .. n |-> pos + k - 1]

\* The scheduler calls a detector when a symbol is there to read.
HasSymbol == pos + SamplesPerSymbol <= InputSymbols * SamplesPerSymbol

Written(items, noutput) ==
  /\ out' = out \o items
  /\ passed' = passed \o items
  /\ room_kept' = (room_kept /\ Len(items) <= noutput)

\* n items that only carry tags.
Padded(n, noutput) ==
  /\ out' = out \o [k \in 1 .. n |-> Pad]
  /\ room_kept' = (room_kept /\ n <= noutput)
  /\ UNCHANGED passed

\* A tag "frame" on the item k places behind the last one written.
Tag(value, k) == [at |-> Len(out) + 1 + k, value |-> value]

DetectorInit ==
  /\ pos = 0
  /\ m_state = "FIND_PREAMBLE"
  /\ kind \in {"timeout", "threshold", "sequence"}
  /\ bin_idx = IF kind = "sequence" THEN 2 ELSE 0
  /\ symbol_cnt = 0 /\ m_cnt = 0
  /\ buffer = <<>> /\ out = <<>> /\ passed = <<>> /\ tags = <<>>
  /\ run = 0 /\ same = 0 /\ last_bin = -1 /\ began = <<>> /\ room_kept = TRUE

----------------------------------------------------------------------------
\* The search for a preamble; a run is compared with its first symbol.

Continues(bin) == bin - bin_idx \in -1 .. 1

\* Mutant: a symbol that ends a run does not begin the next.
CountNowZero(bin) == IF Continues(bin) THEN symbol_cnt + 1 ELSE 0

CountNow(bin) == IF Continues(bin) THEN symbol_cnt + 1 ELSE 1

RunNow(bin) == IF Continues(bin) /\ symbol_cnt > 0 THEN run ELSE pos

Beginning(bin) == [at |-> Len(passed) + 1, from |-> RunNow(bin)]

SameNow(bin) == IF bin = last_bin THEN same + 1 ELSE 1

Searched(bin) == /\ bin_idx' = IF Continues(bin) THEN bin_idx ELSE bin
                 /\ run' = RunNow(bin)
                 /\ last_bin' = bin

\* A window that does not go into the search ends the history of equal bins.
NotSearched == same' = 0 /\ last_bin' = -1 /\ UNCHANGED <<run, began>>

\* The symbol that ends a run is dropped with the run.
\* Mutant: the buffer is not emptied.
BufferNowKept(bin) == buffer \o Items(SamplesPerSymbol)

BufferNow(bin) == IF Continues(bin) THEN buffer \o Items(SamplesPerSymbol) ELSE <<>>

\* case FIND_PREAMBLE; needed symbols make a preamble.
SearchPreamble(needed, next, tag) ==
  /\ m_state = "FIND_PREAMBLE" /\ HasSymbol
  /\ \E bin \in Bins :
       /\ Searched(bin)
       /\ buffer' = BufferNow(bin)
       /\ \/ /\ CountNow(bin) # needed
             /\ symbol_cnt' = CountNow(bin)
             /\ same' = SameNow(bin)
             /\ UNCHANGED <<m_state, tags, began>>
          \/ /\ CountNow(bin) = needed
             /\ symbol_cnt' = 0
             /\ same' = 0
             /\ m_state' = next
             /\ tags' = tags \o tag
             /\ began' = Append(began, Beginning(bin))
  /\ pos' = pos + SamplesPerSymbol
  /\ UNCHANGED <<m_cnt, written>>

\* As much of the buffer as there is room for.
\* Mutant: the whole buffer whatever the room.
BufferPartWhole(noutput) == Len(buffer)

BufferPart(noutput) == Min({Len(buffer), noutput})

SendBuffer(state, next) ==
  /\ m_state = state
  /\ \E noutput \in Rooms :
       LET n == BufferPart(noutput) IN
       /\ Written(SubSeq(buffer, 1, n), noutput)
       /\ buffer' = SubSeq(buffer, n + 1, Len(buffer))
       /\ m_state' = IF n = Len(buffer) THEN next ELSE state
  /\ UNCHANGED <<pos, bin_idx, symbol_cnt, m_cnt, tags, history>>

\* n items of the input are passed on.
\* Mutant: a whole symbol is consumed with the quarter symbol.
PassOnQuarter(n, noutput) ==
  /\ Written(Items(n), noutput)
  /\ pos' = pos + SamplesPerSymbol

PassOn(n, noutput) ==
  /\ Written(Items(n), noutput)
  /\ pos' = pos + n

\* A tag "work_done" in the input window: all that was read is dropped.
WorkDone ==
  /\ kind # "sequence" /\ HasSymbol
  /\ pos' = InputSymbols * SamplesPerSymbol
  /\ \E noutput \in Rooms : Padded(1, noutput)
  /\ tags' = Append(tags, Tag("work_done", 0))
  /\ NotSearched
  /\ UNCHANGED <<m_state, bin_idx, symbol_cnt, m_cnt, buffer>>
==============================================================================
