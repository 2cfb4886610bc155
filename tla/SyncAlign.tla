----------------------------- MODULE SyncAlign -----------------------------
(***************************************************************************)
(* frame_sync on one frame as modulate_impl.cc sends it, at every sampling *)
(* offset and every integer carrier offset.  The read position of          *)
(* frame_sync is followed sample by sample, so that one can ask whether    *)
(* the first symbol passed on begins where the header begins.              *)
(*                                                                         *)
(* The signal is free of noise once the preamble has begun.  A window that *)
(* starts delta samples into a symbol of value v, received with a carrier  *)
(* offset of c bins, demodulates to v + delta + c modulo N; a downchirp,   *)
(* demodulated with the upchirp, to c - delta.  A window over two symbols  *)
(* yields the value of the one that fills most of it.                      *)
(*                                                                         *)
(* Before the frame there are up to NoiseWindows windows of noise or       *)
(* silence.  frame_sync cannot tell noise that looks like upchirps from    *)
(* upchirps; the history variable noise_run counts the windows of noise in *)
(* the run it has summed up, so that one can say how many it bears.        *)
(***************************************************************************)
EXTENDS FrameSync

CONSTANTS
  CarrierOffsets,  \* integer carrier offsets, in bins
  NoiseBins,       \* what get_symbol_val may return for noise; -1 is silence
  NoiseWindows     \* how many windows before the frame frame_sync begins at most

ASSUME AlignAssumption ==
  /\ \A c \in CarrierOffsets : 4 * Abs(c) < NumberOfBins
  /\ NoiseBins \subseteq Bins
  /\ NoiseWindows \in Nat \ {0}

VARIABLES
  pos,        \* read position; the frame's first upchirp begins at 0
  cfo,        \* integer carrier offset
  noise_run,  \* history: how many windows of the last run began before the frame
  lost        \* history: a synchronisation spoilt by noise was given up within the frame

alignVars == <<links, syncVars, pos, cfo, noise_run, lost>>

\* n_up upchirps, two network identifiers and 2.25 downchirps.
HeaderStart == (NUp + 4) * NumberOfBins + NumberOfBins \div 4

\* The symbol that fills most of a window at p, and how far into it p is.
SymbolAt(p) == (p + NumberOfBins \div 2) \div NumberOfBins
Delta(p) == p - SymbolAt(p) * NumberOfBins

SymbolValue(k) == IF k = NUp THEN SyncWord1 ELSE IF k = NUp + 1 THEN SyncWord2 ELSE 0

ChirpBin(p) == (SymbolValue(SymbolAt(p)) + Delta(p) + cfo) % NumberOfBins

\* DETECT and the two identifiers look at the bin; what comes later only demodulates.
LooksAtBin == m_state = "DETECT" \/ symbol_cnt \in {NET_ID1, NET_ID2}

\* Before the frame noise; over its edge noise or the first upchirp; a downchirp demodulated with the
\* downchirp is noise again, and so is an upchirp demodulated with the upchirp.
WindowBins ==
  CASE LooksAtBin /\ (pos <= -NumberOfBins \/ SymbolAt(pos) > NUp + 1) -> NoiseBins
    [] LooksAtBin /\ pos \in (1 - NumberOfBins) .. -1 -> NoiseBins \cup {ChirpBin(pos)}
    [] OTHER -> {ChirpBin(pos)}

DownBins ==
  IF symbol_cnt = DOWNCHIRP2 /\ SymbolAt(pos) \notin {NUp + 2, NUp + 3}
  THEN NoiseBins
  ELSE {(cfo - Delta(pos)) % NumberOfBins}

\* frame_sync begins anywhere in a window before the frame; the bin_idx of its constructor counts
\* as the first window of a run.  The search sets the two flags it leaves uninitialised before
\* it reads them.
AlignInit ==
  /\ LinksInit /\ SyncInit
  /\ pos \in (1 - (NoiseWindows + 1) * NumberOfBins) .. -NumberOfBins
  /\ cfo \in CarrierOffsets
  /\ ~cfo_sto_est /\ ~m_received_head
  /\ noise_run = 1
  /\ lost = FALSE

\* As many windows of noise as a run bears: their bins differ from that of the upchirps by 1, 2 and so
\* on at most, from the last to the first, in sum by less than one for each upchirp summed up.
NoiseBorne == {m \in 0 .. NUp : m * (m + 1) < 2 * (NUp - 1)}

Spoilt == noise_run \notin NoiseBorne

\* The windows of noise in a run that goes on or begins; one abandoned within the frame leaves none.
CountNoise(bin) ==
  noise_run' =
    CASE m_state = "DETECT"  -> (IF Continues(bin) THEN noise_run ELSE 0) + (IF pos < 0 THEN 1 ELSE 0)
      [] m_state = "SYNC" /\ m_state' = "DETECT" -> IF pos < 0 THEN 1 ELSE 0
      [] OTHER               -> noise_run

\* A run that began in silence and went on with bin 0 only: its sum is -1, its mean as an unsigned
\* far outside the input and preamble_raw.  What frame_sync does then is undefined.
Underflow == m_state = "SYNC" /\ k_hat >= NumberOfBins

\* The signal is described up to the first symbol of the header, and followed until the frame is lost.
Horizon == HeaderStart + NumberOfBins

AlignNext ==
  /\ pos < Horizon /\ ~Underflow /\ ~lost
  /\ \E bin \in WindowBins, down \in DownBins : SearchWindow(bin, down) /\ CountNoise(bin)
  /\ pos' = pos + items_to_consume'
  /\ lost' = (lost \/ (m_state = "SYNC" /\ m_state' = "DETECT" /\ pos >= 0 /\ Spoilt))
  /\ UNCHANGED cfo

AlignSpec == AlignInit /\ [][AlignNext]_alignVars /\ WF_alignVars(AlignNext)

----------------------------------------------------------------------------

(***************************************************************************)
(* The first symbol passed on begins with the header, whatever the offset  *)
(* at which sampling began and the carrier offset, unless the run was      *)
(* spoilt by noise: k_hat, the margin of one bin for every symbol of the   *)
(* preamble, net_id_off and CFOint compensate for one another.             *)
(***************************************************************************)
HeaderAligned == m_state = "FRAC_CFO_CORREC" /\ ~Spoilt /\ ~lost => pos = HeaderStart

(***************************************************************************)
(* Coarse synchronisation comes within a sample: after the shift by k_hat, *)
(* "integer part of CFO+STO" (frame_sync_impl.h:89), the windows begin cfo *)
(* samples before the symbols or one sample less, although the mean was    *)
(* taken over windows of noise too, in which the bin drifted.              *)
(***************************************************************************)
CoarseOffset ==
  m_state = "SYNC" /\ symbol_cnt = NET_ID1 /\ ~Spoilt /\ ~Underflow /\ ~lost =>
    (pos + cfo) % NumberOfBins \in {0, 1}

(***************************************************************************)
(* The frame is not missed: frame_sync reaches the header, also after it   *)
(* has taken noise for a preamble and given it up, unless too much noise   *)
(* or silence was in the run that led into the frame.                      *)
(***************************************************************************)
Synchronises == <>[](m_state = "FRAC_CFO_CORREC" \/ (m_state = "SYNC" /\ Spoilt) \/ lost \/ Underflow)
============================================================================
