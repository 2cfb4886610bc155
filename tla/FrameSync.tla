----------------------------- MODULE FrameSync -----------------------------
(***************************************************************************)
(* lib/frame_sync_impl.cc: preamble detection, synchronisation, and the    *)
(* passing on of the symbols of a frame.  One action per branch of         *)
(* general_work, which the block's thread runs once per symbol window, and *)
(* one for frame_info_handler, which the same thread runs between two      *)
(* calls of general_work.                                                  *)
(*                                                                         *)
(* The signal is abstracted to the value bin that get_symbol_val returns   *)
(* for the window at the read position (-1 for a window without energy).   *)
(* items_to_consume is in units of one sample at the symbol rate: the      *)
(* code's value divided by usFactor.  samp_rate = bandwidth, as in every   *)
(* flow graph of the repository, so a symbol has NumberOfBins samples.     *)
(***************************************************************************)
EXTENDS RxLinks

CONSTANTS
  NumberOfBins,  \* m_number_of_bins, 2^sf
  NUp,           \* n_up, upchirps in a preamble
  SyncWord1, SyncWord2,  \* m_sync_words
  Bins,          \* the values of get_symbol_val explored
  UIntRange,     \* 2^32, the range of uint32_t
  FrameIds       \* symbols are numbered by frame modulo FrameIds

ASSUME SyncAssumption ==
  /\ NumberOfBins \in Nat \ {0}
  /\ NUp \in Nat /\ NUp >= 3
  /\ SyncWord1 \in Nat /\ SyncWord2 \in Nat
  /\ Bins \subseteq -1 .. (NumberOfBins - 1)
  /\ UIntRange \in Nat /\ UIntRange > 1024
  /\ FrameIds \in Nat \ {0}

VARIABLES
  m_state, symbol_cnt,
  bin_idx, k_hat, cfo_sto_est, net_id_off, down_val,
  m_received_head, m_symb_numb,
  items_to_consume,
  symb_cr,       \* history: the coding rate m_symb_numb was computed with
  frame          \* history: the number of the frame now received

syncVars == <<m_state, symbol_cnt, bin_idx, k_hat, cfo_sto_est, net_id_off,
              down_val, m_received_head, m_symb_numb, items_to_consume, symb_cr, frame>>

\* enum SyncState
NET_ID1 == 0
NET_ID2 == 1
DOWNCHIRP1 == 2
DOWNCHIRP2 == 3
QUARTER_DOWN == 4

Abs(x) == IF x < 0 THEN -x ELSE x
CeilDiv(x, y) == (x + y - 1) \div y

(***************************************************************************)
(* m_symb_numb.  m_pay_len is a uint32_t, so the numerator is computed     *)
(* modulo 2^32 before it is cast to double.                                *)
(***************************************************************************)
PayloadNibbles(impl, h) ==
  2 * h.pay_len - SF + 2 + (IF impl THEN 0 ELSE 5) + 4 * h.crc

\* Mutant: the 4 nibbles of the payload CRC are forgotten.
SymbNumbNoCrc(impl, h) ==
  8 + CeilDiv((PayloadNibbles(impl, h) - 4 * h.crc) % UIntRange, SF) * (4 + h.cr)

\* Mutant: the parity symbols of the coding rate are forgotten.
SymbNumbNoParity(impl, h) ==
  8 + CeilDiv(PayloadNibbles(impl, h) % UIntRange, SF) * 4

SymbNumb(impl, h) ==
  8 + CeilDiv(PayloadNibbles(impl, h) % UIntRange, SF) * (4 + h.cr)

\* What the last header accepted said.
infoVars == <<m_received_head, m_symb_numb, symb_cr>>

\* What the search for a frame found.
signalVars == <<bin_idx, k_hat, cfo_sto_est, net_id_off, down_val>>

SyncInit ==
  /\ m_state = "DETECT"
  /\ symbol_cnt = 1
  /\ bin_idx = 0
  /\ k_hat = 0
  /\ cfo_sto_est \in BOOLEAN       \* not initialised by the constructor
  /\ net_id_off = 0
  /\ down_val = 0
  /\ m_received_head \in BOOLEAN   \* not initialised by the constructor
  /\ symb_cr = 0
  /\ m_symb_numb = 0
  /\ items_to_consume = 0
  /\ frame = 0

\* The scheduler calls general_work only when an output item fits.
HasRoom == Len(symbols) < SymbolsCapacity

\* Back to DETECT: the common tail of every abort and of the end of a frame.
Restart ==
  /\ m_state' = "DETECT"
  /\ symbol_cnt' = 1
  /\ k_hat' = 0

----------------------------------------------------------------------------
\* case DETECT

\* A window that continues the run of upchirps: within +-1 of the one before.
Continues(bin) == Abs(bin - bin_idx) <= 1 /\ bin # -1

\* The sum of the run, to which the second symbol also adds the first.
RunSum(bin) == k_hat + (IF symbol_cnt = 1 THEN bin_idx ELSE 0) + bin

DetectUpchirp(bin) ==
  /\ m_state = "DETECT" /\ HasRoom
  /\ Continues(bin)
  /\ symbol_cnt + 1 # NUp - 1
  /\ symbol_cnt' = symbol_cnt + 1
  /\ k_hat' = RunSum(bin)
  /\ bin_idx' = bin
  /\ items_to_consume' = NumberOfBins
  /\ UNCHANGED <<m_state, cfo_sto_est, net_id_off, down_val, infoVars, frame, links>>

\* n_up - 1 upchirps: coarse synchronisation.  int / uint32_t is unsigned.
\* Mutant: the sum of the run is not divided by the number of upchirps.
DetectPreambleSum(bin) ==
  /\ m_state = "DETECT" /\ HasRoom
  /\ Continues(bin)
  /\ symbol_cnt + 1 = NUp - 1
  /\ m_state' = "SYNC"
  /\ symbol_cnt' = NET_ID1
  /\ cfo_sto_est' = FALSE
  /\ k_hat' = RunSum(bin)
  /\ bin_idx' = bin
  /\ items_to_consume' = NumberOfBins - k_hat'
  /\ UNCHANGED <<net_id_off, down_val, infoVars, frame, links>>

DetectPreamble(bin) ==
  /\ m_state = "DETECT" /\ HasRoom
  /\ Continues(bin)
  /\ symbol_cnt + 1 = NUp - 1
  /\ m_state' = "SYNC"
  /\ symbol_cnt' = NET_ID1
  /\ cfo_sto_est' = FALSE
  /\ k_hat' = (RunSum(bin) % UIntRange) \div (NUp - 1)
  /\ bin_idx' = bin
  /\ items_to_consume' = NumberOfBins - k_hat'
  /\ UNCHANGED <<net_id_off, down_val, infoVars, frame, links>>

DetectOther(bin) ==
  /\ m_state = "DETECT" /\ HasRoom
  /\ ~Continues(bin)
  /\ symbol_cnt' = 1
  /\ k_hat' = 0
  /\ bin_idx' = bin
  /\ items_to_consume' = NumberOfBins
  /\ UNCHANGED <<m_state, cfo_sto_est, net_id_off, down_val, infoVars, frame, links>>

----------------------------------------------------------------------------
\* case SYNC

\* What every sub-state of SYNC does first: estimate once, demodulate.
SyncWindow(bin) ==
  /\ m_state = "SYNC" /\ HasRoom
  /\ cfo_sto_est' = TRUE
  /\ bin_idx' = bin

WrongNetId ==
  /\ Restart
  /\ items_to_consume' = NumberOfBins
  /\ UNCHANGED <<net_id_off, down_val, infoVars, frame, links>>

\* Mutant: no margin for an upchirp that is off by one.
StillUpchirpExact(bin) == bin = 0

StillUpchirp(bin) == bin \in {0, 1, NumberOfBins - 1}

NetId1(bin) ==
  /\ SyncWindow(bin)
  /\ symbol_cnt = NET_ID1
  /\ \/ /\ StillUpchirp(bin)          \* additional upchirps
        /\ UNCHANGED <<m_state, symbol_cnt, k_hat, net_id_off>>
        /\ items_to_consume' = NumberOfBins
        /\ UNCHANGED <<down_val, infoVars, frame, links>>
     \/ /\ ~StillUpchirp(bin)
        /\ Abs(bin - SyncWord1) > 1
        /\ WrongNetId
     \/ /\ ~StillUpchirp(bin)
        /\ Abs(bin - SyncWord1) <= 1
        /\ net_id_off' = bin - SyncWord1
        /\ symbol_cnt' = NET_ID2
        /\ items_to_consume' = NumberOfBins
        /\ UNCHANGED <<m_state, k_hat, down_val, infoVars, frame, links>>

\* Mutant: an offset common to both identifiers is not corrected.
NetId2NoCorrection(bin) ==
  /\ SyncWindow(bin)
  /\ symbol_cnt = NET_ID2
  /\ \/ /\ Abs(bin - SyncWord2) > 1
        /\ WrongNetId
     \/ /\ Abs(bin - SyncWord2) <= 1
        /\ symbol_cnt' = DOWNCHIRP1
        /\ items_to_consume' = NumberOfBins
        /\ UNCHANGED <<m_state, k_hat, net_id_off, down_val, infoVars, frame, links>>

NetId2(bin) ==
  /\ SyncWindow(bin)
  /\ symbol_cnt = NET_ID2
  /\ \/ /\ Abs(bin - SyncWord2) > 1
        /\ WrongNetId
     \/ /\ Abs(bin - SyncWord2) <= 1
        /\ symbol_cnt' = DOWNCHIRP1
        \* both identifiers off by the same one: the window is off by one
        /\ items_to_consume' = IF net_id_off # 0 /\ bin - SyncWord2 = net_id_off
                               THEN NumberOfBins - net_id_off
                               ELSE NumberOfBins
        /\ UNCHANGED <<m_state, k_hat, net_id_off, down_val, infoVars, frame, links>>

Downchirp1(bin) ==
  /\ SyncWindow(bin)
  /\ symbol_cnt = DOWNCHIRP1
  /\ symbol_cnt' = DOWNCHIRP2
  /\ items_to_consume' = NumberOfBins
  /\ UNCHANGED <<m_state, k_hat, net_id_off, down_val, infoVars, frame, links>>

\* down is the window demodulated with the upchirp.
Downchirp2(bin, down) ==
  /\ SyncWindow(bin)
  /\ symbol_cnt = DOWNCHIRP2
  /\ down_val' = down
  /\ symbol_cnt' = QUARTER_DOWN
  /\ items_to_consume' = NumberOfBins
  /\ UNCHANGED <<m_state, k_hat, net_id_off, infoVars, frame, links>>

(***************************************************************************)
(* The integer carrier offset read off the downchirp.  In the second case  *)
(* down_val - N is negative: ceil of its half, then modulo N.  The test    *)
(* compares with an unsigned, so a window without energy (-1) fails it.    *)
(***************************************************************************)
CFOint ==
  IF down_val \in 0 .. (NumberOfBins \div 2 - 1)
  THEN down_val \div 2
  ELSE (NumberOfBins - ((NumberOfBins - down_val) \div 2)) % NumberOfBins

\* Mutant: m_received_head is not reset for the new frame.
QuarterDownNoReset(bin) ==
  /\ SyncWindow(bin)
  /\ symbol_cnt = QUARTER_DOWN
  /\ sync_tags' = Append(sync_tags, HeaderTag)
  /\ items_to_consume' = NumberOfBins \div 4 + CFOint
  /\ symbol_cnt' = 0
  /\ m_state' = "FRAC_CFO_CORREC"
  /\ frame' = (frame + 1) % FrameIds
  /\ UNCHANGED <<k_hat, net_id_off, down_val, infoVars,
                 m_impl_head, symbols, codewords, frame_info>>

QuarterDown(bin) ==
  /\ SyncWindow(bin)
  /\ symbol_cnt = QUARTER_DOWN
  /\ sync_tags' = Append(sync_tags, HeaderTag)
  /\ m_received_head' = FALSE
  /\ items_to_consume' = NumberOfBins \div 4 + CFOint
  /\ symbol_cnt' = 0
  /\ m_state' = "FRAC_CFO_CORREC"
  /\ frame' = (frame + 1) % FrameIds
  /\ UNCHANGED <<k_hat, net_id_off, down_val, m_symb_numb, symb_cr,
                 m_impl_head, symbols, codewords, frame_info>>

----------------------------------------------------------------------------
\* case FRAC_CFO_CORREC

\* At least the 8 symbols of the header block; the rest once the header is known.
\* Mutant: nine symbols are passed on before the header is known.
MoreSymbolsOne ==
  symbol_cnt <= 8 \/ (symbol_cnt < m_symb_numb /\ m_received_head)

MoreSymbols ==
  symbol_cnt < 8 \/ (symbol_cnt < m_symb_numb /\ m_received_head)

OutputSymbol ==
  /\ m_state = "FRAC_CFO_CORREC" /\ HasRoom
  /\ MoreSymbols
  /\ symbols' = Append(symbols, [frame |-> frame, idx |-> symbol_cnt, tags |-> sync_tags])
  /\ sync_tags' = <<>>
  /\ symbol_cnt' = symbol_cnt + 1
  /\ items_to_consume' = NumberOfBins
  /\ UNCHANGED <<m_state, signalVars, infoVars, frame,
                 m_impl_head, codewords, frame_info>>

\* Wait for the header to be decoded: nothing consumed, nothing written.
WaitForHeader ==
  /\ m_state = "FRAC_CFO_CORREC" /\ HasRoom
  /\ ~MoreSymbols
  /\ ~m_received_head
  /\ items_to_consume' = 0
  /\ UNCHANGED <<m_state, symbol_cnt, signalVars, infoVars, frame, links>>

EndOfFrame ==
  /\ m_state = "FRAC_CFO_CORREC" /\ HasRoom
  /\ ~MoreSymbols
  /\ m_received_head
  /\ Restart
  /\ items_to_consume' = NumberOfBins
  /\ UNCHANGED <<bin_idx, cfo_sto_est, net_id_off, down_val, infoVars, frame, links>>

----------------------------------------------------------------------------
\* frame_info_handler.  It looks neither at m_state nor at the frame the message is about.
\* m_cr, m_pay_len and m_has_crc are set by every message and read only here.
\* Mutant: the tag that opens the payload is added even if the header is invalid.
FrameInfoHandlerTags ==
  /\ frame_info # <<>>
  /\ frame_info' = Tail(frame_info)
  /\ sync_tags' = Append(sync_tags, PayloadTag(Head(frame_info).header.cr))
  /\ \/ /\ Head(frame_info).err
        /\ Restart
        /\ UNCHANGED infoVars
     \/ /\ ~Head(frame_info).err
        /\ m_symb_numb' = SymbNumb(m_impl_head, Head(frame_info).header)
        /\ symb_cr' = Head(frame_info).header.cr
        /\ m_received_head' = TRUE
        /\ UNCHANGED <<m_state, symbol_cnt, k_hat>>
  /\ UNCHANGED <<bin_idx, cfo_sto_est, net_id_off, down_val, items_to_consume, frame,
                 m_impl_head, symbols, codewords>>

FrameInfoHandler ==
  /\ frame_info # <<>>
  /\ frame_info' = Tail(frame_info)
  /\ \/ /\ Head(frame_info).err
        /\ Restart
        /\ UNCHANGED <<infoVars, sync_tags>>
     \/ /\ ~Head(frame_info).err
        /\ m_symb_numb' = SymbNumb(m_impl_head, Head(frame_info).header)
        /\ symb_cr' = Head(frame_info).header.cr
        /\ m_received_head' = TRUE
        /\ sync_tags' = Append(sync_tags, PayloadTag(Head(frame_info).header.cr))
        /\ UNCHANGED <<m_state, symbol_cnt, k_hat>>
  /\ UNCHANGED <<bin_idx, cfo_sto_est, net_id_off, down_val, items_to_consume, frame,
                 m_impl_head, symbols, codewords>>

----------------------------------------------------------------------------
\* general_work on a window in which get_symbol_val returns bin with the
\* downchirp as reference and down with the upchirp.
SearchWindow(bin, down) ==
  \/ DetectUpchirp(bin) \/ DetectPreamble(bin) \/ DetectOther(bin)
  \/ NetId1(bin) \/ NetId2(bin)
  \/ Downchirp1(bin) \/ Downchirp2(bin, down) \/ QuarterDown(bin)

FrameSyncWork ==
  \/ \E bin, down \in Bins : SearchWindow(bin, down)
  \/ OutputSymbol \/ WaitForHeader \/ EndOfFrame
============================================================================
