--------------------------- MODULE SyncAlignProofs ---------------------------
(***************************************************************************)
(* Proofs about SyncAlign: frame_sync finds the first sample of the        *)
(* header, for symbols and preambles of any length, any sampling offset,   *)
(* any integer carrier offset upwards, and any noise or silence, for any   *)
(* number of windows, before the frame, unless it spoilt the run that led  *)
(* into the frame.                                                         *)
(***************************************************************************)
EXTENDS SyncAlign, TLAPS

(***************************************************************************)
(* The parameters for which this holds: a carrier offset that is not       *)
(* negative, sync words that differ from an upchirp that is off by one, a  *)
(* preamble of 7 upchirps or more.                                         *)
(***************************************************************************)
AlignParameters ==
  /\ NumberOfBins % 4 = 0 /\ NUp >= 7
  /\ SyncWord1 \in 2 .. NumberOfBins - 3 /\ SyncWord2 <= NumberOfBins - 2
  /\ NUp * NumberOfBins < UIntRange
  /\ CarrierOffsets \subseteq Nat

\* The bin of an upchirp at the read position.
UpchirpBin == (pos + cfo) % NumberOfBins

\* By how much the sum of the run differs from that of a run of its last bin only.
RunTotal == IF symbol_cnt = 1 THEN bin_idx ELSE k_hat
Deviation == RunTotal - symbol_cnt * bin_idx

\* What a drift by at most one bin from each of n windows to the next can add up to.
DriftBound(d, n) == 2 * d <= n * (n - 1) /\ -(2 * d) <= n * (n - 1)

\* The windows of the run that lie within the frame.
Seen == symbol_cnt - noise_run

\* The run of upchirps that DETECT has counted: windows of noise, then windows within the frame, which
\* all show the same bin.
RunOfUpchirps ==
  /\ symbol_cnt \in 1 .. NUp - 2
  /\ noise_run \in 0 .. symbol_cnt
  /\ bin_idx \in -1 .. NumberOfBins - 1
  /\ symbol_cnt = 1 => k_hat = 0
  /\ RunTotal >= -1
  /\ pos < (Seen + 1) * NumberOfBins
  /\ Seen = 0 => DriftBound(Deviation, noise_run)
  /\ Seen > 0 =>
       /\ pos >= Seen * NumberOfBins
       /\ bin_idx = UpchirpBin
       /\ DriftBound(Deviation, noise_run + 1)

\* SYNC reads symbol after symbol of the preamble, cfo samples early or one sample less.
SymbolBySymbol ==
  /\ symbol_cnt \in NET_ID1 .. QUARTER_DOWN
  /\ symbol_cnt = NET_ID1 =>
       \E k \in 1 .. NUp, e \in 0 .. 1 : pos = k * NumberOfBins - cfo + e
  /\ symbol_cnt = NET_ID2 =>
       net_id_off \in 0 .. 1 /\ pos = (NUp + 1) * NumberOfBins - cfo + net_id_off
  /\ symbol_cnt = DOWNCHIRP1 => pos = (NUp + 2) * NumberOfBins - cfo
  /\ symbol_cnt = DOWNCHIRP2 => pos = (NUp + 3) * NumberOfBins - cfo
  /\ symbol_cnt = QUARTER_DOWN => pos = (NUp + 4) * NumberOfBins - cfo /\ down_val = 2 * cfo

AlignTypes ==
  /\ pos \in Int /\ cfo \in Nat /\ 4 * cfo < NumberOfBins
  /\ m_state \in {"DETECT", "SYNC", "FRAC_CFO_CORREC"}
  /\ k_hat \in Int /\ net_id_off \in Int /\ down_val \in Int
  /\ noise_run \in Nat

\* The inductive invariant.  Of a synchronisation that noise spoilt nothing is known.
IInv ==
  /\ AlignTypes
  /\ m_state = "DETECT" /\ ~lost => RunOfUpchirps
  /\ m_state = "SYNC" /\ ~lost => Spoilt \/ Underflow \/ SymbolBySymbol
  /\ HeaderAligned

(***************************************************************************)
(* Arithmetic of bins and symbols.                                         *)
(***************************************************************************)

\* What the parameters say about sizes.
LEMMA Sizes ==
  ASSUME AlignParameters
  PROVE  /\ NumberOfBins \in Nat /\ NumberOfBins >= 8 /\ NumberOfBins = 4 * (NumberOfBins \div 4)
         /\ NumberOfBins \div 4 \in Nat /\ NumberOfBins \div 2 = 2 * (NumberOfBins \div 4)
         /\ NUp \in Nat /\ NUp >= 7
         /\ SyncWord1 \in 2 .. NumberOfBins - 3 /\ SyncWord2 \in 0 .. NumberOfBins - 2
         /\ UIntRange \in Nat /\ NUp * NumberOfBins < UIntRange /\ NUp * NumberOfBins \in Nat
<1>1. NumberOfBins \in Nat \ {0} /\ NUp \in Nat /\ SyncWord1 \in Nat /\ SyncWord2 \in Nat /\ UIntRange \in Nat
  BY SyncAssumption
<1>2. NumberOfBins % 4 = 0 /\ NUp >= 7
      /\ SyncWord1 \in 2 .. NumberOfBins - 3 /\ SyncWord2 <= NumberOfBins - 2
      /\ NUp * NumberOfBins < UIntRange
  BY DEF AlignParameters
<1>3. NumberOfBins = 4 * (NumberOfBins \div 4) /\ NumberOfBins \div 4 \in Nat
      /\ NumberOfBins \div 2 = 2 * (NumberOfBins \div 4)
  BY <1>1, <1>2
<1>4. NumberOfBins >= 8
  BY <1>1, <1>2, <1>3
<1>5. NUp * NumberOfBins \in Nat
  BY <1>1
<1> QED  BY <1>1, <1>2, <1>3, <1>4, <1>5

\* A multiple of the number of bins that lies within a symbol is zero.
LEMMA NoMultiple ==
  ASSUME AlignParameters, NEW d \in Int,
         d * NumberOfBins > -NumberOfBins, d * NumberOfBins < NumberOfBins
  PROVE  d = 0
<1>1. NumberOfBins \in Nat /\ NumberOfBins >= 8
  BY Sizes
<1>2. CASE d >= 1
  <2>1. PICK e \in Nat : d = e + 1
    <3>1. d - 1 \in Nat /\ d = (d - 1) + 1
      BY <1>2
    <3> QED  BY <3>1
  <2>2. (e + 1) * NumberOfBins = e * NumberOfBins + NumberOfBins /\ e * NumberOfBins \in Nat
    BY <1>1
  <2> QED  BY <1>1, <2>1, <2>2
<1>3. CASE d <= -1
  <2>1. PICK e \in Nat : d = (0 - e) - 1
    <3>1. (0 - d) - 1 \in Nat /\ d = (0 - ((0 - d) - 1)) - 1
      BY <1>3
    <3> QED  BY <3>1
  <2>2. ((0 - e) - 1) * NumberOfBins = 0 - (e * NumberOfBins) - NumberOfBins /\ e * NumberOfBins \in Nat
    BY <1>1
  <2> QED  BY <1>1, <2>1, <2>2
<1> QED  BY <1>2, <1>3

\* The remainder and the quotient of a position within its symbol.
LEMMA WithinSymbol ==
  ASSUME AlignParameters, NEW k \in Int, NEW r \in 0 .. NumberOfBins - 1
  PROVE  /\ (k * NumberOfBins + r) % NumberOfBins = r
         /\ (k * NumberOfBins + r) \div NumberOfBins = k
<1>1. NumberOfBins \in Nat /\ NumberOfBins >= 8 /\ k * NumberOfBins \in Int
  BY Sizes
<1> DEFINE x == k * NumberOfBins + r
<1>2. x \in Int
  BY <1>1
<1>3. PICK q \in Int, v \in 0 .. NumberOfBins - 1 :
        /\ q = x \div NumberOfBins /\ v = x % NumberOfBins
        /\ x = NumberOfBins * q + v
  <2> HIDE DEF x
  <2> QED  BY <1>1, <1>2
<1>4. PICK d \in Int : d = k - q
  BY <1>1
<1>5. d * NumberOfBins = k * NumberOfBins - q * NumberOfBins /\ q * NumberOfBins = NumberOfBins * q
      /\ q * NumberOfBins \in Int
  BY <1>1, <1>4
<1>6. d * NumberOfBins = v - r
  BY <1>1, <1>3, <1>5
<1>7. d = 0
  BY <1>1, <1>6, NoMultiple
<1> QED  BY <1>1, <1>3, <1>4, <1>6, <1>7

\* Every position lies in some symbol.
LEMMA SomeSymbol ==
  ASSUME AlignParameters, NEW x \in Int
  PROVE  \E q \in Int, r \in 0 .. NumberOfBins - 1 : x = q * NumberOfBins + r /\ x % NumberOfBins = r
<1>1. NumberOfBins \in Nat /\ NumberOfBins >= 8
  BY Sizes
<1>2. x \div NumberOfBins \in Int /\ x % NumberOfBins \in 0 .. NumberOfBins - 1
      /\ x = NumberOfBins * (x \div NumberOfBins) + (x % NumberOfBins)
  BY <1>1
<1>3. PICK q \in Int, r \in 0 .. NumberOfBins - 1 :
         q = x \div NumberOfBins /\ r = x % NumberOfBins /\ x = NumberOfBins * q + r
  BY <1>2
<1>4. q * NumberOfBins = NumberOfBins * q
  BY <1>1
<1> QED  BY <1>3, <1>4

\* The next window has the same place in its symbol.
LEMMA NextWindow ==
  ASSUME AlignParameters, NEW x \in Int
  PROVE  (x + NumberOfBins) % NumberOfBins = x % NumberOfBins
<1>1. NumberOfBins \in Nat /\ NumberOfBins >= 8
  BY Sizes
<1>2. PICK q \in Int, r \in 0 .. NumberOfBins - 1 : x = q * NumberOfBins + r /\ x % NumberOfBins = r
  BY SomeSymbol
<1>3. (q + 1) * NumberOfBins = q * NumberOfBins + NumberOfBins /\ q * NumberOfBins \in Int
  BY <1>1
<1>4. x + NumberOfBins = (q + 1) * NumberOfBins + r
  BY <1>1, <1>2, <1>3
<1>5. q + 1 \in Int /\ ((q + 1) * NumberOfBins + r) % NumberOfBins = r
  BY WithinSymbol
<1> QED  BY <1>2, <1>4, <1>5

\* A window that begins less than half a symbol before or after a symbol.
LEMMA NearSymbol ==
  ASSUME AlignParameters, NEW k \in Int, NEW d \in Int,
         2 * d >= -NumberOfBins, 2 * d < NumberOfBins
  PROVE  /\ SymbolAt(k * NumberOfBins + d) = k
         /\ Delta(k * NumberOfBins + d) = d
<1>1. NumberOfBins \in Nat /\ NumberOfBins >= 8 /\ k * NumberOfBins \in Int
      /\ NumberOfBins \div 2 \in Nat /\ NumberOfBins = 2 * (NumberOfBins \div 2)
  BY Sizes
<1>2. PICK h \in Nat : h = NumberOfBins \div 2 /\ NumberOfBins = 2 * h
  BY <1>1
<1>3. d + h \in 0 .. NumberOfBins - 1
  BY <1>1, <1>2
<1>4. (k * NumberOfBins + (d + h)) \div NumberOfBins = k
  BY <1>3, WithinSymbol
<1>5. k * NumberOfBins + d + h = k * NumberOfBins + (d + h)
  BY <1>1, <1>2
<1>6. SymbolAt(k * NumberOfBins + d) = k
  BY <1>2, <1>4, <1>5 DEF SymbolAt
<1> QED  BY <1>1, <1>6 DEF Delta

\* The sum of a run of m upchirps of bin b, off by d, divided by their number.
LEMMA MeanOfRun ==
  ASSUME NEW m \in Nat, m >= 1, NEW b \in Nat, NEW d \in Int, d > -m, d < m, m * b + d >= 0
  PROVE  \E e \in 0 .. 1 : (m * b + d) \div m = b - e /\ b - e \in Nat
<1>1. m * b \in Nat
  OBVIOUS
<1>2. PICK s \in Nat : s = m * b + d
  BY <1>1
<1>3. PICK q \in Int, r \in 0 .. m - 1 : q = s \div m /\ s = m * q + r
  <2>1. s \div m \in Int /\ s % m \in 0 .. m - 1 /\ s = m * (s \div m) + (s % m)
    BY <1>2
  <2> QED  BY <2>1
<1>4. PICK f \in Int : f = b - q
  BY <1>3
<1>5. m * f = m * b - m * q /\ m * q \in Int /\ m * f \in Int
  BY <1>1, <1>4
<1>6. m * f = r - d
  BY <1>1, <1>2, <1>3, <1>5
<1>7. f \in 0 .. 1
  <2>1. CASE f >= 2
    <3>1. PICK e \in Nat : f = e + 2
      <4>1. f - 2 \in Nat /\ f = (f - 2) + 2
        BY <2>1
      <4> QED  BY <4>1
    <3>2. m * (e + 2) = m * e + 2 * m /\ m * e \in Nat
      OBVIOUS
    <3> QED  BY <1>6, <3>1, <3>2
  <2>2. CASE f <= -1
    <3>1. PICK e \in Nat : f = (0 - e) - 1
      <4>1. (0 - f) - 1 \in Nat /\ f = (0 - ((0 - f) - 1)) - 1
        BY <2>2
      <4> QED  BY <4>1
    <3>2. m * ((0 - e) - 1) = 0 - (m * e) - m /\ m * e \in Nat
      OBVIOUS
    <3> QED  BY <1>6, <3>1, <3>2
  <2> QED  BY <2>1, <2>2
<1>8. b - f = q
  BY <1>3, <1>4
<1>9. b - f \in Nat
  <2>1. CASE f = 0
    BY <2>1
  <2>2. CASE f = 1 /\ b = 0
    <3>1. m * b = 0
      BY <2>2
    <3>2. m * f = m
      BY <2>2
    <3> QED  BY <1>1, <1>2, <1>3, <1>6, <3>1, <3>2
  <2>3. CASE f = 1 /\ b >= 1
    BY <2>3
  <2> QED  BY <1>7, <2>1, <2>2, <2>3
<1> QED  BY <1>2, <1>3, <1>7, <1>8, <1>9

\* Division by m.
LEMMA Quotient ==
  ASSUME NEW m \in Nat, m >= 1, NEW u \in Nat
  PROVE  u \div m \in Int /\ u % m \in 0 .. m - 1 /\ u = m * (u \div m) + (u % m)
OBVIOUS

\* One more window adds the difference of its bin to the last, once for every window before it.
LEMMA DriftGrows ==
  ASSUME NEW n \in Nat, NEW D \in Int, NEW d \in -1 .. 1, DriftBound(D, n)
  PROVE  n * d \in Int /\ DriftBound(D + n * d, n + 1)
<1>1. PICK P \in Int : P = n * (n - 1) /\ 2 * D <= P /\ -(2 * D) <= P
  <2>1. n * (n - 1) \in Int
    OBVIOUS
  <2> QED  BY <2>1 DEF DriftBound
<1>2. (n + 1) * ((n + 1) - 1) = P + 2 * n
  <2>1. (n + 1) * ((n + 1) - 1) = n * (n - 1) + 2 * n
    OBVIOUS
  <2> QED  BY <1>1, <2>1
<1>3. PICK w \in Int : w = n * d /\ w <= n /\ -w <= n
  <2>1. CASE d = 1
    BY <2>1
  <2>2. CASE d = 0
    BY <2>2
  <2>3. CASE d = -1
    BY <2>3
  <2> QED  BY <2>1, <2>2, <2>3
<1>4. 2 * (D + w) <= P + 2 * n /\ -(2 * (D + w)) <= P + 2 * n
  BY <1>1, <1>3
<1> QED  BY <1>2, <1>3, <1>4 DEF DriftBound

(***************************************************************************)
(* What the windows show.                                                  *)
(***************************************************************************)

\* Every window shows some bin, or none.
LEMMA BinsShown ==
  ASSUME AlignParameters, pos \in Int, cfo \in Nat
  PROVE  WindowBins \subseteq -1 .. NumberOfBins - 1
<1>1. NoiseBins \subseteq -1 .. NumberOfBins - 1
  BY SyncAssumption, AlignAssumption
<1>2. ChirpBin(pos) \in 0 .. NumberOfBins - 1
  <2>1. SymbolAt(pos) \in Int
    <3>1. PICK h \in Nat : h = NumberOfBins \div 2
      BY Sizes
    <3> QED  BY <3>1, Sizes DEF SymbolAt
  <2>2. SymbolValue(SymbolAt(pos)) \in Int
    BY Sizes DEF SymbolValue
  <2>3. Delta(pos) \in Int
    BY <2>1, Sizes DEF Delta
  <2>4. PICK v \in Int : v = SymbolValue(SymbolAt(pos)) + Delta(pos) + cfo
    BY <2>2, <2>3
  <2>5. v % NumberOfBins \in 0 .. NumberOfBins - 1
    BY <2>4, Sizes
  <2> QED  BY <2>4, <2>5 DEF ChirpBin
<1> QED  BY <1>1, <1>2, Sizes DEF WindowBins

\* Within the upchirps every window shows the same bin.
LEMMA UpchirpsShown ==
  ASSUME AlignParameters, pos \in Int, cfo \in Nat, pos >= 0, pos <= (NUp - 1) * NumberOfBins
  PROVE  WindowBins = {UpchirpBin} /\ UpchirpBin \in 0 .. NumberOfBins - 1
<1>1. NumberOfBins \in Nat /\ NumberOfBins >= 8 /\ NUp \in Nat /\ NUp >= 7
      /\ NumberOfBins \div 2 \in Nat /\ NumberOfBins = 2 * (NumberOfBins \div 2)
  BY Sizes
<1>2. PICK h \in Nat : h = NumberOfBins \div 2 /\ NumberOfBins = 2 * h
  BY <1>1
<1>3. PICK S \in Int, r \in 0 .. NumberOfBins - 1 : pos + h = S * NumberOfBins + r
  <2>1. pos + h \in Int
    BY <1>2
  <2> QED  BY <2>1, SomeSymbol
<1>4. SymbolAt(pos) = S
  BY <1>2, <1>3, WithinSymbol DEF SymbolAt
<1>5. S < NUp
  <2>1. SUFFICES ASSUME S >= NUp PROVE FALSE
    BY <1>1
  <2>2. PICK e \in Nat : S = NUp + e
    <3>1. S - NUp \in Nat /\ S = NUp + (S - NUp)
      BY <1>1, <2>1
    <3> QED  BY <3>1
  <2>3. (NUp + e) * NumberOfBins = NUp * NumberOfBins + e * NumberOfBins
        /\ (NUp - 1) * NumberOfBins = NUp * NumberOfBins - NumberOfBins
        /\ e * NumberOfBins \in Nat /\ NUp * NumberOfBins \in Nat
    BY <1>1
  <2> QED  BY <1>1, <1>2, <1>3, <2>2, <2>3
<1>6. SymbolValue(SymbolAt(pos)) = 0
  BY <1>1, <1>4, <1>5 DEF SymbolValue
<1>7. PICK q \in Int, v \in 0 .. NumberOfBins - 1 :
        pos + cfo = q * NumberOfBins + v /\ (pos + cfo) % NumberOfBins = v
  <2>1. pos + cfo \in Int
    OBVIOUS
  <2> QED  BY <2>1, SomeSymbol
<1>8. PICK d \in Int : d = q - S
  OBVIOUS
<1>9. d * NumberOfBins = q * NumberOfBins - S * NumberOfBins
      /\ q * NumberOfBins \in Int /\ S * NumberOfBins \in Int
  BY <1>1, <1>8
<1>10. 0 + (pos - S * NumberOfBins) + cfo = d * NumberOfBins + v
  BY <1>7, <1>9
<1>11. (d * NumberOfBins + v) % NumberOfBins = v
  BY WithinSymbol
<1>12. ChirpBin(pos) = v
  BY <1>4, <1>6, <1>10, <1>11 DEF ChirpBin, Delta
<1>13. WindowBins = {ChirpBin(pos)}
  <2>1. ~(pos <= -NumberOfBins) /\ ~(SymbolAt(pos) > NUp + 1) /\ ~(pos \in (1 - NumberOfBins) .. -1)
    BY <1>1, <1>4, <1>5
  <2> QED  BY <2>1 DEF WindowBins
<1> QED  BY <1>7, <1>12, <1>13 DEF UpchirpBin

\* So do the windows of the downchirps, demodulated with the upchirp.
LEMMA DownchirpShown ==
  ASSUME AlignParameters, pos \in Int, SymbolAt(pos) = NUp + 3
  PROVE  DownBins = {(cfo - Delta(pos)) % NumberOfBins}
BY Sizes DEF DownBins

(***************************************************************************)
(* The first state, and the windows that DETECT looks at.                  *)
(***************************************************************************)
LEMMA InitIInv == ASSUME AlignParameters, AlignInit PROVE IInv
<1>1. NumberOfBins \in Nat /\ NumberOfBins >= 8 /\ NUp \in Nat /\ NUp >= 7 /\ NoiseWindows \in Nat \ {0}
  BY Sizes, AlignAssumption
<1>2. /\ m_state = "DETECT" /\ symbol_cnt = 1 /\ bin_idx = 0 /\ k_hat = 0 /\ noise_run = 1
      /\ net_id_off = 0 /\ down_val = 0
      /\ pos \in (1 - (NoiseWindows + 1) * NumberOfBins) .. -NumberOfBins /\ cfo \in CarrierOffsets
  BY DEF AlignInit, SyncInit
<1>3. cfo \in Nat
  BY <1>2 DEF AlignParameters
<1>4. 4 * cfo < NumberOfBins
  BY <1>2, <1>3, AlignAssumption DEF Abs
<1>5. pos \in Int /\ pos <= -NumberOfBins
  <2>1. (NoiseWindows + 1) * NumberOfBins \in Nat
    BY <1>1
  <2> QED  BY <1>1, <1>2, <2>1
<1>6. Seen = 0 /\ RunTotal = 0 /\ Deviation = 0
  BY <1>2 DEF Seen, RunTotal, Deviation
<1>7. DriftBound(0, 1)
  BY DEF DriftBound
<1>8. pos < (0 + 1) * NumberOfBins
  BY <1>1, <1>5
<1>9. RunOfUpchirps
  BY <1>1, <1>2, <1>6, <1>7, <1>8 DEF RunOfUpchirps
<1>10. AlignTypes
  BY <1>2, <1>3, <1>4, <1>5 DEF AlignTypes
<1> QED  BY <1>2, <1>9, <1>10 DEF IInv, HeaderAligned

\* What one window of the search moves and counts.
Window(bin) ==
  /\ bin \in WindowBins
  /\ ~lost /\ ~Underflow
  /\ pos' = pos + items_to_consume'
  /\ cfo' = cfo
  /\ CountNoise(bin)
  /\ lost' = (lost \/ (m_state = "SYNC" /\ m_state' = "DETECT" /\ pos >= 0 /\ Spoilt))

\* Where the window is when DETECT has counted a run.
LEMMA PlaceOfRun ==
  ASSUME AlignParameters, IInv, m_state = "DETECT", ~lost
  PROVE  /\ Seen \in Nat /\ Seen <= NUp - 2
         /\ pos < Seen * NumberOfBins + NumberOfBins
         /\ Seen > 0 => pos >= NumberOfBins
         /\ pos <= (NUp - 1) * NumberOfBins
<1>1. pos \in Int /\ RunOfUpchirps
  BY DEF IInv, AlignTypes
<1>2. NumberOfBins \in Nat /\ NumberOfBins >= 8 /\ NUp \in Nat /\ NUp >= 7
  BY Sizes
<1>3. PICK c \in Nat : c = Seen /\ c <= NUp - 2
  <2>1. symbol_cnt \in 1 .. NUp - 2 /\ noise_run \in 0 .. symbol_cnt
    BY <1>1 DEF RunOfUpchirps
  <2>2. symbol_cnt - noise_run \in Nat /\ symbol_cnt - noise_run <= NUp - 2
    BY <1>2, <2>1
  <2> QED  BY <2>2 DEF Seen
<1>4. (c + 1) * NumberOfBins = c * NumberOfBins + NumberOfBins /\ c * NumberOfBins \in Nat
  BY <1>2
<1>5. pos < c * NumberOfBins + NumberOfBins /\ (c > 0 => pos >= c * NumberOfBins)
  BY <1>1, <1>3, <1>4 DEF RunOfUpchirps
<1>6. pos <= (NUp - 1) * NumberOfBins
  <2>1. PICK e \in Nat : NUp = c + 2 + e
    <3>1. NUp - 2 - c \in Nat /\ NUp = c + 2 + (NUp - 2 - c)
      BY <1>2, <1>3
    <3> QED  BY <3>1
  <2>2. (c + 2 + e - 1) * NumberOfBins = c * NumberOfBins + NumberOfBins + e * NumberOfBins
        /\ e * NumberOfBins \in Nat
    BY <1>2
  <2> QED  BY <1>1, <1>2, <1>4, <1>5, <2>1, <2>2
<1>7. c > 0 => pos >= NumberOfBins
  <2>1. SUFFICES ASSUME c > 0 PROVE pos >= NumberOfBins
    OBVIOUS
  <2>2. PICK e \in Nat : c = e + 1
    <3>1. c - 1 \in Nat /\ c = (c - 1) + 1
      BY <2>1
    <3> QED  BY <3>1
  <2>3. (e + 1) * NumberOfBins = e * NumberOfBins + NumberOfBins /\ e * NumberOfBins \in Nat
    BY <1>2
  <2> QED  BY <1>1, <1>2, <1>5, <2>1, <2>2, <2>3
<1> QED  BY <1>3, <1>4, <1>5, <1>6, <1>7

\* Once the frame has begun, the window shows an upchirp, and so does the next.
LEMMA UpchirpNext ==
  ASSUME AlignParameters, IInv, m_state = "DETECT", ~lost, NEW bin, bin \in WindowBins, pos >= 0
  PROVE  /\ bin = UpchirpBin /\ bin \in 0 .. NumberOfBins - 1
         /\ pos' = pos + NumberOfBins /\ cfo' = cfo => UpchirpBin' = bin
<1>1. pos \in Int /\ cfo \in Nat /\ pos <= (NUp - 1) * NumberOfBins
  BY PlaceOfRun DEF IInv, AlignTypes
<1>2. bin = UpchirpBin /\ UpchirpBin \in 0 .. NumberOfBins - 1
  BY <1>1, UpchirpsShown
<1>3. pos + NumberOfBins + cfo = (pos + cfo) + NumberOfBins /\ pos + cfo \in Int
  BY <1>1, Sizes
<1>4. ((pos + cfo) + NumberOfBins) % NumberOfBins = (pos + cfo) % NumberOfBins
  BY <1>3, NextWindow
<1> QED  BY <1>2, <1>3, <1>4 DEF UpchirpBin

\* A run of one window, of noise or the first within the frame.
LEMMA FreshRun ==
  ASSUME AlignParameters, pos \in Int,
         NEW bin \in -1 .. NumberOfBins - 1, symbol_cnt' = 1, k_hat' = 0, bin_idx' = bin,
         pos' = pos + NumberOfBins, pos < NumberOfBins,
         noise_run' = IF pos < 0 THEN 1 ELSE 0, pos >= 0 => UpchirpBin' = bin
  PROVE  RunOfUpchirps'
<1>1. NumberOfBins \in Nat /\ NumberOfBins >= 8 /\ NUp \in Nat /\ NUp >= 7
  BY Sizes
<1>2. RunTotal' = bin /\ Deviation' = 0
  <2>1. bin - 1 * bin = 0
    OBVIOUS
  <2> QED  BY <2>1 DEF RunTotal, Deviation
<1>3. DriftBound(0, 1) /\ (0 + 1 = 1) /\ 1 - 1 = 0 /\ 1 - 0 = 1
  BY DEF DriftBound
<1>4. CASE pos < 0
  <2>1. Seen' = 0 /\ noise_run' = 1
    BY <1>4, <1>3 DEF Seen
  <2>2. pos' < (0 + 1) * NumberOfBins
    BY <1>1, <1>4
  <2> QED  BY <1>1, <1>2, <1>3, <2>1, <2>2 DEF RunOfUpchirps
<1>5. CASE pos >= 0
  <2>1. Seen' = 1 /\ noise_run' = 0
    BY <1>5, <1>3 DEF Seen
  <2>2. pos' < (1 + 1) * NumberOfBins /\ pos' >= 1 * NumberOfBins
    BY <1>1, <1>5
  <2> QED  BY <1>1, <1>2, <1>3, <1>5, <2>1, <2>2 DEF RunOfUpchirps
<1> QED  BY <1>4, <1>5

\* A window outside the run begins a new run.
LEMMA NewRun ==
  ASSUME AlignParameters, IInv, NEW bin, Window(bin), DetectOther(bin)
  PROVE  IInv'
<1>1. /\ AlignTypes /\ pos \in Int /\ cfo \in Nat /\ 4 * cfo < NumberOfBins
      /\ m_state = "DETECT" /\ ~lost /\ RunOfUpchirps
  BY DEF IInv, AlignTypes, DetectOther, Window
<1>2. NumberOfBins \in Nat /\ NumberOfBins >= 8 /\ NUp \in Nat /\ NUp >= 7
  BY Sizes
<1>3. /\ m_state' = "DETECT" /\ symbol_cnt' = 1 /\ k_hat' = 0 /\ bin_idx' = bin
      /\ net_id_off' = net_id_off /\ down_val' = down_val
      /\ pos' = pos + NumberOfBins /\ cfo' = cfo /\ bin \in WindowBins
  BY DEF DetectOther, Window
<1>4. bin \in -1 .. NumberOfBins - 1
  BY <1>1, <1>3, BinsShown
<1>5. noise_run' = IF pos < 0 THEN 1 ELSE 0
  <2>1. ~Continues(bin)
    BY DEF DetectOther
  <2>2. noise_run' = 0 + (IF pos < 0 THEN 1 ELSE 0)
    BY <1>1, <2>1 DEF Window, CountNoise
  <2> QED  BY <2>2
<1>6. pos >= 0 => bin = UpchirpBin /\ bin >= 0 /\ UpchirpBin' = bin
  BY <1>1, <1>2, <1>3, UpchirpNext
<1>7. pos < NumberOfBins
  <2>1. SUFFICES ASSUME pos >= NumberOfBins PROVE FALSE
    BY <1>1, <1>2
  <2>2. PICK c \in Nat : c = Seen /\ pos < c * NumberOfBins + NumberOfBins
    BY <1>1, PlaceOfRun
  <2>3. c > 0
    <3>1. SUFFICES ASSUME c = 0 PROVE FALSE
      OBVIOUS
    <3>2. c * NumberOfBins = 0
      BY <1>2, <3>1
    <3> QED  BY <1>1, <1>2, <2>1, <2>2, <3>2
  <2>4. bin_idx = bin /\ bin >= 0
    BY <1>1, <1>2, <1>6, <2>1, <2>2, <2>3 DEF RunOfUpchirps
  <2>5. ~(Abs(bin - bin_idx) <= 1 /\ bin # -1)
    BY DEF DetectOther, Continues
  <2> QED  BY <1>4, <2>4, <2>5 DEF Abs
<1>8. RunOfUpchirps'
  BY <1>1, <1>3, <1>4, <1>5, <1>6, <1>7, FreshRun
<1>9. AlignTypes'
  BY <1>1, <1>2, <1>3, <1>5 DEF AlignTypes
<1> QED  BY <1>3, <1>8, <1>9 DEF IInv, HeaderAligned

\* What one more window makes of the run.
LEMMA RunSums ==
  ASSUME AlignParameters, IInv, m_state = "DETECT", NEW bin, Window(bin), Continues(bin)
  PROVE  /\ bin \in 0 .. NumberOfBins - 1
         /\ RunSum(bin) \in Int /\ RunSum(bin) >= -1
         /\ noise_run' = noise_run + (IF pos < 0 THEN 1 ELSE 0)
         /\ pos < 0 => Seen = 0
         /\ RunSum(bin) - (symbol_cnt + 1) * bin \in Int
         /\ DriftBound(RunSum(bin) - (symbol_cnt + 1) * bin,
                       IF pos < 0 THEN noise_run' ELSE noise_run' + 1)
<1>1. /\ pos \in Int /\ cfo \in Nat /\ k_hat \in Int /\ ~lost /\ RunOfUpchirps
      /\ bin \in WindowBins
  BY DEF IInv, AlignTypes, Window
<1>2. NumberOfBins \in Nat /\ NumberOfBins >= 8 /\ NUp \in Nat /\ NUp >= 7
  BY Sizes
<1>3. bin \in 0 .. NumberOfBins - 1
  <2>1. bin \in -1 .. NumberOfBins - 1
    BY <1>1, BinsShown
  <2>2. bin # -1
    BY DEF Continues
  <2> QED  BY <1>2, <2>1, <2>2
<1>4. PICK s \in 1 .. NUp - 2, x \in -1 .. NumberOfBins - 1 : s = symbol_cnt /\ x = bin_idx
  BY <1>1 DEF RunOfUpchirps
<1>5. PICK n \in 0 .. s : n = noise_run
  BY <1>1, <1>4 DEF RunOfUpchirps
<1>6. PICK d \in -1 .. 1 : d = x - bin
  <2>1. Abs(bin - x) <= 1
    BY <1>4 DEF Continues
  <2>2. x - bin \in -1 .. 1
    BY <1>3, <1>4, <2>1 DEF Abs
  <2> QED  BY <2>2
<1>7. PICK T \in Int : T = RunTotal /\ T >= -1 /\ RunSum(bin) = T + bin
  <2>1. CASE s = 1
    <3>1. k_hat = 0
      BY <1>1, <1>4, <2>1 DEF RunOfUpchirps
    <3>2. RunTotal = x /\ RunSum(bin) = x + bin
      BY <1>3, <1>4, <2>1, <3>1 DEF RunTotal, RunSum
    <3> QED  BY <1>4, <3>2
  <2>2. CASE s # 1
    <3>1. RunTotal = k_hat /\ RunSum(bin) = k_hat + bin
      BY <1>1, <1>3, <1>4, <2>2 DEF RunTotal, RunSum
    <3>2. RunTotal >= -1
      BY <1>1 DEF RunOfUpchirps
    <3> QED  BY <1>1, <3>1, <3>2
  <2> QED  BY <2>1, <2>2
<1>8. PICK D \in Int : D = Deviation /\ D = T - s * x
  <2>1. T - s * x \in Int
    BY <1>4, <1>7
  <2> QED  BY <1>4, <1>7, <2>1 DEF Deviation
<1>9. RunSum(bin) - (symbol_cnt + 1) * bin = D + s * d /\ s * d \in Int
  <2>1. (s + 1) * bin = s * bin + bin /\ s * (x - bin) = s * x - s * bin
        /\ s * bin \in Int /\ s * x \in Int
    BY <1>3, <1>4
  <2> QED  BY <1>3, <1>4, <1>6, <1>7, <1>8, <2>1
<1>10. noise_run' = noise_run + (IF pos < 0 THEN 1 ELSE 0)
  BY DEF Window, CountNoise
<1>11. PICK c \in Nat : c = Seen /\ c = s - n /\ (c > 0 => pos >= NumberOfBins)
  BY <1>1, <1>4, <1>5, PlaceOfRun DEF Seen
<1>12. CASE c = 0
  <2>1. DriftBound(D, n) /\ s = n
    BY <1>1, <1>4, <1>5, <1>8, <1>11, <1>12 DEF RunOfUpchirps
  <2>2. DriftBound(D + n * d, n + 1)
    <3>1. n \in Nat /\ D \in Int /\ d \in -1 .. 1
      BY <1>5, <1>6, <1>8
    <3> QED  BY <2>1, <3>1, DriftGrows, Zenon
  <2>3. (IF pos < 0 THEN noise_run' ELSE noise_run' + 1) = n + 1
    <3>1. CASE pos < 0
      BY <1>5, <1>10, <3>1
    <3>2. CASE ~(pos < 0)
      BY <1>5, <1>10, <3>2
    <3> QED  BY <3>1, <3>2
  <2> QED  BY <1>3, <1>7, <1>8, <1>9, <1>10, <1>11, <1>12, <2>1, <2>2, <2>3
<1>13. CASE c > 0
  <2>1. pos >= NumberOfBins /\ pos >= 0 /\ ~(pos < 0)
    BY <1>1, <1>2, <1>11, <1>13
  <2>2. DriftBound(D, n + 1) /\ x = UpchirpBin
    BY <1>1, <1>4, <1>5, <1>8, <1>11, <1>13 DEF RunOfUpchirps
  <2>3. bin = UpchirpBin
    BY <1>1, <2>1, UpchirpNext
  <2>4. d = 0 /\ s * d = 0 /\ D + 0 = D
    BY <1>3, <1>4, <1>6, <2>2, <2>3
  <2>5. (IF pos < 0 THEN noise_run' ELSE noise_run' + 1) = n + 1
    BY <1>5, <1>10, <2>1
  <2> QED  BY <1>3, <1>7, <1>8, <1>9, <1>10, <2>1, <2>2, <2>4, <2>5
<1> QED  BY <1>12, <1>13

\* A window of the run.
LEMMA RunGrows ==
  ASSUME AlignParameters, IInv, NEW bin, Window(bin), DetectUpchirp(bin)
  PROVE  IInv'
<1>1. /\ AlignTypes /\ pos \in Int /\ cfo \in Nat /\ 4 * cfo < NumberOfBins
      /\ m_state = "DETECT" /\ ~lost /\ RunOfUpchirps /\ Continues(bin)
  BY DEF IInv, AlignTypes, DetectUpchirp, Window
<1>2. NumberOfBins \in Nat /\ NumberOfBins >= 8 /\ NUp \in Nat /\ NUp >= 7
  BY Sizes
<1>3. /\ m_state' = "DETECT" /\ symbol_cnt' = symbol_cnt + 1 /\ bin_idx' = bin
      /\ k_hat' = RunSum(bin) /\ symbol_cnt + 1 # NUp - 1
      /\ net_id_off' = net_id_off /\ down_val' = down_val
      /\ pos' = pos + NumberOfBins /\ cfo' = cfo /\ bin \in WindowBins
  BY DEF DetectUpchirp, Window
<1>4. /\ bin \in 0 .. NumberOfBins - 1
      /\ RunSum(bin) \in Int /\ RunSum(bin) >= -1
      /\ noise_run' = noise_run + (IF pos < 0 THEN 1 ELSE 0)
      /\ pos < 0 => Seen = 0
      /\ DriftBound(RunSum(bin) - (symbol_cnt + 1) * bin, IF pos < 0 THEN noise_run' ELSE noise_run' + 1)
  BY <1>1, RunSums
<1>5. PICK s \in 1 .. NUp - 2 : s = symbol_cnt
  BY <1>1 DEF RunOfUpchirps
<1>6. PICK n \in 0 .. s : n = noise_run
  BY <1>1, <1>5 DEF RunOfUpchirps
<1>7. PICK c \in Nat : c = Seen /\ c = s - n /\ pos < c * NumberOfBins + NumberOfBins
                      /\ c * NumberOfBins \in Nat
  <2>1. Seen * NumberOfBins \in Nat
    BY <1>1, <1>2, PlaceOfRun
  <2> QED  BY <1>1, <1>5, <1>6, <2>1, PlaceOfRun DEF Seen
<1>8. symbol_cnt' = s + 1 /\ s + 1 \in 2 .. NUp - 2 /\ s + 1 # 1
  BY <1>2, <1>3, <1>5
<1>9. RunTotal' = RunSum(bin) /\ Deviation' = RunSum(bin) - (symbol_cnt + 1) * bin
  <2>1. RunTotal' = RunSum(bin)
    BY <1>3, <1>8 DEF RunTotal
  <2> QED  BY <1>3, <2>1 DEF Deviation
<1>10. AlignTypes'
  <2>1. noise_run' \in Nat
    BY <1>4, <1>6
  <2> QED  BY <1>1, <1>2, <1>3, <1>4, <2>1 DEF AlignTypes
<1>11. CASE pos < 0
  <2>1. c = 0 /\ noise_run' = n + 1 /\ n = s /\ DriftBound(Deviation', noise_run')
    BY <1>4, <1>6, <1>7, <1>9, <1>11
  <2>2. Seen' = 0
    BY <1>8, <2>1 DEF Seen
  <2>3. pos' < (0 + 1) * NumberOfBins
    BY <1>1, <1>2, <1>3, <1>11
  <2>4. RunOfUpchirps'
    BY <1>2, <1>3, <1>4, <1>8, <1>9, <2>1, <2>2, <2>3 DEF RunOfUpchirps
  <2> QED  BY <1>3, <1>10, <2>4 DEF IInv, HeaderAligned
<1>12. CASE pos >= 0
  <2>1. noise_run' = n /\ DriftBound(Deviation', noise_run' + 1)
    BY <1>1, <1>4, <1>6, <1>9, <1>12
  <2>2. Seen' = c + 1 /\ c + 1 > 0
    BY <1>7, <1>8, <2>1 DEF Seen
  <2>3. UpchirpBin' = bin
    BY <1>1, <1>3, <1>12, UpchirpNext
  <2>4. pos >= c * NumberOfBins
    <3>1. CASE c = 0
      <4>1. c * NumberOfBins = 0
        BY <1>2, <3>1
      <4> QED  BY <1>12, <4>1
    <3>2. CASE c > 0
      BY <1>1, <1>7, <3>2 DEF RunOfUpchirps
    <3> QED  BY <3>1, <3>2
  <2>5. pos' < ((c + 1) + 1) * NumberOfBins /\ pos' >= (c + 1) * NumberOfBins
    <3>1. ((c + 1) + 1) * NumberOfBins = c * NumberOfBins + 2 * NumberOfBins
          /\ (c + 1) * NumberOfBins = c * NumberOfBins + NumberOfBins
      BY <1>2
    <3> QED  BY <1>1, <1>2, <1>3, <1>7, <2>4, <3>1
  <2>6. noise_run' \in 0 .. s + 1
    BY <1>6, <2>1
  <2>7. RunOfUpchirps'
    BY <1>2, <1>3, <1>4, <1>8, <1>9, <2>1, <2>2, <2>3, <2>5, <2>6 DEF RunOfUpchirps
  <2> QED  BY <1>3, <1>10, <2>7 DEF IInv, HeaderAligned
<1> QED  BY <1>1, <1>11, <1>12

\* The end of the run: the read position moves to the beginning of an upchirp, cfo samples early, or
\* one sample less if the mean was rounded down.
LEMMA RunEnds ==
  ASSUME AlignParameters, IInv, NEW bin, Window(bin), DetectPreamble(bin)
  PROVE  IInv'
<1>1. /\ AlignTypes /\ pos \in Int /\ cfo \in Nat /\ 4 * cfo < NumberOfBins
      /\ m_state = "DETECT" /\ ~lost /\ RunOfUpchirps /\ Continues(bin)
  BY DEF IInv, AlignTypes, DetectPreamble, Window
<1>2. NumberOfBins \in Nat /\ NumberOfBins >= 8 /\ NUp \in Nat /\ NUp >= 7
      /\ UIntRange \in Nat /\ NUp * NumberOfBins < UIntRange /\ NUp * NumberOfBins \in Nat
  BY Sizes
<1>3. /\ m_state' = "SYNC" /\ symbol_cnt' = NET_ID1 /\ symbol_cnt + 1 = NUp - 1
      /\ k_hat' = (RunSum(bin) % UIntRange) \div (NUp - 1)
      /\ net_id_off' = net_id_off /\ down_val' = down_val
      /\ pos' = pos + (NumberOfBins - k_hat') /\ cfo' = cfo /\ bin \in WindowBins
  BY DEF DetectPreamble, Window
<1>4. PICK m \in Nat : m = NUp - 1 /\ m >= 6 /\ NUp = m + 1
  <2>1. NUp - 1 \in Nat /\ NUp - 1 >= 6 /\ NUp = (NUp - 1) + 1
    BY <1>2
  <2> QED  BY <2>1
<1>5. PICK s \in 1 .. m - 1 : s = symbol_cnt /\ s + 1 = m
  BY <1>1, <1>3, <1>4 DEF RunOfUpchirps
<1>6. PICK n \in 0 .. s : n = noise_run
  BY <1>1, <1>5 DEF RunOfUpchirps
<1>7. PICK S \in Int, D \in Int :
        /\ S = RunSum(bin) /\ S >= -1 /\ D = S - m * bin
        /\ bin \in 0 .. NumberOfBins - 1
        /\ noise_run' = n + (IF pos < 0 THEN 1 ELSE 0)
        /\ pos < 0 => Seen = 0
        /\ DriftBound(D, IF pos < 0 THEN noise_run' ELSE noise_run' + 1)
  <2>1. /\ bin \in 0 .. NumberOfBins - 1
        /\ RunSum(bin) \in Int /\ RunSum(bin) >= -1
        /\ noise_run' = noise_run + (IF pos < 0 THEN 1 ELSE 0)
        /\ pos < 0 => Seen = 0
        /\ RunSum(bin) - (symbol_cnt + 1) * bin \in Int
        /\ DriftBound(RunSum(bin) - (symbol_cnt + 1) * bin,
                      IF pos < 0 THEN noise_run' ELSE noise_run' + 1)
    BY <1>1, RunSums
  <2> QED  BY <1>5, <1>6, <2>1
<1>8. AlignTypes'
  <2>1. k_hat' \in Int
    <3>1. S % UIntRange \in Int
      BY <1>2
    <3>2. (S % UIntRange) \div m \in Int
      BY <1>4, <3>1
    <3> QED  BY <1>3, <1>4, <1>7, <3>2
  <2>2. pos' \in Int
    BY <1>1, <1>2, <1>3, <2>1
  <2>3. noise_run' \in Nat
    BY <1>6, <1>7
  <2> QED  BY <1>1, <1>3, <2>1, <2>2, <2>3 DEF AlignTypes
<1>9. HeaderAligned'
  BY <1>3 DEF HeaderAligned
<1>10. SUFFICES ASSUME ~Spoilt' PROVE Underflow' \/ SymbolBySymbol'
  BY <1>3, <1>8, <1>9 DEF IInv
<1>11. PICK j \in 0 .. NUp : j = noise_run' /\ j * (j + 1) < 2 * m
  BY <1>4, <1>10 DEF Spoilt, NoiseBorne
<1>12. pos >= 0 /\ j = n
  <2>1. SUFFICES ASSUME pos < 0 PROVE FALSE
    BY <1>1, <1>6, <1>7, <1>11
  <2>2. j = m
    BY <1>5, <1>6, <1>7, <1>11, <2>1 DEF Seen
  <2>3. m * (m + 1) >= 2 * m
    <3>1. PICK e \in Nat : m = e + 6
      <4>1. m - 6 \in Nat /\ m = (m - 6) + 6
        BY <1>4
      <4> QED  BY <4>1
    <3>2. (e + 6) * ((e + 6) + 1) = e * e + 13 * e + 42 /\ e * e \in Nat
      OBVIOUS
    <3> QED  BY <3>1, <3>2
  <2> QED  BY <1>4, <1>11, <2>2, <2>3
<1>13. D > -m /\ D < m
  <2>1. DriftBound(D, j + 1)
    BY <1>1, <1>7, <1>11, <1>12
  <2>2. PICK P \in Int : P = j * (j + 1) /\ P = (j + 1) * ((j + 1) - 1)
    <3>1. j * (j + 1) \in Int /\ j * (j + 1) = (j + 1) * ((j + 1) - 1)
      BY <1>2
    <3> QED  BY <3>1
  <2>3. 2 * D <= P /\ -(2 * D) <= P /\ P < 2 * m
    BY <1>11, <2>1, <2>2 DEF DriftBound
  <2> QED  BY <1>4, <2>3
<1>14. PICK b \in 0 .. NumberOfBins - 1 : b = bin /\ b = UpchirpBin
  BY <1>1, <1>3, <1>7, <1>12, UpchirpNext
<1>15. S = m * b + D /\ m * b \in Nat
  <2>1. m * b \in Nat
    BY <1>2, <1>4
  <2> QED  BY <1>7, <1>14, <2>1
<1>16. m * b <= m * NumberOfBins - m /\ m * NumberOfBins \in Nat
       /\ NUp * NumberOfBins = m * NumberOfBins + NumberOfBins
       /\ m * NumberOfBins + NumberOfBins < UIntRange
  <2>1. PICK f \in Nat : b = NumberOfBins - 1 - f
    <3>1. NumberOfBins - 1 - b \in Nat /\ b = NumberOfBins - 1 - (NumberOfBins - 1 - b)
      BY <1>2
    <3> QED  BY <3>1
  <2>2. m * (NumberOfBins - 1 - f) = m * NumberOfBins - m - m * f /\ m * f \in Nat
    BY <1>2
  <2>3. (m + 1) * NumberOfBins = m * NumberOfBins + NumberOfBins /\ m * NumberOfBins \in Nat
    BY <1>2
  <2> QED  BY <1>2, <1>4, <2>1, <2>2, <2>3
<1>17. CASE S = -1
  <2>1. S % UIntRange = UIntRange - 1
    BY <1>2, <1>17
  <2>2. PICK u \in Nat : u = UIntRange - 1 /\ u >= m * NumberOfBins
    <3>1. UIntRange - 1 \in Nat /\ UIntRange - 1 >= m * NumberOfBins
      BY <1>2, <1>16
    <3> QED  BY <3>1
  <2>3. PICK v \in Int, r \in 0 .. m - 1 : v = u \div m /\ u = m * v + r
    <3>1. u \div m \in Int /\ u % m \in 0 .. m - 1 /\ u = m * (u \div m) + (u % m)
      <4>1. m \in Nat /\ m >= 1 /\ u \in Nat
        BY <1>4, <2>2
      <4> QED  BY <4>1, Quotient, Zenon
    <3> QED  BY <3>1
  <2>4. v >= NumberOfBins
    <3>1. SUFFICES ASSUME v < NumberOfBins PROVE FALSE
      BY <1>2
    <3>2. PICK g \in Nat : v = NumberOfBins - 1 - g
      <4>1. NumberOfBins - 1 - v \in Nat /\ v = NumberOfBins - 1 - (NumberOfBins - 1 - v)
        BY <1>2, <3>1
      <4> QED  BY <4>1
    <3>3. m * (NumberOfBins - 1 - g) = m * NumberOfBins - m - m * g /\ m * g \in Nat
      BY <1>2
    <3> QED  BY <1>4, <1>16, <2>2, <2>3, <3>2, <3>3
  <2>5. k_hat' = v
    BY <1>3, <1>4, <1>7, <2>1, <2>2, <2>3
  <2> QED  BY <1>3, <2>4, <2>5 DEF Underflow
<1>18. CASE S >= 0
  <2>1. S < UIntRange /\ S % UIntRange = S
    <3>1. S < UIntRange
      BY <1>2, <1>4, <1>13, <1>15, <1>16
    <3> QED  BY <1>2, <1>18, <3>1
  <2>2. PICK e \in 0 .. 1 : k_hat' = b - e /\ b - e \in Nat
    <3>1. k_hat' = (m * b + D) \div m
      BY <1>3, <1>4, <1>7, <1>15, <2>1
    <3>2. b \in Nat /\ m \in Nat /\ m >= 1 /\ D \in Int /\ D > -m /\ D < m /\ m * b + D >= 0
      BY <1>2, <1>4, <1>13, <1>15, <1>18
    <3>3. \E e \in 0 .. 1 : (m * b + D) \div m = b - e /\ b - e \in Nat
      BY <3>2, MeanOfRun, Zenon
    <3> QED  BY <3>1, <3>3
  <2>3. PICK q \in Int : pos + cfo = q * NumberOfBins + b
    <3>1. pos + cfo \in Int
      BY <1>1
    <3>2. PICK q \in Int, r \in 0 .. NumberOfBins - 1 :
            pos + cfo = q * NumberOfBins + r /\ (pos + cfo) % NumberOfBins = r
      BY <3>1, SomeSymbol
    <3> QED  BY <1>14, <3>2 DEF UpchirpBin
  <2>4. q * NumberOfBins \in Int /\ (q + 1) * NumberOfBins = q * NumberOfBins + NumberOfBins
    BY <1>2
  <2>5. pos' = (q + 1) * NumberOfBins - cfo + e
    BY <1>1, <1>2, <1>3, <2>2, <2>3, <2>4
  <2>6. q + 1 \in 1 .. NUp
    <3>1. q >= 0
      <4>1. SUFFICES ASSUME q <= -1 PROVE FALSE
        OBVIOUS
      <4>2. PICK f \in Nat : q = (0 - f) - 1
        <5>1. (0 - q) - 1 \in Nat /\ q = (0 - ((0 - q) - 1)) - 1
          BY <4>1
        <5> QED  BY <5>1
      <4>3. ((0 - f) - 1) * NumberOfBins = 0 - (f * NumberOfBins) - NumberOfBins
            /\ f * NumberOfBins \in Nat
        BY <1>2
      <4> QED  BY <1>1, <1>2, <1>12, <2>3, <4>2, <4>3
    <3>2. q <= m
      <4>1. SUFFICES ASSUME q > m PROVE FALSE
        BY <1>4
      <4>2. PICK f \in Nat : q = m + 1 + f
        <5>1. q - m - 1 \in Nat /\ q = m + 1 + (q - m - 1)
          BY <4>1
        <5> QED  BY <5>1
      <4>3. (m + 1 + f) * NumberOfBins = m * NumberOfBins + NumberOfBins + f * NumberOfBins
            /\ f * NumberOfBins \in Nat
        BY <1>2
      <4>4. pos <= m * NumberOfBins
        BY <1>1, <1>4, PlaceOfRun
      <4> QED  BY <1>1, <1>2, <1>16, <2>3, <4>2, <4>3, <4>4
    <3> QED  BY <1>4, <3>1, <3>2
  <2>7. \E k \in 1 .. NUp, f \in 0 .. 1 : pos' = k * NumberOfBins - cfo' + f
    BY <1>3, <2>5, <2>6
  <2> QED  BY <1>3, <2>7
       DEF SymbolBySymbol, NET_ID1, NET_ID2, DOWNCHIRP1, DOWNCHIRP2, QUARTER_DOWN
<1> QED  BY <1>7, <1>17, <1>18

(***************************************************************************)
(* The windows that SYNC looks at.                                         *)
(***************************************************************************)

\* A window of SYNC that is not given up counts no noise.
LEMMA SyncCounts ==
  ASSUME NEW bin, Window(bin), m_state = "SYNC", m_state' # "DETECT"
  PROVE  noise_run' = noise_run
BY DEF Window, CountNoise

\* A window of a synchronisation that noise spoilt.  If it is given up within the frame, the frame is
\* lost; before the frame, the next run begins.
LEMMA SpoiltSync ==
  ASSUME AlignParameters, IInv, Spoilt, m_state = "SYNC", NEW bin, NEW down \in DownBins, Window(bin),
         \/ NetId1(bin) \/ NetId2(bin) \/ Downchirp1(bin) \/ Downchirp2(bin, down) \/ QuarterDown(bin)
  PROVE  IInv'
<1>1. /\ AlignTypes /\ pos \in Int /\ cfo \in Nat /\ net_id_off \in Int /\ down_val \in Int
      /\ k_hat \in Int /\ noise_run \in Nat
  BY DEF IInv, AlignTypes
<1>2. NumberOfBins \in Nat /\ NumberOfBins >= 8 /\ NumberOfBins \div 4 \in Nat
      /\ SyncWord1 \in Nat /\ SyncWord2 \in Nat /\ NUp \in Nat
  BY Sizes, SyncAssumption
<1>3. bin \in -1 .. NumberOfBins - 1 /\ cfo' = cfo /\ pos' = pos + items_to_consume'
  BY <1>1, BinsShown DEF Window
<1>4. down \in Int
  <2>1. Delta(pos) \in Int
    <3>1. PICK h \in Nat : h = NumberOfBins \div 2
      BY Sizes
    <3>2. (pos + h) \div NumberOfBins \in Int
      BY <1>1, <1>2
    <3> QED  BY <1>1, <1>2, <3>1, <3>2 DEF Delta, SymbolAt
  <2>2. PICK v \in Int : v = cfo - Delta(pos)
    BY <1>1, <2>1
  <2>3. v % NumberOfBins \in Int
    BY <1>2, <2>2
  <2>4. NoiseBins \subseteq Int
    BY SyncAssumption, AlignAssumption
  <2> QED  BY <2>2, <2>3, <2>4 DEF DownBins
<1>5. CFOint \in Int
  <2>1. down_val \div 2 \in Int /\ (NumberOfBins - down_val) \div 2 \in Int
    BY <1>1, <1>2
  <2>2. PICK v \in Int : v = NumberOfBins - ((NumberOfBins - down_val) \div 2)
    BY <1>2, <2>1
  <2>3. v % NumberOfBins \in Int
    BY <1>2
  <2> QED  BY <2>1, <2>2, <2>3 DEF CFOint
<1>6. /\ items_to_consume' \in Int /\ net_id_off' \in Int /\ down_val' \in Int /\ k_hat' \in Int
      /\ m_state' \in {"DETECT", "SYNC", "FRAC_CFO_CORREC"}
      /\ m_state' = "DETECT" => /\ symbol_cnt' = 1 /\ k_hat' = 0 /\ bin_idx' = bin
                               /\ items_to_consume' = NumberOfBins
  <2>1. CASE NetId1(bin)
    BY <1>1, <1>2, <1>3, <2>1 DEF NetId1, SyncWindow, WrongNetId, Restart
  <2>2. CASE NetId2(bin)
    BY <1>1, <1>2, <1>3, <2>2 DEF NetId2, SyncWindow, WrongNetId, Restart
  <2>3. CASE Downchirp1(bin)
    BY <1>1, <1>2, <1>3, <2>3 DEF Downchirp1, SyncWindow
  <2>4. CASE Downchirp2(bin, down)
    BY <1>1, <1>2, <1>3, <1>4, <2>4 DEF Downchirp2, SyncWindow
  <2>5. CASE QuarterDown(bin)
    BY <1>1, <1>2, <1>3, <1>5, <2>5 DEF QuarterDown, SyncWindow
  <2> QED  BY <2>1, <2>2, <2>3, <2>4, <2>5
<1>7. CASE m_state' # "DETECT"
  <2>1. noise_run' = noise_run
    BY <1>7, SyncCounts
  <2>2. Spoilt'
    BY <2>1 DEF Spoilt, NoiseBorne
  <2>3. AlignTypes'
    BY <1>1, <1>3, <1>6, <2>1 DEF AlignTypes
  <2> QED  BY <1>7, <2>2, <2>3 DEF IInv, HeaderAligned
<1>8. CASE m_state' = "DETECT"
  <2>1. noise_run' = IF pos < 0 THEN 1 ELSE 0
    BY <1>8 DEF Window, CountNoise
  <2>2. AlignTypes'
    BY <1>1, <1>3, <1>6, <2>1 DEF AlignTypes
  <2>3. CASE pos >= 0
    <3>1. lost'
      BY <1>8, <2>3 DEF Window
    <3> QED  BY <1>8, <2>2, <3>1 DEF IInv, HeaderAligned
  <2>4. CASE pos < 0
    <3>1. pos < NumberOfBins /\ pos' = pos + NumberOfBins /\ ~(pos >= 0)
      BY <1>1, <1>2, <1>3, <1>6, <1>8, <2>4
    <3>2. RunOfUpchirps'
      BY <1>1, <1>3, <1>6, <1>8, <2>1, <3>1, FreshRun
    <3> QED  BY <1>8, <2>2, <3>2 DEF IInv, HeaderAligned
  <2> QED  BY <1>1, <2>3, <2>4
<1> QED  BY <1>7, <1>8

\* What a window shows that begins a little before or after symbol k.
LEMMA SymbolShown ==
  ASSUME AlignParameters, cfo \in Nat, 4 * cfo < NumberOfBins,
         NEW k \in Nat, k >= 1, k <= NUp + 1, NEW e \in 0 .. 1, pos = k * NumberOfBins - cfo + e,
         SymbolValue(k) + e \in 0 .. NumberOfBins - 1
  PROVE  /\ WindowBins = {SymbolValue(k) + e}
         /\ Delta(pos) = e - cfo
<1>1. NumberOfBins \in Nat /\ NumberOfBins >= 8
  BY Sizes
<1>2. k * NumberOfBins \in Nat /\ k * NumberOfBins >= NumberOfBins
  <2>1. PICK f \in Nat : k = f + 1
    <3>1. k - 1 \in Nat /\ k = (k - 1) + 1
      OBVIOUS
    <3> QED  BY <3>1
  <2>2. (f + 1) * NumberOfBins = f * NumberOfBins + NumberOfBins /\ f * NumberOfBins \in Nat
    BY <1>1
  <2> QED  BY <1>1, <2>1, <2>2
<1>3. PICK d \in Int : d = e - cfo /\ 2 * d >= -NumberOfBins /\ 2 * d < NumberOfBins
  <2>1. e - cfo \in Int /\ 2 * (e - cfo) >= -NumberOfBins /\ 2 * (e - cfo) < NumberOfBins
    BY <1>1
  <2> QED  BY <2>1
<1>4. pos = k * NumberOfBins + d
  BY <1>2, <1>3
<1>5. k \in Int /\ SymbolAt(k * NumberOfBins + d) = k /\ Delta(k * NumberOfBins + d) = d
  BY <1>3, NearSymbol
<1>6. ChirpBin(pos) = SymbolValue(k) + e
  <2>1. PICK v \in 0 .. NumberOfBins - 1 : v = SymbolValue(k) + e
    OBVIOUS
  <2>2. SymbolValue(k) \in Nat
    BY Sizes DEF SymbolValue
  <2>3. SymbolValue(k) + d + cfo = v
    BY <1>3, <2>1, <2>2
  <2>4. v % NumberOfBins = v
    BY <1>1
  <2> QED  BY <1>4, <1>5, <2>1, <2>3, <2>4 DEF ChirpBin
<1>7. pos > 0
  BY <1>1, <1>2
<1>8. WindowBins = {ChirpBin(pos)}
  <2>1. ~(pos <= -NumberOfBins) /\ ~(SymbolAt(pos) > NUp + 1) /\ ~(pos \in (1 - NumberOfBins) .. -1)
    BY <1>1, <1>2, <1>4, <1>5, <1>7, Sizes
  <2> QED  BY <2>1 DEF WindowBins
<1> QED  BY <1>3, <1>4, <1>5, <1>6, <1>8

\* An upchirp is skipped, the first network identifier found.
LEMMA FirstNetId ==
  ASSUME AlignParameters, IInv, SymbolBySymbol, NEW bin, Window(bin), NetId1(bin)
  PROVE  IInv'
<1>1. /\ AlignTypes /\ pos \in Int /\ cfo \in Nat /\ 4 * cfo < NumberOfBins
      /\ m_state = "SYNC" /\ SymbolBySymbol /\ symbol_cnt = NET_ID1
  BY DEF IInv, AlignTypes, NetId1, SyncWindow, SymbolBySymbol
<1>2. NumberOfBins \in Nat /\ NumberOfBins >= 8 /\ NUp \in Nat /\ NUp >= 7
      /\ SyncWord1 \in 2 .. NumberOfBins - 3
  BY Sizes
<1>3. PICK k \in 1 .. NUp, e \in 0 .. 1 : pos = k * NumberOfBins - cfo + e
  BY <1>1 DEF SymbolBySymbol
<1>4. k \in Nat /\ k >= 1 /\ k <= NUp + 1 /\ k * NumberOfBins \in Nat
      /\ (k + 1) * NumberOfBins = k * NumberOfBins + NumberOfBins
  BY <1>2, <1>3
<1>5. pos' = pos + items_to_consume' /\ cfo' = cfo /\ bin \in WindowBins
  BY DEF Window
<1>6. CASE k < NUp
  <2>1. SymbolValue(k) = 0
    BY <1>2, <1>4, <1>6 DEF SymbolValue
  <2>2. bin = e
    <3>1. SymbolValue(k) + e \in 0 .. NumberOfBins - 1 /\ SymbolValue(k) + e = e
      BY <1>2, <1>3, <2>1
    <3> QED  BY <1>1, <1>3, <1>4, <1>5, <3>1, SymbolShown
  <2>3. StillUpchirp(bin)
    BY <1>3, <2>2 DEF StillUpchirp
  <2>4. /\ m_state' = m_state /\ symbol_cnt' = symbol_cnt /\ k_hat' = k_hat
        /\ net_id_off' = net_id_off /\ down_val' = down_val /\ items_to_consume' = NumberOfBins
    BY <2>3 DEF NetId1
  <2>5. k + 1 \in 1 .. NUp /\ pos' = (k + 1) * NumberOfBins - cfo' + e
    BY <1>1, <1>2, <1>3, <1>4, <1>5, <1>6, <2>4
  <2>6. SymbolBySymbol'
    <3>1. \E j \in 1 .. NUp, f \in 0 .. 1 : pos' = j * NumberOfBins - cfo' + f
      BY <1>3, <2>5
    <3> QED  BY <1>1, <2>4, <3>1
         DEF SymbolBySymbol, NET_ID1, NET_ID2, DOWNCHIRP1, DOWNCHIRP2, QUARTER_DOWN
  <2>7. pos' \in Int
    BY <1>1, <1>2, <1>5, <2>4
  <2>8. noise_run' = noise_run
    BY <1>1, <2>4, SyncCounts
  <2>9. AlignTypes'
    BY <1>1, <1>3, <1>5, <2>4, <2>7, <2>8 DEF AlignTypes
  <2> QED  BY <1>1, <2>4, <2>6, <2>9 DEF IInv, HeaderAligned
<1>7. CASE k = NUp
  <2>1. SymbolValue(k) = SyncWord1
    BY <1>7 DEF SymbolValue
  <2>2. bin = SyncWord1 + e
    <3>1. SymbolValue(k) + e \in 0 .. NumberOfBins - 1 /\ SymbolValue(k) + e = SyncWord1 + e
      BY <1>2, <1>3, <2>1
    <3> QED  BY <1>1, <1>3, <1>4, <1>5, <3>1, SymbolShown
  <2>3. ~StillUpchirp(bin) /\ Abs(bin - SyncWord1) <= 1 /\ bin - SyncWord1 = e
    BY <1>2, <1>3, <2>2 DEF StillUpchirp, Abs
  <2>4. /\ m_state' = m_state /\ symbol_cnt' = NET_ID2 /\ k_hat' = k_hat
        /\ net_id_off' = e /\ down_val' = down_val /\ items_to_consume' = NumberOfBins
    <3>1. ~(Abs(bin - SyncWord1) > 1)
      BY <1>2, <1>3, <2>2 DEF Abs
    <3> QED  BY <2>3, <3>1 DEF NetId1
  <2>5. pos' = (NUp + 1) * NumberOfBins - cfo' + net_id_off'
    BY <1>1, <1>2, <1>3, <1>4, <1>5, <1>7, <2>4
  <2>6. SymbolBySymbol'
    BY <1>1, <1>3, <2>4, <2>5
       DEF SymbolBySymbol, NET_ID1, NET_ID2, DOWNCHIRP1, DOWNCHIRP2, QUARTER_DOWN
  <2>7. pos' \in Int
    BY <1>1, <1>2, <1>5, <2>4
  <2>8. noise_run' = noise_run
    BY <1>1, <2>4, SyncCounts
  <2>9. AlignTypes'
    BY <1>1, <1>3, <1>5, <2>4, <2>7, <2>8 DEF AlignTypes
  <2> QED  BY <1>1, <2>4, <2>6, <2>9 DEF IInv, HeaderAligned
<1> QED  BY <1>2, <1>3, <1>6, <1>7

\* The second network identifier takes back the sample by which the first was off.
LEMMA SecondNetId ==
  ASSUME AlignParameters, IInv, SymbolBySymbol, NEW bin, Window(bin), NetId2(bin)
  PROVE  IInv'
<1>1. /\ AlignTypes /\ pos \in Int /\ cfo \in Nat /\ 4 * cfo < NumberOfBins
      /\ m_state = "SYNC" /\ symbol_cnt = NET_ID2
      /\ net_id_off \in 0 .. 1 /\ pos = (NUp + 1) * NumberOfBins - cfo + net_id_off
  BY DEF IInv, AlignTypes, NetId2, SyncWindow, SymbolBySymbol
<1>2. NumberOfBins \in Nat /\ NumberOfBins >= 8 /\ NUp \in Nat /\ NUp >= 7
      /\ SyncWord2 \in 0 .. NumberOfBins - 2
  BY Sizes
<1>3. PICK e \in 0 .. 1 : e = net_id_off
  BY <1>1
<1>4. PICK k \in Nat : k = NUp + 1 /\ k >= 1 /\ k # NUp
  <2>1. NUp + 1 \in Nat /\ NUp + 1 >= 1 /\ NUp + 1 # NUp
    BY <1>2
  <2> QED  BY <2>1
<1>5. pos' = pos + items_to_consume' /\ cfo' = cfo /\ bin \in WindowBins
  BY DEF Window
<1>6. bin = SyncWord2 + e
  <2>1. SymbolValue(k) = SyncWord2
    BY <1>2, <1>4 DEF SymbolValue
  <2>2. SymbolValue(k) + e \in 0 .. NumberOfBins - 1
    BY <1>2, <1>3, <2>1
  <2> QED  BY <1>1, <1>3, <1>4, <1>5, <2>1, <2>2, SymbolShown
<1>7. ~(Abs(bin - SyncWord2) > 1) /\ bin - SyncWord2 = e
  BY <1>2, <1>3, <1>6 DEF Abs
<1>8. /\ m_state' = m_state /\ symbol_cnt' = DOWNCHIRP1 /\ k_hat' = k_hat
      /\ net_id_off' = net_id_off /\ down_val' = down_val
      /\ items_to_consume' = IF net_id_off # 0 /\ bin - SyncWord2 = net_id_off
                             THEN NumberOfBins - net_id_off ELSE NumberOfBins
  BY <1>7 DEF NetId2
<1>9. items_to_consume' = NumberOfBins - e
  BY <1>2, <1>3, <1>7, <1>8
<1>10. pos' = (NUp + 2) * NumberOfBins - cfo'
  <2>1. (NUp + 2) * NumberOfBins = (NUp + 1) * NumberOfBins + NumberOfBins
        /\ (NUp + 1) * NumberOfBins \in Nat
    BY <1>2
  <2> QED  BY <1>1, <1>2, <1>3, <1>5, <1>9, <2>1
<1>11. SymbolBySymbol'
  BY <1>1, <1>8, <1>10 DEF SymbolBySymbol, NET_ID1, NET_ID2, DOWNCHIRP1, DOWNCHIRP2, QUARTER_DOWN
<1>12. pos' \in Int
  BY <1>1, <1>2, <1>3, <1>5, <1>9
<1>13. noise_run' = noise_run
  BY <1>1, <1>8, SyncCounts
<1>14. AlignTypes'
  BY <1>1, <1>5, <1>8, <1>12, <1>13 DEF AlignTypes
<1> QED  BY <1>1, <1>8, <1>11, <1>14 DEF IInv, HeaderAligned

\* The first downchirp.
LEMMA FirstDownchirp ==
  ASSUME AlignParameters, IInv, SymbolBySymbol, NEW bin, Window(bin), Downchirp1(bin)
  PROVE  IInv'
<1>1. /\ AlignTypes /\ pos \in Int /\ cfo \in Nat /\ 4 * cfo < NumberOfBins
      /\ m_state = "SYNC" /\ symbol_cnt = DOWNCHIRP1
      /\ pos = (NUp + 2) * NumberOfBins - cfo
  BY DEF IInv, AlignTypes, Downchirp1, SyncWindow, SymbolBySymbol
<1>2. NumberOfBins \in Nat /\ NUp \in Nat
  BY Sizes
<1>3. /\ pos' = pos + NumberOfBins /\ cfo' = cfo
      /\ m_state' = m_state /\ symbol_cnt' = DOWNCHIRP2 /\ k_hat' = k_hat
      /\ net_id_off' = net_id_off /\ down_val' = down_val
  BY DEF Window, Downchirp1
<1>4. pos' = (NUp + 3) * NumberOfBins - cfo'
  <2>1. (NUp + 3) * NumberOfBins = (NUp + 2) * NumberOfBins + NumberOfBins
        /\ (NUp + 2) * NumberOfBins \in Nat
    BY <1>2
  <2> QED  BY <1>1, <1>2, <1>3, <2>1
<1>5. SymbolBySymbol'
  BY <1>1, <1>3, <1>4 DEF SymbolBySymbol, NET_ID1, NET_ID2, DOWNCHIRP1, DOWNCHIRP2, QUARTER_DOWN
<1>6. noise_run' = noise_run
  BY <1>1, <1>3, SyncCounts
<1>7. AlignTypes'
  BY <1>1, <1>2, <1>3, <1>6 DEF AlignTypes
<1> QED  BY <1>1, <1>3, <1>5, <1>7 DEF IInv, HeaderAligned

\* The second downchirp, demodulated with the upchirp, shows twice cfo.
LEMMA SecondDownchirp ==
  ASSUME AlignParameters, IInv, SymbolBySymbol, NEW bin, Window(bin),
         NEW down \in DownBins, Downchirp2(bin, down)
  PROVE  IInv'
<1>1. /\ AlignTypes /\ pos \in Int /\ cfo \in Nat /\ 4 * cfo < NumberOfBins
      /\ m_state = "SYNC" /\ symbol_cnt = DOWNCHIRP2
      /\ pos = (NUp + 3) * NumberOfBins - cfo
  BY DEF IInv, AlignTypes, Downchirp2, SyncWindow, SymbolBySymbol
<1>2. NumberOfBins \in Nat /\ NumberOfBins >= 8 /\ NUp \in Nat
  BY Sizes
<1>3. /\ pos' = pos + NumberOfBins /\ cfo' = cfo /\ down_val' = down
      /\ m_state' = m_state /\ symbol_cnt' = QUARTER_DOWN /\ k_hat' = k_hat
      /\ net_id_off' = net_id_off
  BY DEF Window, Downchirp2
<1>4. (NUp + 4) * NumberOfBins = (NUp + 3) * NumberOfBins + NumberOfBins
      /\ (NUp + 3) * NumberOfBins \in Nat
  BY <1>2
<1>5. pos' = (NUp + 4) * NumberOfBins - cfo'
  BY <1>1, <1>2, <1>3, <1>4
<1>6. down = 2 * cfo
  <2>1. PICK d \in Int : d = 0 - cfo /\ 2 * d >= -NumberOfBins /\ 2 * d < NumberOfBins
    <3>1. 0 - cfo \in Int /\ 2 * (0 - cfo) >= -NumberOfBins /\ 2 * (0 - cfo) < NumberOfBins
      BY <1>1, <1>2
    <3> QED  BY <3>1
  <2>2. NUp + 3 \in Int /\ SymbolAt((NUp + 3) * NumberOfBins + d) = NUp + 3
        /\ Delta((NUp + 3) * NumberOfBins + d) = d
    <3>1. NUp + 3 \in Int
      BY <1>2
    <3> QED  BY <2>1, <3>1, NearSymbol
  <2>3. Delta(pos) = 0 - cfo /\ SymbolAt(pos) = NUp + 3
    BY <1>1, <1>4, <2>1, <2>2
  <2>4. PICK v \in 0 .. NumberOfBins - 1 : v = 2 * cfo
    BY <1>1, <1>2
  <2>5. cfo - (0 - cfo) = v
    BY <1>1, <2>4
  <2>6. v % NumberOfBins = v
    BY <1>2
  <2>7. down = (cfo - Delta(pos)) % NumberOfBins
    BY <1>1, <2>3, DownchirpShown
  <2> QED  BY <2>3, <2>4, <2>5, <2>6, <2>7
<1>7. SymbolBySymbol'
  BY <1>1, <1>3, <1>5, <1>6
     DEF SymbolBySymbol, NET_ID1, NET_ID2, DOWNCHIRP1, DOWNCHIRP2, QUARTER_DOWN
<1>8. noise_run' = noise_run
  BY <1>1, <1>3, SyncCounts
<1>9. AlignTypes'
  BY <1>1, <1>2, <1>3, <1>6, <1>8 DEF AlignTypes
<1> QED  BY <1>1, <1>3, <1>7, <1>9 DEF IInv, HeaderAligned

\* The quarter downchirp and the offset read off the downchirp end at the header.
LEMMA HeaderFound ==
  ASSUME AlignParameters, IInv, SymbolBySymbol, NEW bin, Window(bin), QuarterDown(bin)
  PROVE  IInv'
<1>1. /\ AlignTypes /\ pos \in Int /\ cfo \in Nat /\ 4 * cfo < NumberOfBins
      /\ m_state = "SYNC" /\ symbol_cnt = QUARTER_DOWN
      /\ pos = (NUp + 4) * NumberOfBins - cfo /\ down_val = 2 * cfo
  BY DEF IInv, AlignTypes, QuarterDown, SyncWindow, SymbolBySymbol
<1>2. NumberOfBins \in Nat /\ NumberOfBins = 4 * (NumberOfBins \div 4) /\ NumberOfBins \div 4 \in Nat
      /\ NumberOfBins \div 2 = 2 * (NumberOfBins \div 4) /\ NUp \in Nat
  BY Sizes
<1>3. /\ pos' = pos + (NumberOfBins \div 4 + CFOint) /\ cfo' = cfo
      /\ m_state' = "FRAC_CFO_CORREC"
      /\ k_hat' = k_hat /\ net_id_off' = net_id_off /\ down_val' = down_val
  BY DEF Window, QuarterDown
<1>4. CFOint = cfo
  <2>1. down_val \in 0 .. (NumberOfBins \div 2 - 1)
    BY <1>1, <1>2
  <2>2. down_val \div 2 = cfo
    BY <1>1
  <2> QED  BY <2>1, <2>2 DEF CFOint
<1>5. pos' = HeaderStart
  <2>1. (NUp + 4) * NumberOfBins \in Nat
    BY <1>2
  <2> QED  BY <1>1, <1>2, <1>3, <1>4, <2>1 DEF HeaderStart
<1>6. pos' \in Int
  BY <1>1, <1>2, <1>3, <1>4
<1>7. noise_run' = noise_run
  BY <1>1, <1>3, SyncCounts
<1>8. AlignTypes'
  BY <1>1, <1>3, <1>6, <1>7 DEF AlignTypes
<1> QED  BY <1>3, <1>5, <1>8 DEF IInv, HeaderAligned, HeaderStart

(***************************************************************************)
(* Every window, whatever the noise before the frame.                      *)
(***************************************************************************)
LEMMA SearchStep == ASSUME AlignParameters, IInv, AlignNext PROVE IInv'
<1>1. PICK bin \in WindowBins, down \in DownBins : SearchWindow(bin, down) /\ CountNoise(bin)
  BY DEF AlignNext
<1>2. Window(bin)
  BY <1>1 DEF Window, AlignNext
<1>3. CASE DetectUpchirp(bin)
  BY <1>2, <1>3, RunGrows
<1>4. CASE DetectPreamble(bin)
  BY <1>2, <1>4, RunEnds
<1>5. CASE DetectOther(bin)
  BY <1>2, <1>5, NewRun
<1>6. CASE NetId1(bin) \/ NetId2(bin) \/ Downchirp1(bin) \/ Downchirp2(bin, down) \/ QuarterDown(bin)
  <2>1. m_state = "SYNC" /\ ~lost /\ ~Underflow
    BY <1>2, <1>6 DEF Window, NetId1, NetId2, Downchirp1, Downchirp2, QuarterDown, SyncWindow
  <2>2. CASE Spoilt
    BY <1>2, <1>6, <2>1, <2>2, SpoiltSync
  <2>3. CASE ~Spoilt
    <3>1. SymbolBySymbol
      BY <2>1, <2>3 DEF IInv
    <3> QED
      BY <1>2, <1>6, <3>1, FirstNetId, SecondNetId, FirstDownchirp, SecondDownchirp, HeaderFound
  <2> QED  BY <2>2, <2>3
<1> QED
  BY <1>1, <1>3, <1>4, <1>5, <1>6 DEF SearchWindow

\* A step of other variables.
LEMMA UnchangedIInv == ASSUME IInv, UNCHANGED alignVars PROVE IInv'
<1>1. UNCHANGED <<pos, cfo, noise_run, lost, m_state, symbol_cnt, bin_idx, k_hat, net_id_off, down_val>>
  BY DEF alignVars, syncVars
<1> QED
  BY <1>1 DEF IInv, AlignTypes, RunOfUpchirps, SymbolBySymbol, HeaderAligned, Deviation, RunTotal,
              UpchirpBin, Seen, DriftBound, Spoilt, NoiseBorne, Underflow

(***************************************************************************)
(* Where the read position of frame_sync is in the preamble, and what the  *)
(* run it has summed up amounts to, in every state of the search.          *)
(***************************************************************************)
THEOREM SyncAlignInvariant == ASSUME AlignParameters PROVE AlignSpec => []IInv
<1>1. AlignInit => IInv
  BY InitIInv
<1>2. IInv /\ [AlignNext]_alignVars => IInv'
  BY SearchStep, UnchangedIInv
<1> QED  BY <1>1, <1>2, PTL DEF AlignSpec

(***************************************************************************)
(* The first symbol that frame_sync passes on begins with the header,      *)
(* unless noise spoilt the run: the shift by k_hat, the margin of one bin  *)
(* for every symbol of the preamble and CFOint compensate for one another  *)
(* exactly.                                                                *)
(***************************************************************************)
THEOREM HeaderIsAligned == ASSUME AlignParameters PROVE AlignSpec => []HeaderAligned
<1>1. IInv => HeaderAligned
  BY DEF IInv
<1> QED  BY <1>1, SyncAlignInvariant, PTL

(***************************************************************************)
(* After the shift by k_hat the windows begin cfo samples before the       *)
(* symbols or one sample less, for every drift of the bins of noise in the *)
(* run that NoiseBorne allows.                                             *)
(***************************************************************************)
THEOREM CoarseOffsetIsClose == ASSUME AlignParameters PROVE AlignSpec => []CoarseOffset
<1>1. IInv => CoarseOffset
  <2>1. SUFFICES ASSUME IInv, m_state = "SYNC", symbol_cnt = NET_ID1, ~Spoilt, ~Underflow, ~lost
                 PROVE  (pos + cfo) % NumberOfBins \in {0, 1}
    BY DEF CoarseOffset
  <2>2. pos \in Int /\ cfo \in Nat /\ SymbolBySymbol
    BY <2>1 DEF IInv, AlignTypes
  <2>3. PICK k \in 1 .. NUp, e \in 0 .. 1 : pos = k * NumberOfBins - cfo + e
    BY <2>1, <2>2 DEF SymbolBySymbol
  <2>4. k \in Int /\ e \in 0 .. NumberOfBins - 1 /\ k * NumberOfBins \in Int
    BY <2>3, Sizes
  <2>5. pos + cfo = k * NumberOfBins + e
    BY <2>2, <2>3, <2>4
  <2>6. (k * NumberOfBins + e) % NumberOfBins = e
    BY <2>4, WithinSymbol
  <2> QED  BY <2>3, <2>5, <2>6
<1> QED  BY <1>1, SyncAlignInvariant, PTL
===============================================================================
