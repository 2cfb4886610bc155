---------------------------- MODULE TxPathProofs ----------------------------
(***************************************************************************)
(* Proofs about TxPath: what is sent are the frames, for any number of     *)
(* payloads of any length, any spreading factor, any buffers and any way   *)
(* to cut the frames into pieces.                                          *)
(*                                                                         *)
(* A place is a frame and a number of items of it.  Each link holds the    *)
(* items from the place its reader is at to the place its writer is at;    *)
(* what a block counts says at which place of its output it is when its    *)
(* input is at a given place.                                              *)
(***************************************************************************)
EXTENDS TxPath, TLAPS, WellFoundedInduction

\* How many items a frame has on each link, given the parameters p.
HLen(p) == IF p.impl_head THEN 0 ELSE 5
CLen(p) == IF p.has_crc THEN 4 ELSE 0
PayLen(p, f) == 2 * p.payloads[f]
HeadedLen(p, f) == HLen(p) + PayLen(p, f)
FrameLen(p, f) == HeadedLen(p, f) + CLen(p)
BlockCount(p, f) == Len(BlocksOf(p, f))
SymbolCount(p, f) == 8 + (BlockCount(p, f) - 1) * (4 + p.cr)

Frames == 1 .. NFrames
WhiteSize(p) == [f \in Frames |-> PayLen(p, f)]
HeadSize(p)  == [f \in Frames |-> HeadedLen(p, f)]
CheckSize(p) == [f \in Frames |-> FrameLen(p, f)]
SymSize(p)   == [f \in Frames |-> SymbolCount(p, f)]

\* The codewords and the symbols of a frame in front of its block b + 1.
CodewordsBefore(b) == IF b = 0 THEN 0 ELSE SF - 2 + (b - 1) * SF
SymbolsBefore(p, b) == IF b = 0 THEN 0 ELSE 8 + (b - 1) * (4 + p.cr)

----------------------------------------------------------------------------
\* Places.

Place(f, n) == [frame |-> f, n |-> n]
PlacesOf(size) ==
  {q \in [frame : 1 .. NFrames + 1, n : Nat] :
     IF q.frame = NFrames + 1 THEN q.n = 0 ELSE q.n < size[q.frame]}

\* The place behind n items of frame f: at its end the next frame.
After(size, f, n) == IF n = size[f] THEN Place(f + 1, 0) ELSE Place(f, n)

\* len items at the places pl, one after the other, and the place behind them.
Ordered(pl, len, size) ==
  /\ \A k \in 1 .. len + 1 : pl[k] \in PlacesOf(size)
  /\ \A k \in 1 .. len : pl[k].frame \in Frames
  /\ \A k \in 1 .. len, j \in Nat :
       j <= size[pl[k].frame] - pl[k].n /\ k + j <= len + 1 =>
         pl[k + j] = After(size, pl[k].frame, pl[k].n + j)

----------------------------------------------------------------------------
\* The items of the links, by place, and the places of items.

NibbleOf(p, f, n) == NibblesOf(p, f)[n + 1]

\* Nibble i of the CRC of frame f.
CrcNibble(p, f, i) == Nibble("crc", i, CrcSource(<<f>>, p.payloads, i))
CrOf(p, n) == IF n < SF - 2 THEN 4 ELSE p.cr

WhiteItem(p, f, n) ==
  [frame |-> f, nibble |-> Nibble("pay", n, <<>>), len |-> IF n = 0 THEN PayLen(p, f) ELSE 0]
HeadItem(p, f, n) ==
  [frame |-> f, nibble |-> NibbleOf(p, f, n), len |-> IF n = 0 THEN HeadedLen(p, f) ELSE 0]
CheckItem(p, f, n) ==
  [frame |-> f, nibble |-> NibbleOf(p, f, n), len |-> IF n = 0 THEN FrameLen(p, f) ELSE 0]
CodeItem(p, f, n) ==
  [frame |-> f, nibble |-> NibbleOf(p, f, n), len |-> IF n = 0 THEN FrameLen(p, f) ELSE 0,
   cr |-> CrOf(p, n)]
SymItem(p, f, s) ==
  [frame |-> f, block |-> SymbolsOf(p, f)[s + 1].block, i |-> SymbolsOf(p, f)[s + 1].i,
   len |-> IF s = 0 THEN SymbolCount(p, f) ELSE 0]

NibbleIndex(p, item) ==
  CASE item.nibble.part = "hdr" -> item.nibble.i
    [] item.nibble.part = "pay" -> HLen(p) + item.nibble.i
    [] item.nibble.part = "crc" -> HeadedLen(p, item.frame) + item.nibble.i
SymIndex(p, item) ==
  SymbolsBefore(p, item.block - Len(BlocksUpTo(p, item.frame - 1)) - 1) + item.i - 1

\* The places of the items on each link, and of the one that will come next.
WhiteTo == Place(NFrames - Len(payload_str) + 1, 0)
WhitePlaces ==
  [k \in 1 .. Len(whitened) + 1 |->
     IF k = Len(whitened) + 1 THEN WhiteTo ELSE Place(whitened[k].frame, whitened[k].nibble.i)]

HeadedTo(p) ==
  LET q == WhitePlaces[1] IN
  Place(q.frame, IF q.n = 0 THEN m_cnt_header_nibbles ELSE HLen(p) + q.n)
HeadPlaces(p) ==
  [k \in 1 .. Len(headed) + 1 |->
     IF k = Len(headed) + 1 THEN HeadedTo(p) ELSE Place(headed[k].frame, NibbleIndex(p, headed[k]))]

\* add_crc and hamming_enc write the places they read.
CheckPlaces(p) ==
  [k \in 1 .. Len(checked) + 1 |->
     IF k = Len(checked) + 1 THEN HeadPlaces(p)[1]
     ELSE Place(checked[k].frame, NibbleIndex(p, checked[k]))]
CodePlaces(p) ==
  [k \in 1 .. Len(coded) + 1 |->
     IF k = Len(coded) + 1 THEN CheckPlaces(p)[1]
     ELSE Place(coded[k].frame, NibbleIndex(p, coded[k]))]

\* The blocks of the frame that the interleaver has written.
BlocksDone(n) == (n + 2) \div SF
SymTo(p) ==
  LET q == CodePlaces(p)[1] IN Place(q.frame, SymbolsBefore(p, BlocksDone(q.n)))
SymPlaces(p) ==
  [k \in 1 .. Len(tx_symbols) + 1 |->
     IF k = Len(tx_symbols) + 1 THEN SymTo(p)
     ELSE Place(tx_symbols[k].frame, SymIndex(p, tx_symbols[k]))]

----------------------------------------------------------------------------
\* The inductive invariant.

NibbleSet == [part : {"hdr", "pay", "crc"}, i : Nat, about : Seq(Nat)]
ItemSet == [frame : Nat, nibble : NibbleSet, len : Nat]
CodewordSet == [frame : Nat, nibble : NibbleSet, len : Nat, cr : Nat]
SymbolSet == [frame : Nat, block : Nat, i : Nat, len : Nat]
AirKinds == {"upchirp", "sync_word_1", "sync_word_2", "downchirp", "quarter_downchirp",
             "symbol", "silence"}
AirSet == [kind : AirKinds, block : Nat, i : Nat]

Typed ==
  /\ TypeOK /\ Given \in Parameters
  /\ payload_str \in Seq(Nat)
  /\ whitened \in Seq(ItemSet) /\ headed \in Seq(ItemSet) /\ checked \in Seq(ItemSet)
  /\ coded \in Seq(CodewordSet) /\ tx_symbols \in Seq(SymbolSet)
  /\ m_payload_len \in Nat /\ m_tag_len \in Nat /\ m_cnt_nibbles \in Nat
  /\ m_payload \in Seq(Nat) /\ m_frame_len \in Nat /\ m_cnt \in Nat
  /\ enc_cnt \in Nat /\ cw_cnt \in Nat /\ inter_frame_len \in Nat
  /\ blocks \in Seq([cw_len : Nat, cws : Seq(CodewordSet)])
  /\ mod_frame_len \in Nat /\ air \in Seq(AirSet)

PayloadsLeft ==
  /\ Len(payload_str) <= NFrames
  /\ \A k \in 1 .. Len(payload_str) : payload_str[k] = NFrames - Len(payload_str) + k

\* header
WhiteInOrder(p) ==
  /\ Ordered(WhitePlaces, Len(whitened), WhiteSize(p))
  /\ \A k \in 1 .. Len(whitened) :
       whitened[k] = WhiteItem(p, WhitePlaces[k].frame, WhitePlaces[k].n)
HeaderCounts(p) ==
  LET q == WhitePlaces[1] IN
  /\ q.n > 0 => m_cnt_nibbles = q.n
  /\ m_cnt_header_nibbles > 0 => m_cnt_header_nibbles <= HLen(p) /\ q.n = 0 /\ whitened # <<>>

\* add_crc
HeadInOrder(p) ==
  /\ Ordered(HeadPlaces(p), Len(headed), HeadSize(p))
  /\ \A k \in 1 .. Len(headed) :
       headed[k] = HeadItem(p, HeadPlaces(p)[k].frame, HeadPlaces(p)[k].n)
CrcCounts(p) ==
  LET q == HeadPlaces(p)[1] IN
  /\ q.n > 0 => m_cnt = q.n /\ m_frame_len = HeadedLen(p, q.frame)
  /\ p.has_crc => m_payload = IF q.n = 0 THEN <<>> ELSE <<q.frame>>

\* hamming_enc
CheckInOrder(p) ==
  /\ Ordered(CheckPlaces(p), Len(checked), CheckSize(p))
  /\ \A k \in 1 .. Len(checked) :
       checked[k] = CheckItem(p, CheckPlaces(p)[k].frame, CheckPlaces(p)[k].n)
EncCounts(p) ==
  LET q == CheckPlaces(p)[1] IN q.n > 0 => enc_cnt = q.n

\* interleaver
CodeInOrder(p) ==
  /\ Ordered(CodePlaces(p), Len(coded), CheckSize(p))
  /\ \A k \in 1 .. Len(coded) :
       coded[k] = CodeItem(p, CodePlaces(p)[k].frame, CodePlaces(p)[k].n)
BlockCounts(p) ==
  LET q == CodePlaces(p)[1] IN
  /\ q.n > 0 => cw_cnt = q.n /\ inter_frame_len = FrameLen(p, q.frame)
  /\ q.n = CodewordsBefore(BlocksDone(q.n))
  /\ q.frame \in Frames => BlocksDone(q.n) < BlockCount(p, q.frame)

\* What the interleaver has written is the blocks of whole frames and some of the next.
BlocksSent(p, f, b) ==
  BlocksUpTo(p, f - 1) \o (IF b = 0 THEN <<>> ELSE SubSeq(BlocksOf(p, f), 1, b))
BlocksInOrder(p) ==
  LET q == CodePlaces(p)[1]
      sent == BlocksSent(p, q.frame, BlocksDone(q.n)) IN
  /\ Len(blocks) = Len(sent)
  /\ \A k \in 1 .. Len(blocks) : Bare(blocks[k]) = sent[k]

\* modulate
SymInOrder(p) ==
  /\ Ordered(SymPlaces(p), Len(tx_symbols), SymSize(p))
  /\ \A k \in 1 .. Len(tx_symbols) :
       tx_symbols[k] = SymItem(p, SymPlaces(p)[k].frame, SymPlaces(p)[k].n)

\* In a frame its symbols are counted; behind it, the padding.
InFrame == symb_cnt < mod_frame_len
ModCounts(p) ==
  LET q == SymPlaces(p)[1] IN
  IF InFrame
  THEN /\ q.frame \in Frames /\ (q.n = 0 => tx_symbols # <<>>)
       /\ mod_frame_len = SymbolCount(p, q.frame) /\ symb_cnt = q.n
       /\ padd_cnt = 0 /\ (q.n > 0 => preamb_symb_cnt = PreambleLen)
  ELSE /\ q.n = 0
       /\ symb_cnt = mod_frame_len + (IF q.frame = 1 THEN 0 ELSE padd_cnt)
       /\ IF q.frame = 1 THEN mod_frame_len = 0 /\ preamb_symb_cnt = 0 /\ padd_cnt = InterFramePadding
          ELSE mod_frame_len = SymbolCount(p, q.frame - 1) /\ preamb_symb_cnt = PreambleLen

\* What is on the air: whole frames, and some of the last.
AirInOrder(p) ==
  LET q == SymPlaces(p)[1]
      f == IF InFrame THEN q.frame ELSE q.frame - 1 IN
  air = IF f = 0 THEN <<>>
        ELSE AirUpTo(p, f - 1) \o SubSeq(AirOf(p, f), 1, preamb_symb_cnt + symb_cnt)

InOrder(p) ==
  /\ PayloadsLeft
  /\ WhiteInOrder(p) /\ HeaderCounts(p)
  /\ HeadInOrder(p) /\ CrcCounts(p)
  /\ CheckInOrder(p) /\ EncCounts(p)
  /\ CodeInOrder(p) /\ BlockCounts(p) /\ BlocksInOrder(p)
  /\ SymInOrder(p) /\ ModCounts(p) /\ AirInOrder(p)

IInv == Typed /\ \E p \in Parameters : p = Given /\ InOrder(p)

----------------------------------------------------------------------------
(***************************************************************************)
(* Sequences put together from the sequences of a function.                *)
(***************************************************************************)

\* The first m sequences of F, one after the other.
UpTo(F, m) == FlattenSeq([g \in 1 .. m |-> F[g]])

\* Each of m sequences fl continues the one before with that of ss.
Continues(fl, ss, m) ==
  \A i \in 1 .. m : fl[i] = IF i = 1 THEN ss[i] ELSE fl[i - 1] \o ss[i]

\* A set of numbers that is not empty has a least one.
LEMMA LeastNumber ==
  ASSUME NEW T \in SUBSET Nat, T # {}
  PROVE  \E x \in T : \A y \in T : x <= y
<1> DEFINE R == OpToRel(<, Nat)
<1>1. IsWellFoundedOn(R, Nat)
  BY NatLessThanWellFounded
<1>2. \A x, y \in Nat : y < x => <<y, x>> \in R
  BY DEF OpToRel
<1> HIDE DEF R
<1>3. PICK x \in T : \A y \in T : ~(<<y, x>> \in R)
  BY <1>1, WFMin
<1>4. ASSUME NEW y \in T PROVE x <= y
  <2>1. x \in Nat /\ y \in Nat /\ ~(y < x)
    BY <1>2, <1>3
  <2> QED  BY <2>1
<1> QED  BY <1>4

LEMMA ConcatFacts ==
  ASSUME NEW S, NEW s \in Seq(S), NEW t \in Seq(S)
  PROVE  /\ s \o t \in Seq(S)
         /\ Len(s \o t) = Len(s) + Len(t) /\ Len(s) \in Nat /\ Len(t) \in Nat
         /\ \A k \in 1 .. Len(s) : (s \o t)[k] = s[k]
         /\ \A k \in 1 .. Len(t) : (s \o t)[Len(s) + k] = t[k]
  OBVIOUS

\* The sequences of which each continues the one before.
LEMMA FlattenExists ==
  ASSUME NEW S, NEW m \in Nat \ {0}, NEW ss \in [1 .. m -> Seq(S)]
  PROVE  \E fl \in [1 .. m -> Seq(S)] : Continues(fl, ss, m)
<1> USE DEF Continues
<1> DEFINE Good(n, fl) == \A i \in 1 .. n : fl[i] = IF i = 1 THEN ss[i] ELSE fl[i - 1] \o ss[i]
           T == {n \in 1 .. m : ~ \E fl \in [1 .. n -> Seq(S)] : Good(n, fl)}
<1>1. SUFFICES ASSUME T # {} PROVE FALSE
  <2>0. m \in 1 .. m
    OBVIOUS
  <2>1. m \notin T /\ m \in 1 .. m
    <3> HIDE DEF T
    <3> QED  BY <1>1, <2>0
  <2>2. \E fl \in [1 .. m -> Seq(S)] : Good(m, fl)
    BY <2>1, Zenon
  <2> QED  BY <2>2, Zenon
<1>2. T \in SUBSET Nat
  OBVIOUS
<1>3. PICK x \in T : \A y \in T : x <= y
  <2> HIDE DEF T
  <2> QED  BY <1>1, <1>2, LeastNumber
<1>4. x \in 1 .. m /\ ~ \E fl \in [1 .. x -> Seq(S)] : Good(x, fl)
  BY <1>3, Zenon
<1>5. CASE x = 1
  <2>1. [i \in 1 .. 1 |-> ss[i]] \in [1 .. 1 -> Seq(S)]
    OBVIOUS
  <2>2. Good(1, [i \in 1 .. 1 |-> ss[i]])
    OBVIOUS
  <2> QED  BY <1>4, <1>5, <2>1, <2>2
<1>6. CASE x # 1
  <2>1. PICK n \in Nat : n >= 1 /\ x = n + 1
    <3>1. x - 1 \in Nat /\ x - 1 >= 1 /\ x = (x - 1) + 1
      BY <1>4, <1>6
    <3> QED  BY <3>1
  <2>2. PICK fl \in [1 .. n -> Seq(S)] : Good(n, fl)
    <3>1. n \in 1 .. m /\ ~(x <= n)
      BY <1>4, <2>1
    <3>2. n \notin T
      BY <1>3, <3>1, Zenon
    <3> QED  BY <3>1, <3>2, Zenon
  <2> DEFINE g == [i \in 1 .. n + 1 |-> IF i = n + 1 THEN fl[n] \o ss[n + 1] ELSE fl[i]]
  <2>3. fl[n] \in Seq(S) /\ ss[n + 1] \in Seq(S)
    BY <1>4, <2>1
  <2>4. fl[n] \o ss[n + 1] \in Seq(S)
    BY <2>3, ConcatFacts
  <2>5. g \in [1 .. n + 1 -> Seq(S)]
    BY <2>1, <2>4
  <2>6. ASSUME NEW i \in 1 .. n + 1
        PROVE  g[i] = IF i = 1 THEN ss[i] ELSE g[i - 1] \o ss[i]
    <3>1. CASE i = n + 1
      <4>1. g[i] = fl[n] \o ss[n + 1] /\ g[i - 1] = fl[n] /\ i # 1
        BY <2>1, <3>1
      <4> QED  BY <3>1, <4>1
    <3>2. CASE i # n + 1
      <4>1. i \in 1 .. n /\ g[i] = fl[i] /\ (i # 1 => g[i - 1] = fl[i - 1])
        BY <3>2
      <4>2. fl[i] = IF i = 1 THEN ss[i] ELSE fl[i - 1] \o ss[i]
        BY <2>2, <4>1
      <4> QED  BY <4>1, <4>2
    <3> QED  BY <3>1, <3>2
  <2>7. Good(n + 1, g)
    BY <2>6, Zenon
  <2> HIDE DEF Good, g
  <2> QED  BY <1>4, <2>1, <2>5, <2>7
<1> QED  BY <1>5, <1>6

\* FlattenSeq is the last of them.
LEMMA FlattenIs ==
  ASSUME NEW S, NEW m \in Nat \ {0}, NEW ss \in [1 .. m -> Seq(S)], NEW fl \in [1 .. m -> Seq(S)],
         Continues(fl, ss, m)
  PROVE  FlattenSeq(ss) = fl[m]
<1> USE DEF Continues
<1>1. Len(ss) = m
  OBVIOUS
<1>2. fl = [i \in 1 .. m |-> IF i = 1 THEN ss[i] ELSE fl[i - 1] \o ss[i]]
  OBVIOUS
<1> DEFINE G == CHOOSE g : g = [i \in 1 .. m |-> IF i = 1 THEN ss[i] ELSE g[i - 1] \o ss[i]]
<1>3. G = [i \in 1 .. m |-> IF i = 1 THEN ss[i] ELSE G[i - 1] \o ss[i]]
  BY <1>2, Zenon
<1>4. FlattenSeq(ss) = G[m]
  BY <1>1, Zenon DEF FlattenSeq
<1> HIDE DEF G
<1> DEFINE T == {n \in 1 .. m : G[n] # fl[n]}
<1>5. SUFFICES ASSUME T # {} PROVE FALSE
  <2>1. m \in 1 .. m
    OBVIOUS
  <2> QED  BY <1>4, <2>1
<1>6. T \in SUBSET Nat
  OBVIOUS
<1>7. PICK x \in T : \A y \in T : x <= y
  <2> HIDE DEF T
  <2> QED  BY <1>5, <1>6, LeastNumber
<1>8. x \in 1 .. m /\ G[x] # fl[x]
  OBVIOUS
<1>9. x # 1 => x - 1 \in 1 .. m /\ x - 1 \notin T
  BY <1>7, <1>8
<1>10. G[x] = IF x = 1 THEN ss[x] ELSE G[x - 1] \o ss[x]
  BY <1>3, <1>8
<1> QED  BY <1>8, <1>9, <1>10

LEMMA UpToZero == ASSUME NEW F PROVE UpTo(F, 0) = <<>>
<1>1. [g \in 1 .. 0 |-> F[g]] = <<>>
  OBVIOUS
<1>2. Len(<<>>) = 0
  OBVIOUS
<1> QED  BY <1>1, <1>2 DEF UpTo, FlattenSeq

\* One sequence more.
LEMMA UpToNext ==
  ASSUME NEW S, NEW N \in Nat, NEW F \in [1 .. N -> Seq(S)], NEW m \in 0 .. N - 1
  PROVE  /\ UpTo(F, m) \in Seq(S) /\ UpTo(F, m + 1) \in Seq(S)
         /\ UpTo(F, m + 1) = UpTo(F, m) \o F[m + 1]
<1>0. PICK n \in Nat \ {0} : n = m + 1 /\ n \in 1 .. N
  <2>1. m + 1 \in Nat \ {0} /\ m + 1 \in 1 .. N
    OBVIOUS
  <2> QED  BY <2>1
<1> DEFINE ss == [g \in 1 .. n |-> F[g]]
           tt == [g \in 1 .. m |-> F[g]]
<1>1. ss \in [1 .. n -> Seq(S)] /\ ss[n] = F[n] /\ F[n] \in Seq(S) /\ n \in 1 .. n
  BY <1>0
<1>2. PICK fl \in [1 .. n -> Seq(S)] : Continues(fl, ss, n)
  <2>1. n \in Nat \ {0} /\ ss \in [1 .. n -> Seq(S)]
    BY <1>0, <1>1
  <2> HIDE DEF ss, tt
  <2> QED  BY <2>1, FlattenExists
<1>3. UpTo(F, n) = fl[n]
  <2>1. FlattenSeq(ss) = fl[n]
    <3> HIDE DEF ss
    <3> QED  BY <1>1, <1>2, FlattenIs
  <2> QED  BY <2>1 DEF UpTo
<1>4. fl[n] = IF m = 0 THEN F[n] ELSE fl[m] \o F[n]
  <2>1. fl[n] = IF n = 1 THEN ss[n] ELSE fl[n - 1] \o ss[n]
    <3> HIDE DEF ss
    <3> QED  BY <1>1, <1>2 DEF Continues
  <2>2. n - 1 = m /\ (n = 1 <=> m = 0)
    BY <1>0
  <2> QED  BY <1>1, <2>1, <2>2
<1>5. CASE m = 0
  <2>1. UpTo(F, m) = <<>>
    BY <1>5, UpToZero
  <2>2. UpTo(F, n) = F[n]
    BY <1>3, <1>4, <1>5
  <2>3. <<>> \in Seq(S) /\ F[n] = <<>> \o F[n]
    BY <1>1
  <2> QED  BY <1>0, <1>1, <2>1, <2>2, <2>3
<1>6. CASE m # 0
  <2>1. m \in Nat \ {0} /\ tt \in [1 .. m -> Seq(S)]
    BY <1>6
  <2> DEFINE gl == [i \in 1 .. m |-> fl[i]]
  <2>2. gl \in [1 .. m -> Seq(S)] /\ gl[m] = fl[m]
    BY <1>0, <1>6
  <2>3. Continues(gl, tt, m)
    <3>1. SUFFICES ASSUME NEW i \in 1 .. m
                   PROVE  gl[i] = IF i = 1 THEN tt[i] ELSE gl[i - 1] \o tt[i]
      BY Zenon DEF Continues
    <3>2. i \in 1 .. n /\ ss[i] = tt[i] /\ gl[i] = fl[i] /\ (i # 1 => gl[i - 1] = fl[i - 1])
      BY <1>0
    <3>3. fl[i] = IF i = 1 THEN ss[i] ELSE fl[i - 1] \o ss[i]
      BY <1>2, <3>2 DEF Continues
    <3> QED  BY <3>2, <3>3
  <2>4. FlattenSeq(tt) = gl[m]
    <3> HIDE DEF tt, gl
    <3> QED  BY <2>1, <2>2, <2>3, FlattenIs
  <2>5. UpTo(F, m) = fl[m]
    BY <2>2, <2>4 DEF UpTo
  <2>6. fl[m] \in Seq(S) /\ fl[n] \in Seq(S)
    BY <1>0, <1>6
  <2> QED  BY <1>0, <1>3, <1>4, <1>6, <2>5, <2>6
<1> QED  BY <1>5, <1>6

LEMMA UpToType ==
  ASSUME NEW S, NEW N \in Nat, NEW F \in [1 .. N -> Seq(S)], NEW m \in 0 .. N
  PROVE  UpTo(F, m) \in Seq(S) /\ Len(UpTo(F, m)) \in Nat
<1>1. CASE m = 0
  <2>1. UpTo(F, m) = <<>>
    BY <1>1, UpToZero
  <2> QED  BY <2>1
<1>2. CASE m # 0
  <2>1. PICK n \in 0 .. N - 1 : m = n + 1
    <3>1. m - 1 \in 0 .. N - 1 /\ m = (m - 1) + 1
      BY <1>2
    <3> QED  BY <3>1
  <2>2. UpTo(F, n + 1) \in Seq(S)
    BY UpToNext
  <2> QED  BY <2>1, <2>2
<1> QED  BY <1>1, <1>2

\* Fewer sequences are the beginning of more.
LEMMA UpToPrefix ==
  ASSUME NEW S, NEW N \in Nat, NEW F \in [1 .. N -> Seq(S)], NEW m \in 0 .. N, NEW n \in m .. N
  PROVE  /\ Len(UpTo(F, m)) <= Len(UpTo(F, n))
         /\ \A k \in 1 .. Len(UpTo(F, m)) : UpTo(F, n)[k] = UpTo(F, m)[k]
<1> DEFINE Good(i) == /\ Len(UpTo(F, m)) <= Len(UpTo(F, i))
                      /\ \A k \in 1 .. Len(UpTo(F, m)) : UpTo(F, i)[k] = UpTo(F, m)[k]
           T == {i \in m .. N : ~Good(i)}
<1>1. SUFFICES ASSUME T # {} PROVE FALSE
  <2>1. Good(n)
    BY <1>1
  <2> QED  BY <2>1
<1>2. T \in SUBSET Nat
  OBVIOUS
<1>3. PICK x \in T : \A y \in T : x <= y
  <2> HIDE DEF T
  <2> QED  BY <1>1, <1>2, LeastNumber
<1>4. x \in m .. N /\ ~Good(x)
  BY <1>3
<1>5. x # m
  <2>1. Good(m)
    BY UpToType
  <2> QED  BY <1>4, <2>1
<1>6. PICK y \in 0 .. N - 1 : x = y + 1 /\ y \in m .. N
  <2>1. x - 1 \in 0 .. N - 1 /\ x = (x - 1) + 1 /\ x - 1 \in m .. N
    BY <1>4, <1>5
  <2> QED  BY <2>1
<1>7. Good(y)
  <2>1. ~(x <= y)
    BY <1>6
  <2> QED  BY <1>3, <1>6, <2>1
<1>8. UpTo(F, y) \in Seq(S) /\ F[y + 1] \in Seq(S) /\ UpTo(F, y + 1) = UpTo(F, y) \o F[y + 1]
  <2>1. F[y + 1] \in Seq(S)
    BY <1>6
  <2> QED  BY <2>1, UpToNext, ZenonT(60)
<1>9. /\ Len(UpTo(F, y + 1)) = Len(UpTo(F, y)) + Len(F[y + 1])
      /\ Len(UpTo(F, y)) \in Nat /\ Len(F[y + 1]) \in Nat
      /\ \A k \in 1 .. Len(UpTo(F, y)) : UpTo(F, y + 1)[k] = UpTo(F, y)[k]
  BY <1>8, ConcatFacts
<1>10. Len(UpTo(F, m)) \in Nat
  BY UpToType
<1>11. Good(x)
  <2>1. Len(UpTo(F, m)) <= Len(UpTo(F, x))
    BY <1>6, <1>7, <1>9, <1>10
  <2>2. ASSUME NEW k \in 1 .. Len(UpTo(F, m)) PROVE UpTo(F, x)[k] = UpTo(F, m)[k]
    <3>1. k \in 1 .. Len(UpTo(F, y))
      BY <1>7, <1>9, <1>10
    <3> QED  BY <1>6, <1>7, <1>9, <3>1
  <2> QED  BY <2>1, <2>2
<1> QED  BY <1>4, <1>11

----------------------------------------------------------------------------
(***************************************************************************)
(* Numbers, sequences and places.                                          *)
(***************************************************************************)

\* The smaller and the greater of two numbers.
LEMMA MinOfTwo ==
  ASSUME NEW a \in Int, NEW b \in Int
  PROVE  Min({a, b}) = IF a <= b THEN a ELSE b
<1>1. \E x \in {a, b} : \A y \in {a, b} : x <= y
  OBVIOUS
<1>2. Min({a, b}) \in {a, b} /\ \A y \in {a, b} : Min({a, b}) <= y
  BY <1>1 DEF Min
<1> QED  BY <1>2

LEMMA MaxOfTwo ==
  ASSUME NEW a \in Int, NEW b \in Int
  PROVE  Max({a, b}) = IF a >= b THEN a ELSE b
<1>1. \E x \in {a, b} : \A y \in {a, b} : x >= y
  OBVIOUS
<1>2. Max({a, b}) \in {a, b} /\ \A y \in {a, b} : Max({a, b}) >= y
  BY <1>1 DEF Max
<1> QED  BY <1>2

LEMMA LeastIs ==
  ASSUME NEW T \in SUBSET Nat, NEW x \in T, \A y \in T : x <= y
  PROVE  Min(T) = x
<1>1. Min(T) \in T /\ \A y \in T : Min(T) <= y
  BY DEF Min
<1>2. Min(T) \in Nat /\ x \in Nat /\ Min(T) <= x /\ x <= Min(T)
  BY <1>1
<1> QED  BY <1>2

LEMMA SuffixFacts ==
  ASSUME NEW S, NEW s \in Seq(S), NEW n \in 0 .. Len(s)
  PROVE  /\ Taken(s, n) \in Seq(S)
         /\ Len(Taken(s, n)) = Len(s) - n /\ Len(s) \in Nat
         /\ \A k \in 1 .. (Len(s) - n) : Taken(s, n)[k] = s[n + k]
  BY DEF Taken

\* The items of links that grow by m.
LEMMA GrownFacts ==
  ASSUME NEW S, NEW s \in Seq(S), NEW m \in Nat, NEW new \in [1 .. m -> S]
  PROVE  /\ s \o new \in Seq(S) /\ Len(s \o new) = Len(s) + m /\ Len(s) \in Nat
         /\ \A k \in 1 .. Len(s) : (s \o new)[k] = s[k]
         /\ \A k \in 1 .. m : (s \o new)[Len(s) + k] = new[k]
<1>1. new \in Seq(S) /\ Len(new) = m
  OBVIOUS
<1>2. new \in Seq(S)
  BY <1>1
<1>3. /\ s \o new \in Seq(S) /\ Len(s \o new) = Len(s) + Len(new) /\ Len(s) \in Nat
      /\ \A k \in 1 .. Len(s) : (s \o new)[k] = s[k]
      /\ \A k \in 1 .. Len(new) : (s \o new)[Len(s) + k] = new[k]
  BY <1>2, ConcatFacts
<1> QED  BY <1>1, <1>3

\* The number of items of a frame is not 0.
Sizes == [Frames -> Nat \ {0}]

LEMMA PlaceFacts ==
  ASSUME NEW size \in Sizes, NEW f \in Frames, NEW n \in Nat, n <= size[f]
  PROVE  /\ After(size, f, n) \in PlacesOf(size)
         /\ size[f] \in Nat \ {0} /\ f \in Nat /\ f + 1 # f
         /\ After(size, f, n).n = IF n = size[f] THEN 0 ELSE n
         /\ After(size, f, n).frame = IF n = size[f] THEN f + 1 ELSE f
<1>1. NFrames \in Nat
  BY TxAssumption
<1>2. size[f] \in Nat \ {0} /\ f \in Nat /\ f + 1 # f /\ f \in 1 .. NFrames + 1 /\ f # NFrames + 1
      /\ f + 1 \in 1 .. NFrames + 1
  BY <1>1 DEF Sizes, Frames
<1>3. CASE n = size[f]
  <2>1. After(size, f, n) = [frame |-> f + 1, n |-> 0]
    BY <1>3 DEF After, Place
  <2>2. f + 1 # NFrames + 1 => 0 < size[f + 1]
    <3> SUFFICES ASSUME f + 1 # NFrames + 1 PROVE 0 < size[f + 1]
      OBVIOUS
    <3>1. f + 1 \in Frames
      BY <1>1, <1>2 DEF Frames
    <3>2. size[f + 1] \in Nat \ {0}
      BY <3>1 DEF Sizes
    <3> QED  BY <3>2
  <2>3. [frame |-> f + 1, n |-> 0] \in PlacesOf(size)
    BY <1>2, <2>2 DEF PlacesOf
  <2> QED  BY <1>2, <1>3, <2>1, <2>3
<1>4. CASE n # size[f]
  <2>1. After(size, f, n) = [frame |-> f, n |-> n]
    BY <1>4 DEF After, Place
  <2>2. [frame |-> f, n |-> n] \in PlacesOf(size)
    BY <1>2, <1>4 DEF PlacesOf
  <2> QED  BY <1>2, <1>4, <2>1, <2>2
<1> QED  BY <1>3, <1>4

\* A place of a frame is one of its items.
LEMMA PlaceOfItem ==
  ASSUME NEW size \in Sizes, NEW q \in PlacesOf(size)
  PROVE  /\ q = Place(q.frame, q.n) /\ q.frame \in Nat /\ q.n \in Nat
         /\ q.frame \in Frames \/ q = Place(NFrames + 1, 0)
         /\ q.frame \in Frames => q.n < size[q.frame] /\ size[q.frame] \in Nat \ {0}
<1>1. NFrames \in Nat
  BY TxAssumption
<1>2. q \in [frame : 1 .. NFrames + 1, n : Nat]
      /\ IF q.frame = NFrames + 1 THEN q.n = 0 ELSE q.n < size[q.frame]
  BY DEF PlacesOf
<1>3. q = [frame |-> q.frame, n |-> q.n] /\ q.frame \in 1 .. NFrames + 1 /\ q.n \in Nat
  BY <1>2
<1>4. q.frame \in Frames <=> q.frame # NFrames + 1
  BY <1>1, <1>3 DEF Frames
<1>5. q.frame \in Frames => size[q.frame] \in Nat \ {0}
  BY DEF Sizes
<1> QED  BY <1>1, <1>2, <1>3, <1>4, <1>5 DEF Place

\* The items of a frame that were there follow each other, and new ones follow them.
Extended(pl, pl2, L, m, f, n, size) ==
  /\ pl[L + 1] = Place(f, n) /\ n + m <= size[f]
  /\ \A k \in 1 .. L : pl2[k] = pl[k]
  /\ \A k \in 1 .. m : pl2[L + k] = Place(f, n + k - 1)
  /\ pl2[L + m + 1] = After(size, f, n + m)

LEMMA AppendOrdered ==
  ASSUME NEW size \in Sizes, NEW L \in Nat, NEW pl, Ordered(pl, L, size),
         NEW f \in Frames, NEW n \in Nat, NEW m \in Nat, NEW pl2, Extended(pl, pl2, L, m, f, n, size)
  PROVE  Ordered(pl2, L + m, size) /\ pl2[1] = pl[1]
<1>0. /\ pl[L + 1] = Place(f, n) /\ n + m <= size[f]
      /\ \A k \in 1 .. L : pl2[k] = pl[k]
      /\ \A k \in 1 .. m : pl2[L + k] = Place(f, n + k - 1)
      /\ pl2[L + m + 1] = After(size, f, n + m)
  BY DEF Extended
<1> USE <1>0
<1>1. n < size[f] /\ size[f] \in Nat \ {0}
  <2>1. pl[L + 1] \in PlacesOf(size)
    BY DEF Ordered
  <2>2. Place(f, n).frame = f /\ Place(f, n).n = n
    BY DEF Place
  <2> QED  BY <2>1, <2>2, PlaceOfItem
<1>2. \A d \in 0 .. m : pl2[L + 1 + d] = After(size, f, n + d)
  <2> SUFFICES ASSUME NEW d \in 0 .. m PROVE pl2[L + 1 + d] = After(size, f, n + d)
    OBVIOUS
  <2>1. CASE d = m
    <3>1. L + 1 + d = L + m + 1
      BY <2>1
    <3> QED  BY <2>1, <3>1
  <2>2. CASE d # m
    <3>1. d + 1 \in 1 .. m /\ L + 1 + d = L + (d + 1) /\ n + (d + 1) - 1 = n + d
      BY <2>2
    <3>2. pl2[L + (d + 1)] = Place(f, n + (d + 1) - 1)
      BY <3>1
    <3>3. n + d # size[f]
      BY <1>1, <2>2
    <3> QED  BY <3>1, <3>2, <3>3 DEF After
  <2> QED  BY <2>1, <2>2
<1>3. \A d \in 0 .. m : d < m => pl2[L + 1 + d] = Place(f, n + d)
  <2> SUFFICES ASSUME NEW d \in 0 .. m, d < m PROVE pl2[L + 1 + d] = Place(f, n + d)
    OBVIOUS
  <2>1. n + d # size[f]
    BY <1>1
  <2> QED  BY <1>2, <2>1 DEF After
<1>4. pl2[L + 1] = pl[L + 1]
  <2>1. pl2[L + 1 + 0] = After(size, f, n + 0) /\ L + 1 + 0 = L + 1 /\ n + 0 = n /\ n # size[f]
    BY <1>1, <1>2
  <2> QED  BY <2>1 DEF After
<1>5. \A k \in 1 .. L + 1 : pl2[k] = pl[k]
  BY <1>4
<1>6. ASSUME NEW k \in 1 .. L + m + 1 PROVE pl2[k] \in PlacesOf(size)
  <2>1. CASE k \in 1 .. L
    BY <1>5, <2>1 DEF Ordered
  <2>2. CASE k \notin 1 .. L
    <3>1. k - L - 1 \in 0 .. m /\ k = L + 1 + (k - L - 1) /\ n + (k - L - 1) \in Nat
          /\ n + (k - L - 1) <= size[f]
      BY <1>1, <2>2
    <3>2. pl2[k] = After(size, f, n + (k - L - 1))
      BY <1>2, <3>1
    <3> QED  BY <3>1, <3>2, PlaceFacts
  <2> QED  BY <2>1, <2>2
<1>7. ASSUME NEW k \in 1 .. L + m PROVE pl2[k].frame \in Frames
  <2>1. CASE k \in 1 .. L
    BY <1>5, <2>1 DEF Ordered
  <2>2. CASE k \notin 1 .. L
    <3>1. k - L - 1 \in 0 .. m /\ k = L + 1 + (k - L - 1) /\ k - L - 1 < m
      BY <2>2
    <3>2. pl2[k] = Place(f, n + (k - L - 1))
      BY <1>3, <3>1
    <3> QED  BY <3>2 DEF Place
  <2> QED  BY <2>1, <2>2
<1>8. ASSUME NEW k \in 1 .. L + m, NEW j \in Nat,
             j <= size[pl2[k].frame] - pl2[k].n, k + j <= L + m + 1
      PROVE  pl2[k + j] = After(size, pl2[k].frame, pl2[k].n + j)
  <2>1. CASE k \in 1 .. L
    <3>1. PICK g \in Frames, w \in Nat : pl[k] = Place(g, w) /\ w < size[g] /\ size[g] \in Nat
      <4>1. pl[k] \in PlacesOf(size) /\ pl[k].frame \in Frames
        BY <2>1 DEF Ordered
      <4> QED  BY <4>1, PlaceOfItem
    <3>2. pl2[k].frame = g /\ pl2[k].n = w /\ pl[k].frame = g /\ pl[k].n = w /\ pl2[k] = pl[k]
      BY <1>5, <2>1, <3>1 DEF Place
    <3>3. \A i \in Nat : i <= size[g] - w /\ k + i <= L + 1 => pl[k + i] = After(size, g, w + i)
      BY <2>1, <3>2 DEF Ordered
    <3>4. CASE k + j <= L + 1
      <4>1. k + j \in 1 .. L + 1
        BY <3>4
      <4>2. pl[k + j] = After(size, g, w + j)
        BY <1>8, <3>2, <3>3, <3>4
      <4> QED  BY <1>5, <3>2, <4>1, <4>2
    <3>5. CASE ~(k + j <= L + 1)
      <4>1. PICK i \in Nat : k + i = L + 1 /\ i < j /\ i >= 1
        <5>1. L + 1 - k \in Nat /\ k + (L + 1 - k) = L + 1 /\ L + 1 - k < j /\ L + 1 - k >= 1
          BY <2>1, <3>5
        <5> QED  BY <5>1
      <4>2. i < size[g] - w
        BY <1>8, <3>1, <3>2, <4>1
      <4>3. pl[L + 1] = After(size, g, w + i)
        <5>1. i <= size[g] - w /\ k + i <= L + 1
          BY <3>1, <4>1, <4>2
        <5> QED  BY <3>3, <4>1, <5>1
      <4>4. After(size, g, w + i) = Place(g, w + i)
        <5>1. w + i # size[g]
          BY <3>1, <4>2
        <5> QED  BY <5>1 DEF After
      <4>5. f = g /\ n = w + i
        BY <4>3, <4>4 DEF Place
      <4>6. PICK d \in 0 .. m : k + j = L + 1 + d /\ w + j = n + d
        <5>1. j - i \in 0 .. m /\ k + j = L + 1 + (j - i) /\ w + j = n + (j - i)
          BY <1>8, <4>1, <4>5
        <5> QED  BY <5>1
      <4> QED  BY <1>2, <3>2, <4>5, <4>6
    <3> QED  BY <3>4, <3>5
  <2>2. CASE k \notin 1 .. L
    <3>1. PICK d \in 0 .. m : k = L + 1 + d /\ d < m
      <4>1. k - L - 1 \in 0 .. m /\ k = L + 1 + (k - L - 1) /\ k - L - 1 < m
        BY <2>2
      <4> QED  BY <4>1
    <3>2. pl2[k] = Place(f, n + d)
      BY <1>3, <3>1
    <3>3. pl2[k].frame = f /\ pl2[k].n = n + d
      BY <3>2 DEF Place
    <3>4. d + j \in 0 .. m /\ k + j = L + 1 + (d + j) /\ n + d + j = n + (d + j)
      BY <1>8, <3>1
    <3> QED  BY <1>2, <3>3, <3>4
  <2> QED  BY <2>1, <2>2
<1> QED  BY <1>5, <1>6, <1>7, <1>8 DEF Ordered

\* When the first n items are taken the others follow each other as before.
LEMMA TakenOrdered ==
  ASSUME NEW size \in Sizes, NEW L \in Nat, NEW pl, Ordered(pl, L, size),
         NEW n \in 0 .. L, NEW pl2, \A k \in 1 .. L - n + 1 : pl2[k] = pl[n + k]
  PROVE  Ordered(pl2, L - n, size)
<1>1. ASSUME NEW k \in 1 .. L - n + 1 PROVE pl2[k] \in PlacesOf(size)
  <2>1. n + k \in 1 .. L + 1 /\ pl2[k] = pl[n + k]
    OBVIOUS
  <2> QED  BY <2>1 DEF Ordered
<1>2. ASSUME NEW k \in 1 .. L - n
      PROVE  /\ pl2[k].frame \in Frames
             /\ \A j \in Nat : j <= size[pl2[k].frame] - pl2[k].n /\ k + j <= L - n + 1 =>
                  pl2[k + j] = After(size, pl2[k].frame, pl2[k].n + j)
  <2>1. pl2[k] = pl[n + k] /\ n + k \in 1 .. L
    OBVIOUS
  <2>2. pl2[k].frame \in Frames
    BY <2>1 DEF Ordered
  <2>3. ASSUME NEW j \in Nat, j <= size[pl2[k].frame] - pl2[k].n, k + j <= L - n + 1
        PROVE  pl2[k + j] = After(size, pl2[k].frame, pl2[k].n + j)
    <3>1. k + j \in 1 .. L - n + 1 /\ n + (k + j) = n + k + j /\ n + k + j <= L + 1
      BY <2>3
    <3>2. pl2[k + j] = pl[n + k + j]
      BY <3>1
    <3>3. pl[n + k + j] = After(size, pl[n + k].frame, pl[n + k].n + j)
      BY <2>1, <2>3, <3>1 DEF Ordered
    <3> QED  BY <2>1, <3>2, <3>3
  <2> QED  BY <2>2, <2>3
<1> QED  BY <1>1, <1>2 DEF Ordered

\* The first items of a link are of one frame, one after the other.
LEMMA FirstOrdered ==
  ASSUME NEW size \in Sizes, NEW L \in Nat \ {0}, NEW pl, Ordered(pl, L, size)
  PROVE  \E f \in Frames, n \in Nat :
           /\ pl[1] = Place(f, n) /\ n < size[f] /\ size[f] \in Nat \ {0}
           /\ \A j \in 0 .. L : j <= size[f] - n => pl[1 + j] = After(size, f, n + j)
           /\ \A j \in 0 .. L : j < size[f] - n => pl[1 + j] = Place(f, n + j)
<1>1. PICK f \in Frames, n \in Nat : pl[1] = Place(f, n) /\ n < size[f] /\ size[f] \in Nat \ {0}
  <2>1. 1 \in 1 .. L + 1 /\ 1 \in 1 .. L
    OBVIOUS
  <2>2. pl[1] \in PlacesOf(size) /\ pl[1].frame \in Frames
    BY <2>1 DEF Ordered
  <2> QED  BY <2>2, PlaceOfItem
<1>2. ASSUME NEW j \in 0 .. L, j <= size[f] - n PROVE pl[1 + j] = After(size, f, n + j)
  <2>1. pl[1].frame = f /\ pl[1].n = n /\ 1 \in 1 .. L /\ 1 + j <= L + 1 /\ j \in Nat
    BY <1>1 DEF Place
  <2> QED  BY <1>2, <2>1 DEF Ordered
<1>3. ASSUME NEW j \in 0 .. L, j < size[f] - n PROVE pl[1 + j] = Place(f, n + j)
  <2>1. j <= size[f] - n /\ n + j # size[f]
    BY <1>1, <1>3
  <2> QED  BY <1>2, <2>1 DEF After
<1> QED  BY <1>1, <1>2, <1>3

\* A tag is on the first item of each frame only: a window is the rest of a frame, or all there is.
LEMMA WindowIs ==
  ASSUME NEW size \in Sizes, NEW link, NEW L \in Nat \ {0}, Len(link) = L,
         NEW pl, Ordered(pl, L, size),
         \A k \in 1 .. L : link[k].len # 0 <=> pl[k].n = 0,
         NEW f \in Frames, NEW n \in Nat, pl[1] = Place(f, n)
  PROVE  /\ Window(link) = IF L <= size[f] - n THEN L ELSE size[f] - n
         /\ size[f] \in Nat \ {0} /\ n < size[f]
         /\ \A j \in 0 .. L : j <= size[f] - n => pl[1 + j] = After(size, f, n + j)
         /\ \A j \in 0 .. L : j < size[f] - n => pl[1 + j] = Place(f, n + j)
<1>1. /\ n < size[f] /\ size[f] \in Nat \ {0}
      /\ \A j \in 0 .. L : j <= size[f] - n => pl[1 + j] = After(size, f, n + j)
      /\ \A j \in 0 .. L : j < size[f] - n => pl[1 + j] = Place(f, n + j)
  <2>1. PICK g \in Frames, w \in Nat :
           /\ pl[1] = Place(g, w) /\ w < size[g] /\ size[g] \in Nat \ {0}
           /\ \A j \in 0 .. L : j <= size[g] - w => pl[1 + j] = After(size, g, w + j)
           /\ \A j \in 0 .. L : j < size[g] - w => pl[1 + j] = Place(g, w + j)
    BY FirstOrdered
  <2>2. g = f /\ w = n
    BY <2>1 DEF Place
  <2> QED  BY <2>1, <2>2
<1> DEFINE next == {k \in 2 .. Len(link) : link[k].len # 0}
<1>2. ASSUME NEW k \in 2 .. L, k - 1 < size[f] - n PROVE link[k].len = 0
  <2>1. k - 1 \in 0 .. L /\ 1 + (k - 1) = k /\ n + (k - 1) # 0 /\ k \in 1 .. L
    OBVIOUS
  <2>2. pl[k] = Place(f, n + (k - 1))
    BY <1>1, <1>2, <2>1
  <2>3. pl[k].n # 0
    BY <2>1, <2>2 DEF Place
  <2> QED  BY <2>1, <2>3
<1>3. CASE L <= size[f] - n
  <2>1. next = {}
    <3> SUFFICES ASSUME NEW k \in 2 .. L PROVE link[k].len = 0
      OBVIOUS
    <3>1. k - 1 < size[f] - n
      BY <1>1, <1>3
    <3> QED  BY <1>2, <3>1
  <2>2. Window(link) = Len(link)
    BY <2>1 DEF Window
  <2> QED  BY <1>1, <1>3, <2>2
<1>4. CASE ~(L <= size[f] - n)
  <2>1. PICK r \in Nat \ {0} : r = size[f] - n /\ r < L
    <3>1. size[f] - n \in Nat \ {0} /\ size[f] - n < L
      BY <1>1, <1>4
    <3> QED  BY <3>1
  <2>2. r + 1 \in next
    <3>0. r = size[f] - n /\ r < L /\ size[f] \in Nat
      BY <1>1, <2>1
    <3> HIDE DEF next
    <3>1. r \in 0 .. L /\ r <= size[f] - n /\ n + r = size[f] /\ 1 + r = r + 1
          /\ r + 1 \in 2 .. L /\ r + 1 \in 1 .. L
      BY <3>0, SMTT(60)
    <3>2. pl[r + 1] = Place(f + 1, 0)
      BY <1>1, <3>1 DEF After
    <3>3. pl[r + 1].n = 0
      BY <3>2 DEF Place
    <3> QED  BY <3>1, <3>3 DEF next
  <2>3. ASSUME NEW k \in next PROVE r + 1 <= k
    <3>1. k \in 2 .. L /\ link[k].len # 0
      OBVIOUS
    <3>2. ~(k - 1 < size[f] - n)
      BY <1>2, <3>1
    <3> QED  BY <2>1, <3>1, <3>2
  <2>4. next \in SUBSET Nat /\ next # {}
    <3>1. next \in SUBSET Nat
      OBVIOUS
    <3> QED  BY <2>2, <3>1, Zenon
  <2>5. Min(next) = r + 1
    <3> HIDE DEF next
    <3> QED  BY <2>2, <2>3, <2>4, LeastIs
  <2>6. Window(link) = Min(next) - 1
    BY <2>4 DEF Window
  <2>7. r + 1 - 1 = r
    BY <2>1
  <2> HIDE DEF next
  <2> QED  BY <1>1, <1>4, <2>1, <2>5, <2>6, <2>7
<1> QED  BY <1>3, <1>4

----------------------------------------------------------------------------
(***************************************************************************)
(* The frames: their nibbles, blocks and symbols.                          *)
(***************************************************************************)

LEMMA ParamFacts ==
  ASSUME NEW p \in Parameters
  PROVE  /\ p.impl_head \in BOOLEAN /\ p.has_crc \in BOOLEAN /\ p.cr \in 0 .. 4
         /\ p.payloads \in [Frames -> 1 .. 255]
         /\ HLen(p) = IF p.impl_head THEN 0 ELSE 5
         /\ CLen(p) = IF p.has_crc THEN 4 ELSE 0
         /\ HLen(p) \in {0, 5} /\ CLen(p) \in {0, 4}
         /\ SF \in 7 .. 12 /\ NFrames \in Nat
<1>1. /\ p.impl_head \in BOOLEAN /\ p.has_crc \in BOOLEAN /\ p.cr \in CodingRates
      /\ p.payloads \in [1 .. NFrames -> PayloadLens]
  BY DEF Parameters
<1>2. CodingRates \subseteq 0 .. 4 /\ PayloadLens \subseteq 1 .. 255 /\ SF \in 7 .. 12 /\ NFrames \in Nat
  BY TxAssumption
<1>3. p.payloads \in [Frames -> 1 .. 255]
  BY <1>1, <1>2, ZenonT(60) DEF Frames
<1> QED  BY <1>1, <1>2, <1>3, ZenonT(60) DEF HLen, CLen

LEMMA FrameFacts ==
  ASSUME NEW p \in Parameters, NEW f \in Frames
  PROVE  /\ p.payloads[f] \in 1 .. 255 /\ PayLen(p, f) = 2 * p.payloads[f]
         /\ PayLen(p, f) \in 2 .. 510
         /\ HeadedLen(p, f) = HLen(p) + PayLen(p, f) /\ HeadedLen(p, f) \in 2 .. 515
         /\ FrameLen(p, f) = HeadedLen(p, f) + CLen(p) /\ FrameLen(p, f) \in 2 .. 519
         /\ f \in Nat
<1>1. p.payloads[f] \in 1 .. 255 /\ HLen(p) \in {0, 5} /\ CLen(p) \in {0, 4} /\ f \in Nat
  <2>1. p.payloads \in [Frames -> 1 .. 255] /\ HLen(p) \in {0, 5} /\ CLen(p) \in {0, 4} /\ NFrames \in Nat
    BY ParamFacts
  <2>2. f \in Nat
    BY <2>1 DEF Frames
  <2> QED  BY <2>1, <2>2
<1>2. PayLen(p, f) = 2 * p.payloads[f]
  BY DEF PayLen
<1>3. PayLen(p, f) \in 2 .. 510
  BY <1>1, <1>2
<1>4. HeadedLen(p, f) = HLen(p) + PayLen(p, f) /\ FrameLen(p, f) = HeadedLen(p, f) + CLen(p)
  BY DEF HeadedLen, FrameLen
<1>5. HeadedLen(p, f) \in 2 .. 515
  BY <1>1, <1>3, <1>4
<1>6. FrameLen(p, f) \in 2 .. 519
  BY <1>1, <1>4, <1>5, SMTT(60)
<1> QED  BY <1>1, <1>2, <1>3, <1>4, <1>5, <1>6

LEMMA NibbleTypes ==
  ASSUME NEW part \in {"hdr", "pay", "crc"}, NEW i \in Nat, NEW about \in Seq(Nat)
  PROVE  /\ Nibble(part, i, about) \in NibbleSet
         /\ Nibble(part, i, about).part = part /\ Nibble(part, i, about).i = i
         /\ Nibble(part, i, about).about = about
  BY DEF Nibble, NibbleSet

LEMMA CrcNibbleType ==
  ASSUME NEW p \in Parameters, NEW f \in Frames, NEW i \in Nat
  PROVE  CrcNibble(p, f, i) \in NibbleSet /\ CrcNibble(p, f, i).part = "crc" /\ CrcNibble(p, f, i).i = i
<1>1. f \in Nat /\ <<f>> \in Seq(Nat) /\ 0 \in Nat
  BY DEF Frames
<1>2. Append(<<f>>, 0) \in Seq(Nat)
  BY <1>1
<1>3. CrcSource(<<f>>, p.payloads, i) \in Seq(Nat)
  BY <1>1, <1>2, Zenon DEF CrcSource, Stray
<1> QED  BY <1>3, NibbleTypes DEF CrcNibble

\* What the nibbles of a frame are.
LEMMA NibblesFacts ==
  ASSUME NEW p \in Parameters, NEW f \in Frames
  PROVE  /\ NibblesOf(p, f) \in Seq(NibbleSet) /\ Len(NibblesOf(p, f)) = FrameLen(p, f)
         /\ \A i \in 0 .. HLen(p) - 1 : NibbleOf(p, f, i) = Nibble("hdr", i, <<p.payloads[f]>>)
         /\ \A i \in 0 .. PayLen(p, f) - 1 : NibbleOf(p, f, HLen(p) + i) = Nibble("pay", i, <<>>)
         /\ \A i \in 0 .. CLen(p) - 1 : NibbleOf(p, f, HeadedLen(p, f) + i) = CrcNibble(p, f, i)
<1> DEFINE hdr == IF p.impl_head THEN <<>>
                  ELSE [i \in 1 .. 5 |-> Nibble("hdr", i - 1, <<p.payloads[f]>>)]
           pay == [i \in 1 .. 2 * p.payloads[f] |-> Nibble("pay", i - 1, <<>>)]
           crc == IF p.has_crc THEN [i \in 1 .. 4 |-> CrcNibble(p, f, i - 1)] ELSE <<>>
<1> DEFINE H == HLen(p)
           Y == PayLen(p, f)
           C == CLen(p)
<1>1. /\ p.payloads[f] \in 1 .. 255 /\ f \in Nat /\ H \in {0, 5} /\ C \in {0, 4}
      /\ Y \in 2 .. 510 /\ Y = 2 * p.payloads[f]
      /\ H = (IF p.impl_head THEN 0 ELSE 5) /\ C = (IF p.has_crc THEN 4 ELSE 0)
      /\ HeadedLen(p, f) = H + Y /\ FrameLen(p, f) = H + Y + C
      /\ p.impl_head \in BOOLEAN /\ p.has_crc \in BOOLEAN
  <2>1. FrameLen(p, f) = HeadedLen(p, f) + C /\ HeadedLen(p, f) = H + Y
    BY FrameFacts
  <2> QED  BY <2>1, FrameFacts, ParamFacts
<1> HIDE DEF H, Y, C
<1>2. \A i \in 1 .. 510 : Nibble("hdr", i - 1, <<p.payloads[f]>>) \in NibbleSet
                          /\ Nibble("pay", i - 1, <<>>) \in NibbleSet
                          /\ CrcNibble(p, f, i - 1) \in NibbleSet
  <2> SUFFICES ASSUME NEW i \in 1 .. 510
               PROVE  /\ Nibble("hdr", i - 1, <<p.payloads[f]>>) \in NibbleSet
                      /\ Nibble("pay", i - 1, <<>>) \in NibbleSet
                      /\ CrcNibble(p, f, i - 1) \in NibbleSet
    BY Zenon
  <2>1. i - 1 \in Nat /\ <<>> \in Seq(Nat) /\ <<p.payloads[f]>> \in Seq(Nat)
    BY <1>1, SMTT(60)
  <2>2. CrcNibble(p, f, i - 1) \in NibbleSet
    BY <2>1, CrcNibbleType
  <2> QED  BY <2>1, <2>2, NibbleTypes
<1>3. hdr \in Seq(NibbleSet) /\ Len(hdr) = H
      /\ \A k \in 1 .. H : hdr[k] = Nibble("hdr", k - 1, <<p.payloads[f]>>)
  <2>1. CASE ~p.impl_head
    <3>1. H = 5 /\ hdr = [k \in 1 .. 5 |-> Nibble("hdr", k - 1, <<p.payloads[f]>>)]
      BY <1>1, <2>1
    <3> HIDE DEF hdr
    <3> QED  BY <1>2, <3>1
  <2>2. CASE p.impl_head
    <3>1. H = 0 /\ hdr = <<>>
      BY <1>1, <2>2
    <3> HIDE DEF hdr
    <3> QED  BY <3>1
  <2> QED  BY <2>1, <2>2
<1>4. pay \in Seq(NibbleSet) /\ Len(pay) = Y /\ \A k \in 1 .. Y : pay[k] = Nibble("pay", k - 1, <<>>)
  <2>1. pay = [k \in 1 .. Y |-> Nibble("pay", k - 1, <<>>)]
    BY <1>1
  <2>2. Y \in Nat /\ \A k \in 1 .. Y : Nibble("pay", k - 1, <<>>) \in NibbleSet
    <3>1. Y \in 2 .. 510
      BY <1>1
    <3>2. ASSUME NEW k \in 1 .. Y PROVE Nibble("pay", k - 1, <<>>) \in NibbleSet
      <4>1. k \in 1 .. 510
        BY <3>1
      <4> QED  BY <1>2, <4>1, Zenon
    <3> QED  BY <3>1, <3>2
  <2> HIDE DEF pay
  <2> QED  BY <2>1, <2>2
<1>5. crc \in Seq(NibbleSet) /\ Len(crc) = C /\ \A k \in 1 .. C : crc[k] = CrcNibble(p, f, k - 1)
  <2>1. CASE p.has_crc
    <3>1. C = 4 /\ crc = [k \in 1 .. 4 |-> CrcNibble(p, f, k - 1)]
      BY <1>1, <2>1
    <3> HIDE DEF crc
    <3> QED  BY <1>2, <3>1
  <2>2. CASE ~p.has_crc
    <3>1. C = 0 /\ crc = <<>>
      BY <1>1, <2>2
    <3> HIDE DEF crc
    <3> QED  BY <3>1
  <2> QED  BY <2>1, <2>2
<1>6. NibblesOf(p, f) = hdr \o pay \o crc
  BY DEF NibblesOf, CrcNibble
<1> HIDE DEF hdr, pay, crc
<1>7. /\ hdr \o pay \in Seq(NibbleSet) /\ Len(hdr \o pay) = H + Y
      /\ \A k \in 1 .. H : (hdr \o pay)[k] = hdr[k]
      /\ \A k \in 1 .. Y : (hdr \o pay)[H + k] = pay[k]
  <2>1. hdr \in Seq(NibbleSet) /\ pay \in Seq(NibbleSet)
    BY <1>3, <1>4
  <2>2. /\ hdr \o pay \in Seq(NibbleSet) /\ Len(hdr \o pay) = Len(hdr) + Len(pay)
        /\ \A k \in 1 .. Len(hdr) : (hdr \o pay)[k] = hdr[k]
        /\ \A k \in 1 .. Len(pay) : (hdr \o pay)[Len(hdr) + k] = pay[k]
    BY <2>1, ConcatFacts
  <2> QED  BY <1>3, <1>4, <2>2
<1>8. /\ NibblesOf(p, f) \in Seq(NibbleSet) /\ Len(NibblesOf(p, f)) = H + Y + C
      /\ \A k \in 1 .. H + Y : NibblesOf(p, f)[k] = (hdr \o pay)[k]
      /\ \A k \in 1 .. C : NibblesOf(p, f)[H + Y + k] = crc[k]
  <2> DEFINE s == hdr \o pay
  <2>1. Len(s) = H + Y /\ Len(crc) = C
    BY <1>5, <1>7
  <2>0. s \in Seq(NibbleSet) /\ crc \in Seq(NibbleSet)
    BY <1>5, <1>7
  <2>2. NibblesOf(p, f) = s \o crc
    BY <1>6
  <2> HIDE DEF s
  <2>3. /\ s \o crc \in Seq(NibbleSet) /\ Len(s \o crc) = Len(s) + Len(crc)
        /\ \A k \in 1 .. Len(s) : (s \o crc)[k] = s[k]
        /\ \A k \in 1 .. Len(crc) : (s \o crc)[Len(s) + k] = crc[k]
    BY <2>0, ConcatFacts
  <2>4. /\ NibblesOf(p, f) \in Seq(NibbleSet) /\ Len(NibblesOf(p, f)) = H + Y + C
        /\ \A k \in 1 .. H + Y : NibblesOf(p, f)[k] = s[k]
        /\ \A k \in 1 .. C : NibblesOf(p, f)[H + Y + k] = crc[k]
    BY <2>1, <2>2, <2>3
  <2> QED  BY <2>4 DEF s
<1>9. ASSUME NEW i \in 0 .. H - 1 PROVE NibbleOf(p, f, i) = Nibble("hdr", i, <<p.payloads[f]>>)
  <2>1. i + 1 \in 1 .. H /\ i + 1 \in 1 .. H + Y /\ i + 1 - 1 = i
    BY <1>1, SMTT(60)
  <2>2. NibblesOf(p, f)[i + 1] = hdr[i + 1]
    BY <1>7, <1>8, <2>1
  <2> QED  BY <1>3, <2>1, <2>2 DEF NibbleOf
<1>10. ASSUME NEW i \in 0 .. Y - 1 PROVE NibbleOf(p, f, H + i) = Nibble("pay", i, <<>>)
  <2>1. i + 1 \in 1 .. Y /\ H + i + 1 \in 1 .. H + Y /\ i + 1 - 1 = i /\ H + i + 1 = H + (i + 1)
    BY <1>1
  <2>2. NibblesOf(p, f)[H + i + 1] = pay[i + 1]
    BY <1>7, <1>8, <2>1, SMTT(60)
  <2> QED  BY <1>4, <2>1, <2>2 DEF NibbleOf
<1>11. ASSUME NEW i \in 0 .. C - 1 PROVE NibbleOf(p, f, H + Y + i) = CrcNibble(p, f, i)
  <2>1. i + 1 \in 1 .. C /\ i + 1 - 1 = i /\ H + Y + i + 1 = H + Y + (i + 1)
    BY <1>1, SMTT(60)
  <2>2. NibblesOf(p, f)[H + Y + i + 1] = crc[i + 1]
    BY <1>8, <2>1
  <2> QED  BY <1>5, <2>1, <2>2 DEF NibbleOf
<1> QED  BY <1>1, <1>8, <1>9, <1>10, <1>11 DEF H, Y, C

\* An item says which nibble of its frame it is.
LEMMA NibbleIndexIs ==
  ASSUME NEW p \in Parameters, NEW f \in Frames, NEW n \in 0 .. FrameLen(p, f) - 1,
         NEW item, item.frame = f, item.nibble = NibbleOf(p, f, n)
  PROVE  NibbleIndex(p, item) = n /\ NibbleOf(p, f, n) \in NibbleSet
<1>1. /\ p.payloads[f] \in 1 .. 255 /\ PayLen(p, f) \in 2 .. 510 /\ HLen(p) \in {0, 5}
      /\ CLen(p) \in {0, 4} /\ FrameLen(p, f) = HeadedLen(p, f) + CLen(p) /\ f \in Nat
      /\ HeadedLen(p, f) = HLen(p) + PayLen(p, f) /\ FrameLen(p, f) \in 2 .. 519
  BY FrameFacts, ParamFacts
<1>0. <<>> \in Seq(Nat) /\ <<f>> \in Seq(Nat) /\ <<p.payloads[f]>> \in Seq(Nat)
  BY <1>1
<1>2. CASE n < HLen(p)
  <2>1. n \in 0 .. HLen(p) - 1 /\ n \in Nat
    BY <1>1, <1>2
  <2>2. item.nibble = Nibble("hdr", n, <<p.payloads[f]>>)
    BY <2>1, NibblesFacts
  <2>3. item.nibble \in NibbleSet /\ item.nibble.part = "hdr" /\ item.nibble.i = n
    BY <1>0, <2>1, <2>2 DEF Nibble, NibbleSet
  <2> QED  BY <2>3 DEF NibbleIndex
<1>3. CASE ~(n < HLen(p)) /\ n < HeadedLen(p, f)
  <2>1. PICK i \in 0 .. PayLen(p, f) - 1 : n = HLen(p) + i /\ i \in Nat
    <3>1. n - HLen(p) \in 0 .. PayLen(p, f) - 1 /\ n = HLen(p) + (n - HLen(p)) /\ n - HLen(p) \in Nat
      BY <1>1, <1>3
    <3> QED  BY <3>1
  <2>2. item.nibble = Nibble("pay", i, <<>>)
    BY <2>1, NibblesFacts
  <2>3. item.nibble \in NibbleSet /\ item.nibble.part = "pay" /\ item.nibble.i = i
    <3>1. i \in Nat
      BY <2>1
    <3> QED  BY <1>0, <2>2, <3>1 DEF Nibble, NibbleSet
  <2> QED  BY <2>1, <2>3 DEF NibbleIndex
<1>4. CASE ~(n < HeadedLen(p, f))
  <2>1. PICK i \in 0 .. CLen(p) - 1 : n = HeadedLen(p, f) + i /\ i \in Nat
    <3>1. n - HeadedLen(p, f) \in 0 .. CLen(p) - 1 /\ n = HeadedLen(p, f) + (n - HeadedLen(p, f))
          /\ n - HeadedLen(p, f) \in Nat
      BY <1>1, <1>4, SMTT(60)
    <3> QED  BY <3>1
  <2>2. item.nibble = CrcNibble(p, f, i)
    BY <2>1, NibblesFacts
  <2>3. item.nibble \in NibbleSet /\ item.nibble.part = "crc" /\ item.nibble.i = i
    <3>1. i \in Nat
      BY <2>1
    <3> QED  BY <2>2, <3>1, CrcNibbleType
  <2> QED  BY <2>1, <2>3 DEF NibbleIndex
<1> QED  BY <1>2, <1>3, <1>4

\* Which blocks n codewords make up: the first takes S - 2 codewords, the others S.
LEMMA CeilFacts ==
  ASSUME NEW x \in Int, NEW y \in 7 .. 12
  PROVE  /\ CeilDiv(x, y) \in Int
         /\ (CeilDiv(x, y) - 1) * y < x /\ x <= CeilDiv(x, y) * y
<1>1. CASE y = 7 BY <1>1 DEF CeilDiv
<1>2. CASE y = 8 BY <1>2 DEF CeilDiv
<1>3. CASE y = 9 BY <1>3 DEF CeilDiv
<1>4. CASE y = 10 BY <1>4 DEF CeilDiv
<1>5. CASE y = 11 BY <1>5 DEF CeilDiv
<1>6. CASE y = 12 BY <1>6 DEF CeilDiv
<1>7. y = 7 \/ y = 8 \/ y = 9 \/ y = 10 \/ y = 11 \/ y = 12
  OBVIOUS
<1> QED  BY <1>1, <1>2, <1>3, <1>4, <1>5, <1>6, <1>7

\* Numbers that are at most others stay so when multiplied.
LEMMA TimesMonotone ==
  ASSUME NEW a \in Int, NEW b \in Int, NEW y \in 0 .. 12, a <= b
  PROVE  a * y <= b * y /\ a * y \in Int /\ b * y \in Int
<1>1. PICK d \in Nat : b = a + d
  <2>1. b - a \in Nat /\ b = a + (b - a)
    OBVIOUS
  <2> QED  BY <2>1
<1>2. (a + d) * y = a * y + d * y /\ d * y \in Nat /\ a * y \in Int
  OBVIOUS
<1>3. b * y = a * y + d * y
  BY <1>1, <1>2
<1>4. PICK u \in Int, v \in Nat : u = a * y /\ v = d * y
  BY <1>2
<1>5. u <= u + v /\ u + v \in Int
  OBVIOUS
<1> QED  BY <1>3, <1>4, <1>5

\* The codewords and the coding rate of the block behind B blocks.
SfOf(B) == IF B = 0 THEN SF - 2 ELSE SF
CrOfBlock(p, B) == IF B = 0 THEN 4 ELSE p.cr

LEMMA CodewordsFacts ==
  ASSUME NEW B \in Nat
  PROVE  /\ CodewordsBefore(B) \in Nat /\ SfOf(B) \in 5 .. 12
         /\ CodewordsBefore(B + 1) = CodewordsBefore(B) + SfOf(B)
         /\ BlocksDone(CodewordsBefore(B)) = B
         /\ CodewordsBefore(B) < SF - 2 <=> B = 0
         /\ B # 0 => CodewordsBefore(B) >= SF - 2
<1>1. SF \in 7 .. 12
  BY TxAssumption
<1>2. SF = 7 \/ SF = 8 \/ SF = 9 \/ SF = 10 \/ SF = 11 \/ SF = 12
  BY <1>1
<1> USE DEF CodewordsBefore, SfOf, BlocksDone
<1>3. CASE SF = 7 BY <1>3
<1>4. CASE SF = 8 BY <1>4
<1>5. CASE SF = 9 BY <1>5
<1>6. CASE SF = 10 BY <1>6
<1>7. CASE SF = 11 BY <1>7
<1>8. CASE SF = 12 BY <1>8
<1> QED  BY <1>2, <1>3, <1>4, <1>5, <1>6, <1>7, <1>8

LEMMA SymbolsFacts ==
  ASSUME NEW p \in Parameters, NEW B \in Nat
  PROVE  /\ SymbolsBefore(p, B) \in Nat
         /\ SymbolsBefore(p, B + 1) = SymbolsBefore(p, B) + (4 + CrOfBlock(p, B))
         /\ CrOfBlock(p, B) \in 0 .. 4
         /\ SymbolsBefore(p, B) = 0 <=> B = 0
<1>1. p.cr \in 0 .. 4
  BY ParamFacts
<1>2. p.cr = 0 \/ p.cr = 1 \/ p.cr = 2 \/ p.cr = 3 \/ p.cr = 4
  BY <1>1
<1> USE DEF SymbolsBefore, CrOfBlock
<1>3. CASE p.cr = 0 BY <1>3
<1>4. CASE p.cr = 1 BY <1>4
<1>5. CASE p.cr = 2 BY <1>5
<1>6. CASE p.cr = 3 BY <1>6
<1>7. CASE p.cr = 4 BY <1>7
<1> QED  BY <1>2, <1>3, <1>4, <1>5, <1>6, <1>7

BareCodewords == [frame : Nat, nibble : NibbleSet, cr : Nat]
BareSet == [cw_len : Nat, cws : Seq(BareCodewords)]

\* The codewords of the block of frame f behind its first B blocks.
BlockCodewords(p, f, B) ==
  IF SfOf(B) <= FrameLen(p, f) - CodewordsBefore(B) THEN SfOf(B)
  ELSE FrameLen(p, f) - CodewordsBefore(B)

\* How many blocks and symbols a frame has.
LEMMA CountFacts ==
  ASSUME NEW p \in Parameters, NEW f \in Frames
  PROVE  /\ BlockCount(p, f) \in Nat \ {0}
         /\ BlockCount(p, f) = 1 + Max({CeilDiv(FrameLen(p, f) - (SF - 2), SF), 0})
         /\ \A B \in Nat : B < BlockCount(p, f) <=> CodewordsBefore(B) < FrameLen(p, f)
         /\ SymbolCount(p, f) = SymbolsBefore(p, BlockCount(p, f))
         /\ SymbolCount(p, f) \in Nat \ {0} /\ 8 <= SymbolCount(p, f)
         /\ \A B \in Nat : B < BlockCount(p, f) <=> SymbolsBefore(p, B) < SymbolCount(p, f)
<1>1. FrameLen(p, f) \in 2 .. 519 /\ Len(NibblesOf(p, f)) = FrameLen(p, f) /\ SF \in 7 .. 12
      /\ p.cr \in 0 .. 4
  BY FrameFacts, NibblesFacts, ParamFacts, ZenonT(60)
<1> DEFINE x == FrameLen(p, f) - (SF - 2)
           c == CeilDiv(x, SF)
           n == 1 + Max({c, 0})
<1>2. x \in Int
  BY <1>1
<1>3. c \in Int /\ (c - 1) * SF < x /\ x <= c * SF
  <2> HIDE DEF x
  <2> QED  BY <1>1, <1>2, CeilFacts
<1>4. n = 1 + (IF c >= 0 THEN c ELSE 0) /\ n \in Nat \ {0}
  <2> HIDE DEF c
  <2>1. Max({c, 0}) = IF c >= 0 THEN c ELSE 0
    BY <1>3, MaxOfTwo
  <2> QED  BY <1>3, <2>1
<1>5. BlockCount(p, f) = n
  <2>1. Len(BlocksOf(p, f)) = 1 + Max({CeilDiv(Len(NibblesOf(p, f)) - (SF - 2), SF), 0})
    <3>1. 1 + Max({CeilDiv(Len(NibblesOf(p, f)) - (SF - 2), SF), 0}) \in Nat
      BY <1>1, <1>4
    <3> QED  BY <3>1 DEF BlocksOf
  <2> QED  BY <1>1, <2>1 DEF BlockCount
<1>6. ASSUME NEW B \in Nat PROVE B < n <=> CodewordsBefore(B) < FrameLen(p, f)
  <2> HIDE DEF c, n
  <2>1. CASE B = 0
    <3>1. CodewordsBefore(B) = 0
      BY <2>1 DEF CodewordsBefore
    <3> HIDE DEF x
    <3>2. n > 0 /\ FrameLen(p, f) > 0
      <4>1. n > 0
        BY <1>4
      <4>2. FrameLen(p, f) > 0
        <5>1. FrameLen(p, f) \in 2 .. 519
          BY <1>1
        <5> QED  BY <5>1
      <4> QED  BY <4>1, <4>2
    <3> QED  BY <2>1, <3>1, <3>2
  <2>2. CASE B # 0
    <3>1. CodewordsBefore(B) = SF - 2 + (B - 1) * SF /\ (B - 1) * SF \in Int
      BY <1>1, <2>2 DEF CodewordsBefore
    <3>2. CodewordsBefore(B) < FrameLen(p, f) <=> (B - 1) * SF < x
      BY <1>1, <3>1
    <3>3. (c - 1) * SF \in Int /\ c * SF \in Int /\ SF \in 0 .. 12 /\ c - 1 \in Int /\ B - 1 \in Int
      BY <1>1, <1>3
    <3>4. CASE B < n
      <4>1. B - 1 <= c - 1
        BY <1>3, <1>4, <2>2, <3>4
      <4>2. (B - 1) * SF <= (c - 1) * SF
        BY <3>3, <4>1, TimesMonotone
      <4> HIDE DEF x
      <4>3. (B - 1) * SF < x
        BY <1>2, <1>3, <3>1, <3>3, <4>2
      <4> QED  BY <3>2, <3>4, <4>3
    <3>5. CASE ~(B < n)
      <4>1. c <= B - 1
        BY <1>3, <1>4, <2>2, <3>5
      <4>2. c * SF <= (B - 1) * SF
        BY <1>3, <3>3, <4>1, TimesMonotone
      <4> HIDE DEF x
      <4>3. ~((B - 1) * SF < x)
        BY <1>2, <1>3, <3>1, <3>3, <4>2
      <4> QED  BY <3>2, <3>5, <4>3
    <3> QED  BY <3>4, <3>5
  <2> QED  BY <2>1, <2>2
<1> HIDE DEF n, c, x
<1>7. SymbolCount(p, f) = SymbolsBefore(p, n)
  BY <1>4, <1>5 DEF SymbolCount, SymbolsBefore
<1>8. SymbolCount(p, f) = 8 + (n - 1) * (4 + p.cr) /\ (n - 1) * (4 + p.cr) \in Nat
  <2>1. n - 1 \in Nat /\ 4 + p.cr \in Nat
    BY <1>1, <1>4
  <2> QED  BY <1>5, <2>1 DEF SymbolCount
<1>9. SymbolCount(p, f) \in Nat \ {0} /\ 8 <= SymbolCount(p, f)
  BY <1>8
<1>10. ASSUME NEW B \in Nat PROVE B < n <=> SymbolsBefore(p, B) < SymbolCount(p, f)
  <2>1. CASE B = 0
    <3>1. SymbolsBefore(p, B) = 0
      BY <2>1 DEF SymbolsBefore
    <3> QED  BY <1>4, <1>9, <2>1, <3>1
  <2>2. CASE B # 0
    <3>1. SymbolsBefore(p, B) = 8 + (B - 1) * (4 + p.cr) /\ (B - 1) * (4 + p.cr) \in Nat
      <4>1. B - 1 \in Nat /\ 4 + p.cr \in Nat
        BY <1>1, <2>2
      <4> QED  BY <2>2, <4>1 DEF SymbolsBefore
    <3>2. PICK r \in 4 .. 8 : r = 4 + p.cr
      BY <1>1
    <3>3. B < n <=> B - 1 < n - 1
      BY <1>4
    <3>4. (B - 1) * r < (n - 1) * r <=> B - 1 < n - 1
      <4>1. PICK s \in Nat, t \in Nat : s = B - 1 /\ t = n - 1
        BY <1>4, <2>2
      <4>2. r = 4 \/ r = 5 \/ r = 6 \/ r = 7 \/ r = 8
        OBVIOUS
      <4>3. s * r < t * r <=> s < t
        <5>1. CASE r = 4 BY <5>1
        <5>2. CASE r = 5 BY <5>2
        <5>3. CASE r = 6 BY <5>3
        <5>4. CASE r = 7 BY <5>4
        <5>5. CASE r = 8 BY <5>5
        <5> QED  BY <4>2, <5>1, <5>2, <5>3, <5>4, <5>5
      <4> QED  BY <4>1, <4>3
    <3>5. PICK u \in Nat, v \in Nat : u = (B - 1) * r /\ v = (n - 1) * r
      BY <1>8, <3>1, <3>2
    <3>6. SymbolsBefore(p, B) = 8 + u /\ SymbolCount(p, f) = 8 + v
      BY <1>8, <3>1, <3>2, <3>5
    <3> QED  BY <3>3, <3>4, <3>5, <3>6
  <2> QED  BY <2>1, <2>2
<1>11. n = 1 + Max({CeilDiv(FrameLen(p, f) - (SF - 2), SF), 0})
  BY DEF n, c, x
<1> QED  BY <1>4, <1>5, <1>6, <1>7, <1>9, <1>10, <1>11

\* The block of frame f behind its first B blocks.
LEMMA BlockFacts ==
  ASSUME NEW p \in Parameters, NEW f \in Frames, NEW B \in Nat, B < BlockCount(p, f)
  PROVE  LET b == BlocksOf(p, f)[B + 1] IN
         /\ b \in BareSet /\ b.cw_len = 4 + CrOfBlock(p, B)
         /\ BlockCodewords(p, f, B) \in 1 .. 12 /\ Len(b.cws) = BlockCodewords(p, f, B)
         /\ b = [cw_len |-> 4 + CrOfBlock(p, B), cws |-> b.cws]
         /\ \A k \in 1 .. BlockCodewords(p, f, B) :
              b.cws[k] = [frame |-> f, nibble |-> NibbleOf(p, f, CodewordsBefore(B) + k - 1),
                          cr |-> CrOfBlock(p, B)]
<1> DEFINE all == NibblesOf(p, f)
           count == 1 + Max({CeilDiv(Len(all) - (SF - 2), SF), 0})
           first(b) == IF b = 1 THEN 1 ELSE SF - 1 + (b - 2) * SF
           last(b)  == Min({first(b + 1) - 1, Len(all)})
           cr(b)    == IF b = 1 THEN 4 ELSE p.cr
           N == BlockCodewords(p, f, B)
           c == CodewordsBefore(B)
<1>1. /\ Len(all) = FrameLen(p, f) /\ count = BlockCount(p, f) /\ count \in Nat \ {0}
      /\ SF \in 7 .. 12 /\ FrameLen(p, f) \in Nat /\ f \in Nat /\ all \in Seq(NibbleSet)
  <2>1. FrameLen(p, f) \in 2 .. 519 /\ f \in Nat
    BY FrameFacts
  <2>2. Len(all) = FrameLen(p, f) /\ all \in Seq(NibbleSet)
    BY NibblesFacts
  <2>3. count = BlockCount(p, f) /\ BlockCount(p, f) \in Nat \ {0}
    <3>1. BlockCount(p, f) = 1 + Max({CeilDiv(FrameLen(p, f) - (SF - 2), SF), 0})
          /\ BlockCount(p, f) \in Nat \ {0}
      BY CountFacts
    <3> HIDE DEF all
    <3> QED  BY <2>2, <3>1
  <2>4. SF \in 7 .. 12
    BY ParamFacts
  <2> HIDE DEF all, count
  <2> QED  BY <2>1, <2>2, <2>3, <2>4
<1>2. BlocksOf(p, f) = [b \in 1 .. count |->
        [cw_len |-> 4 + cr(b),
         cws |-> [k \in 1 .. last(b) - first(b) + 1 |->
                    [frame |-> f, nibble |-> all[first(b) + k - 1], cr |-> cr(b)]]]]
  BY DEF BlocksOf
<1>3. B + 1 \in 1 .. count
  BY <1>1
<1>4. cr(B + 1) = CrOfBlock(p, B) /\ CrOfBlock(p, B) \in 0 .. 4
  BY ParamFacts DEF CrOfBlock
<1>5. c \in Nat /\ SfOf(B) \in 5 .. 12 /\ c < FrameLen(p, f) /\ CodewordsBefore(B + 1) = c + SfOf(B)
  BY CodewordsFacts, CountFacts
<1>6. first(B + 1) = c + 1
  <2>1. CASE B = 0
    BY <2>1 DEF CodewordsBefore
  <2>2. CASE B # 0
    <3>1. c = SF - 2 + (B - 1) * SF /\ (B - 1) * SF \in Int
      BY <1>1, <2>2 DEF CodewordsBefore
    <3>2. first(B + 1) = SF - 1 + (B - 1) * SF
      <4>1. B + 1 # 1 /\ B + 1 - 2 = B - 1
        BY <2>2
      <4> QED  BY <4>1
    <3>3. PICK u \in Int : u = (B - 1) * SF
      BY <3>1
    <3>4. SF - 1 + u = SF - 2 + u + 1
      BY <1>1
    <3> HIDE DEF first, c
    <3> QED  BY <3>1, <3>2, <3>3, <3>4
  <2> QED  BY <2>1, <2>2
<1>7. first(B + 2) = c + SfOf(B) + 1
  <2>1. first(B + 2) = SF - 1 + B * SF
    <3>1. B + 2 # 1 /\ B + 2 - 2 = B
      OBVIOUS
    <3> QED  BY <3>1
  <2>2. CodewordsBefore(B + 1) = SF - 2 + B * SF
    <3>1. B + 1 # 0 /\ B + 1 - 1 = B
      OBVIOUS
    <3> QED  BY <3>1 DEF CodewordsBefore
  <2>3. PICK u \in Int : u = B * SF
    BY <1>1
  <2> HIDE DEF first, c
  <2> QED  BY <1>1, <1>5, <2>1, <2>2, <2>3
<1>8. last(B + 1) = c + N
  <2>1. B + 1 + 1 = B + 2
    OBVIOUS
  <2>2. last(B + 1) = Min({c + SfOf(B), FrameLen(p, f)})
    <3>1. first(B + 1 + 1) - 1 = c + SfOf(B)
      <4> HIDE DEF first, c
      <4> QED  BY <1>5, <1>7, <2>1
    <3> HIDE DEF first, c
    <3> QED  BY <1>1, <3>1
  <2>3. Min({c + SfOf(B), FrameLen(p, f)})
          = IF c + SfOf(B) <= FrameLen(p, f) THEN c + SfOf(B) ELSE FrameLen(p, f)
    <3>1. c + SfOf(B) \in Int /\ FrameLen(p, f) \in Int
      BY <1>1, <1>5
    <3> QED  BY <3>1, MinOfTwo
  <2> HIDE DEF last
  <2> QED  BY <1>1, <1>5, <2>2, <2>3, SMTT(60) DEF BlockCodewords
<1>9. N \in 1 .. 12 /\ c + N <= FrameLen(p, f)
  <2>1. PICK l \in Nat, d \in Nat : l = FrameLen(p, f) /\ d = c /\ d < l
    BY <1>1, <1>5
  <2>2. N = IF SfOf(B) <= l - d THEN SfOf(B) ELSE l - d
    BY <2>1 DEF BlockCodewords
  <2> HIDE DEF N, c
  <2> QED  BY <1>5, <2>1, <2>2
<1> DEFINE cws == [k \in 1 .. N |-> [frame |-> f, nibble |-> all[c + 1 + k - 1], cr |-> CrOfBlock(p, B)]]
<1>10. BlocksOf(p, f)[B + 1] = [cw_len |-> 4 + CrOfBlock(p, B), cws |-> cws]
  <2>1. last(B + 1) - first(B + 1) + 1 = N
    <3> HIDE DEF first, last, N, c
    <3> QED  BY <1>5, <1>6, <1>8, <1>9
  <2>2. BlocksOf(p, f)[B + 1] =
        [cw_len |-> 4 + cr(B + 1),
         cws |-> [k \in 1 .. last(B + 1) - first(B + 1) + 1 |->
                    [frame |-> f, nibble |-> all[first(B + 1) + k - 1], cr |-> cr(B + 1)]]]
    <3> HIDE DEF first, last, cr, all
    <3> QED  BY <1>2, <1>3
  <2> HIDE DEF first, last, cr, all, N, c
  <2> QED  BY <1>4, <1>6, <2>1, <2>2
<1>11. ASSUME NEW k \in 1 .. N
       PROVE  /\ cws[k] = [frame |-> f, nibble |-> NibbleOf(p, f, c + k - 1), cr |-> CrOfBlock(p, B)]
              /\ cws[k] \in BareCodewords
  <2>1. c + 1 + k - 1 = c + k - 1 + 1 /\ c + k - 1 + 1 \in 1 .. Len(all) /\ c + k - 1 \in Nat
    <3> HIDE DEF c, N, all
    <3> QED  BY <1>1, <1>5, <1>9
  <2>2. cws[k] = [frame |-> f, nibble |-> all[c + k - 1 + 1], cr |-> CrOfBlock(p, B)]
    <3> HIDE DEF c, N, all
    <3> QED  BY <2>1
  <2>3. all[c + k - 1 + 1] \in NibbleSet
    <3> HIDE DEF c, N, all
    <3> QED  BY <1>1, <2>1
  <2>4. NibbleOf(p, f, c + k - 1) = all[c + k - 1 + 1]
    BY DEF NibbleOf
  <2>5. CrOfBlock(p, B) \in Nat /\ f \in Nat
    BY <1>1, <1>4
  <2> HIDE DEF cws, c, N, all
  <2> QED  BY <2>2, <2>3, <2>4, <2>5 DEF BareCodewords
<1>12. cws \in Seq(BareCodewords) /\ Len(cws) = N
  <2>1. N \in Nat
    BY <1>9
  <2>2. cws \in [1 .. N -> BareCodewords]
    <3>1. \A k \in 1 .. N : cws[k] \in BareCodewords
      BY <1>11
    <3>2. cws = [k \in 1 .. N |-> cws[k]]
      OBVIOUS
    <3> HIDE DEF cws, N
    <3> QED  BY <3>1, <3>2
  <2> HIDE DEF cws, N
  <2> QED  BY <2>1, <2>2
<1>13. 4 + CrOfBlock(p, B) \in Nat
  BY <1>4
<1> HIDE DEF cws, N, c
<1>14. BlocksOf(p, f)[B + 1].cws = cws /\ BlocksOf(p, f)[B + 1].cw_len = 4 + CrOfBlock(p, B)
  BY <1>10
<1>15. BlocksOf(p, f)[B + 1] \in BareSet
  BY <1>10, <1>12, <1>13 DEF BareSet
<1> QED  BY <1>9, <1>10, <1>11, <1>12, <1>14, <1>15 DEF N, c

LEMMA BlocksType ==
  ASSUME NEW p \in Parameters, NEW f \in Frames
  PROVE  BlocksOf(p, f) \in Seq(BareSet)
<1>1. BlockCount(p, f) \in Nat
  BY CountFacts
<1>2. \A k \in 1 .. BlockCount(p, f) : BlocksOf(p, f)[k] \in BareSet
  <2> SUFFICES ASSUME NEW k \in 1 .. BlockCount(p, f) PROVE BlocksOf(p, f)[k] \in BareSet
    OBVIOUS
  <2>1. k - 1 \in Nat /\ k - 1 < BlockCount(p, f) /\ k - 1 + 1 = k
    BY <1>1
  <2> QED  BY <2>1, BlockFacts
<1>3. BlocksOf(p, f) = [k \in 1 .. BlockCount(p, f) |-> BlocksOf(p, f)[k]]
  <2> DEFINE n == 1 + Max({CeilDiv(Len(NibblesOf(p, f)) - (SF - 2), SF), 0})
  <2>1. DOMAIN BlocksOf(p, f) = 1 .. n /\ BlocksOf(p, f) = [k \in 1 .. n |-> BlocksOf(p, f)[k]]
    BY DEF BlocksOf
  <2>2. n = BlockCount(p, f)
    BY CountFacts, NibblesFacts
  <2> HIDE DEF n
  <2> QED  BY <2>1, <2>2
<1> DEFINE s == [k \in 1 .. BlockCount(p, f) |-> BlocksOf(p, f)[k]]
<1>4. s \in Seq(BareSet)
  BY <1>1, <1>2
<1> HIDE DEF s
<1>5. BlocksOf(p, f) = s
  BY <1>3 DEF s
<1> QED  BY <1>4, <1>5

\* A sequence by its length and its elements.
LEMMA SeqIs ==
  ASSUME NEW S, NEW n \in Nat, NEW s \in [1 .. n -> S]
  PROVE  s \in Seq(S) /\ Len(s) = n
  OBVIOUS

\* The blocks of the frames up to m.
LEMMA BlocksUpToFacts ==
  ASSUME NEW p \in Parameters, NEW m \in 0 .. NFrames
  PROVE  /\ BlocksUpTo(p, m) \in Seq(BareSet) /\ Len(BlocksUpTo(p, m)) \in Nat
         /\ m = 0 => BlocksUpTo(p, m) = <<>>
         /\ m < NFrames => BlocksUpTo(p, m + 1) = BlocksUpTo(p, m) \o BlocksOf(p, m + 1)
         /\ \A n \in m .. NFrames :
              /\ Len(BlocksUpTo(p, m)) <= Len(BlocksUpTo(p, n))
              /\ \A k \in 1 .. Len(BlocksUpTo(p, m)) : BlocksUpTo(p, n)[k] = BlocksUpTo(p, m)[k]
<1> DEFINE F == [g \in 1 .. NFrames |-> BlocksOf(p, g)]
<1>1. NFrames \in Nat
  BY TxAssumption
<1>2. F \in [1 .. NFrames -> Seq(BareSet)]
  <2>1. \A g \in 1 .. NFrames : BlocksOf(p, g) \in Seq(BareSet)
    BY BlocksType DEF Frames
  <2> QED  BY <2>1
<1>3. \A n \in 0 .. NFrames : BlocksUpTo(p, n) = UpTo(F, n)
  <2> SUFFICES ASSUME NEW n \in 0 .. NFrames PROVE BlocksUpTo(p, n) = UpTo(F, n)
    OBVIOUS
  <2>1. [g \in 1 .. n |-> BlocksOf(p, g)] = [g \in 1 .. n |-> F[g]]
    BY <1>1
  <2> QED  BY <2>1 DEF BlocksUpTo, UpTo
<1>4. \A g \in 1 .. NFrames : F[g] = BlocksOf(p, g)
  OBVIOUS
<1> HIDE DEF F
<1>5. BlocksUpTo(p, m) \in Seq(BareSet) /\ Len(BlocksUpTo(p, m)) \in Nat
  BY <1>1, <1>2, <1>3, UpToType
<1>6. m = 0 => BlocksUpTo(p, m) = <<>>
  BY <1>3, UpToZero
<1>7. m < NFrames => BlocksUpTo(p, m + 1) = BlocksUpTo(p, m) \o BlocksOf(p, m + 1)
  <2> SUFFICES ASSUME m < NFrames
               PROVE  BlocksUpTo(p, m + 1) = BlocksUpTo(p, m) \o BlocksOf(p, m + 1)
    OBVIOUS
  <2>1. m \in 0 .. NFrames - 1 /\ m + 1 \in 0 .. NFrames /\ m + 1 \in 1 .. NFrames
    BY <1>1
  <2>2. UpTo(F, m + 1) = UpTo(F, m) \o F[m + 1]
    BY <1>1, <1>2, <2>1, UpToNext, ZenonT(60)
  <2> QED  BY <1>3, <1>4, <2>1, <2>2
<1>8. ASSUME NEW n \in m .. NFrames
      PROVE  /\ Len(BlocksUpTo(p, m)) <= Len(BlocksUpTo(p, n))
             /\ \A k \in 1 .. Len(BlocksUpTo(p, m)) : BlocksUpTo(p, n)[k] = BlocksUpTo(p, m)[k]
  <2>1. n \in 0 .. NFrames /\ BlocksUpTo(p, n) = UpTo(F, n) /\ BlocksUpTo(p, m) = UpTo(F, m)
    BY <1>1, <1>3
  <2>2. NFrames \in Nat /\ m \in 0 .. NFrames /\ n \in m .. NFrames
    BY <1>1
  <2>3. /\ Len(UpTo(F, m)) <= Len(UpTo(F, n))
        /\ \A k \in 1 .. Len(UpTo(F, m)) : UpTo(F, n)[k] = UpTo(F, m)[k]
    BY <1>2, <2>2, UpToPrefix, Zenon
  <2> QED  BY <2>1, <2>3
<1> QED  BY <1>5, <1>6, <1>7, <1>8

\* The symbols of a frame, by block.
SymbolItems == [kind : {"symbol"}, block : Nat, i : Nat]

LEMMA SymbolsOfFacts ==
  ASSUME NEW p \in Parameters, NEW f \in Frames
  PROVE  /\ SymbolsOf(p, f) \in Seq(SymbolItems) /\ Len(SymbolsOf(p, f)) = SymbolCount(p, f)
         /\ Len(BlocksUpTo(p, f - 1)) \in Nat
         /\ \A B \in Nat : B < BlockCount(p, f) =>
              \A i \in 1 .. 4 + CrOfBlock(p, B) :
                SymbolsOf(p, f)[SymbolsBefore(p, B) + i]
                  = AirItem("symbol", Len(BlocksUpTo(p, f - 1)) + (B + 1), i)
<1>1. PICK n \in Nat \ {0} : n = BlockCount(p, f) /\ n = Len(BlocksOf(p, f))
  BY CountFacts DEF BlockCount
<1>2. PICK w \in Nat : w = Len(BlocksUpTo(p, f - 1))
  <2>1. NFrames \in Nat
    BY TxAssumption
  <2>2. f - 1 \in 0 .. NFrames
    BY <2>1 DEF Frames
  <2> QED  BY <2>2, BlocksUpToFacts
<1> DEFINE F == [b \in 1 .. n |-> [i \in 1 .. BlocksOf(p, f)[b].cw_len |-> AirItem("symbol", w + b, i)]]
<1>3. SymbolsOf(p, f) = UpTo(F, n)
  <2>1. [b \in 1 .. n |-> [i \in 1 .. BlocksOf(p, f)[b].cw_len |-> AirItem("symbol", w + b, i)]]
         = [g \in 1 .. n |-> F[g]]
    OBVIOUS
  <2> HIDE DEF F
  <2> QED  BY <1>1, <1>2, <2>1 DEF SymbolsOf, UpTo
<1>4. ASSUME NEW B \in Nat, B < n
      PROVE  /\ B + 1 \in 1 .. n /\ F[B + 1] \in Seq(SymbolItems)
             /\ Len(F[B + 1]) = 4 + CrOfBlock(p, B) /\ 4 + CrOfBlock(p, B) \in Nat
             /\ \A i \in 1 .. 4 + CrOfBlock(p, B) : F[B + 1][i] = AirItem("symbol", w + (B + 1), i)
  <2>1. PICK l \in Nat : l = 4 + CrOfBlock(p, B)
    BY SymbolsFacts
  <2>2. BlocksOf(p, f)[B + 1].cw_len = l
    BY <1>1, <1>4, <2>1, BlockFacts, ZenonT(60)
  <2>3. B + 1 \in 1 .. n
    BY <1>4
  <2>4. F[B + 1] = [i \in 1 .. l |-> AirItem("symbol", w + (B + 1), i)]
    BY <2>2, <2>3
  <2>5. \A i \in 1 .. l : AirItem("symbol", w + (B + 1), i) \in SymbolItems
    BY <2>1 DEF AirItem, SymbolItems
  <2> HIDE DEF F
  <2>6. F[B + 1] \in [1 .. l -> SymbolItems]
    BY <2>4, <2>5
  <2>7. \A i \in 1 .. l : F[B + 1][i] = AirItem("symbol", w + (B + 1), i)
    BY <2>4
  <2>8. F[B + 1] \in Seq(SymbolItems) /\ Len(F[B + 1]) = l
    BY <2>6, SeqIs
  <2> QED  BY <2>1, <2>3, <2>7, <2>8
<1>5. F \in [1 .. n -> Seq(SymbolItems)]
  <2>1. \A b \in 1 .. n : F[b] \in Seq(SymbolItems)
    <3> SUFFICES ASSUME NEW b \in 1 .. n PROVE F[b] \in Seq(SymbolItems)
      BY Zenon
    <3>1. b - 1 \in Nat /\ b - 1 < n /\ b - 1 + 1 = b
      OBVIOUS
    <3> HIDE DEF F
    <3> QED  BY <1>4, <3>1
  <2>2. F = [b \in 1 .. n |-> F[b]]
    OBVIOUS
  <2> HIDE DEF F
  <2> QED  BY <2>1, <2>2
<1> HIDE DEF F
<1>6. ASSUME NEW B \in Nat, B < n
      PROVE  /\ UpTo(F, B) \in Seq(SymbolItems) /\ UpTo(F, B + 1) \in Seq(SymbolItems)
             /\ UpTo(F, B + 1) = UpTo(F, B) \o F[B + 1]
             /\ Len(UpTo(F, B + 1)) = Len(UpTo(F, B)) + (4 + CrOfBlock(p, B))
             /\ Len(UpTo(F, B)) \in Nat
             /\ \A i \in 1 .. 4 + CrOfBlock(p, B) :
                  UpTo(F, B + 1)[Len(UpTo(F, B)) + i] = F[B + 1][i]
  <2>1. B \in 0 .. n - 1
    BY <1>6
  <2>2. /\ UpTo(F, B) \in Seq(SymbolItems) /\ UpTo(F, B + 1) \in Seq(SymbolItems)
        /\ UpTo(F, B + 1) = UpTo(F, B) \o F[B + 1]
    <3>1. \A C \in 0 .. n - 1 :
            /\ UpTo(F, C) \in Seq(SymbolItems) /\ UpTo(F, C + 1) \in Seq(SymbolItems)
            /\ UpTo(F, C + 1) = UpTo(F, C) \o F[C + 1]
      BY <1>5, UpToNext, ZenonT(60)
    <3> QED  BY <2>1, <3>1
  <2>3. F[B + 1] \in Seq(SymbolItems) /\ Len(F[B + 1]) = 4 + CrOfBlock(p, B)
    BY <1>4, <1>6
  <2>4. /\ Len(UpTo(F, B) \o F[B + 1]) = Len(UpTo(F, B)) + Len(F[B + 1])
        /\ Len(UpTo(F, B)) \in Nat
        /\ \A k \in 1 .. Len(F[B + 1]) : (UpTo(F, B) \o F[B + 1])[Len(UpTo(F, B)) + k] = F[B + 1][k]
    BY <2>2, <2>3, ConcatFacts
  <2> QED  BY <2>2, <2>3, <2>4
<1>7. \A B \in 0 .. n : Len(UpTo(F, B)) = SymbolsBefore(p, B)
  <2> DEFINE T == {B \in 0 .. n : Len(UpTo(F, B)) # SymbolsBefore(p, B)}
  <2>1. SUFFICES ASSUME T # {} PROVE FALSE
    OBVIOUS
  <2>2. T \in SUBSET Nat
    OBVIOUS
  <2>3. PICK B \in T : \A y \in T : B <= y
    <3> HIDE DEF T
    <3> QED  BY <2>1, <2>2, LeastNumber
  <2>4. B \in 0 .. n /\ Len(UpTo(F, B)) # SymbolsBefore(p, B)
    OBVIOUS
  <2>5. CASE B = 0
    <3>1. UpTo(F, 0) = <<>> /\ Len(<<>>) = 0
      BY UpToZero
    <3>2. SymbolsBefore(p, 0) = 0
      BY DEF SymbolsBefore
    <3> QED  BY <2>4, <2>5, <3>1, <3>2
  <2>6. CASE B # 0
    <3>1. PICK C \in Nat : B = C + 1 /\ C < n
      <4>1. B - 1 \in Nat /\ B = (B - 1) + 1 /\ B - 1 < n
        BY <2>4, <2>6
      <4> QED  BY <4>1
    <3>2. C \notin T /\ C \in 0 .. n
      <4>1. ~(B <= C) /\ C \in 0 .. n
        BY <3>1
      <4> QED  BY <2>3, <4>1
    <3>3. Len(UpTo(F, C)) = SymbolsBefore(p, C)
      BY <3>2
    <3>4. Len(UpTo(F, C + 1)) = Len(UpTo(F, C)) + (4 + CrOfBlock(p, C))
      BY <1>6, <3>1
    <3>5. SymbolsBefore(p, C + 1) = SymbolsBefore(p, C) + (4 + CrOfBlock(p, C))
      BY SymbolsFacts
    <3> HIDE DEF T
    <3> QED  BY <2>4, <3>1, <3>3, <3>4, <3>5
  <2> QED  BY <2>5, <2>6
<1>8. SymbolsOf(p, f) \in Seq(SymbolItems) /\ Len(SymbolsOf(p, f)) = SymbolCount(p, f)
  <2>1. n \in 0 .. n /\ n \in Nat
    OBVIOUS
  <2>2. UpTo(F, n) \in Seq(SymbolItems)
    BY <1>5, <2>1, UpToType
  <2>3. SymbolCount(p, f) = SymbolsBefore(p, n)
    BY <1>1, CountFacts
  <2> QED  BY <1>3, <1>7, <2>1, <2>2, <2>3
<1>9. ASSUME NEW B \in Nat, B < n, NEW i \in 1 .. 4 + CrOfBlock(p, B)
      PROVE  SymbolsOf(p, f)[SymbolsBefore(p, B) + i] = AirItem("symbol", w + (B + 1), i)
  <2>1. B \in 0 .. n /\ B + 1 \in 0 .. n /\ n \in (B + 1) .. n /\ n \in Nat
    BY <1>9
  <2>2. \A k \in 1 .. Len(UpTo(F, B + 1)) : UpTo(F, n)[k] = UpTo(F, B + 1)[k]
    <3>1. PICK C \in 0 .. n : C = B + 1
      BY <2>1
    <3>2. PICK m \in C .. n : m = n
      BY <2>1, <3>1
    <3>3. \A k \in 1 .. Len(UpTo(F, C)) : UpTo(F, m)[k] = UpTo(F, C)[k]
      BY <1>5, UpToPrefix
    <3> QED  BY <3>1, <3>2, <3>3
  <2>3. UpTo(F, B + 1)[SymbolsBefore(p, B) + i] = AirItem("symbol", w + (B + 1), i)
    BY <1>4, <1>6, <1>7, <1>9, <2>1, ZenonT(60)
  <2>4. SymbolsBefore(p, B) + i \in 1 .. Len(UpTo(F, B + 1))
    <3>1. PICK l \in Nat, a \in Nat : l = 4 + CrOfBlock(p, B) /\ a = SymbolsBefore(p, B)
      BY SymbolsFacts
    <3>2. Len(UpTo(F, B + 1)) = a + l
      BY <2>1, <1>7, SymbolsFacts, <3>1
    <3> QED  BY <3>1, <3>2
  <2> QED  BY <1>3, <2>2, <2>3, <2>4
<1> QED  BY <1>1, <1>2, <1>8, <1>9

----------------------------------------------------------------------------
\* What a frame is on the air, symbol by symbol.
LEMMA PreambleFacts ==
  /\ PreambleOf \in Seq(AirKinds) /\ Len(PreambleOf) = PreambleLen /\ PreambleLen \in Nat \ {0}
  /\ \A k \in 1 .. PreambleLen : PreambleOf[k] = PreambleSymbol(k - 1)
<1>1. NUp \in Nat
  BY ModAssumption
<1> DEFINE up == [k \in 1 .. NUp |-> "upchirp"]
           rest == <<"sync_word_1", "sync_word_2", "downchirp", "downchirp", "quarter_downchirp">>
<1>2. up \in Seq(AirKinds) /\ Len(up) = NUp /\ \A k \in 1 .. NUp : up[k] = "upchirp"
  BY <1>1 DEF AirKinds
<1>3. rest \in Seq(AirKinds) /\ Len(rest) = 5
  BY DEF AirKinds
<1>4. /\ rest[1] = "sync_word_1" /\ rest[2] = "sync_word_2" /\ rest[3] = "downchirp"
      /\ rest[4] = "downchirp" /\ rest[5] = "quarter_downchirp"
  OBVIOUS
<1>5. PreambleOf = up \o rest
  BY DEF PreambleOf
<1> HIDE DEF up, rest
<1>6. /\ up \o rest \in Seq(AirKinds) /\ Len(up \o rest) = Len(up) + Len(rest)
      /\ \A k \in 1 .. Len(up) : (up \o rest)[k] = up[k]
      /\ \A k \in 1 .. Len(rest) : (up \o rest)[Len(up) + k] = rest[k]
  <2>1. up \in Seq(AirKinds) /\ rest \in Seq(AirKinds)
    BY <1>2, <1>3
  <2> QED  BY <2>1, ConcatFacts
<1>7. ASSUME NEW k \in 1 .. PreambleLen PROVE PreambleOf[k] = PreambleSymbol(k - 1)
  <2>1. CASE k <= NUp
    <3>1. k - 1 < NUp /\ k \in 1 .. NUp
      BY <1>1, <2>1
    <3>2. PreambleOf[k] = "upchirp"
      BY <1>2, <1>5, <1>6, <3>1
    <3>3. PreambleSymbol(k - 1) = "upchirp"
      BY <1>1, <3>1 DEF PreambleSymbol
    <3> QED  BY <3>2, <3>3
  <2>2. CASE ~(k <= NUp)
    <3>1. PICK j \in 1 .. 5 : k = NUp + j
      <4>1. k - NUp \in 1 .. 5 /\ k = NUp + (k - NUp)
        BY <1>1, <2>2 DEF PreambleLen
      <4> QED  BY <4>1
    <3>2. PreambleOf[k] = rest[j]
      BY <1>2, <1>3, <1>5, <1>6, <3>1
    <3>3. PreambleSymbol(k - 1) = rest[j]
      <4>1. j = 1 \/ j = 2 \/ j = 3 \/ j = 4 \/ j = 5
        OBVIOUS
      <4>2. CASE j = 1 BY <1>1, <1>4, <3>1, <4>2 DEF PreambleSymbol
      <4>3. CASE j = 2 BY <1>1, <1>4, <3>1, <4>3 DEF PreambleSymbol
      <4>4. CASE j = 3 BY <1>1, <1>4, <3>1, <4>4 DEF PreambleSymbol
      <4>5. CASE j = 4 BY <1>1, <1>4, <3>1, <4>5 DEF PreambleSymbol
      <4>6. CASE j = 5 BY <1>1, <1>4, <3>1, <4>6 DEF PreambleSymbol
      <4> QED  BY <4>1, <4>2, <4>3, <4>4, <4>5, <4>6
    <3> QED  BY <3>2, <3>3
  <2> QED  BY <2>1, <2>2
<1> QED  BY <1>1, <1>2, <1>3, <1>5, <1>6, <1>7, SMTT(60) DEF PreambleLen

LEMMA AirOfFacts ==
  ASSUME NEW p \in Parameters, NEW f \in Frames
  PROVE  /\ AirOf(p, f) \in Seq(AirSet)
         /\ Len(AirOf(p, f)) = PreambleLen + SymbolCount(p, f) + InterFramePadding
         /\ \A k \in 1 .. PreambleLen :
              AirOf(p, f)[k] = [kind |-> PreambleSymbol(k - 1), block |-> 0, i |-> 0]
         /\ \A s \in 1 .. SymbolCount(p, f) :
              AirOf(p, f)[PreambleLen + s]
                = [kind |-> "symbol", block |-> SymbolsOf(p, f)[s].block, i |-> SymbolsOf(p, f)[s].i]
         /\ \A k \in 1 .. InterFramePadding :
              AirOf(p, f)[PreambleLen + SymbolCount(p, f) + k] = [kind |-> "silence", block |-> 0, i |-> 0]
<1>1. PICK P \in Nat, C \in Nat, Q \in Nat :
        P = PreambleLen /\ C = SymbolCount(p, f) /\ Q = InterFramePadding
  BY PreambleFacts, CountFacts, ModAssumption
<1> DEFINE pre == [k \in 1 .. P |-> AirItem(PreambleOf[k], 0, 0)]
           sym == SymbolsOf(p, f)
           sil == [k \in 1 .. Q |-> AirItem("silence", 0, 0)]
<1>2. pre \in Seq(AirSet) /\ Len(pre) = P
      /\ \A k \in 1 .. P : pre[k] = [kind |-> PreambleSymbol(k - 1), block |-> 0, i |-> 0]
  <2>1. \A k \in 1 .. P : PreambleOf[k] \in AirKinds /\ PreambleOf[k] = PreambleSymbol(k - 1)
    BY <1>1, PreambleFacts
  <2>2. pre \in [1 .. P -> AirSet]
    BY <2>1 DEF AirItem, AirSet
  <2>3. \A k \in 1 .. P : pre[k] = [kind |-> PreambleSymbol(k - 1), block |-> 0, i |-> 0]
    BY <2>1 DEF AirItem
  <2> HIDE DEF pre
  <2> QED  BY <2>2, <2>3, SeqIs
<1>3. sym \in Seq(AirSet) /\ Len(sym) = C
      /\ \A s \in 1 .. C : sym[s] = [kind |-> "symbol", block |-> sym[s].block, i |-> sym[s].i]
  <2>1. sym \in Seq(SymbolItems) /\ Len(sym) = C
    BY <1>1, SymbolsOfFacts
  <2> HIDE DEF sym
  <2>2. SymbolItems \subseteq AirSet
    BY DEF SymbolItems, AirSet, AirKinds
  <2>3. \A s \in 1 .. C : sym[s] \in SymbolItems
    BY <2>1
  <2>4. \A s \in 1 .. C : sym[s] = [kind |-> "symbol", block |-> sym[s].block, i |-> sym[s].i]
    BY <2>3 DEF SymbolItems
  <2> QED  BY <2>1, <2>2, <2>4
<1>4. sil \in Seq(AirSet) /\ Len(sil) = Q
      /\ \A k \in 1 .. Q : sil[k] = [kind |-> "silence", block |-> 0, i |-> 0]
  BY DEF AirItem, AirSet, AirKinds
<1>5. AirOf(p, f) = pre \o sym \o sil
  BY <1>1, PreambleFacts DEF AirOf
<1> HIDE DEF pre, sym, sil
<1> DEFINE two == pre \o sym
<1>6. two \in Seq(AirSet) /\ Len(two) = P + C
      /\ (\A k \in 1 .. P : two[k] = pre[k]) /\ (\A k \in 1 .. C : two[P + k] = sym[k])
  <2>1. pre \in Seq(AirSet) /\ sym \in Seq(AirSet)
    BY <1>2, <1>3
  <2>2. /\ pre \o sym \in Seq(AirSet) /\ Len(pre \o sym) = Len(pre) + Len(sym)
        /\ \A k \in 1 .. Len(pre) : (pre \o sym)[k] = pre[k]
        /\ \A k \in 1 .. Len(sym) : (pre \o sym)[Len(pre) + k] = sym[k]
    BY <2>1, ConcatFacts
  <2> QED  BY <1>2, <1>3, <2>2
<1>7. AirOf(p, f) = two \o sil
  BY <1>5
<1> HIDE DEF two
<1>8. AirOf(p, f) \in Seq(AirSet) /\ Len(AirOf(p, f)) = P + C + Q
      /\ (\A k \in 1 .. P + C : AirOf(p, f)[k] = two[k])
      /\ (\A k \in 1 .. Q : AirOf(p, f)[P + C + k] = sil[k])
  <2>1. two \in Seq(AirSet) /\ sil \in Seq(AirSet)
    BY <1>4, <1>6
  <2>2. /\ two \o sil \in Seq(AirSet) /\ Len(two \o sil) = Len(two) + Len(sil)
        /\ \A k \in 1 .. Len(two) : (two \o sil)[k] = two[k]
        /\ \A k \in 1 .. Len(sil) : (two \o sil)[Len(two) + k] = sil[k]
    BY <2>1, ConcatFacts
  <2> QED  BY <1>4, <1>6, <1>7, <2>2
<1>9. ASSUME NEW k \in 1 .. P
      PROVE  AirOf(p, f)[k] = [kind |-> PreambleSymbol(k - 1), block |-> 0, i |-> 0]
  <2>1. k \in 1 .. P + C
    OBVIOUS
  <2> QED  BY <1>2, <1>6, <1>8, <2>1
<1>10. ASSUME NEW s \in 1 .. C PROVE AirOf(p, f)[P + s] = sym[s]
  <2>1. P + s \in 1 .. P + C
    OBVIOUS
  <2> QED  BY <1>6, <1>8, <2>1
<1>11. \A s \in 1 .. C : AirOf(p, f)[P + s]
         = [kind |-> "symbol", block |-> SymbolsOf(p, f)[s].block, i |-> SymbolsOf(p, f)[s].i]
  BY <1>3, <1>10 DEF sym
<1>12. \A k \in 1 .. Q : AirOf(p, f)[P + C + k] = [kind |-> "silence", block |-> 0, i |-> 0]
  BY <1>4, <1>8
<1> QED  BY <1>1, <1>8, <1>9, <1>11, <1>12

\* The air up to frame m.
LEMMA AirUpToFacts ==
  ASSUME NEW p \in Parameters, NEW m \in 0 .. NFrames
  PROVE  /\ AirUpTo(p, m) \in Seq(AirSet) /\ Len(AirUpTo(p, m)) \in Nat
         /\ m = 0 => AirUpTo(p, m) = <<>>
         /\ m < NFrames => AirUpTo(p, m + 1) = AirUpTo(p, m) \o AirOf(p, m + 1)
         /\ \A n \in m .. NFrames :
              /\ Len(AirUpTo(p, m)) <= Len(AirUpTo(p, n))
              /\ \A k \in 1 .. Len(AirUpTo(p, m)) : AirUpTo(p, n)[k] = AirUpTo(p, m)[k]
<1> DEFINE F == [g \in 1 .. NFrames |-> AirOf(p, g)]
<1>1. NFrames \in Nat
  BY TxAssumption
<1>2. F \in [1 .. NFrames -> Seq(AirSet)]
  <2>1. \A g \in 1 .. NFrames : AirOf(p, g) \in Seq(AirSet)
    BY AirOfFacts DEF Frames
  <2> QED  BY <2>1
<1>3. \A n \in 0 .. NFrames : AirUpTo(p, n) = UpTo(F, n)
  <2> SUFFICES ASSUME NEW n \in 0 .. NFrames PROVE AirUpTo(p, n) = UpTo(F, n)
    OBVIOUS
  <2>1. [g \in 1 .. n |-> AirOf(p, g)] = [g \in 1 .. n |-> F[g]]
    BY <1>1
  <2> QED  BY <2>1 DEF AirUpTo, UpTo
<1>4. \A g \in 1 .. NFrames : F[g] = AirOf(p, g)
  OBVIOUS
<1> HIDE DEF F
<1>5. AirUpTo(p, m) \in Seq(AirSet) /\ Len(AirUpTo(p, m)) \in Nat
  BY <1>1, <1>2, <1>3, UpToType
<1>6. m = 0 => AirUpTo(p, m) = <<>>
  BY <1>3, UpToZero
<1>7. m < NFrames => AirUpTo(p, m + 1) = AirUpTo(p, m) \o AirOf(p, m + 1)
  <2> SUFFICES ASSUME m < NFrames
               PROVE  AirUpTo(p, m + 1) = AirUpTo(p, m) \o AirOf(p, m + 1)
    OBVIOUS
  <2>1. m \in 0 .. NFrames - 1 /\ m + 1 \in 0 .. NFrames /\ m + 1 \in 1 .. NFrames
    BY <1>1
  <2>2. UpTo(F, m + 1) = UpTo(F, m) \o F[m + 1]
    BY <1>1, <1>2, <2>1, UpToNext, ZenonT(60)
  <2> QED  BY <1>3, <1>4, <2>1, <2>2
<1>8. ASSUME NEW n \in m .. NFrames
      PROVE  /\ Len(AirUpTo(p, m)) <= Len(AirUpTo(p, n))
             /\ \A k \in 1 .. Len(AirUpTo(p, m)) : AirUpTo(p, n)[k] = AirUpTo(p, m)[k]
  <2>1. n \in 0 .. NFrames /\ AirUpTo(p, n) = UpTo(F, n) /\ AirUpTo(p, m) = UpTo(F, m)
    BY <1>1, <1>3
  <2>2. NFrames \in Nat /\ m \in 0 .. NFrames /\ n \in m .. NFrames
    BY <1>1
  <2>3. /\ Len(UpTo(F, m)) <= Len(UpTo(F, n))
        /\ \A k \in 1 .. Len(UpTo(F, m)) : UpTo(F, n)[k] = UpTo(F, m)[k]
    BY <1>2, <2>2, UpToPrefix, Zenon
  <2> QED  BY <2>1, <2>3
<1> QED  BY <1>5, <1>6, <1>7, <1>8

----------------------------------------------------------------------------
(***************************************************************************)
(* What a step leaves alone stays in order.                                *)
(***************************************************************************)

LEMMA SizesFacts ==
  ASSUME NEW p \in Parameters
  PROVE  /\ WhiteSize(p) \in Sizes /\ HeadSize(p) \in Sizes /\ CheckSize(p) \in Sizes
         /\ SymSize(p) \in Sizes
         /\ \A f \in Frames : /\ WhiteSize(p)[f] = PayLen(p, f) /\ HeadSize(p)[f] = HeadedLen(p, f)
                              /\ CheckSize(p)[f] = FrameLen(p, f) /\ SymSize(p)[f] = SymbolCount(p, f)
<1>1. ASSUME NEW f \in Frames
      PROVE  /\ PayLen(p, f) \in Nat \ {0} /\ HeadedLen(p, f) \in Nat \ {0}
             /\ FrameLen(p, f) \in Nat \ {0} /\ SymbolCount(p, f) \in Nat \ {0}
  <2>1. PayLen(p, f) \in 2 .. 510 /\ HeadedLen(p, f) \in 2 .. 515 /\ FrameLen(p, f) \in 2 .. 519
    BY FrameFacts
  <2>2. SymbolCount(p, f) \in Nat \ {0}
    BY CountFacts
  <2> QED  BY <2>1, <2>2, SMTT(60)
<1> QED  BY <1>1 DEF WhiteSize, HeadSize, CheckSize, SymSize, Sizes

LEMMA WhiteKept ==
  ASSUME NEW p \in Parameters, UNCHANGED <<whitened, payload_str>>, PayloadsLeft, WhiteInOrder(p)
  PROVE  WhitePlaces' = WhitePlaces /\ PayloadsLeft' /\ WhiteInOrder(p)'
<1>1. WhitePlaces' = WhitePlaces
  BY DEF WhitePlaces, WhiteTo
<1>2. PayloadsLeft'
  BY DEF PayloadsLeft
<1>3. WhiteInOrder(p)'
  <2>1. whitened' = whitened
    OBVIOUS
  <2> QED  BY <1>1, <2>1 DEF WhiteInOrder
<1> QED  BY <1>1, <1>2, <1>3

LEMMA HeaderKept ==
  ASSUME NEW p \in Parameters, WhitePlaces'[1] = WhitePlaces[1], whitened' # <<>> \/ whitened = <<>>,
         UNCHANGED <<m_cnt_nibbles, m_cnt_header_nibbles>>, HeaderCounts(p)
  PROVE  HeaderCounts(p)'
BY DEF HeaderCounts

LEMMA HeadKept ==
  ASSUME NEW p \in Parameters, WhitePlaces'[1] = WhitePlaces[1],
         UNCHANGED <<headed, m_cnt_header_nibbles>>, HeadInOrder(p)
  PROVE  HeadPlaces(p)' = HeadPlaces(p) /\ HeadInOrder(p)'
<1>1. HeadedTo(p)' = HeadedTo(p)
  BY DEF HeadedTo
<1>2. HeadPlaces(p)' = HeadPlaces(p)
  BY <1>1 DEF HeadPlaces
<1>3. headed' = headed
  OBVIOUS
<1> QED  BY <1>2, <1>3 DEF HeadInOrder

LEMMA CrcKept ==
  ASSUME NEW p \in Parameters, HeadPlaces(p)'[1] = HeadPlaces(p)[1],
         UNCHANGED <<m_cnt, m_frame_len, m_payload>>, CrcCounts(p)
  PROVE  CrcCounts(p)'
BY DEF CrcCounts

LEMMA CheckKept ==
  ASSUME NEW p \in Parameters, HeadPlaces(p)'[1] = HeadPlaces(p)[1],
         UNCHANGED checked, CheckInOrder(p)
  PROVE  CheckPlaces(p)' = CheckPlaces(p) /\ CheckInOrder(p)'
<1>1. CheckPlaces(p)' = CheckPlaces(p)
  BY DEF CheckPlaces
<1>2. checked' = checked
  OBVIOUS
<1> QED  BY <1>1, <1>2 DEF CheckInOrder

LEMMA EncKept ==
  ASSUME NEW p \in Parameters, CheckPlaces(p)'[1] = CheckPlaces(p)[1], UNCHANGED enc_cnt, EncCounts(p)
  PROVE  EncCounts(p)'
BY DEF EncCounts

LEMMA CodeKept ==
  ASSUME NEW p \in Parameters, CheckPlaces(p)'[1] = CheckPlaces(p)[1],
         UNCHANGED coded, CodeInOrder(p)
  PROVE  CodePlaces(p)' = CodePlaces(p) /\ CodeInOrder(p)'
<1>1. CodePlaces(p)' = CodePlaces(p)
  BY DEF CodePlaces
<1>2. coded' = coded
  OBVIOUS
<1> QED  BY <1>1, <1>2 DEF CodeInOrder

LEMMA BlocksKept ==
  ASSUME NEW p \in Parameters, CodePlaces(p)'[1] = CodePlaces(p)[1],
         UNCHANGED <<cw_cnt, inter_frame_len, blocks>>, BlockCounts(p), BlocksInOrder(p)
  PROVE  BlockCounts(p)' /\ BlocksInOrder(p)'
<1>1. BlockCounts(p)'
  BY DEF BlockCounts
<1>2. blocks' = blocks
  OBVIOUS
<1>3. BlocksInOrder(p)'
  BY <1>2 DEF BlocksInOrder, Bare
<1> QED  BY <1>1, <1>3

LEMMA SymKept ==
  ASSUME NEW p \in Parameters, CodePlaces(p)'[1] = CodePlaces(p)[1],
         UNCHANGED tx_symbols, SymInOrder(p)
  PROVE  SymPlaces(p)' = SymPlaces(p) /\ SymInOrder(p)'
<1>1. SymTo(p)' = SymTo(p)
  BY DEF SymTo
<1>2. SymPlaces(p)' = SymPlaces(p)
  BY <1>1 DEF SymPlaces
<1>3. tx_symbols' = tx_symbols
  OBVIOUS
<1> QED  BY <1>2, <1>3 DEF SymInOrder

LEMMA ModKept ==
  ASSUME NEW p \in Parameters, SymPlaces(p)'[1] = SymPlaces(p)[1],
         tx_symbols' # <<>> \/ tx_symbols = <<>>,
         UNCHANGED modVars, ModCounts(p), AirInOrder(p)
  PROVE  ModCounts(p)' /\ AirInOrder(p)'
<1>1. UNCHANGED <<mod_frame_len, symb_cnt, preamb_symb_cnt, padd_cnt, air>>
  BY DEF modVars
<1>2. InFrame' = InFrame
  BY <1>1 DEF InFrame
<1>3. ModCounts(p)'
  BY <1>1, <1>2 DEF ModCounts
<1>4. AirInOrder(p)'
  BY <1>1, <1>2 DEF AirInOrder
<1> QED  BY <1>3, <1>4

----------------------------------------------------------------------------
\* The first items of a link, and how far one call may go.
HeadAt(link, pl, size, f, c, L, N) ==
  /\ L = Len(link) /\ N = size[f] /\ c < N /\ pl[1] = Place(f, c)
  /\ Window(link) = IF L <= N - c THEN L ELSE N - c
  /\ \A j \in 0 .. L : j < N - c => pl[1 + j].frame = f /\ pl[1 + j].n = c + j
  /\ \A j \in 0 .. L : j <= N - c => pl[1 + j] = After(size, f, c + j)

\* A tag is on the first item of a frame and has its size.
TagsAt(link, pl, size) ==
  \A k \in 1 .. Len(link) : link[k].len = IF pl[k].n = 0 THEN size[pl[k].frame] ELSE 0

LEMMA LinkHead ==
  ASSUME NEW size \in Sizes, NEW S, NEW link \in Seq(S), link # <<>>,
         NEW pl, Ordered(pl, Len(link), size),
         TagsAt(link, pl, size)
  PROVE  \E f \in Frames, c \in Nat, L \in Nat \ {0}, N \in Nat \ {0} :
           HeadAt(link, pl, size, f, c, L, N)
<1>1. PICK L \in Nat \ {0} : L = Len(link)
  OBVIOUS
<1>2. \A k \in 1 .. L : link[k].len # 0 <=> pl[k].n = 0
  <2> SUFFICES ASSUME NEW k \in 1 .. L PROVE link[k].len # 0 <=> pl[k].n = 0
    OBVIOUS
  <2>1. pl[k].frame \in Frames
    BY <1>1 DEF Ordered
  <2>2. size[pl[k].frame] \in Nat \ {0}
    BY <2>1 DEF Sizes
  <2>3. link[k].len = IF pl[k].n = 0 THEN size[pl[k].frame] ELSE 0
    BY <1>1 DEF TagsAt
  <2> QED  BY <2>2, <2>3
<1>3. PICK f \in Frames, c \in Nat : pl[1] = Place(f, c)
  <2>1. \E f \in Frames, n \in Nat : pl[1] = Place(f, n)
    BY <1>1, FirstOrdered
  <2> QED  BY <2>1
<1>4. /\ Window(link) = IF L <= size[f] - c THEN L ELSE size[f] - c
      /\ size[f] \in Nat \ {0} /\ c < size[f]
      /\ \A j \in 0 .. L : j <= size[f] - c => pl[1 + j] = After(size, f, c + j)
      /\ \A j \in 0 .. L : j < size[f] - c => pl[1 + j] = Place(f, c + j)
  BY <1>1, <1>2, <1>3, WindowIs
<1>5. ASSUME NEW j \in 0 .. L, j < size[f] - c PROVE pl[1 + j].frame = f /\ pl[1 + j].n = c + j
  <2>1. pl[1 + j] = Place(f, c + j)
    BY <1>4, <1>5
  <2> QED  BY <2>1 DEF Place
<1>6. PICK N \in Nat \ {0} : N = size[f]
  BY <1>4
<1>7. HeadAt(link, pl, size, f, c, L, N)
  BY <1>1, <1>3, <1>4, <1>5, <1>6 DEF HeadAt
<1> QED  BY <1>7

\* The smaller of a window and the room for items.
LEMMA PieceIs ==
  ASSUME NEW w \in Nat \ {0}, NEW r \in Nat \ {0}
  PROVE  Min({w, r}) \in 1 .. w /\ Min({w, r}) <= r
<1>1. Min({w, r}) = IF w <= r THEN w ELSE r
  BY MinOfTwo
<1> QED  BY <1>1

----------------------------------------------------------------------------
(***************************************************************************)
(* whitening appends a payload: the items of the next frame, behind those  *)
(* that are there.                                                         *)
(***************************************************************************)

LEMMA WhitenKeeps ==
  ASSUME NEW p \in Parameters, p = Given, Typed, Whiten,
         PayloadsLeft, WhiteInOrder(p), HeaderCounts(p)
  PROVE  /\ PayloadsLeft' /\ WhiteInOrder(p)' /\ HeaderCounts(p)'
         /\ WhitePlaces'[1] = WhitePlaces[1]
         /\ payload_str' \in Seq(Nat)
         /\ whitened' \in Seq(ItemSet) /\ Len(whitened') <= Capacity.whitened
<1> DEFINE size == WhiteSize(p)
           op == WhitePlaces
<1>1. PICK M \in Nat, K \in Nat : M = Len(whitened) /\ K = Capacity.whitened /\ M <= K
  <2>1. whitened \in Seq(ItemSet) /\ Len(whitened) <= Capacity.whitened
    BY DEF Typed, TypeOK
  <2>2. Len(whitened) \in Nat /\ Capacity.whitened \in Nat
    BY <2>1, TxAssumption
  <2> QED  BY <2>1, <2>2
<1>2. /\ whitened \in Seq(ItemSet) /\ payload_str \in Seq(Nat) /\ payload_str # <<>>
      /\ payloads = p.payloads
  BY DEF Typed, Given, Whiten
<1>3. PICK R \in Nat \ {0} : R = Len(payload_str)
  BY <1>2
<1>4. PICK f \in Frames : f = NFrames - R + 1
  <2>1. NFrames \in Nat /\ R <= NFrames
    BY <1>3, TxAssumption DEF PayloadsLeft
  <2>2. NFrames - R + 1 \in Frames
    BY <2>1 DEF Frames
  <2> QED  BY <2>2
<1>5. Head(payload_str) = f /\ f \in Nat
  <2>1. 1 \in 1 .. R /\ NFrames - R + 1 = f
    BY <1>4
  <2>2. NFrames \in Nat
    BY TxAssumption
  <2>3. payload_str[1] = NFrames - R + 1
    BY <1>3, <2>1 DEF PayloadsLeft
  <2> QED  BY <1>2, <1>4, <2>1, <2>3, FrameFacts
<1>6. PICK n \in Nat \ {0} : n = PayLen(p, f) /\ n = 2 * payloads[f] /\ size[f] = n
  <2>1. PayLen(p, f) \in 2 .. 510 /\ PayLen(p, f) = 2 * p.payloads[f] /\ size[f] = PayLen(p, f)
    BY FrameFacts, SizesFacts
  <2> HIDE DEF size
  <2>2. PICK m \in Nat : m = PayLen(p, f) /\ m # 0
    BY <2>1, SMTT(60)
  <2>3. payloads[f] = p.payloads[f]
    BY <1>2
  <2> QED  BY <2>1, <2>2, <2>3
<1> DEFINE new == [k \in 1 .. n |-> [frame |-> f, nibble |-> Nibble("pay", k - 1, <<>>),
                                     len |-> IF k = 1 THEN n ELSE 0]]
<1>7. M + n <= K /\ whitened' = whitened \o new /\ payload_str' = Tail(payload_str)
  <2>1. LET n2 == 2 * payloads[Head(payload_str)] IN
        /\ n2 <= Capacity.whitened - Len(whitened)
        /\ whitened' = whitened \o
             [k \in 1 .. n2 |-> [frame |-> Head(payload_str), nibble |-> Nibble("pay", k - 1, <<>>),
                                len |-> IF k = 1 THEN n2 ELSE 0]]
    BY DEF Whiten
  <2>2. n <= K - M
    BY <1>1, <1>5, <1>6, <2>1
  <2>3. whitened' = whitened \o new
    BY <1>5, <1>6, <2>1
  <2>4. M + n <= K
    BY <2>2
  <2> QED  BY <2>3, <2>4 DEF Whiten
<1>8. ASSUME NEW k \in 1 .. n
      PROVE  /\ new[k] = WhiteItem(p, f, k - 1) /\ new[k] \in ItemSet
             /\ new[k].frame = f /\ new[k].nibble.i = k - 1
  <2>1. <<>> \in Seq(Nat) /\ k - 1 \in Nat /\ (k = 1 <=> k - 1 = 0)
    OBVIOUS
  <2>2. Nibble("pay", k - 1, <<>>) \in NibbleSet /\ Nibble("pay", k - 1, <<>>).i = k - 1
    <3>1. PICK j \in Nat : j = k - 1
      BY <2>1
    <3>2. Nibble("pay", j, <<>>) \in NibbleSet /\ Nibble("pay", j, <<>>).i = j
      BY DEF Nibble, NibbleSet
    <3> QED  BY <3>1, <3>2
  <2>3. new[k] = [frame |-> f, nibble |-> Nibble("pay", k - 1, <<>>), len |-> IF k = 1 THEN n ELSE 0]
    OBVIOUS
  <2> HIDE DEF new
  <2>4. new[k] = WhiteItem(p, f, k - 1)
    BY <1>6, <2>1, <2>3 DEF WhiteItem
  <2>5. new[k] \in ItemSet
    BY <1>5, <2>2, <2>3 DEF ItemSet
  <2> QED  BY <2>2, <2>3, <2>4, <2>5
<1>9. new \in [1 .. n -> ItemSet]
  <2>1. \A k \in 1 .. n : new[k] \in ItemSet
    BY <1>8
  <2>2. new = [k \in 1 .. n |-> new[k]]
    OBVIOUS
  <2> HIDE DEF new
  <2> QED  BY <2>1, <2>2
<1> HIDE DEF new
<1>10. /\ whitened' \in Seq(ItemSet) /\ Len(whitened') = M + n
       /\ \A k \in 1 .. M : whitened'[k] = whitened[k]
       /\ \A k \in 1 .. n : whitened'[M + k] = new[k]
  <2>1. /\ whitened \o new \in Seq(ItemSet) /\ Len(whitened \o new) = Len(whitened) + n
        /\ \A k \in 1 .. Len(whitened) : (whitened \o new)[k] = whitened[k]
        /\ \A k \in 1 .. n : (whitened \o new)[Len(whitened) + k] = new[k]
    BY <1>2, <1>9, GrownFacts
  <2> QED  BY <1>1, <1>7, <2>1
<1>11. payload_str' \in Seq(Nat) /\ Len(payload_str') = R - 1
       /\ \A k \in 1 .. R - 1 : payload_str'[k] = payload_str[k + 1]
  BY <1>2, <1>3, <1>7
<1>12. NFrames \in Nat /\ R <= NFrames
  BY <1>3, TxAssumption DEF PayloadsLeft
<1>13. PayloadsLeft'
  <2>1. ASSUME NEW k \in 1 .. R - 1 PROVE payload_str'[k] = NFrames - (R - 1) + k
    <3>1. k + 1 \in 1 .. R /\ NFrames - R + (k + 1) = NFrames - (R - 1) + k
      BY <1>12
    <3>2. payload_str[k + 1] = NFrames - R + (k + 1)
      BY <1>3, <3>1 DEF PayloadsLeft
    <3> QED  BY <1>11, <3>1, <3>2
  <2>2. R - 1 <= NFrames
    BY <1>12
  <2> QED  BY <1>11, <2>1, <2>2 DEF PayloadsLeft
<1>14. WhiteTo = Place(f, 0) /\ WhiteTo' = Place(f + 1, 0)
  <2>1. NFrames - (R - 1) + 1 = f + 1
    BY <1>4, <1>12
  <2> QED  BY <1>3, <1>4, <1>11, <2>1 DEF WhiteTo
<1>15. PICK pl : pl = WhitePlaces'
  OBVIOUS
<1> HIDE DEF size, op
<1>16. Extended(op, pl, M, n, f, 0, size)
  <2>1. ASSUME NEW k \in 1 .. M PROVE pl[k] = op[k]
    <3>1. k # M + 1 /\ k # M + n + 1 /\ k \in 1 .. M + n + 1 /\ k \in 1 .. M + 1
      BY <1>6
    <3>2. pl[k] = Place(whitened'[k].frame, whitened'[k].nibble.i)
      BY <1>10, <1>15, <3>1 DEF WhitePlaces
    <3>3. op[k] = Place(whitened[k].frame, whitened[k].nibble.i)
      BY <1>1, <3>1 DEF WhitePlaces, op
    <3> QED  BY <1>10, <3>2, <3>3
  <2>2. ASSUME NEW k \in 1 .. n PROVE pl[M + k] = Place(f, 0 + k - 1)
    <3>1. M + k # M + n + 1 /\ M + k \in 1 .. M + n + 1 /\ 0 + k - 1 = k - 1
      BY <1>6
    <3>2. pl[M + k] = Place(whitened'[M + k].frame, whitened'[M + k].nibble.i)
      BY <1>10, <1>15, <3>1 DEF WhitePlaces
    <3>3. whitened'[M + k] = new[k] /\ new[k].frame = f /\ new[k].nibble.i = k - 1
      BY <1>8, <1>10
    <3> QED  BY <3>1, <3>2, <3>3
  <2>3. pl[M + n + 1] = After(size, f, 0 + n)
    <3>1. M + n + 1 \in 1 .. M + n + 1 /\ 0 + n = n
      BY <1>6
    <3>2. pl[M + n + 1] = WhiteTo'
      BY <1>10, <1>15, <3>1 DEF WhitePlaces
    <3> QED  BY <1>6, <1>14, <3>1, <3>2 DEF After
  <2>4. op[M + 1] = Place(f, 0)
    BY <1>1, <1>14 DEF WhitePlaces, op
  <2> QED  BY <1>6, <2>1, <2>2, <2>3, <2>4 DEF Extended
<1>17. Ordered(pl, M + n, size) /\ pl[1] = op[1]
  <2>1. Ordered(op, M, size)
    BY <1>1 DEF WhiteInOrder, op, size
  <2>2. size \in Sizes
    BY SizesFacts DEF size
  <2>3. n \in Nat /\ 0 \in Nat
    OBVIOUS
  <2> QED  BY <1>16, <2>1, <2>2, <2>3, AppendOrdered
<1>18. WhiteInOrder(p)'
  <2>1. ASSUME NEW k \in 1 .. M + n PROVE whitened'[k] = WhiteItem(p, pl[k].frame, pl[k].n)
    <3>1. CASE k \in 1 .. M
      <4>1. whitened'[k] = whitened[k] /\ pl[k] = op[k]
        BY <1>10, <1>16, <3>1 DEF Extended
      <4>2. whitened[k] = WhiteItem(p, op[k].frame, op[k].n)
        BY <1>1, <3>1 DEF WhiteInOrder, op
      <4> QED  BY <4>1, <4>2
    <3>2. CASE k \notin 1 .. M
      <4>1. PICK j \in 1 .. n : k = M + j
        <5>1. k - M \in 1 .. n /\ k = M + (k - M)
          BY <3>2
        <5> QED  BY <5>1
      <4>2. pl[k] = Place(f, 0 + j - 1) /\ whitened'[k] = WhiteItem(p, f, j - 1)
        BY <1>8, <1>10, <1>16, <4>1 DEF Extended
      <4>3. pl[k].frame = f /\ pl[k].n = j - 1
        BY <4>2 DEF Place
      <4> QED  BY <4>2, <4>3
    <3> QED  BY <3>1, <3>2
  <2> QED  BY <1>10, <1>15, <1>17, <2>1 DEF WhiteInOrder, size
<1>19. WhitePlaces'[1] = WhitePlaces[1]
  BY <1>15, <1>17 DEF op
<1>20. whitened' # <<>>
  <2>1. Len(whitened') # 0
    BY <1>6, <1>10
  <2> QED  BY <2>1
<1>21. HeaderCounts(p)'
  <2>1. UNCHANGED <<m_cnt_nibbles, m_cnt_header_nibbles>>
    BY DEF Whiten
  <2> QED  BY <1>19, <1>20, <2>1, HeaderKept
<1> QED  BY <1>1, <1>7, <1>10, <1>11, <1>13, <1>18, <1>19, <1>21

----------------------------------------------------------------------------
(***************************************************************************)
(* header: what it has counted says where in the frame it is, so a piece   *)
(* goes on where the piece before ended, header first, then the payload.   *)
(***************************************************************************)

LEMMA AddHeaderKeeps ==
  ASSUME NEW p \in Parameters, p = Given, Typed, AddHeader,
         WhiteInOrder(p), HeaderCounts(p), HeadInOrder(p)
  PROVE  /\ WhiteInOrder(p)' /\ HeaderCounts(p)' /\ HeadInOrder(p)'
         /\ HeadPlaces(p)'[1] = HeadPlaces(p)[1]
         /\ whitened' \in Seq(ItemSet) /\ Len(whitened') <= Len(whitened)
         /\ headed' \in Seq(ItemSet) /\ Len(headed') <= Capacity.headed
         /\ m_payload_len' \in Nat /\ m_tag_len' \in Nat /\ m_cnt_nibbles' \in Nat
         /\ m_cnt_header_nibbles' \in 0 .. 5
<1> DEFINE size == WhiteSize(p)
           size2 == HeadSize(p)
           ip == WhitePlaces
           op == HeadPlaces(p)
<1>1. PICK M \in Nat, K \in Nat : M = Len(headed) /\ K = Capacity.headed /\ M <= K
  <2>1. headed \in Seq(ItemSet) /\ Len(headed) <= Capacity.headed
    BY DEF Typed, TypeOK
  <2>2. Len(headed) \in Nat /\ Capacity.headed \in Nat
    BY <2>1, TxAssumption
  <2> QED  BY <2>1, <2>2
<1>2. /\ whitened \in Seq(ItemSet) /\ headed \in Seq(ItemSet) /\ whitened # <<>>
      /\ m_impl_head = p.impl_head /\ p.impl_head \in BOOLEAN
      /\ m_payload_len \in Nat /\ m_tag_len \in Nat
  BY ParamFacts DEF Typed, Given, AddHeader
<1>3. /\ Ordered(ip, Len(whitened), size) /\ size \in Sizes /\ size2 \in Sizes
      /\ \A k \in 1 .. Len(whitened) : whitened[k] = WhiteItem(p, ip[k].frame, ip[k].n)
  BY SizesFacts DEF WhiteInOrder
<1>4. TagsAt(whitened, ip, size)
  <2> SUFFICES ASSUME NEW k \in 1 .. Len(whitened)
               PROVE  whitened[k].len = IF ip[k].n = 0 THEN size[ip[k].frame] ELSE 0
    BY DEF TagsAt
  <2>1. k \in 1 .. Len(whitened) /\ ip[k].frame \in Frames
    BY <1>3 DEF Ordered
  <2>2. size[ip[k].frame] = PayLen(p, ip[k].frame)
    BY <2>1, SizesFacts
  <2>3. whitened[k] = WhiteItem(p, ip[k].frame, ip[k].n)
    BY <1>3
  <2> HIDE DEF ip, size
  <2> QED  BY <2>2, <2>3 DEF WhiteItem
<1>5. PICK f \in Frames, c \in Nat, L \in Nat \ {0}, N \in Nat \ {0} :
        /\ L = Len(whitened) /\ N = size[f] /\ c < N /\ ip[1] = Place(f, c)
        /\ Window(whitened) = IF L <= N - c THEN L ELSE N - c
        /\ \A j \in 0 .. L : j < N - c => ip[1 + j].frame = f /\ ip[1 + j].n = c + j
        /\ \A j \in 0 .. L : j <= N - c => ip[1 + j] = After(size, f, c + j)
  <2> HIDE DEF ip, size
  <2>1. \E f \in Frames, c \in Nat, L \in Nat \ {0}, N \in Nat \ {0} :
          HeadAt(whitened, ip, size, f, c, L, N)
    BY <1>2, <1>3, <1>4, LinkHead
  <2> QED  BY <2>1 DEF HeadAt
<1>6. N = PayLen(p, f) /\ f \in Nat
  BY <1>5, SizesFacts, FrameFacts
<1>7. PICK H \in Nat : /\ H = HLen(p) /\ H = (IF p.impl_head THEN 0 ELSE 5) /\ size2[f] = H + N
                       /\ HeadedLen(p, f) = H + N /\ FrameLen(p, f) >= H + N
  <2>1. size2[f] = HeadedLen(p, f) /\ HeadedLen(p, f) = HLen(p) + PayLen(p, f)
        /\ FrameLen(p, f) = HeadedLen(p, f) + CLen(p)
    BY SizesFacts, FrameFacts
  <2>2. CLen(p) \in Nat /\ HLen(p) \in Nat /\ HLen(p) = (IF p.impl_head THEN 0 ELSE 5)
    BY ParamFacts
  <2> HIDE DEF size2
  <2> QED  BY <1>6, <2>1, <2>2
<1> HIDE DEF ip, op, size, size2
<1>8. PICK a \in 0 .. 5 : /\ a = m_cnt_header_nibbles /\ a <= H /\ (c # 0 => a = 0)
  <2>1. m_cnt_header_nibbles \in 0 .. 5
    BY DEF Typed, TypeOK
  <2>2. ip[1].n = c
    BY <1>5 DEF Place
  <2>3. m_cnt_header_nibbles > 0 => m_cnt_header_nibbles <= H /\ c = 0
    BY <1>7, <2>2 DEF HeaderCounts, ip
  <2>4. m_cnt_header_nibbles <= H /\ (c # 0 => m_cnt_header_nibbles = 0)
    <3>1. CASE m_cnt_header_nibbles > 0
      BY <2>3, <3>1
    <3>2. CASE ~(m_cnt_header_nibbles > 0)
      <4>1. m_cnt_header_nibbles = 0
        BY <2>1, <3>2
      <4> QED  BY <4>1
    <3> QED  BY <3>1, <3>2
  <2> QED  BY <2>1, <2>4
<1>9. ASSUME NEW k \in 1 .. L, k - 1 < N - c PROVE whitened[k] = WhiteItem(p, f, c + k - 1)
  <2>1. k - 1 \in 0 .. L /\ k - 1 < N - c /\ 1 + (k - 1) = k /\ c + (k - 1) = c + k - 1
    BY <1>5, <1>9
  <2>2. ip[k].frame = f /\ ip[k].n = c + k - 1
    BY <1>5, <2>1
  <2> QED  BY <1>3, <1>5, <2>2
<1>10. /\ CntNibblesNow = c /\ whitened[1].frame = f
       /\ whitened[1].len = IF c = 0 THEN N ELSE 0
  <2>1. whitened[1] = WhiteItem(p, f, c)
    <3>1. 1 \in 1 .. L /\ 1 - 1 < N - c /\ c + 1 - 1 = c
      BY <1>5
    <3> QED  BY <1>9, <3>1
  <2>2. whitened[1].len = (IF c = 0 THEN N ELSE 0) /\ whitened[1].frame = f
    BY <1>6, <2>1 DEF WhiteItem
  <2>3. c # 0 => m_cnt_nibbles = c
    <3>1. ip[1].n = c
      BY <1>5 DEF Place
    <3> QED  BY <3>1 DEF HeaderCounts, ip
  <2> QED  BY <2>2, <2>3 DEF CntNibblesNow
\* One call: n items, h of them of the header.
<1>11. PICK n \in Nat, pl \in Nat, t \in Nat :
        /\ n >= 1 /\ n <= L /\ n <= N - c /\ n <= K - M
        /\ pl = m_payload_len' /\ pl = IF whitened[1].len # 0 THEN whitened[1].len \div 2 ELSE m_payload_len
        /\ t = m_tag_len' /\ t = IF whitened[1].len # 0 THEN whitened[1].len + HeaderLen ELSE m_tag_len
        /\ headed' = headed \o
             [k \in 1 .. n |->
               [frame |-> whitened[1].frame,
                nibble |-> IF k <= HeaderPart(n)
                           THEN Nibble("hdr", m_cnt_header_nibbles + k - 1, <<pl>>)
                           ELSE whitened[k - HeaderPart(n)].nibble,
                len |-> IF k = 1 /\ OpensFrame THEN t ELSE 0]]
        /\ whitened' = Taken(whitened, n - HeaderPart(n))
        /\ m_cnt_nibbles' = CntNibblesNow + (n - HeaderPart(n))
        /\ m_cnt_header_nibbles' = IF n > HeaderPart(n) THEN 0 ELSE m_cnt_header_nibbles + HeaderPart(n)
  <2>1. PICK pl, t : pl = m_payload_len' /\ t = m_tag_len'
    OBVIOUS
  <2>2. PICK noutput \in Offers(headed, "headed") :
          LET n == Min({Window(whitened), noutput})
              h == HeaderPart(n)
              item(k) ==
               [frame |-> whitened[1].frame,
                nibble |-> IF k <= h
                           THEN Nibble("hdr", m_cnt_header_nibbles + k - 1, <<pl>>)
                           ELSE whitened[k - h].nibble,
                len |-> IF k = 1 /\ OpensFrame THEN t ELSE 0]
          IN /\ pl = IF whitened[1].len # 0 THEN whitened[1].len \div 2 ELSE m_payload_len
             /\ t = IF whitened[1].len # 0 THEN whitened[1].len + HeaderLen ELSE m_tag_len
             /\ headed' = headed \o [k \in 1 .. n |-> item(k)]
             /\ whitened' = Taken(whitened, n - h)
             /\ m_cnt_nibbles' = CntNibblesNow + (n - h)
             /\ m_cnt_header_nibbles' = IF n > h THEN 0 ELSE m_cnt_header_nibbles + h
    BY <2>1, Zenon DEF AddHeader
  <2>3. noutput \in Nat \ {0} /\ noutput <= K - M
    BY <1>1 DEF Offers
  <2>4. PICK w \in Nat \ {0} : w = Window(whitened) /\ w <= L /\ w <= N - c
    BY <1>5, SMTT(60)
  <2>5. Min({w, noutput}) \in 1 .. w /\ Min({w, noutput}) <= noutput
    BY <2>3, PieceIs
  <2>6. PICK n \in Nat : n = Min({w, noutput}) /\ n >= 1 /\ n <= L /\ n <= N - c /\ n <= K - M
    <3>1. Min({w, noutput}) \in Nat /\ Min({w, noutput}) >= 1 /\ Min({w, noutput}) <= L
          /\ Min({w, noutput}) <= N - c /\ Min({w, noutput}) <= K - M
      BY <1>1, <2>3, <2>4, <2>5
    <3> QED  BY <3>1
  <2>7. pl \in Nat /\ t \in Nat
    <3>1. /\ pl = IF whitened[1].len # 0 THEN whitened[1].len \div 2 ELSE m_payload_len
          /\ t = IF whitened[1].len # 0 THEN whitened[1].len + HeaderLen ELSE m_tag_len
      BY <2>2
    <3>2. whitened[1].len \in Nat /\ HeaderLen \in Nat
      BY <1>10 DEF HeaderLen
    <3> QED  BY <1>2, <3>1, <3>2, SMTT(60)
  <2>8. /\ pl = IF whitened[1].len # 0 THEN whitened[1].len \div 2 ELSE m_payload_len
        /\ t = IF whitened[1].len # 0 THEN whitened[1].len + HeaderLen ELSE m_tag_len
        /\ headed' = headed \o
             [k \in 1 .. n |->
               [frame |-> whitened[1].frame,
                nibble |-> IF k <= HeaderPart(n)
                           THEN Nibble("hdr", m_cnt_header_nibbles + k - 1, <<pl>>)
                           ELSE whitened[k - HeaderPart(n)].nibble,
                len |-> IF k = 1 /\ OpensFrame THEN t ELSE 0]]
        /\ whitened' = Taken(whitened, n - HeaderPart(n))
        /\ m_cnt_nibbles' = CntNibblesNow + (n - HeaderPart(n))
        /\ m_cnt_header_nibbles' = IF n > HeaderPart(n) THEN 0 ELSE m_cnt_header_nibbles + HeaderPart(n)
    BY <2>2, <2>4, <2>6, Zenon
  <2> QED  BY <2>1, <2>6, <2>7, <2>8, Zenon
<1>12. PICK h \in Nat, d \in Nat, g \in Nat :
         /\ h = HeaderPart(n) /\ n = h + d /\ d = n - h
         /\ g = (IF c = 0 THEN a ELSE H + c)
         /\ (c # 0 => h = 0) /\ (c = 0 => a + h <= H) /\ (c = 0 /\ d # 0 => a + h = H)
  <2>1. HeaderPart(n) = IF p.impl_head \/ c # 0 THEN 0 ELSE Min({n, 5 - a})
    BY <1>2, <1>8, <1>10 DEF HeaderPart
  <2>2. Min({n, 5 - a}) = IF n <= 5 - a THEN n ELSE 5 - a
    <3>1. n \in Int /\ 5 - a \in Int
      OBVIOUS
    <3> QED  BY <3>1, MinOfTwo
  <2>3. PICK m \in Nat : m = Min({n, 5 - a}) /\ m <= n /\ a + m <= 5 /\ (m # n => a + m = 5)
    <3>1. n <= 5 - a => n \in Nat /\ a + n <= 5
      OBVIOUS
    <3>2. ~(n <= 5 - a) => 5 - a \in Nat /\ 5 - a <= n /\ a + (5 - a) = 5
      OBVIOUS
    <3> QED  BY <2>2, <3>1, <3>2
  <2>4. PICK h \in Nat : h = HeaderPart(n) /\ h <= n /\ (c # 0 => h = 0) /\ (c = 0 => a + h <= H)
                         /\ (c = 0 /\ h # n => a + h = H)
    <3>1. CASE p.impl_head
      <4>1. HeaderPart(n) = 0 /\ H = 0 /\ a = 0
        BY <1>7, <1>8, <2>1, <3>1
      <4> QED  BY <4>1
    <3>2. CASE ~p.impl_head /\ c # 0
      <4>1. HeaderPart(n) = 0
        BY <2>1, <3>2
      <4> QED  BY <3>2, <4>1
    <3>3. CASE ~p.impl_head /\ c = 0
      <4>1. HeaderPart(n) = m /\ H = 5
        BY <1>7, <2>1, <2>3, <3>3
      <4>2. m <= n /\ a + m <= H /\ (m # n => a + m = H)
        BY <2>3, <4>1
      <4> QED  BY <3>3, <4>1, <4>2
    <3> QED  BY <3>1, <3>2, <3>3
  <2>5. n - h \in Nat /\ n = h + (n - h) /\ (n - h # 0 <=> h # n)
    BY <2>4
  <2>6. (IF c = 0 THEN a ELSE H + c) \in Nat
    OBVIOUS
  <2> QED  BY <2>4, <2>5, <2>6
\* Where the items written are in their frame.
<1>13. /\ (d # 0 => g + n = H + c + d) /\ (d = 0 => c = 0 /\ g + n = a + h) /\ g + n <= H + N
       /\ c + d <= N /\ (c + d = 0 <=> d = 0) /\ (g + n = H + N <=> c + d = N)
       /\ (g = 0 <=> c = 0 /\ a = 0) /\ d <= L
  <2>0. n >= 1 /\ n <= L /\ n <= N - c /\ c < N
    BY <1>5, <1>11
  <2>1. CASE c = 0
    <3>1. g = a /\ a + h <= H /\ (d # 0 => a + h = H) /\ n = h + d
      BY <1>12, <2>1
    <3>2. n <= N /\ N >= 1
      BY <2>0, <2>1
    <3>3. CASE d = 0
      <4>1. g + n = a + h /\ g + n <= H + N /\ d <= L /\ g + n # H + N
        BY <3>1, <3>2, <3>3
      <4> QED  BY <2>1, <3>1, <3>2, <3>3, <4>1
    <3>4. CASE d # 0
      <4>1. g + n = H + d
        BY <3>1, <3>4
      <4>2. d <= N /\ d <= L
        BY <2>0, <3>1, <3>2
      <4> QED  BY <2>1, <3>1, <3>2, <3>4, <4>1, <4>2
    <3> QED  BY <3>3, <3>4
  <2>2. CASE c # 0
    <3>1. g = H + c /\ h = 0 /\ n = h + d
      BY <1>12, <2>2
    <3>2. d = n /\ g + n = H + c + d /\ g # 0
      BY <2>2, <3>1
    <3>3. c + d <= N /\ g + n <= H + N /\ c + d # 0 /\ d # 0 /\ d <= L
      BY <2>0, <2>2, <3>2
    <3>4. g + n = H + N <=> c + d = N
      BY <3>2
    <3> QED  BY <2>2, <3>2, <3>3, <3>4
  <2> QED  BY <2>1, <2>2
<1> DEFINE new == [k \in 1 .. n |->
               [frame |-> whitened[1].frame,
                nibble |-> IF k <= HeaderPart(n)
                           THEN Nibble("hdr", m_cnt_header_nibbles + k - 1, <<pl>>)
                           ELSE whitened[k - HeaderPart(n)].nibble,
                len |-> IF k = 1 /\ OpensFrame THEN t ELSE 0]]
<1>14. ASSUME NEW k \in 1 .. n
       PROVE  /\ new[k].frame = f /\ new[k].nibble = NibbleOf(p, f, g + k - 1)
              /\ new[k].len = IF g + k - 1 = 0 THEN H + N ELSE 0
              /\ new[k] = [frame |-> f, nibble |-> new[k].nibble, len |-> new[k].len]
  <2>1. /\ new[k].frame = f
        /\ new[k].nibble = IF k <= h THEN Nibble("hdr", a + k - 1, <<pl>>) ELSE whitened[k - h].nibble
        /\ new[k].len = IF k = 1 /\ OpensFrame THEN t ELSE 0
        /\ new[k] = [frame |-> f, nibble |-> new[k].nibble, len |-> new[k].len]
    BY <1>8, <1>10, <1>12
  <2> HIDE DEF new
  <2>2. c = 0 => pl = p.payloads[f] /\ t = H + N
    <3> SUFFICES ASSUME c = 0 PROVE pl = p.payloads[f] /\ t = H + N
      OBVIOUS
    <3>1. whitened[1].len = N /\ N # 0
      BY <1>10
    <3>2. pl = N \div 2 /\ t = N + HeaderLen
      BY <1>11, <3>1
    <3>3. HeaderLen = H
      BY <1>2, <1>7 DEF HeaderLen
    <3>4. N = 2 * p.payloads[f] /\ p.payloads[f] \in 1 .. 255
      BY <1>6, FrameFacts
    <3>5. N \div 2 = p.payloads[f]
      BY <3>4
    <3>6. N + H = H + N
      OBVIOUS
    <3> QED  BY <3>2, <3>3, <3>5, <3>6
  <2>3. OpensFrame <=> g = 0
    BY <1>8, <1>10, <1>13 DEF OpensFrame
  <2>4. new[k].len = IF g + k - 1 = 0 THEN H + N ELSE 0
    <3>1. g + k - 1 = 0 <=> k = 1 /\ g = 0
      OBVIOUS
    <3> QED  BY <1>13, <2>1, <2>2, <2>3, <3>1
  <2>5. new[k].nibble = NibbleOf(p, f, g + k - 1)
    <3>1. CASE k <= h
      <4>1. c = 0 /\ g = a /\ a + k - 1 \in 0 .. H - 1
        <5>1. h # 0
          BY <3>1
        <5>2. c = 0
          BY <1>12, <5>1
        <5>3. a + h <= H /\ g = a
          BY <1>12, <5>2
        <5> QED  BY <3>1, <5>2, <5>3
      <4>2. NibbleOf(p, f, a + k - 1) = Nibble("hdr", a + k - 1, <<p.payloads[f]>>)
        BY <1>7, <4>1, NibblesFacts, ZenonT(60)
      <4> QED  BY <2>1, <2>2, <3>1, <4>1, <4>2
    <3>2. CASE ~(k <= h)
      <4>1. PICK j \in Nat : j = k - h /\ j >= 1 /\ j <= d
        <5>1. k - h \in Nat /\ k - h >= 1 /\ k - h <= d
          BY <1>12, <3>2
        <5> QED  BY <5>1
      <4>2. c + j - 1 \in 0 .. N - 1 /\ j \in 1 .. L /\ j - 1 < N - c
        BY <1>13, <4>1
      <4>7. \A i \in 0 .. N - 1 : NibbleOf(p, f, H + i) = Nibble("pay", i, <<>>)
        <5>1. \A i \in 0 .. PayLen(p, f) - 1 : NibbleOf(p, f, HLen(p) + i) = Nibble("pay", i, <<>>)
          BY NibblesFacts
        <5>2. N = PayLen(p, f) /\ H = HLen(p)
          BY <1>6, <1>7
        <5> QED  BY <5>1, <5>2
      <4>3. whitened[j] = WhiteItem(p, f, c + j - 1)
        BY <1>9, <4>2
      <4>4. whitened[j].nibble = Nibble("pay", c + j - 1, <<>>)
        BY <4>3 DEF WhiteItem
      <4>5. NibbleOf(p, f, H + (c + j - 1)) = Nibble("pay", c + j - 1, <<>>)
        BY <4>2, <4>7
      <4>6. g + k - 1 = H + (c + j - 1)
        <5>1. d # 0 /\ k = h + j
          BY <4>1
        <5>2. g + n = H + c + d /\ n = h + d
          BY <1>12, <1>13, <5>1
        <5> QED  BY <5>1, <5>2
      <4> QED  BY <2>1, <3>2, <4>1, <4>4, <4>5, <4>6
    <3> QED  BY <3>1, <3>2
  <2> QED  BY <2>1, <2>4, <2>5
<1>15. headed' = headed \o new /\ whitened' = Taken(whitened, d) /\ m_cnt_nibbles' = c + d
       /\ m_cnt_header_nibbles' = IF d # 0 THEN 0 ELSE a + h
  <2>1. n > h <=> d # 0
    BY <1>12
  <2>2. headed' = headed \o new
    BY <1>11
  <2>3. whitened' = Taken(whitened, d) /\ m_cnt_nibbles' = c + d
    BY <1>10, <1>11, <1>12
  <2>4. m_cnt_header_nibbles' = IF n > h THEN 0 ELSE a + h
    BY <1>8, <1>11, <1>12
  <2> HIDE DEF new
  <2> QED  BY <2>1, <2>2, <2>3, <2>4
<1>16. new = [k \in 1 .. n |-> new[k]]
  OBVIOUS
<1> HIDE DEF new
<1>17. ASSUME NEW k \in 1 .. n
       PROVE  /\ new[k] = HeadItem(p, f, g + k - 1) /\ new[k] \in ItemSet
              /\ new[k].frame = f /\ NibbleIndex(p, new[k]) = g + k - 1
  <2>1. PICK j \in Nat : j = g + k - 1 /\ j \in 0 .. FrameLen(p, f) - 1
    <3>1. PICK F \in Nat : F = FrameLen(p, f) /\ F >= H + N
      BY <1>7, FrameFacts, SMTT(60)
    <3>2. g + k - 1 \in Nat /\ g + k - 1 <= F - 1
      BY <1>13, <3>1
    <3> QED  BY <3>1, <3>2
  <2>2. new[k].frame = f /\ new[k].nibble = NibbleOf(p, f, j)
        /\ new[k] = [frame |-> f, nibble |-> NibbleOf(p, f, j), len |-> IF j = 0 THEN H + N ELSE 0]
    BY <1>14, <2>1
  <2>3. NibbleIndex(p, new[k]) = j /\ NibbleOf(p, f, j) \in NibbleSet
    BY <2>1, <2>2, NibbleIndexIs
  <2>4. new[k] = HeadItem(p, f, j)
    BY <1>7, <2>2 DEF HeadItem
  <2>5. new[k] \in ItemSet
    BY <1>6, <2>2, <2>3 DEF ItemSet
  <2> QED  BY <2>1, <2>2, <2>3, <2>4, <2>5
<1>18. new \in [1 .. n -> ItemSet]
  BY <1>16, <1>17
<1>19. /\ headed' \in Seq(ItemSet) /\ Len(headed') = M + n
       /\ \A k \in 1 .. M : headed'[k] = headed[k]
       /\ \A k \in 1 .. n : headed'[M + k] = new[k]
  <2>1. /\ headed \o new \in Seq(ItemSet) /\ Len(headed \o new) = Len(headed) + n
        /\ \A k \in 1 .. Len(headed) : (headed \o new)[k] = headed[k]
        /\ \A k \in 1 .. n : (headed \o new)[Len(headed) + k] = new[k]
    BY <1>2, <1>18, GrownFacts
  <2> QED  BY <1>1, <1>15, <2>1
<1>20. /\ whitened' \in Seq(ItemSet) /\ Len(whitened') = L - d /\ d \in 0 .. L
       /\ \A k \in 1 .. L - d : whitened'[k] = whitened[d + k]
  <2>1. d \in 0 .. Len(whitened) /\ d \in 0 .. L
    BY <1>5, <1>13
  <2>2. Taken(whitened, d) \in Seq(ItemSet) /\ Len(Taken(whitened, d)) = Len(whitened) - d
        /\ \A k \in 1 .. (Len(whitened) - d) : Taken(whitened, d)[k] = whitened[d + k]
    BY <1>2, <2>1, SuffixFacts
  <2> QED  BY <1>5, <1>15, <2>1, <2>2
<1>21. \A k \in 1 .. L - d + 1 : WhitePlaces'[k] = ip[d + k]
  <2> SUFFICES ASSUME NEW k \in 1 .. L - d + 1 PROVE WhitePlaces'[k] = ip[d + k]
    OBVIOUS
  <2>1. d + k \in 1 .. L + 1 /\ (d + k = L + 1 <=> k = L - d + 1)
    BY <1>20
  <2>2. CASE k = L - d + 1
    <3>1. WhitePlaces'[k] = WhiteTo'
      BY <1>20, <2>2 DEF WhitePlaces
    <3>2. ip[d + k] = WhiteTo
      BY <1>5, <2>1, <2>2 DEF WhitePlaces, ip
    <3>3. WhiteTo' = WhiteTo
      BY DEF WhiteTo, AddHeader
    <3> QED  BY <3>1, <3>2, <3>3
  <2>3. CASE k # L - d + 1
    <3>0. k \in 1 .. L - d
      BY <1>20, <2>3
    <3>1. whitened'[k] = whitened[d + k]
      BY <1>20, <3>0
    <3>2. WhitePlaces'[k] = Place(whitened'[k].frame, whitened'[k].nibble.i)
      BY <1>20, <2>3 DEF WhitePlaces
    <3>3. ip[d + k] = Place(whitened[d + k].frame, whitened[d + k].nibble.i)
      BY <1>5, <2>1, <2>3 DEF WhitePlaces, ip
    <3> QED  BY <3>1, <3>2, <3>3
  <2> QED  BY <2>2, <2>3
<1>22. WhiteInOrder(p)'
  <2>1. PICK pls : pls = WhitePlaces'
    OBVIOUS
  <2>2. Ordered(pls, L - d, size)
    <3>1. \A k \in 1 .. L - d + 1 : pls[k] = ip[d + k]
      BY <1>21, <2>1
    <3> QED  BY <1>3, <1>5, <1>20, <3>1, TakenOrdered, ZenonT(60)
  <2>3. \A k \in 1 .. L - d : whitened'[k] = WhiteItem(p, pls[k].frame, pls[k].n)
    <3> SUFFICES ASSUME NEW k \in 1 .. L - d PROVE whitened'[k] = WhiteItem(p, pls[k].frame, pls[k].n)
      OBVIOUS
    <3>1. whitened'[k] = whitened[d + k] /\ pls[k] = ip[d + k] /\ d + k \in 1 .. L
      BY <1>20, <1>21, <2>1
    <3> QED  BY <1>3, <1>5, <3>1
  <2> QED  BY <1>20, <2>1, <2>2, <2>3 DEF WhiteInOrder, size
<1>23. PICK q : q = WhitePlaces'[1] /\ q = After(size, f, c + d)
  <2>1. 1 \in 1 .. L - d + 1 /\ d \in 0 .. L /\ d <= N - c /\ d + 1 = 1 + d
    BY <1>13, <1>20
  <2>2. WhitePlaces'[1] = ip[d + 1]
    BY <1>21, <2>1
  <2> QED  BY <1>5, <2>1, <2>2
<1>24. /\ q.n = (IF c + d = N THEN 0 ELSE c + d)
       /\ q.frame = (IF c + d = N THEN f + 1 ELSE f)
  BY <1>5, <1>23 DEF After, Place
<1>25. HeaderCounts(p)'
  <2>1. q.n > 0 => m_cnt_nibbles' = q.n
    BY <1>15, <1>24
  <2>2. m_cnt_header_nibbles' > 0 => m_cnt_header_nibbles' <= H /\ q.n = 0 /\ whitened' # <<>>
    <3> SUFFICES ASSUME m_cnt_header_nibbles' > 0
                 PROVE  m_cnt_header_nibbles' <= H /\ q.n = 0 /\ whitened' # <<>>
      OBVIOUS
    <3>1. d = 0 /\ m_cnt_header_nibbles' = a + h
      BY <1>15
    <3>2. c = 0 /\ a + h <= H
      BY <1>12, <1>13, <3>1
    <3>3. q.n = 0
      BY <1>5, <1>24, <3>1, <3>2
    <3>4. Len(whitened') # 0
      BY <1>20, <3>1
    <3>5. whitened' # <<>>
      BY <3>4
    <3> QED  BY <3>1, <3>2, <3>3, <3>5
  <2> QED  BY <1>7, <1>23, <2>1, <2>2 DEF HeaderCounts
<1>26. HeadedTo(p)' = After(size2, f, g + n)
  <2>1. HeadedTo(p)' = Place(q.frame, IF q.n = 0 THEN m_cnt_header_nibbles' ELSE H + q.n)
    BY <1>7, <1>23 DEF HeadedTo
  <2>2. CASE c + d = N
    <3>1. d # 0
      BY <1>5, <2>2
    <3>2. HeadedTo(p)' = Place(f + 1, 0)
      BY <1>15, <1>24, <2>1, <2>2, <3>1
    <3> QED  BY <1>7, <1>13, <2>2, <3>2 DEF After
  <2>3. CASE c + d # N /\ d = 0
    <3>1. q.n = 0 /\ q.frame = f /\ m_cnt_header_nibbles' = a + h /\ g + n = a + h
      BY <1>13, <1>15, <1>24, <2>3
    <3> QED  BY <1>7, <1>13, <2>1, <2>3, <3>1 DEF After
  <2>4. CASE c + d # N /\ d # 0
    <3>1. q.n = c + d /\ q.frame = f /\ q.n # 0
      BY <1>13, <1>24, <2>4
    <3>2. g + n = H + q.n
      BY <1>13, <2>4, <3>1
    <3> QED  BY <1>7, <1>13, <2>1, <2>4, <3>1, <3>2 DEF After
  <2> QED  BY <2>2, <2>3, <2>4
<1>27. PICK pls : pls = HeadPlaces(p)'
  OBVIOUS
<1>28. Extended(op, pls, M, n, f, g, size2)
  <2>1. ASSUME NEW k \in 1 .. M PROVE pls[k] = op[k]
    <3>1. k # M + 1 /\ k # M + n + 1 /\ k \in 1 .. M + n + 1 /\ k \in 1 .. M + 1
      OBVIOUS
    <3>2. pls[k] = Place(headed'[k].frame, NibbleIndex(p, headed'[k]))
      BY <1>19, <1>27, <3>1 DEF HeadPlaces
    <3>3. op[k] = Place(headed[k].frame, NibbleIndex(p, headed[k]))
      BY <1>1, <3>1 DEF HeadPlaces, op
    <3> QED  BY <1>19, <3>2, <3>3
  <2>2. ASSUME NEW k \in 1 .. n PROVE pls[M + k] = Place(f, g + k - 1)
    <3>1. M + k # M + n + 1 /\ M + k \in 1 .. M + n + 1
      OBVIOUS
    <3>2. pls[M + k] = Place(headed'[M + k].frame, NibbleIndex(p, headed'[M + k]))
      BY <1>19, <1>27, <3>1 DEF HeadPlaces
    <3>3. headed'[M + k] = new[k] /\ new[k].frame = f /\ NibbleIndex(p, new[k]) = g + k - 1
      BY <1>17, <1>19
    <3> QED  BY <3>2, <3>3
  <2>3. pls[M + n + 1] = After(size2, f, g + n)
    <3>1. M + n + 1 \in 1 .. M + n + 1
      OBVIOUS
    <3>2. pls[M + n + 1] = HeadedTo(p)'
      BY <1>19, <1>27, <3>1 DEF HeadPlaces
    <3> QED  BY <1>26, <3>2
  <2>4. op[M + 1] = Place(f, g)
    <3>1. op[M + 1] = HeadedTo(p)
      BY <1>1 DEF HeadPlaces, op
    <3>2. ip[1].frame = f /\ ip[1].n = c
      BY <1>5 DEF Place
    <3>3. HeadedTo(p) = Place(f, IF c = 0 THEN a ELSE H + c)
      BY <1>7, <1>8, <3>2 DEF HeadedTo, ip
    <3> QED  BY <1>12, <3>1, <3>3
  <2> QED  BY <1>7, <1>13, <2>1, <2>2, <2>3, <2>4 DEF Extended
<1>29. Ordered(pls, M + n, size2) /\ pls[1] = op[1]
  <2>1. Ordered(op, M, size2)
    BY <1>1 DEF HeadInOrder, op, size2
  <2> QED  BY <1>3, <1>28, <2>1, AppendOrdered
<1>30. HeadInOrder(p)'
  <2>1. ASSUME NEW k \in 1 .. M + n PROVE headed'[k] = HeadItem(p, pls[k].frame, pls[k].n)
    <3>1. CASE k \in 1 .. M
      <4>1. headed'[k] = headed[k] /\ pls[k] = op[k]
        BY <1>19, <1>28, <3>1 DEF Extended
      <4>2. headed[k] = HeadItem(p, op[k].frame, op[k].n)
        BY <1>1, <3>1 DEF HeadInOrder, op
      <4> QED  BY <4>1, <4>2
    <3>2. CASE k \notin 1 .. M
      <4>1. PICK j \in 1 .. n : k = M + j
        <5>1. k - M \in 1 .. n /\ k = M + (k - M)
          BY <3>2
        <5> QED  BY <5>1
      <4>2. pls[k] = Place(f, g + j - 1) /\ headed'[k] = HeadItem(p, f, g + j - 1)
        BY <1>17, <1>19, <1>28, <4>1 DEF Extended
      <4>3. pls[k].frame = f /\ pls[k].n = g + j - 1
        BY <4>2 DEF Place
      <4> QED  BY <4>2, <4>3
    <3> QED  BY <3>1, <3>2
  <2> QED  BY <1>19, <1>27, <1>29, <2>1 DEF HeadInOrder, size2
<1>31. Len(whitened') <= Len(whitened) /\ Len(headed') <= Capacity.headed
  <2>1. L - d <= L /\ M + n <= K
    BY <1>1, <1>11, SMTT(60)
  <2> QED  BY <1>1, <1>5, <1>19, <1>20, <2>1
<1>32. m_cnt_nibbles' \in Nat /\ m_cnt_header_nibbles' \in 0 .. 5
  <2>1. d = 0 => a + h <= H
    BY <1>12, <1>13
  <2>2. H <= 5
    BY <1>7
  <2>3. m_cnt_header_nibbles' \in 0 .. 5
    <3>1. CASE d = 0
      <4>1. m_cnt_header_nibbles' = a + h
        BY <1>15, <3>1
      <4> QED  BY <2>1, <2>2, <3>1, <4>1
    <3>2. CASE d # 0
      <4>1. m_cnt_header_nibbles' = 0
        BY <1>15, <3>2
      <4> QED  BY <4>1
    <3> QED  BY <3>1, <3>2
  <2> QED  BY <1>15, <2>3
<1> QED  BY <1>11, <1>19, <1>20, <1>22, <1>25, <1>27, <1>29, <1>30, <1>31, <1>32 DEF op

----------------------------------------------------------------------------
(***************************************************************************)
(* add_crc passes a piece on and puts the CRC behind the last nibble of the*)
(* frame, when m_payload holds this frame's payload alone.                 *)
(***************************************************************************)

LEMMA AddCrcKeeps ==
  ASSUME NEW p \in Parameters, p = Given, Typed, AddCrc,
         HeadInOrder(p), CrcCounts(p), CheckInOrder(p), HeadedTo(p)' = HeadedTo(p)
  PROVE  /\ HeadInOrder(p)' /\ CrcCounts(p)' /\ CheckInOrder(p)'
         /\ CheckPlaces(p)'[1] = CheckPlaces(p)[1]
         /\ headed' \in Seq(ItemSet) /\ Len(headed') <= Len(headed)
         /\ checked' \in Seq(ItemSet) /\ Len(checked') <= Capacity.checked
         /\ m_cnt' \in Nat /\ m_frame_len' \in Nat /\ m_payload' \in Seq(Nat)
<1> DEFINE size == HeadSize(p)
           size2 == CheckSize(p)
           ip == HeadPlaces(p)
           op == CheckPlaces(p)
<1>1. PICK M \in Nat, K \in Nat : M = Len(checked) /\ K = Capacity.checked /\ M <= K
  <2>1. checked \in Seq(ItemSet) /\ Len(checked) <= Capacity.checked
    BY DEF Typed, TypeOK
  <2>2. Len(checked) \in Nat /\ Capacity.checked \in Nat
    BY <2>1, TxAssumption
  <2> QED  BY <2>1, <2>2
<1>2. /\ headed \in Seq(ItemSet) /\ checked \in Seq(ItemSet) /\ headed # <<>>
      /\ m_has_crc = p.has_crc /\ p.has_crc \in BOOLEAN /\ m_payload \in Seq(Nat)
  BY ParamFacts DEF Typed, Given, AddCrc
<1>3. /\ Ordered(ip, Len(headed), size) /\ size \in Sizes /\ size2 \in Sizes
      /\ \A k \in 1 .. Len(headed) : headed[k] = HeadItem(p, ip[k].frame, ip[k].n)
  BY SizesFacts DEF HeadInOrder
<1>4. TagsAt(headed, ip, size)
  <2> SUFFICES ASSUME NEW k \in 1 .. Len(headed)
               PROVE  headed[k].len = IF ip[k].n = 0 THEN size[ip[k].frame] ELSE 0
    BY DEF TagsAt
  <2>1. k \in 1 .. Len(headed) /\ ip[k].frame \in Frames
    BY <1>3 DEF Ordered
  <2>2. size[ip[k].frame] = HeadedLen(p, ip[k].frame)
    BY <2>1, SizesFacts
  <2>3. headed[k] = HeadItem(p, ip[k].frame, ip[k].n)
    BY <1>3
  <2> HIDE DEF ip, size
  <2> QED  BY <2>2, <2>3 DEF HeadItem
<1>5. PICK f \in Frames, c \in Nat, L \in Nat \ {0}, N \in Nat \ {0} :
        /\ L = Len(headed) /\ N = size[f] /\ c < N /\ ip[1] = Place(f, c)
        /\ Window(headed) = IF L <= N - c THEN L ELSE N - c
        /\ \A j \in 0 .. L : j < N - c => ip[1 + j].frame = f /\ ip[1 + j].n = c + j
        /\ \A j \in 0 .. L : j <= N - c => ip[1 + j] = After(size, f, c + j)
  <2> HIDE DEF ip, size
  <2>1. \E f \in Frames, c \in Nat, L \in Nat \ {0}, N \in Nat \ {0} :
          HeadAt(headed, ip, size, f, c, L, N)
    BY <1>2, <1>3, <1>4, LinkHead
  <2> QED  BY <2>1 DEF HeadAt
<1>6. N = HeadedLen(p, f) /\ f \in Nat
  BY <1>5, SizesFacts, FrameFacts
<1>a. PICK C \in Nat : /\ C = CLen(p) /\ C = (IF p.has_crc THEN 4 ELSE 0)
                       /\ size2[f] = N + C /\ FrameLen(p, f) = N + C
  <2>1. size2[f] = FrameLen(p, f)
    BY SizesFacts
  <2> QED  BY <1>6, <2>1, FrameFacts, ParamFacts
<1> HIDE DEF ip, op, size, size2
<1>7. PICK n \in Nat :
        /\ n >= 1 /\ n <= L /\ n <= N - c /\ n <= K - M - 4
        /\ checked' = checked
             \o [k \in 1 .. n |-> [headed[k] EXCEPT
                   !.len = IF @ # 0 THEN @ + (IF m_has_crc THEN 4 ELSE 0) ELSE 0]]
             \o (IF EndsFrame(n) THEN CrcNibbles ELSE <<>>)
        /\ headed' = Taken(headed, n)
        /\ m_cnt' = CntNow + n
        /\ m_frame_len' = FrameLenNow
        /\ m_payload' = IF EndsFrame(n) THEN <<>> ELSE PayloadNow
  <2>1. PICK noutput \in Offers(checked, "checked") :
          LET n == Min({Window(headed), noutput - 4}) IN
          /\ n > 0
          /\ checked' = checked
               \o [k \in 1 .. n |-> [headed[k] EXCEPT
                     !.len = IF @ # 0 THEN @ + (IF m_has_crc THEN 4 ELSE 0) ELSE 0]]
               \o (IF EndsFrame(n) THEN CrcNibbles ELSE <<>>)
          /\ headed' = Taken(headed, n)
          /\ m_cnt' = CntNow + n
          /\ m_frame_len' = FrameLenNow
          /\ m_payload' = IF EndsFrame(n) THEN <<>> ELSE PayloadNow
    BY DEF AddCrc
  <2>2. noutput \in Nat \ {0} /\ noutput <= K - M
    BY <1>1 DEF Offers
  <2>3. PICK w \in Nat \ {0} : w = Window(headed) /\ w <= L /\ w <= N - c
    BY <1>5, SMTT(60)
  <2>4. Min({w, noutput - 4}) = IF w <= noutput - 4 THEN w ELSE noutput - 4
    <3>1. w \in Int /\ noutput - 4 \in Int
      BY <2>2
    <3> QED  BY <3>1, MinOfTwo
  <2>5. PICK m \in Int : m = Min({w, noutput - 4}) /\ m <= w /\ m <= noutput - 4
    BY <2>2, <2>4
  <2>6. m > 0
    BY <2>1, <2>3, <2>5
  <2>7. m \in Nat /\ m >= 1 /\ m <= L /\ m <= N - c /\ m <= K - M - 4
    <3>1. m \in Nat /\ m >= 1
      BY <2>5, <2>6
    <3>2. m <= L /\ m <= N - c
      <4>1. m <= w /\ w <= L /\ w <= N - c
        BY <2>3, <2>5
      <4> QED  BY <4>1
    <3>3. m <= K - M - 4
      <4>1. m <= noutput - 4 /\ noutput <= K - M
        BY <2>2, <2>5
      <4> QED  BY <1>1, <2>2, <4>1
    <3> QED  BY <3>1, <3>2, <3>3
  <2> QED  BY <2>1, <2>3, <2>5, <2>7
<1>b. c + n \in Nat /\ c + n <= N
  BY <1>5, <1>7, SMTT(60)
<1>8. ASSUME NEW k \in 1 .. L, k - 1 < N - c PROVE headed[k] = HeadItem(p, f, c + k - 1)
  <2>1. k - 1 \in 0 .. L /\ k - 1 < N - c /\ 1 + (k - 1) = k /\ c + (k - 1) = c + k - 1
    BY <1>5, <1>8
  <2>2. ip[k].frame = f /\ ip[k].n = c + k - 1
    BY <1>5, <2>1
  <2> QED  BY <1>3, <1>5, <2>2
<1>9. CntNow = c /\ FrameLenNow = N /\ (p.has_crc => PayloadNow = <<f>>) /\ headed[1].frame = f
      /\ PayloadNow \in Seq(Nat)
  <2>1. headed[1] = HeadItem(p, f, c)
    <3>1. 1 \in 1 .. L /\ 1 - 1 < N - c /\ c + 1 - 1 = c
      BY <1>5
    <3> QED  BY <1>8, <3>1
  <2>2. headed[1].len = (IF c = 0 THEN N ELSE 0) /\ headed[1].frame = f
    BY <1>6, <2>1 DEF HeadItem
  <2>3. /\ c # 0 => m_cnt = c /\ m_frame_len = N
        /\ p.has_crc => m_payload = IF c = 0 THEN <<>> ELSE <<f>>
    <3>1. ip[1].n = c /\ ip[1].frame = f
      BY <1>5 DEF Place
    <3> QED  BY <1>6, <3>1 DEF CrcCounts, ip
  <2>4. CntNow = c /\ FrameLenNow = N
    BY <2>2, <2>3 DEF CntNow, FrameLenNow
  <2>5. p.has_crc => PayloadNow = <<f>>
    <3>1. CASE c = 0
      <4>1. Append(<<>>, f) = <<f>>
        OBVIOUS
      <4> QED  BY <2>2, <2>3, <3>1, <4>1 DEF PayloadNow
    <3>2. CASE c # 0
      BY <2>2, <2>3, <3>2 DEF PayloadNow
    <3> QED  BY <3>1, <3>2
  <2>6. PayloadNow \in Seq(Nat)
    <3>1. Append(m_payload, f) \in Seq(Nat)
      BY <1>2, <1>6
    <3> QED  BY <1>2, <2>2, <3>1 DEF PayloadNow
  <2> QED  BY <2>2, <2>4, <2>5, <2>6
<1>10. EndsFrame(n) <=> p.has_crc /\ c + n = N
  BY <1>2, <1>9 DEF EndsFrame
<1>11. PICK e \in Nat : /\ e = IF EndsFrame(n) THEN C ELSE 0
                        /\ e <= 4 /\ (c + n = N => e = C) /\ (e # 0 => c + n = N)
  BY <1>2, <1>a, <1>10
\* The items written for those read.
<1> DEFINE new == [k \in 1 .. n |-> [headed[k] EXCEPT
                     !.len = IF @ # 0 THEN @ + (IF m_has_crc THEN 4 ELSE 0) ELSE 0]]
           crc == IF EndsFrame(n) THEN CrcNibbles ELSE <<>>
<1>12. ASSUME NEW k \in 1 .. n PROVE new[k] = CheckItem(p, f, c + k - 1)
  <2>1. PICK j \in Nat : j = c + k - 1 /\ k \in 1 .. L /\ k - 1 < N - c
    <3>1. c + k - 1 \in Nat /\ k \in 1 .. L /\ k - 1 < N - c
      BY <1>5, <1>7, SMTT(60)
    <3> QED  BY <3>1
  <2>2. headed[k] = HeadItem(p, f, j)
    BY <1>8, <2>1
  <2>3. headed[k] = [frame |-> f, nibble |-> NibbleOf(p, f, j), len |-> IF j = 0 THEN N ELSE 0]
    BY <1>6, <2>2 DEF HeadItem
  <2>4. new[k] = [headed[k] EXCEPT !.len = IF @ # 0 THEN @ + C ELSE 0]
    BY <1>2, <1>a
  <2>5. new[k] = [frame |-> f, nibble |-> NibbleOf(p, f, j), len |-> IF j = 0 THEN N + C ELSE 0]
    <3> HIDE DEF new
    <3>1. CASE j = 0
      BY <2>3, <2>4, <3>1
    <3>2. CASE j # 0
      BY <2>3, <2>4, <3>2
    <3> QED  BY <3>1, <3>2
  <2> HIDE DEF new
  <2> QED  BY <1>a, <2>1, <2>5 DEF CheckItem
<1>13. ASSUME NEW k \in 1 .. e PROVE crc[k] = CheckItem(p, f, N + k - 1)
  <2>1. EndsFrame(n) /\ p.has_crc /\ e = 4 /\ C = 4
    BY <1>10, <1>11, <1>a
  <2>2. crc[k] = [frame |-> f, nibble |-> CrcNibble(p, f, k - 1), len |-> 0]
    <3>1. p.payloads = payloads /\ k \in 1 .. 4 /\ PayloadNow = <<f>> /\ headed[1].frame = f
      BY <1>9, <2>1 DEF Given
    <3>2. crc = CrcNibbles
      BY <2>1
    <3> HIDE DEF crc
    <3> QED  BY <3>1, <3>2, Zenon DEF CrcNibbles, CrcNibble
  <2>3. NibbleOf(p, f, N + (k - 1)) = CrcNibble(p, f, k - 1)
    <3>1. k - 1 \in 0 .. CLen(p) - 1
      BY <1>a, <2>1
    <3> QED  BY <1>6, <3>1, NibblesFacts
  <2>4. N + (k - 1) = N + k - 1 /\ N + k - 1 # 0
    BY <2>1
  <2> HIDE DEF crc
  <2> QED  BY <2>2, <2>3, <2>4 DEF CheckItem
<1>14. \A j \in 0 .. N + C - 1 :
         /\ CheckItem(p, f, j) \in ItemSet /\ CheckItem(p, f, j).frame = f
         /\ NibbleIndex(p, CheckItem(p, f, j)) = j
  <2> SUFFICES ASSUME NEW j \in 0 .. N + C - 1
               PROVE  /\ CheckItem(p, f, j) \in ItemSet /\ CheckItem(p, f, j).frame = f
                      /\ NibbleIndex(p, CheckItem(p, f, j)) = j
    OBVIOUS
  <2>1. CheckItem(p, f, j).frame = f /\ CheckItem(p, f, j).nibble = NibbleOf(p, f, j)
    BY DEF CheckItem
  <2>2. j \in 0 .. FrameLen(p, f) - 1
    BY <1>a
  <2>3. NibbleIndex(p, CheckItem(p, f, j)) = j /\ NibbleOf(p, f, j) \in NibbleSet
    BY <2>1, <2>2, NibbleIndexIs
  <2>4. CheckItem(p, f, j) \in ItemSet
    BY <1>6, <1>a, <2>3 DEF CheckItem, ItemSet
  <2> QED  BY <2>1, <2>3, <2>4
<1>15. new \in [1 .. n -> ItemSet]
  <2>1. \A k \in 1 .. n : new[k] \in ItemSet
    <3> SUFFICES ASSUME NEW k \in 1 .. n PROVE new[k] \in ItemSet
      BY Zenon
    <3> HIDE DEF new
    <3>1. c + k - 1 \in 0 .. N + C - 1
      BY <1>b
    <3> QED  BY <1>12, <1>14, <3>1
  <2>2. new = [k \in 1 .. n |-> new[k]]
    OBVIOUS
  <2> HIDE DEF new
  <2> QED  BY <2>1, <2>2
<1>16. crc \in [1 .. e -> ItemSet]
  <2>1. \A k \in 1 .. e : crc[k] \in ItemSet
    <3> SUFFICES ASSUME NEW k \in 1 .. e PROVE crc[k] \in ItemSet
      BY Zenon
    <3>1. N + k - 1 \in 0 .. N + C - 1
      BY <1>10, <1>11
    <3> HIDE DEF crc
    <3> QED  BY <1>13, <1>14, <3>1
  <2>2. crc = [k \in 1 .. e |-> crc[k]]
    <3>1. CASE EndsFrame(n)
      <4>1. e = 4
        BY <1>10, <1>11, <1>a, <3>1
      <4>2. crc = CrcNibbles
        BY <3>1
      <4> HIDE DEF crc
      <4> QED  BY <4>1, <4>2 DEF CrcNibbles
    <3>2. CASE ~EndsFrame(n)
      <4>1. e = 0 /\ crc = <<>>
        BY <1>11, <3>2
      <4> HIDE DEF crc
      <4> QED  BY <4>1
    <3> QED  BY <3>1, <3>2
  <2> HIDE DEF crc
  <2> QED  BY <2>1, <2>2
<1>17. checked' = checked \o new \o crc
  BY <1>7
<1> HIDE DEF new, crc
<1>18. PICK s \in Seq(ItemSet) :
         /\ checked' = s \o crc /\ Len(s) = M + n
         /\ \A k \in 1 .. M : s[k] = checked[k]
         /\ \A k \in 1 .. n : s[M + k] = new[k]
  <2>1. /\ checked \o new \in Seq(ItemSet) /\ Len(checked \o new) = Len(checked) + n
        /\ \A k \in 1 .. Len(checked) : (checked \o new)[k] = checked[k]
        /\ \A k \in 1 .. n : (checked \o new)[Len(checked) + k] = new[k]
    BY <1>2, <1>15, GrownFacts
  <2> QED  BY <1>1, <1>17, <2>1
<1>19. /\ checked' \in Seq(ItemSet) /\ Len(checked') = M + n + e
       /\ \A k \in 1 .. M + n : checked'[k] = s[k]
       /\ \A k \in 1 .. e : checked'[M + n + k] = crc[k]
  <2>1. /\ s \o crc \in Seq(ItemSet) /\ Len(s \o crc) = Len(s) + e
        /\ \A k \in 1 .. Len(s) : (s \o crc)[k] = s[k]
        /\ \A k \in 1 .. e : (s \o crc)[Len(s) + k] = crc[k]
    BY <1>16, GrownFacts, SMTT(60)
  <2> QED  BY <1>18, <2>1
<1>20. PICK m \in Nat : m = n + e /\ c + m <= N + C /\ m >= 1
                        /\ After(size, f, c + n) = After(size2, f, c + m)
  <2>1. n + e \in Nat /\ c + (n + e) <= N + C /\ n + e >= 1
        /\ (c + n = N <=> c + (n + e) = N + C) /\ (c + n # N => c + (n + e) = c + n)
    BY <1>7, <1>b, <1>11, <1>a
  <2>2. After(size, f, c + n) = After(size2, f, c + (n + e))
    <3>1. CASE c + n = N
      BY <1>5, <1>a, <2>1, <3>1 DEF After
    <3>2. CASE c + n # N
      BY <1>5, <1>a, <2>1, <3>2 DEF After
    <3> QED  BY <3>1, <3>2
  <2> QED  BY <2>1, <2>2
<1>21. /\ checked' \in Seq(ItemSet) /\ Len(checked') = M + m
       /\ \A k \in 1 .. M : checked'[k] = checked[k]
       /\ \A k \in 1 .. m : checked'[M + k] = CheckItem(p, f, c + k - 1) /\ c + k - 1 \in 0 .. N + C - 1
  <2>1. Len(checked') = M + m
    BY <1>19, <1>20
  <2>2. ASSUME NEW k \in 1 .. M PROVE checked'[k] = checked[k]
    <3>1. k \in 1 .. M + n
      BY <1>7
    <3> QED  BY <1>18, <1>19, <3>1
  <2>3. ASSUME NEW k \in 1 .. m
        PROVE  checked'[M + k] = CheckItem(p, f, c + k - 1) /\ c + k - 1 \in 0 .. N + C - 1
    <3>1. CASE k <= n
      <4>1. M + k \in 1 .. M + n /\ k \in 1 .. n
        BY <3>1
      <4>2. checked'[M + k] = new[k]
        BY <1>18, <1>19, <4>1
      <4>3. c + k - 1 \in 0 .. N + C - 1
        BY <1>b, <4>1
      <4> QED  BY <1>12, <4>1, <4>2, <4>3
    <3>2. CASE ~(k <= n)
      <4>1. PICK i \in 1 .. e : k = n + i
        <5>1. k - n \in 1 .. e /\ k = n + (k - n)
          BY <1>20, <3>2
        <5> QED  BY <5>1
      <4>2. M + k = M + n + i /\ c + k - 1 = N + i - 1 /\ c + k - 1 \in 0 .. N + C - 1
        BY <1>11, <1>20, <4>1
      <4>3. checked'[M + n + i] = crc[i] /\ crc[i] = CheckItem(p, f, N + i - 1)
        BY <1>13, <1>19
      <4> QED  BY <4>2, <4>3
    <3> QED  BY <3>1, <3>2
  <2> QED  BY <1>19, <2>1, <2>2, <2>3
\* The links in order.
<1>22. /\ headed' \in Seq(ItemSet) /\ Len(headed') = L - n /\ n \in 0 .. L
       /\ \A k \in 1 .. L - n : headed'[k] = headed[n + k]
  <2>1. n \in 0 .. Len(headed) /\ n \in 0 .. L
    BY <1>5, <1>7
  <2>2. Taken(headed, n) \in Seq(ItemSet) /\ Len(Taken(headed, n)) = Len(headed) - n
        /\ \A k \in 1 .. (Len(headed) - n) : Taken(headed, n)[k] = headed[n + k]
    BY <1>2, <2>1, SuffixFacts
  <2> QED  BY <1>5, <1>7, <2>1, <2>2
<1>23. \A k \in 1 .. L - n + 1 : HeadPlaces(p)'[k] = ip[n + k]
  <2> SUFFICES ASSUME NEW k \in 1 .. L - n + 1 PROVE HeadPlaces(p)'[k] = ip[n + k]
    OBVIOUS
  <2>1. n + k \in 1 .. L + 1 /\ (n + k = L + 1 <=> k = L - n + 1)
    BY <1>22
  <2>2. CASE k = L - n + 1
    <3>1. HeadPlaces(p)'[k] = HeadedTo(p)'
      BY <1>22, <2>2 DEF HeadPlaces
    <3>2. ip[n + k] = HeadedTo(p)
      BY <1>5, <2>1, <2>2 DEF HeadPlaces, ip
    <3> QED  BY <3>1, <3>2
  <2>3. CASE k # L - n + 1
    <3>0. k \in 1 .. L - n
      BY <1>7, <2>3
    <3>1. headed'[k] = headed[n + k]
      BY <1>22, <3>0
    <3>2. HeadPlaces(p)'[k] = Place(headed'[k].frame, NibbleIndex(p, headed'[k]))
      BY <1>22, <2>3 DEF HeadPlaces
    <3>3. ip[n + k] = Place(headed[n + k].frame, NibbleIndex(p, headed[n + k]))
      BY <1>5, <2>1, <2>3 DEF HeadPlaces, ip
    <3> QED  BY <3>1, <3>2, <3>3
  <2> QED  BY <2>2, <2>3
<1>24. HeadInOrder(p)'
  <2>1. PICK pl : pl = HeadPlaces(p)'
    OBVIOUS
  <2>2. Ordered(pl, L - n, size)
    <3>1. \A k \in 1 .. L - n + 1 : pl[k] = ip[n + k]
      BY <1>23, <2>1
    <3> QED  BY <1>3, <1>5, <1>22, <3>1, TakenOrdered, ZenonT(60)
  <2>3. \A k \in 1 .. L - n : headed'[k] = HeadItem(p, pl[k].frame, pl[k].n)
    <3> SUFFICES ASSUME NEW k \in 1 .. L - n PROVE headed'[k] = HeadItem(p, pl[k].frame, pl[k].n)
      OBVIOUS
    <3>1. headed'[k] = headed[n + k] /\ pl[k] = ip[n + k] /\ n + k \in 1 .. L
      BY <1>22, <1>23, <2>1
    <3> QED  BY <1>3, <1>5, <3>1
  <2> QED  BY <1>22, <2>1, <2>2, <2>3 DEF HeadInOrder, size
<1>25. HeadPlaces(p)'[1] = After(size, f, c + n)
  <2>1. 1 \in 1 .. L - n + 1 /\ n \in 0 .. L /\ n <= N - c /\ n + 1 = 1 + n
    BY <1>5, <1>7
  <2>2. HeadPlaces(p)'[1] = ip[n + 1]
    BY <1>23, <2>1
  <2> QED  BY <1>5, <2>1, <2>2
<1>26. CrcCounts(p)' /\ m_cnt' \in Nat /\ m_frame_len' \in Nat /\ m_payload' \in Seq(Nat)
  <2>1. m_cnt' = c + n /\ m_frame_len' = N /\ m_payload' = IF EndsFrame(n) THEN <<>> ELSE PayloadNow
    BY <1>7, <1>9
  <2>2. /\ After(size, f, c + n).n = IF c + n = N THEN 0 ELSE c + n
        /\ c + n # N => After(size, f, c + n).frame = f
    BY <1>5 DEF After, Place
  <2>3. m_payload' \in Seq(Nat)
    BY <1>9, <2>1
  <2>4. p.has_crc => m_payload' = IF c + n = N THEN <<>> ELSE <<f>>
    BY <1>9, <1>10, <2>1
  <2>5. PICK q : q = HeadPlaces(p)'[1]
    OBVIOUS
  <2>6. q.n = (IF c + n = N THEN 0 ELSE c + n) /\ (c + n # N => q.frame = f)
    BY <1>25, <2>2, <2>5
  <2>7. q.n > 0 => m_cnt' = q.n /\ m_frame_len' = HeadedLen(p, q.frame)
    BY <1>6, <2>1, <2>6
  <2>8. p.has_crc => m_payload' = IF q.n = 0 THEN <<>> ELSE <<q.frame>>
    BY <1>b, <1>7, <2>4, <2>6
  <2> QED  BY <1>b, <2>1, <2>3, <2>5, <2>7, <2>8 DEF CrcCounts
<1>27. PICK pl : pl = CheckPlaces(p)'
  OBVIOUS
<1>28. Extended(op, pl, M, m, f, c, size2)
  <2>1. ASSUME NEW k \in 1 .. M PROVE pl[k] = op[k]
    <3>1. k # M + 1 /\ k # M + m + 1 /\ k \in 1 .. M + m + 1 /\ k \in 1 .. M + 1
      BY <1>20
    <3>2. pl[k] = Place(checked'[k].frame, NibbleIndex(p, checked'[k]))
      BY <1>21, <1>27, <3>1 DEF CheckPlaces
    <3>3. op[k] = Place(checked[k].frame, NibbleIndex(p, checked[k]))
      BY <1>1, <3>1 DEF CheckPlaces, op
    <3> QED  BY <1>21, <3>2, <3>3
  <2>2. ASSUME NEW k \in 1 .. m PROVE pl[M + k] = Place(f, c + k - 1)
    <3>1. M + k # M + m + 1 /\ M + k \in 1 .. M + m + 1
      BY <1>20
    <3>2. pl[M + k] = Place(checked'[M + k].frame, NibbleIndex(p, checked'[M + k]))
      BY <1>21, <1>27, <3>1 DEF CheckPlaces
    <3>3. checked'[M + k] = CheckItem(p, f, c + k - 1) /\ c + k - 1 \in 0 .. N + C - 1
      BY <1>21
    <3> QED  BY <1>14, <3>2, <3>3
  <2>3. pl[M + m + 1] = After(size2, f, c + m)
    <3>1. M + m + 1 \in 1 .. M + m + 1
      BY <1>20
    <3>2. pl[M + m + 1] = HeadPlaces(p)'[1]
      BY <1>21, <1>27, <3>1 DEF CheckPlaces
    <3> QED  BY <1>20, <1>25, <3>2
  <2>4. op[M + 1] = Place(f, c)
    <3>1. op[M + 1] = HeadPlaces(p)[1]
      BY <1>1 DEF CheckPlaces, op
    <3> QED  BY <1>5, <3>1 DEF ip
  <2> QED  BY <1>20, <1>a, <2>1, <2>2, <2>3, <2>4 DEF Extended
<1>29. Ordered(pl, M + m, size2) /\ pl[1] = op[1]
  <2>1. Ordered(op, M, size2)
    BY <1>1 DEF CheckInOrder, op, size2
  <2>2. size2 \in Sizes
    BY <1>3
  <2> QED  BY <1>28, <2>1, <2>2, AppendOrdered
<1>30. CheckInOrder(p)'
  <2>1. ASSUME NEW k \in 1 .. M + m PROVE checked'[k] = CheckItem(p, pl[k].frame, pl[k].n)
    <3>1. CASE k \in 1 .. M
      <4>1. checked'[k] = checked[k] /\ pl[k] = op[k]
        BY <1>21, <1>28, <3>1 DEF Extended
      <4>2. checked[k] = CheckItem(p, op[k].frame, op[k].n)
        BY <1>1, <3>1 DEF CheckInOrder, op
      <4> QED  BY <4>1, <4>2
    <3>2. CASE k \notin 1 .. M
      <4>1. PICK j \in 1 .. m : k = M + j
        <5>1. k - M \in 1 .. m /\ k = M + (k - M)
          BY <3>2
        <5> QED  BY <5>1
      <4>2. pl[k] = Place(f, c + j - 1) /\ checked'[k] = CheckItem(p, f, c + j - 1)
        BY <1>21, <1>28, <4>1 DEF Extended
      <4>3. pl[k].frame = f /\ pl[k].n = c + j - 1
        BY <4>2 DEF Place
      <4> QED  BY <4>2, <4>3
    <3> QED  BY <3>1, <3>2
  <2> QED  BY <1>21, <1>27, <1>29, <2>1 DEF CheckInOrder, size2
<1>31. Len(headed') <= Len(headed) /\ Len(checked') <= Capacity.checked
  <2>1. Len(headed') <= Len(headed)
    BY <1>5, <1>22
  <2>2. M + m <= K
    BY <1>1, <1>7, <1>11, <1>20, SMTT(60)
  <2> QED  BY <1>1, <1>21, <2>1, <2>2
<1> QED  BY <1>21, <1>22, <1>24, <1>26, <1>27, <1>29, <1>30, <1>31 DEF op

----------------------------------------------------------------------------
(***************************************************************************)
(* hamming_enc passes a piece on; its count is the place in the frame, so  *)
(* the codewords of the header block are the ones at coding rate 4.        *)
(***************************************************************************)

LEMMA HammingEncKeeps ==
  ASSUME NEW p \in Parameters, p = Given, Typed, HammingEnc,
         CheckInOrder(p), EncCounts(p), CodeInOrder(p), HeadPlaces(p)'[1] = HeadPlaces(p)[1]
  PROVE  /\ CheckInOrder(p)' /\ EncCounts(p)' /\ CodeInOrder(p)'
         /\ CodePlaces(p)'[1] = CodePlaces(p)[1]
         /\ checked' \in Seq(ItemSet) /\ Len(checked') <= Len(checked)
         /\ coded' \in Seq(CodewordSet) /\ Len(coded') <= Capacity.coded /\ enc_cnt' \in Nat
<1> DEFINE size == CheckSize(p)
           ip == CheckPlaces(p)
           op == CodePlaces(p)
<1>1. PICK M \in Nat, K \in Nat : M = Len(coded) /\ K = Capacity.coded /\ M <= K
  <2>1. coded \in Seq(CodewordSet) /\ Len(coded) <= Capacity.coded
    BY DEF Typed, TypeOK
  <2>2. Len(coded) \in Nat /\ Capacity.coded \in Nat
    BY <2>1, TxAssumption
  <2> QED  BY <2>1, <2>2
<1>2. checked \in Seq(ItemSet) /\ coded \in Seq(CodewordSet) /\ checked # <<>> /\ m_cr = p.cr
  BY DEF Typed, Given, HammingEnc
<1>3. /\ Ordered(ip, Len(checked), size) /\ size \in Sizes
      /\ \A k \in 1 .. Len(checked) : checked[k] = CheckItem(p, ip[k].frame, ip[k].n)
  BY SizesFacts DEF CheckInOrder
<1>4. TagsAt(checked, ip, size)
  <2> SUFFICES ASSUME NEW k \in 1 .. Len(checked)
               PROVE  checked[k].len = IF ip[k].n = 0 THEN size[ip[k].frame] ELSE 0
    BY DEF TagsAt
  <2>1. k \in 1 .. Len(checked) /\ ip[k].frame \in Frames
    BY <1>3 DEF Ordered
  <2>2. size[ip[k].frame] = FrameLen(p, ip[k].frame)
    BY <2>1, SizesFacts
  <2>3. checked[k] = CheckItem(p, ip[k].frame, ip[k].n)
    BY <1>3
  <2> HIDE DEF ip, size
  <2> QED  BY <2>2, <2>3 DEF CheckItem
<1>5. PICK f \in Frames, c \in Nat, L \in Nat \ {0}, N \in Nat \ {0} :
        /\ L = Len(checked) /\ N = size[f] /\ c < N /\ ip[1] = Place(f, c)
        /\ Window(checked) = IF L <= N - c THEN L ELSE N - c
        /\ \A j \in 0 .. L : j < N - c => ip[1 + j].frame = f /\ ip[1 + j].n = c + j
        /\ \A j \in 0 .. L : j <= N - c => ip[1 + j] = After(size, f, c + j)
  <2> HIDE DEF ip, size
  <2>1. \E f \in Frames, c \in Nat, L \in Nat \ {0}, N \in Nat \ {0} :
          HeadAt(checked, ip, size, f, c, L, N)
    BY <1>2, <1>3, <1>4, LinkHead
  <2> QED  BY <2>1 DEF HeadAt
<1>6. N = FrameLen(p, f) /\ f \in Nat
  BY <1>5, SizesFacts, FrameFacts
<1> HIDE DEF ip, op, size
<1>7. PICK n \in Nat :
        /\ n >= 1 /\ n <= L /\ n <= N - c /\ n <= K - M
        /\ coded' = coded \o
             [k \in 1 .. n |-> [frame |-> checked[k].frame, nibble |-> checked[k].nibble,
                                len |-> checked[k].len, cr |-> CrApp(EncCntNow + k - 1)]]
        /\ checked' = Taken(checked, n)
        /\ enc_cnt' = EncCntNow + n
  <2>1. PICK noutput \in Offers(coded, "coded") :
          LET n == Min({Window(checked), noutput}) IN
          /\ coded' = coded \o
               [k \in 1 .. n |-> [frame |-> checked[k].frame, nibble |-> checked[k].nibble,
                                  len |-> checked[k].len, cr |-> CrApp(EncCntNow + k - 1)]]
          /\ checked' = Taken(checked, n)
          /\ enc_cnt' = EncCntNow + n
    BY DEF HammingEnc
  <2>2. noutput \in Nat \ {0} /\ noutput <= K - M
    BY <1>1 DEF Offers
  <2>3. PICK w \in Nat \ {0} : w = Window(checked) /\ w <= L /\ w <= N - c
    BY <1>5, SMTT(60)
  <2>4. Min({w, noutput}) \in 1 .. w /\ Min({w, noutput}) <= noutput
    BY <2>2, PieceIs
  <2>5. Min({w, noutput}) \in Nat /\ Min({w, noutput}) >= 1 /\ Min({w, noutput}) <= L
        /\ Min({w, noutput}) <= N - c /\ Min({w, noutput}) <= K - M
    BY <1>1, <2>2, <2>3, <2>4
  <2> QED  BY <2>1, <2>3, <2>5
<1>8. EncCntNow = c
  <2>1. checked[1] = CheckItem(p, f, c)
    <3>1. 0 \in 0 .. L /\ 0 < N - c /\ 1 + 0 = 1 /\ c + 0 = c /\ 1 \in 1 .. L
      BY <1>5
    <3>2. ip[1].frame = f /\ ip[1].n = c
      BY <1>5, <3>1
    <3> QED  BY <1>3, <1>5, <3>1, <3>2
  <2>2. checked[1].len = IF c = 0 THEN N ELSE 0
    BY <1>6, <2>1 DEF CheckItem
  <2>3. c # 0 => enc_cnt = c
    <3>1. ip[1].n = c
      BY <1>5 DEF Place
    <3> QED  BY <3>1 DEF EncCounts, ip
  <2> QED  BY <2>2, <2>3 DEF EncCntNow
<1> DEFINE new == [k \in 1 .. n |-> [frame |-> checked[k].frame, nibble |-> checked[k].nibble,
                                     len |-> checked[k].len, cr |-> CrApp(EncCntNow + k - 1)]]
<1>9. ASSUME NEW k \in 1 .. n
      PROVE  /\ new[k] = CodeItem(p, f, c + k - 1) /\ new[k] \in CodewordSet
             /\ new[k].frame = f /\ NibbleIndex(p, new[k]) = c + k - 1
  <2>1. PICK j \in Nat : j = c + k - 1 /\ j < N /\ j \in 0 .. N - 1
    <3>1. c + k - 1 \in Nat /\ c + k - 1 < N
      BY <1>5, <1>7
    <3> QED  BY <3>1
  <2>2. checked[k] = CheckItem(p, f, j)
    <3>1. k - 1 \in 0 .. L /\ k - 1 < N - c /\ 1 + (k - 1) = k /\ c + (k - 1) = j /\ k \in 1 .. L
      BY <1>5, <1>7, <2>1, SMTT(60)
    <3>2. ip[k].frame = f /\ ip[k].n = j
      BY <1>5, <3>1
    <3> QED  BY <1>3, <1>5, <3>1, <3>2
  <2>3. CrApp(EncCntNow + k - 1) = CrOf(p, j)
    BY <1>2, <1>8, <2>1 DEF CrApp, InHeaderBlock, CrOf
  <2>4. new[k] = [frame |-> f, nibble |-> NibbleOf(p, f, j),
                  len |-> IF j = 0 THEN FrameLen(p, f) ELSE 0, cr |-> CrOf(p, j)]
    BY <2>2, <2>3 DEF CheckItem
  <2> HIDE DEF new
  <2>5. new[k].frame = f /\ new[k].nibble = NibbleOf(p, f, j)
    BY <2>4
  <2>6. NibbleIndex(p, new[k]) = j /\ NibbleOf(p, f, j) \in NibbleSet
    BY <1>6, <2>1, <2>5, NibbleIndexIs
  <2>7. new[k] = CodeItem(p, f, j)
    BY <2>4 DEF CodeItem
  <2>8. CrOf(p, j) \in Nat
    BY ParamFacts DEF CrOf
  <2>9. new[k] \in CodewordSet
    BY <1>6, <2>4, <2>6, <2>8 DEF CodewordSet
  <2> QED  BY <2>1, <2>5, <2>6, <2>7, <2>9
<1>10. new \in [1 .. n -> CodewordSet]
  <2>1. \A k \in 1 .. n : new[k] \in CodewordSet
    BY <1>9
  <2>2. new = [k \in 1 .. n |-> new[k]]
    OBVIOUS
  <2> HIDE DEF new
  <2> QED  BY <2>1, <2>2
<1> HIDE DEF new
<1>11. /\ coded' \in Seq(CodewordSet) /\ Len(coded') = M + n
       /\ \A k \in 1 .. M : coded'[k] = coded[k]
       /\ \A k \in 1 .. n : coded'[M + k] = new[k]
  <2>1. coded' = coded \o new
    BY <1>7 DEF new
  <2>3. /\ coded \o new \in Seq(CodewordSet) /\ Len(coded \o new) = Len(coded) + n
        /\ \A k \in 1 .. Len(coded) : (coded \o new)[k] = coded[k]
        /\ \A k \in 1 .. n : (coded \o new)[Len(coded) + k] = new[k]
    BY <1>2, <1>10, GrownFacts
  <2> QED  BY <1>1, <2>1, <2>3
<1>12. /\ checked' \in Seq(ItemSet) /\ Len(checked') = L - n /\ n \in 0 .. L
       /\ \A k \in 1 .. L - n : checked'[k] = checked[n + k]
  <2>1. n \in 0 .. Len(checked) /\ n \in 0 .. L
    BY <1>5, <1>7
  <2>2. Taken(checked, n) \in Seq(ItemSet) /\ Len(Taken(checked, n)) = Len(checked) - n
        /\ \A k \in 1 .. (Len(checked) - n) : Taken(checked, n)[k] = checked[n + k]
    BY <1>2, <2>1, SuffixFacts
  <2> QED  BY <1>5, <1>7, <2>1, <2>2
<1>13. \A k \in 1 .. L - n + 1 : CheckPlaces(p)'[k] = ip[n + k]
  <2> SUFFICES ASSUME NEW k \in 1 .. L - n + 1 PROVE CheckPlaces(p)'[k] = ip[n + k]
    OBVIOUS
  <2>1. n + k \in 1 .. L + 1 /\ (n + k = L + 1 <=> k = L - n + 1)
    BY <1>12
  <2>2. CASE k = L - n + 1
    <3>1. CheckPlaces(p)'[k] = HeadPlaces(p)'[1]
      BY <1>12, <2>2 DEF CheckPlaces
    <3>2. ip[n + k] = HeadPlaces(p)[1]
      BY <1>5, <2>1, <2>2 DEF CheckPlaces, ip
    <3> QED  BY <3>1, <3>2
  <2>3. CASE k # L - n + 1
    <3>0. k \in 1 .. L - n
      BY <1>7, <2>3
    <3>1. checked'[k] = checked[n + k]
      BY <1>12, <3>0
    <3>2. CheckPlaces(p)'[k] = Place(checked'[k].frame, NibbleIndex(p, checked'[k]))
      BY <1>12, <2>3 DEF CheckPlaces
    <3>3. ip[n + k] = Place(checked[n + k].frame, NibbleIndex(p, checked[n + k]))
      BY <1>5, <2>1, <2>3 DEF CheckPlaces, ip
    <3> QED  BY <3>1, <3>2, <3>3
  <2> QED  BY <2>2, <2>3
<1>14. CheckInOrder(p)'
  <2>1. PICK pl : pl = CheckPlaces(p)'
    OBVIOUS
  <2>2. Ordered(pl, L - n, size)
    <3>1. \A k \in 1 .. L - n + 1 : pl[k] = ip[n + k]
      BY <1>13, <2>1
    <3> QED  BY <1>3, <1>5, <1>12, <3>1, TakenOrdered, ZenonT(60)
  <2>3. \A k \in 1 .. L - n : checked'[k] = CheckItem(p, pl[k].frame, pl[k].n)
    <3> SUFFICES ASSUME NEW k \in 1 .. L - n PROVE checked'[k] = CheckItem(p, pl[k].frame, pl[k].n)
      OBVIOUS
    <3>1. checked'[k] = checked[n + k] /\ pl[k] = ip[n + k] /\ n + k \in 1 .. L
      BY <1>12, <1>13, <2>1
    <3> QED  BY <1>3, <1>5, <3>1
  <2> QED  BY <1>12, <2>1, <2>2, <2>3 DEF CheckInOrder, size
<1>15. CheckPlaces(p)'[1] = After(size, f, c + n) /\ c + n \in Nat /\ c + n <= N
  <2>1. 1 \in 1 .. L - n + 1 /\ n \in 0 .. L /\ n <= N - c /\ n + 1 = 1 + n /\ c + n \in Nat /\ c + n <= N
    BY <1>5, <1>7
  <2>2. CheckPlaces(p)'[1] = ip[n + 1]
    BY <1>13, <2>1
  <2> QED  BY <1>5, <2>1, <2>2
<1>16. EncCounts(p)' /\ enc_cnt' \in Nat
  <2>1. enc_cnt' = c + n
    BY <1>7, <1>8
  <2>2. After(size, f, c + n).n = IF c + n = N THEN 0 ELSE c + n
    BY <1>5, <1>15 DEF After, Place
  <2> QED  BY <1>15, <2>1, <2>2 DEF EncCounts
<1>17. PICK pl : pl = CodePlaces(p)'
  OBVIOUS
<1>18. /\ \A k \in 1 .. M : pl[k] = op[k]
       /\ \A k \in 1 .. n : pl[M + k] = Place(f, c + k - 1)
       /\ pl[M + n + 1] = After(size, f, c + n)
       /\ op[M + 1] = Place(f, c)
  <2>1. ASSUME NEW k \in 1 .. M PROVE pl[k] = op[k]
    <3>1. k # M + 1 /\ k # M + n + 1 /\ k \in 1 .. M + n + 1 /\ k \in 1 .. M + 1
      BY <1>7
    <3>2. pl[k] = Place(coded'[k].frame, NibbleIndex(p, coded'[k]))
      BY <1>11, <1>17, <3>1 DEF CodePlaces
    <3>3. op[k] = Place(coded[k].frame, NibbleIndex(p, coded[k]))
      BY <1>1, <3>1 DEF CodePlaces, op
    <3> QED  BY <1>11, <3>2, <3>3
  <2>2. ASSUME NEW k \in 1 .. n PROVE pl[M + k] = Place(f, c + k - 1)
    <3>1. M + k # M + n + 1 /\ M + k \in 1 .. M + n + 1
      BY <1>7, SMTT(60)
    <3>2. pl[M + k] = Place(coded'[M + k].frame, NibbleIndex(p, coded'[M + k]))
      BY <1>11, <1>17, <3>1 DEF CodePlaces
    <3>3. coded'[M + k] = new[k] /\ new[k].frame = f /\ NibbleIndex(p, new[k]) = c + k - 1
      BY <1>9, <1>11
    <3> QED  BY <3>2, <3>3
  <2>3. pl[M + n + 1] = After(size, f, c + n)
    <3>1. M + n + 1 \in 1 .. M + n + 1
      BY <1>7
    <3>2. pl[M + n + 1] = CheckPlaces(p)'[1]
      BY <1>11, <1>17, <3>1 DEF CodePlaces
    <3> QED  BY <1>15, <3>2
  <2>4. op[M + 1] = Place(f, c)
    <3>1. op[M + 1] = CheckPlaces(p)[1]
      BY <1>1 DEF CodePlaces, op
    <3> QED  BY <1>5, <3>1 DEF ip
  <2> QED  BY <2>1, <2>2, <2>3, <2>4
<1>19. Ordered(pl, M + n, size) /\ pl[1] = op[1]
  <2>1. Ordered(op, M, size)
    BY <1>1 DEF CodeInOrder, op, size
  <2>2. Extended(op, pl, M, n, f, c, size)
    BY <1>5, <1>15, <1>18 DEF Extended
  <2>3. size \in Sizes
    BY <1>3
  <2> QED  BY <2>1, <2>2, <2>3, AppendOrdered, SMTT(60)
<1>20. CodeInOrder(p)'
  <2>1. ASSUME NEW k \in 1 .. M + n PROVE coded'[k] = CodeItem(p, pl[k].frame, pl[k].n)
    <3>1. CASE k \in 1 .. M
      <4>1. coded'[k] = coded[k] /\ pl[k] = op[k]
        BY <1>11, <1>18, <3>1
      <4>2. coded[k] = CodeItem(p, op[k].frame, op[k].n)
        BY <1>1, <3>1 DEF CodeInOrder, op
      <4> QED  BY <4>1, <4>2
    <3>2. CASE k \notin 1 .. M
      <4>1. PICK j \in 1 .. n : k = M + j
        <5>1. k - M \in 1 .. n /\ k = M + (k - M)
          BY <3>2
        <5> QED  BY <5>1
      <4>2. pl[k] = Place(f, c + j - 1) /\ coded'[k] = new[j] /\ new[j] = CodeItem(p, f, c + j - 1)
        BY <1>9, <1>11, <1>18, <4>1
      <4>3. pl[k].frame = f /\ pl[k].n = c + j - 1
        BY <4>2 DEF Place
      <4> QED  BY <4>2, <4>3
    <3> QED  BY <3>1, <3>2
  <2> QED  BY <1>11, <1>17, <1>19, <2>1 DEF CodeInOrder, size
<1>21. Len(checked') <= Len(checked) /\ Len(coded') <= Capacity.coded
  BY <1>1, <1>5, <1>7, <1>11, <1>12, SMTT(60)
<1> QED  BY <1>11, <1>12, <1>14, <1>16, <1>17, <1>19, <1>20, <1>21 DEF op

----------------------------------------------------------------------------
(***************************************************************************)
(* interleaver: a block is sent when it is full or ends the frame; its     *)
(* codewords are those of the block of the frame with this number.         *)
(***************************************************************************)

\* The frame_len tag of the interleaver counts the symbols of the frame's blocks.
LEMMA TxSymbNumbIs ==
  ASSUME NEW p \in Parameters, NEW f \in Frames, m_cr = p.cr
  PROVE  TxSymbNumb(FrameLen(p, f)) = SymbolCount(p, f)
<1>1. PICK N \in Nat : N = FrameLen(p, f)
  BY FrameFacts
<1>2. SF \in 7 .. 12 /\ p.cr \in 0 .. 4
  BY ParamFacts
<1>3. N - SF + 2 \in Int /\ N - SF + 2 = N - (SF - 2)
  BY <1>2
<1>4. PICK x \in Int : x = CeilDiv(N - SF + 2, SF)
  BY <1>2, <1>3, CeilFacts
<1>5. BlockCount(p, f) = 1 + (IF x >= 0 THEN x ELSE 0)
  <2>1. BlockCount(p, f) = 1 + Max({x, 0})
    BY <1>1, <1>3, <1>4, CountFacts
  <2> QED  BY <2>1, MaxOfTwo
<1>6. PICK y \in Int : y = x * (p.cr + 4)
  BY <1>2
<1>7. (x >= 0 => y >= 0) /\ (x < 0 => y < 0)
  <2>1. p.cr = 0 \/ p.cr = 1 \/ p.cr = 2 \/ p.cr = 3 \/ p.cr = 4
    BY <1>2
  <2>2. y = 4 * x \/ y = 5 * x \/ y = 6 * x \/ y = 7 * x \/ y = 8 * x
    BY <1>6, <2>1
  <2> QED  BY <2>2
<1>8. TxSymbNumb(N) = 8 + (IF y >= 0 THEN y ELSE 0)
  <2>1. TxSymbNumb(N) = 8 + Max({x * (p.cr + 4), 0})
    BY <1>4 DEF TxSymbNumb
  <2>2. Max({y, 0}) = IF y >= 0 THEN y ELSE 0
    BY MaxOfTwo
  <2> QED  BY <1>6, <2>1, <2>2
<1>9. CASE x >= 0
  <2>1. BlockCount(p, f) - 1 = x /\ TxSymbNumb(N) = 8 + y
    BY <1>5, <1>7, <1>8, <1>9
  <2>2. x * (4 + p.cr) = x * (p.cr + 4)
    BY <1>2
  <2> QED  BY <1>1, <1>6, <2>1, <2>2 DEF SymbolCount
<1>10. CASE ~(x >= 0)
  <2>1. BlockCount(p, f) - 1 = 0 /\ TxSymbNumb(N) = 8
    <3>1. y < 0
      BY <1>7, <1>10
    <3>2. ~(y >= 0)
      BY <3>1
    <3> QED  BY <1>5, <1>8, <1>10, <3>2
  <2>2. 0 * (4 + p.cr) = 0
    BY <1>2
  <2> QED  BY <1>1, <2>1, <2>2 DEF SymbolCount
<1> QED  BY <1>9, <1>10

\* The blocks of whole frames and the first B of frame f.
SentUpTo(s, p, f, B) ==
  /\ s \in Seq(BareSet) /\ Len(s) = Len(BlocksUpTo(p, f - 1)) + B
  /\ \A k \in 1 .. Len(BlocksUpTo(p, f - 1)) : s[k] = BlocksUpTo(p, f - 1)[k]
  /\ \A k \in 1 .. B : s[Len(BlocksUpTo(p, f - 1)) + k] = BlocksOf(p, f)[k]

LEMMA BlocksSentIs ==
  ASSUME NEW p \in Parameters, NEW f \in Frames, NEW B \in Nat, B <= BlockCount(p, f)
  PROVE  /\ SentUpTo(BlocksSent(p, f, B), p, f, B)
         /\ B = BlockCount(p, f) => SentUpTo(BlocksSent(p, f + 1, 0), p, f, B)
         /\ Len(BlocksUpTo(p, f - 1)) \in Nat
<1>1. f \in Nat /\ f - 1 \in 0 .. NFrames /\ f - 1 < NFrames /\ (f - 1) + 1 = f /\ f + 1 - 1 = f
      /\ NFrames \in Nat
  BY TxAssumption DEF Frames
<1> DEFINE up == BlocksUpTo(p, f - 1)
           bs == BlocksOf(p, f)
<1>2. up \in Seq(BareSet) /\ Len(up) \in Nat /\ BlocksUpTo(p, f) = up \o bs
  BY <1>1, BlocksUpToFacts
<1>3. bs \in Seq(BareSet) /\ Len(bs) = BlockCount(p, f) /\ BlockCount(p, f) \in Nat \ {0}
  BY BlocksType, CountFacts DEF BlockCount
<1> DEFINE part == IF B = 0 THEN <<>> ELSE SubSeq(bs, 1, B)
<1>4. BlocksSent(p, f, B) = up \o part /\ BlocksSent(p, f + 1, 0) = BlocksUpTo(p, f) \o <<>>
  BY <1>1 DEF BlocksSent
<1> HIDE DEF up, bs
<1>5. part \in Seq(BareSet) /\ Len(part) = B /\ \A k \in 1 .. B : part[k] = bs[k]
  <2>1. CASE B = 0
    BY <2>1
  <2>2. CASE B # 0
    <3>1. B \in 1 .. Len(bs)
      BY <1>3, <2>2
    <3> QED  BY <1>3, <2>2, <3>1
  <2> QED  BY <2>1, <2>2
<1> HIDE DEF part
<1>6. SentUpTo(BlocksSent(p, f, B), p, f, B)
  <2>1. /\ up \o part \in Seq(BareSet) /\ Len(up \o part) = Len(up) + Len(part)
        /\ \A k \in 1 .. Len(up) : (up \o part)[k] = up[k]
        /\ \A k \in 1 .. Len(part) : (up \o part)[Len(up) + k] = part[k]
    <3>1. up \in Seq(BareSet) /\ part \in Seq(BareSet)
      BY <1>2, <1>5
    <3> QED  BY <3>1, ConcatFacts
  <2>2. \A k \in 1 .. B : (up \o part)[Len(up) + k] = bs[k]
    BY <1>5, <2>1
  <2> QED  BY <1>4, <1>5, <2>1, <2>2 DEF SentUpTo, up, bs
<1>7. ASSUME B = BlockCount(p, f) PROVE SentUpTo(BlocksSent(p, f + 1, 0), p, f, B)
  <2>1. /\ up \o bs \in Seq(BareSet) /\ Len(up \o bs) = Len(up) + Len(bs)
        /\ \A k \in 1 .. Len(up) : (up \o bs)[k] = up[k]
        /\ \A k \in 1 .. Len(bs) : (up \o bs)[Len(up) + k] = bs[k]
    <3>1. up \in Seq(BareSet) /\ bs \in Seq(BareSet)
      BY <1>2, <1>3
    <3> QED  BY <3>1, ConcatFacts
  <2>2. BlocksSent(p, f + 1, 0) = up \o bs
    <3>1. (up \o bs) \o <<>> = up \o bs
      BY <2>1
    <3> QED  BY <1>2, <1>4, <3>1
  <2>3. Len(bs) = B
    BY <1>3, <1>7
  <2> QED  BY <2>1, <2>2, <2>3 DEF SentUpTo, up, bs
<1> QED  BY <1>2, <1>6, <1>7 DEF up

\* The first codewords before the interleaver, when it has written B blocks of their frame.
InterAt(p, f, B, c, L, N) ==
  /\ L = Len(coded) /\ N = FrameLen(p, f) /\ c = CodewordsBefore(B) /\ c < N
  /\ B < BlockCount(p, f) /\ CodePlaces(p)[1] = Place(f, c)
  /\ CwCntNow = c /\ InterFrameLenNow = N
  /\ Window(coded) = IF L <= N - c THEN L ELSE N - c
  /\ \A k \in 1 .. L : k - 1 < N - c => coded[k] = CodeItem(p, f, c + k - 1)
  /\ \A j \in 0 .. L : j <= N - c => CodePlaces(p)[1 + j] = After(CheckSize(p), f, c + j)

LEMMA InterleaverHead ==
  ASSUME NEW p \in Parameters, Typed, CodeInOrder(p), BlockCounts(p), coded # <<>>
  PROVE  \E f \in Frames, B \in Nat, c \in Nat, L \in Nat \ {0}, N \in Nat \ {0} :
           InterAt(p, f, B, c, L, N)
<1> DEFINE size == CheckSize(p)
           ip == CodePlaces(p)
<1>1. coded \in Seq(CodewordSet)
  BY DEF Typed
<1>2. /\ Ordered(ip, Len(coded), size) /\ size \in Sizes
      /\ \A k \in 1 .. Len(coded) : coded[k] = CodeItem(p, ip[k].frame, ip[k].n)
  BY SizesFacts DEF CodeInOrder
<1>3. TagsAt(coded, ip, size)
  <2> SUFFICES ASSUME NEW k \in 1 .. Len(coded)
               PROVE  coded[k].len = IF ip[k].n = 0 THEN size[ip[k].frame] ELSE 0
    BY DEF TagsAt
  <2>1. k \in 1 .. Len(coded) /\ ip[k].frame \in Frames
    BY <1>2 DEF Ordered
  <2>2. size[ip[k].frame] = FrameLen(p, ip[k].frame)
    BY <2>1, SizesFacts
  <2>3. coded[k] = CodeItem(p, ip[k].frame, ip[k].n)
    BY <1>2
  <2> HIDE DEF ip, size
  <2> QED  BY <2>2, <2>3 DEF CodeItem
<1>4. PICK f \in Frames, c \in Nat, L \in Nat \ {0}, N \in Nat \ {0} :
        /\ L = Len(coded) /\ N = size[f] /\ c < N /\ ip[1] = Place(f, c)
        /\ Window(coded) = IF L <= N - c THEN L ELSE N - c
        /\ \A j \in 0 .. L : j < N - c => ip[1 + j].frame = f /\ ip[1 + j].n = c + j
        /\ \A j \in 0 .. L : j <= N - c => ip[1 + j] = After(size, f, c + j)
  <2> HIDE DEF ip, size
  <2>1. \E f \in Frames, c \in Nat, L \in Nat \ {0}, N \in Nat \ {0} :
          HeadAt(coded, ip, size, f, c, L, N)
    BY <1>1, <1>2, <1>3, LinkHead
  <2> QED  BY <2>1 DEF HeadAt
<1>5. N = FrameLen(p, f)
  BY <1>4, SizesFacts
<1> HIDE DEF ip, size
<1>6. ip[1].n = c /\ ip[1].frame = f
  BY <1>4 DEF Place
<1>7. PICK B \in Nat : B = BlocksDone(c) /\ c = CodewordsBefore(B) /\ B < BlockCount(p, f)
  <2>1. c = CodewordsBefore(BlocksDone(c)) /\ BlocksDone(c) < BlockCount(p, f)
    BY <1>6 DEF BlockCounts, ip
  <2>2. BlocksDone(c) \in Nat
    <3>1. SF \in 7 .. 12
      BY TxAssumption
    <3>2. SF = 7 \/ SF = 8 \/ SF = 9 \/ SF = 10 \/ SF = 11 \/ SF = 12
      BY <3>1
    <3>3. (c + 2) \div 7 \in Nat /\ (c + 2) \div 8 \in Nat /\ (c + 2) \div 9 \in Nat
          /\ (c + 2) \div 10 \in Nat /\ (c + 2) \div 11 \in Nat /\ (c + 2) \div 12 \in Nat
      OBVIOUS
    <3> QED  BY <3>2, <3>3 DEF BlocksDone
  <2> QED  BY <2>1, <2>2
<1>8. ASSUME NEW k \in 1 .. L, k - 1 < N - c PROVE coded[k] = CodeItem(p, f, c + k - 1)
  <2>1. k - 1 \in 0 .. L /\ k - 1 < N - c /\ 1 + (k - 1) = k /\ c + (k - 1) = c + k - 1
    BY <1>4, <1>8
  <2>2. ip[k].frame = f /\ ip[k].n = c + k - 1
    BY <1>4, <2>1
  <2> QED  BY <1>2, <1>4, <2>2
<1>9. CwCntNow = c /\ InterFrameLenNow = N
  <2>1. coded[1] = CodeItem(p, f, c)
    <3>1. 1 \in 1 .. L /\ 1 - 1 < N - c /\ c + 1 - 1 = c
      BY <1>4
    <3> QED  BY <1>8, <3>1
  <2>2. coded[1].len = IF c = 0 THEN N ELSE 0
    BY <1>5, <2>1 DEF CodeItem
  <2>3. c # 0 => cw_cnt = c /\ inter_frame_len = N
    BY <1>5, <1>6 DEF BlockCounts, ip
  <2> QED  BY <2>2, <2>3 DEF CwCntNow, InterFrameLenNow
<1>10. InterAt(p, f, B, c, L, N)
  BY <1>4, <1>5, <1>7, <1>8, <1>9 DEF InterAt, ip, size
<1> QED  BY <1>10

\* The interleaver reads the tag and waits.
LEMMA InterleaverWaitsKeeps ==
  ASSUME NEW p \in Parameters, Typed, InterleaverWaits, CodeInOrder(p), BlockCounts(p),
         BlocksInOrder(p), CodePlaces(p)'[1] = CodePlaces(p)[1]
  PROVE  BlockCounts(p)' /\ BlocksInOrder(p)' /\ cw_cnt' \in Nat /\ inter_frame_len' \in Nat
<1>1. coded # <<>> /\ blocks' = blocks /\ cw_cnt' = CwCntNow /\ inter_frame_len' = InterFrameLenNow
  BY DEF InterleaverWaits
<1>2. PICK f \in Frames, B \in Nat, c \in Nat, L \in Nat \ {0}, N \in Nat \ {0} :
        InterAt(p, f, B, c, L, N)
  BY <1>1, InterleaverHead
<1>3. CwCntNow = c /\ InterFrameLenNow = N /\ N = FrameLen(p, f) /\ CodePlaces(p)[1] = Place(f, c)
  BY <1>2 DEF InterAt
<1>4. PICK q : q = CodePlaces(p)[1] /\ q.frame = f /\ q.n = c
  BY <1>3 DEF Place
<1>5. BlockCounts(p)'
  <2>1. cw_cnt' = q.n /\ inter_frame_len' = FrameLen(p, q.frame)
    BY <1>1, <1>3, <1>4
  <2>2. /\ q.n = CodewordsBefore(BlocksDone(q.n))
        /\ q.frame \in Frames => BlocksDone(q.n) < BlockCount(p, q.frame)
    BY <1>4 DEF BlockCounts
  <2>3. CodePlaces(p)'[1] = q
    BY <1>4
  <2> QED  BY <2>1, <2>2, <2>3 DEF BlockCounts
<1>6. BlocksInOrder(p)'
  BY <1>1 DEF BlocksInOrder, Bare
<1> QED  BY <1>1, <1>3, <1>5, <1>6

\* A block is written.
LEMMA InterleaveKeeps ==
  ASSUME NEW p \in Parameters, p = Given, Typed, InterleaveBlock,
         CodeInOrder(p), BlockCounts(p), BlocksInOrder(p), SymInOrder(p),
         CheckPlaces(p)'[1] = CheckPlaces(p)[1]
  PROVE  /\ CodeInOrder(p)' /\ BlockCounts(p)' /\ BlocksInOrder(p)' /\ SymInOrder(p)'
         /\ SymPlaces(p)'[1] = SymPlaces(p)[1]
         /\ coded' \in Seq(CodewordSet) /\ Len(coded') <= Len(coded)
         /\ tx_symbols' \in Seq(SymbolSet) /\ Len(tx_symbols') <= Capacity.tx_symbols
         /\ tx_symbols' # <<>>
         /\ cw_cnt' \in Nat /\ inter_frame_len' \in Nat
         /\ blocks' \in Seq([cw_len : Nat, cws : Seq(CodewordSet)])
<1> DEFINE size == CheckSize(p)
           size2 == SymSize(p)
           ip == CodePlaces(p)
           op == SymPlaces(p)
<1>1. PICK M \in Nat, K \in Nat : M = Len(tx_symbols) /\ K = Capacity.tx_symbols /\ M <= K
  <2>1. tx_symbols \in Seq(SymbolSet) /\ Len(tx_symbols) <= Capacity.tx_symbols
    BY DEF Typed, TypeOK
  <2>2. Len(tx_symbols) \in Nat /\ Capacity.tx_symbols \in Nat
    BY <2>1, TxAssumption
  <2> QED  BY <2>1, <2>2
<1>2. /\ coded \in Seq(CodewordSet) /\ tx_symbols \in Seq(SymbolSet) /\ coded # <<>> /\ m_cr = p.cr
      /\ blocks \in Seq([cw_len : Nat, cws : Seq(CodewordSet)])
  BY DEF Typed, Given, InterleaveBlock
<1>3. Ordered(ip, Len(coded), size) /\ size \in Sizes /\ size2 \in Sizes
  BY SizesFacts DEF CodeInOrder
<1>4. PICK f \in Frames, B \in Nat, c \in Nat, L \in Nat \ {0}, N \in Nat \ {0} :
        InterAt(p, f, B, c, L, N)
  BY <1>2, InterleaverHead
<1>5. /\ L = Len(coded) /\ N = FrameLen(p, f) /\ c = CodewordsBefore(B) /\ c < N
      /\ B < BlockCount(p, f) /\ ip[1] = Place(f, c)
      /\ CwCntNow = c /\ InterFrameLenNow = N
      /\ Window(coded) = IF L <= N - c THEN L ELSE N - c
      /\ \A k \in 1 .. L : k - 1 < N - c => coded[k] = CodeItem(p, f, c + k - 1)
      /\ \A j \in 0 .. L : j <= N - c => ip[1 + j] = After(size, f, c + j)
  BY <1>4 DEF InterAt
<1>6. size[f] = N /\ size2[f] = SymbolCount(p, f) /\ f \in Nat
  BY <1>5, SizesFacts, FrameFacts
<1> HIDE DEF ip, op, size, size2
\* Blocks, codewords and symbols counted.
<1>7. PICK sf \in 5 .. 12, w \in 4 .. 8, s \in Nat :
        /\ sf = SfOf(B) /\ SfApp = sf /\ w = 4 + CrOfBlock(p, B) /\ CwLen = w
        /\ s = SymbolsBefore(p, B) /\ SymbolsBefore(p, B + 1) = s + w
        /\ CodewordsBefore(B + 1) = c + sf /\ (s = 0 <=> B = 0) /\ (c = 0 <=> B = 0)
        /\ BlocksDone(c) = B
  <2>1. /\ SfOf(B) \in 5 .. 12 /\ CodewordsBefore(B + 1) = c + SfOf(B) /\ BlocksDone(c) = B
        /\ (c < SF - 2 <=> B = 0)
    BY <1>5, CodewordsFacts
  <2>2. /\ SymbolsBefore(p, B) \in Nat /\ (SymbolsBefore(p, B) = 0 <=> B = 0)
        /\ SymbolsBefore(p, B + 1) = SymbolsBefore(p, B) + (4 + CrOfBlock(p, B))
        /\ CrOfBlock(p, B) \in 0 .. 4
    BY SymbolsFacts
  <2>3. SfApp = SfOf(B) /\ CwLen = 4 + CrOfBlock(p, B)
    BY <1>2, <1>5, <2>1 DEF SfApp, CwLen, InHeaderBlock, SfOf, CrOfBlock
  <2>4. 4 + CrOfBlock(p, B) \in 4 .. 8
    BY <2>2
  <2>5. c = 0 <=> B = 0
    <3>1. SF \in 7 .. 12
      BY TxAssumption
    <3>2. c = 0 => c < SF - 2
      BY <3>1
    <3>3. B = 0 => c = 0
      BY <1>5 DEF CodewordsBefore
    <3> QED  BY <2>1, <3>2, <3>3
  <2> QED  BY <2>1, <2>2, <2>3, <2>4, <2>5
<1>8. PICK n \in Nat :
        /\ n = BlockItems /\ n >= 1 /\ n <= L /\ n <= N - c /\ n <= sf /\ (n = sf \/ c + n = N)
        /\ n = BlockCodewords(p, f, B)
  <2>1. PICK v \in Nat \ {0} : v = Window(coded) /\ v <= L /\ v <= N - c /\ (v = L \/ v = N - c)
    BY <1>5
  <2>2. BlockItems = IF v <= sf THEN v ELSE sf
    <3>1. v \in Int /\ sf \in Int
      OBVIOUS
    <3> QED  BY <1>7, <2>1, <3>1, MinOfTwo DEF BlockItems
  <2>3. PICK n \in Nat : n = BlockItems /\ n >= 1 /\ n <= v /\ n <= sf
    BY <2>2
  <2>4. n >= sf \/ c + n = N
    BY <1>5, <1>7, <2>3 DEF InterleaveBlock, BlockReady
  <2>5. n <= L /\ n <= N - c
    BY <2>1, <2>3
  <2>6. n = BlockCodewords(p, f, B)
    <3>1. BlockCodewords(p, f, B) = IF sf <= N - c THEN sf ELSE N - c
      BY <1>5, <1>7 DEF BlockCodewords
    <3>2. CASE n >= sf
      <4>1. n = sf /\ sf <= N - c
        BY <2>3, <2>5, <3>2
      <4> QED  BY <3>1, <4>1
    <3>3. CASE ~(n >= sf)
      <4>1. n = N - c /\ ~(sf <= N - c)
        BY <2>4, <3>3
      <4> QED  BY <3>1, <4>1
    <3> QED  BY <3>2, <3>3
  <2> QED  BY <2>3, <2>4, <2>5, <2>6
<1>9. /\ (c + n = N <=> B + 1 = BlockCount(p, f)) /\ (c + n # N => n = sf)
      /\ (c + n # N => B + 1 < BlockCount(p, f)) /\ c + n <= N
      /\ (s + w = SymbolCount(p, f) <=> c + n = N) /\ s + w <= SymbolCount(p, f)
      /\ SymbolCount(p, f) \in Nat /\ BlockCount(p, f) \in Nat
  <2>1. PICK D \in Nat : D = BlockCount(p, f) /\ B < D
    BY <1>5, CountFacts
  <2>2. B + 1 < D <=> c + sf < N
    <3>1. B + 1 \in Nat
      OBVIOUS
    <3> QED  BY <1>5, <1>7, <2>1, <3>1, CountFacts, ZenonT(60)
  <2>3. c + n <= N
    BY <1>8
  <2>4. c + n = N <=> B + 1 = D
    <3>1. B + 1 = D <=> ~(B + 1 < D)
      BY <2>1
    <3>2. c + n = N => ~(c + sf < N)
      BY <1>8
    <3>3. ~(c + sf < N) => c + n = N
      BY <1>8, <2>3
    <3> QED  BY <2>2, <3>1, <3>2, <3>3
  <2>5. PICK Y \in Nat : Y = SymbolCount(p, f) /\ Y = SymbolsBefore(p, D)
    BY <2>1, CountFacts
  <2>6. B + 1 < D <=> s + w < Y
    <3>1. B + 1 \in Nat
      OBVIOUS
    <3> QED  BY <1>7, <2>1, <2>5, <3>1, CountFacts
  <2>7. B + 1 = D => s + w = Y
    BY <1>7, <2>5
  <2>8. (s + w = Y <=> B + 1 = D) /\ s + w <= Y
    <3>1. CASE B + 1 = D
      BY <2>7, <3>1
    <3>2. CASE B + 1 # D
      <4>1. B + 1 < D
        BY <2>1, <3>2
      <4>2. s + w < Y
        BY <2>6, <4>1
      <4> QED  BY <3>2, <4>2
    <3> QED  BY <3>1, <3>2
  <2>9. c + n # N => B + 1 < D
    BY <2>1, <2>4
  <2>10. c + n # N => n = sf
    BY <1>8
  <2> QED  BY <2>1, <2>3, <2>4, <2>5, <2>8, <2>9, <2>10
<1>10. /\ blocks' = Append(blocks, [cw_len |-> w, cws |-> SubSeq(coded, 1, n)])
       /\ tx_symbols' = tx_symbols \o SymbolsOfBlock
       /\ cw_cnt' = c + sf /\ inter_frame_len' = N /\ coded' = Taken(coded, n) /\ M + w <= K
  <2>1. PICK noutput \in Offers(tx_symbols, "tx_symbols") : noutput >= CwLen
    BY DEF InterleaveBlock
  <2>2. noutput \in Nat /\ noutput <= K - M /\ noutput >= w
    BY <1>1, <1>7, <2>1 DEF Offers
  <2>3. M + w <= K
    BY <2>2
  <2> QED  BY <1>5, <1>7, <1>8, <2>3 DEF InterleaveBlock
\* The codewords left.
<1>11. /\ coded' \in Seq(CodewordSet) /\ Len(coded') = L - n /\ n \in 0 .. L
       /\ \A k \in 1 .. L - n : coded'[k] = coded[n + k]
  <2>1. n \in 0 .. Len(coded) /\ n \in 0 .. L
    BY <1>5, <1>8
  <2>2. Taken(coded, n) \in Seq(CodewordSet) /\ Len(Taken(coded, n)) = Len(coded) - n
        /\ \A k \in 1 .. (Len(coded) - n) : Taken(coded, n)[k] = coded[n + k]
    BY <1>2, <2>1, SuffixFacts
  <2> QED  BY <1>5, <1>10, <2>1, <2>2
<1>12. \A k \in 1 .. L - n + 1 : CodePlaces(p)'[k] = ip[n + k]
  <2> SUFFICES ASSUME NEW k \in 1 .. L - n + 1 PROVE CodePlaces(p)'[k] = ip[n + k]
    OBVIOUS
  <2>1. n + k \in 1 .. L + 1 /\ (n + k = L + 1 <=> k = L - n + 1)
    BY <1>11
  <2>2. CASE k = L - n + 1
    <3>1. CodePlaces(p)'[k] = CheckPlaces(p)'[1]
      BY <1>11, <2>2 DEF CodePlaces
    <3>2. ip[n + k] = CheckPlaces(p)[1]
      BY <1>5, <2>1, <2>2 DEF CodePlaces, ip
    <3> QED  BY <3>1, <3>2
  <2>3. CASE k # L - n + 1
    <3>0. k \in 1 .. L - n
      BY <1>11, <2>3
    <3>1. coded'[k] = coded[n + k]
      BY <1>11, <3>0
    <3>2. CodePlaces(p)'[k] = Place(coded'[k].frame, NibbleIndex(p, coded'[k]))
      BY <1>11, <2>3 DEF CodePlaces
    <3>3. ip[n + k] = Place(coded[n + k].frame, NibbleIndex(p, coded[n + k]))
      BY <1>5, <2>1, <2>3 DEF CodePlaces, ip
    <3> QED  BY <3>1, <3>2, <3>3
  <2> QED  BY <2>2, <2>3
<1>13. CodeInOrder(p)'
  <2>1. PICK pls : pls = CodePlaces(p)'
    OBVIOUS
  <2>2. Ordered(pls, L - n, size)
    <3>1. \A k \in 1 .. L - n + 1 : pls[k] = ip[n + k]
      BY <1>12, <2>1
    <3> QED  BY <1>3, <1>5, <1>11, <3>1, TakenOrdered
  <2>3. \A k \in 1 .. L - n : coded'[k] = CodeItem(p, pls[k].frame, pls[k].n)
    <3> SUFFICES ASSUME NEW k \in 1 .. L - n PROVE coded'[k] = CodeItem(p, pls[k].frame, pls[k].n)
      OBVIOUS
    <3>1. coded'[k] = coded[n + k] /\ pls[k] = ip[n + k] /\ n + k \in 1 .. L
      BY <1>11, <1>12, <2>1
    <3>2. coded[n + k] = CodeItem(p, ip[n + k].frame, ip[n + k].n)
      BY <1>5, <3>1 DEF CodeInOrder, ip
    <3> QED  BY <3>1, <3>2
  <2> QED  BY <1>11, <2>1, <2>2, <2>3 DEF CodeInOrder, size
<1>14. PICK q : /\ q = CodePlaces(p)'[1] /\ q.n = (IF c + n = N THEN 0 ELSE c + sf)
                /\ q.frame = (IF c + n = N THEN f + 1 ELSE f)
  <2>1. 1 \in 1 .. L - n + 1 /\ n \in 0 .. L /\ n <= N - c /\ n + 1 = 1 + n
    BY <1>8, <1>11
  <2>2. CodePlaces(p)'[1] = After(size, f, c + n)
    <3>1. CodePlaces(p)'[1] = ip[n + 1]
      BY <1>12, <2>1
    <3> QED  BY <1>5, <2>1, <3>1
  <2>3. /\ After(size, f, c + n).n = (IF c + n = N THEN 0 ELSE c + n)
        /\ After(size, f, c + n).frame = (IF c + n = N THEN f + 1 ELSE f)
    BY <1>6 DEF After, Place
  <2> QED  BY <1>9, <2>2, <2>3
<1>15. BlocksDone(0) = 0 /\ CodewordsBefore(0) = 0 /\ BlocksDone(c + sf) = B + 1
       /\ SymbolsBefore(p, 0) = 0
  <2>1. CodewordsBefore(0) = 0 /\ SymbolsBefore(p, 0) = 0
    BY DEF CodewordsBefore, SymbolsBefore
  <2>2. BlocksDone(CodewordsBefore(0)) = 0
    BY CodewordsFacts
  <2>3. BlocksDone(CodewordsBefore(B + 1)) = B + 1
    <3>1. B + 1 \in Nat
      OBVIOUS
    <3> QED  BY <3>1, CodewordsFacts
  <2> QED  BY <1>7, <2>1, <2>2, <2>3
<1>16. BlockCounts(p)'
  <2>1. CASE c + n = N
    <3>1. q.n = 0 /\ q.frame = f + 1
      BY <1>14, <2>1
    <3>2. q.n = CodewordsBefore(BlocksDone(q.n))
      BY <1>15, <3>1
    <3>3. q.frame \in Frames => BlocksDone(q.n) < BlockCount(p, q.frame)
      <4> SUFFICES ASSUME q.frame \in Frames PROVE BlocksDone(q.n) < BlockCount(p, q.frame)
        OBVIOUS
      <4>1. BlockCount(p, q.frame) \in Nat \ {0}
        BY CountFacts
      <4> QED  BY <1>15, <3>1, <4>1
    <3> QED  BY <1>14, <3>1, <3>2, <3>3 DEF BlockCounts
  <2>2. CASE c + n # N
    <3>1. q.n = c + sf /\ q.frame = f
      BY <1>14, <2>2
    <3>2. cw_cnt' = q.n /\ inter_frame_len' = FrameLen(p, q.frame)
      BY <1>5, <1>10, <3>1
    <3>3. q.n = CodewordsBefore(BlocksDone(q.n)) /\ BlocksDone(q.n) < BlockCount(p, q.frame)
      BY <1>7, <1>9, <1>15, <2>2, <3>1
    <3> QED  BY <1>14, <3>2, <3>3 DEF BlockCounts
  <2> QED  BY <2>1, <2>2
\* The block written.
<1> DEFINE x == [cw_len |-> w, cws |-> SubSeq(coded, 1, n)]
           b == BlocksOf(p, f)[B + 1]
<1>17. ASSUME NEW k \in 1 .. n
       PROVE  coded[k] = CodeItem(p, f, c + k - 1) /\ CrOf(p, c + k - 1) = CrOfBlock(p, B)
  <2>1. k \in 1 .. L /\ k - 1 < N - c
    BY <1>8
  <2>2. CrOf(p, c + k - 1) = CrOfBlock(p, B)
    <3>1. SF \in 7 .. 12
      BY TxAssumption
    <3>2. CASE B = 0
      <4>1. c = 0 /\ sf = SF - 2
        BY <1>7, <3>2 DEF SfOf
      <4>2. c + k - 1 < SF - 2
        BY <1>8, <3>1, <4>1
      <4> QED  BY <3>2, <4>2 DEF CrOf, CrOfBlock
    <3>3. CASE B # 0
      <4>1. c >= SF - 2
        BY <1>5, <3>3, CodewordsFacts
      <4>2. ~(c + k - 1 < SF - 2)
        BY <3>1, <4>1
      <4> QED  BY <3>3, <4>2 DEF CrOf, CrOfBlock
    <3> QED  BY <3>2, <3>3
  <2> QED  BY <1>5, <2>1, <2>2
<1>18. /\ SubSeq(coded, 1, n) \in Seq(CodewordSet) /\ Len(SubSeq(coded, 1, n)) = n
       /\ \A k \in 1 .. n : SubSeq(coded, 1, n)[k] = coded[k]
  <2>1. n \in 1 .. Len(coded)
    BY <1>5, <1>8
  <2> QED  BY <1>2, <2>1
<1>19. Bare(x) = b
  <2>1. /\ b = [cw_len |-> w, cws |-> b.cws] /\ b \in BareSet /\ Len(b.cws) = n
        /\ \A k \in 1 .. n : b.cws[k] = [frame |-> f, nibble |-> NibbleOf(p, f, c + k - 1),
                                         cr |-> CrOfBlock(p, B)]
    <3>1. B < BlockCount(p, f)
      BY <1>5
    <3>2. /\ b = [cw_len |-> 4 + CrOfBlock(p, B), cws |-> b.cws] /\ b \in BareSet
          /\ Len(b.cws) = BlockCodewords(p, f, B)
          /\ \A k \in 1 .. BlockCodewords(p, f, B) :
               b.cws[k] = [frame |-> f, nibble |-> NibbleOf(p, f, CodewordsBefore(B) + k - 1),
                           cr |-> CrOfBlock(p, B)]
      BY <3>1, BlockFacts, ZenonT(60)
    <3>3. w = 4 + CrOfBlock(p, B) /\ n = BlockCodewords(p, f, B) /\ c = CodewordsBefore(B)
      BY <1>5, <1>7, <1>8
    <3> HIDE DEF b
    <3> QED  BY <3>2, <3>3
  <2> HIDE DEF b
  <2>2. b.cws \in Seq(BareCodewords)
    BY <2>1 DEF BareSet
  <2>3. b.cws = [k \in 1 .. n |-> b.cws[k]]
    BY <2>1, <2>2
  <2>4. [k \in 1 .. Len(x.cws) |-> [frame |-> x.cws[k].frame, nibble |-> x.cws[k].nibble,
                                    cr |-> x.cws[k].cr]] = [k \in 1 .. n |-> b.cws[k]]
    <3>1. Len(x.cws) = n
      BY <1>18
    <3>2. ASSUME NEW k \in 1 .. n
          PROVE  [frame |-> x.cws[k].frame, nibble |-> x.cws[k].nibble, cr |-> x.cws[k].cr] = b.cws[k]
      <4>1. x.cws[k] = CodeItem(p, f, c + k - 1) /\ CrOf(p, c + k - 1) = CrOfBlock(p, B)
        BY <1>17, <1>18
      <4> HIDE DEF x
      <4> QED  BY <2>1, <4>1 DEF CodeItem
    <3> HIDE DEF x
    <3> QED  BY <3>1, <3>2
  <2>5. x.cw_len = w
    OBVIOUS
  <2> HIDE DEF x
  <2> QED  BY <2>1, <2>3, <2>4, <2>5 DEF Bare
<1> HIDE DEF b
<1>20. PICK Q \in Nat : Q = Len(blocks)
  BY <1>2
<1>21. /\ blocks' \in Seq([cw_len : Nat, cws : Seq(CodewordSet)]) /\ Len(blocks') = Q + 1
       /\ \A k \in 1 .. Q : blocks'[k] = blocks[k]
       /\ blocks'[Q + 1] = x
  <2>1. x \in [cw_len : Nat, cws : Seq(CodewordSet)]
    BY <1>18
  <2> HIDE DEF x
  <2>2. blocks' = Append(blocks, x)
    BY <1>10 DEF x
  <2> QED  BY <1>2, <1>20, <2>1, <2>2
<1> HIDE DEF x
<1>22. PICK U \in Nat : U = Len(BlocksUpTo(p, f - 1)) /\ Q = U + B
                        /\ \A k \in 1 .. Q : Bare(blocks[k]) = BlocksSent(p, f, B)[k]
  <2>1. CodePlaces(p)[1].frame = f /\ CodePlaces(p)[1].n = c
    BY <1>5 DEF Place, ip
  <2>2. Len(blocks) = Len(BlocksSent(p, f, B)) /\ \A k \in 1 .. Len(blocks) :
          Bare(blocks[k]) = BlocksSent(p, f, B)[k]
    BY <1>7, <2>1 DEF BlocksInOrder
  <2>3. SentUpTo(BlocksSent(p, f, B), p, f, B) /\ Len(BlocksUpTo(p, f - 1)) \in Nat
    <3>1. B <= BlockCount(p, f)
      BY <1>5, <1>9
    <3> QED  BY <3>1, BlocksSentIs
  <2>4. Len(BlocksSent(p, f, B)) = Len(BlocksUpTo(p, f - 1)) + B
    BY <2>3 DEF SentUpTo
  <2> QED  BY <1>20, <2>2, <2>3, <2>4
<1>23. PICK sent : sent = BlocksSent(p, q.frame, BlocksDone(q.n)) /\ SentUpTo(sent, p, f, B + 1)
  <2>1. B + 1 \in Nat /\ B + 1 <= BlockCount(p, f)
    BY <1>5, <1>9, SMTT(60)
  <2>2. CASE c + n = N
    <3>1. q.n = 0 /\ q.frame = f + 1 /\ B + 1 = BlockCount(p, f) /\ BlocksDone(q.n) = 0
      BY <1>9, <1>14, <1>15, <2>2
    <3> QED  BY <2>1, <3>1, BlocksSentIs
  <2>3. CASE c + n # N
    <3>1. q.n = c + sf /\ q.frame = f /\ BlocksDone(q.n) = B + 1
      BY <1>14, <1>15, <2>3
    <3> QED  BY <2>1, <3>1, BlocksSentIs
  <2> QED  BY <2>2, <2>3
<1>24. BlocksInOrder(p)'
  <2>1. /\ Len(sent) = U + (B + 1)
        /\ \A k \in 1 .. U : sent[k] = BlocksUpTo(p, f - 1)[k]
        /\ \A k \in 1 .. B + 1 : sent[U + k] = BlocksOf(p, f)[k]
    BY <1>22, <1>23 DEF SentUpTo
  <2>2. /\ \A k \in 1 .. U : BlocksSent(p, f, B)[k] = BlocksUpTo(p, f - 1)[k]
        /\ \A k \in 1 .. B : BlocksSent(p, f, B)[U + k] = BlocksOf(p, f)[k]
    <3>1. SentUpTo(BlocksSent(p, f, B), p, f, B)
      <4>1. B <= BlockCount(p, f)
        BY <1>5, <1>9
      <4> QED  BY <4>1, BlocksSentIs
    <3> QED  BY <1>22, <3>1 DEF SentUpTo
  <2>3. ASSUME NEW k \in 1 .. Q PROVE BlocksSent(p, f, B)[k] = sent[k]
    <3>1. CASE k \in 1 .. U
      BY <2>1, <2>2, <3>1
    <3>2. CASE k \notin 1 .. U
      <4>1. PICK j \in 1 .. B : k = U + j
        <5>1. k - U \in 1 .. B /\ k = U + (k - U)
          BY <1>22, <3>2
        <5> QED  BY <5>1
      <4>2. j \in 1 .. B + 1
        OBVIOUS
      <4> QED  BY <2>1, <2>2, <4>1, <4>2
    <3> QED  BY <3>1, <3>2
  <2>4. ASSUME NEW k \in 1 .. Q + 1 PROVE Bare(blocks'[k]) = sent[k]
    <3>1. CASE k \in 1 .. Q
      <4>1. blocks'[k] = blocks[k] /\ Bare(blocks[k]) = BlocksSent(p, f, B)[k]
        BY <1>21, <1>22, <3>1
      <4> QED  BY <2>3, <3>1, <4>1
    <3>2. CASE k \notin 1 .. Q
      <4>1. k = Q + 1 /\ k = U + (B + 1) /\ B + 1 \in 1 .. B + 1
        BY <1>22, <3>2
      <4>2. sent[k] = b
        BY <2>1, <4>1 DEF b
      <4> QED  BY <1>19, <1>21, <4>1, <4>2
    <3> QED  BY <3>1, <3>2
  <2>5. Len(blocks') = Len(sent) /\ \A k \in 1 .. Len(blocks') : Bare(blocks'[k]) = sent[k]
    BY <1>21, <1>22, <2>1, <2>4
  <2>6. PICK z : z = blocks'
    OBVIOUS
  <2>7. Len(z) = Len(sent) /\ \A k \in 1 .. Len(z) : Bare(z[k]) = sent[k]
    BY <2>5, <2>6
  <2>8. (\A k \in 1 .. Len(blocks) : Bare(blocks[k]) = sent[k])'
        <=> \A k \in 1 .. Len(z) : Bare(z[k]) = sent[k]
    BY <2>6 DEF Bare
  <2> QED  BY <1>14, <1>23, <2>6, <2>7, <2>8 DEF BlocksInOrder, Bare
\* Its symbols.
<1>25. \A i \in 1 .. w : /\ SymbolsOfBlock[i].frame = f /\ SymbolsOfBlock[i].block = U + (B + 1)
                         /\ SymbolsOfBlock[i] = SymItem(p, f, s + i - 1)
                         /\ SymbolsOfBlock[i] \in SymbolSet
                         /\ SymIndex(p, SymbolsOfBlock[i]) = s + i - 1
  <2> SUFFICES ASSUME NEW i \in 1 .. w
               PROVE  /\ SymbolsOfBlock[i].frame = f /\ SymbolsOfBlock[i].block = U + (B + 1)
                      /\ SymbolsOfBlock[i] = SymItem(p, f, s + i - 1)
                      /\ SymbolsOfBlock[i] \in SymbolSet
                      /\ SymIndex(p, SymbolsOfBlock[i]) = s + i - 1
    OBVIOUS
  <2>1. coded[1].frame = f
    <3>1. coded[1] = CodeItem(p, f, c + 1 - 1)
      BY <1>8, <1>17
    <3> QED  BY <3>1 DEF CodeItem
  <2>2. TxSymbNumb(N) = SymbolCount(p, f) /\ SymbolCount(p, f) \in Nat
    BY <1>2, <1>5, <1>9, TxSymbNumbIs
  <2>3. Q + 1 = U + (B + 1) /\ U + (B + 1) \in Nat
    BY <1>22
  <2>4. SymbolsOfBlock[i] = [frame |-> f, block |-> U + (B + 1), i |-> i,
                             len |-> IF i = 1 /\ c = 0 THEN SymbolCount(p, f) ELSE 0]
    BY <1>5, <1>7, <1>20, <2>1, <2>2, <2>3 DEF SymbolsOfBlock
  <2>5. SymbolsOf(p, f)[s + i] = AirItem("symbol", U + (B + 1), i)
    <3>1. B < BlockCount(p, f)
      BY <1>5
    <3>2. \A j \in 1 .. 4 + CrOfBlock(p, B) :
            SymbolsOf(p, f)[SymbolsBefore(p, B) + j]
              = AirItem("symbol", Len(BlocksUpTo(p, f - 1)) + (B + 1), j)
      BY <3>1, SymbolsOfFacts
    <3>3. i \in 1 .. 4 + CrOfBlock(p, B) /\ s = SymbolsBefore(p, B) /\ U = Len(BlocksUpTo(p, f - 1))
      BY <1>7, <1>22
    <3> QED  BY <3>2, <3>3
  <2>6. s + i - 1 + 1 = s + i /\ (s + i - 1 = 0 <=> i = 1 /\ c = 0)
    BY <1>7
  <2>7. SymbolsOfBlock[i] = SymItem(p, f, s + i - 1)
    BY <2>4, <2>5, <2>6 DEF SymItem, AirItem
  <2>8. SymbolsOfBlock[i] \in SymbolSet
    BY <1>6, <2>2, <2>3, <2>4 DEF SymbolSet
  <2>9. SymIndex(p, SymbolsOfBlock[i]) = s + i - 1
    <3>1. PICK y : y = SymbolsOfBlock[i] /\ y.frame = f /\ y.block = U + (B + 1) /\ y.i = i
      BY <2>4
    <3>2. U + (B + 1) - U - 1 = B
      OBVIOUS
    <3>3. SymIndex(p, y) = SymbolsBefore(p, B) + i - 1
      BY <1>22, <3>1, <3>2, SMTT(60) DEF SymIndex
    <3> QED  BY <1>7, <3>1, <3>3
  <2> QED  BY <2>4, <2>7, <2>8, <2>9
<1>26. SymbolsOfBlock \in [1 .. w -> SymbolSet]
  <2>1. SymbolsOfBlock = [i \in 1 .. w |-> SymbolsOfBlock[i]]
    BY <1>7 DEF SymbolsOfBlock
  <2> QED  BY <1>25, <2>1
<1>27. /\ tx_symbols' \in Seq(SymbolSet) /\ Len(tx_symbols') = M + w
       /\ \A k \in 1 .. M : tx_symbols'[k] = tx_symbols[k]
       /\ \A k \in 1 .. w : tx_symbols'[M + k] = SymbolsOfBlock[k]
  <2>0. w \in Nat /\ tx_symbols \in Seq(SymbolSet)
    BY <1>2
  <2>1. /\ tx_symbols \o SymbolsOfBlock \in Seq(SymbolSet)
        /\ Len(tx_symbols \o SymbolsOfBlock) = Len(tx_symbols) + w
        /\ \A k \in 1 .. Len(tx_symbols) : (tx_symbols \o SymbolsOfBlock)[k] = tx_symbols[k]
        /\ \A k \in 1 .. w : (tx_symbols \o SymbolsOfBlock)[Len(tx_symbols) + k] = SymbolsOfBlock[k]
    BY <1>26, <2>0, GrownFacts
  <2> QED  BY <1>1, <1>10, <2>1
<1>28. SymTo(p) = Place(f, s) /\ SymTo(p)' = After(size2, f, s + w)
  <2>1. ip[1].frame = f /\ ip[1].n = c
    BY <1>5 DEF Place
  <2>2. SymTo(p) = Place(f, s)
    BY <1>7, <2>1 DEF SymTo, ip
  <2>3. SymTo(p)' = Place(q.frame, SymbolsBefore(p, BlocksDone(q.n)))
    BY <1>14 DEF SymTo
  <2>4. CASE c + n = N
    <3>1. q.n = 0 /\ q.frame = f + 1 /\ s + w = size2[f]
      BY <1>6, <1>9, <1>14, <2>4
    <3> QED  BY <1>15, <2>2, <2>3, <3>1 DEF After
  <2>5. CASE c + n # N
    <3>1. q.n = c + sf /\ q.frame = f /\ s + w # size2[f]
      BY <1>6, <1>9, <1>14, <2>5
    <3> QED  BY <1>7, <1>15, <2>2, <2>3, <3>1 DEF After
  <2> QED  BY <2>4, <2>5
<1>29. PICK pls : pls = SymPlaces(p)'
  OBVIOUS
<1>30. Extended(op, pls, M, w, f, s, size2)
  <2>1. ASSUME NEW k \in 1 .. M PROVE pls[k] = op[k]
    <3>1. k # M + 1 /\ k # M + w + 1 /\ k \in 1 .. M + w + 1 /\ k \in 1 .. M + 1
      OBVIOUS
    <3>2. pls[k] = Place(tx_symbols'[k].frame, SymIndex(p, tx_symbols'[k]))
      BY <1>27, <1>29, <3>1 DEF SymPlaces
    <3>3. op[k] = Place(tx_symbols[k].frame, SymIndex(p, tx_symbols[k]))
      BY <1>1, <3>1 DEF SymPlaces, op
    <3> QED  BY <1>27, <3>2, <3>3
  <2>2. ASSUME NEW k \in 1 .. w PROVE pls[M + k] = Place(f, s + k - 1)
    <3>1. M + k # M + w + 1 /\ M + k \in 1 .. M + w + 1
      OBVIOUS
    <3>2. pls[M + k] = Place(tx_symbols'[M + k].frame, SymIndex(p, tx_symbols'[M + k]))
      BY <1>27, <1>29, <3>1 DEF SymPlaces
    <3>3. tx_symbols'[M + k] = SymbolsOfBlock[k]
      BY <1>27
    <3> QED  BY <1>25, <3>2, <3>3
  <2>3. pls[M + w + 1] = After(size2, f, s + w)
    <3>1. M + w + 1 \in 1 .. M + w + 1
      OBVIOUS
    <3>2. pls[M + w + 1] = SymTo(p)'
      BY <1>27, <1>29, <3>1 DEF SymPlaces
    <3> QED  BY <1>28, <3>2
  <2>4. op[M + 1] = Place(f, s)
    BY <1>1, <1>28 DEF SymPlaces, op
  <2>5. s + w <= size2[f]
    BY <1>6, <1>9
  <2> QED  BY <2>1, <2>2, <2>3, <2>4, <2>5 DEF Extended
<1>31. Ordered(pls, M + w, size2) /\ pls[1] = op[1]
  <2>1. Ordered(op, M, size2)
    BY <1>1 DEF SymInOrder, op, size2
  <2>2. w \in Nat
    OBVIOUS
  <2> QED  BY <1>3, <1>30, <2>1, <2>2, AppendOrdered
<1>32. SymInOrder(p)'
  <2>1. ASSUME NEW k \in 1 .. M + w PROVE tx_symbols'[k] = SymItem(p, pls[k].frame, pls[k].n)
    <3>1. CASE k \in 1 .. M
      <4>1. tx_symbols'[k] = tx_symbols[k] /\ pls[k] = op[k]
        BY <1>27, <1>30, <3>1 DEF Extended
      <4>2. tx_symbols[k] = SymItem(p, op[k].frame, op[k].n)
        BY <1>1, <3>1 DEF SymInOrder, op
      <4> QED  BY <4>1, <4>2
    <3>2. CASE k \notin 1 .. M
      <4>1. PICK j \in 1 .. w : k = M + j
        <5>1. k - M \in 1 .. w /\ k = M + (k - M)
          BY <3>2
        <5> QED  BY <5>1
      <4>2. pls[k] = Place(f, s + j - 1)
        BY <1>30, <4>1 DEF Extended
      <4>3. tx_symbols'[k] = SymbolsOfBlock[j] /\ SymbolsOfBlock[j] = SymItem(p, f, s + j - 1)
        BY <1>25, <1>27, <4>1
      <4>4. pls[k].frame = f /\ pls[k].n = s + j - 1
        BY <4>2 DEF Place
      <4> QED  BY <4>3, <4>4
    <3> QED  BY <3>1, <3>2
  <2> QED  BY <1>27, <1>29, <1>31, <2>1 DEF SymInOrder, size2
<1>33. /\ Len(coded') <= Len(coded) /\ Len(tx_symbols') <= Capacity.tx_symbols /\ tx_symbols' # <<>>
       /\ cw_cnt' \in Nat /\ inter_frame_len' \in Nat
  <2>1. L - n <= L /\ M + w # 0 /\ c + sf \in Nat
    OBVIOUS
  <2>2. Len(tx_symbols') # 0
    BY <1>27, <2>1
  <2>3. tx_symbols' # <<>>
    BY <2>2
  <2> QED  BY <1>1, <1>5, <1>10, <1>11, <1>27, <2>1, <2>3
<1> QED  BY <1>11, <1>13, <1>16, <1>21, <1>24, <1>27, <1>29, <1>31, <1>32, <1>33 DEF op

----------------------------------------------------------------------------
(***************************************************************************)
(* modulate: what it has counted says how much of the frame or of the      *)
(* padding behind it is on the air.                                        *)
(***************************************************************************)

\* The first k items of a behind u, and some more of them.
LEMMA PartGrows ==
  ASSUME NEW S, NEW u \in Seq(S), NEW a \in Seq(S), NEW k \in Nat, NEW m \in Nat, k + m <= Len(a),
         NEW new \in [1 .. m -> S], \A j \in 1 .. m : new[j] = a[k + j]
  PROVE  /\ (u \o SubSeq(a, 1, k)) \o new = u \o SubSeq(a, 1, k + m)
         /\ u \o SubSeq(a, 1, k + m) \in Seq(S)
<1>1. PICK U \in Nat : U = Len(u)
  OBVIOUS
<1>2. \A n \in 0 .. Len(a) : /\ SubSeq(a, 1, n) \in Seq(S) /\ Len(SubSeq(a, 1, n)) = n
                             /\ \A i \in 1 .. n : SubSeq(a, 1, n)[i] = a[i]
  <2> SUFFICES ASSUME NEW n \in 0 .. Len(a)
               PROVE  /\ SubSeq(a, 1, n) \in Seq(S) /\ Len(SubSeq(a, 1, n)) = n
                      /\ \A i \in 1 .. n : SubSeq(a, 1, n)[i] = a[i]
    OBVIOUS
  <2>1. CASE n = 0
    BY <2>1
  <2>2. CASE n # 0
    <3>1. n \in 1 .. Len(a)
      BY <2>2
    <3> QED  BY <3>1
  <2> QED  BY <2>1, <2>2
<1> DEFINE x == SubSeq(a, 1, k)
           y == SubSeq(a, 1, k + m)
<1>3. /\ x \in Seq(S) /\ Len(x) = k /\ \A i \in 1 .. k : x[i] = a[i]
      /\ y \in Seq(S) /\ Len(y) = k + m /\ \A i \in 1 .. k + m : y[i] = a[i]
  <2>1. k \in 0 .. Len(a) /\ k + m \in 0 .. Len(a)
    OBVIOUS
  <2> QED  BY <1>2, <2>1
<1> HIDE DEF x, y
<1>4. /\ u \o x \in Seq(S) /\ Len(u \o x) = U + k
      /\ (\A i \in 1 .. U : (u \o x)[i] = u[i]) /\ (\A i \in 1 .. k : (u \o x)[U + i] = x[i])
  <2>1. x \in Seq(S)
    BY <1>3
  <2>2. /\ u \o x \in Seq(S) /\ Len(u \o x) = Len(u) + Len(x)
        /\ (\A i \in 1 .. Len(u) : (u \o x)[i] = u[i])
        /\ (\A i \in 1 .. Len(x) : (u \o x)[Len(u) + i] = x[i])
    BY <2>1, ConcatFacts
  <2> QED  BY <1>1, <1>3, <2>2
<1>5. /\ u \o y \in Seq(S) /\ Len(u \o y) = U + (k + m)
      /\ (\A i \in 1 .. U : (u \o y)[i] = u[i]) /\ (\A i \in 1 .. k + m : (u \o y)[U + i] = y[i])
  <2>1. y \in Seq(S)
    BY <1>3
  <2>2. /\ u \o y \in Seq(S) /\ Len(u \o y) = Len(u) + Len(y)
        /\ (\A i \in 1 .. Len(u) : (u \o y)[i] = u[i])
        /\ (\A i \in 1 .. Len(y) : (u \o y)[Len(u) + i] = y[i])
    BY <2>1, ConcatFacts
  <2> QED  BY <1>1, <1>3, <2>2
<1> DEFINE v == u \o x
           w == u \o y
<1>6. /\ v \o new \in Seq(S) /\ Len(v \o new) = U + k + m
      /\ (\A i \in 1 .. U + k : (v \o new)[i] = v[i])
      /\ (\A i \in 1 .. m : (v \o new)[U + k + i] = new[i])
  <2>1. v \in Seq(S) /\ Len(v) = U + k
    BY <1>4
  <2> HIDE DEF v
  <2>2. /\ v \o new \in Seq(S) /\ Len(v \o new) = Len(v) + m
        /\ (\A i \in 1 .. Len(v) : (v \o new)[i] = v[i])
        /\ (\A i \in 1 .. m : (v \o new)[Len(v) + i] = new[i])
    <3>1. v \in Seq(S)
      BY <2>1
    <3> QED  BY <3>1, GrownFacts
  <2> QED  BY <2>1, <2>2
<1>7. ASSUME NEW i \in 1 .. U + k + m PROVE (v \o new)[i] = w[i]
  <2>1. CASE i \in 1 .. U
    <3>1. i \in 1 .. U + k
      BY <2>1
    <3> QED  BY <1>4, <1>5, <1>6, <2>1, <3>1
  <2>2. CASE i \in U + 1 .. U + k
    <3>1. PICK j \in 1 .. k : i = U + j
      <4>1. i - U \in 1 .. k /\ i = U + (i - U)
        BY <2>2
      <4> QED  BY <4>1
    <3>2. i \in 1 .. U + k /\ j \in 1 .. k + m
      BY <3>1
    <3>3. (v \o new)[i] = x[j] /\ w[i] = y[j]
      BY <1>4, <1>5, <1>6, <3>1, <3>2
    <3> QED  BY <1>3, <3>2, <3>3
  <2>3. CASE i \in U + k + 1 .. U + k + m
    <3>1. PICK j \in 1 .. m : i = U + k + j
      <4>1. i - (U + k) \in 1 .. m /\ i = U + k + (i - (U + k))
        BY <2>3
      <4> QED  BY <4>1
    <3>2. k + j \in 1 .. k + m /\ i = U + (k + j)
      BY <3>1
    <3>3. (v \o new)[i] = new[j]
      BY <1>6, <3>1
    <3>4. w[i] = y[k + j]
      BY <1>5, <3>2
    <3>5. y[k + j] = a[k + j] /\ new[j] = a[k + j]
      BY <1>3, <3>2
    <3> HIDE DEF v, w
    <3> QED  BY <3>3, <3>4, <3>5
  <2>4. i \in 1 .. U \/ i \in U + 1 .. U + k \/ i \in U + k + 1 .. U + k + m
    OBVIOUS
  <2> HIDE DEF v, w
  <2> QED  BY <2>1, <2>2, <2>3, <2>4
<1>8. v \o new \in Seq(S) /\ w \in Seq(S) /\ Len(v \o new) = U + k + m /\ Len(w) = U + k + m
  BY <1>5, <1>6
<1> HIDE DEF v, w
<1>9. v \o new = w
  <2>1. PICK z \in Seq(S) : z = v \o new /\ Len(z) = U + k + m /\ \A i \in 1 .. U + k + m : z[i] = w[i]
    BY <1>7, <1>8
  <2>2. z = [i \in 1 .. U + k + m |-> z[i]]
    <3>1. Len(z) = U + k + m
      BY <2>1
    <3> QED  BY <3>1
  <2>3. w = [i \in 1 .. U + k + m |-> w[i]]
    <3>1. w \in Seq(S) /\ Len(w) = U + k + m
      BY <1>8
    <3> QED  BY <3>1
  <2> QED  BY <2>1, <2>2, <2>3
<1> QED  BY <1>8, <1>9 DEF v, w, x, y

\* The air when n items of frame f are out.
AirWith(p, f, n) == AirUpTo(p, f - 1) \o SubSeq(AirOf(p, f), 1, n)

LEMMA AirGrows ==
  ASSUME NEW p \in Parameters, NEW f \in Frames, NEW k \in Nat, NEW m \in Nat,
         k + m <= PreambleLen + SymbolCount(p, f) + InterFramePadding,
         NEW new \in [1 .. m -> AirSet], \A j \in 1 .. m : new[j] = AirOf(p, f)[k + j]
  PROVE  AirWith(p, f, k) \o new = AirWith(p, f, k + m) /\ AirWith(p, f, k + m) \in Seq(AirSet)
<1>1. f - 1 \in 0 .. NFrames
  BY TxAssumption DEF Frames
<1>2. AirUpTo(p, f - 1) \in Seq(AirSet)
  BY <1>1, AirUpToFacts
<1>3. AirOf(p, f) \in Seq(AirSet) /\ k + m <= Len(AirOf(p, f))
  BY AirOfFacts
<1> QED  BY <1>2, <1>3, PartGrows, ZenonT(60) DEF AirWith

\* Whole frames on the air, and nothing of the next.
LEMMA AirWhole ==
  ASSUME NEW p \in Parameters, NEW f \in Frames
  PROVE  /\ AirWith(p, f, 0) = AirUpTo(p, f - 1)
         /\ AirWith(p, f, PreambleLen + SymbolCount(p, f) + InterFramePadding) = AirUpTo(p, f)
<1>1. f \in Nat /\ f - 1 \in 0 .. NFrames /\ f - 1 < NFrames /\ (f - 1) + 1 = f
  BY TxAssumption DEF Frames
<1>2. AirUpTo(p, f - 1) \in Seq(AirSet) /\ AirUpTo(p, f) = AirUpTo(p, f - 1) \o AirOf(p, f)
  BY <1>1, AirUpToFacts
<1>3. PICK A \in Seq(AirSet), u \in Seq(AirSet) :
        A = AirOf(p, f) /\ u = AirUpTo(p, f - 1)
        /\ Len(A) = PreambleLen + SymbolCount(p, f) + InterFramePadding
  BY <1>2, AirOfFacts
<1>4. SubSeq(A, 1, 0) = <<>> /\ SubSeq(A, 1, Len(A)) = A
  OBVIOUS
<1>5. u \o <<>> = u
  OBVIOUS
<1> QED  BY <1>2, <1>3, <1>4, <1>5 DEF AirWith

\* The first symbols before modulate: of frame f, behind s symbols of it.
ModAt(p, f, s, L, N) ==
  /\ L = Len(tx_symbols) /\ N = SymbolCount(p, f) /\ s < N /\ 8 <= N
  /\ SymPlaces(p)[1].frame = f /\ SymPlaces(p)[1].n = s
  /\ Window(tx_symbols) = IF L <= N - s THEN L ELSE N - s
  /\ tx_symbols[1].len = IF s = 0 THEN N ELSE 0
  /\ \A k \in 1 .. L : k - 1 < N - s => tx_symbols[k] = SymItem(p, f, s + k - 1)
  /\ \A j \in 0 .. L : j <= N - s => SymPlaces(p)[1 + j] = After(SymSize(p), f, s + j)

LEMMA ModulateHead ==
  ASSUME NEW p \in Parameters, Typed, SymInOrder(p), tx_symbols # <<>>
  PROVE  \E f \in Frames, s \in Nat, L \in Nat \ {0}, N \in Nat \ {0} : ModAt(p, f, s, L, N)
<1> DEFINE size == SymSize(p)
           ip == SymPlaces(p)
<1>1. tx_symbols \in Seq(SymbolSet)
  BY DEF Typed
<1>2. /\ Ordered(ip, Len(tx_symbols), size) /\ size \in Sizes
      /\ \A k \in 1 .. Len(tx_symbols) : tx_symbols[k] = SymItem(p, ip[k].frame, ip[k].n)
  BY SizesFacts DEF SymInOrder
<1>3. TagsAt(tx_symbols, ip, size)
  <2> SUFFICES ASSUME NEW k \in 1 .. Len(tx_symbols)
               PROVE  tx_symbols[k].len = IF ip[k].n = 0 THEN size[ip[k].frame] ELSE 0
    BY DEF TagsAt
  <2>1. k \in 1 .. Len(tx_symbols) /\ ip[k].frame \in Frames
    BY <1>2 DEF Ordered
  <2>2. size[ip[k].frame] = SymbolCount(p, ip[k].frame)
    BY <2>1, SizesFacts
  <2>3. tx_symbols[k] = SymItem(p, ip[k].frame, ip[k].n)
    BY <1>2
  <2> HIDE DEF ip, size
  <2> QED  BY <2>2, <2>3 DEF SymItem
<1>4. PICK f \in Frames, s \in Nat, L \in Nat \ {0}, N \in Nat \ {0} :
        /\ L = Len(tx_symbols) /\ N = size[f] /\ s < N /\ ip[1] = Place(f, s)
        /\ Window(tx_symbols) = IF L <= N - s THEN L ELSE N - s
        /\ \A j \in 0 .. L : j < N - s => ip[1 + j].frame = f /\ ip[1 + j].n = s + j
        /\ \A j \in 0 .. L : j <= N - s => ip[1 + j] = After(size, f, s + j)
  <2> HIDE DEF ip, size
  <2>1. \E f \in Frames, s \in Nat, L \in Nat \ {0}, N \in Nat \ {0} :
          HeadAt(tx_symbols, ip, size, f, s, L, N)
    BY <1>1, <1>2, <1>3, LinkHead
  <2> QED  BY <2>1 DEF HeadAt
<1>5. N = SymbolCount(p, f) /\ 8 <= N
  BY <1>4, SizesFacts, CountFacts
<1> HIDE DEF ip, size
<1>6. ip[1].n = s /\ ip[1].frame = f
  BY <1>4 DEF Place
<1>7. ASSUME NEW k \in 1 .. L, k - 1 < N - s PROVE tx_symbols[k] = SymItem(p, f, s + k - 1)
  <2>1. k - 1 \in 0 .. L /\ k - 1 < N - s /\ 1 + (k - 1) = k /\ s + (k - 1) = s + k - 1
    BY <1>4, <1>7
  <2>2. ip[k].frame = f /\ ip[k].n = s + k - 1
    BY <1>4, <2>1
  <2> QED  BY <1>2, <1>4, <2>2
<1>8. tx_symbols[1].len = IF s = 0 THEN N ELSE 0
  <2>1. tx_symbols[1] = SymItem(p, f, s)
    <3>1. 1 \in 1 .. L /\ 1 - 1 < N - s /\ s + 1 - 1 = s
      BY <1>4
    <3> QED  BY <1>7, <3>1
  <2> QED  BY <1>5, <2>1 DEF SymItem
<1>9. ModAt(p, f, s, L, N)
  BY <1>4, <1>5, <1>6, <1>7, <1>8 DEF ModAt, ip, size
<1> QED  BY <1>9

\* A call that sends of frame f, of which r preamble symbols and s others are out.
Sending(p, f, s, r, N) ==
  /\ SymbCntNow = s /\ PreambleNow = r /\ PaddNow = 0 /\ FrameLenOf = N
  /\ r <= PreambleLen /\ (s > 0 => r = PreambleLen)
  /\ air = AirWith(p, f, r + s)

LEMMA ModulateSends ==
  ASSUME NEW p \in Parameters, Typed, Modulate, SymInOrder(p),
         CodePlaces(p)'[1] = CodePlaces(p)[1],
         NEW f \in Frames, NEW s \in Nat, NEW L \in Nat \ {0}, NEW N \in Nat \ {0}, NEW r \in Nat,
         ModAt(p, f, s, L, N), Sending(p, f, s, r, N)
  PROVE  /\ SymInOrder(p)' /\ ModCounts(p)' /\ AirInOrder(p)'
         /\ tx_symbols' \in Seq(SymbolSet) /\ Len(tx_symbols') <= Len(tx_symbols)
         /\ mod_frame_len' \in Nat /\ air' \in Seq(AirSet)
         /\ symb_cnt' \in 0 .. (mod_frame_len' + InterFramePadding)
         /\ preamb_symb_cnt' \in 0 .. PreambleLen /\ padd_cnt' \in 0 .. InterFramePadding
<1> DEFINE size == SymSize(p)
           ip == SymPlaces(p)
<1>1. PICK P \in Nat, Q \in Nat \ {0} : P = PreambleLen /\ P # 0 /\ Q = InterFramePadding
  BY PreambleFacts, ModAssumption
<1>2. /\ L = Len(tx_symbols) /\ N = SymbolCount(p, f) /\ s < N /\ 8 <= N
      /\ Window(tx_symbols) = IF L <= N - s THEN L ELSE N - s
      /\ \A k \in 1 .. L : k - 1 < N - s => tx_symbols[k] = SymItem(p, f, s + k - 1)
      /\ \A j \in 0 .. L : j <= N - s => ip[1 + j] = After(size, f, s + j)
      /\ tx_symbols \in Seq(SymbolSet)
  BY DEF ModAt, Typed
<1>3. /\ SymbCntNow = s /\ PreambleNow = r /\ PaddNow = 0 /\ FrameLenOf = N
      /\ r <= P /\ (s > 0 => r = P) /\ air = AirWith(p, f, r + s)
  BY <1>1 DEF Sending
<1>4. Ordered(ip, L, size) /\ size \in Sizes /\ size[f] = N /\ f \in Nat
  BY <1>2, SizesFacts, FrameFacts DEF SymInOrder
<1> HIDE DEF ip, size
<1>5. PICK n \in 1 .. MaxSymbols :
       /\ mod_frame_len' = FrameLenOf
       /\ preamb_symb_cnt' = PreambleNow + PreamblePart(n)
       /\ \/ /\ SendsSymbols(n)
             /\ air' = air \o PreambleSent(n) \o
                  [k \in 1 .. SymbolPart(n) |->
                     [kind |-> "symbol", block |-> tx_symbols[k].block, i |-> tx_symbols[k].i]]
             /\ symb_cnt' = SymbCntNow + SymbolPart(n)
             /\ tx_symbols' = Taken(tx_symbols, SymbolPart(n))
             /\ padd_cnt' = PaddNow
          \/ /\ ~SendsSymbols(n)
             /\ air' = air \o PreambleSent(n) \o
                  [k \in 1 .. PaddingPart(n) |-> [kind |-> "silence", block |-> 0, i |-> 0]]
             /\ symb_cnt' = SymbCntNow + PaddingPart(n)
             /\ padd_cnt' = PaddNow + PaddingPart(n)
             /\ UNCHANGED tx_symbols
  BY DEF Modulate
<1>6. n \in Nat /\ n >= 1
  BY ModAssumption
<1>7. PICK pp \in Nat : /\ pp = PreamblePart(n) /\ pp <= n /\ r + pp <= P
                        /\ (s > 0 => r + pp = P) /\ (pp > 0 => s = 0)
  <2>1. CASE s = 0
    <3>1. PreamblePart(n) = Min({n, P - r})
      BY <1>1, <1>3, <2>1 DEF PreamblePart
    <3>2. n \in Int /\ P - r \in Int /\ P - r >= 0
      BY <1>3, <1>6
    <3>3. Min({n, P - r}) = IF n <= P - r THEN n ELSE P - r
      BY <3>2, MinOfTwo
    <3>4. PICK m \in Nat : m = Min({n, P - r}) /\ m <= n /\ m <= P - r
      BY <1>6, <3>2, <3>3
    <3>5. r + m <= P
      BY <3>4
    <3> QED  BY <2>1, <3>1, <3>4, <3>5
  <2>2. CASE s # 0
    <3>1. PreamblePart(n) = 0 /\ s > 0
      BY <1>3, <2>2 DEF PreamblePart
    <3> QED  BY <1>3, <1>6, <2>2, <3>1
  <2> QED  BY <2>1, <2>2
<1>8. SendsSymbols(n) <=> r + pp = P
  BY <1>1, <1>2, <1>3, <1>7 DEF SendsSymbols
<1>9. PICK w \in Nat \ {0} : w = Window(tx_symbols) /\ w <= L /\ w <= N - s
  BY <1>2
\* What is sent behind the preamble.
<1>10. PICK m, new :
         /\ m \in Nat /\ m <= L /\ m <= N - s /\ (s + m > 0 => r + pp = P)
         /\ tx_symbols' = Taken(tx_symbols, m)
         /\ symb_cnt' = s + m /\ padd_cnt' = 0 /\ mod_frame_len' = N /\ preamb_symb_cnt' = r + pp
         /\ air' = air \o PreambleSent(n) \o new
         /\ new = [k \in 1 .. m |->
                     [kind |-> "symbol", block |-> tx_symbols[k].block, i |-> tx_symbols[k].i]]
  <2>1. CASE SendsSymbols(n)
    <3>1. r + pp = P
      BY <1>8, <2>1
    <3>2. SymbolPart(n) = Min({w, n - pp})
      BY <1>7, <1>9 DEF SymbolPart
    <3>3. n - pp \in Int /\ n - pp >= 0 /\ w \in Int
      BY <1>6, <1>7
    <3>4. Min({w, n - pp}) = IF w <= n - pp THEN w ELSE n - pp
      BY <3>3, MinOfTwo
    <3>5. PICK m \in Nat : m = SymbolPart(n) /\ m <= w
      BY <3>2, <3>3, <3>4
    <3>6. m <= L /\ m <= N - s
      <4>1. m <= w /\ w <= L /\ w <= N - s
        BY <1>9, <3>5
      <4> QED  BY <4>1
    <3>7. /\ tx_symbols' = Taken(tx_symbols, m)
          /\ symb_cnt' = s + m /\ padd_cnt' = 0 /\ mod_frame_len' = N /\ preamb_symb_cnt' = r + pp
          /\ air' = air \o PreambleSent(n) \o
               [k \in 1 .. m |->
                     [kind |-> "symbol", block |-> tx_symbols[k].block, i |-> tx_symbols[k].i]]
      BY <1>3, <1>5, <1>7, <2>1, <3>5, Zenon
    <3> QED  BY <3>1, <3>6, <3>7
  <2>2. CASE ~SendsSymbols(n)
    <3>1. r + pp # P /\ s = 0
      BY <1>7, <1>8, <2>2
    <3>2. PaddingPart(n) = 0
      BY <1>2, <1>3 DEF PaddingPart
    <3>3. /\ air' = air \o PreambleSent(n) \o
                  [k \in 1 .. PaddingPart(n) |-> [kind |-> "silence", block |-> 0, i |-> 0]]
          /\ symb_cnt' = s + 0 /\ padd_cnt' = 0 + 0 /\ tx_symbols' = tx_symbols
          /\ mod_frame_len' = N /\ preamb_symb_cnt' = r + pp
      BY <1>3, <1>5, <1>7, <2>2, <3>2
    <3>4. Taken(tx_symbols, 0) = tx_symbols
      BY <1>2 DEF Taken
    <3>5. [k \in 1 .. PaddingPart(n) |-> [kind |-> "silence", block |-> 0, i |-> 0]]
            = [k \in 1 .. 0 |-> [kind |-> "symbol", block |-> tx_symbols[k].block, i |-> tx_symbols[k].i]]
      BY <3>2
    <3>6. 0 <= L /\ 0 <= N - s /\ (s + 0 > 0 => r + pp = P)
      <4>1. s < N
        BY <1>2
      <4> QED  BY <3>1, <4>1
    <3>7. air' = air \o PreambleSent(n)
                   \o [k \in 1 .. 0 |-> [kind |-> "symbol", block |-> tx_symbols[k].block,
                                         i |-> tx_symbols[k].i]]
      BY <3>3, <3>5
    <3>8. PICK z : z = [k \in 1 .. 0 |-> [kind |-> "symbol", block |-> tx_symbols[k].block,
                                         i |-> tx_symbols[k].i]]
      OBVIOUS
    <3>9. air' = air \o PreambleSent(n) \o z
      BY <3>7, <3>8
    <3>10. /\ tx_symbols' = Taken(tx_symbols, 0) /\ symb_cnt' = s + 0 /\ padd_cnt' = 0
           /\ mod_frame_len' = N /\ preamb_symb_cnt' = r + pp
      BY <3>3, <3>4
    <3> QED  BY <3>6, <3>8, <3>9, <3>10, Zenon
  <2> QED  BY <2>1, <2>2
<1>11. s + m \in Nat /\ s + m <= N /\ m \in 0 .. L
  BY <1>2, <1>10, SMTT(60)
\* The air.
<1>12. \A j \in 1 .. P : AirOf(p, f)[j] = [kind |-> PreambleSymbol(j - 1), block |-> 0, i |-> 0]
                         /\ AirOf(p, f)[j] \in AirSet
  <2>1. \A j \in 1 .. P : AirOf(p, f)[j] = [kind |-> PreambleSymbol(j - 1), block |-> 0, i |-> 0]
    BY <1>1, AirOfFacts
  <2>2. \A j \in 1 .. P : PreambleSymbol(j - 1) \in AirKinds
    BY <1>1, PreambleFacts
  <2> QED  BY <2>1, <2>2 DEF AirSet
<1>13. /\ PreambleSent(n) \in [1 .. pp -> AirSet]
       /\ \A j \in 1 .. pp : PreambleSent(n)[j] = AirOf(p, f)[(r + s) + j]
  <2>1. PreambleSent(n) = [k \in 1 .. pp |-> [kind |-> PreambleSymbol(r + k - 1), block |-> 0, i |-> 0]]
    BY <1>3, <1>7 DEF PreambleSent
  <2>2. ASSUME NEW j \in 1 .. pp
        PROVE  /\ [kind |-> PreambleSymbol(r + j - 1), block |-> 0, i |-> 0] = AirOf(p, f)[(r + s) + j]
               /\ AirOf(p, f)[(r + s) + j] \in AirSet
    <3>1. (r + s) + j = r + j /\ r + j \in 1 .. P
      BY <1>7
    <3> QED  BY <1>12, <3>1
  <2> QED  BY <2>1, <2>2
<1>14. /\ new \in [1 .. m -> AirSet]
       /\ \A j \in 1 .. m : new[j] = AirOf(p, f)[(r + s + pp) + j]
  <2>1. ASSUME NEW j \in 1 .. m
        PROVE  /\ [kind |-> "symbol", block |-> tx_symbols[j].block, i |-> tx_symbols[j].i]
                    = AirOf(p, f)[(r + s + pp) + j]
               /\ [kind |-> "symbol", block |-> tx_symbols[j].block, i |-> tx_symbols[j].i] \in AirSet
    <3>1. j \in 1 .. L /\ j - 1 < N - s /\ s + j - 1 + 1 = s + j /\ s + j \in 1 .. N
          /\ (r + s + pp) + j = P + (s + j)
      <4>1. m \in Nat /\ m <= L /\ m <= N - s /\ (s + m > 0 => r + pp = P)
        BY <1>10
      <4>2. r + pp = P
        BY <4>1
      <4> QED  BY <4>1, <4>2
    <3>2. tx_symbols[j] = SymItem(p, f, s + j - 1)
      BY <1>2, <3>1
    <3>3. tx_symbols[j].block = SymbolsOf(p, f)[s + j].block /\ tx_symbols[j].i = SymbolsOf(p, f)[s + j].i
      BY <3>1, <3>2 DEF SymItem
    <3>4. AirOf(p, f)[P + (s + j)] = [kind |-> "symbol", block |-> SymbolsOf(p, f)[s + j].block,
                                      i |-> SymbolsOf(p, f)[s + j].i]
      BY <1>1, <1>2, <3>1, AirOfFacts
    <3>5. SymbolsOf(p, f)[s + j].block \in Nat /\ SymbolsOf(p, f)[s + j].i \in Nat
      <4>1. SymbolsOf(p, f) \in Seq(SymbolItems) /\ Len(SymbolsOf(p, f)) = N
        BY <1>2, SymbolsOfFacts
      <4>2. SymbolsOf(p, f)[s + j] \in SymbolItems
        BY <3>1, <4>1
      <4> QED  BY <4>2 DEF SymbolItems
    <3> QED  BY <3>1, <3>3, <3>4, <3>5 DEF AirSet, AirKinds
  <2>2. new = [k \in 1 .. m |->
                     [kind |-> "symbol", block |-> tx_symbols[k].block, i |-> tx_symbols[k].i]]
    BY <1>10
  <2> QED  BY <2>1, <2>2
<1>15. air' = AirWith(p, f, (r + pp) + (s + m)) /\ air' \in Seq(AirSet)
  <2>1. r + s \in Nat /\ r + s + pp \in Nat /\ r + s + pp <= P + N + Q /\ r + s + pp + m <= P + N + Q
        /\ (r + s) + pp = r + s + pp /\ (r + pp) + (s + m) = r + s + pp + m
    <3>1. r + pp <= P /\ s + m <= N /\ s <= N
      BY <1>2, <1>7, <1>11
    <3>2. m \in Nat
      BY <1>10
    <3> QED  BY <3>1, <3>2
  <2>2. AirWith(p, f, r + s) \o PreambleSent(n) = AirWith(p, f, r + s + pp)
    <3>1. r + s + pp <= PreambleLen + SymbolCount(p, f) + InterFramePadding
      BY <1>1, <1>2, <2>1
    <3>2. PICK k, sent : k \in Nat /\ k = r + s /\ sent = PreambleSent(n)
      BY <2>1
    <3>3. sent \in [1 .. pp -> AirSet] /\ \A j \in 1 .. pp : sent[j] = AirOf(p, f)[k + j]
      BY <1>13, <3>2
    <3>4. k + pp <= PreambleLen + SymbolCount(p, f) + InterFramePadding
      BY <3>1, <3>2
    <3>5. AirWith(p, f, k) \o sent = AirWith(p, f, k + pp)
      <4>1. k \in Nat /\ pp \in Nat
        BY <1>7, <3>2
      <4>2. AirWith(p, f, k) \o sent = AirWith(p, f, k + pp) /\ AirWith(p, f, k + pp) \in Seq(AirSet)
        BY <3>3, <3>4, <4>1, AirGrows
      <4> QED  BY <4>2
    <3> QED  BY <3>2, <3>5
  <2>3. /\ AirWith(p, f, r + s + pp) \o new = AirWith(p, f, r + s + pp + m)
        /\ AirWith(p, f, r + s + pp + m) \in Seq(AirSet)
    <3>1. r + s + pp + m <= PreambleLen + SymbolCount(p, f) + InterFramePadding
      BY <1>1, <1>2, <2>1
    <3>2. m \in Nat
      BY <1>10
    <3> QED  BY <1>14, <2>1, <3>1, <3>2, AirGrows
  <2>4. air' = (AirWith(p, f, r + s) \o PreambleSent(n)) \o new
    BY <1>3, <1>10
  <2> QED  BY <2>1, <2>2, <2>3, <2>4
\* The symbols left.
<1>16. /\ tx_symbols' \in Seq(SymbolSet) /\ Len(tx_symbols') = L - m
       /\ \A k \in 1 .. L - m : tx_symbols'[k] = tx_symbols[m + k]
  <2>1. m \in 0 .. Len(tx_symbols) /\ tx_symbols \in Seq(SymbolSet)
    BY <1>2, <1>11
  <2>2. Taken(tx_symbols, m) \in Seq(SymbolSet) /\ Len(Taken(tx_symbols, m)) = Len(tx_symbols) - m
        /\ \A k \in 1 .. (Len(tx_symbols) - m) : Taken(tx_symbols, m)[k] = tx_symbols[m + k]
    BY <2>1, SuffixFacts
  <2> QED  BY <1>2, <1>10, <2>2
<1>17. \A k \in 1 .. L - m + 1 : SymPlaces(p)'[k] = ip[m + k]
  <2> SUFFICES ASSUME NEW k \in 1 .. L - m + 1 PROVE SymPlaces(p)'[k] = ip[m + k]
    OBVIOUS
  <2>1. m + k \in 1 .. L + 1 /\ (m + k = L + 1 <=> k = L - m + 1)
    BY <1>11
  <2>2. CASE k = L - m + 1
    <3>1. SymPlaces(p)'[k] = SymTo(p)'
      BY <1>16, <2>2 DEF SymPlaces
    <3>2. ip[m + k] = SymTo(p)
      BY <1>2, <2>1, <2>2 DEF SymPlaces, ip
    <3>3. SymTo(p)' = SymTo(p)
      BY DEF SymTo
    <3> QED  BY <3>1, <3>2, <3>3
  <2>3. CASE k # L - m + 1
    <3>0. k \in 1 .. L - m
      BY <1>11, <2>3
    <3>1. tx_symbols'[k] = tx_symbols[m + k]
      BY <1>16, <3>0
    <3>2. SymPlaces(p)'[k] = Place(tx_symbols'[k].frame, SymIndex(p, tx_symbols'[k]))
      BY <1>16, <2>3 DEF SymPlaces
    <3>3. ip[m + k] = Place(tx_symbols[m + k].frame, SymIndex(p, tx_symbols[m + k]))
      BY <1>2, <2>1, <2>3 DEF SymPlaces, ip
    <3> QED  BY <3>1, <3>2, <3>3
  <2> QED  BY <2>2, <2>3
<1>18. SymInOrder(p)'
  <2>1. PICK pls : pls = SymPlaces(p)'
    OBVIOUS
  <2>2. Ordered(pls, L - m, size)
    <3>1. \A k \in 1 .. L - m + 1 : pls[k] = ip[m + k]
      BY <1>17, <2>1
    <3> QED  BY <1>4, <1>11, <3>1, TakenOrdered
  <2>3. \A k \in 1 .. L - m : tx_symbols'[k] = SymItem(p, pls[k].frame, pls[k].n)
    <3> SUFFICES ASSUME NEW k \in 1 .. L - m PROVE tx_symbols'[k] = SymItem(p, pls[k].frame, pls[k].n)
      OBVIOUS
    <3>1. tx_symbols'[k] = tx_symbols[m + k] /\ pls[k] = ip[m + k] /\ m + k \in 1 .. L
      BY <1>11, <1>16, <1>17, <2>1
    <3>2. tx_symbols[m + k] = SymItem(p, ip[m + k].frame, ip[m + k].n)
      BY <1>2, <3>1 DEF SymInOrder, ip
    <3> QED  BY <3>1, <3>2
  <2> QED  BY <1>16, <2>1, <2>2, <2>3 DEF SymInOrder, size
<1>19. PICK q : /\ q = SymPlaces(p)'[1] /\ q.n = (IF s + m = N THEN 0 ELSE s + m)
                /\ q.frame = (IF s + m = N THEN f + 1 ELSE f)
  <2>1. 1 \in 1 .. L - m + 1 /\ m \in 0 .. L /\ m <= N - s /\ m + 1 = 1 + m
    BY <1>10, <1>11
  <2>2. SymPlaces(p)'[1] = After(size, f, s + m)
    <3>1. SymPlaces(p)'[1] = ip[m + 1]
      BY <1>17, <2>1
    <3> QED  BY <1>2, <2>1, <3>1
  <2>3. /\ After(size, f, s + m).n = (IF s + m = N THEN 0 ELSE s + m)
        /\ After(size, f, s + m).frame = (IF s + m = N THEN f + 1 ELSE f)
    BY <1>4 DEF After, Place
  <2> QED  BY <2>2, <2>3
<1>20. InFrame' <=> s + m # N
  <2>1. InFrame' <=> s + m < N
    BY <1>10 DEF InFrame
  <2>2. s + m < N <=> s + m # N
    BY <1>11
  <2> QED  BY <2>1, <2>2
<1>21. ModCounts(p)'
  <2>1. CASE s + m # N
    <3>1. q.n = s + m /\ q.frame = f
      BY <1>19, <2>1
    <3>2. q.n = 0 => tx_symbols' # <<>>
      <4> SUFFICES ASSUME q.n = 0 PROVE tx_symbols' # <<>>
        OBVIOUS
      <4>1. Len(tx_symbols') # 0
        BY <1>11, <1>16, <3>1
      <4> QED  BY <4>1
    <3>3. q.n > 0 => preamb_symb_cnt' = PreambleLen
      BY <1>1, <1>10, <3>1
    <3>4. mod_frame_len' = SymbolCount(p, q.frame) /\ symb_cnt' = q.n /\ padd_cnt' = 0
      BY <1>2, <1>10, <3>1
    <3> QED  BY <1>19, <1>20, <2>1, <3>1, <3>2, <3>3, <3>4 DEF ModCounts
  <2>2. CASE s + m = N
    <3>1. q.n = 0 /\ q.frame = f + 1 /\ f + 1 - 1 = f /\ f + 1 # 1
      BY <1>4, <1>19, <2>2, FrameFacts DEF Frames
    <3>2. r + pp = P
      BY <1>10, <2>2
    <3>3. /\ symb_cnt' = mod_frame_len' + 0 /\ padd_cnt' = 0 /\ preamb_symb_cnt' = PreambleLen
          /\ mod_frame_len' = SymbolCount(p, q.frame - 1)
      <4>1. q.frame - 1 = f /\ N + 0 = N
        BY <1>4, <3>1
      <4>2. symb_cnt' = N /\ mod_frame_len' = N /\ padd_cnt' = 0 /\ preamb_symb_cnt' = r + pp
        BY <1>10, <2>2
      <4> QED  BY <1>1, <1>2, <3>2, <4>1, <4>2
    <3> QED  BY <1>19, <1>20, <2>2, <3>1, <3>3 DEF ModCounts
  <2> QED  BY <2>1, <2>2
<1>22. AirInOrder(p)'
  <2>1. air' = AirWith(p, f, preamb_symb_cnt' + symb_cnt') /\ f # 0
    <3>1. f # 0
      BY DEF Frames
    <3> QED  BY <1>10, <1>15, <3>1
  <2>2. (IF InFrame' THEN q.frame ELSE q.frame - 1) = f
    BY <1>4, <1>19, <1>20
  <2>3. AirInOrder(p)' <=> air' = AirWith(p, f, preamb_symb_cnt' + symb_cnt')
    BY <1>19, <2>1, <2>2 DEF AirInOrder, AirWith
  <2> QED  BY <2>1, <2>3
<1>23. /\ Len(tx_symbols') <= Len(tx_symbols) /\ mod_frame_len' \in Nat
       /\ symb_cnt' \in 0 .. (mod_frame_len' + InterFramePadding)
       /\ preamb_symb_cnt' \in 0 .. PreambleLen /\ padd_cnt' \in 0 .. InterFramePadding
  <2>1. L - m <= L /\ s + m \in 0 .. (N + Q) /\ r + pp \in 0 .. P /\ 0 \in 0 .. Q
    BY <1>7, <1>11
  <2>2. Len(tx_symbols') <= Len(tx_symbols)
    BY <1>2, <1>16, <2>1
  <2> QED  BY <1>1, <1>10, <2>1, <2>2
<1> QED  BY <1>15, <1>16, <1>18, <1>21, <1>22, <1>23

\* A call that sends the padding of the frame before.
LEMMA ModulatePads ==
  ASSUME NEW p \in Parameters, Typed, Modulate, SymInOrder(p), ModCounts(p), AirInOrder(p),
         CodePlaces(p)'[1] = CodePlaces(p)[1],
         NEW f \in Frames, NEW s \in Nat, NEW L \in Nat \ {0}, NEW N \in Nat \ {0},
         ModAt(p, f, s, L, N), ~StartsFrame, ~InFrame
  PROVE  /\ SymInOrder(p)' /\ ModCounts(p)' /\ AirInOrder(p)'
         /\ tx_symbols' = tx_symbols
         /\ mod_frame_len' \in Nat /\ air' \in Seq(AirSet)
         /\ symb_cnt' \in 0 .. (mod_frame_len' + InterFramePadding)
         /\ preamb_symb_cnt' \in 0 .. PreambleLen /\ padd_cnt' \in 0 .. InterFramePadding
<1>1. PICK P \in Nat, Q \in Nat \ {0} : P = PreambleLen /\ Q = InterFramePadding
  BY PreambleFacts, ModAssumption
<1>2. PICK q : q = SymPlaces(p)[1] /\ q.frame = f /\ q.n = s
  BY DEF ModAt
<1>3. /\ s = 0
      /\ symb_cnt = mod_frame_len + (IF f = 1 THEN 0 ELSE padd_cnt)
      /\ IF f = 1 THEN mod_frame_len = 0 /\ preamb_symb_cnt = 0 /\ padd_cnt = Q
         ELSE mod_frame_len = SymbolCount(p, f - 1) /\ preamb_symb_cnt = P
  BY <1>1, <1>2 DEF ModCounts
<1>4. padd_cnt # Q
  <2>1. tx_symbols[1].len = N
    BY <1>3 DEF ModAt
  <2> QED  BY <1>1, <2>1 DEF StartsFrame
<1>5. PICK g \in Frames : g = f - 1 /\ f = g + 1 /\ g \in Nat /\ g # 0 /\ f # 1
  <2>1. f # 1 /\ NFrames \in Nat
    BY <1>3, <1>4, TxAssumption
  <2>2. f - 1 \in Frames /\ f = (f - 1) + 1 /\ f - 1 \in Nat /\ f - 1 # 0
    BY <2>1 DEF Frames
  <2> QED  BY <2>1, <2>2
<1>6. PICK C \in Nat, d \in Nat :
        /\ C = SymbolCount(p, g) /\ 8 <= C /\ mod_frame_len = C /\ preamb_symb_cnt = P
        /\ d = padd_cnt /\ d < Q /\ symb_cnt = C + d
  <2>1. SymbolCount(p, g) \in Nat \ {0} /\ 8 <= SymbolCount(p, g)
    BY CountFacts
  <2>2. padd_cnt \in 0 .. Q
    BY <1>1 DEF Typed, TypeOK
  <2>3. PICK d \in Nat : d = padd_cnt /\ d < Q
    BY <1>4, <2>2
  <2> QED  BY <1>3, <1>5, <2>1, <2>3
<1>7. SymbCntNow = C + d /\ FrameLenOf = C /\ PreambleNow = P /\ PaddNow = d
  BY <1>6 DEF SymbCntNow, FrameLenOf, PreambleNow, PaddNow
<1>8. PICK n \in 1 .. MaxSymbols :
       /\ mod_frame_len' = FrameLenOf
       /\ preamb_symb_cnt' = PreambleNow + PreamblePart(n)
       /\ \/ /\ SendsSymbols(n)
             /\ air' = air \o PreambleSent(n) \o
                  [k \in 1 .. SymbolPart(n) |->
                     [kind |-> "symbol", block |-> tx_symbols[k].block, i |-> tx_symbols[k].i]]
             /\ symb_cnt' = SymbCntNow + SymbolPart(n)
             /\ tx_symbols' = Taken(tx_symbols, SymbolPart(n))
             /\ padd_cnt' = PaddNow
          \/ /\ ~SendsSymbols(n)
             /\ air' = air \o PreambleSent(n) \o
                  [k \in 1 .. PaddingPart(n) |-> [kind |-> "silence", block |-> 0, i |-> 0]]
             /\ symb_cnt' = SymbCntNow + PaddingPart(n)
             /\ padd_cnt' = PaddNow + PaddingPart(n)
             /\ UNCHANGED tx_symbols
  BY DEF Modulate
<1>9. n \in Nat /\ n >= 1
  BY ModAssumption
<1>10. PreamblePart(n) = 0 /\ ~SendsSymbols(n)
  <2>1. C + d # 0 /\ ~(C + d < C)
    BY <1>6
  <2> QED  BY <1>7, <2>1 DEF PreamblePart, SendsSymbols
<1>11. PICK m \in Nat : m = PaddingPart(n) /\ d + m <= Q
  <2>1. C + d >= C /\ C + Q - (C + d) = Q - d /\ n - 0 = n
    BY <1>6, <1>9
  <2>2. PaddingPart(n) = Min({n, Q - d})
    BY <1>1, <1>7, <1>10, <2>1 DEF PaddingPart
  <2>3. n \in Int /\ Q - d \in Int /\ Q - d >= 0
    BY <1>6, <1>9
  <2>4. Min({n, Q - d}) = IF n <= Q - d THEN n ELSE Q - d
    BY <2>3, MinOfTwo
  <2>5. PICK m \in Nat : m = Min({n, Q - d}) /\ m <= Q - d
    BY <1>9, <2>3, <2>4
  <2>6. d + m <= Q
    BY <2>5
  <2> QED  BY <2>2, <2>5, <2>6
<1>12. PICK sil, none :
         /\ sil = [k \in 1 .. m |-> [kind |-> "silence", block |-> 0, i |-> 0]]
         /\ none = PreambleSent(n) /\ none = <<>>
         /\ air' = air \o none \o sil
         /\ symb_cnt' = C + d + m /\ padd_cnt' = d + m /\ tx_symbols' = tx_symbols
         /\ mod_frame_len' = C /\ preamb_symb_cnt' = P
  <2>1. PreambleSent(n) = <<>>
    BY <1>10 DEF PreambleSent
  <2>2. P + 0 = P
    OBVIOUS
  <2>3. /\ air' = air \o PreambleSent(n) \o
                [k \in 1 .. m |-> [kind |-> "silence", block |-> 0, i |-> 0]]
        /\ symb_cnt' = C + d + m /\ padd_cnt' = d + m /\ tx_symbols' = tx_symbols
        /\ mod_frame_len' = C /\ preamb_symb_cnt' = P + 0
    BY <1>7, <1>8, <1>10, <1>11, Zenon
  <2> QED  BY <2>1, <2>2, <2>3, Zenon
\* The air.
<1>13. air = AirWith(p, g, P + (C + d)) /\ air \in Seq(AirSet)
  <2>1. air \in Seq(AirSet)
    BY DEF Typed
  <2>2. q.frame - 1 = g /\ g # 0
    BY <1>2, <1>5
  <2>3. air = AirWith(p, g, preamb_symb_cnt + symb_cnt)
    BY <1>2, <2>2 DEF AirInOrder, AirWith
  <2> QED  BY <1>6, <2>1, <2>3
<1>14. air' = AirWith(p, g, P + (C + d + m)) /\ air' \in Seq(AirSet)
  <2>1. PICK k \in Nat : k = P + (C + d) /\ k + m <= P + C + Q /\ k + m = P + (C + d + m)
                         /\ k = P + C + d
    <3>1. P + (C + d) \in Nat /\ P + (C + d) + m <= P + C + Q /\ P + (C + d) + m = P + (C + d + m)
          /\ P + (C + d) = P + C + d
      BY <1>11
    <3> QED  BY <3>1
  <2>2. \A j \in 1 .. Q : AirOf(p, g)[P + C + j] = [kind |-> "silence", block |-> 0, i |-> 0]
    BY <1>1, <1>6, AirOfFacts, ZenonT(60)
  <2>3. \A j \in 1 .. m : sil[j] = AirOf(p, g)[k + j]
    <3> SUFFICES ASSUME NEW j \in 1 .. m PROVE sil[j] = AirOf(p, g)[k + j]
      OBVIOUS
    <3>1. d + j \in 1 .. Q /\ k + j = P + C + (d + j)
      BY <1>11, <2>1
    <3>2. sil[j] = [kind |-> "silence", block |-> 0, i |-> 0]
      BY <1>12
    <3> QED  BY <2>2, <3>1, <3>2
  <2>4. sil \in [1 .. m -> AirSet]
    BY <1>12 DEF AirSet, AirKinds
  <2>5. k + m <= PreambleLen + SymbolCount(p, g) + InterFramePadding
    BY <1>1, <1>6, <2>1
  <2>6. AirWith(p, g, k) \o sil = AirWith(p, g, k + m) /\ AirWith(p, g, k + m) \in Seq(AirSet)
    <3>1. k \in Nat /\ m \in Nat
      BY <1>11, <2>1
    <3> QED  BY <2>3, <2>4, <2>5, <3>1, AirGrows
  <2>7. air \o none = air
    <3>1. air \o <<>> = air
      BY <1>13
    <3> QED  BY <1>12, <3>1
  <2>8. air' = air \o sil
    BY <1>12, <2>7
  <2> QED  BY <1>13, <2>1, <2>6, <2>8
<1>15. SymInOrder(p)' /\ SymPlaces(p)'[1] = q
  <2>1. SymInOrder(p)' /\ SymPlaces(p)' = SymPlaces(p)
    BY <1>12, SymKept
  <2> QED  BY <1>2, <2>1
<1>16. ~InFrame'
  <2>1. ~(C + d + m < C)
    OBVIOUS
  <2> QED  BY <1>12, <2>1 DEF InFrame
<1>17. ModCounts(p)'
  <2>1. C + d + m = C + (d + m)
    OBVIOUS
  <2>2. symb_cnt' = mod_frame_len' + padd_cnt' /\ preamb_symb_cnt' = PreambleLen
    BY <1>1, <1>12, <2>1
  <2>3. mod_frame_len' = SymbolCount(p, q.frame - 1) /\ q.frame # 1 /\ q.n = 0
    BY <1>2, <1>3, <1>5, <1>6, <1>12
  <2> QED  BY <1>15, <1>16, <2>2, <2>3 DEF ModCounts
<1>18. AirInOrder(p)'
  <2>1. air' = AirWith(p, g, preamb_symb_cnt' + symb_cnt')
    BY <1>12, <1>14
  <2>2. q.frame - 1 = g /\ g # 0
    BY <1>2, <1>5
  <2>3. AirInOrder(p)' <=> air' = AirWith(p, g, preamb_symb_cnt' + symb_cnt')
    BY <1>15, <1>16, <2>2 DEF AirInOrder, AirWith
  <2> QED  BY <2>1, <2>3
<1>19. C + d + m \in 0 .. (C + Q) /\ P \in 0 .. P /\ d + m \in 0 .. Q
  BY <1>11
<1> QED  BY <1>1, <1>12, <1>14, <1>15, <1>17, <1>18, <1>19

LEMMA ModulateKeeps ==
  ASSUME NEW p \in Parameters, Typed, Modulate, SymInOrder(p), ModCounts(p), AirInOrder(p),
         CodePlaces(p)'[1] = CodePlaces(p)[1]
  PROVE  /\ SymInOrder(p)' /\ ModCounts(p)' /\ AirInOrder(p)'
         /\ tx_symbols' \in Seq(SymbolSet) /\ Len(tx_symbols') <= Len(tx_symbols)
         /\ mod_frame_len' \in Nat /\ air' \in Seq(AirSet)
         /\ symb_cnt' \in 0 .. (mod_frame_len' + InterFramePadding)
         /\ preamb_symb_cnt' \in 0 .. PreambleLen /\ padd_cnt' \in 0 .. InterFramePadding
<1>1. tx_symbols # <<>> /\ tx_symbols \in Seq(SymbolSet)
  BY DEF Modulate, Typed
<1>2. PICK f \in Frames, s \in Nat, L \in Nat \ {0}, N \in Nat \ {0} : ModAt(p, f, s, L, N)
  BY <1>1, ModulateHead
<1>3. CASE ~StartsFrame /\ ~InFrame
  <2>1. /\ SymInOrder(p)' /\ ModCounts(p)' /\ AirInOrder(p)'
        /\ tx_symbols' = tx_symbols
        /\ mod_frame_len' \in Nat /\ air' \in Seq(AirSet)
        /\ symb_cnt' \in 0 .. (mod_frame_len' + InterFramePadding)
        /\ preamb_symb_cnt' \in 0 .. PreambleLen /\ padd_cnt' \in 0 .. InterFramePadding
    BY <1>2, <1>3, ModulatePads
  <2>2. Len(tx_symbols) <= Len(tx_symbols)
    BY <1>1
  <2> QED  BY <1>1, <2>1, <2>2
<1>4. CASE StartsFrame \/ InFrame
  <2>1. PICK q : q = SymPlaces(p)[1] /\ q.frame = f /\ q.n = s
    BY <1>2 DEF ModAt
  <2>2. /\ N = SymbolCount(p, f) /\ tx_symbols[1].len = IF s = 0 THEN N ELSE 0
    BY <1>2 DEF ModAt
  <2>3. PICK P \in Nat, Q \in Nat \ {0} : P = PreambleLen /\ Q = InterFramePadding
    BY PreambleFacts, ModAssumption
  <2>4. \E r \in Nat : Sending(p, f, s, r, N)
    <3>1. CASE StartsFrame
      <4>1. s = 0 /\ padd_cnt = Q
        BY <2>2, <2>3, <3>1 DEF StartsFrame
      <4>2. ~InFrame
        <5>1. InFrame => padd_cnt = 0
          BY DEF ModCounts
        <5> QED  BY <4>1, <5>1
      <4>3. /\ symb_cnt = mod_frame_len + (IF f = 1 THEN 0 ELSE padd_cnt)
            /\ f # 1 => mod_frame_len = SymbolCount(p, f - 1) /\ preamb_symb_cnt = P
        BY <2>1, <2>3, <4>2 DEF ModCounts
      <4>4. air = AirWith(p, f, 0)
        <5>1. air = IF f - 1 = 0 THEN <<>>
                    ELSE AirUpTo(p, f - 1 - 1) \o SubSeq(AirOf(p, f - 1), 1, preamb_symb_cnt + symb_cnt)
          BY <2>1, <4>2 DEF AirInOrder
        <5>2. CASE f = 1
          <6>1. air = <<>>
            BY <5>1, <5>2
          <6>2. AirUpTo(p, f - 1) = <<>>
            <7>1. 0 \in 0 .. NFrames /\ f - 1 = 0
              BY <5>2, TxAssumption
            <7> QED  BY <7>1, AirUpToFacts
          <6>3. AirWith(p, f, 0) = AirUpTo(p, f - 1)
            BY AirWhole
          <6> QED  BY <6>1, <6>2, <6>3
        <5>3. CASE f # 1
          <6>1. PICK g \in Frames : g = f - 1 /\ g # 0
            <7>1. f - 1 \in Frames /\ f - 1 # 0
              BY <5>3, TxAssumption DEF Frames
            <7> QED  BY <7>1
          <6>2. SymbolCount(p, g) \in Nat
            BY CountFacts
          <6>3. preamb_symb_cnt + symb_cnt = PreambleLen + SymbolCount(p, g) + InterFramePadding
            <7>1. symb_cnt = SymbolCount(p, g) + Q /\ preamb_symb_cnt = P
              BY <4>1, <4>3, <5>3, <6>1
            <7>2. P + (SymbolCount(p, g) + Q) = P + SymbolCount(p, g) + Q
              BY <6>2
            <7> QED  BY <2>3, <7>1, <7>2
          <6>4. air = AirWith(p, g, preamb_symb_cnt + symb_cnt)
            BY <5>1, <6>1 DEF AirWith
          <6>5. air = AirUpTo(p, g)
            BY <6>3, <6>4, AirWhole
          <6>6. AirWith(p, f, 0) = AirUpTo(p, f - 1)
            BY AirWhole
          <6> QED  BY <6>1, <6>5, <6>6
        <5> QED  BY <5>2, <5>3
      <4>5. /\ SymbCntNow = s /\ PreambleNow = 0 /\ PaddNow = 0 /\ FrameLenOf = N
        BY <2>2, <3>1, <4>1 DEF SymbCntNow, PreambleNow, PaddNow, FrameLenOf
      <4>6. Sending(p, f, s, 0, N)
        <5>1. 0 <= PreambleLen /\ ~(s > 0) /\ 0 + s = 0
          BY <2>3, <4>1
        <5> QED  BY <4>4, <4>5, <5>1 DEF Sending
      <4> QED  BY <4>6
    <3>2. CASE ~StartsFrame /\ InFrame
      <4>1. /\ mod_frame_len = N /\ symb_cnt = s /\ padd_cnt = 0
            /\ s > 0 => preamb_symb_cnt = PreambleLen
        BY <2>1, <2>2, <3>2 DEF ModCounts
      <4>2. preamb_symb_cnt \in 0 .. P
        BY <2>3 DEF Typed, TypeOK
      <4>3. PICK r \in Nat : r = preamb_symb_cnt /\ r <= PreambleLen
        BY <2>3, <4>2
      <4>4. /\ SymbCntNow = s /\ PreambleNow = r /\ PaddNow = 0 /\ FrameLenOf = N
        BY <3>2, <4>1, <4>3 DEF SymbCntNow, PreambleNow, PaddNow, FrameLenOf
      <4>5. air = AirWith(p, f, r + s)
        <5>1. f # 0
          BY DEF Frames
        <5>2. air = AirWith(p, f, preamb_symb_cnt + symb_cnt)
          BY <2>1, <3>2, <5>1 DEF AirInOrder, AirWith
        <5> QED  BY <4>1, <4>3, <5>2
      <4>6. Sending(p, f, s, r, N)
        BY <4>1, <4>3, <4>4, <4>5 DEF Sending
      <4> QED  BY <4>6
    <3> QED  BY <1>4, <3>1, <3>2
  <2>5. PICK r \in Nat : Sending(p, f, s, r, N)
    BY <2>4
  <2> QED  BY <1>2, <2>5, ModulateSends
<1> QED  BY <1>3, <1>4

----------------------------------------------------------------------------
(***************************************************************************)
(* The invariant: it holds in the beginning and no step breaks it.         *)
(***************************************************************************)

\* Nothing on a link, and the first frame next.
LEMMA NothingOrdered ==
  ASSUME NEW size \in Sizes, NEW pl, pl[1] = Place(1, 0)
  PROVE  Ordered(pl, 0, size)
<1>1. NFrames \in Nat
  BY TxAssumption
<1>2. Place(1, 0) \in PlacesOf(size)
  <2>1. CASE NFrames = 0
    BY <2>1 DEF Place, PlacesOf
  <2>2. CASE NFrames # 0
    <3>1. 1 \in Frames /\ size[1] \in Nat \ {0} /\ 1 # NFrames + 1 /\ 1 \in 1 .. NFrames + 1
      BY <1>1, <2>2 DEF Sizes, Frames
    <3> QED  BY <3>1 DEF Place, PlacesOf
  <2> QED  BY <2>1, <2>2
<1>3. \A k \in 1 .. 0 + 1 : pl[k] \in PlacesOf(size)
  BY <1>2
<1> QED  BY <1>3 DEF Ordered

LEMMA InitIInv == Init => IInv
<1> SUFFICES ASSUME Init PROVE IInv
  OBVIOUS
<1>1. /\ m_impl_head \in BOOLEAN /\ m_has_crc \in BOOLEAN /\ m_cr \in CodingRates
      /\ payloads \in [1 .. NFrames -> PayloadLens]
      /\ whitened = <<>> /\ headed = <<>> /\ checked = <<>> /\ coded = <<>> /\ tx_symbols = <<>>
  BY DEF Init, LinksInit
<1>2. /\ payload_str = [f \in 1 .. NFrames |-> f]
      /\ m_payload_len = 0 /\ m_tag_len = 0 /\ m_cnt_nibbles = 0 /\ m_cnt_header_nibbles = 0
      /\ m_payload = <<>> /\ m_frame_len = 0 /\ m_cnt = 0
  BY DEF Init, FramingInit
<1>3. enc_cnt = 0 /\ cw_cnt = 0 /\ inter_frame_len = 0 /\ blocks = <<>>
  BY DEF Init, CodingInit
<1>4. /\ mod_frame_len = 0 /\ symb_cnt = 0 /\ preamb_symb_cnt = 0
      /\ padd_cnt = InterFramePadding /\ air = <<>>
  BY DEF Init, ModInit
<1>5. PICK p \in Parameters : p = Given
  BY <1>1 DEF Given, Parameters
<1>6. /\ NFrames \in Nat /\ NUp \in Nat /\ InterFramePadding \in Nat \ {0} /\ SF \in 7 .. 12
      /\ Capacity.whitened \in Nat /\ Capacity.headed \in Nat /\ Capacity.checked \in Nat
      /\ Capacity.coded \in Nat /\ Capacity.tx_symbols \in Nat
  BY TxAssumption, ModAssumption
<1>7. payload_str \in Seq(Nat) /\ Len(payload_str) = NFrames
      /\ \A k \in 1 .. Len(payload_str) : payload_str[k] = NFrames - Len(payload_str) + k
  BY <1>2, <1>6
<1>8. Typed
  <2>1. TypeOK
    BY <1>1, <1>2, <1>4, <1>6 DEF TypeOK, PreambleLen
  <2>2. Given \in Parameters
    BY <1>5
  <2> QED  BY <1>1, <1>2, <1>3, <1>4, <1>7, <2>1, <2>2 DEF Typed
<1>9. PayloadsLeft
  BY <1>6, <1>7 DEF PayloadsLeft
<1>10. /\ WhiteSize(p) \in Sizes /\ HeadSize(p) \in Sizes /\ CheckSize(p) \in Sizes
       /\ SymSize(p) \in Sizes
  BY SizesFacts
<1>11. WhitePlaces[1] = Place(1, 0)
  BY <1>1, <1>6, <1>7 DEF WhitePlaces, WhiteTo
<1>12. HeadPlaces(p)[1] = Place(1, 0)
  <2>1. HeadedTo(p) = Place(1, 0)
    BY <1>2, <1>11 DEF HeadedTo, Place
  <2> QED  BY <1>1, <2>1 DEF HeadPlaces
<1>13. CheckPlaces(p)[1] = Place(1, 0)
  BY <1>1, <1>12 DEF CheckPlaces
<1>14. CodePlaces(p)[1] = Place(1, 0)
  BY <1>1, <1>13 DEF CodePlaces
<1>15. BlocksDone(0) = 0
  BY <1>6 DEF BlocksDone
<1>16. SymPlaces(p)[1] = Place(1, 0)
  <2>1. SymTo(p) = Place(1, 0)
    BY <1>14, <1>15 DEF SymTo, SymbolsBefore, Place
  <2> QED  BY <1>1, <2>1 DEF SymPlaces
<1>17. WhiteInOrder(p) /\ HeadInOrder(p) /\ CheckInOrder(p) /\ CodeInOrder(p) /\ SymInOrder(p)
  <2>1. /\ Ordered(WhitePlaces, 0, WhiteSize(p)) /\ Ordered(HeadPlaces(p), 0, HeadSize(p))
        /\ Ordered(CheckPlaces(p), 0, CheckSize(p)) /\ Ordered(CodePlaces(p), 0, CheckSize(p))
        /\ Ordered(SymPlaces(p), 0, SymSize(p))
    BY <1>10, <1>11, <1>12, <1>13, <1>14, <1>16, NothingOrdered
  <2>2. Len(whitened) = 0 /\ Len(headed) = 0 /\ Len(checked) = 0 /\ Len(coded) = 0
        /\ Len(tx_symbols) = 0
    BY <1>1
  <2> QED  BY <2>1, <2>2 DEF WhiteInOrder, HeadInOrder, CheckInOrder, CodeInOrder, SymInOrder
<1>18. Place(1, 0).frame = 1 /\ Place(1, 0).n = 0
  BY DEF Place
<1>19. HeaderCounts(p) /\ CrcCounts(p) /\ EncCounts(p)
  BY <1>2, <1>11, <1>12, <1>13, <1>18 DEF HeaderCounts, CrcCounts, EncCounts
<1>20. BlockCounts(p)
  <2>1. ASSUME 1 \in Frames PROVE 0 < BlockCount(p, 1)
    <3>1. BlockCount(p, 1) \in Nat \ {0}
      BY <2>1, CountFacts
    <3> QED  BY <3>1
  <2>2. CodewordsBefore(0) = 0
    BY DEF CodewordsBefore
  <2> QED  BY <1>14, <1>15, <1>18, <2>1, <2>2 DEF BlockCounts
<1>21. BlocksInOrder(p)
  <2>1. BlocksUpTo(p, 0) = <<>>
    BY <1>6, BlocksUpToFacts
  <2>2. BlocksSent(p, 1, 0) = <<>>
    BY <2>1 DEF BlocksSent
  <2> QED  BY <1>3, <1>14, <1>15, <1>18, <2>2 DEF BlocksInOrder
<1>22. ModCounts(p) /\ AirInOrder(p)
  <2>1. ~InFrame
    BY <1>4 DEF InFrame
  <2> QED  BY <1>4, <1>16, <1>18, <2>1 DEF ModCounts, AirInOrder
<1>23. InOrder(p)
  BY <1>9, <1>17, <1>19, <1>20, <1>21, <1>22 DEF InOrder
<1> QED  BY <1>5, <1>8, <1>23 DEF IInv

\* What lies behind a link, when the link and the blocks behind it are left alone.
LEMMA SymbolsKept ==
  ASSUME NEW p \in Parameters, CodePlaces(p)'[1] = CodePlaces(p)[1],
         UNCHANGED tx_symbols, UNCHANGED modVars, SymInOrder(p), ModCounts(p), AirInOrder(p)
  PROVE  SymInOrder(p)' /\ ModCounts(p)' /\ AirInOrder(p)'
<1>1. SymPlaces(p)' = SymPlaces(p) /\ SymInOrder(p)'
  BY SymKept
<1>2. SymPlaces(p)'[1] = SymPlaces(p)[1]
  BY <1>1
<1>3. tx_symbols' # <<>> \/ tx_symbols = <<>>
  OBVIOUS
<1> QED  BY <1>1, <1>2, <1>3, ModKept

LEMMA CodewordsKept ==
  ASSUME NEW p \in Parameters, CheckPlaces(p)'[1] = CheckPlaces(p)[1],
         UNCHANGED <<coded, cw_cnt, inter_frame_len, blocks>>,
         UNCHANGED tx_symbols, UNCHANGED modVars,
         CodeInOrder(p), BlockCounts(p), BlocksInOrder(p), SymInOrder(p), ModCounts(p), AirInOrder(p)
  PROVE  /\ CodeInOrder(p)' /\ BlockCounts(p)' /\ BlocksInOrder(p)'
         /\ SymInOrder(p)' /\ ModCounts(p)' /\ AirInOrder(p)'
<1>1. CodePlaces(p)' = CodePlaces(p) /\ CodeInOrder(p)'
  BY CodeKept
<1>2. CodePlaces(p)'[1] = CodePlaces(p)[1]
  BY <1>1
<1>3. BlockCounts(p)' /\ BlocksInOrder(p)'
  BY <1>2, BlocksKept
<1>4. SymInOrder(p)' /\ ModCounts(p)' /\ AirInOrder(p)'
  BY <1>2, SymbolsKept
<1> QED  BY <1>1, <1>3, <1>4

LEMMA CheckedKept ==
  ASSUME NEW p \in Parameters, HeadPlaces(p)'[1] = HeadPlaces(p)[1],
         UNCHANGED <<checked, enc_cnt, coded, cw_cnt, inter_frame_len, blocks>>,
         UNCHANGED tx_symbols, UNCHANGED modVars,
         CheckInOrder(p), EncCounts(p), CodeInOrder(p), BlockCounts(p), BlocksInOrder(p),
         SymInOrder(p), ModCounts(p), AirInOrder(p)
  PROVE  /\ CheckInOrder(p)' /\ EncCounts(p)'
         /\ CodeInOrder(p)' /\ BlockCounts(p)' /\ BlocksInOrder(p)'
         /\ SymInOrder(p)' /\ ModCounts(p)' /\ AirInOrder(p)'
<1>1. CheckPlaces(p)' = CheckPlaces(p) /\ CheckInOrder(p)'
  BY CheckKept
<1>2. CheckPlaces(p)'[1] = CheckPlaces(p)[1]
  BY <1>1
<1>3. EncCounts(p)'
  BY <1>2, EncKept
<1>4. /\ CodeInOrder(p)' /\ BlockCounts(p)' /\ BlocksInOrder(p)'
      /\ SymInOrder(p)' /\ ModCounts(p)' /\ AirInOrder(p)'
  BY <1>2, CodewordsKept
<1> QED  BY <1>1, <1>3, <1>4

\* The parameters, which no step changes.
LEMMA SameParameters ==
  ASSUME Typed, UNCHANGED parameters
  PROVE  /\ Given' = Given /\ Given' \in Parameters
         /\ (m_impl_head \in BOOLEAN /\ m_has_crc \in BOOLEAN /\ m_cr \in CodingRates)'
BY DEF Typed, TypeOK, parameters, Given

----------------------------------------------------------------------------
\* One step of each block.

LEMMA WhiteningKeeps == ASSUME IInv, WhiteningStep PROVE IInv'
<1>1. PICK p \in Parameters : p = Given /\ InOrder(p)
  BY DEF IInv
<1>2. Typed
  BY DEF IInv
<1>3. /\ Whiten /\ UNCHANGED parameters
      /\ UNCHANGED <<headed, checked, coded, tx_symbols, m_payload_len, m_tag_len,
                     m_cnt_nibbles, m_cnt_header_nibbles, m_payload, m_frame_len, m_cnt>>
      /\ UNCHANGED <<enc_cnt, cw_cnt, inter_frame_len, blocks>> /\ UNCHANGED modVars
  BY DEF WhiteningStep, Whiten, codingVars
<1>4. /\ PayloadsLeft' /\ WhiteInOrder(p)' /\ HeaderCounts(p)'
      /\ WhitePlaces'[1] = WhitePlaces[1] /\ payload_str' \in Seq(Nat)
      /\ whitened' \in Seq(ItemSet) /\ Len(whitened') <= Capacity.whitened
  BY <1>1, <1>2, <1>3, WhitenKeeps DEF InOrder
<1>5. HeadPlaces(p)' = HeadPlaces(p) /\ HeadInOrder(p)'
  BY <1>1, <1>3, <1>4, HeadKept DEF InOrder
<1>6. HeadPlaces(p)'[1] = HeadPlaces(p)[1]
  BY <1>5
<1>7. CrcCounts(p)'
  BY <1>1, <1>3, <1>6, CrcKept DEF InOrder
<1>8. /\ CheckInOrder(p)' /\ EncCounts(p)'
      /\ CodeInOrder(p)' /\ BlockCounts(p)' /\ BlocksInOrder(p)'
      /\ SymInOrder(p)' /\ ModCounts(p)' /\ AirInOrder(p)'
  BY <1>1, <1>3, <1>6, CheckedKept DEF InOrder
<1>9. InOrder(p)'
  BY <1>4, <1>5, <1>7, <1>8 DEF InOrder
<1>10. /\ Given' = Given /\ Given' \in Parameters
       /\ (m_impl_head \in BOOLEAN /\ m_has_crc \in BOOLEAN /\ m_cr \in CodingRates)'
  BY <1>2, <1>3, SameParameters
<1>11. TypeOK'
  BY <1>2, <1>3, <1>4, <1>10 DEF Typed, TypeOK, modVars
<1>12. Typed'
  BY <1>2, <1>3, <1>4, <1>10, <1>11 DEF Typed, modVars
<1> QED  BY <1>1, <1>9, <1>10, <1>12 DEF IInv

LEMMA HeaderKeeps == ASSUME IInv, HeaderStep PROVE IInv'
<1>1. PICK p \in Parameters : p = Given /\ InOrder(p)
  BY DEF IInv
<1>2. Typed
  BY DEF IInv
<1>3. /\ AddHeader /\ UNCHANGED parameters
      /\ UNCHANGED <<checked, coded, tx_symbols, payload_str, m_payload, m_frame_len, m_cnt>>
      /\ UNCHANGED <<enc_cnt, cw_cnt, inter_frame_len, blocks>> /\ UNCHANGED modVars
  BY DEF HeaderStep, AddHeader, codingVars
<1>4. /\ WhiteInOrder(p)' /\ HeaderCounts(p)' /\ HeadInOrder(p)'
      /\ HeadPlaces(p)'[1] = HeadPlaces(p)[1]
      /\ whitened' \in Seq(ItemSet) /\ Len(whitened') <= Len(whitened)
      /\ headed' \in Seq(ItemSet) /\ Len(headed') <= Capacity.headed
      /\ m_payload_len' \in Nat /\ m_tag_len' \in Nat /\ m_cnt_nibbles' \in Nat
      /\ m_cnt_header_nibbles' \in 0 .. 5
  BY <1>1, <1>2, <1>3, AddHeaderKeeps DEF InOrder
<1>5. PayloadsLeft'
  BY <1>1, <1>3 DEF InOrder, PayloadsLeft
<1>6. CrcCounts(p)'
  BY <1>1, <1>3, <1>4, CrcKept DEF InOrder
<1>7. /\ CheckInOrder(p)' /\ EncCounts(p)'
      /\ CodeInOrder(p)' /\ BlockCounts(p)' /\ BlocksInOrder(p)'
      /\ SymInOrder(p)' /\ ModCounts(p)' /\ AirInOrder(p)'
  BY <1>1, <1>3, <1>4, CheckedKept DEF InOrder
<1>8. InOrder(p)'
  BY <1>4, <1>5, <1>6, <1>7 DEF InOrder
<1>9. /\ Given' = Given /\ Given' \in Parameters
      /\ (m_impl_head \in BOOLEAN /\ m_has_crc \in BOOLEAN /\ m_cr \in CodingRates)'
  BY <1>2, <1>3, SameParameters
<1>10. Len(whitened') <= Capacity.whitened
  <2>1. Len(whitened) <= Capacity.whitened /\ whitened \in Seq(ItemSet) /\ Capacity.whitened \in Nat
    BY <1>2, TxAssumption DEF Typed, TypeOK
  <2>2. Len(whitened) \in Nat /\ Len(whitened') \in Nat /\ Len(whitened') <= Len(whitened)
    BY <1>4, <2>1
  <2> QED  BY <2>1, <2>2
<1>11. TypeOK'
  BY <1>2, <1>3, <1>4, <1>9, <1>10 DEF Typed, TypeOK, modVars
<1>12. Typed'
  BY <1>2, <1>3, <1>4, <1>9, <1>11 DEF Typed, modVars
<1> QED  BY <1>1, <1>8, <1>9, <1>12 DEF IInv

LEMMA CrcKeeps == ASSUME IInv, CrcStep PROVE IInv'
<1>1. PICK p \in Parameters : p = Given /\ InOrder(p)
  BY DEF IInv
<1>2. Typed
  BY DEF IInv
<1>3. /\ AddCrc /\ UNCHANGED parameters
      /\ UNCHANGED <<whitened, coded, tx_symbols, payload_str, m_payload_len, m_tag_len,
                     m_cnt_nibbles, m_cnt_header_nibbles>>
      /\ UNCHANGED <<enc_cnt, cw_cnt, inter_frame_len, blocks>> /\ UNCHANGED modVars
  BY DEF CrcStep, AddCrc, codingVars
<1>4. WhitePlaces' = WhitePlaces /\ PayloadsLeft' /\ WhiteInOrder(p)'
  BY <1>1, <1>3, WhiteKept DEF InOrder
<1>5. HeaderCounts(p)'
  <2>1. WhitePlaces'[1] = WhitePlaces[1] /\ (whitened' # <<>> \/ whitened = <<>>)
    BY <1>3, <1>4
  <2> QED  BY <1>1, <1>3, <2>1, HeaderKept DEF InOrder
<1>6. HeadedTo(p)' = HeadedTo(p)
  BY <1>3, <1>4 DEF HeadedTo
<1>7. /\ HeadInOrder(p)' /\ CrcCounts(p)' /\ CheckInOrder(p)'
      /\ CheckPlaces(p)'[1] = CheckPlaces(p)[1]
      /\ headed' \in Seq(ItemSet) /\ Len(headed') <= Len(headed)
      /\ checked' \in Seq(ItemSet) /\ Len(checked') <= Capacity.checked
      /\ m_cnt' \in Nat /\ m_frame_len' \in Nat /\ m_payload' \in Seq(Nat)
  BY <1>1, <1>2, <1>3, <1>6, AddCrcKeeps DEF InOrder
<1>8. EncCounts(p)'
  BY <1>1, <1>3, <1>7, EncKept DEF InOrder
<1>9. /\ CodeInOrder(p)' /\ BlockCounts(p)' /\ BlocksInOrder(p)'
      /\ SymInOrder(p)' /\ ModCounts(p)' /\ AirInOrder(p)'
  BY <1>1, <1>3, <1>7, CodewordsKept DEF InOrder
<1>10. InOrder(p)'
  BY <1>4, <1>5, <1>7, <1>8, <1>9 DEF InOrder
<1>11. /\ Given' = Given /\ Given' \in Parameters
       /\ (m_impl_head \in BOOLEAN /\ m_has_crc \in BOOLEAN /\ m_cr \in CodingRates)'
  BY <1>2, <1>3, SameParameters
<1>12. Len(headed') <= Capacity.headed
  <2>1. Len(headed) <= Capacity.headed /\ headed \in Seq(ItemSet) /\ Capacity.headed \in Nat
    BY <1>2, TxAssumption DEF Typed, TypeOK
  <2>2. Len(headed) \in Nat /\ Len(headed') \in Nat /\ Len(headed') <= Len(headed)
    BY <1>7, <2>1
  <2> QED  BY <2>1, <2>2
<1>13. TypeOK'
  BY <1>2, <1>3, <1>7, <1>11, <1>12 DEF Typed, TypeOK, modVars
<1>14. Typed'
  BY <1>2, <1>3, <1>7, <1>11, <1>13 DEF Typed, modVars
<1> QED  BY <1>1, <1>10, <1>11, <1>14 DEF IInv

\* What lies in front of a link, when a block behind the link steps.
LEMMA FramingKept ==
  ASSUME NEW p \in Parameters, UNCHANGED <<whitened, headed>>, UNCHANGED framingVars,
         PayloadsLeft, WhiteInOrder(p), HeaderCounts(p), HeadInOrder(p), CrcCounts(p)
  PROVE  /\ PayloadsLeft' /\ WhiteInOrder(p)' /\ HeaderCounts(p)' /\ HeadInOrder(p)' /\ CrcCounts(p)'
         /\ HeadPlaces(p)'[1] = HeadPlaces(p)[1]
<1>1. UNCHANGED <<payload_str, m_payload_len, m_tag_len, m_cnt_nibbles, m_cnt_header_nibbles,
                  m_payload, m_frame_len, m_cnt>>
  BY DEF framingVars
<1>2. WhitePlaces' = WhitePlaces /\ PayloadsLeft' /\ WhiteInOrder(p)'
  BY <1>1, WhiteKept
<1>3. WhitePlaces'[1] = WhitePlaces[1] /\ (whitened' # <<>> \/ whitened = <<>>)
  BY <1>2
<1>4. HeaderCounts(p)'
  BY <1>1, <1>3, HeaderKept
<1>5. HeadPlaces(p)' = HeadPlaces(p) /\ HeadInOrder(p)'
  BY <1>1, <1>3, HeadKept
<1>6. HeadPlaces(p)'[1] = HeadPlaces(p)[1]
  BY <1>5
<1>7. CrcCounts(p)'
  BY <1>1, <1>6, CrcKept
<1> QED  BY <1>2, <1>4, <1>5, <1>6, <1>7

LEMMA HammingKeeps == ASSUME IInv, HammingStep PROVE IInv'
<1>1. PICK p \in Parameters : p = Given /\ InOrder(p)
  BY DEF IInv
<1>2. Typed
  BY DEF IInv
<1>3. /\ HammingEnc /\ UNCHANGED parameters
      /\ UNCHANGED <<whitened, headed>> /\ UNCHANGED framingVars
      /\ UNCHANGED tx_symbols /\ UNCHANGED <<cw_cnt, inter_frame_len, blocks>> /\ UNCHANGED modVars
  BY DEF HammingStep, HammingEnc
<1>4. /\ PayloadsLeft' /\ WhiteInOrder(p)' /\ HeaderCounts(p)' /\ HeadInOrder(p)' /\ CrcCounts(p)'
      /\ HeadPlaces(p)'[1] = HeadPlaces(p)[1]
  BY <1>1, <1>3, FramingKept DEF InOrder
<1>5. /\ CheckInOrder(p)' /\ EncCounts(p)' /\ CodeInOrder(p)'
      /\ CodePlaces(p)'[1] = CodePlaces(p)[1]
      /\ checked' \in Seq(ItemSet) /\ Len(checked') <= Len(checked)
      /\ coded' \in Seq(CodewordSet) /\ Len(coded') <= Capacity.coded /\ enc_cnt' \in Nat
  BY <1>1, <1>2, <1>3, <1>4, HammingEncKeeps DEF InOrder
<1>6. BlockCounts(p)' /\ BlocksInOrder(p)'
  BY <1>1, <1>3, <1>5, BlocksKept DEF InOrder
<1>7. SymInOrder(p)' /\ ModCounts(p)' /\ AirInOrder(p)'
  BY <1>1, <1>3, <1>5, SymbolsKept DEF InOrder
<1>8. InOrder(p)'
  BY <1>4, <1>5, <1>6, <1>7 DEF InOrder
<1>9. /\ Given' = Given /\ Given' \in Parameters
      /\ (m_impl_head \in BOOLEAN /\ m_has_crc \in BOOLEAN /\ m_cr \in CodingRates)'
  BY <1>2, <1>3, SameParameters
<1>10. Len(checked') <= Capacity.checked
  <2>1. Len(checked) <= Capacity.checked /\ checked \in Seq(ItemSet) /\ Capacity.checked \in Nat
    BY <1>2, TxAssumption DEF Typed, TypeOK
  <2>2. Len(checked) \in Nat /\ Len(checked') \in Nat /\ Len(checked') <= Len(checked)
    BY <1>5, <2>1
  <2> QED  BY <2>1, <2>2
<1>11. TypeOK'
  BY <1>2, <1>3, <1>5, <1>9, <1>10 DEF Typed, TypeOK, framingVars, modVars
<1>12. Typed'
  BY <1>2, <1>3, <1>5, <1>9, <1>11 DEF Typed, framingVars, modVars
<1> QED  BY <1>1, <1>8, <1>9, <1>12 DEF IInv

\* The same up to the link hamming_enc -> interleaver.
LEMMA FramingCheckedKept ==
  ASSUME NEW p \in Parameters, UNCHANGED <<whitened, headed, checked, enc_cnt>>, UNCHANGED framingVars,
         PayloadsLeft, WhiteInOrder(p), HeaderCounts(p), HeadInOrder(p), CrcCounts(p),
         CheckInOrder(p), EncCounts(p)
  PROVE  /\ PayloadsLeft' /\ WhiteInOrder(p)' /\ HeaderCounts(p)' /\ HeadInOrder(p)' /\ CrcCounts(p)'
         /\ CheckInOrder(p)' /\ EncCounts(p)' /\ CheckPlaces(p)'[1] = CheckPlaces(p)[1]
<1>1. /\ PayloadsLeft' /\ WhiteInOrder(p)' /\ HeaderCounts(p)' /\ HeadInOrder(p)' /\ CrcCounts(p)'
      /\ HeadPlaces(p)'[1] = HeadPlaces(p)[1]
  BY FramingKept
<1>2. CheckPlaces(p)' = CheckPlaces(p) /\ CheckInOrder(p)'
  BY <1>1, CheckKept
<1>3. CheckPlaces(p)'[1] = CheckPlaces(p)[1]
  BY <1>2
<1>4. EncCounts(p)'
  BY <1>3, EncKept
<1> QED  BY <1>1, <1>2, <1>3, <1>4

LEMMA InterleaverKeeps == ASSUME IInv, InterleaverStep PROVE IInv'
<1>1. PICK p \in Parameters : p = Given /\ InOrder(p)
  BY DEF IInv
<1>2. Typed
  BY DEF IInv
<1>3. /\ UNCHANGED parameters /\ UNCHANGED <<whitened, headed, checked, enc_cnt>>
      /\ UNCHANGED framingVars /\ UNCHANGED modVars
  BY DEF InterleaverStep, InterleaveBlock, InterleaverWaits
<1>4. /\ PayloadsLeft' /\ WhiteInOrder(p)' /\ HeaderCounts(p)' /\ HeadInOrder(p)' /\ CrcCounts(p)'
      /\ CheckInOrder(p)' /\ EncCounts(p)' /\ CheckPlaces(p)'[1] = CheckPlaces(p)[1]
  BY <1>1, <1>3, FramingCheckedKept DEF InOrder
<1>5. /\ Given' = Given /\ Given' \in Parameters
      /\ (m_impl_head \in BOOLEAN /\ m_has_crc \in BOOLEAN /\ m_cr \in CodingRates)'
  BY <1>2, <1>3, SameParameters
<1>6. CASE InterleaverWaits
  <2>1. UNCHANGED <<coded, tx_symbols, blocks>>
    BY <1>6 DEF InterleaverWaits
  <2>2. CodePlaces(p)' = CodePlaces(p) /\ CodeInOrder(p)'
    BY <1>1, <1>4, <2>1, CodeKept DEF InOrder
  <2>3. CodePlaces(p)'[1] = CodePlaces(p)[1]
    BY <2>2
  <2>4. BlockCounts(p)' /\ BlocksInOrder(p)' /\ cw_cnt' \in Nat /\ inter_frame_len' \in Nat
    BY <1>1, <1>2, <1>6, <2>3, InterleaverWaitsKeeps DEF InOrder
  <2>5. SymInOrder(p)' /\ ModCounts(p)' /\ AirInOrder(p)'
    BY <1>1, <1>3, <2>1, <2>3, SymbolsKept DEF InOrder
  <2>6. InOrder(p)'
    BY <1>4, <2>2, <2>4, <2>5 DEF InOrder
  <2>7. TypeOK'
    BY <1>2, <1>3, <1>5, <2>1 DEF Typed, TypeOK, framingVars, modVars
  <2>8. Typed'
    BY <1>2, <1>3, <1>5, <2>1, <2>4, <2>7 DEF Typed, framingVars, modVars
  <2> QED  BY <1>1, <1>5, <2>6, <2>8 DEF IInv
<1>7. CASE InterleaveBlock
  <2>1. /\ CodeInOrder(p)' /\ BlockCounts(p)' /\ BlocksInOrder(p)' /\ SymInOrder(p)'
        /\ SymPlaces(p)'[1] = SymPlaces(p)[1]
        /\ coded' \in Seq(CodewordSet) /\ Len(coded') <= Len(coded)
        /\ tx_symbols' \in Seq(SymbolSet) /\ Len(tx_symbols') <= Capacity.tx_symbols
        /\ tx_symbols' # <<>>
        /\ cw_cnt' \in Nat /\ inter_frame_len' \in Nat
        /\ blocks' \in Seq([cw_len : Nat, cws : Seq(CodewordSet)])
    BY <1>1, <1>2, <1>4, <1>7, InterleaveKeeps DEF InOrder
  <2>2. ModCounts(p)' /\ AirInOrder(p)'
    BY <1>1, <1>3, <2>1, ModKept DEF InOrder
  <2>3. InOrder(p)'
    BY <1>4, <2>1, <2>2 DEF InOrder
  <2>4. Len(coded') <= Capacity.coded
    <3>1. Len(coded) <= Capacity.coded /\ coded \in Seq(CodewordSet) /\ Capacity.coded \in Nat
      BY <1>2, TxAssumption DEF Typed, TypeOK
    <3>2. Len(coded) \in Nat /\ Len(coded') \in Nat /\ Len(coded') <= Len(coded)
      BY <2>1, <3>1
    <3> QED  BY <3>1, <3>2
  <2>5. TypeOK'
    BY <1>2, <1>3, <1>5, <2>1, <2>4 DEF Typed, TypeOK, framingVars, modVars
  <2>6. Typed'
    BY <1>2, <1>3, <1>5, <2>1, <2>5 DEF Typed, framingVars, modVars
  <2> QED  BY <1>1, <1>5, <2>3, <2>6 DEF IInv
<1> QED  BY <1>6, <1>7 DEF InterleaverStep

LEMMA ModulateStepKeeps == ASSUME IInv, ModulateStep PROVE IInv'
<1>1. PICK p \in Parameters : p = Given /\ InOrder(p)
  BY DEF IInv
<1>2. Typed
  BY DEF IInv
<1>3. /\ Modulate /\ UNCHANGED parameters /\ UNCHANGED <<whitened, headed, checked, enc_cnt>>
      /\ UNCHANGED framingVars /\ UNCHANGED <<coded, cw_cnt, inter_frame_len, blocks>>
  BY DEF ModulateStep, Modulate, codingVars
<1>4. /\ PayloadsLeft' /\ WhiteInOrder(p)' /\ HeaderCounts(p)' /\ HeadInOrder(p)' /\ CrcCounts(p)'
      /\ CheckInOrder(p)' /\ EncCounts(p)' /\ CheckPlaces(p)'[1] = CheckPlaces(p)[1]
  BY <1>1, <1>3, FramingCheckedKept DEF InOrder
<1>5. CodePlaces(p)' = CodePlaces(p) /\ CodeInOrder(p)'
  BY <1>1, <1>3, <1>4, CodeKept DEF InOrder
<1>6. CodePlaces(p)'[1] = CodePlaces(p)[1]
  BY <1>5
<1>7. BlockCounts(p)' /\ BlocksInOrder(p)'
  BY <1>1, <1>3, <1>6, BlocksKept DEF InOrder
<1>8. /\ SymInOrder(p)' /\ ModCounts(p)' /\ AirInOrder(p)'
      /\ tx_symbols' \in Seq(SymbolSet) /\ Len(tx_symbols') <= Len(tx_symbols)
      /\ mod_frame_len' \in Nat /\ air' \in Seq(AirSet)
      /\ symb_cnt' \in 0 .. (mod_frame_len' + InterFramePadding)
      /\ preamb_symb_cnt' \in 0 .. PreambleLen /\ padd_cnt' \in 0 .. InterFramePadding
  BY <1>1, <1>2, <1>3, <1>6, ModulateKeeps DEF InOrder
<1>9. InOrder(p)'
  BY <1>4, <1>5, <1>7, <1>8 DEF InOrder
<1>10. /\ Given' = Given /\ Given' \in Parameters
       /\ (m_impl_head \in BOOLEAN /\ m_has_crc \in BOOLEAN /\ m_cr \in CodingRates)'
  BY <1>2, <1>3, SameParameters
<1>11. Len(tx_symbols') <= Capacity.tx_symbols
  <2>1. /\ Len(tx_symbols) <= Capacity.tx_symbols /\ tx_symbols \in Seq(SymbolSet)
        /\ Capacity.tx_symbols \in Nat
    BY <1>2, TxAssumption DEF Typed, TypeOK
  <2>2. Len(tx_symbols) \in Nat /\ Len(tx_symbols') \in Nat /\ Len(tx_symbols') <= Len(tx_symbols)
    BY <1>8, <2>1
  <2> QED  BY <2>1, <2>2
<1>12. TypeOK'
  BY <1>2, <1>3, <1>8, <1>10, <1>11 DEF Typed, TypeOK, framingVars
<1>13. Typed'
  BY <1>2, <1>3, <1>8, <1>10, <1>12 DEF Typed, framingVars
<1> QED  BY <1>1, <1>9, <1>10, <1>13 DEF IInv

LEMMA StutterKeeps == ASSUME IInv, UNCHANGED vars PROVE IInv'
<1>1. PICK p \in Parameters : p = Given /\ InOrder(p)
  BY DEF IInv
<1>2. Typed
  BY DEF IInv
<1>3. /\ UNCHANGED parameters /\ UNCHANGED <<whitened, headed, checked, enc_cnt>>
      /\ UNCHANGED framingVars /\ UNCHANGED <<coded, cw_cnt, inter_frame_len, blocks>>
      /\ UNCHANGED tx_symbols /\ UNCHANGED modVars
  BY DEF vars, codingVars
<1>4. /\ PayloadsLeft' /\ WhiteInOrder(p)' /\ HeaderCounts(p)' /\ HeadInOrder(p)' /\ CrcCounts(p)'
      /\ CheckInOrder(p)' /\ EncCounts(p)' /\ CheckPlaces(p)'[1] = CheckPlaces(p)[1]
  BY <1>1, <1>3, FramingCheckedKept DEF InOrder
<1>5. /\ CodeInOrder(p)' /\ BlockCounts(p)' /\ BlocksInOrder(p)'
      /\ SymInOrder(p)' /\ ModCounts(p)' /\ AirInOrder(p)'
  BY <1>1, <1>3, <1>4, CodewordsKept DEF InOrder
<1>6. InOrder(p)'
  BY <1>4, <1>5 DEF InOrder
<1>7. /\ Given' = Given /\ Given' \in Parameters
      /\ (m_impl_head \in BOOLEAN /\ m_has_crc \in BOOLEAN /\ m_cr \in CodingRates)'
  BY <1>2, <1>3, SameParameters
<1>8. TypeOK'
  BY <1>2, <1>3, <1>7 DEF Typed, TypeOK, framingVars, modVars
<1>9. Typed'
  BY <1>2, <1>3, <1>7, <1>8 DEF Typed, framingVars, modVars
<1> QED  BY <1>1, <1>6, <1>7, <1>9 DEF IInv

----------------------------------------------------------------------------
(***************************************************************************)
(* The theorems.                                                           *)
(***************************************************************************)

\* On every link the items of the frames follow each other, each block's counts say
\* where in its frame it is, and what was interleaved and sent ends there.
THEOREM TxPathInvariant == Spec => []IInv
<1>1. Init => IInv
  BY InitIInv
<1>2. IInv /\ [Next]_vars => IInv'
  <2> SUFFICES ASSUME IInv, [Next]_vars PROVE IInv'
    OBVIOUS
  <2>1. CASE WhiteningStep
    BY <2>1, WhiteningKeeps
  <2>2. CASE HeaderStep
    BY <2>2, HeaderKeeps
  <2>3. CASE CrcStep
    BY <2>3, CrcKeeps
  <2>4. CASE HammingStep
    BY <2>4, HammingKeeps
  <2>5. CASE InterleaverStep
    BY <2>5, InterleaverKeeps
  <2>6. CASE ModulateStep
    BY <2>6, ModulateStepKeeps
  <2>7. CASE UNCHANGED vars
    BY <2>7, StutterKeeps
  <2> QED  BY <2>1, <2>2, <2>3, <2>4, <2>5, <2>6, <2>7 DEF Next
<1> QED  BY <1>1, <1>2, PTL DEF Spec

\* Counts and links stay within their bounds: no block writes more than the room behind it.
THEOREM TxPathTypeOK == Spec => []TypeOK
<1>1. IInv => TypeOK
  BY DEF IInv, Typed
<1> QED  BY <1>1, TxPathInvariant, PTL

\* The blocks interleaved are those of the frames, one after the other: each as long as
\* its codewords, header and CRC at their place and of this frame (CrcSource), SF - 2 codewords at
\* coding rate 4 first.
THEOREM TxBlocksAreFrames == Spec => []BlocksAreFrames
<1>1. IInv => BlocksAreFrames
  <2> SUFFICES ASSUME IInv, Len(blocks) > 0
               PROVE  LET promised == Promised[Given].blocks IN
                      Len(blocks) <= Len(promised) /\ Bare(blocks[Len(blocks)]) = promised[Len(blocks)]
    BY DEF BlocksAreFrames
  <2>1. PICK p \in Parameters : p = Given /\ InOrder(p)
    BY DEF IInv
  <2>2. Promised[Given].blocks = BlocksUpTo(p, NFrames)
    BY <2>1 DEF Promised
  <2>3. NFrames \in Nat /\ NFrames \in 0 .. NFrames /\ BlocksUpTo(p, NFrames) \in Seq(BareSet)
    BY BlocksUpToFacts, TxAssumption
  <2>4. PICK f \in 1 .. NFrames + 1, n \in Nat :
          /\ CodePlaces(p)[1].frame = f /\ CodePlaces(p)[1].n = n
          /\ f = NFrames + 1 => n = 0
    <3>1. CodePlaces(p)[1] \in PlacesOf(CheckSize(p))
      <4>1. coded \in Seq(CodewordSet) /\ Ordered(CodePlaces(p), Len(coded), CheckSize(p))
        BY <2>1 DEF InOrder, CodeInOrder, IInv, Typed
      <4>2. 1 \in 1 .. Len(coded) + 1
        BY <4>1
      <4> QED  BY <4>1, <4>2 DEF Ordered
    <3> QED  BY <3>1 DEF PlacesOf
  <2>5. PICK b \in Nat \ {0} : b = Len(blocks)
    BY DEF IInv, Typed
  <2>6. /\ Len(BlocksSent(p, f, BlocksDone(n))) = b
        /\ Bare(blocks[b]) = BlocksSent(p, f, BlocksDone(n))[b]
    BY <2>1, <2>4, <2>5 DEF InOrder, BlocksInOrder
  <2>7. BlocksDone(n) \in Nat
    BY TxAssumption DEF BlocksDone
  <2>8. SUFFICES b <= Len(BlocksUpTo(p, NFrames))
                 /\ BlocksSent(p, f, BlocksDone(n))[b] = BlocksUpTo(p, NFrames)[b]
    BY <2>2, <2>5, <2>6
  <2>9. CASE f = NFrames + 1
    <3>1. BlocksDone(n) = 0
      BY <2>4, <2>9, TxAssumption DEF BlocksDone
    <3>2. BlocksSent(p, f, 0) = BlocksUpTo(p, NFrames)
      BY <2>3, <2>9 DEF BlocksSent
    <3> QED  BY <2>3, <2>6, <3>1, <3>2
  <2>10. CASE f # NFrames + 1
    <3>1. f \in Frames /\ f - 1 \in 0 .. NFrames /\ f - 1 < NFrames /\ (f - 1) + 1 = f /\ f \in 0 .. NFrames
      BY <2>3, <2>10 DEF Frames
    <3>2. PICK B \in Nat : B = BlocksDone(n) /\ B < BlockCount(p, f) /\ BlockCount(p, f) \in Nat
      <4>1. BlocksDone(n) < BlockCount(p, f)
        BY <2>1, <2>4, <3>1 DEF InOrder, BlockCounts
      <4>2. BlockCount(p, f) \in Nat
        BY <3>1, CountFacts
      <4> QED  BY <2>7, <4>1, <4>2
    <3>3. SentUpTo(BlocksSent(p, f, B), p, f, B) /\ Len(BlocksUpTo(p, f - 1)) \in Nat
      <4>1. B <= BlockCount(p, f)
        BY <3>2
      <4> QED  BY <3>1, <4>1, BlocksSentIs
    <3>4. /\ BlocksUpTo(p, f - 1) \in Seq(BareSet)
          /\ BlocksUpTo(p, f) = BlocksUpTo(p, f - 1) \o BlocksOf(p, f)
      BY <3>1, BlocksUpToFacts
    <3>5. BlocksOf(p, f) \in Seq(BareSet) /\ Len(BlocksOf(p, f)) = BlockCount(p, f)
      BY <3>1, BlocksType DEF BlockCount
    <3>6. PICK U \in Nat : U = Len(BlocksUpTo(p, f - 1)) /\ b = U + B
      BY <2>6, <3>2, <3>3 DEF SentUpTo
    <3>7. BlocksSent(p, f, B)[b] = BlocksUpTo(p, f)[b] /\ b \in 1 .. Len(BlocksUpTo(p, f))
      <4>1. CASE B = 0
        <5>1. b \in 1 .. U /\ BlocksSent(p, f, B)[b] = BlocksUpTo(p, f - 1)[b]
          BY <2>5, <3>3, <3>6, <4>1 DEF SentUpTo
        <5> QED  BY <3>4, <3>5, <3>6, <5>1
      <4>2. CASE B # 0
        <5>1. B \in 1 .. B
          BY <3>2, <4>2
        <5>2. BlocksSent(p, f, B)[U + B] = BlocksOf(p, f)[B]
          BY <3>3, <3>6, <5>1 DEF SentUpTo
        <5>3. B \in 1 .. Len(BlocksOf(p, f))
          BY <3>2, <3>5, <4>2
        <5> QED  BY <3>4, <3>5, <3>6, <5>2, <5>3
      <4> QED  BY <4>1, <4>2
    <3>8. /\ Len(BlocksUpTo(p, f)) <= Len(BlocksUpTo(p, NFrames))
          /\ BlocksUpTo(p, NFrames)[b] = BlocksUpTo(p, f)[b]
          /\ Len(BlocksUpTo(p, f)) \in Nat
      <4>1. NFrames \in f .. NFrames
        BY <2>3, <3>1
      <4>2. /\ Len(BlocksUpTo(p, f)) \in Nat
            /\ Len(BlocksUpTo(p, f)) <= Len(BlocksUpTo(p, NFrames))
            /\ \A k \in 1 .. Len(BlocksUpTo(p, f)) : BlocksUpTo(p, NFrames)[k] = BlocksUpTo(p, f)[k]
        BY <3>1, <4>1, BlocksUpToFacts
      <4> QED  BY <3>7, <4>2
    <3>9. Len(BlocksUpTo(p, NFrames)) \in Nat
      BY <2>3
    <3> QED  BY <3>2, <3>7, <3>8, <3>9
  <2> QED  BY <2>9, <2>10
<1> QED  BY <1>1, TxPathInvariant, PTL

\* A sequence that agrees with a longer one wherever it has items is a prefix of it.
LEMMA PrefixIs ==
  ASSUME NEW S, NEW s \in Seq(S), NEW t \in Seq(S), Len(s) <= Len(t),
         \A k \in 1 .. Len(s) : s[k] = t[k]
  PROVE  IsPrefix(s, t)
<1>1. SubSeq(s, 1, Len(s)) = s
  OBVIOUS
<1>2. SubSeq(t, 1, Len(s)) \in Seq(S) /\ Len(SubSeq(t, 1, Len(s))) = Len(s)
      /\ \A k \in 1 .. Len(s) : SubSeq(t, 1, Len(s))[k] = t[k]
  <2>1. CASE Len(s) = 0
    BY <2>1
  <2>2. CASE Len(s) # 0
    BY <2>2
  <2> QED  BY <2>1, <2>2
<1>3. SubSeq(t, 1, Len(s)) = s
  BY <1>2
<1> QED  BY <1>1, <1>3 DEF IsPrefix

LEMMA PartIsPrefix ==
  ASSUME NEW S, NEW u \in Seq(S), NEW a \in Seq(S), NEW t \in Seq(S), NEW k \in 0 .. Len(a),
         Len(u \o a) <= Len(t), \A j \in 1 .. Len(u \o a) : t[j] = (u \o a)[j]
  PROVE  IsPrefix(u \o SubSeq(a, 1, k), t)
<1> DEFINE c == SubSeq(a, 1, k)
<1>1. c \in Seq(S) /\ Len(c) = k /\ \A j \in 1 .. k : c[j] = a[j]
  <2>1. CASE k = 0
    BY <2>1
  <2>2. CASE k # 0
    <3>1. k \in 1 .. Len(a)
      BY <2>2
    <3> QED  BY <3>1
  <2> QED  BY <2>1, <2>2
<1> HIDE DEF c
<1>2. PICK U \in Nat, A \in Nat : U = Len(u) /\ A = Len(a) /\ k <= A
  OBVIOUS
<1>3. /\ u \o c \in Seq(S) /\ Len(u \o c) = U + k
      /\ (\A j \in 1 .. U : (u \o c)[j] = u[j]) /\ (\A j \in 1 .. k : (u \o c)[U + j] = c[j])
  <2>1. c \in Seq(S)
    BY <1>1
  <2>2. /\ u \o c \in Seq(S) /\ Len(u \o c) = Len(u) + Len(c)
        /\ (\A j \in 1 .. Len(u) : (u \o c)[j] = u[j])
        /\ (\A j \in 1 .. Len(c) : (u \o c)[Len(u) + j] = c[j])
    BY <2>1, ConcatFacts
  <2> QED  BY <1>1, <1>2, <2>2
<1>4. /\ Len(u \o a) = U + A
      /\ (\A j \in 1 .. U : (u \o a)[j] = u[j]) /\ (\A j \in 1 .. A : (u \o a)[U + j] = a[j])
  BY <1>2, ConcatFacts
<1> DEFINE v == u \o c
           w == u \o a
<1>5. /\ v \in Seq(S) /\ Len(v) = U + k /\ Len(w) = U + A
      /\ (\A j \in 1 .. U : v[j] = u[j]) /\ (\A j \in 1 .. k : v[U + j] = c[j])
      /\ (\A j \in 1 .. U : w[j] = u[j]) /\ (\A j \in 1 .. A : w[U + j] = a[j])
      /\ Len(w) <= Len(t) /\ \A j \in 1 .. U + A : t[j] = w[j]
  BY <1>3, <1>4
<1> HIDE DEF v, w
<1>6. ASSUME NEW j \in 1 .. U + k PROVE v[j] = t[j]
  <2>1. j \in 1 .. U + A
    BY <1>2
  <2>2. CASE j <= U
    <3>1. j \in 1 .. U
      BY <2>2
    <3> QED  BY <1>5, <2>1, <3>1
  <2>3. CASE j > U
    <3>1. PICK i \in 1 .. k : j = U + i
      <4>1. j - U \in 1 .. k /\ j = U + (j - U)
        BY <2>3
      <4> QED  BY <4>1
    <3>2. i \in 1 .. A
      BY <1>2
    <3>3. v[j] = c[i] /\ w[j] = a[i] /\ c[i] = a[i]
      BY <1>1, <1>5, <3>1, <3>2
    <3> QED  BY <1>5, <2>1, <3>3
  <2> QED  BY <2>2, <2>3
<1>7. Len(v) <= Len(t)
  <2>1. Len(t) \in Nat
    OBVIOUS
  <2> QED  BY <1>2, <1>5, <2>1
<1>8. IsPrefix(v, t)
  BY <1>5, <1>6, <1>7, PrefixIs
<1> QED  BY <1>8 DEF v, c

\* The frames up to f - 1 and some items of frame f are a prefix of the whole air.
LEMMA AirWithIsPrefix ==
  ASSUME NEW p \in Parameters, NEW f \in Frames, NEW k \in Nat,
         k <= PreambleLen + SymbolCount(p, f) + InterFramePadding
  PROVE  IsPrefix(AirWith(p, f, k), AirUpTo(p, NFrames))
<1>1. /\ f - 1 \in 0 .. NFrames /\ f - 1 < NFrames /\ (f - 1) + 1 = f /\ f \in 0 .. NFrames
      /\ NFrames \in f .. NFrames /\ NFrames \in 0 .. NFrames
  BY TxAssumption DEF Frames
<1>2. PICK u \in Seq(AirSet), a \in Seq(AirSet), t \in Seq(AirSet) :
        u = AirUpTo(p, f - 1) /\ a = AirOf(p, f) /\ t = AirUpTo(p, NFrames)
  BY <1>1, AirUpToFacts, AirOfFacts
<1>3. k \in 0 .. Len(a)
  <2>1. Len(a) = PreambleLen + SymbolCount(p, f) + InterFramePadding
    BY <1>2, AirOfFacts
  <2> QED  BY <2>1
<1>4. AirUpTo(p, f) = u \o a
  BY <1>1, <1>2, AirUpToFacts
<1>5. Len(u \o a) <= Len(t) /\ \A j \in 1 .. Len(u \o a) : t[j] = (u \o a)[j]
  <2>1. /\ Len(AirUpTo(p, f)) <= Len(AirUpTo(p, NFrames))
        /\ \A j \in 1 .. Len(AirUpTo(p, f)) : AirUpTo(p, NFrames)[j] = AirUpTo(p, f)[j]
    BY <1>1, AirUpToFacts
  <2> QED  BY <1>2, <1>4, <2>1
<1>6. IsPrefix(u \o SubSeq(a, 1, k), t)
  BY <1>3, <1>5, PartIsPrefix
<1> QED  BY <1>2, <1>6 DEF AirWith

\* On the air every frame has its whole preamble, all symbols of its blocks in order, and
\* its padding before the next frame begins.
THEOREM TxAirIsFrames == Spec => []AirIsFrames
<1>1. IInv => AirIsFrames
  <2> SUFFICES ASSUME IInv PROVE IsPrefix(air, Promised[Given].air)
    BY DEF AirIsFrames
  <2>1. PICK p \in Parameters : p = Given /\ InOrder(p)
    BY DEF IInv
  <2>2. Promised[Given].air = AirUpTo(p, NFrames)
    BY <2>1 DEF Promised
  <2>3. PICK f \in 1 .. NFrames + 1 : f = SymPlaces(p)[1].frame
    <3>1. SymPlaces(p)[1] \in PlacesOf(SymSize(p))
      <4>1. tx_symbols \in Seq(SymbolSet) /\ Ordered(SymPlaces(p), Len(tx_symbols), SymSize(p))
        BY <2>1 DEF InOrder, SymInOrder, IInv, Typed
      <4>2. 1 \in 1 .. Len(tx_symbols) + 1
        BY <4>1
      <4> QED  BY <4>1, <4>2 DEF Ordered
    <3> QED  BY <3>1 DEF PlacesOf
  <2>4. /\ mod_frame_len \in Nat /\ symb_cnt \in 0 .. (mod_frame_len + InterFramePadding)
        /\ preamb_symb_cnt \in 0 .. PreambleLen /\ padd_cnt \in 0 .. InterFramePadding
        /\ NFrames \in Nat /\ NUp \in Nat /\ InterFramePadding \in Nat \ {0} /\ PreambleLen = NUp + 5
    BY TxAssumption, ModAssumption DEF IInv, Typed, TypeOK, PreambleLen
  <2>5. ModCounts(p) /\ AirInOrder(p)
    BY <2>1 DEF InOrder
  <2>6. CASE InFrame
    <3>1. f \in Frames /\ mod_frame_len = SymbolCount(p, f) /\ symb_cnt < mod_frame_len
      BY <2>3, <2>5, <2>6 DEF ModCounts, InFrame
    <3>2. air = AirWith(p, f, preamb_symb_cnt + symb_cnt)
      <4>1. f # 0
        BY <2>4, <3>1 DEF Frames
      <4> QED  BY <2>3, <2>5, <2>6, <4>1 DEF AirInOrder, AirWith
    <3>3. preamb_symb_cnt + symb_cnt \in Nat
          /\ preamb_symb_cnt + symb_cnt <= PreambleLen + SymbolCount(p, f) + InterFramePadding
      BY <2>4, <3>1
    <3> QED  BY <2>2, <3>1, <3>2, <3>3, AirWithIsPrefix
  <2>7. CASE ~InFrame /\ f = 1
    <3>1. air = <<>>
      BY <2>3, <2>5, <2>7 DEF AirInOrder
    <3>2. PICK t \in Seq(AirSet), s \in Seq(AirSet) : t = AirUpTo(p, NFrames) /\ s = <<>>
      <4>1. AirUpTo(p, NFrames) \in Seq(AirSet)
        <5>1. NFrames \in 0 .. NFrames
          BY <2>4
        <5> QED  BY <5>1, AirUpToFacts
      <4>2. <<>> \in Seq(AirSet)
        OBVIOUS
      <4> QED  BY <4>1, <4>2
    <3>3. Len(s) <= Len(t) /\ \A k \in 1 .. Len(s) : s[k] = t[k]
      BY <3>2
    <3>4. IsPrefix(s, t)
      BY <3>3, PrefixIs
    <3> QED  BY <2>2, <3>1, <3>2, <3>4
  <2>8. CASE ~InFrame /\ f # 1
    <3>1. f - 1 \in Frames /\ f - 1 # 0
      BY <2>4, <2>8 DEF Frames
    <3>2. mod_frame_len = SymbolCount(p, f - 1) /\ symb_cnt = mod_frame_len + padd_cnt
      BY <2>3, <2>5, <2>8 DEF ModCounts
    <3>3. air = AirWith(p, f - 1, preamb_symb_cnt + symb_cnt)
      BY <2>3, <2>5, <2>8, <3>1 DEF AirInOrder, AirWith
    <3>4. preamb_symb_cnt + symb_cnt \in Nat
          /\ preamb_symb_cnt + symb_cnt <= PreambleLen + SymbolCount(p, f - 1) + InterFramePadding
      BY <2>4, <3>2
    <3> QED  BY <2>2, <3>1, <3>3, <3>4, AirWithIsPrefix
  <2> QED  BY <2>6, <2>7, <2>8
<1> QED  BY <1>1, TxPathInvariant, PTL
=============================================================================
