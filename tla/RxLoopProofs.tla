---------------------------- MODULE RxLoopProofs ----------------------------
(***************************************************************************)
(* Proofs about RxLoop for every spreading factor, every set of headers    *)
(* with a payload block, every capacity of the links: first what follows   *)
(* from its inductive invariant, which says where the symbols of which     *)
(* frame are; then, in the second half, that the loop delivers.            *)
(***************************************************************************)
EXTENDS RxLoopInv, TLAPS

----------------------------------------------------------------------------
(***************************************************************************)
(* Arithmetic of frame lengths.                                            *)
(***************************************************************************)

\* Rounding up: a positive number of nibbles needs at least one block.
LEMMA CeilDivPositive ==
  ASSUME NEW x \in Nat, x > 0
  PROVE  CeilDiv(x, SF) \in Nat /\ CeilDiv(x, SF) >= 1
<1>1. SF \in 7 .. 12
  BY LinkAssumption
<1>2. CASE SF = 7   BY <1>2 DEF CeilDiv
<1>3. CASE SF = 8   BY <1>3 DEF CeilDiv
<1>4. CASE SF = 9   BY <1>4 DEF CeilDiv
<1>5. CASE SF = 10  BY <1>5 DEF CeilDiv
<1>6. CASE SF = 11  BY <1>6 DEF CeilDiv
<1>7. CASE SF = 12  BY <1>7 DEF CeilDiv
<1> QED  BY <1>1, <1>2, <1>3, <1>4, <1>5, <1>6, <1>7

\* The count of symbols that frame_info_handler computes is the header block
\* and a positive number of whole payload blocks.
LEMMA SymbNumbWhole ==
  ASSUME NEW impl \in ImplicitModes, NEW h \in Headers
  PROVE  /\ SymbNumb(impl, h) \in Nat
         /\ h.cr \in 0 .. 4
         /\ \E k \in 1 .. SymbNumb(impl, h) : SymbNumb(impl, h) = 8 + k * (4 + h.cr)
<1> DEFINE p == PayloadNibbles(impl, h)
<1>1. SF \in 7 .. 12 /\ h.cr \in 0 .. 4 /\ h.pay_len \in 0 .. 255 /\ h.crc \in {0, 1}
  BY LinkAssumption
<1>2. p \in Nat /\ p > 0 /\ p < 1024
  <2>1. p > 0  BY PayloadAssumption
  <2>2. PICK e \in {0, 5} : p = 2 * h.pay_len - SF + 2 + e + 4 * h.crc
    BY DEF PayloadNibbles
  <2>3. h.pay_len \in Int /\ h.crc \in Int /\ e \in Int /\ SF \in Int
    BY <1>1
  <2>4. h.pay_len <= 255 /\ h.crc <= 1 /\ e <= 5 /\ SF >= 7
    BY <1>1
  <2>5. p \in Int /\ p < 1024
    BY <2>2, <2>3, <2>4
  <2> QED  BY <2>1, <2>5
<1>3. p % UIntRange = p
  BY <1>2, SyncAssumption
<1>4. PICK k \in Nat : k >= 1 /\ k = CeilDiv(p % UIntRange, SF)
  BY <1>2, <1>3, CeilDivPositive
<1>5. SymbNumb(impl, h) = 8 + k * (4 + h.cr)
  BY <1>4 DEF SymbNumb
<1>6. 8 + k * (4 + h.cr) \in Nat /\ k <= 8 + k * (4 + h.cr)
  <2>1. h.cr \in {0, 1, 2, 3, 4}  BY <1>1
  <2> QED  BY <1>4, <2>1
<1> QED  BY <1>1, <1>4, <1>5, <1>6

\* A remainder smaller than the block that makes up a multiple of it is 0.
LEMMA BlockRemainder ==
  ASSUME NEW cr \in 0 .. 4, NEW q \in Nat, NEW k \in Nat, NEW l \in Nat,
         l < 4 + cr, q * (4 + cr) + l = k * (4 + cr)
  PROVE  l = 0 /\ q = k
<1>1. cr \in {0, 1, 2, 3, 4}  OBVIOUS
<1>2. CASE cr = 0  BY <1>2
<1>3. CASE cr = 1  BY <1>3
<1>4. CASE cr = 2  BY <1>4
<1>5. CASE cr = 3  BY <1>5
<1>6. CASE cr = 4  BY <1>6
<1> QED  BY <1>1, <1>2, <1>3, <1>4, <1>5, <1>6

LEMMA ShortestFrame ==
  ASSUME NEW cr \in 0 .. 4, NEW s \in Nat, \E k \in 1 .. s : s = 8 + k * (4 + cr)
  PROVE  s >= 12
<1>1. cr \in {0, 1, 2, 3, 4}  OBVIOUS
<1> QED  BY <1>1

\* Facts about sequences that the provers need a hint for.
LEMMA TailFacts ==
  ASSUME NEW S, NEW s \in Seq(S), s # <<>>
  PROVE  /\ Tail(s) \in Seq(S)
         /\ Len(Tail(s)) = Len(s) - 1
         /\ \A i \in 1 .. Len(Tail(s)) : Tail(s)[i] = s[i + 1]
         /\ Head(s) = s[1] /\ s[1] \in S
         /\ Len(s) \in Nat /\ Len(s) >= 1
  OBVIOUS

LEMMA AppendFacts ==
  ASSUME NEW S, NEW s \in Seq(S), NEW x \in S
  PROVE  /\ Append(s, x) \in Seq(S)
         /\ Len(Append(s, x)) = Len(s) + 1
         /\ Append(s, x) # <<>>
         /\ \A i \in 1 .. Len(s) : Append(s, x)[i] = s[i]
         /\ Append(s, x)[Len(s) + 1] = x
         /\ Len(s) \in Nat
  OBVIOUS

LEMMA SuffixFacts ==
  ASSUME NEW S, NEW s \in Seq(S), NEW n \in 1 .. Len(s)
  PROVE  /\ SubSeq(s, n + 1, Len(s)) \in Seq(S)
         /\ Len(SubSeq(s, n + 1, Len(s))) = Len(s) - n
         /\ \A i \in 1 .. (Len(s) - n) : SubSeq(s, n + 1, Len(s))[i] = s[n + i]
  OBVIOUS
----------------------------------------------------------------------------
(***************************************************************************)
(* Types.  One lemma per block.                                            *)
(***************************************************************************)

\* What the provers need to know of the constants.
LEMMA ConstantTypes ==
  /\ NumberOfBins \in Int /\ NumberOfBins > 0
  /\ NumberOfBins \div 2 \in Int /\ NumberOfBins \div 4 \in Int
  /\ NUp - 1 \in Nat /\ NUp - 1 > 0
  /\ SyncWord1 \in Int /\ SyncWord2 \in Int
  /\ \A bin \in Bins : bin \in Int
  /\ UIntRange \in Nat /\ UIntRange > 0
  /\ FrameIds \in Nat /\ FrameIds > 0
  /\ SF \in Int /\ SF - 2 \in Int
BY SyncAssumption, LinkAssumption

LEMMA TagTypes ==
  /\ HeaderTag \in FrameInfoTags
  /\ \A cr \in 0 .. 4 : PayloadTag(cr) \in FrameInfoTags
  /\ \A tag \in FrameInfoTags : tag.is_header \in BOOLEAN /\ tag.cr \in 0 .. 4
<1>1. HeaderTag \in FrameInfoTags
  BY DEF FrameInfoTags
<1>2. \A cr \in 0 .. 4 : PayloadTag(cr) \in FrameInfoTags
  BY DEF FrameInfoTags
<1>3. HeaderTag.is_header = TRUE /\ HeaderTag.cr = 0
  BY DEF HeaderTag
<1>4. \A cr : PayloadTag(cr).is_header = FALSE /\ PayloadTag(cr).cr = cr
  BY DEF PayloadTag
<1>5. ASSUME NEW tag \in FrameInfoTags
      PROVE  tag.is_header \in BOOLEAN /\ tag.cr \in 0 .. 4
  <2>1. CASE tag = HeaderTag
    <3>1. tag.is_header \in BOOLEAN  BY <2>1, <1>3, Zenon
    <3>2. tag.cr \in 0 .. 4          BY <2>1, <1>3
    <3> QED  BY <3>1, <3>2
  <2>2. CASE \E cr \in 0 .. 4 : tag = PayloadTag(cr)
    BY <2>2, <1>4
  <2> QED  BY <1>5, <2>1, <2>2 DEF FrameInfoTags
<1> QED  BY <1>1, <1>2, <1>5

(***************************************************************************)
(* frame_sync searching for a frame.                                       *)
(***************************************************************************)
LEMMA SearchTypes ==
  ASSUME LinksTypeOK, SyncTypeOK, NEW bin \in Bins, NEW down \in Bins,
         SearchWindow(bin, down)
  PROVE  LinksTypeOK' /\ SyncTypeOK'
<1> USE DEF LinksTypeOK, SyncTypeOK, links, infoVars, Restart
<1>1. bin \in Int /\ down \in Int
  BY ConstantTypes
<1>2. RunSum(bin) \in Int
  BY <1>1 DEF RunSum
<1>3. CASE DetectUpchirp(bin)
  BY <1>1, <1>2, <1>3, ConstantTypes DEF DetectUpchirp
<1>4. CASE DetectPreamble(bin)
  <2>1. RunSum(bin) % UIntRange \in Int
    BY <1>2, ConstantTypes
  <2>2. (RunSum(bin) % UIntRange) \div (NUp - 1) \in Int
    BY <2>1, ConstantTypes
  <2>3. k_hat' \in Int /\ items_to_consume' \in Int
    BY <1>4, <2>2, ConstantTypes DEF DetectPreamble
  <2> QED  BY <1>1, <1>4, <2>3 DEF DetectPreamble, NET_ID1
<1>5. CASE DetectOther(bin)
  BY <1>1, <1>5, ConstantTypes DEF DetectOther
<1>6. CASE NetId1(bin)
  <2>1. bin - SyncWord1 \in Int
    BY <1>1, ConstantTypes
  <2>2. UNCHANGED links
    BY <1>6 DEF NetId1, WrongNetId
  <2>3. symbol_cnt' \in Nat /\ k_hat' \in Int /\ net_id_off' \in Int
        /\ m_state' \in {"DETECT", "SYNC"}
    BY <1>1, <1>6, <2>1, SMTT(60) DEF NetId1, SyncWindow, WrongNetId, NET_ID2
  <2>4. items_to_consume' \in Int
    BY <1>6, ConstantTypes DEF NetId1, WrongNetId
  <2>5. UNCHANGED <<infoVars, frame, down_val>> /\ cfo_sto_est' = TRUE /\ bin_idx' = bin
    BY <1>6 DEF NetId1, SyncWindow, WrongNetId
  <2> QED  BY <1>1, <2>2, <2>3, <2>4, <2>5
<1>7. CASE NetId2(bin)
  <2>1. UNCHANGED links
    BY <1>7 DEF NetId2, WrongNetId
  <2>2. symbol_cnt' \in Nat /\ k_hat' \in Int /\ m_state' \in {"DETECT", "SYNC"}
    BY <1>7 DEF NetId2, SyncWindow, WrongNetId, DOWNCHIRP1
  <2>3. items_to_consume' \in Int
    BY <1>7, ConstantTypes DEF NetId2, WrongNetId
  <2>4. UNCHANGED <<infoVars, frame, down_val, net_id_off>> /\ cfo_sto_est' = TRUE
        /\ bin_idx' = bin
    BY <1>7 DEF NetId2, SyncWindow, WrongNetId
  <2> QED  BY <1>1, <2>1, <2>2, <2>3, <2>4
<1>8. CASE Downchirp1(bin)
  BY <1>1, <1>8, ConstantTypes DEF Downchirp1, SyncWindow, DOWNCHIRP2
<1>9. CASE Downchirp2(bin, down)
  BY <1>1, <1>9, ConstantTypes DEF Downchirp2, SyncWindow, QUARTER_DOWN
<1>10. CASE QuarterDown(bin)
  <2>1. CFOint \in Int
    BY ConstantTypes DEF CFOint
  <2>2. sync_tags' \in Tags
    BY <1>10, TagTypes DEF QuarterDown, Tags
  <2>3. frame' \in 0 .. FrameIds - 1
    BY <1>10, ConstantTypes DEF QuarterDown
  <2>4. items_to_consume' \in Int
    BY <1>10, <2>1, ConstantTypes DEF QuarterDown
  <2> QED  BY <1>1, <1>10, <2>2, <2>3, <2>4 DEF QuarterDown, SyncWindow
<1> QED  BY <1>3, <1>4, <1>5, <1>6, <1>7, <1>8, <1>9, <1>10 DEF SearchWindow

\* frame_sync passing the symbols of a frame on.
LEMMA PassingOnTypes ==
  ASSUME LinksTypeOK, SyncTypeOK, OutputSymbol \/ WaitForHeader \/ EndOfFrame
  PROVE  LinksTypeOK' /\ SyncTypeOK'
<1> USE DEF LinksTypeOK, SyncTypeOK, links, infoVars, signalVars
<1>1. CASE OutputSymbol
  <2>1. [frame |-> frame, idx |-> symbol_cnt, tags |-> sync_tags]
          \in [frame : 0 .. FrameIds - 1, idx : Nat, tags : Tags]
    OBVIOUS
  <2>2. symbols' \in Seq([frame : 0 .. FrameIds - 1, idx : Nat, tags : Tags])
    BY <1>1, <2>1, AppendFacts DEF OutputSymbol
  <2>3. sync_tags' \in Tags
    BY <1>1 DEF OutputSymbol, Tags
  <2>4. LinksTypeOK'
    BY <1>1, <2>2, <2>3 DEF OutputSymbol
  <2> QED  BY <1>1, <2>4, ConstantTypes DEF OutputSymbol
<1>2. CASE WaitForHeader
  BY <1>2 DEF WaitForHeader
<1>3. CASE EndOfFrame
  BY <1>3, ConstantTypes DEF EndOfFrame, Restart
<1> QED  BY <1>1, <1>2, <1>3

\* frame_info_handler.
LEMMA HandlerTypes ==
  ASSUME LinksTypeOK, SyncTypeOK, FrameInfoHandler
  PROVE  LinksTypeOK' /\ SyncTypeOK'
<1> USE DEF LinksTypeOK, SyncTypeOK, infoVars
<1> DEFINE Messages == [header : Headers, err : BOOLEAN, of : 0 .. FrameIds - 1]
<1>1. /\ Head(frame_info) \in Messages
      /\ frame_info' \in Seq(Messages)
  BY TailFacts, ZenonT(60) DEF FrameInfoHandler
<1>2. CASE Head(frame_info).err
  BY <1>1, <1>2, SMTT(60) DEF FrameInfoHandler, Restart
<1>3. CASE ~Head(frame_info).err
  <2>1. m_symb_numb' \in Nat /\ symb_cr' \in 0 .. 4
    BY <1>1, <1>3, SymbNumbWhole DEF FrameInfoHandler
  <2>2. PayloadTag(symb_cr') \in FrameInfoTags
    BY <2>1, TagTypes
  <2>3. sync_tags' = Append(sync_tags, PayloadTag(symb_cr'))
    BY <1>3 DEF FrameInfoHandler
  <2>4. sync_tags' \in Tags
    BY <2>2, <2>3, AppendFacts DEF Tags
  <2>5. LinksTypeOK'
    BY <1>1, <1>3, <2>4 DEF FrameInfoHandler
  <2> QED  BY <1>1, <1>3, <2>1, <2>5 DEF FrameInfoHandler
<1> QED  BY <1>2, <1>3
\* The symbol that fft_demod reads and what it makes of its first tag.
LEMMA DemodItem ==
  ASSUME LinksTypeOK, DemodTypeOK, FftDemodWork
  PROVE  LET item == Head(symbols) IN
         /\ symbols # <<>> /\ item = symbols[1]
         /\ item \in [frame : 0 .. FrameIds - 1, idx : Nat, tags : Tags]
         /\ IsTagged(item) => FirstTag(item) \in FrameInfoTags
         /\ is_header' \in BOOLEAN /\ demod_cr' \in 0 .. 4
         /\ Collected(item) \in Seq(Symbols) \ {<<>>}
         /\ TagsPending(item) \in Tags
<1> USE DEF LinksTypeOK, DemodTypeOK
<1> DEFINE item == Head(symbols)
<1>1. symbols # <<>> /\ item = symbols[1]
      /\ item \in [frame : 0 .. FrameIds - 1, idx : Nat, tags : Tags]
  BY TailFacts DEF FftDemodWork
<1>2. IsTagged(item) => FirstTag(item) \in FrameInfoTags
  BY <1>1, TailFacts DEF IsTagged, FirstTag, Tags
<1>3. is_header' \in BOOLEAN /\ demod_cr' \in 0 .. 4
  <2>1. ReadTag(item)
    BY DEF FftDemodWork
  <2>2. CASE IsTagged(item)
    <3>1. FirstTag(item).is_header \in BOOLEAN /\ FirstTag(item).cr \in 0 .. 4
      BY <1>2, <2>2, TagTypes
    <3>2. is_header' = FirstTag(item).is_header
      BY <2>1, <2>2 DEF ReadTag
    <3>3. demod_cr' \in {demod_cr, FirstTag(item).cr}
      BY <2>1, <2>2 DEF ReadTag
    <3>4. is_header' \in BOOLEAN
      BY <3>1, <3>2
    <3> QED  BY <3>1, <3>3, <3>4
  <2>3. CASE ~IsTagged(item)
    BY <2>1, <2>3 DEF ReadTag
  <2> QED  BY <2>2, <2>3
<1>4. Collected(item) \in Seq(Symbols) \ {<<>>}
  <2> DEFINE symbol == [frame |-> item.frame, idx |-> item.idx]
             block == IF OpensHeader(item) THEN <<>> ELSE output
  <2>1. symbol \in Symbols
    BY <1>1 DEF Symbols
  <2>2. block \in Seq(Symbols)
    OBVIOUS
  <2>3. Append(block, symbol) \in Seq(Symbols) \ {<<>>}
    <3> HIDE DEF symbol, block
    <3> QED  BY <2>1, <2>2, AppendFacts
  <2> QED  BY <2>3 DEF Collected
<1>5. TagsPending(item) \in Tags
  BY <1>2, AppendFacts DEF TagsPending, Tags
<1> QED  BY <1>1, <1>2, <1>3, <1>4, <1>5

LEMMA DemodTypes ==
  ASSUME LinksTypeOK, DemodTypeOK, FftDemodWork
  PROVE  LinksTypeOK' /\ DemodTypeOK'
<1> DEFINE item == Head(symbols)
           Blocks == [tags : Tags, syms : Seq(Symbols) \ {<<>>}]
<1>1. symbols' \in Seq([frame : 0 .. FrameIds - 1, idx : Nat, tags : Tags])
  BY TailFacts DEF FftDemodWork, LinksTypeOK
<1>2. [tags |-> TagsPending(item), syms |-> Collected(item)] \in Blocks
  BY DemodItem
<1>3. codewords' \in Seq(Blocks)
  <2> DEFINE block == [tags |-> TagsPending(item), syms |-> Collected(item)]
  <2>1. codewords' = Append(codewords, block) \/ codewords' = codewords
    BY DEF FftDemodWork
  <2>2. codewords \in Seq(Blocks) /\ block \in Blocks
    BY <1>2 DEF LinksTypeOK
  <2> HIDE DEF block, Blocks
  <2> QED  BY <2>1, <2>2, AppendFacts
<1>4. LinksTypeOK'
  BY <1>1, <1>3 DEF FftDemodWork, LinksTypeOK
<1>5. <<>> \in Tags /\ <<>> \in Seq(Symbols)
  BY DEF Tags
<1>6. output' \in Seq(Symbols) /\ demod_tags' \in Tags
  BY <1>5, DemodItem DEF FftDemodWork
<1> QED  BY <1>4, <1>6, DemodItem DEF DemodTypeOK

LEMMA WindowTypes ==
  ASSUME LinksTypeOK, HeaderTypeOK, NEW n \in 1 .. Len(codewords)
  PROVE  /\ codewords[1].syms[1].frame \in 0 .. FrameIds - 1
         /\ SubSeq(codewords, n + 1, Len(codewords))
              \in Seq([tags : Tags, syms : Seq(Symbols) \ {<<>>}])
         /\ Nibbles(n) \in Nat /\ Nibbles(n) >= header_len
         /\ CountNow \in Nat
<1>1. codewords # <<>> /\ codewords[1] \in [tags : Tags, syms : Seq(Symbols) \ {<<>>}]
  <2>1. codewords \in Seq([tags : Tags, syms : Seq(Symbols) \ {<<>>}]) /\ codewords # <<>>
    BY DEF LinksTypeOK
  <2> QED  BY <2>1, TailFacts
<1>2. codewords[1].syms[1] \in Symbols
  BY <1>1, TailFacts
<1>3. codewords[1].syms[1].frame \in 0 .. FrameIds - 1
  BY <1>2 DEF Symbols
<1>4. SubSeq(codewords, n + 1, Len(codewords))
        \in Seq([tags : Tags, syms : Seq(Symbols) \ {<<>>}])
  BY SuffixFacts DEF LinksTypeOK
<1>5. SfApp(ModeNow) \in 5 .. 12 /\ n \in Nat /\ n >= 1
  BY LinkAssumption DEF SfApp, LinksTypeOK
<1>6. Nibbles(n) \in Nat /\ Nibbles(n) >= header_len
  <2>1. PICK m \in 5 .. 12 : Nibbles(n) = n * m
    BY <1>5 DEF Nibbles
  <2>2. m \in {5, 6, 7, 8, 9, 10, 11, 12}
    BY <2>1
  <2>3. n * m \in Nat /\ n * m >= 5
    BY <1>5, <2>2
  <2> QED  BY <2>1, <2>3 DEF header_len
<1>7. CountNow \in Nat
  BY DEF CountNow, HeaderTypeOK
<1> QED  BY <1>3, <1>4, <1>6, <1>7

LEMMA BoundedTypes ==
  ASSUME NEW n \in Nat, NEW cnt \in Nat, NEW h \in Headers
  PROVE  Bounded(n, cnt, h) \in Nat
<1>1. h.pay_len \in Int /\ h.crc \in Int
  BY LinkAssumption
<1>2. FrameNibbles(h) \in Int
  BY <1>1 DEF FrameNibbles
<1> QED  BY <1>2 DEF Bounded

LEMMA HeaderTypes ==
  ASSUME LinksTypeOK, HeaderTypeOK, HeaderBlock \/ PayloadBlocks
  PROVE  LinksTypeOK' /\ HeaderTypeOK'
<1> DEFINE Messages == [header : Headers, err : BOOLEAN, of : 0 .. FrameIds - 1]
<1> USE DEF LinksTypeOK, HeaderTypeOK
<1>1. CASE HeaderBlock
  <2>1. PICK n \in 1 .. Len(codewords) :
          /\ header_mode' = TRUE
          /\ ImplicitHeader(n) \/ \E h \in Headers, err \in BOOLEAN : ExplicitHeader(n, h, err)
          /\ Consume(n)
          /\ UNCHANGED <<m_impl_head, symbols, sync_tags>>
    BY <1>1 DEF HeaderBlock
  <2>2. \A h \in Headers, err \in BOOLEAN : Message(h, err) \in Messages
    BY WindowTypes DEF Message
  <2>3. CASE ImplicitHeader(n)
    <3>1. frame_info' \in Seq(Messages)
      BY <2>2, <2>3, AppendFacts DEF ImplicitHeader
    <3>2. Bounded(Nibbles(n), CountNow, header) \in Nat
      BY WindowTypes, BoundedTypes
    <3>3. pay_cnt' \in Nat
      <4>1. pay_cnt' = CountNow + Bounded(Nibbles(n), CountNow, header)
        BY <2>3 DEF ImplicitHeader
      <4>2. CountNow \in Nat
        BY WindowTypes
      <4> QED  BY <3>2, <4>1, <4>2
    <3> QED  BY <2>1, <2>3, <3>1, <3>3, WindowTypes DEF ImplicitHeader, Consume
  <2>4. CASE \E h \in Headers, err \in BOOLEAN : ExplicitHeader(n, h, err)
    <3>1. PICK h \in Headers, err \in BOOLEAN : ExplicitHeader(n, h, err)
      BY <2>4
    <3>2. frame_info' \in Seq(Messages)
      BY <2>2, <3>1, AppendFacts DEF ExplicitHeader
    <3>3. pay_cnt' \in Nat
      <4>1. pay_cnt' = CountNow + (Nibbles(n) - header_len)
        BY <3>1 DEF ExplicitHeader
      <4>2. CountNow \in Nat /\ Nibbles(n) \in Nat /\ Nibbles(n) >= header_len
        BY WindowTypes
      <4> QED  BY <4>1, <4>2 DEF header_len
    <3> QED  BY <2>1, <3>1, <3>2, <3>3, WindowTypes DEF ExplicitHeader, Consume
  <2> QED  BY <2>1, <2>3, <2>4
<1>2. CASE PayloadBlocks
  <2>1. PICK n \in 1 .. Len(codewords) :
          /\ header_mode' = FALSE
          /\ pay_cnt' = CountNow + Bounded(Nibbles(n), CountNow, header)
          /\ Consume(n)
    BY <1>2 DEF PayloadBlocks
  <2>2. Bounded(Nibbles(n), CountNow, header) \in Nat
    BY WindowTypes, BoundedTypes
  <2>3. CountNow \in Nat
    BY WindowTypes
  <2>4. pay_cnt' \in Nat
    BY <2>1, <2>2, <2>3
  <2> QED  BY <1>2, <2>1, <2>4, WindowTypes DEF PayloadBlocks, Consume
<1> QED  BY <1>1, <1>2

LEMMA TypeInit == Init => TypeOK
<1> SUFFICES ASSUME Init PROVE TypeOK
  OBVIOUS
<1>1. <<>> \in Tags
  BY DEF Tags
<1>2. LinksTypeOK
  BY <1>1 DEF Init, LinksInit, LinksTypeOK
<1>3. SyncTypeOK
  BY ConstantTypes DEF Init, SyncInit, SyncTypeOK
<1>4. DemodTypeOK
  BY <1>1 DEF Init, DemodInit, DemodTypeOK
<1>5. HeaderTypeOK
  BY DEF Init, HeaderInit, HeaderTypeOK
<1> QED  BY <1>2, <1>3, <1>4, <1>5 DEF TypeOK

LEMMA TypeNext == TypeOK /\ [Next]_vars => TypeOK'
<1> SUFFICES ASSUME TypeOK, [Next]_vars PROVE TypeOK'
  OBVIOUS
<1> USE DEF TypeOK
<1>1. CASE SyncStep
  <2>1. LinksTypeOK' /\ SyncTypeOK'
    BY <1>1, SearchTypes, PassingOnTypes DEF SyncStep, FrameSyncWork
  <2> QED  BY <1>1, <2>1 DEF SyncStep, demodVars, headerVars, DemodTypeOK, HeaderTypeOK
<1>2. CASE HandlerStep
  BY <1>2, HandlerTypes
  DEF HandlerStep, demodVars, headerVars, DemodTypeOK, HeaderTypeOK
<1>3. CASE DemodStep
  BY <1>3, DemodTypes DEF DemodStep, syncVars, headerVars, SyncTypeOK, HeaderTypeOK
<1>4. CASE HeaderStep
  BY <1>4, HeaderTypes DEF HeaderStep, syncVars, demodVars, SyncTypeOK, DemodTypeOK
<1>5. CASE UNCHANGED vars
  BY <1>5 DEF vars, links, syncVars, demodVars, headerVars,
              LinksTypeOK, SyncTypeOK, DemodTypeOK, HeaderTypeOK
<1> QED  BY <1>1, <1>2, <1>3, <1>4, <1>5 DEF Next

\* Every variable of every block keeps its type in every reachable state.
THEOREM TypeCorrect == Spec => []TypeOK
<1> QED  BY TypeInit, TypeNext, PTL DEF Spec

----------------------------------------------------------------------------
(***************************************************************************)
(* The inductive invariant.  IInv without the types is split as in its     *)
(* definition; one lemma per action shows every part.                      *)
(***************************************************************************)

\* What follows from the types and the counters, in every state of IInv.
LEMMA CountingFacts ==
  ASSUME TypeOK, Counting
  PROVE  /\ Len(symbols) \in Nat
         /\ symbol_cnt \in Nat /\ m_symb_numb \in Nat /\ symb_cr \in 0 .. 4
         /\ PayloadIn \in Nat /\ PayloadIn <= Len(symbols)
         /\ HeaderRead \in Int /\ PayloadEnd \in Nat
         /\ HeaderBegun => HeaderRead \in 1 .. 8
         /\ m_symb_numb = 0 \/ m_symb_numb >= 12
         /\ Taking => m_symb_numb >= 12
<1>1. Len(symbols) \in Nat /\ symbol_cnt \in Nat /\ m_symb_numb \in Nat /\ symb_cr \in 0 .. 4
  BY DEF TypeOK, LinksTypeOK, SyncTypeOK
<1>2. m_symb_numb = 0 \/ m_symb_numb >= 12
  BY <1>1, ShortestFrame DEF Counting, WholeFrame
<1> QED  BY <1>1, <1>2 DEF Counting, PayloadIn, PayloadEnd, HeaderRead, HeaderBegun, Asking, Taking

LEMMA InvInit == Init => IInv
<1> SUFFICES ASSUME Init PROVE IInv
  OBVIOUS
<1>1. TypeOK
  BY TypeInit
<1>2. /\ m_state = "DETECT" /\ m_symb_numb = 0
      /\ symbols = <<>> /\ sync_tags = <<>> /\ codewords = <<>> /\ frame_info = <<>>
      /\ output = <<>> /\ demod_tags = <<>>
  BY DEF Init, LinksInit, SyncInit, DemodInit
<1>3. ~Asking /\ ~Taking /\ ~HeaderBegun /\ PayloadIn = 0
  BY <1>2 DEF Asking, Taking, HeaderBegun, PayloadIn
<1>4. Counting /\ TagsToCome /\ SymbolsInOrder
  BY <1>2, <1>3 DEF Counting, TagsToCome, SymbolsInOrder
<1>5. DemodInHeader /\ DemodBeforePayload /\ DemodInPayload
  BY <1>2, <1>3 DEF DemodInHeader, DemodBeforePayload, DemodInPayload
<1>6. HeaderBlockLast /\ HeaderPending /\ AnswerExpected /\ TagAfterHeader
  BY <1>2, <1>3 DEF HeaderBlockLast, HeaderPending, AnswerExpected, TagAfterHeader
<1> QED  BY <1>1, <1>4, <1>5, <1>6 DEF IInv

\* The state of the links and of the blocks behind frame_sync.
behind == <<symbols, codewords, frame_info, demodVars, headerVars>>

\* A step of frame_sync outside a frame, and the step that ends one, leave
\* everything as it is: the last symbol written stays the last.
LEMMA OutsideFrame ==
  ASSUME IInv, TypeOK',
         ~Asking, Taking => symbol_cnt = m_symb_numb,
         m_state' # "FRAC_CFO_CORREC",
         UNCHANGED <<behind, sync_tags, infoVars, frame>>
  PROVE  IInv'
<1> USE DEF IInv, behind, infoVars, demodVars, headerVars
<1>1. ~Asking' /\ ~Taking' /\ ~HeaderBegun /\ ~HeaderBegun'
  BY DEF Asking, Taking, HeaderBegun
<1>2. PayloadIn' = PayloadIn /\ PayloadEnd' = PayloadEnd
  BY <1>1 DEF PayloadIn, PayloadEnd
<1>3. Taking => symbol_cnt # 8
  BY CountingFacts
<1>4. Counting'
  BY <1>1, <1>2 DEF Counting, WholeFrame
<1>5. TagsToCome'
  BY <1>1, <1>3 DEF TagsToCome
<1>6. SymbolsInOrder'
  <2>1. PayloadIn = Len(symbols)
    BY DEF PayloadIn
  <2> QED  BY <1>2, <2>1 DEF SymbolsInOrder, TagsOfIndex
<1>7. DemodInHeader' /\ DemodBeforePayload' /\ DemodInPayload'
  BY <1>1, <1>2 DEF DemodInHeader, DemodBeforePayload, DemodInPayload
<1>8. HeaderBlockLast' /\ HeaderPending' /\ AnswerExpected' /\ TagAfterHeader'
  BY <1>1 DEF HeaderBlockLast, HeaderPending, AnswerExpected, TagAfterHeader,
              OpensHeader, IsTagged, FirstTag
<1> QED  BY <1>4, <1>5, <1>6, <1>7, <1>8
\* The variables the invariant speaks about.
loopVars == <<behind, sync_tags, infoVars, frame, m_state, symbol_cnt>>

LEMMA SameLoop ==
  ASSUME IInv, TypeOK', UNCHANGED loopVars
  PROVE  IInv'
BY SMTT(60) DEF IInv, loopVars, behind, infoVars, demodVars, headerVars, Counting, WholeFrame,
       TagsToCome, SymbolsInOrder, TagsOfIndex, DemodInHeader, DemodBeforePayload,
       DemodInPayload, HeaderBlockLast, HeaderPending, AnswerExpected, TagAfterHeader,
       Asking, Taking, HeaderBegun, HeaderRead, PayloadIn, PayloadEnd,
       OpensHeader, IsTagged, FirstTag

\* The preamble is complete: the next symbol written opens a header.
LEMMA BeginFrame ==
  ASSUME IInv, TypeOK', NEW bin \in Bins, QuarterDown(bin),
         UNCHANGED <<demodVars, headerVars>>
  PROVE  IInv'
<1> USE DEF IInv, demodVars, headerVars
<1>1. /\ ~Asking /\ ~Taking /\ ~HeaderBegun
      /\ Asking' /\ ~Taking' /\ symbol_cnt' = 0
      /\ UNCHANGED <<symbols, codewords, frame_info, symb_cr, m_symb_numb>>
  BY DEF QuarterDown, SyncWindow, Asking, Taking, HeaderBegun
<1>2. ~HeaderBegun'
  BY <1>1, CountingFacts DEF HeaderBegun
<1>3. PayloadIn' = PayloadIn /\ PayloadEnd' = PayloadEnd /\ PayloadIn = Len(symbols)
  BY <1>1, <1>2, CountingFacts DEF PayloadIn, PayloadEnd
<1>4. Counting'
  BY <1>1, <1>3 DEF Counting, WholeFrame
<1>5. TagsToCome'
  <2>1. sync_tags = <<>>
    BY <1>1 DEF TagsToCome
  <2>2. sync_tags' = <<HeaderTag>>
    BY <2>1 DEF QuarterDown
  <2> QED  BY <1>1, <2>2 DEF TagsToCome
<1>6. SymbolsInOrder'
  BY <1>1, <1>3 DEF SymbolsInOrder, TagsOfIndex
<1>7. DemodInHeader' /\ DemodBeforePayload' /\ DemodInPayload'
  BY <1>1, <1>2, <1>3 DEF DemodInHeader, DemodBeforePayload, DemodInPayload
<1>8. HeaderBlockLast' /\ HeaderPending' /\ AnswerExpected' /\ TagAfterHeader'
  BY <1>1, <1>2 DEF HeaderBlockLast, HeaderPending, AnswerExpected, TagAfterHeader,
                    OpensHeader, IsTagged, FirstTag
<1> QED  BY <1>4, <1>5, <1>6, <1>7, <1>8

\* What frame_sync writes, and what it leaves as it is.
Written == [frame |-> frame, idx |-> symbol_cnt, tags |-> sync_tags]

LEMMA LinkAfterWrite ==
  ASSUME IInv, OutputSymbol
  PROVE  /\ Asking' = Asking /\ Taking' = Taking /\ symbol_cnt' = symbol_cnt + 1
         /\ Asking \/ Taking
         /\ symbols' = Append(symbols, Written)
         /\ UNCHANGED <<codewords, frame_info, symb_cr, m_symb_numb, frame>>
         /\ Asking => symbol_cnt \in 0 .. 7
         /\ Taking => symbol_cnt \in 8 .. m_symb_numb - 1
         /\ Len(symbols') = Len(symbols) + 1
         /\ \A i \in 1 .. Len(symbols) : symbols'[i] = symbols[i]
         /\ symbols'[Len(symbols) + 1] = Written
         /\ HeaderBegun' = HeaderBegun /\ HeaderRead' = HeaderRead
         /\ PayloadIn' = PayloadIn + (IF Taking THEN 1 ELSE 0)
         /\ PayloadEnd' - PayloadIn' = PayloadEnd - PayloadIn
<1> USE DEF IInv
<1>1. /\ Asking' = Asking /\ Taking' = Taking /\ symbol_cnt' = symbol_cnt + 1
      /\ Asking \/ Taking
      /\ symbols' = Append(symbols, Written)
      /\ UNCHANGED <<codewords, frame_info, symb_cr, m_symb_numb, frame>>
  BY DEF OutputSymbol, Asking, Taking, infoVars, Written
<1>2. /\ Asking => symbol_cnt \in 0 .. 7
      /\ Taking => symbol_cnt \in 8 .. m_symb_numb - 1
  BY <1>1, CountingFacts DEF OutputSymbol, MoreSymbols, Counting, Asking, Taking
<1>3. /\ Len(symbols') = Len(symbols) + 1
      /\ \A i \in 1 .. Len(symbols) : symbols'[i] = symbols[i]
      /\ symbols'[Len(symbols) + 1] = Written
  BY <1>1 DEF TypeOK, LinksTypeOK, Written
<1>4. /\ HeaderBegun' = HeaderBegun /\ HeaderRead' = HeaderRead
      /\ PayloadIn' = PayloadIn + (IF Taking THEN 1 ELSE 0)
      /\ PayloadEnd' - PayloadIn' = PayloadEnd - PayloadIn
  BY <1>1, <1>3, CountingFacts
  DEF HeaderBegun, HeaderRead, PayloadIn, PayloadEnd, Asking, Taking
<1> QED  BY <1>1, <1>2, <1>3, <1>4

\* One more symbol of the header or of the payload.
LEMMA PassOn ==
  ASSUME IInv, TypeOK', OutputSymbol, UNCHANGED <<demodVars, headerVars>>
  PROVE  IInv'
<1> USE DEF IInv, demodVars, headerVars
<1> DEFINE symbol == Written
<1>1. /\ Asking' = Asking /\ Taking' = Taking /\ symbol_cnt' = symbol_cnt + 1
      /\ Asking \/ Taking
      /\ symbols' = Append(symbols, symbol)
      /\ UNCHANGED <<codewords, frame_info, symb_cr, m_symb_numb, frame>>
  BY LinkAfterWrite
<1>2. /\ Asking => symbol_cnt \in 0 .. 7
      /\ Taking => symbol_cnt \in 8 .. m_symb_numb - 1
  BY LinkAfterWrite
<1>3. /\ Len(symbols') = Len(symbols) + 1
      /\ \A i \in 1 .. Len(symbols) : symbols'[i] = symbols[i]
      /\ symbols'[Len(symbols) + 1] = symbol
  BY LinkAfterWrite
<1>4. /\ HeaderBegun' = HeaderBegun /\ HeaderRead' = HeaderRead
      /\ PayloadIn' = PayloadIn + (IF Taking THEN 1 ELSE 0)
      /\ PayloadEnd' - PayloadIn' = PayloadEnd - PayloadIn
  BY LinkAfterWrite
<1>5. Counting'
  <2>1. Asking' => symbol_cnt' \in 0 .. 8
    BY <1>1, <1>2
  <2>2. Taking' => symbol_cnt' \in 8 .. m_symb_numb'
    BY <1>1, <1>2, CountingFacts
  <2>3. WholeFrame' = WholeFrame
    BY <1>1 DEF WholeFrame
  <2>4. m_symb_numb' = 0 => ~Taking' /\ PayloadIn' = 0
    BY <1>1, <1>4, CountingFacts DEF Counting
  <2>5. PayloadEnd - PayloadIn >= 8 \/ (Asking /\ PayloadIn = 0)
    BY <1>1, <1>2, CountingFacts DEF Counting, PayloadEnd, Asking, Taking
  <2>6. PayloadIn' > 0 => PayloadEnd' - PayloadIn' >= 8
    BY <1>1, <1>4, <2>5, CountingFacts DEF Asking, Taking
  <2> QED  BY <1>1, <2>1, <2>2, <2>3, <2>4, <2>6 DEF Counting
<1>6. TagsToCome'
  BY <1>1, <1>2, CountingFacts DEF TagsToCome, OutputSymbol, Asking, Taking
<1>7. SymbolsInOrder'
  <2>1. sync_tags = TagsOfIndex(symbol_cnt)
    BY <1>1, <1>2, CountingFacts, SMTT(60) DEF TagsToCome, TagsOfIndex, Asking, Taking
  <2>2. /\ PayloadIn' \in Nat /\ HeaderRead' \in Int /\ PayloadEnd' - PayloadIn' \in Int
        /\ \A i \in 1 .. Len(symbols) : i <= PayloadIn' <=> i <= PayloadIn
    BY <1>1, <1>4, CountingFacts, SMTT(60) DEF PayloadIn, Asking, Taking
  <2>3. ASSUME NEW i \in 1 .. Len(symbols')
        PROVE  /\ symbols'[i].idx = IF i <= PayloadIn' THEN PayloadEnd' - PayloadIn' + i - 1
                                                      ELSE HeaderRead' + i - 1
               /\ symbols'[i].tags = TagsOfIndex(symbols'[i].idx)
               /\ i > PayloadIn' => symbols'[i].frame = frame'
    <3>1. CASE i \in 1 .. Len(symbols)
      <4>1. /\ symbols[i].idx = IF i <= PayloadIn THEN PayloadEnd - PayloadIn + i - 1
                                                  ELSE HeaderRead + i - 1
            /\ symbols[i].tags = TagsOfIndex(symbols[i].idx)
            /\ i > PayloadIn => symbols[i].frame = frame
        BY <3>1 DEF SymbolsInOrder
      <4>2. symbols'[i] = symbols[i] /\ (i <= PayloadIn' <=> i <= PayloadIn)
        BY <1>3, <2>2, <3>1
      <4>3. i > PayloadIn' => i > PayloadIn
        BY <2>2, <4>2, <3>1, CountingFacts
      <4> QED  BY <1>1, <1>4, <4>1, <4>2, <4>3
    <3>2. CASE i = Len(symbols) + 1
      <4>1. symbols'[i] = symbol
        BY <1>3, <3>2
      <4>2. symbol.idx = symbol_cnt /\ symbol.tags = TagsOfIndex(symbol_cnt)
            /\ symbol.frame = frame'
        BY <1>1, <2>1 DEF Written
      <4>3. CASE Asking
        <5>1. i > PayloadIn' /\ HeaderRead + i - 1 = symbol_cnt
          BY <1>1, <1>4, <3>2, <4>3, CountingFacts, SMTT(60) DEF HeaderRead, Asking, Taking
        <5> HIDE DEF symbol
        <5> QED  BY <1>4, <4>1, <4>2, <5>1, <2>2
      <4>4. CASE Taking
        <5>1. i <= PayloadIn' /\ PayloadEnd - PayloadIn + i - 1 = symbol_cnt
          BY <1>1, <1>4, <3>2, <4>4, CountingFacts DEF PayloadIn, PayloadEnd, Asking, Taking
        <5> HIDE DEF symbol
        <5> QED  BY <1>4, <4>1, <4>2, <5>1, <2>2
      <4> QED  BY <1>1, <4>3, <4>4
    <3> QED  BY <1>3, <3>1, <3>2, CountingFacts
  <2> QED  BY <1>1, <2>3 DEF SymbolsInOrder, TagsOfIndex
<1>8. DemodInHeader' /\ DemodBeforePayload' /\ DemodInPayload'
  BY <1>1, <1>4, CountingFacts
  DEF DemodInHeader, DemodBeforePayload, DemodInPayload, PayloadIn, Asking, Taking
<1>9. HeaderBlockLast' /\ HeaderPending' /\ AnswerExpected' /\ TagAfterHeader'
  BY <1>1, <1>4 DEF HeaderBlockLast, HeaderPending, AnswerExpected, TagAfterHeader,
                    OpensHeader, IsTagged, FirstTag
<1> QED  BY <1>5, <1>6, <1>7, <1>8, <1>9
\* An answer waiting for frame_sync: nothing else is on its way.
LEMMA AnswerState ==
  ASSUME IInv, frame_info # <<>>
  PROVE  /\ Asking /\ HeaderBegun /\ HeaderRead = 8 /\ symbol_cnt = 8
         /\ symbols = <<>> /\ codewords = <<>> /\ sync_tags = <<>>
         /\ Len(frame_info) = 1 /\ frame_info[1].of = frame
         /\ is_header /\ output = <<>> /\ demod_tags = <<>>
<1> USE DEF IInv
<1>1. HeaderBegun /\ HeaderRead = 8 /\ codewords = <<>>
  BY DEF AnswerExpected
<1>2. Asking /\ symbol_cnt \in 0 .. 8
  BY <1>1 DEF HeaderBegun, Counting
<1>3. symbol_cnt = 8 /\ Len(symbols) = 0
  BY <1>1, <1>2, CountingFacts DEF HeaderRead
<1>4. symbols = <<>>
  BY <1>3 DEF TypeOK, LinksTypeOK
<1>5. sync_tags = <<>>
  BY <1>2, <1>3 DEF TagsToCome, Asking, Taking
<1>6. Len(frame_info) = 1 /\ frame_info[1].of = frame
  BY <1>1 DEF HeaderPending
<1>7. is_header /\ output = <<>> /\ demod_tags = <<>>
  BY <1>1 DEF DemodInHeader
<1> QED  BY <1>1, <1>2, <1>3, <1>4, <1>5, <1>6, <1>7

LEMMA ReadAnswer ==
  ASSUME IInv, TypeOK', FrameInfoHandler, UNCHANGED <<demodVars, headerVars>>
  PROVE  IInv'
<1> USE DEF IInv, demodVars, headerVars
<1> DEFINE msg == Head(frame_info)
<1>1. frame_info # <<>> /\ UNCHANGED <<symbols, codewords, frame, m_impl_head>>
  BY DEF FrameInfoHandler
<1>2. frame_info' = <<>> /\ symbols' = <<>> /\ codewords' = <<>>
  BY <1>1, AnswerState DEF FrameInfoHandler, TypeOK, LinksTypeOK
<1>3. is_header' /\ output' = <<>> /\ demod_tags' = <<>>
  BY <1>1, AnswerState
<1>4. HeaderBlockLast' /\ HeaderPending' /\ AnswerExpected' /\ TagAfterHeader' /\ SymbolsInOrder'
      /\ DemodInHeader' /\ DemodInPayload' /\ Counting' /\ DemodBeforePayload' /\ TagsToCome'
  <2>1. CASE msg.err
    <3>1. ~Asking' /\ ~Taking' /\ ~HeaderBegun'
      BY <2>1 DEF FrameInfoHandler, Restart, Asking, Taking, HeaderBegun
    <3>2. PayloadIn' = 0 /\ UNCHANGED <<symb_cr, m_symb_numb>> /\ sync_tags' = <<>>
      BY <1>1, <1>2, <2>1, <3>1, AnswerState DEF FrameInfoHandler, PayloadIn, infoVars
    <3> QED  BY <1>2, <1>3, <3>1, <3>2
             DEF HeaderBlockLast, HeaderPending, AnswerExpected, TagAfterHeader, SymbolsInOrder,
                 DemodInHeader, DemodInPayload, Counting, WholeFrame, DemodBeforePayload, TagsToCome
  <2>2. CASE ~msg.err
    <3>1. m_impl_head \in ImplicitModes /\ msg.header \in Headers
      <4>1. LinksTypeOK
        BY DEF TypeOK
      <4>2. msg \in [header : Headers, err : BOOLEAN, of : 0 .. FrameIds - 1]
        BY <1>1, <4>1, TailFacts DEF LinksTypeOK
      <4> QED  BY <4>1, <4>2 DEF LinksTypeOK
    <3>2. m_symb_numb' = SymbNumb(m_impl_head, msg.header) /\ symb_cr' = msg.header.cr
      BY <2>2 DEF FrameInfoHandler
    <3>3. WholeFrame' /\ m_symb_numb' \in Nat
      BY <3>1, <3>2, SymbNumbWhole DEF WholeFrame
    <3>4. /\ Taking' /\ ~Asking' /\ ~HeaderBegun'
          /\ symbol_cnt' = 8
      BY <1>1, <2>2, AnswerState DEF FrameInfoHandler, Asking, Taking, HeaderBegun
    <3>5. PayloadIn' = 0 /\ PayloadEnd' = 8
      BY <1>2, <3>4 DEF PayloadIn, PayloadEnd
    <3>6. m_symb_numb' >= 12
      BY <3>1, <3>2, <3>3, SymbNumbWhole, ShortestFrame DEF WholeFrame
    <3>7. Counting'
      BY <3>3, <3>4, <3>5, <3>6 DEF Counting
    <3>8. TagsToCome'
      <4>1. sync_tags' = <<PayloadTag(symb_cr')>>
        BY <1>1, <2>2, <3>2, AnswerState DEF FrameInfoHandler
      <4> QED  BY <3>4, <4>1 DEF TagsToCome
    <3>9. DemodBeforePayload'
      BY <1>3, <3>4, <3>5 DEF DemodBeforePayload
    <3> QED  BY <1>2, <1>3, <3>4, <3>7, <3>8, <3>9
             DEF HeaderBlockLast, HeaderPending, AnswerExpected, TagAfterHeader, SymbolsInOrder,
                 DemodInHeader, DemodInPayload
  <2> QED  BY <2>1, <2>2
<1> QED  BY <1>4

----------------------------------------------------------------------------
(***************************************************************************)
(* header_decoder.                                                         *)
(***************************************************************************)

\* What a step of header_decoder leaves alone.
LEMMA DecoderFrame ==
  ASSUME IInv, UNCHANGED <<syncVars, demodVars, symbols, sync_tags>>
  PROVE  /\ Counting' /\ TagsToCome' /\ SymbolsInOrder'
         /\ DemodInHeader' /\ DemodBeforePayload' /\ DemodInPayload'
         /\ HeaderBegun' = HeaderBegun /\ HeaderRead' = HeaderRead
         /\ UNCHANGED <<is_header, demod_tags, m_symb_numb, frame>>
BY DEF IInv, syncVars, demodVars, Counting, WholeFrame, TagsToCome, SymbolsInOrder, TagsOfIndex,
       DemodInHeader, DemodBeforePayload, DemodInPayload,
       Asking, Taking, HeaderBegun, HeaderRead, PayloadIn, PayloadEnd

\* A header block that header_decoder meets is alone on its link.
LEMMA HeaderAlone ==
  ASSUME IInv, codewords # <<>>, OpensHeader(codewords[1])
  PROVE  /\ Len(codewords) = 1 /\ frame_info = <<>>
         /\ HeaderBegun /\ HeaderRead = 8
         /\ codewords[1].syms[1].frame = frame
<1>1. 1 \in 1 .. Len(codewords)
  BY DEF IInv, TypeOK, LinksTypeOK
<1> QED  BY <1>1, Zenon DEF IInv, HeaderBlockLast

LEMMA DecodeHeader ==
  ASSUME IInv, TypeOK', HeaderBlock, UNCHANGED <<syncVars, demodVars>>
  PROVE  IInv'
<1> USE DEF IInv
<1>1. PICK n \in 1 .. Len(codewords) :
        /\ IsWindow(n) /\ ModeNow
        /\ header_mode' = TRUE
        /\ ImplicitHeader(n) \/ \E h \in Headers, err \in BOOLEAN : ExplicitHeader(n, h, err)
        /\ Consume(n)
        /\ UNCHANGED <<m_impl_head, symbols, sync_tags>>
  BY DEF HeaderBlock
<1>2. OpensHeader(codewords[1])
  BY <1>1 DEF ModeNow, TagAfterHeader, OpensHeader
<1>3. codewords # <<>>
  BY <1>1 DEF TypeOK, LinksTypeOK
<1>4. /\ Len(codewords) = 1 /\ n = 1
      /\ HeaderBegun /\ HeaderRead = 8 /\ frame_info = <<>>
      /\ codewords[1].syms[1].frame = frame
  <2>1. Len(codewords) = 1 /\ HeaderBegun /\ HeaderRead = 8 /\ frame_info = <<>>
        /\ codewords[1].syms[1].frame = frame
    BY <1>2, <1>3, HeaderAlone
  <2>2. n \in 1 .. 1
    BY <2>1, Zenon
  <2> QED  BY <2>1, <2>2
<1>5. codewords' = <<>>
  BY <1>1, <1>4 DEF Consume, TypeOK, LinksTypeOK
<1>6. Len(frame_info') = 1 /\ frame_info'[1].of = frame
  <2>1. \E h, err : frame_info' = Append(frame_info, Message(h, err))
    BY <1>1 DEF ImplicitHeader, ExplicitHeader
  <2> QED  BY <1>4, <2>1 DEF Message
<1>7. is_header
  BY <1>4 DEF DemodInHeader
<1>8. HeaderBegun' /\ HeaderRead' = 8 /\ frame' = frame /\ is_header'
  BY <1>1, <1>4, <1>7, DecoderFrame
<1>9. HeaderBlockLast' /\ HeaderPending' /\ AnswerExpected' /\ TagAfterHeader'
  BY <1>5, <1>6, <1>8 DEF HeaderBlockLast, HeaderPending, AnswerExpected, TagAfterHeader
<1> QED  BY <1>1, <1>9, DecoderFrame

LEMMA DecodePayload ==
  ASSUME IInv, TypeOK', PayloadBlocks, UNCHANGED <<syncVars, demodVars>>
  PROVE  IInv'
<1> USE DEF IInv
<1>1. PICK n \in 1 .. Len(codewords) :
        /\ IsWindow(n) /\ ~ModeNow
        /\ header_mode' = FALSE
        /\ Consume(n)
        /\ UNCHANGED <<symbols, sync_tags, frame_info>>
  BY DEF PayloadBlocks
<1>2. Len(codewords) \in Nat /\ Len(codewords) >= 1 /\ codewords # <<>> /\ n \in Nat
  BY <1>1 DEF TypeOK, LinksTypeOK
<1>3. /\ Len(codewords') = Len(codewords) - n
      /\ \A i \in 1 .. Len(codewords') : codewords'[i] = codewords[n + i]
      /\ codewords' = <<>> <=> n = Len(codewords)
  <2>1. codewords \in Seq([tags : Tags, syms : Seq(Symbols) \ {<<>>}])
    BY DEF TypeOK, LinksTypeOK
  <2>2. codewords' = SubSeq(codewords, n + 1, Len(codewords))
    BY <1>1 DEF Consume
  <2>3. codewords' \in Seq([tags : Tags, syms : Seq(Symbols) \ {<<>>}])
    BY <2>1, <2>2, SuffixFacts
  <2>4. Len(codewords') = Len(codewords) - n
    BY <2>1, <2>2, SuffixFacts
  <2>5. \A i \in 1 .. Len(codewords') : codewords'[i] = codewords[n + i]
    BY <2>1, <2>2, <2>4, SuffixFacts
  <2>6. codewords' = <<>> <=> Len(codewords') = 0
    BY <2>3
  <2> QED  BY <1>2, <2>4, <2>5, <2>6
<1>4. frame_info = <<>> /\ frame_info' = <<>>
  BY <1>1, <1>2 DEF AnswerExpected
<1>5. \A i \in 1 .. n : ~OpensHeader(codewords[i])
  BY <1>1 DEF IsWindow, ModeNow, OpensHeader
<1>6. HeaderBlockLast'
  <2>1. ASSUME NEW i \in 1 .. Len(codewords'), OpensHeader(codewords'[i])
        PROVE  /\ i = Len(codewords') /\ HeaderBegun /\ HeaderRead = 8
               /\ codewords'[i].syms[1].frame = frame
    <3>1. n + i \in 1 .. Len(codewords) /\ codewords'[i] = codewords[n + i]
      BY <1>2, <1>3
    <3> QED  BY <1>2, <1>3, <2>1, <3>1 DEF HeaderBlockLast
  <2>2. HeaderBegun' = HeaderBegun /\ HeaderRead' = HeaderRead /\ frame' = frame
    BY <1>1, DecoderFrame
  <2> QED  BY <1>4, <2>1, <2>2 DEF HeaderBlockLast
<1>7. HeaderPending'
  <2>1. ASSUME HeaderBegun, HeaderRead = 8
        PROVE  codewords' # <<>> /\ OpensHeader(codewords'[Len(codewords')])
    <3>1. OpensHeader(codewords[Len(codewords)])
      BY <1>2, <2>1 DEF HeaderPending
    <3>2. n < Len(codewords)
      BY <1>1, <1>2, <1>5, <3>1
    <3>3. codewords' # <<>> /\ codewords'[Len(codewords')] = codewords[Len(codewords)]
      BY <1>2, <1>3, <3>2
    <3> QED  BY <3>1, <3>3
  <2>2. HeaderBegun' = HeaderBegun /\ HeaderRead' = HeaderRead
    BY <1>1, DecoderFrame
  <2> QED  BY <2>1, <2>2 DEF HeaderPending
<1>8. AnswerExpected' /\ TagAfterHeader'
  BY <1>1, <1>4 DEF AnswerExpected, TagAfterHeader
<1> QED  BY <1>1, <1>6, <1>7, <1>8, DecoderFrame
----------------------------------------------------------------------------
(***************************************************************************)
(* fft_demod.  The next symbol opens the header frame_sync asks about, or  *)
(* belongs to the rest of that header, or to a payload.                    *)
(***************************************************************************)

Opening(item) ==
  /\ Asking /\ ~HeaderBegun /\ PayloadIn = 0 /\ symbol_cnt = Len(symbols)
  /\ item.idx = 0 /\ item.tags = <<HeaderTag>> /\ item.frame = frame
  /\ output = <<>> /\ demod_tags = <<>>

InsideHeader(item) ==
  /\ HeaderBegun /\ HeaderRead \in 1 .. 7
  /\ item.idx = HeaderRead /\ item.tags = <<>> /\ item.frame = frame

InsidePayload(item) ==
  /\ ~HeaderBegun /\ PayloadIn > 0
  /\ item.idx = PayloadEnd - PayloadIn /\ item.idx >= 8
  /\ item.tags = IF item.idx = 8 THEN <<PayloadTag(symb_cr)>> ELSE <<>>

\* Between two frames fft_demod holds no part of a block: whole blocks were sent.
LEMMA NothingLeft ==
  ASSUME IInv, ~HeaderBegun, PayloadIn = 0, ~Taking
  PROVE  output = <<>> /\ demod_tags = <<>>
<1> USE DEF IInv
<1>1. CASE is_header
  BY <1>1 DEF DemodBeforePayload
<1>2. CASE ~is_header /\ m_symb_numb # 0
  <2>1. PICK q \in 0 .. m_symb_numb :
          /\ PayloadEnd - PayloadIn = 8 + q * (4 + symb_cr) + Len(output)
          /\ q = 0 => output # <<>> /\ demod_tags = <<PayloadTag(symb_cr)>>
          /\ q # 0 => demod_tags = <<>>
    BY <1>2 DEF DemodInPayload
  <2>2. Len(output) \in Nat /\ Len(output) < 4 + symb_cr /\ symb_cr \in 0 .. 4
        /\ (Len(output) = 0 => output = <<>>)
    BY <1>2, CountingFacts DEF DemodInPayload, TypeOK, DemodTypeOK
  <2>3. PICK k \in 1 .. m_symb_numb : m_symb_numb = 8 + k * (4 + symb_cr)
    BY <1>2 DEF Counting, WholeFrame
  <2>4. PayloadEnd - PayloadIn = m_symb_numb
    BY CountingFacts DEF PayloadEnd
  <2>5. q \in Nat /\ k \in Nat /\ q * (4 + symb_cr) \in Nat /\ k * (4 + symb_cr) \in Nat
    <3>1. symb_cr \in {0, 1, 2, 3, 4}  BY <2>2
    <3> QED  BY <2>1, <2>3, <3>1, CountingFacts
  <2>6. q * (4 + symb_cr) + Len(output) = k * (4 + symb_cr)
    BY <2>1, <2>2, <2>3, <2>4, <2>5
  <2>7. Len(output) = 0 /\ q = k
    BY <2>2, <2>5, <2>6, BlockRemainder
  <2> QED  BY <2>1, <2>2, <2>3, <2>7
<1>3. CASE ~is_header /\ m_symb_numb = 0
  BY <1>3, CountingFacts DEF DemodInPayload, Counting, PayloadEnd, TypeOK, DemodTypeOK
<1> QED  BY <1>1, <1>2, <1>3

LEMMA ItemCases ==
  ASSUME IInv, symbols # <<>>
  PROVE  Opening(symbols[1]) \/ InsideHeader(symbols[1]) \/ InsidePayload(symbols[1])
<1> USE DEF IInv
<1>1. Len(symbols) \in Nat /\ Len(symbols) >= 1
  BY DEF TypeOK, LinksTypeOK
<1>2. /\ symbols[1].idx = IF 1 <= PayloadIn THEN PayloadEnd - PayloadIn ELSE HeaderRead
      /\ symbols[1].tags = TagsOfIndex(symbols[1].idx)
      /\ 1 > PayloadIn => symbols[1].frame = frame
  BY <1>1, CountingFacts DEF SymbolsInOrder
<1>3. CASE HeaderBegun
  <2>1. PayloadIn = 0 /\ HeaderRead \in 1 .. 7
    BY <1>1, <1>3, CountingFacts
    DEF PayloadIn, HeaderRead, HeaderBegun, Counting
  <2> QED  BY <1>2, <1>3, <2>1 DEF InsideHeader, TagsOfIndex
<1>4. CASE ~HeaderBegun /\ PayloadIn = 0
  <2>1. Asking /\ ~Taking /\ symbol_cnt = Len(symbols)
    BY <1>1, <1>4, CountingFacts DEF PayloadIn, Asking, Taking
  <2>2. output = <<>> /\ demod_tags = <<>>
    BY <1>4, <2>1, NothingLeft
  <2>3. HeaderRead = 0
    BY <1>1, <2>1 DEF HeaderRead
  <2> QED  BY <1>2, <1>4, <2>1, <2>2, <2>3 DEF Opening, TagsOfIndex
<1>5. CASE ~HeaderBegun /\ PayloadIn > 0
  <2>1. PayloadEnd - PayloadIn >= 8
    BY <1>5 DEF Counting
  <2> QED  BY <1>2, <1>5, <2>1, CountingFacts DEF InsidePayload, TagsOfIndex
<1> QED  BY <1>3, <1>4, <1>5, CountingFacts

\* Taking the first symbol off the link shifts the others.
LEMMA LinkAfterRead ==
  ASSUME IInv, symbols # <<>>, symbols' = Tail(symbols),
         UNCHANGED syncVars
  PROVE  /\ Len(symbols') = Len(symbols) - 1
         /\ Asking' = Asking /\ Taking' = Taking
         /\ HeaderRead' = HeaderRead + 1 /\ PayloadEnd' = PayloadEnd
         /\ Opening(symbols[1]) => HeaderBegun' /\ HeaderRead' = 1 /\ PayloadIn' = 0
         /\ InsideHeader(symbols[1]) => HeaderBegun' /\ PayloadIn' = 0
         /\ InsidePayload(symbols[1]) => ~HeaderBegun' /\ PayloadIn' = PayloadIn - 1
         /\ Counting' /\ SymbolsInOrder'
<1> USE DEF IInv
<1>1. /\ Len(symbols') = Len(symbols) - 1 /\ Len(symbols) >= 1
      /\ \A i \in 1 .. Len(symbols') : symbols'[i] = symbols[i + 1]
  BY TailFacts DEF TypeOK, LinksTypeOK
<1>2. /\ Asking' = Asking /\ Taking' = Taking /\ PayloadEnd' = PayloadEnd
      /\ UNCHANGED <<symbol_cnt, m_symb_numb, symb_cr, frame>>
  BY DEF syncVars, Asking, Taking, PayloadEnd
<1>3. HeaderRead' = HeaderRead + 1
  BY <1>1, <1>2, CountingFacts DEF HeaderRead
<1>4. Opening(symbols[1]) => HeaderBegun' /\ HeaderRead' = 1 /\ PayloadIn' = 0
  <2> SUFFICES ASSUME Opening(symbols[1])
               PROVE  HeaderBegun' /\ HeaderRead' = 1 /\ PayloadIn' = 0
    OBVIOUS
  <2>1. Asking /\ symbol_cnt = Len(symbols)
    BY DEF Opening
  <2>2. HeaderBegun'
    BY <1>1, <1>2, <2>1, CountingFacts DEF HeaderBegun
  <2>3. HeaderRead' = 1
    BY <1>1, <1>2, <2>1, CountingFacts DEF HeaderRead
  <2> QED  BY <1>2, <2>1, <2>2, <2>3 DEF PayloadIn
<1>5. InsideHeader(symbols[1]) => HeaderBegun' /\ PayloadIn' = 0
  BY <1>1, <1>2, CountingFacts DEF InsideHeader, HeaderBegun, PayloadIn
<1>6. InsidePayload(symbols[1]) => ~HeaderBegun' /\ PayloadIn' = PayloadIn - 1
  BY <1>1, <1>2, CountingFacts DEF InsidePayload, HeaderBegun, PayloadIn, Asking
<1>7. PayloadIn' = IF PayloadIn > 0 THEN PayloadIn - 1 ELSE 0
  <2>1. CASE Opening(symbols[1])
    BY <1>4, <2>1 DEF Opening
  <2>2. CASE InsideHeader(symbols[1])
    <3>1. PayloadIn = 0
      BY <2>2 DEF InsideHeader, PayloadIn, HeaderBegun
    <3> QED  BY <1>5, <2>2, <3>1
  <2>3. CASE InsidePayload(symbols[1])
    BY <1>6, <2>3 DEF InsidePayload
  <2> QED  BY <2>1, <2>2, <2>3, ItemCases
<1>8. Counting'
  BY <1>2, <1>7, CountingFacts, SMTT(60) DEF Counting, WholeFrame
<1>9. SymbolsInOrder'
  <2>1. ASSUME NEW i \in 1 .. Len(symbols')
        PROVE  /\ symbols'[i].idx = IF i <= PayloadIn' THEN PayloadEnd' - PayloadIn' + i - 1
                                                      ELSE HeaderRead' + i - 1
               /\ symbols'[i].tags = TagsOfIndex(symbols'[i].idx)
               /\ i > PayloadIn' => symbols'[i].frame = frame'
    <3> DEFINE j == i + 1
    <3>1. j \in 1 .. Len(symbols) /\ symbols'[i] = symbols[j] /\ i \in Nat
      BY <1>1, CountingFacts
    <3>2. /\ symbols[j].idx = IF j <= PayloadIn THEN PayloadEnd - PayloadIn + j - 1
                                                ELSE HeaderRead + j - 1
          /\ symbols[j].tags = TagsOfIndex(symbols[j].idx)
          /\ j > PayloadIn => symbols[j].frame = frame
      BY <3>1 DEF SymbolsInOrder
    <3>3. j <= PayloadIn <=> i <= PayloadIn'
      BY <1>7, <3>1, CountingFacts
    <3>4. CASE i <= PayloadIn'
      BY <1>2, <1>7, <3>1, <3>2, <3>3, <3>4, CountingFacts, SMTT(60)
    <3>5. CASE ~(i <= PayloadIn')
      BY <1>2, <1>3, <1>7, <3>1, <3>2, <3>3, <3>5, CountingFacts
    <3> QED  BY <3>4, <3>5
  <2> QED  BY <1>2, <2>1 DEF SymbolsInOrder, TagsOfIndex
<1> QED  BY <1>1, <1>2, <1>3, <1>4, <1>5, <1>6, <1>8, <1>9
\* The parts of the invariant that the demodulated symbol concerns.
DemodParts == DemodInHeader /\ DemodBeforePayload /\ DemodInPayload
DecoderParts == HeaderBlockLast /\ HeaderPending /\ AnswerExpected /\ TagAfterHeader

\* While a symbol is on the link there is no header block and no answer.
LEMMA NoHeaderBlock ==
  ASSUME IInv, symbols # <<>>
  PROVE  /\ frame_info = <<>>
         /\ \A i \in 1 .. Len(codewords) : ~OpensHeader(codewords[i])
<1> USE DEF IInv
<1>1. ~(HeaderBegun /\ HeaderRead = 8)
  BY ItemCases DEF Opening, InsideHeader, InsidePayload
<1> QED  BY <1>1 DEF AnswerExpected, HeaderBlockLast

\* The block on which the first symbol of a header begins.
LEMMA DemodOpening ==
  ASSUME IInv, FftDemodWork, UNCHANGED <<syncVars, headerVars>>, Opening(symbols[1])
  PROVE  DemodParts' /\ DecoderParts'
<1> USE DEF IInv
<1> DEFINE item == Head(symbols)
<1>1. item = symbols[1] /\ symbols # <<>> /\ symbols' = Tail(symbols)
  BY DemodItem DEF FftDemodWork, TypeOK
<1>2. IsTagged(item) /\ FirstTag(item) = HeaderTag /\ HeaderTag.is_header
  BY <1>1 DEF Opening, IsTagged, FirstTag, HeaderTag
<1>3. is_header'
  BY <1>2 DEF FftDemodWork, ReadTag
<1>4. Collected(item) = <<[frame |-> frame, idx |-> 0]>>
  BY <1>1, <1>2 DEF Collected, OpensHeader, Opening
<1>5. TagsPending(item) = <<HeaderTag>>
  BY <1>1, <1>2 DEF TagsPending, Opening
<1>6. Len(Collected(item)) # BlockSize(is_header', demod_cr')
  BY <1>3, <1>4 DEF BlockSize
<1>7. output' = <<[frame |-> frame, idx |-> 0]>> /\ demod_tags' = <<HeaderTag>>
      /\ codewords' = codewords
  BY <1>4, <1>5, <1>6 DEF FftDemodWork
<1>8. HeaderBegun' /\ HeaderRead' = 1 /\ frame' = frame /\ frame_info' = <<>>
      /\ header_mode' = header_mode
  BY <1>1, LinkAfterRead, NoHeaderBlock DEF syncVars, headerVars, FftDemodWork
<1>9. DemodParts'
  BY <1>3, <1>7, <1>8 DEF DemodParts, DemodInHeader, DemodBeforePayload, DemodInPayload
<1>10. DecoderParts'
  <2>1. HeaderBlockLast'
    BY <1>1, <1>7, NoHeaderBlock DEF HeaderBlockLast
  <2>2. HeaderPending' /\ AnswerExpected'
    BY <1>8 DEF HeaderPending, AnswerExpected
  <2>3. TagAfterHeader'
    BY <1>3, <1>7, <1>8 DEF TagAfterHeader
  <2> QED  BY <2>1, <2>2, <2>3 DEF DecoderParts
<1> QED  BY <1>9, <1>10

\* The symbol to be read, and the block it completes.
NextSymbol == [frame |-> symbols[1].frame, idx |-> symbols[1].idx]
NextBlock == [tags |-> demod_tags, syms |-> Append(output, NextSymbol)]

\* What fft_demod does with a symbol without a tag.
LEMMA DemodUntagged ==
  ASSUME IInv, FftDemodWork, UNCHANGED <<syncVars, headerVars>>, symbols[1].tags = <<>>
  PROVE  /\ UNCHANGED <<is_header, demod_cr>>
         /\ Len(output) \in Nat
         /\ Len(Append(output, NextSymbol)) = Len(output) + 1
         /\ output # <<>> => Append(output, NextSymbol)[1] = output[1]
         /\ \/ /\ Len(output) + 1 = BlockSize(is_header, demod_cr)
               /\ codewords' = Append(codewords, NextBlock)
               /\ Len(codewords') = Len(codewords) + 1
               /\ \A i \in 1 .. Len(codewords) : codewords'[i] = codewords[i]
               /\ codewords'[Len(codewords) + 1] = NextBlock
               /\ codewords' # <<>>
               /\ output' = <<>> /\ demod_tags' = <<>>
            \/ /\ Len(output) + 1 # BlockSize(is_header, demod_cr)
               /\ output' = Append(output, NextSymbol)
               /\ UNCHANGED <<codewords, demod_tags>>
<1> USE DEF IInv
<1> DEFINE item == Head(symbols)
<1>1. item = symbols[1]
  BY DemodItem DEF TypeOK
<1>2. ~IsTagged(item)
  BY <1>1 DEF IsTagged
<1>3. UNCHANGED <<is_header, demod_cr>>
  BY <1>2 DEF FftDemodWork, ReadTag
<1>4. Collected(item) = Append(output, NextSymbol)
  BY <1>1, <1>2 DEF Collected, OpensHeader, NextSymbol
<1>5. TagsPending(item) = demod_tags
  BY <1>2 DEF TagsPending
<1>6. /\ Len(output) \in Nat
      /\ Len(Append(output, NextSymbol)) = Len(output) + 1
      /\ output # <<>> => Append(output, NextSymbol)[1] = output[1]
  <2>1. output \in Seq(Symbols) /\ NextSymbol \in Symbols
    BY <1>1, DemodItem DEF TypeOK, DemodTypeOK, Symbols, NextSymbol
  <2> QED  BY <2>1, AppendFacts
<1>7. /\ Len(Append(codewords, NextBlock)) = Len(codewords) + 1
      /\ \A i \in 1 .. Len(codewords) : Append(codewords, NextBlock)[i] = codewords[i]
      /\ Append(codewords, NextBlock)[Len(codewords) + 1] = NextBlock
      /\ Append(codewords, NextBlock) # <<>>
  <2>1. codewords \in Seq([tags : Tags, syms : Seq(Symbols) \ {<<>>}])
    BY DEF TypeOK, LinksTypeOK
  <2>2. NextBlock \in [tags : Tags, syms : Seq(Symbols) \ {<<>>}]
    BY <1>4, <1>5, DemodItem DEF TypeOK, NextBlock
  <2> QED  BY <2>1, <2>2, AppendFacts
<1>8. \/ /\ Len(output) + 1 = BlockSize(is_header, demod_cr)
         /\ codewords' = Append(codewords, NextBlock)
         /\ output' = <<>> /\ demod_tags' = <<>>
      \/ /\ Len(output) + 1 # BlockSize(is_header, demod_cr)
         /\ output' = Append(output, NextSymbol)
         /\ UNCHANGED <<codewords, demod_tags>>
  BY <1>3, <1>4, <1>5, <1>6 DEF FftDemodWork, NextBlock
<1>9. CASE codewords' = Append(codewords, NextBlock)
  BY <1>3, <1>6, <1>7, <1>8, <1>9
<1>10. CASE codewords' # Append(codewords, NextBlock)
  BY <1>3, <1>6, <1>8, <1>10
<1> QED  BY <1>9, <1>10
\* The second to the eighth symbol of a header.
LEMMA DemodInside ==
  ASSUME IInv, FftDemodWork, UNCHANGED <<syncVars, headerVars>>, InsideHeader(symbols[1])
  PROVE  DemodParts' /\ DecoderParts'
<1> USE DEF IInv
<1>1. symbols # <<>> /\ symbols' = Tail(symbols)
  BY DEF FftDemodWork
<1>2. /\ HeaderBegun /\ HeaderRead \in 1 .. 7
      /\ symbols[1].tags = <<>>
  BY DEF InsideHeader
<1>3. HeaderBegun' /\ HeaderRead' = HeaderRead + 1 /\ frame' = frame /\ frame_info' = <<>>
      /\ header_mode' = header_mode
  BY <1>1, LinkAfterRead, NoHeaderBlock DEF syncVars, headerVars, FftDemodWork
<1>4. /\ is_header /\ Len(output) = HeaderRead /\ output[1].frame = frame
      /\ demod_tags = <<HeaderTag>> /\ output # <<>>
  BY <1>2 DEF DemodInHeader
<1>5. is_header'
  BY <1>2, <1>4, DemodUntagged
<1>6. BlockSize(is_header, demod_cr) = 8
  BY <1>4 DEF BlockSize
<1>7. Len(output) = HeaderRead
  BY <1>4
<1>8. CASE HeaderRead = 7
  <2>1. /\ codewords' # <<>> /\ Len(codewords') = Len(codewords) + 1
        /\ \A i \in 1 .. Len(codewords) : codewords'[i] = codewords[i]
        /\ codewords'[Len(codewords')] = NextBlock
        /\ output' = <<>> /\ demod_tags' = <<>>
    <3>1. Len(output) + 1 = BlockSize(is_header, demod_cr)
      BY <1>8, <1>6, <1>7
    <3> QED  BY <1>2, <3>1, DemodUntagged
  <2>2. OpensHeader(NextBlock) /\ IsTagged(NextBlock) /\ NextBlock.syms[1].frame = frame
    <3>1. NextBlock.syms[1] = output[1] /\ NextBlock.tags = <<HeaderTag>>
      BY <1>2, <1>4, DemodUntagged DEF NextBlock
    <3> QED  BY <1>4, <3>1 DEF OpensHeader, IsTagged, FirstTag, HeaderTag
  <2>3. Len(codewords) \in Nat
    BY DEF TypeOK, LinksTypeOK
  <2>4. DemodParts'
    BY <1>3, <1>5, <1>8, <2>1 DEF DemodParts, DemodInHeader, DemodBeforePayload, DemodInPayload
  <2>5. HeaderBlockLast'
    <3>1. ASSUME NEW i \in 1 .. Len(codewords'), OpensHeader(codewords'[i])
          PROVE  i = Len(codewords')
      BY <1>1, <2>1, <2>3, <3>1, NoHeaderBlock
    <3>2. HeaderRead' = 8
      BY <1>3, <1>8
    <3> QED  BY <1>3, <2>1, <2>2, <3>1, <3>2 DEF HeaderBlockLast
  <2>6. HeaderPending' /\ AnswerExpected'
    BY <1>3, <2>1, <2>2 DEF HeaderPending, AnswerExpected
  <2>7. TagAfterHeader'
    <3>1. CASE codewords = <<>>
      <4>1. Len(codewords') = 1
        BY <2>1, <3>1
      <4> QED  BY <2>1, <2>2, <4>1 DEF TagAfterHeader
    <3>2. CASE codewords # <<>>
      <4>1. 1 \in 1 .. Len(codewords)
        BY <2>3, <3>2 DEF TypeOK, LinksTypeOK
      <4> QED  BY <1>3, <2>1, <3>2, <4>1 DEF TagAfterHeader
    <3> QED  BY <3>1, <3>2
  <2> QED  BY <2>4, <2>5, <2>6, <2>7 DEF DecoderParts
<1>9. CASE HeaderRead < 7
  <2>1. /\ output' = Append(output, NextSymbol) /\ Len(output') = Len(output) + 1
        /\ output'[1] = output[1]
        /\ UNCHANGED <<codewords, demod_tags>>
    <3>1. Len(output) + 1 # BlockSize(is_header, demod_cr)
      BY <1>2, <1>9, <1>6, <1>7
    <3> QED  BY <1>2, <1>4, <3>1, DemodUntagged
  <2>2. DemodParts'
    BY <1>2, <1>3, <1>4, <1>5, <1>9, <2>1
    DEF DemodParts, DemodInHeader, DemodBeforePayload, DemodInPayload
  <2>3. HeaderBlockLast'
    BY <1>1, <2>1, NoHeaderBlock DEF HeaderBlockLast
  <2>4. HeaderPending' /\ AnswerExpected'
    BY <1>2, <1>3, <1>9 DEF HeaderPending, AnswerExpected
  <2>5. TagAfterHeader'
    BY <1>3, <1>5, <2>1 DEF TagAfterHeader
  <2> QED  BY <2>2, <2>3, <2>4, <2>5 DEF DecoderParts
<1> QED  BY <1>2, <1>8, <1>9

\* The first symbol of a payload.
LEMMA DemodPayloadBegins ==
  ASSUME IInv, FftDemodWork, UNCHANGED <<syncVars, headerVars>>,
         InsidePayload(symbols[1]), symbols[1].idx = 8
  PROVE  DemodParts' /\ DecoderParts'
<1> USE DEF IInv
<1> DEFINE item == Head(symbols)
<1>1. item = symbols[1] /\ symbols # <<>> /\ symbols' = Tail(symbols)
  BY DemodItem DEF FftDemodWork, TypeOK
<1>2. /\ ~HeaderBegun /\ PayloadIn > 0 /\ PayloadEnd - PayloadIn = 8
      /\ item.tags = <<PayloadTag(symb_cr)>>
  BY <1>1 DEF InsidePayload
<1>3. m_symb_numb # 0 /\ symb_cr \in 0 .. 4
  BY <1>2, CountingFacts DEF Counting
<1>4. output = <<>> /\ demod_tags = <<>>
  <2>1. CASE is_header
    BY <1>2, <2>1 DEF DemodBeforePayload
  <2>2. CASE ~is_header
    <3>1. PICK q \in 0 .. m_symb_numb :
            /\ 8 = 8 + q * (4 + symb_cr) + Len(output)
            /\ q = 0 => output # <<>>
      BY <1>2, <1>3, <2>2 DEF DemodInPayload
    <3>2. symb_cr \in {0, 1, 2, 3, 4} /\ Len(output) \in Nat /\ q \in Nat
      BY <1>3, CountingFacts DEF TypeOK, DemodTypeOK
    <3>3. q = 0 /\ Len(output) = 0
      BY <3>1, <3>2
    <3> QED  BY <3>1, <3>3 DEF TypeOK, DemodTypeOK
  <2> QED  BY <2>1, <2>2
<1>5. IsTagged(item) /\ FirstTag(item) = PayloadTag(symb_cr) /\ ~OpensHeader(item)
  BY <1>2 DEF IsTagged, FirstTag, PayloadTag, OpensHeader
<1>6. ~is_header' /\ demod_cr' = symb_cr
  BY <1>5 DEF FftDemodWork, ReadTag, PayloadTag
<1>7. Collected(item) = <<NextSymbol>> /\ TagsPending(item) = <<PayloadTag(symb_cr)>>
  BY <1>1, <1>4, <1>5 DEF Collected, TagsPending, NextSymbol
<1>8. Len(Collected(item)) # BlockSize(is_header', demod_cr')
  <2>1. is_header' = FALSE
    BY <1>1, <1>6, DemodItem DEF TypeOK
  <2>2. BlockSize(FALSE, symb_cr) = 4 + symb_cr
    BY DEF BlockSize
  <2>3. Len(Collected(item)) = 1
    BY <1>7
  <2>4. demod_cr' = symb_cr
    BY <1>6
  <2>5. BlockSize(is_header', demod_cr') = 4 + symb_cr
    BY <2>1, <2>2, <2>4
  <2>6. 4 + symb_cr # 1
    BY <1>3
  <2> QED  BY <2>3, <2>5, <2>6
<1>9. output' = <<NextSymbol>> /\ demod_tags' = <<PayloadTag(symb_cr)>> /\ codewords' = codewords
  BY <1>7, <1>8 DEF FftDemodWork
<1>10. /\ ~HeaderBegun' /\ PayloadIn' = PayloadIn - 1 /\ PayloadEnd' = PayloadEnd
       /\ frame_info' = <<>> /\ UNCHANGED <<header_mode, symb_cr, m_symb_numb>>
  BY <1>1, LinkAfterRead, NoHeaderBlock DEF syncVars, headerVars, FftDemodWork
<1>11. PayloadEnd' - PayloadIn' = 9
  BY <1>2, <1>10, CountingFacts, SMTT(60)
<1>12. DemodParts'
  <2>1. DemodInPayload'
    <3>1. 0 \in 0 .. m_symb_numb' /\ Len(output') = 1 /\ 1 < 4 + symb_cr'
      BY <1>3, <1>9, <1>10, CountingFacts
    <3>2. PayloadEnd' - PayloadIn' = 8 + 0 * (4 + symb_cr') + Len(output')
      BY <1>3, <1>10, <1>11, <3>1
    <3>3. demod_cr' = symb_cr' /\ demod_tags' = <<PayloadTag(symb_cr')>> /\ output' # <<>>
      BY <1>6, <1>9, <1>10
    <3> QED  BY <3>1, <3>2, <3>3 DEF DemodInPayload
  <2> QED  BY <1>6, <1>10, <2>1 DEF DemodParts, DemodInHeader, DemodBeforePayload
<1>13. DecoderParts'
  <2>1. HeaderBlockLast'
    BY <1>1, <1>9, NoHeaderBlock DEF HeaderBlockLast
  <2>2. TagAfterHeader'
    BY <1>9, <1>10 DEF TagAfterHeader
  <2> QED  BY <1>10, <2>1, <2>2 DEF DecoderParts, HeaderPending, AnswerExpected
<1> QED  BY <1>12, <1>13
\* A later symbol of a payload.
LEMMA DemodPayloadGoesOn ==
  ASSUME IInv, FftDemodWork, UNCHANGED <<syncVars, headerVars>>,
         InsidePayload(symbols[1]), symbols[1].idx # 8
  PROVE  DemodParts' /\ DecoderParts'
<1> USE DEF IInv
<1>1. symbols # <<>> /\ symbols' = Tail(symbols)
  BY DEF FftDemodWork
<1>2. /\ ~HeaderBegun /\ PayloadIn > 0 /\ PayloadEnd - PayloadIn > 8
      /\ symbols[1].tags = <<>>
  BY CountingFacts DEF InsidePayload
<1>3. m_symb_numb # 0 /\ m_symb_numb \in Nat /\ symb_cr \in 0 .. 4 /\ PayloadEnd <= m_symb_numb
  BY <1>2, CountingFacts DEF Counting, PayloadEnd
<1>4. ~is_header
  BY <1>2 DEF DemodBeforePayload
<1>5. demod_cr = symb_cr /\ Len(output) < 4 + symb_cr
  BY <1>2, <1>3, <1>4 DEF DemodInPayload
<1>6. PICK q \in 0 .. m_symb_numb :
        /\ PayloadEnd - PayloadIn = 8 + q * (4 + symb_cr) + Len(output)
        /\ q = 0 => output # <<>> /\ demod_tags = <<PayloadTag(symb_cr)>>
        /\ q # 0 => demod_tags = <<>>
  BY <1>2, <1>3, <1>4 DEF DemodInPayload
<1>7. /\ ~HeaderBegun' /\ PayloadIn' = PayloadIn - 1 /\ PayloadEnd' = PayloadEnd
      /\ frame_info' = <<>> /\ UNCHANGED <<header_mode, symb_cr, m_symb_numb>>
  BY <1>1, LinkAfterRead, NoHeaderBlock DEF syncVars, headerVars, FftDemodWork
<1>8. ~is_header' /\ demod_cr' = symb_cr'
  BY <1>2, <1>4, <1>5, <1>7, DemodUntagged
<1>9. BlockSize(is_header, demod_cr) = 4 + symb_cr
  <2>1. is_header = FALSE
    BY <1>4 DEF TypeOK, DemodTypeOK
  <2>2. BlockSize(FALSE, symb_cr) = 4 + symb_cr
    BY DEF BlockSize
  <2>3. demod_cr = symb_cr
    BY <1>5
  <2> QED  BY <2>1, <2>2, <2>3
<1>10. PayloadEnd' - PayloadIn' = 8 + q * (4 + symb_cr) + Len(output) + 1
       /\ Len(output) \in Nat /\ q \in Nat /\ q * (4 + symb_cr) \in Nat
  <2>1. Len(output) \in Nat /\ q \in Nat
    BY <1>2, <1>3, DemodUntagged
  <2>2. symb_cr \in {0, 1, 2, 3, 4}
    BY <1>3
  <2>3. q * (4 + symb_cr) \in Nat
    BY <2>1, <2>2
  <2> QED  BY <1>6, <1>7, <2>1, <2>3, CountingFacts
<1>11. demod_tags \in {<<>>, <<PayloadTag(symb_cr)>>}
  BY <1>6
<1>12. CASE Len(output) + 1 = 4 + symb_cr
  <2>1. /\ codewords' # <<>> /\ Len(codewords') = Len(codewords) + 1
        /\ \A i \in 1 .. Len(codewords) : codewords'[i] = codewords[i]
        /\ codewords'[Len(codewords) + 1] = NextBlock
        /\ output' = <<>> /\ demod_tags' = <<>>
    <3>1. Len(output) + 1 = BlockSize(is_header, demod_cr)
      BY <1>9, <1>12
    <3> QED  BY <1>2, <3>1, DemodUntagged
  <2>2. Len(codewords) \in Nat
    BY DEF TypeOK, LinksTypeOK
  <2>3. ~OpensHeader(NextBlock)
    <3>1. NextBlock.tags \in {<<>>, <<PayloadTag(symb_cr)>>}
      BY <1>11 DEF NextBlock
    <3> QED  BY <3>1 DEF OpensHeader, IsTagged, FirstTag, PayloadTag
  <2>4. DemodInPayload'
    <3>1. PayloadEnd' - PayloadIn' = 8 + (q + 1) * (4 + symb_cr')
      <4>1. symb_cr \in {0, 1, 2, 3, 4}
        BY <1>3
      <4>2. (q + 1) * (4 + symb_cr) = q * (4 + symb_cr) + (4 + symb_cr)
        BY <1>10, <4>1
      <4> QED  BY <1>3, <1>7, <1>10, <1>12, <4>2
    <3>2. q + 1 \in 0 .. m_symb_numb'
      <4>1. q * (4 + symb_cr) >= q
        <5>1. symb_cr \in {0, 1, 2, 3, 4}
          BY <1>3
        <5> QED  BY <1>10, <5>1
      <4>2. PayloadEnd' - PayloadIn' <= m_symb_numb
        BY <1>2, <1>3, <1>7, CountingFacts
      <4> QED  BY <1>3, <1>7, <1>10, <4>1, <4>2
    <3>3. Len(output') = 0 /\ Len(output') < 4 + symb_cr'
      BY <1>3, <1>7, <2>1
    <3>4. PayloadEnd' - PayloadIn' = 8 + (q + 1) * (4 + symb_cr') + Len(output')
      <4>1. (q + 1) * (4 + symb_cr') \in Int
        BY <1>3, <1>7, <1>10
      <4> QED  BY <3>1, <3>3, <4>1
    <3>5. q + 1 # 0
      BY <1>10
    <3> QED  BY <1>8, <2>1, <3>2, <3>3, <3>4, <3>5 DEF DemodInPayload
  <2>5. HeaderBlockLast'
    <3>1. ASSUME NEW i \in 1 .. Len(codewords')
          PROVE  ~OpensHeader(codewords'[i])
      <4>1. i \in 1 .. Len(codewords) \/ i = Len(codewords) + 1
        BY <2>1, <2>2
      <4> QED  BY <1>1, <2>1, <2>3, <4>1, NoHeaderBlock
    <3> QED  BY <3>1 DEF HeaderBlockLast
  <2>6. TagAfterHeader'
    <3>1. CASE codewords # <<>>
      <4>1. 1 \in 1 .. Len(codewords)
        BY <2>2, <3>1 DEF TypeOK, LinksTypeOK
      <4> QED  BY <1>7, <2>1, <3>1, <4>1 DEF TagAfterHeader
    <3>2. CASE codewords = <<>> /\ demod_tags = <<>>
      BY <1>3, <1>4, <1>7, <3>2 DEF TagAfterHeader
    <3>3. CASE codewords = <<>> /\ demod_tags # <<>>
      <4>1. codewords'[1] = NextBlock
        BY <2>1, <3>3
      <4>2. IsTagged(NextBlock)
        BY <3>3 DEF NextBlock, IsTagged
      <4> QED  BY <2>1, <4>1, <4>2 DEF TagAfterHeader
    <3> QED  BY <3>1, <3>2, <3>3
  <2> QED  BY <1>7, <1>8, <2>4, <2>5, <2>6
           DEF DemodParts, DecoderParts, DemodInHeader, DemodBeforePayload,
               HeaderPending, AnswerExpected
<1>13. CASE Len(output) + 1 # 4 + symb_cr
  <2>1. /\ output' = Append(output, NextSymbol) /\ Len(output') = Len(output) + 1
        /\ UNCHANGED <<codewords, demod_tags>>
    <3>1. Len(output) + 1 # BlockSize(is_header, demod_cr)
      BY <1>9, <1>13
    <3> QED  BY <1>2, <3>1, DemodUntagged
  <2>2. DemodInPayload'
    <3>1. Len(output') < 4 + symb_cr' /\ output' # <<>>
      BY <1>3, <1>5, <1>7, <1>10, <1>13, <2>1
    <3>2. PayloadEnd' - PayloadIn' = 8 + q * (4 + symb_cr') + Len(output')
      BY <1>7, <1>10, <2>1
    <3>3. q \in 0 .. m_symb_numb'
      BY <1>7
    <3>4. /\ q = 0 => demod_tags' = <<PayloadTag(symb_cr')>>
          /\ q # 0 => demod_tags' = <<>>
      BY <1>6, <1>7, <2>1
    <3> QED  BY <1>8, <3>1, <3>2, <3>3, <3>4 DEF DemodInPayload
  <2>3. HeaderBlockLast'
    BY <1>1, <2>1, NoHeaderBlock DEF HeaderBlockLast
  <2>4. TagAfterHeader'
    BY <1>3, <1>4, <1>7, <2>1 DEF TagAfterHeader
  <2> QED  BY <1>7, <1>8, <2>2, <2>3, <2>4
           DEF DemodParts, DecoderParts, DemodInHeader, DemodBeforePayload,
               HeaderPending, AnswerExpected
<1> QED  BY <1>12, <1>13

LEMMA Demodulate ==
  ASSUME IInv, TypeOK', FftDemodWork, UNCHANGED <<syncVars, headerVars>>
  PROVE  IInv'
<1>1. symbols # <<>> /\ symbols' = Tail(symbols)
  BY DEF FftDemodWork
<1>2. Counting' /\ SymbolsInOrder'
  BY <1>1, LinkAfterRead
<1>3. TagsToCome'
  BY DEF IInv, TagsToCome, FftDemodWork, syncVars, Asking, Taking
<1>4. DemodParts' /\ DecoderParts'
  BY <1>1, ItemCases, DemodOpening, DemodInside, DemodPayloadBegins, DemodPayloadGoesOn
<1> QED  BY <1>2, <1>3, <1>4 DEF IInv, DemodParts, DecoderParts

----------------------------------------------------------------------------
(***************************************************************************)
(* The theorems.                                                           *)
(***************************************************************************)

LEMMA SearchInv ==
  ASSUME IInv, TypeOK', NEW bin \in Bins, NEW down \in Bins, SearchWindow(bin, down),
         UNCHANGED <<demodVars, headerVars>>
  PROVE  IInv'
<1>1. CASE QuarterDown(bin)
  BY <1>1, BeginFrame
<1>2. CASE ~QuarterDown(bin)
  <2>1. m_state # "FRAC_CFO_CORREC" /\ m_state' # "FRAC_CFO_CORREC"
    BY <1>2 DEF SearchWindow, DetectUpchirp, DetectPreamble, DetectOther, NetId1, NetId2,
                Downchirp1, Downchirp2, SyncWindow, WrongNetId, Restart
  <2>2. UNCHANGED <<links, infoVars, frame>>
    BY <1>2 DEF SearchWindow, DetectUpchirp, DetectPreamble, DetectOther, NetId1, NetId2,
                Downchirp1, Downchirp2, WrongNetId
  <2>3. ~Asking /\ ~Taking
    BY <2>1 DEF Asking, Taking
  <2>4. UNCHANGED <<behind, sync_tags, infoVars, frame>>
    BY <2>2 DEF links, behind
  <2> QED  BY <2>1, <2>3, <2>4, OutsideFrame
<1> QED  BY <1>1, <1>2

LEMMA InvNext == IInv /\ [Next]_vars => IInv'
<1> SUFFICES ASSUME IInv, [Next]_vars PROVE IInv'
  OBVIOUS
<1>1. TypeOK'
  BY TypeNext DEF IInv
<1>2. CASE SyncStep
  <2>1. UNCHANGED <<demodVars, headerVars>>
    BY <1>2 DEF SyncStep
  <2>2. CASE \E bin, down \in Bins : SearchWindow(bin, down)
    BY <1>1, <2>1, <2>2, SearchInv
  <2>3. CASE OutputSymbol
    BY <1>1, <2>1, <2>3, PassOn
  <2>4. CASE WaitForHeader
    <3>1. UNCHANGED loopVars
      BY <2>1, <2>4 DEF WaitForHeader, loopVars, behind, links
    <3> QED  BY <1>1, <3>1, SameLoop
  <2>5. CASE EndOfFrame
    <3>1. ~Asking /\ (Taking => symbol_cnt = m_symb_numb)
      BY <2>5, CountingFacts
      DEF IInv, EndOfFrame, MoreSymbols, Counting, Asking, Taking
    <3>2. m_state' # "FRAC_CFO_CORREC" /\ UNCHANGED <<behind, sync_tags, infoVars, frame>>
      BY <2>1, <2>5 DEF EndOfFrame, Restart, behind, links
    <3> QED  BY <1>1, <3>1, <3>2, OutsideFrame
  <2> QED  BY <1>2, <2>2, <2>3, <2>4, <2>5 DEF SyncStep, FrameSyncWork
<1>3. CASE HandlerStep
  BY <1>1, <1>3, ReadAnswer DEF HandlerStep
<1>4. CASE DemodStep
  BY <1>1, <1>4, Demodulate DEF DemodStep
<1>5. CASE HeaderStep
  BY <1>1, <1>5, DecodeHeader, DecodePayload DEF HeaderStep
<1>6. CASE UNCHANGED vars
  <2>1. UNCHANGED loopVars
    BY <1>6 DEF vars, loopVars, behind, links, syncVars, infoVars
  <2> QED  BY <1>1, <2>1, SameLoop
<1> QED  BY <1>2, <1>3, <1>4, <1>5, <1>6 DEF Next

\* The counter of frame_sync, the symbols and blocks under way, the modes of
\* fft_demod and header_decoder and the answer always fit together.
THEOREM InductiveInvariant == Spec => []IInv
<1> QED  BY InvInit, InvNext, PTL DEF Spec

\* frame_info_handler is never called but when frame_sync waits for the header
\* of the frame the message is about.
THEOREM AnswersComeInTurn == Spec => []AnswerInTurn
<1>1. IInv => AnswerInTurn
  BY AnswerState DEF AnswerInTurn, Waiting, Asking
<1> QED  BY <1>1, InductiveInvariant, PTL

\* No item ever carries two tags, so reading tags[0] only loses none.
THEOREM TagsStayApart == Spec => []TagsApart
<1>1. ASSUME IInv PROVE TagsApart
  <2>1. Len(sync_tags) <= 1
    BY <1>1 DEF IInv, TagsToCome
  <2>2. \A i \in 1 .. Len(symbols) : symbols[i].tags = TagsOfIndex(symbols[i].idx)
    BY <1>1 DEF IInv, SymbolsInOrder
  <2> QED  BY <2>1, <2>2 DEF TagsApart, TagsOfIndex, PayloadTag
<1> QED  BY <1>1, InductiveInvariant, PTL

\* The reset that a header tag causes in fft_demod never throws a symbol away.
THEOREM NoSymbolIsDropped == Spec => []NoSymbolDropped
<1>1. ASSUME IInv PROVE NoSymbolDropped
  <2> SUFFICES ASSUME symbols # <<>>, OpensHeader(symbols[1]) PROVE output = <<>>
    BY DEF NoSymbolDropped
  <2>1. ~InsideHeader(symbols[1])
    BY DEF InsideHeader, OpensHeader, IsTagged
  <2>2. ~InsidePayload(symbols[1])
    BY DEF InsidePayload, OpensHeader, IsTagged, FirstTag, PayloadTag
  <2> QED  BY <1>1, <2>1, <2>2, ItemCases DEF Opening
<1> QED  BY <1>1, InductiveInvariant, PTL

----------------------------------------------------------------------------
(***************************************************************************)
(* What the loop delivers: fft_demod makes whole blocks of consecutive     *)
(* symbols of one frame, and header_decoder outputs all of a payload and   *)
(* no more.                                                                *)
(***************************************************************************)

(***************************************************************************)
(* Blocks: what IInv leaves open is to which frame payload symbols belong, *)
(* and what is in the block that fft_demod is collecting.                  *)
(***************************************************************************)

\* The payload symbols on the link are of one frame.
FramesInOrder ==
  \A i \in 1 .. PayloadIn :
    /\ symbols[i].frame = symbols[1].frame
    /\ Taking => symbols[i].frame = frame

Consecutive(syms) ==
  \A j \in 1 .. Len(syms) :
    syms[j] = [frame |-> syms[1].frame, idx |-> syms[1].idx + j - 1]

\* The symbols collected are consecutive, and so is the next that will be read.
OutputInOrder ==
  output # <<>> =>
    /\ Consecutive(output)
    /\ HeaderBegun => output[1].idx = 0
    /\ ~HeaderBegun =>
         /\ output[1].idx + Len(output) = PayloadEnd - PayloadIn
         /\ PayloadIn > 0 => symbols[1].frame = output[1].frame
         /\ Taking => output[1].frame = frame

BlockOf(block) ==
  /\ Consecutive(block.syms)
  /\ OpensHeader(block) <=> block.syms[1].idx = 0
  /\ block.syms[1].idx # 0 =>
       block.syms[1].idx >= 8 /\ (block.syms[1].idx - 8) % Len(block.syms) = 0

BlocksInv == FramesInOrder /\ OutputInOrder /\ BlocksWhole

LEMMA BlocksInit == Init => BlocksInv
<1> SUFFICES ASSUME Init PROVE BlocksInv
  OBVIOUS
<1>1. symbols = <<>> /\ output = <<>> /\ codewords = <<>> /\ m_state = "DETECT"
  BY DEF Init, LinksInit, DemodInit, SyncInit
<1>2. PayloadIn = 0
  BY <1>1 DEF PayloadIn, Asking
<1> QED  BY <1>1, <1>2 DEF BlocksInv, FramesInOrder, OutputInOrder, BlocksWhole

\* The steps that leave the link from frame_sync to fft_demod as it is.
LEMMA LinkKept ==
  ASSUME BlocksInv, UNCHANGED <<symbols, output>>,
         HeaderBegun' = HeaderBegun, PayloadIn' = PayloadIn, PayloadEnd' = PayloadEnd,
         Taking' => Taking /\ frame' = frame
  PROVE  FramesInOrder' /\ OutputInOrder'
BY DEF BlocksInv, FramesInOrder, OutputInOrder, Consecutive

LEMMA BlocksKept ==
  ASSUME BlocksInv, UNCHANGED codewords
  PROVE  BlocksWhole'
BY DEF BlocksInv, BlocksWhole, OpensHeader, IsTagged, FirstTag

\* frame_sync outside a frame, at its end, and when it finds the next.
LEMMA OutsideKept ==
  ASSUME IInv, IInv', ~Asking, Taking => symbol_cnt = m_symb_numb, ~Taking',
         Asking' => symbol_cnt' = 0, UNCHANGED <<symbols, m_symb_numb>>
  PROVE  HeaderBegun' = HeaderBegun /\ PayloadIn' = PayloadIn /\ PayloadEnd' = PayloadEnd
<1>1. ~HeaderBegun
  BY DEF HeaderBegun
<1>2. ~HeaderBegun'
  BY CountingFacts DEF IInv, HeaderBegun
<1>3. PayloadIn = Len(symbols) /\ PayloadIn' = Len(symbols)
  BY <1>1, <1>2, CountingFacts DEF IInv, PayloadIn
<1>4. PayloadEnd' = PayloadEnd
  BY DEF PayloadEnd
<1>5. HeaderBegun' = HeaderBegun
  BY <1>1, <1>2 DEF HeaderBegun
<1> QED  BY <1>3, <1>4, <1>5

\* When this is so: frame_sync searches, has found a preamble, or ends a frame.
LEMMA OutsideSteps ==
  ASSUME IInv, EndOfFrame \/ \E bin, down \in Bins : SearchWindow(bin, down)
  PROVE  /\ ~Asking /\ (Taking => symbol_cnt = m_symb_numb) /\ ~Taking'
         /\ Asking' => symbol_cnt' = 0
         /\ UNCHANGED <<m_impl_head, symbols, codewords, frame_info, m_symb_numb, symb_cr>>
<1>1. CASE EndOfFrame
  <2>1. ~Asking /\ (Taking => symbol_cnt = m_symb_numb)
    BY <1>1, CountingFacts DEF IInv, EndOfFrame, MoreSymbols, Counting, Asking, Taking
  <2> QED  BY <1>1, <2>1 DEF EndOfFrame, Restart, Asking, Taking, links, infoVars
<1>2. CASE \E bin, down \in Bins : SearchWindow(bin, down)
  <2>1. PICK bin \in Bins, down \in Bins : SearchWindow(bin, down)
    BY <1>2
  <2>2. /\ m_state # "FRAC_CFO_CORREC"
        /\ UNCHANGED <<m_impl_head, symbols, codewords, frame_info, m_symb_numb, symb_cr>>
    BY <2>1 DEF SearchWindow, DetectUpchirp, DetectPreamble, DetectOther, NetId1, NetId2,
                Downchirp1, Downchirp2, QuarterDown, SyncWindow, WrongNetId, links, infoVars
  <2>3. m_state' # "FRAC_CFO_CORREC" \/ (symbol_cnt' = 0 /\ ~m_received_head')
    BY <2>1 DEF SearchWindow, DetectUpchirp, DetectPreamble, DetectOther, NetId1, NetId2,
                Downchirp1, Downchirp2, QuarterDown, SyncWindow, WrongNetId, Restart
  <2> QED  BY <2>2, <2>3 DEF Asking, Taking
<1> QED  BY <1>1, <1>2

LEMMA BlocksPassOn ==
  ASSUME IInv, BlocksInv, OutputSymbol, UNCHANGED demodVars
  PROVE  BlocksInv'
<1> USE DEF demodVars
<1>1. /\ Len(symbols) \in Nat /\ PayloadIn \in Nat /\ PayloadIn <= Len(symbols)
  BY CountingFacts DEF IInv
<1>2. Taking => PayloadIn = Len(symbols)
  BY DEF PayloadIn, Asking, Taking
<1>3. /\ PayloadIn' = PayloadIn + (IF Taking THEN 1 ELSE 0)
      /\ \A i \in 1 .. Len(symbols) : symbols'[i] = symbols[i]
      /\ symbols'[Len(symbols) + 1].frame = frame
      /\ Taking' = Taking /\ frame' = frame
  BY LinkAfterWrite DEF Written
<1>4. FramesInOrder'
  <2> SUFFICES ASSUME NEW i \in 1 .. PayloadIn'
               PROVE  /\ symbols'[i].frame = symbols'[1].frame
                      /\ Taking => symbols'[i].frame = frame
    BY <1>3 DEF FramesInOrder
  <2>1. CASE i \in 1 .. PayloadIn
    <3>1. i \in 1 .. Len(symbols) /\ 1 \in 1 .. Len(symbols)
      BY <1>1, <2>1
    <3>2. symbols'[i] = symbols[i] /\ symbols'[1] = symbols[1]
      BY <1>3, <3>1
    <3> QED  BY <2>1, <3>2 DEF BlocksInv, FramesInOrder
  <2>2. CASE Taking /\ i = Len(symbols) + 1
    <3>1. CASE Len(symbols) = 0
      BY <1>3, <2>2, <3>1
    <3>2. CASE Len(symbols) # 0
      <4>1. 1 \in 1 .. PayloadIn /\ 1 \in 1 .. Len(symbols)
        BY <1>1, <1>2, <2>2, <3>2
      <4>2. symbols[1].frame = frame
        BY <2>2, <4>1 DEF BlocksInv, FramesInOrder
      <4> QED  BY <1>3, <2>2, <4>1, <4>2
    <3> QED  BY <3>1, <3>2
  <2> QED  BY <1>1, <1>2, <1>3, <2>1, <2>2
<1>5. OutputInOrder'
  <2> SUFFICES ASSUME output # <<>>
               PROVE  /\ Consecutive(output)
                      /\ HeaderBegun => output[1].idx = 0
                      /\ ~HeaderBegun =>
                           /\ output[1].idx + Len(output) = PayloadEnd - PayloadIn
                           /\ PayloadIn' > 0 => symbols'[1].frame = output[1].frame
                           /\ Taking => output[1].frame = frame
    BY <1>3, LinkAfterWrite DEF OutputInOrder, Consecutive
  <2>1. OutputInOrder
    BY DEF BlocksInv
  <2>2. ASSUME ~HeaderBegun, PayloadIn' > 0
        PROVE  symbols'[1].frame = output[1].frame
    <3>1. CASE PayloadIn > 0
      <4>1. symbols'[1] = symbols[1]
        BY <1>1, <1>3, <3>1
      <4> QED  BY <2>1, <2>2, <3>1, <4>1 DEF OutputInOrder
    <3>2. CASE PayloadIn = 0
      <4>1. Taking
        BY <1>1, <1>3, <2>2, <3>2
      <4>2. symbols'[1].frame = frame
        BY <1>2, <1>3, <3>2, <4>1
      <4> QED  BY <2>1, <2>2, <4>1, <4>2 DEF OutputInOrder
    <3> QED  BY <1>1, <3>1, <3>2
  <2> QED  BY <2>1, <2>2 DEF OutputInOrder
<1>6. BlocksWhole'
  BY LinkAfterWrite, BlocksKept
<1> QED  BY <1>4, <1>5, <1>6 DEF BlocksInv

\* An answer finds the links and fft_demod empty.
LEMMA BlocksAnswer ==
  ASSUME IInv, BlocksInv, FrameInfoHandler, UNCHANGED demodVars
  PROVE  BlocksInv'
<1>1. symbols' = <<>> /\ output' = <<>> /\ codewords' = codewords
  BY AnswerState DEF FrameInfoHandler, demodVars
<1>2. ~Asking'
  BY DEF FrameInfoHandler, Restart, Asking
<1>3. FramesInOrder'
  BY <1>1, <1>2 DEF FramesInOrder, PayloadIn
<1>4. OutputInOrder'
  BY <1>1 DEF OutputInOrder
<1> QED  BY <1>1, <1>3, <1>4, BlocksKept DEF BlocksInv

LEMMA BlocksRead ==
  ASSUME IInv, BlocksInv, HeaderBlock \/ PayloadBlocks, UNCHANGED <<syncVars, demodVars>>
  PROVE  BlocksInv'
<1>1. PICK n \in 1 .. Len(codewords) : Consume(n) /\ UNCHANGED <<symbols, sync_tags>>
  BY DEF HeaderBlock, PayloadBlocks
<1>2. FramesInOrder' /\ OutputInOrder'
  <2>1. UNCHANGED <<symbols, output, symbol_cnt, m_state, m_received_head, m_symb_numb, frame>>
    BY <1>1 DEF syncVars, demodVars
  <2>2. HeaderBegun' = HeaderBegun /\ PayloadIn' = PayloadIn /\ PayloadEnd' = PayloadEnd
        /\ Taking' = Taking
    BY <2>1 DEF HeaderBegun, PayloadIn, PayloadEnd, Asking, Taking
  <2> QED  BY <2>1, <2>2, LinkKept
<1>3. BlocksWhole'
  <2>1. codewords \in Seq([tags : Tags, syms : Seq(Symbols) \ {<<>>}])
    BY DEF IInv, TypeOK, LinksTypeOK
  <2>2. codewords' = SubSeq(codewords, n + 1, Len(codewords))
    BY <1>1 DEF Consume
  <2>3. /\ Len(codewords') = Len(codewords) - n
        /\ \A i \in 1 .. (Len(codewords) - n) : codewords'[i] = codewords[n + i]
    BY <2>1, <2>2, SuffixFacts
  <2>4. ASSUME NEW i \in 1 .. Len(codewords')
        PROVE  BlockOf(codewords'[i])
    <3>1. n + i \in 1 .. Len(codewords) /\ codewords'[i] = codewords[n + i]
      BY <2>1, <2>3
    <3>2. BlockOf(codewords[n + i])
      BY <3>1 DEF BlocksInv, BlocksWhole, BlockOf, Consecutive
    <3> QED  BY <3>1, <3>2
  <2> QED  BY <2>4 DEF BlocksWhole, BlockOf, Consecutive, OpensHeader, IsTagged, FirstTag
<1> QED  BY <1>2, <1>3 DEF BlocksInv
\* The block that fft_demod collects with the symbol it reads.
Grown == Append(output, NextSymbol)
GrownBlock == [tags |-> TagsPending(symbols[1]), syms |-> Grown]

\* fft_demod reads a symbol: the block it collects grows by it, whatever its tag.
LEMMA DemodOutcome ==
  ASSUME IInv, FftDemodWork
  PROVE  /\ symbols # <<>> /\ symbols' = Tail(symbols)
         /\ \/ codewords' = Append(codewords, GrownBlock) /\ output' = <<>>
            \/ codewords' = codewords /\ output' = Grown
<1> USE DEF IInv
<1>1. symbols # <<>> /\ Head(symbols) = symbols[1]
  BY DemodItem DEF TypeOK
<1>2. Collected(symbols[1]) = Grown
  <2>1. OpensHeader(symbols[1]) => output = <<>>
    <3>1. OpensHeader(symbols[1]) => ~InsideHeader(symbols[1]) /\ ~InsidePayload(symbols[1])
      BY DEF InsideHeader, InsidePayload, OpensHeader, IsTagged, FirstTag, PayloadTag
    <3> QED  BY <1>1, <3>1, ItemCases DEF Opening
  <2> QED  BY <2>1 DEF Collected, NextSymbol, Grown
<1> QED  BY <1>1, <1>2 DEF FftDemodWork, GrownBlock

\* That block is consecutive, whether it is complete or not.
LEMMA GrownInOrder ==
  ASSUME IInv, BlocksInv, symbols # <<>>
  PROVE  /\ Grown \in Seq(Symbols) /\ Len(Grown) = Len(output) + 1 /\ Len(output) \in Nat
         /\ Consecutive(Grown)
         /\ Grown[1].frame = symbols[1].frame
         /\ Grown[1].idx + Len(output) = symbols[1].idx
<1> USE DEF IInv
<1>1. symbols[1] \in [frame : 0 .. FrameIds - 1, idx : Nat, tags : Tags]
  BY TailFacts DEF TypeOK, LinksTypeOK
<1>2. NextSymbol \in Symbols /\ NextSymbol.frame = symbols[1].frame /\ NextSymbol.idx = symbols[1].idx
  BY <1>1 DEF NextSymbol, Symbols
<1>3. output \in Seq(Symbols)
  BY DEF TypeOK, DemodTypeOK
<1>4. /\ Grown \in Seq(Symbols) /\ Len(Grown) = Len(output) + 1 /\ Len(output) \in Nat
      /\ \A j \in 1 .. Len(output) : Grown[j] = output[j]
      /\ Grown[Len(output) + 1] = NextSymbol
  BY <1>2, <1>3, AppendFacts DEF Grown
<1>5. CASE output = <<>>
  <2>1. Len(output) = 0 /\ Grown[1] = NextSymbol
    BY <1>4, <1>5
  <2>2. Consecutive(Grown)
    BY <1>2, <1>4, <2>1 DEF Consecutive, NextSymbol, Symbols
  <2> QED  BY <1>1, <1>2, <1>4, <2>1, <2>2
<1>6. CASE output # <<>>
  <2>1. Len(output) >= 1 /\ output[1] \in Symbols
    BY <1>3, <1>6
  <2>2. symbols[1].frame = output[1].frame /\ symbols[1].idx = output[1].idx + Len(output)
    <3>1. ~Opening(symbols[1])
      BY <1>6 DEF Opening
    <3>2. CASE InsideHeader(symbols[1])
      BY <1>6, <3>2 DEF InsideHeader, DemodInHeader, BlocksInv, OutputInOrder
    <3>3. CASE InsidePayload(symbols[1])
      BY <1>6, <3>3 DEF InsidePayload, BlocksInv, OutputInOrder
    <3> QED  BY <3>1, <3>2, <3>3, ItemCases
  <2>3. Grown[1] = output[1]
    BY <1>4, <2>1
  <2>4. Consecutive(Grown)
    <3> SUFFICES ASSUME NEW j \in 1 .. Len(output) + 1
                 PROVE  Grown[j] = [frame |-> output[1].frame, idx |-> output[1].idx + j - 1]
      BY <1>4, <2>3 DEF Consecutive
    <3>1. CASE j \in 1 .. Len(output)
      BY <1>4, <1>6, <3>1 DEF BlocksInv, OutputInOrder, Consecutive
    <3>2. CASE j = Len(output) + 1
      <4>1. output[1].idx + j - 1 = output[1].idx + Len(output)
        BY <1>4, <2>1, <3>2 DEF Symbols
      <4> QED  BY <1>4, <2>2, <3>2, <4>1 DEF NextSymbol
    <3> QED  BY <1>4, <3>1, <3>2
  <2> QED  BY <1>4, <2>2, <2>3, <2>4
<1> QED  BY <1>5, <1>6

\* A block of a payload is complete: it has the size said in its tag, and a
\* whole number of blocks of this size separate it from the header.
LEMMA PayloadBlockComplete ==
  ASSUME IInv, IInv', FftDemodWork, UNCHANGED <<syncVars, headerVars>>,
         InsidePayload(symbols[1]), output' = <<>>
  PROVE  /\ symb_cr \in 0 .. 4 /\ Len(output) + 1 = 4 + symb_cr
         /\ TagsPending(symbols[1]) \in {<<>>, <<PayloadTag(symb_cr)>>}
         /\ \E q \in Nat : symbols[1].idx = 8 + q * (4 + symb_cr) + Len(output)
<1> USE DEF IInv
<1>1. symbols # <<>> /\ symbols' = Tail(symbols)
  BY DemodOutcome
<1>2. /\ ~HeaderBegun' /\ PayloadEnd' = PayloadEnd /\ PayloadIn' = PayloadIn - 1
      /\ ~HeaderBegun /\ PayloadIn > 0 /\ symbols[1].idx = PayloadEnd - PayloadIn
      /\ symbols[1].idx >= 8
  BY <1>1, LinkAfterRead DEF InsidePayload
<1>3. m_symb_numb # 0 /\ symb_cr \in 0 .. 4 /\ UNCHANGED <<m_symb_numb, symb_cr>>
  BY <1>2, CountingFacts DEF Counting, syncVars
<1>4. CASE symbols[1].idx = 8
  <2>1. PayloadEnd' - PayloadIn' = 9
    BY <1>2, <1>4, CountingFacts, SMTT(60)
  <2>2. ~is_header'
    <3>1. symbols[1] = Head(symbols)
      BY DemodItem DEF TypeOK
    <3>2. symbols[1].tags = <<PayloadTag(symb_cr)>>
      BY <1>4 DEF InsidePayload
    <3>3. IsTagged(symbols[1]) /\ FirstTag(symbols[1]).is_header = FALSE
      BY <3>2 DEF IsTagged, FirstTag, PayloadTag
    <3> QED  BY <3>1, <3>3 DEF FftDemodWork, ReadTag
  <2>3. PICK q \in 0 .. m_symb_numb : 9 = 8 + q * (4 + symb_cr) + Len(output')
    BY <1>2, <1>3, <2>1, <2>2 DEF DemodInPayload
  <2>4. Len(output') = 0 /\ symb_cr \in {0, 1, 2, 3, 4} /\ q \in Nat
    BY <1>3, CountingFacts
  <2> QED  BY <2>3, <2>4
<1>5. CASE symbols[1].idx # 8
  <2>1. ~is_header /\ symbols[1].tags = <<>>
    BY <1>2, <1>5 DEF InsidePayload, DemodBeforePayload
  <2>2. PICK q \in 0 .. m_symb_numb :
          /\ demod_cr = symb_cr
          /\ PayloadEnd - PayloadIn = 8 + q * (4 + symb_cr) + Len(output)
          /\ demod_tags \in {<<>>, <<PayloadTag(symb_cr)>>}
    BY <1>2, <1>3, <2>1 DEF DemodInPayload
  <2>3. Len(output) + 1 = 4 + symb_cr
    <3>1. Append(output, NextSymbol) # <<>>
      BY <2>1, DemodUntagged
    <3>2. Len(output) + 1 = BlockSize(is_header, demod_cr)
      BY <2>1, <3>1, DemodUntagged
    <3>3. is_header = FALSE
      BY <2>1 DEF TypeOK, DemodTypeOK
    <3>4. BlockSize(FALSE, demod_cr) = 4 + demod_cr
      BY DEF BlockSize
    <3> QED  BY <2>2, <3>2, <3>3, <3>4
  <2>4. TagsPending(symbols[1]) \in {<<>>, <<PayloadTag(symb_cr)>>}
    BY <2>1, <2>2 DEF TagsPending, IsTagged
  <2>5. q \in Nat
    BY CountingFacts
  <2> QED  BY <1>2, <1>3, <2>2, <2>3, <2>4, <2>5
<1> QED  BY <1>4, <1>5

\* A block that is complete is in order.
LEMMA CompleteBlock ==
  ASSUME IInv, IInv', BlocksInv, FftDemodWork, UNCHANGED <<syncVars, headerVars>>, output' = <<>>
  PROVE  BlockOf(GrownBlock)
<1> USE DEF IInv
<1>1. symbols # <<>> /\ symbols' = Tail(symbols)
  BY DemodOutcome
<1>2. /\ Len(Grown) = Len(output) + 1 /\ Len(output) \in Nat /\ Grown \in Seq(Symbols)
      /\ Consecutive(Grown)
      /\ Grown[1].idx + Len(output) = symbols[1].idx
  BY <1>1, GrownInOrder
<1>3. Grown[1].idx \in Nat
  <2>1. Grown # <<>>
    BY <1>2
  <2>2. Grown[1] \in Symbols
    BY <1>2, <2>1, TailFacts
  <2> QED  BY <2>2 DEF Symbols
<1>4. CASE Opening(symbols[1])
  <2>1. HeaderBegun' /\ HeaderRead' = 1
    BY <1>1, <1>4, LinkAfterRead
  <2> QED  BY <2>1 DEF DemodInHeader
<1>5. CASE InsideHeader(symbols[1])
  <2>1. /\ Len(output) = HeaderRead /\ symbols[1].idx = HeaderRead
        /\ demod_tags = <<HeaderTag>> /\ symbols[1].tags = <<>>
    BY <1>5 DEF InsideHeader, DemodInHeader
  <2>2. Grown[1].idx = 0
    BY <1>2, <1>3, <2>1
  <2>3. OpensHeader(GrownBlock)
    BY <2>1 DEF GrownBlock, TagsPending, OpensHeader, IsTagged, FirstTag, HeaderTag
  <2> QED  BY <1>2, <2>2, <2>3 DEF BlockOf, GrownBlock
<1>6. CASE InsidePayload(symbols[1])
  <2>1. PICK q \in Nat : symbols[1].idx = 8 + q * (4 + symb_cr) + Len(output)
    BY <1>6, PayloadBlockComplete
  <2>2. symb_cr \in {0, 1, 2, 3, 4} /\ Len(output) + 1 = 4 + symb_cr
        /\ TagsPending(symbols[1]) \in {<<>>, <<PayloadTag(symb_cr)>>}
    BY <1>6, PayloadBlockComplete
  <2>3. Grown[1].idx = 8 + q * (4 + symb_cr)
    BY <1>2, <1>3, <2>1, <2>2, SMTT(60)
  <2>4. Grown[1].idx >= 8 /\ (Grown[1].idx - 8) % Len(Grown) = 0
    <3>1. Len(Grown) = 4 + symb_cr
      BY <1>2, <2>2
    <3>2. ASSUME NEW c \in {0, 1, 2, 3, 4}, NEW first, NEW size,
                 first = 8 + q * (4 + c), size = 4 + c
          PROVE  first >= 8 /\ (first - 8) % size = 0
      <4>1. CASE c = 0  BY <3>2, <4>1
      <4>2. CASE c = 1  BY <3>2, <4>2
      <4>3. CASE c = 2  BY <3>2, <4>3
      <4>4. CASE c = 3  BY <3>2, <4>4
      <4>5. CASE c = 4  BY <3>2, <4>5
      <4> QED  BY <4>1, <4>2, <4>3, <4>4, <4>5
    <3>3. symb_cr \in {0, 1, 2, 3, 4}
      BY <2>2
    <3> QED  BY <2>3, <3>1, <3>2, <3>3, Zenon
  <2>5. ~OpensHeader(GrownBlock)
    BY <2>2 DEF GrownBlock, OpensHeader, IsTagged, FirstTag, PayloadTag
  <2>6. GrownBlock.syms = Grown
    BY DEF GrownBlock
  <2>7. Grown[1].idx # 0
    BY <1>3, <2>4
  <2> QED  BY <1>2, <2>4, <2>5, <2>6, <2>7, Zenon DEF BlockOf
<1> QED  BY <1>1, <1>4, <1>5, <1>6, ItemCases

LEMMA BlocksDemod ==
  ASSUME IInv, IInv', BlocksInv, FftDemodWork, UNCHANGED <<syncVars, headerVars>>
  PROVE  BlocksInv'
<1> USE DEF IInv
<1>1. symbols # <<>> /\ symbols' = Tail(symbols)
  BY DemodOutcome
<1>2. /\ Len(symbols) \in Nat /\ Len(symbols') = Len(symbols) - 1
      /\ \A i \in 1 .. Len(symbols') : symbols'[i] = symbols[i + 1]
  BY <1>1, TailFacts DEF TypeOK, LinksTypeOK
<1>3. PayloadIn \in Nat /\ PayloadIn <= Len(symbols)
  BY CountingFacts
<1>4. PayloadIn' = 0 \/ (PayloadIn' = PayloadIn - 1 /\ PayloadIn > 0)
  BY <1>1, LinkAfterRead, ItemCases DEF InsidePayload
<1>5. Taking' = Taking /\ frame' = frame /\ PayloadEnd' = PayloadEnd
  BY <1>1, LinkAfterRead DEF syncVars
<1>6. ASSUME NEW i \in 1 .. PayloadIn'
      PROVE  /\ symbols'[i].frame = symbols[1].frame
             /\ Taking => symbols'[i].frame = frame
  <2>1. i + 1 \in 1 .. PayloadIn /\ i \in 1 .. Len(symbols')
    BY <1>2, <1>3, <1>4
  <2>2. symbols'[i] = symbols[i + 1]
    BY <1>2, <2>1
  <2> QED  BY <2>1, <2>2 DEF BlocksInv, FramesInOrder
<1>7. FramesInOrder'
  <2>1. ASSUME NEW i \in 1 .. PayloadIn' PROVE 1 \in 1 .. PayloadIn'
    BY <1>3, <1>4
  <2> QED  BY <1>5, <1>6, <2>1 DEF FramesInOrder
<1>8. /\ Len(Grown) = Len(output) + 1 /\ Len(output) \in Nat /\ Grown \in Seq(Symbols)
      /\ Consecutive(Grown)
      /\ Grown[1].frame = symbols[1].frame
      /\ Grown[1].idx + Len(output) = symbols[1].idx
  BY <1>1, GrownInOrder
<1>9. Grown[1].idx \in Nat
  <2>1. Grown # <<>>
    BY <1>8
  <2>2. Grown[1] \in Symbols
    BY <1>8, <2>1, TailFacts
  <2> QED  BY <2>2 DEF Symbols
<1>10. CASE codewords' = Append(codewords, GrownBlock) /\ output' = <<>>
  <2>1. BlockOf(GrownBlock)
    BY <1>10, CompleteBlock
  <2>2. Len(codewords) \in Nat
    BY DEF TypeOK, LinksTypeOK
  <2>3. codewords \in Seq([tags : Tags, syms : Seq(Symbols) \ {<<>>}])
        /\ codewords' \in Seq([tags : Tags, syms : Seq(Symbols) \ {<<>>}])
    BY DEF TypeOK, LinksTypeOK
  <2>4. ASSUME NEW i \in 1 .. Len(codewords') PROVE BlockOf(codewords'[i])
    <3>1. Len(codewords') = Len(codewords) + 1
      BY <1>10, <2>3
    <3>2. CASE i \in 1 .. Len(codewords)
      <4>1. codewords'[i] = codewords[i]
        BY <1>10, <2>3, <3>2
      <4>2. BlockOf(codewords[i])
        BY <3>2 DEF BlocksInv, BlocksWhole, BlockOf, Consecutive
      <4> QED  BY <4>1, <4>2
    <3>3. CASE i = Len(codewords) + 1
      <4>1. codewords'[i] = GrownBlock
        <5> QED  BY <1>10, <2>3, <3>3
      <4> QED  BY <2>1, <4>1
    <3> QED  BY <2>2, <3>1, <3>2, <3>3
  <2>5. BlocksWhole'
    BY <2>4 DEF BlocksWhole, BlockOf, Consecutive, OpensHeader, IsTagged, FirstTag
  <2>6. OutputInOrder'
    BY <1>10 DEF OutputInOrder
  <2> QED  BY <1>7, <2>5, <2>6 DEF BlocksInv
<1>11. CASE codewords' = codewords /\ output' = Grown
  <2>1. HeaderBegun' => Grown[1].idx = 0
    <3>1. CASE Opening(symbols[1])
      BY <1>8, <1>9, <3>1 DEF Opening, TypeOK, DemodTypeOK
    <3>2. CASE InsideHeader(symbols[1])
      BY <1>8, <1>9, <3>2 DEF InsideHeader, DemodInHeader
    <3>3. CASE InsidePayload(symbols[1])
      BY <1>1, <3>3, LinkAfterRead
    <3> QED  BY <1>1, <3>1, <3>2, <3>3, ItemCases
  <2>2. ASSUME ~HeaderBegun'
        PROVE  /\ Grown[1].idx + Len(Grown) = PayloadEnd' - PayloadIn'
               /\ PayloadIn' > 0 => symbols'[1].frame = Grown[1].frame
               /\ Taking => Grown[1].frame = frame
    <3>1. InsidePayload(symbols[1])
      BY <1>1, <2>2, ItemCases, LinkAfterRead
    <3>2. /\ PayloadIn' = PayloadIn - 1 /\ PayloadIn > 0 /\ symbols[1].idx = PayloadEnd - PayloadIn
      BY <1>1, <3>1, LinkAfterRead DEF InsidePayload
    <3>3. Grown[1].idx + Len(Grown) = PayloadEnd' - PayloadIn'
      BY <1>3, <1>5, <1>8, <1>9, <3>2, CountingFacts, SMTT(60)
    <3>4. PayloadIn' > 0 => symbols'[1].frame = Grown[1].frame
      BY <1>3, <1>6, <1>8, <3>2
    <3>5. Taking => Grown[1].frame = frame
      BY <1>3, <1>8, <3>2 DEF BlocksInv, FramesInOrder
    <3> QED  BY <3>3, <3>4, <3>5
  <2>3. OutputInOrder'
    <3> QED  BY <1>5, <1>8, <1>11, <2>1, <2>2 DEF OutputInOrder, Consecutive
  <2>4. BlocksWhole'
    BY <1>11, BlocksKept
  <2> QED  BY <1>7, <2>3, <2>4 DEF BlocksInv
<1> QED  BY <1>10, <1>11, DemodOutcome

LEMMA BlocksNext == IInv /\ BlocksInv /\ [Next]_vars => BlocksInv'
<1> SUFFICES ASSUME IInv, BlocksInv, [Next]_vars PROVE BlocksInv'
  OBVIOUS
<1>1. IInv'
  BY InvNext
<1>2. CASE SyncStep
  <2>1. UNCHANGED <<demodVars, headerVars>>
    BY <1>2 DEF SyncStep
  <2>2. CASE EndOfFrame \/ \E bin, down \in Bins : SearchWindow(bin, down)
    <3>1. FramesInOrder' /\ OutputInOrder'
      BY <1>1, <2>1, <2>2, OutsideSteps, OutsideKept, LinkKept DEF demodVars
    <3> QED  BY <2>2, <3>1, OutsideSteps, BlocksKept DEF BlocksInv
  <2>3. CASE OutputSymbol
    BY <2>1, <2>3, BlocksPassOn
  <2>4. CASE WaitForHeader
    <3>1. UNCHANGED <<symbols, output, codewords, m_symb_numb, symbol_cnt, m_state, m_received_head, frame>>
      BY <2>1, <2>4 DEF WaitForHeader, links, demodVars, infoVars
    <3>2. HeaderBegun' = HeaderBegun /\ PayloadIn' = PayloadIn /\ PayloadEnd' = PayloadEnd
          /\ Taking' = Taking
      BY <3>1 DEF HeaderBegun, PayloadIn, PayloadEnd, Asking, Taking
    <3> QED  BY <3>1, <3>2, LinkKept, BlocksKept DEF BlocksInv
  <2> QED  BY <1>2, <2>2, <2>3, <2>4 DEF SyncStep, FrameSyncWork
<1>3. CASE HandlerStep
  BY <1>3, BlocksAnswer DEF HandlerStep
<1>4. CASE DemodStep
  BY <1>1, <1>4, BlocksDemod DEF DemodStep
<1>5. CASE HeaderStep
  BY <1>5, BlocksRead DEF HeaderStep
<1>6. CASE UNCHANGED vars
  <2>1. UNCHANGED <<symbols, output, codewords, m_symb_numb, symbol_cnt, m_state, m_received_head, frame>>
    BY <1>6 DEF vars, links, demodVars, syncVars
  <2>2. HeaderBegun' = HeaderBegun /\ PayloadIn' = PayloadIn /\ PayloadEnd' = PayloadEnd
        /\ Taking' = Taking
    BY <2>1 DEF HeaderBegun, PayloadIn, PayloadEnd, Asking, Taking
  <2> QED  BY <2>1, <2>2, LinkKept, BlocksKept DEF BlocksInv
<1> QED  BY <1>2, <1>3, <1>4, <1>5, <1>6 DEF Next

\* Every block on its way to header_decoder is made of consecutive symbols of
\* one frame: of the header, or of a payload from a block's border on.
THEOREM BlocksAreWhole == Spec => []BlocksWhole
<1>1. Init => IInv /\ BlocksInv
  BY InvInit, BlocksInit
<1>2. IInv /\ BlocksInv /\ [Next]_vars => (IInv /\ BlocksInv)'
  BY InvNext, BlocksNext
<1>3. IInv /\ BlocksInv => BlocksWhole
  BY DEF BlocksInv
<1> QED  BY <1>1, <1>2, <1>3, PTL DEF Spec

----------------------------------------------------------------------------
(***************************************************************************)
(* The payload: the symbols that fft_demod has read of it, the blocks of   *)
(* them on their way, and the nibbles header_decoder has counted, agree.   *)
(***************************************************************************)

\* Payload symbols of the last frame answered that fft_demod has read (their
\* number and 8), blocks of them that header_decoder has not.
PayloadRead == IF HeaderBegun THEN m_symb_numb ELSE PayloadEnd - PayloadIn
Collecting == IF HeaderBegun THEN 0 ELSE Len(output)
BlocksWaiting ==
  IF codewords # <<>> /\ OpensHeader(codewords[Len(codewords)])
  THEN Len(codewords) - 1 ELSE Len(codewords)

\* Nibbles of the payload in the header block, and those counted with j blocks more.
InHeaderBlock == FrameNibbles(header) - PayloadNibbles(m_impl_head, header)
CountedWith(j) ==
  IF j * SF <= PayloadNibbles(m_impl_head, header) THEN InHeaderBlock + j * SF
  ELSE FrameNibbles(header)

AnswerGiven ==
  frame_info # <<>> =>
    /\ frame_info[1].err = head_err
    /\ ~head_err => frame_info[1].header = header /\ pay_cnt = InHeaderBlock

\* q blocks of the payload have been read.
ReadSoFar(q) ==
  /\ PayloadRead = 8 + q * (4 + symb_cr) + Collecting
  /\ BlocksWaiting <= q
  /\ pay_cnt = CountedWith(q - BlocksWaiting)

PayloadCounted ==
  ~head_err /\ frame_info = <<>> =>
    /\ m_symb_numb = SymbNumb(m_impl_head, header) /\ symb_cr = header.cr
    /\ \E q \in Nat : ReadSoFar(q)

PayloadInv == AnswerGiven /\ PayloadCounted

\* The header block has room for sf - 2 nibbles, 5 of them an explicit header's.
LEMMA HeaderFacts ==
  ASSUME NEW impl \in ImplicitModes, NEW h \in Headers
  PROVE  /\ FrameNibbles(h) \in Nat /\ h.cr \in 0 .. 4
         /\ PayloadNibbles(impl, h) \in 1 .. 1023
         /\ FrameNibbles(h) - PayloadNibbles(impl, h) = IF impl THEN SF - 2 ELSE SF - 7
<1> DEFINE l == h.pay_len
           c == h.crc
           p == PayloadNibbles(impl, h)
           f == FrameNibbles(h)
<1>1. SF \in 7 .. 12 /\ h.cr \in 0 .. 4 /\ l \in 0 .. 255 /\ c \in {0, 1}
  BY LinkAssumption
<1>2. p > 0
  BY PayloadAssumption
<1>3. f = 2 * l + 4 * c /\ p = 2 * l - SF + 2 + (IF impl THEN 0 ELSE 5) + 4 * c
  BY DEF FrameNibbles, PayloadNibbles
<1> HIDE DEF l, c, p, f
<1>4. CASE impl
  <2>1. p = 2 * l - SF + 2 + 4 * c
    BY <1>1, <1>3, <1>4
  <2> QED  BY <1>1, <1>2, <1>3, <1>4, <2>1 DEF p, f
<1>5. CASE ~impl
  <2>1. p = 2 * l - SF + 7 + 4 * c
    BY <1>1, <1>3, <1>5
  <2> QED  BY <1>1, <1>2, <1>3, <1>5, <2>1 DEF p, f
<1> QED  BY <1>4, <1>5

\* frame_info_handler counts enough blocks for the nibbles of the payload.
LEMMA BlockCount ==
  ASSUME NEW impl \in ImplicitModes, NEW h \in Headers
  PROVE  \E k \in Nat : /\ SymbNumb(impl, h) = 8 + k * (4 + h.cr)
                        /\ k * SF >= PayloadNibbles(impl, h)
<1> DEFINE p == PayloadNibbles(impl, h)
<1>1. p \in 1 .. 1023 /\ p % UIntRange = p
  <2>1. p \in 1 .. 1023
    BY HeaderFacts
  <2> HIDE DEF p
  <2> QED  BY <2>1, SyncAssumption
<1>2. CeilDiv(p, SF) \in Nat /\ SymbNumb(impl, h) = 8 + CeilDiv(p, SF) * (4 + h.cr)
  BY <1>1, CeilDivPositive, SMTT(60) DEF SymbNumb
<1>3. CeilDiv(p, SF) * SF >= p
  <2> HIDE DEF p
  <2>1. SF \in 7 .. 12
    BY LinkAssumption
  <2>2. CASE SF = 7   BY <1>1, <2>2 DEF CeilDiv
  <2>3. CASE SF = 8   BY <1>1, <2>3 DEF CeilDiv
  <2>4. CASE SF = 9   BY <1>1, <2>4 DEF CeilDiv
  <2>5. CASE SF = 10  BY <1>1, <2>5 DEF CeilDiv
  <2>6. CASE SF = 11  BY <1>1, <2>6 DEF CeilDiv
  <2>7. CASE SF = 12  BY <1>1, <2>7 DEF CeilDiv
  <2> QED  BY <2>1, <2>2, <2>3, <2>4, <2>5, <2>6, <2>7
<1> QED  BY <1>2, <1>3

\* The types of what this part speaks about.
LEMMA PayloadTypes ==
  ASSUME IInv
  PROVE  /\ m_impl_head \in ImplicitModes /\ header \in Headers
         /\ FrameNibbles(header) \in Nat /\ header.cr \in 0 .. 4
         /\ PayloadNibbles(m_impl_head, header) \in 1 .. 1023
         /\ FrameNibbles(header) = InHeaderBlock + PayloadNibbles(m_impl_head, header)
         /\ InHeaderBlock = IF m_impl_head THEN SF - 2 ELSE SF - 7
         /\ InHeaderBlock \in Nat /\ SF \in 7 .. 12
         /\ Len(codewords) \in Nat /\ Len(output) \in Nat /\ (codewords = <<>> <=> Len(codewords) = 0)
<1>1. m_impl_head \in ImplicitModes /\ header \in Headers /\ SF \in 7 .. 12
  BY LinkAssumption DEF IInv, TypeOK, LinksTypeOK, HeaderTypeOK
<1>2. Len(codewords) \in Nat /\ Len(output) \in Nat /\ (codewords = <<>> <=> Len(codewords) = 0)
  BY DEF IInv, TypeOK, LinksTypeOK, DemodTypeOK
<1> DEFINE p == PayloadNibbles(m_impl_head, header)
           f == FrameNibbles(header)
<1>3. f \in Nat /\ header.cr \in 0 .. 4 /\ p \in 1 .. 1023
      /\ f - p = IF m_impl_head THEN SF - 2 ELSE SF - 7
  BY <1>1, HeaderFacts
<1>4. InHeaderBlock = f - p
  BY DEF InHeaderBlock
<1> HIDE DEF p, f
<1>5. f = InHeaderBlock + p /\ InHeaderBlock \in Nat
  BY <1>1, <1>3, <1>4
<1> QED  BY <1>1, <1>2, <1>3, <1>4, <1>5 DEF p, f

\* Reading n payload blocks after j of them.
LEMMA CountedMore ==
  ASSUME IInv, NEW j \in Nat, NEW n \in Nat
  PROVE  CountedWith(j) + Bounded(n * SF, CountedWith(j), header) = CountedWith(j + n)
<1> DEFINE p == PayloadNibbles(m_impl_head, header)
           f == FrameNibbles(header)
           i == InHeaderBlock
           a == j * SF
           b == n * SF
<1>1. p \in Nat /\ i \in Nat /\ f = i + p
  <2>1. p \in 1 .. 1023 /\ i \in Nat /\ f = i + p
    BY PayloadTypes, Zenon
  <2> QED  BY <2>1, SMTT(60)
<1>2. a \in Nat /\ b \in Nat /\ (j + n) * SF = a + b
  <2>1. SF \in {7, 8, 9, 10, 11, 12}
    BY PayloadTypes
  <2> QED  BY <2>1
<1>3. CountedWith(j) = IF a <= p THEN i + a ELSE f
  BY DEF CountedWith
<1>4. CountedWith(j + n) = IF a + b <= p THEN i + (a + b) ELSE f
  BY <1>2 DEF CountedWith
<1>5. ASSUME NEW c \in Nat
      PROVE  Bounded(b, c, header) = IF f - c <= 0 THEN 0 ELSE IF b <= f - c THEN b ELSE f - c
  BY DEF Bounded
<1> HIDE DEF p, f, i, a, b
<1>6. CASE a <= p
  <2>1. CountedWith(j) = i + a /\ i + a \in Nat /\ f - (i + a) = p - a
    BY <1>1, <1>2, <1>3, <1>6
  <2>2. Bounded(b, i + a, header) = IF p - a <= 0 THEN 0 ELSE IF b <= p - a THEN b ELSE p - a
    BY <1>5, <2>1
  <2>3. (i + a) + Bounded(b, i + a, header) = IF a + b <= p THEN i + (a + b) ELSE f
    BY <1>1, <1>2, <1>6, <2>2
  <2> QED  BY <1>4, <2>1, <2>3 DEF b
<1>7. CASE ~(a <= p)
  <2>1. CountedWith(j) = f /\ f \in Nat /\ ~(a + b <= p)
    BY <1>1, <1>2, <1>3, <1>7
  <2>2. Bounded(b, f, header) = 0
    BY <1>5, <2>1
  <2> QED  BY <1>4, <2>1, <2>2 DEF b
<1> QED  BY <1>6, <1>7

LEMMA PayloadInit == Init => PayloadInv
BY DEF Init, LinksInit, HeaderInit, PayloadInv, AnswerGiven, PayloadCounted

\* The steps that leave fft_demod and header_decoder as they are.
LEMMA PayloadKept ==
  ASSUME PayloadInv, UNCHANGED <<m_impl_head, codewords, frame_info, m_symb_numb, symb_cr>>,
         UNCHANGED <<demodVars, headerVars>>,
         HeaderBegun' = HeaderBegun, PayloadEnd' - PayloadIn' = PayloadEnd - PayloadIn
  PROVE  PayloadInv'
<1> USE DEF demodVars, headerVars
<1>1. /\ PayloadRead' = PayloadRead /\ Collecting' = Collecting /\ BlocksWaiting' = BlocksWaiting
      /\ InHeaderBlock' = InHeaderBlock
  BY DEF PayloadRead, Collecting, BlocksWaiting, InHeaderBlock, OpensHeader, IsTagged, FirstTag
<1>2. ASSUME NEW q \in Nat, ReadSoFar(q) PROVE ReadSoFar(q)'
  BY <1>1, <1>2 DEF ReadSoFar, CountedWith
<1> QED  BY <1>1, <1>2 DEF PayloadInv, AnswerGiven, PayloadCounted

\* The answer is read: nothing of the payload has been, and nothing is under way.
LEMMA PayloadAnswer ==
  ASSUME IInv, IInv', PayloadInv, FrameInfoHandler, UNCHANGED <<demodVars, headerVars>>
  PROVE  PayloadInv'
<1> USE DEF demodVars, headerVars
<1> DEFINE msg == Head(frame_info)
<1>1. frame_info # <<>> /\ msg = frame_info[1] /\ UNCHANGED <<m_impl_head, symbols, codewords>>
  BY DEF FrameInfoHandler, IInv, TypeOK, LinksTypeOK
<1>2. frame_info' = <<>> /\ symbols' = <<>> /\ codewords' = <<>> /\ output' = <<>>
  BY <1>1, AnswerState DEF FrameInfoHandler, IInv, TypeOK, LinksTypeOK
<1>3. AnswerGiven'
  BY <1>2 DEF AnswerGiven
<1>4. ASSUME ~head_err PROVE PayloadCounted'
  <2>1. ~msg.err /\ msg.header = header /\ pay_cnt = InHeaderBlock
    BY <1>1, <1>4 DEF PayloadInv, AnswerGiven
  <2>2. m_symb_numb' = SymbNumb(m_impl_head, header) /\ symb_cr' = header.cr
    BY <2>1 DEF FrameInfoHandler
  <2>3. /\ Taking' /\ ~Asking' /\ ~HeaderBegun' /\ symbol_cnt' = 8
    BY <1>1, <2>1, AnswerState DEF FrameInfoHandler, Asking, Taking, HeaderBegun
  <2>4. PayloadRead' = 8 /\ Collecting' = 0 /\ BlocksWaiting' = 0
    BY <1>2, <2>3 DEF PayloadRead, Collecting, BlocksWaiting, PayloadIn, PayloadEnd
  <2>5. CountedWith(0)' = InHeaderBlock
    <3>1. /\ SF \in 7 .. 12 /\ InHeaderBlock \in Nat
          /\ PayloadNibbles(m_impl_head, header) \in 1 .. 1023
      BY PayloadTypes, Zenon
    <3>2. 0 * SF = 0 /\ 0 <= PayloadNibbles(m_impl_head, header) /\ InHeaderBlock + 0 = InHeaderBlock
      BY <3>1
    <3> QED  BY <1>1, <3>2 DEF CountedWith, InHeaderBlock
  <2>6. ReadSoFar(0)'
    <3>1. symb_cr' \in 0 .. 4
      BY <2>2, PayloadTypes, Zenon
    <3>2. 0 * (4 + symb_cr') = 0
      <4>1. ASSUME NEW c \in 0 .. 4 PROVE 0 * (4 + c) = 0
        OBVIOUS
      <4> QED  BY <3>1, <4>1, Zenon
    <3>3. 8 = 8 + 0 + 0 /\ 0 - 0 = 0
      OBVIOUS
    <3> QED  BY <2>1, <2>4, <2>5, <3>2, <3>3 DEF ReadSoFar
  <2> QED  BY <1>1, <2>2, <2>6 DEF PayloadCounted
<1> QED  BY <1>3, <1>4 DEF PayloadInv, PayloadCounted

\* header_decoder reads a header: its block counts for what it has room for.
LEMMA PayloadHeader ==
  ASSUME IInv, IInv', PayloadInv, HeaderBlock, UNCHANGED <<syncVars, demodVars>>
  PROVE  PayloadInv'
<1>1. PICK n \in 1 .. Len(codewords) :
        /\ ModeNow
        /\ ImplicitHeader(n) \/ \E h \in Headers, err \in BOOLEAN : ExplicitHeader(n, h, err)
        /\ UNCHANGED m_impl_head
  BY DEF HeaderBlock
<1>2. codewords # <<>> /\ OpensHeader(codewords[1])
  <2>1. codewords # <<>>
    BY <1>1, PayloadTypes
  <2> QED  BY <1>1, <2>1 DEF IInv, ModeNow, TagAfterHeader, OpensHeader
<1>3. frame_info = <<>> /\ n = 1 /\ CountNow = 0
  <2>1. Len(codewords) = 1 /\ frame_info = <<>>
    BY <1>2, HeaderAlone
  <2>2. n \in 1 .. 1
    BY <2>1, Zenon
  <2> QED  BY <1>2, <2>1, <2>2 DEF CountNow
<1>4. Nibbles(n) = SF - 2
  BY <1>1, <1>3, PayloadTypes DEF Nibbles, SfApp
<1>5. CASE ImplicitHeader(n)
  <2>1. /\ frame_info' = <<Message(header, FALSE)>> /\ ~head_err' /\ header' = header
        /\ m_impl_head /\ pay_cnt' = 0 + Bounded(SF - 2, 0, header)
    BY <1>3, <1>4, <1>5 DEF ImplicitHeader
  <2>2. pay_cnt' = SF - 2
    <3> DEFINE f == FrameNibbles(header)
               p == PayloadNibbles(m_impl_head, header)
    <3>1. f \in Nat /\ SF \in 7 .. 12 /\ p \in 1 .. 1023 /\ f = (SF - 2) + p
      BY <2>1, PayloadTypes, ZenonT(60)
    <3>2. Bounded(SF - 2, 0, header) =
            IF f - 0 <= 0 THEN 0 ELSE IF SF - 2 <= f - 0 THEN SF - 2 ELSE f - 0
      BY DEF Bounded
    <3> HIDE DEF f, p
    <3>3. Bounded(SF - 2, 0, header) = SF - 2
      BY <3>1, <3>2
    <3> QED  BY <2>1, <3>1, <3>3
  <2>3. InHeaderBlock' = SF - 2
    BY <1>1, <2>1, PayloadTypes, ZenonT(60) DEF InHeaderBlock
  <2>4. frame_info' # <<>> /\ frame_info'[1] = Message(header, FALSE)
    BY <2>1
  <2>5. Message(header, FALSE).err = FALSE /\ Message(header, FALSE).header = header'
    BY <2>1 DEF Message
  <2>6. head_err' = FALSE
    BY <2>1 DEF IInv, TypeOK, HeaderTypeOK
  <2>7. frame_info'[1].err = head_err' /\ frame_info'[1].header = header'
    BY <2>4, <2>5, <2>6, Zenon
  <2> QED  BY <2>2, <2>3, <2>4, <2>7, Zenon DEF PayloadInv, AnswerGiven, PayloadCounted
<1>6. CASE \E h \in Headers, err \in BOOLEAN : ExplicitHeader(n, h, err)
  <2>1. PICK h \in Headers, err \in BOOLEAN : ExplicitHeader(n, h, err)
    BY <1>6
  <2>2. /\ frame_info' = <<Message(h, err)>> /\ head_err' = err /\ header' = h
        /\ ~m_impl_head /\ pay_cnt' = 0 + ((SF - 2) - 5)
    BY <1>3, <1>4, <2>1 DEF ExplicitHeader, header_len
  <2>3. pay_cnt' = SF - 7
    BY <2>2, PayloadTypes, SMTT(60)
  <2>4. InHeaderBlock' = SF - 7
    <3>1. InHeaderBlock' = IF m_impl_head' THEN SF - 2 ELSE SF - 7
      <4>1. m_impl_head' \in ImplicitModes /\ header' \in Headers
        BY DEF IInv, TypeOK, LinksTypeOK, HeaderTypeOK
      <4> QED  BY <4>1, HeaderFacts DEF InHeaderBlock
    <3> QED  BY <1>1, <2>2, <3>1
  <2>5. frame_info' # <<>> /\ frame_info'[1] = Message(h, err)
    BY <2>2
  <2>6. Message(h, err).err = head_err' /\ Message(h, err).header = header'
    BY <2>2 DEF Message
  <2>7. frame_info'[1].err = head_err' /\ frame_info'[1].header = header'
    BY <2>5, <2>6, Zenon
  <2> QED  BY <2>3, <2>4, <2>5, <2>7, Zenon DEF PayloadInv, AnswerGiven, PayloadCounted
<1> QED  BY <1>1, <1>5, <1>6

\* header_decoder reads blocks of the payload and counts their nibbles.
LEMMA PayloadBlocksRead ==
  ASSUME IInv, IInv', PayloadInv, PayloadBlocks, UNCHANGED <<syncVars, demodVars>>
  PROVE  PayloadInv'
<1>1. PICK n \in 1 .. Len(codewords) :
        /\ IsWindow(n) /\ ~ModeNow
        /\ pay_cnt' = CountNow + Bounded(Nibbles(n), CountNow, header)
        /\ Consume(n)
        /\ UNCHANGED <<header, head_err, m_impl_head, symbols, sync_tags, frame_info>>
  BY DEF PayloadBlocks
<1>2. Len(codewords) \in Nat /\ n \in Nat /\ n >= 1 /\ n <= Len(codewords) /\ codewords # <<>>
  BY <1>1, PayloadTypes
<1>3. frame_info = <<>> /\ frame_info' = <<>>
  BY <1>1, <1>2 DEF IInv, AnswerExpected
<1>4. \A i \in 1 .. n : ~OpensHeader(codewords[i])
  BY <1>1 DEF IsWindow, ModeNow, OpensHeader
<1>5. CountNow = pay_cnt /\ Nibbles(n) = n * SF
  BY <1>1, <1>2, <1>4 DEF CountNow, Nibbles, SfApp
<1>6. /\ Len(codewords') = Len(codewords) - n
      /\ n < Len(codewords) => codewords'[Len(codewords')] = codewords[Len(codewords)]
      /\ codewords' = <<>> <=> n = Len(codewords)
  <2>1. codewords \in Seq([tags : Tags, syms : Seq(Symbols) \ {<<>>}])
    BY DEF IInv, TypeOK, LinksTypeOK
  <2>2. codewords' = SubSeq(codewords, n + 1, Len(codewords))
    BY <1>1 DEF Consume
  <2>3. /\ Len(codewords') = Len(codewords) - n
        /\ \A i \in 1 .. (Len(codewords) - n) : codewords'[i] = codewords[n + i]
    BY <2>1, <2>2, SuffixFacts
  <2>4. codewords' = <<>> <=> Len(codewords') = 0
    BY PayloadTypes DEF IInv, TypeOK, LinksTypeOK
  <2> QED  BY <1>2, <2>3, <2>4
<1>7. BlocksWaiting' = BlocksWaiting - n /\ BlocksWaiting - n \in Nat /\ BlocksWaiting \in Nat
  <2>1. CASE n = Len(codewords)
    <3>1. ~OpensHeader(codewords[Len(codewords)]) /\ codewords' = <<>> /\ Len(codewords') = 0
      BY <1>2, <1>4, <1>6, <2>1
    <3> QED  BY <1>2, <2>1, <3>1 DEF BlocksWaiting
  <2>2. CASE n < Len(codewords)
    <3>1. codewords' # <<>> /\ codewords'[Len(codewords')] = codewords[Len(codewords)]
      BY <1>6, <2>2
    <3>2. BlocksWaiting' = IF OpensHeader(codewords[Len(codewords)])
                           THEN Len(codewords') - 1 ELSE Len(codewords')
      BY <3>1 DEF BlocksWaiting, OpensHeader, IsTagged, FirstTag
    <3>3. BlocksWaiting = IF OpensHeader(codewords[Len(codewords)])
                          THEN Len(codewords) - 1 ELSE Len(codewords)
      BY <1>2 DEF BlocksWaiting
    <3> QED  BY <1>2, <1>6, <2>2, <3>2, <3>3
  <2> QED  BY <1>2, <2>1, <2>2
<1>8. /\ PayloadRead' = PayloadRead /\ Collecting' = Collecting
      /\ UNCHANGED <<m_symb_numb, symb_cr>>
  BY <1>1 DEF syncVars, demodVars, PayloadRead, Collecting, HeaderBegun, PayloadEnd, PayloadIn,
              Asking, Taking
<1>9. ASSUME NEW q \in Nat, ReadSoFar(q)
      PROVE  ReadSoFar(q)'
  <2>1. q - BlocksWaiting \in Nat /\ q - (BlocksWaiting - n) = (q - BlocksWaiting) + n
        /\ BlocksWaiting - n <= q
    BY <1>2, <1>7, <1>9 DEF ReadSoFar
  <2>2. pay_cnt = CountedWith(q - BlocksWaiting)
    BY <1>9 DEF ReadSoFar
  <2>3. pay_cnt' = CountedWith((q - BlocksWaiting) + n)
    BY <1>1, <1>2, <1>5, <2>1, <2>2, CountedMore
  <2>4. CountedWith(q - BlocksWaiting)' = CountedWith((q - BlocksWaiting) + n)
    BY <1>1, <1>7, <2>1 DEF CountedWith, InHeaderBlock
  <2> QED  BY <1>7, <1>8, <1>9, <2>1, <2>3, <2>4 DEF ReadSoFar
<1> QED  BY <1>1, <1>3, <1>8, <1>9 DEF PayloadInv, AnswerGiven, PayloadCounted

\* fft_demod reads a symbol: of a header, or of a payload whose block it
\* completes or not.
LEMMA PayloadDemod ==
  ASSUME IInv, IInv', PayloadInv, FftDemodWork, UNCHANGED <<syncVars, headerVars>>
  PROVE  PayloadInv'
<1>1. /\ symbols # <<>> /\ symbols' = Tail(symbols)
      /\ \/ codewords' = Append(codewords, GrownBlock) /\ output' = <<>>
         \/ codewords' = codewords /\ output' = Grown
  BY DemodOutcome
<1>2. /\ frame_info = <<>> /\ frame_info' = <<>>
      /\ UNCHANGED <<m_impl_head, header, head_err, pay_cnt, m_symb_numb, symb_cr, frame>>
      /\ Len(codewords) \in Nat /\ Len(output) \in Nat
  BY <1>1, NoHeaderBlock, PayloadTypes DEF FftDemodWork, syncVars, headerVars
<1>3. BlocksWaiting = Len(codewords)
  <2>1. ASSUME codewords # <<>> PROVE ~OpensHeader(codewords[Len(codewords)])
    <3>1. Len(codewords) \in 1 .. Len(codewords)
      BY <2>1, PayloadTypes
    <3> QED  BY <1>1, <3>1, NoHeaderBlock
  <2> QED  BY <2>1 DEF BlocksWaiting
<1>4. codewords' = codewords => BlocksWaiting' = BlocksWaiting
  BY DEF BlocksWaiting, OpensHeader, IsTagged, FirstTag
<1>5. ASSUME codewords' = Append(codewords, GrownBlock)
      PROVE  /\ Len(codewords') = Len(codewords) + 1 /\ codewords' # <<>>
             /\ codewords'[Len(codewords')] = GrownBlock
  <2>1. codewords \in Seq([tags : Tags, syms : Seq(Symbols) \ {<<>>}])
        /\ codewords' \in Seq([tags : Tags, syms : Seq(Symbols) \ {<<>>}])
    BY DEF IInv, TypeOK, LinksTypeOK
  <2>2. Len(codewords') = Len(codewords) + 1 /\ Len(codewords) \in Nat
    BY <1>5, <2>1
  <2>3. codewords'[Len(codewords) + 1] = GrownBlock
    BY <1>5, <2>1, <2>2
  <2> QED  BY <2>1, <2>2, <2>3
<1>6. output' = Grown => Len(output') = Len(output) + 1 /\ output' # <<>>
  <2>1. symbols[1] \in [frame : 0 .. FrameIds - 1, idx : Nat, tags : Tags]
    BY <1>1, TailFacts DEF IInv, TypeOK, LinksTypeOK
  <2>2. NextSymbol \in Symbols /\ output \in Seq(Symbols)
    BY <2>1 DEF NextSymbol, Symbols, IInv, TypeOK, DemodTypeOK
  <2> QED  BY <2>2, AppendFacts DEF Grown
<1>7. CASE Opening(symbols[1])
  <2>1. HeaderBegun' /\ HeaderRead' = 1
    BY <1>1, <1>7, LinkAfterRead
  <2>2. output' # <<>>
    <3>1. Len(output') = 1
      BY <2>1 DEF IInv, DemodInHeader
    <3> QED  BY <3>1
  <2>3. codewords' = codewords
    BY <1>1, <2>2
  <2>4. ~HeaderBegun /\ PayloadIn = 0 /\ ~Taking /\ Len(output) = 0 /\ m_symb_numb \in Nat
    BY <1>7, CountingFacts DEF Opening, Asking, Taking, IInv
  <2>5. PayloadRead' = m_symb_numb /\ PayloadRead = m_symb_numb
    BY <1>2, <2>1, <2>4 DEF PayloadRead, PayloadEnd
  <2>6. Collecting' = 0 /\ Collecting = 0
    BY <2>1, <2>4 DEF Collecting
  <2>7. ASSUME NEW q \in Nat, ReadSoFar(q) PROVE ReadSoFar(q)'
    BY <1>2, <1>4, <2>3, <2>5, <2>6, <2>7 DEF ReadSoFar, CountedWith, InHeaderBlock
  <2> QED  BY <1>2, <2>7 DEF PayloadInv, AnswerGiven, PayloadCounted
<1>8. CASE InsideHeader(symbols[1])
  <2>1. HeaderBegun /\ HeaderBegun' /\ HeaderRead' \in 2 .. 8
    BY <1>1, <1>8, LinkAfterRead DEF InsideHeader
  <2>2. BlocksWaiting' = BlocksWaiting
    <3>1. CASE codewords' = Append(codewords, GrownBlock) /\ output' = <<>>
      <4>1. HeaderRead' = 8
        BY <2>1, <3>1 DEF IInv, DemodInHeader
      <4>2. OpensHeader(codewords[Len(codewords)])'
        BY <1>5, <2>1, <3>1, <4>1 DEF IInv, HeaderPending, OpensHeader, IsTagged, FirstTag
      <4> QED  BY <1>2, <1>3, <1>5, <3>1, <4>2 DEF BlocksWaiting, OpensHeader, IsTagged, FirstTag
    <3> QED  BY <1>1, <1>4, <3>1
  <2>3. PayloadRead' = PayloadRead /\ Collecting' = Collecting
    BY <1>2, <2>1 DEF PayloadRead, Collecting
  <2>4. ASSUME NEW q \in Nat, ReadSoFar(q) PROVE ReadSoFar(q)'
    BY <1>2, <2>2, <2>3, <2>4 DEF ReadSoFar, CountedWith, InHeaderBlock
  <2> QED  BY <1>2, <2>4 DEF PayloadInv, AnswerGiven, PayloadCounted
<1>9. CASE InsidePayload(symbols[1])
  <2>1. ~HeaderBegun /\ ~HeaderBegun' /\ PayloadIn' = PayloadIn - 1 /\ PayloadEnd' = PayloadEnd
    BY <1>1, <1>9, LinkAfterRead DEF InsidePayload
  <2>2. PayloadRead' = PayloadRead + 1 /\ PayloadRead \in Int
    BY <2>1, CountingFacts DEF PayloadRead, IInv
  <2>3. Collecting = Len(output) /\ Collecting' = Len(output')
    BY <2>1 DEF Collecting
  <2>4. CASE codewords' = codewords /\ output' = Grown
    <3>1. Collecting' = Collecting + 1
      BY <1>6, <2>3, <2>4
    <3>2. ASSUME NEW q \in Nat, ReadSoFar(q) PROVE ReadSoFar(q)'
      <4> DEFINE b == q * (4 + symb_cr)
      <4>1. PayloadRead = 8 + b + Collecting /\ b \in Int
        <5>1. symb_cr \in {0, 1, 2, 3, 4}
          BY CountingFacts DEF IInv
        <5> QED  BY <3>2, <5>1 DEF ReadSoFar
      <4> HIDE DEF b
      <4>2. PayloadRead' = 8 + b + Collecting'
        BY <1>2, <2>2, <2>3, <3>1, <4>1
      <4> QED  BY <1>2, <1>4, <2>4, <3>2, <4>2 DEF b, ReadSoFar, CountedWith, InHeaderBlock
    <3> QED  BY <1>2, <3>2 DEF PayloadInv, AnswerGiven, PayloadCounted
  <2>5. CASE codewords' = Append(codewords, GrownBlock) /\ output' = <<>>
    <3>1. symb_cr \in {0, 1, 2, 3, 4} /\ Len(output) + 1 = 4 + symb_cr
      BY <1>9, <2>5, PayloadBlockComplete
    <3>2. BlocksWaiting' = BlocksWaiting + 1
      <4>1. Len(codewords') \in 1 .. Len(codewords')
        BY <1>2, <1>5, <2>5
      <4>2. ~OpensHeader(codewords[Len(codewords)])'
        BY <2>1, <4>1 DEF IInv, HeaderBlockLast
      <4> QED  BY <1>3, <1>5, <2>5, <4>2 DEF BlocksWaiting, OpensHeader, IsTagged, FirstTag
    <3>3. Collecting' = 0
      BY <2>3, <2>5
    <3>4. ASSUME NEW q \in Nat, ReadSoFar(q) PROVE ReadSoFar(q + 1)'
      <4>1. PayloadRead' = 8 + (q + 1) * (4 + symb_cr) + Collecting'
        <5>1. PayloadRead = 8 + q * (4 + symb_cr) + Len(output)
          BY <2>3, <3>4 DEF ReadSoFar
        <5>2. q * (4 + symb_cr) + (4 + symb_cr) = (q + 1) * (4 + symb_cr)
              /\ q * (4 + symb_cr) \in Nat
          BY <3>1
        <5> QED  BY <1>2, <2>2, <3>1, <3>3, <5>1, <5>2
      <4>2. BlocksWaiting' <= q + 1 /\ (q + 1) - BlocksWaiting' = q - BlocksWaiting
        BY <1>2, <1>3, <3>2, <3>4 DEF ReadSoFar
      <4>3. pay_cnt' = CountedWith(q - BlocksWaiting)
        BY <1>2, <3>4 DEF ReadSoFar
      <4>4. CountedWith((q + 1) - BlocksWaiting)' = CountedWith(q - BlocksWaiting)
        BY <1>2, <4>2 DEF CountedWith, InHeaderBlock
      <4> QED  BY <1>2, <4>1, <4>2, <4>3, <4>4 DEF ReadSoFar
    <3>5. ASSUME NEW q \in Nat PROVE q + 1 \in Nat
      OBVIOUS
    <3> QED  BY <1>2, <3>4, <3>5 DEF PayloadInv, AnswerGiven, PayloadCounted
  <2> QED  BY <1>1, <2>4, <2>5
<1> QED  BY <1>1, <1>7, <1>8, <1>9, ItemCases

LEMMA PayloadNext == IInv /\ PayloadInv /\ [Next]_vars => PayloadInv'
<1> SUFFICES ASSUME IInv, PayloadInv, [Next]_vars PROVE PayloadInv'
  OBVIOUS
<1>1. IInv'
  BY InvNext
<1>2. CASE SyncStep
  <2>1. UNCHANGED <<demodVars, headerVars>>
    BY <1>2 DEF SyncStep
  <2>2. CASE EndOfFrame \/ \E bin, down \in Bins : SearchWindow(bin, down)
    <3>1. PayloadEnd' - PayloadIn' = PayloadEnd - PayloadIn /\ HeaderBegun' = HeaderBegun
      BY <1>1, <2>2, OutsideSteps, OutsideKept
    <3> QED  BY <2>1, <2>2, <3>1, OutsideSteps, PayloadKept
  <2>3. CASE OutputSymbol
    <3>1. m_impl_head' = m_impl_head
      BY <2>3 DEF OutputSymbol
    <3> QED  BY <2>1, <2>3, <3>1, LinkAfterWrite, PayloadKept
  <2>4. CASE WaitForHeader
    <3>1. UNCHANGED <<links, infoVars, symbol_cnt, m_state>>
      BY <2>4 DEF WaitForHeader
    <3>2. UNCHANGED <<m_impl_head, symbols, codewords, frame_info, m_symb_numb, symb_cr>>
          /\ UNCHANGED <<symbol_cnt, m_state, m_received_head>>
      BY <3>1 DEF links, infoVars
    <3>3. HeaderBegun' = HeaderBegun /\ PayloadEnd' - PayloadIn' = PayloadEnd - PayloadIn
      BY <3>2 DEF HeaderBegun, PayloadIn, PayloadEnd, Asking, Taking
    <3> QED  BY <2>1, <3>2, <3>3, PayloadKept
  <2> QED  BY <1>2, <2>2, <2>3, <2>4 DEF SyncStep, FrameSyncWork
<1>3. CASE HandlerStep
  BY <1>1, <1>3, PayloadAnswer DEF HandlerStep
<1>4. CASE DemodStep
  BY <1>1, <1>4, PayloadDemod DEF DemodStep
<1>5. CASE HeaderStep
  BY <1>1, <1>5, PayloadHeader, PayloadBlocksRead DEF HeaderStep
<1>6. CASE UNCHANGED vars
  <2>1. UNCHANGED <<m_impl_head, symbols, codewords, frame_info, m_symb_numb, symb_cr>>
        /\ UNCHANGED <<symbol_cnt, m_state, m_received_head, demodVars, headerVars>>
    BY <1>6 DEF vars, links, syncVars
  <2>2. HeaderBegun' = HeaderBegun /\ PayloadEnd' - PayloadIn' = PayloadEnd - PayloadIn
    BY <2>1 DEF HeaderBegun, PayloadIn, PayloadEnd, Asking, Taking
  <2> QED  BY <2>1, <2>2, PayloadKept
<1> QED  BY <1>2, <1>3, <1>4, <1>5, <1>6 DEF Next

\* Whatever its length, spreading factor and coding rate, and however the three
\* blocks are scheduled: when header_decoder turns to the next frame it has
\* output all of a payload and its CRC, and no more.
THEOREM PayloadIsComplete == Spec => []PayloadComplete
<1>1. Init => IInv /\ PayloadInv
  BY InvInit, PayloadInit
<1>2. IInv /\ PayloadInv /\ [Next]_vars => (IInv /\ PayloadInv)'
  BY InvNext, PayloadNext
<1>3. ASSUME IInv, PayloadInv PROVE PayloadComplete
  <2> SUFFICES ASSUME codewords # <<>>, OpensHeader(codewords[1]), ~head_err
               PROVE  pay_cnt = FrameNibbles(header)
    BY DEF PayloadComplete
  <2>1. Len(codewords) = 1 /\ frame_info = <<>> /\ HeaderBegun
    BY <1>3, HeaderAlone
  <2>2. BlocksWaiting = 0 /\ Collecting = 0 /\ PayloadRead = m_symb_numb
    BY <2>1 DEF BlocksWaiting, Collecting, PayloadRead
  <2>3. PICK q \in Nat : ReadSoFar(q)
    BY <1>3, <2>1 DEF PayloadInv, PayloadCounted
  <2>4. m_symb_numb = SymbNumb(m_impl_head, header) /\ symb_cr = header.cr
    BY <1>3, <2>1 DEF PayloadInv, PayloadCounted
  <2>5. PICK k \in Nat : /\ SymbNumb(m_impl_head, header) = 8 + k * (4 + header.cr)
                         /\ k * SF >= PayloadNibbles(m_impl_head, header)
    BY <1>3, PayloadTypes, BlockCount
  <2>6. header.cr \in 0 .. 4
    BY <1>3, PayloadTypes
  <2>7. q = k
    <3> DEFINE s == 4 + header.cr
    <3>1. 8 + q * s + 0 = 8 + k * s
      BY <2>2, <2>3, <2>4, <2>5 DEF ReadSoFar
    <3>2. q * s \in Nat /\ k * s \in Nat
      <4>1. header.cr \in {0, 1, 2, 3, 4}
        BY <2>6
      <4> QED  BY <4>1, SMTT(60)
    <3>3. q * s + 0 = k * s
      BY <3>1, <3>2
    <3>4. 0 < 4 + header.cr
      BY <2>6
    <3> QED  BY <2>6, <3>3, <3>4, BlockRemainder
  <2>8. pay_cnt = CountedWith(k)
    <3>1. pay_cnt = CountedWith(q - 0)
      BY <2>2, <2>3 DEF ReadSoFar
    <3> QED  BY <2>7, <3>1
  <2> DEFINE p == PayloadNibbles(m_impl_head, header)
             f == FrameNibbles(header)
  <2>9. p \in 1 .. 1023 /\ f = InHeaderBlock + p /\ SF \in 7 .. 12
    BY <1>3, PayloadTypes
  <2>10. k * SF \in Nat
    <3>1. SF \in {7, 8, 9, 10, 11, 12}
      BY <2>9
    <3> QED  BY <3>1
  <2>11. CASE k * SF <= p
    <3>1. k * SF = p
      <4> DEFINE m == k * SF
      <4>1. m \in Nat /\ m >= p /\ m <= p
        BY <2>5, <2>10, <2>11, Zenon
      <4> HIDE DEF m, p
      <4>2. m = p
        BY <2>9, <4>1
      <4> QED  BY <4>2 DEF m
    <3>2. pay_cnt = InHeaderBlock + k * SF
      BY <2>8, <2>11 DEF CountedWith
    <3> QED  BY <2>9, <3>1, <3>2
  <2>12. CASE ~(k * SF <= p)
    BY <2>8, <2>12 DEF CountedWith
  <2> QED  BY <2>11, <2>12
<1> QED  BY <1>1, <1>2, <1>3, PTL DEF Spec
=============================================================================
