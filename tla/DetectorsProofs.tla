--------------------------- MODULE DetectorsProofs ---------------------------
(***************************************************************************)
(* Proofs about FrameDetectors: what each of the three blocks passes on,   *)
(* for symbols of any length, preambles, windows and inputs of any number  *)
(* of symbols, any range of m_cnt and any room offered.                    *)
(***************************************************************************)
EXTENDS FrameDetectors, TLAPS

\* Symbols that make a preamble.
Needed == IF kind = "sequence" THEN NUp - 1 ELSE NUp

SecondMode == kind = "timeout" /\ m_detect_second_packet

\* The search counts a run.
Searching == m_state = "FIND_PREAMBLE" \/ (SecondMode /\ m_state = "SEND_FRAME")

\* The buffer is on its way to the output.
Flushing == m_state = "SEND_BUFFER" \/ (m_state = "SEND_PREAMBLE" /\ kind # "sequence")

\* The input item that comes next in the output.
Coming == IF buffer = <<>> THEN pos ELSE buffer[1]

\* The frame in hand.
Frame == began[Len(began)]

TagSet == [at : Nat, value : {"start", "end", "work_done"}]
BeginningSet == [at : Nat \ {0}, from : Nat]

Typed ==
  /\ TypeOK
  /\ m_detect_second_packet \in BOOLEAN /\ room_kept \in BOOLEAN
  /\ buffer \in Seq(Nat) /\ passed \in Seq(Nat) /\ out \in Seq(Int)
  /\ tags \in Seq(TagSet)
  /\ began \in Seq(BeginningSet)
  /\ run \in Nat /\ same \in Nat /\ last_bin \in Int

\* The states each of the blocks has; one of them does not count the symbols.
StatesOfKind ==
  /\ kind = "timeout" => m_state \notin {"SEND_BUFFER", "SEND_END_FRAME"}
  /\ kind = "threshold" => m_state # "SEND_BUFFER"
  /\ kind = "sequence" => m_cnt = 0

\* Every count is one of symbols that have been read.
CountsInInput ==
  /\ symbol_cnt * SamplesPerSymbol <= pos
  /\ m_state = "FIND_PREAMBLE" => m_cnt = 0
  /\ m_state # "FIND_PREAMBLE" =>
       /\ 2 * SamplesPerSymbol <= pos
       /\ m_cnt * SamplesPerSymbol <= pos
       /\ m_state # "SEND_END_FRAME" => (m_cnt + 1) * SamplesPerSymbol <= pos

\* The buffer is a piece of the input, the last that was read.
BufferOfInput ==
  /\ \A k \in 1 .. Len(buffer) : buffer[k] = Coming + k - 1
  /\ Coming + Len(buffer) <= pos
  /\ HasSymbol => Coming + Len(buffer) = pos
  /\ Flushing => buffer # <<>>
  /\ ~Flushing /\ ~Searching => buffer = <<>>

\* While a preamble is looked for, the buffer holds the run without or with its
\* first symbol; while a second one is looked for, as much as has been kept back.
BufferLength ==
  /\ m_state = "FIND_PREAMBLE" =>
       \/ Len(buffer) = symbol_cnt * SamplesPerSymbol
       \/ symbol_cnt > 0 /\ Len(buffer) = (symbol_cnt - 1) * SamplesPerSymbol
  /\ SecondMode /\ m_state = "SEND_FRAME" =>
       \E w \in symbol_cnt .. NUp : Len(buffer) = w * SamplesPerSymbol

\* A run ends at the read position.
RunBegins ==
  /\ Searching => symbol_cnt < Needed
  /\ symbol_cnt > 0 => Searching \/ (kind = "sequence" /\ m_state = "SEND_FRAME")
  /\ Searching /\ symbol_cnt > 0 /\ HasSymbol => run + symbol_cnt * SamplesPerSymbol = pos

\* Equal symbols are in the run.
EqualInRun ==
  ~SecondMode =>
    IF m_state = "FIND_PREAMBLE"
    THEN same <= symbol_cnt /\ (same > 0 => last_bin - bin_idx \in -1 .. 1)
    ELSE same = 0

\* Every frame has been begun but the one whose preamble is on its way.
FramesBegun ==
  /\ m_state # "FIND_PREAMBLE" => began # <<>>
  /\ \A f \in 1 .. Len(began) :
       began[f].at > Len(passed) =>
         began[f].at = Len(passed) + 1 /\ f = Len(began) /\ Flushing

\* Input is passed on in order, within a frame without gaps.
NextInFrame ==
  passed # <<>> =>
    /\ passed[Len(passed)] < Coming
    /\ m_state # "FIND_PREAMBLE" /\ Frame.at <= Len(passed) =>
         passed[Len(passed)] + 1 = Coming \/ (buffer = <<>> /\ ~HasSymbol)

\* The frame whose first item comes next.
PreambleNext ==
  m_state # "FIND_PREAMBLE" /\ Frame.at > Len(passed) =>
    Coming - Frame.from \in {-SamplesPerSymbol, 0, SamplesPerSymbol}

\* The k-th tag is on an item behind one that has been written.
EndInside(k) ==
  tags[k].value = "end" =>
    /\ k \div 2 \in 1 .. Len(began)
    /\ tags[k].at \in 2 .. Len(out) + 1
    /\ out[tags[k].at - 1] = Pad => tags[k].at >= 3

\* frame_detector_timeout tags the beginning and the end of every frame; the
\* other blocks have no other tag than "work_done", the last one.
TagsOfFrames ==
  /\ HasSymbol => \A k \in 1 .. Len(tags) : tags[k].value # "work_done"
  /\ kind # "timeout" /\ HasSymbol => tags = <<>>
  /\ kind = "timeout" /\ HasSymbol =>
       Len(tags) = IF m_state = "FIND_PREAMBLE" THEN 2 * Len(began) ELSE 2 * Len(began) - 1
  /\ \A k \in 1 .. Len(tags) : EndInside(k)

\* The item before the one that comes next is the last one written.
LastWritten ==
  kind = "timeout" /\ m_state = "SEND_FRAME" /\ HasSymbol =>
    out # <<>> /\ out[Len(out)] = Coming - 1

\* The place in the window of the frame in hand, counted by m_cnt.
WindowPlace ==
  kind = "timeout" /\ HasSymbol =>
    /\ m_cnt < CntRange
    /\ m_state = "FIND_PREAMBLE" => m_n_bytes = NBytes
    /\ m_state = "SEND_PREAMBLE" =>
         /\ pos = Frame.from + NUp * SamplesPerSymbol
         /\ IF SecondMode THEN m_n_bytes = (m_cnt + NBytes) % CntRange
            ELSE m_cnt = 0 /\ m_n_bytes = NBytes
    /\ m_state = "SEND_FRAME" /\ ~SecondMode =>
         /\ m_cnt <= NBytes /\ m_n_bytes = NBytes
         /\ pos = IF m_cnt = 0 THEN Frame.from + NUp * SamplesPerSymbol
                  ELSE Frame.from + NUp * SamplesPerSymbol
                         + ((m_cnt - 1) * SamplesPerSymbol + (SamplesPerSymbol \div 4))
    /\ m_state = "SEND_FRAME" /\ SecondMode =>
         \E w \in 0 .. NBytes :
           /\ m_n_bytes = (m_cnt + (NBytes - w)) % CntRange
           /\ Coming = Frame.from + NUp * SamplesPerSymbol + w * SamplesPerSymbol

\* The inductive invariant.
IInv ==
  /\ Typed /\ StatesOfKind /\ CountsInInput
  /\ BufferOfInput /\ BufferLength /\ RunBegins /\ EqualInRun /\ RoomKept
  /\ FramesBegun /\ NextInFrame /\ NothingLostInside
  /\ PreambleNext /\ StartsInPreamble
  /\ TagsOfFrames /\ LastWritten /\ WindowPlace /\ FramesTagged

----------------------------------------------------------------------------
(***************************************************************************)
(* Facts about sizes and sequences.                                        *)
(***************************************************************************)

LEMMA SizeFacts ==
  /\ SamplesPerSymbol \in Nat /\ SamplesPerSymbol >= 4
  /\ SamplesPerSymbol \div 4 \in 1 .. SamplesPerSymbol
  /\ NUp \in Nat /\ NUp >= 3
  /\ InputSymbols * SamplesPerSymbol \in Nat
<1>1. SamplesPerSymbol \in Nat \ {0} /\ SamplesPerSymbol % 4 = 0
  BY DetectorAssumption
<1>2. SamplesPerSymbol >= 4 /\ SamplesPerSymbol \div 4 \in 1 .. SamplesPerSymbol
  BY <1>1
<1>3. InputSymbols * SamplesPerSymbol \in Nat
  BY <1>1, DetectorAssumption
<1> QED  BY <1>1, <1>2, <1>3, DetectorAssumption

\* Numbers of symbols and numbers of items.
LEMMA Products ==
  ASSUME NEW a \in Nat
  PROVE  /\ a * SamplesPerSymbol \in Nat
         /\ (a + 1) * SamplesPerSymbol = a * SamplesPerSymbol + SamplesPerSymbol
         /\ a > 0 => /\ (a - 1) * SamplesPerSymbol = a * SamplesPerSymbol - SamplesPerSymbol
                     /\ (a - 1) * SamplesPerSymbol \in Nat
                     /\ SamplesPerSymbol <= a * SamplesPerSymbol
<1>1. SamplesPerSymbol \in Nat
  BY SizeFacts
<1>2. a * SamplesPerSymbol \in Nat
  BY <1>1
<1>3. (a + 1) * SamplesPerSymbol = a * SamplesPerSymbol + SamplesPerSymbol
  BY <1>1
<1>4. ASSUME a > 0
      PROVE  /\ (a - 1) * SamplesPerSymbol = a * SamplesPerSymbol - SamplesPerSymbol
             /\ (a - 1) * SamplesPerSymbol \in Nat
             /\ SamplesPerSymbol <= a * SamplesPerSymbol
  <2>1. a - 1 \in Nat
    BY <1>4
  <2>2. PICK m \in Nat : m = (a - 1) * SamplesPerSymbol
    <3>1. (a - 1) * SamplesPerSymbol \in Nat
      BY <1>1, <2>1
    <3> QED  BY <3>1
  <2>3. (a - 1) * SamplesPerSymbol = a * SamplesPerSymbol - SamplesPerSymbol
    BY <1>1
  <2> QED  BY <1>1, <1>2, <2>2, <2>3
<1> QED  BY <1>2, <1>3, <1>4

LEMMA ProductOrder ==
  ASSUME NEW a \in Nat, NEW b \in Nat, a * SamplesPerSymbol <= b * SamplesPerSymbol
  PROVE  a <= b
<1>1. SamplesPerSymbol \in Nat /\ SamplesPerSymbol >= 4
  BY SizeFacts
<1> SUFFICES ASSUME b + 1 <= a PROVE FALSE
  OBVIOUS
<1>2. PICK d \in Nat : a = b + 1 + d
  <2>1. a - (b + 1) \in Nat /\ a = b + 1 + (a - (b + 1))
    OBVIOUS
  <2> QED  BY <2>1
<1>3. a * SamplesPerSymbol = b * SamplesPerSymbol + SamplesPerSymbol + d * SamplesPerSymbol
  BY <1>1, <1>2
<1>4. d * SamplesPerSymbol \in Nat /\ b * SamplesPerSymbol \in Nat
  BY <1>1
<1> QED  BY <1>1, <1>3, <1>4

LEMMA ProductMono ==
  ASSUME NEW a \in Nat, NEW b \in Nat, a <= b
  PROVE  a * SamplesPerSymbol <= b * SamplesPerSymbol
<1>1. SamplesPerSymbol \in Nat /\ SamplesPerSymbol >= 4
  BY SizeFacts
<1>2. PICK d \in Nat : b = a + d
  <2>1. b - a \in Nat /\ b = a + (b - a)
    OBVIOUS
  <2> QED  BY <2>1
<1>3. b * SamplesPerSymbol = a * SamplesPerSymbol + d * SamplesPerSymbol
  BY <1>1, <1>2
<1>4. d * SamplesPerSymbol \in Nat /\ a * SamplesPerSymbol \in Nat
  BY <1>1
<1> QED  BY <1>3, <1>4

\* A count of symbols that have been read.
LEMMA CountBounded ==
  ASSUME NEW c \in Nat, NEW p \in Nat, c * SamplesPerSymbol <= p,
         p <= InputSymbols * SamplesPerSymbol
  PROVE  c \in 0 .. InputSymbols
<1>1. InputSymbols \in Nat /\ InputSymbols * SamplesPerSymbol \in Nat
      /\ c * SamplesPerSymbol \in Nat
  BY SizeFacts, Products, DetectorAssumption
<1>2. c * SamplesPerSymbol <= InputSymbols * SamplesPerSymbol
  BY <1>1
<1> QED  BY <1>1, <1>2, ProductOrder

LEMMA ConcatFacts ==
  ASSUME NEW T, NEW s \in Seq(T), NEW u \in Seq(T)
  PROVE  /\ s \o u \in Seq(T) /\ Len(s \o u) = Len(s) + Len(u)
         /\ \A k \in 1 .. Len(s) : (s \o u)[k] = s[k]
         /\ \A k \in 1 .. Len(u) : (s \o u)[Len(s) + k] = u[k]
  OBVIOUS

LEMMA AppendFacts ==
  ASSUME NEW T, NEW s \in Seq(T), NEW x \in T
  PROVE  /\ Append(s, x) \in Seq(T) /\ Len(Append(s, x)) = Len(s) + 1
         /\ \A k \in 1 .. Len(s) : Append(s, x)[k] = s[k]
         /\ Append(s, x)[Len(s) + 1] = x
  OBVIOUS

LEMMA PieceFacts ==
  ASSUME NEW T, NEW s \in Seq(T), NEW n \in 0 .. Len(s)
  PROVE  /\ SubSeq(s, 1, n) \in Seq(T) /\ Len(SubSeq(s, 1, n)) = n
         /\ \A k \in 1 .. n : SubSeq(s, 1, n)[k] = s[k]
         /\ SubSeq(s, n + 1, Len(s)) \in Seq(T) /\ Len(SubSeq(s, n + 1, Len(s))) = Len(s) - n
         /\ \A k \in 1 .. Len(s) - n : SubSeq(s, n + 1, Len(s))[k] = s[n + k]
<1>1. SubSeq(s, 1, n) \in Seq(T) /\ Len(SubSeq(s, 1, n)) = n
      /\ \A k \in 1 .. n : SubSeq(s, 1, n)[k] = s[k]
  OBVIOUS
<1>2. SubSeq(s, n + 1, Len(s)) \in Seq(T) /\ Len(SubSeq(s, n + 1, Len(s))) = Len(s) - n
  OBVIOUS
<1>3. \A k \in 1 .. Len(s) - n : SubSeq(s, n + 1, Len(s))[k] = s[n + k]
  OBVIOUS
<1> QED  BY <1>1, <1>2, <1>3

LEMMA ItemsFacts ==
  ASSUME pos \in Nat, NEW n \in Nat
  PROVE  /\ Items(n) \in Seq(Nat) /\ Len(Items(n)) = n
         /\ \A k \in 1 .. n : Items(n)[k] = pos + k - 1
  BY DEF Items

LEMMA PadFacts ==
  ASSUME NEW n \in Nat
  PROVE  /\ [k \in 1 .. n |-> Pad] \in Seq(Int) /\ Len([k \in 1 .. n |-> Pad]) = n
         /\ \A k \in 1 .. n : [j \in 1 .. n |-> Pad][k] = Pad
  BY DEF Pad

\* What the invariant says of the types, the constants included.
LEMMA Types ==
  ASSUME IInv
  PROVE  /\ kind \in {"timeout", "threshold", "sequence"}
         /\ pos \in Nat /\ pos <= InputSymbols * SamplesPerSymbol
         /\ m_state \in {"FIND_PREAMBLE", "SEND_BUFFER", "SEND_PREAMBLE", "SEND_FRAME", "SEND_END_FRAME"}
         /\ bin_idx \in Nat /\ symbol_cnt \in Nat /\ m_cnt \in Nat
         /\ m_n_bytes \in 0 .. CntRange - 1
         /\ cnt_padding \in 0 .. InterFramePadding
         /\ m_detect_second_packet \in BOOLEAN /\ room_kept \in BOOLEAN
         /\ buffer \in Seq(Nat) /\ passed \in Seq(Nat) /\ out \in Seq(Int)
         /\ tags \in Seq(TagSet)
         /\ began \in Seq(BeginningSet)
         /\ run \in Nat /\ same \in Nat /\ last_bin \in Int
<1>1. InputSymbols * SamplesPerSymbol \in Nat /\ InputSymbols \in Nat
  BY SizeFacts, DetectorAssumption
<1>2. TypeOK
  BY DEF IInv, Typed
<1>3. /\ pos \in Nat /\ pos <= InputSymbols * SamplesPerSymbol
      /\ symbol_cnt \in Nat /\ m_cnt \in Nat
  BY <1>1, <1>2 DEF TypeOK
<1> QED  BY <1>2, <1>3 DEF IInv, Typed, TypeOK

LEMMA BeginningTypes ==
  ASSUME NEW b \in BeginningSet
  PROVE  b.at \in Nat \ {0} /\ b.at \in Nat /\ b.from \in Nat
  BY DEF BeginningSet

LEMMA TagTypes ==
  ASSUME NEW t \in TagSet
  PROVE  t.at \in Nat /\ t.value \in {"start", "end", "work_done"}
  BY DEF TagSet

\* The item that comes next is one of the input, not behind the read position.
LEMMA ComingFacts ==
  ASSUME IInv
  PROVE  /\ Coming \in Nat /\ Len(buffer) \in Nat /\ Coming + Len(buffer) <= pos
         /\ buffer = <<>> => Coming = pos
         /\ HasSymbol => Coming + Len(buffer) = pos
         /\ \A k \in 1 .. Len(buffer) : buffer[k] = Coming + k - 1
<1>1. buffer \in Seq(Nat) /\ pos \in Nat
  BY Types
<1>2. Coming \in Nat
  BY <1>1 DEF Coming
<1> QED  BY <1>1, <1>2 DEF Coming, IInv, BufferOfInput

LEMMA InitIInv == Init => IInv
<1> SUFFICES ASSUME Init PROVE IInv
  OBVIOUS
<1> USE DEF Init, DetectorInit, TimeoutInit, ThresholdInit
<1>1. /\ SamplesPerSymbol \in Nat /\ NUp \in Nat /\ NUp >= 3 /\ InputSymbols \in Nat
      /\ InputSymbols * SamplesPerSymbol \in Nat /\ (NUp + 1) * SamplesPerSymbol \in Nat
  <2>1. SamplesPerSymbol \in Nat /\ NUp + 1 \in Nat
    BY SizeFacts
  <2> QED  BY <2>1, SizeFacts, Products, DetectorAssumption
<1>2. 0 * SamplesPerSymbol = 0
  BY <1>1
<1>3. Coming = 0 /\ Len(buffer) = 0
  BY DEF Coming
<1>4. TypeOK
  <2>1. bin_idx \in Nat
    OBVIOUS
  <2>2. m_n_bytes \in 0 .. CntRange - 1
    BY TimeoutAssumption
  <2>3. cnt_padding \in 0 .. InterFramePadding
    BY ThresholdAssumption
  <2> QED  BY <1>1, <1>3, <2>1, <2>2, <2>3 DEF TypeOK
<1>5. Typed
  BY <1>4 DEF Typed
<1>6. StatesOfKind /\ CountsInInput
  BY <1>2 DEF StatesOfKind, CountsInInput
<1>7. BufferOfInput /\ BufferLength
  BY <1>2, <1>3 DEF BufferOfInput, BufferLength, Flushing, Searching
<1>8. RunBegins /\ EqualInRun /\ RoomKept
  BY <1>1 DEF RunBegins, EqualInRun, RoomKept, Needed, Searching
<1>9. FramesBegun /\ NextInFrame /\ NothingLostInside /\ PreambleNext /\ StartsInPreamble
  BY DEF FramesBegun, NextInFrame, NothingLostInside, PreambleNext, StartsInPreamble
<1>10. TagsOfFrames /\ LastWritten /\ FramesTagged
  BY DEF TagsOfFrames, LastWritten, FramesTagged
<1>11. WindowPlace
  BY TimeoutAssumption DEF WindowPlace
<1> QED  BY <1>5, <1>6, <1>7, <1>8, <1>9, <1>10, <1>11 DEF IInv

----------------------------------------------------------------------------
(***************************************************************************)
(* Steps of the output.                                                    *)
(***************************************************************************)

\* The items that come next are passed on.
LEMMA PassedMore ==
  ASSUME IInv, m_state # "FIND_PREAMBLE", HasSymbol \/ buffer # <<>>,
         NEW n \in Nat \ {0}, passed' \in Seq(Nat), Len(passed') = Len(passed) + n,
         \A k \in 1 .. Len(passed) : passed'[k] = passed[k],
         \A k \in 1 .. n : passed'[Len(passed) + k] = Coming + k - 1,
         began' = began, Coming' \in Nat,
         Coming' = Coming + n \/ (buffer' = <<>> /\ ~HasSymbol' /\ Coming' > Coming + n - 1)
  PROVE  /\ passed' # <<>>
         /\ passed'[Len(passed')] = Coming + n - 1
         /\ \A f \in 1 .. Len(began') : began'[f].at <= Len(passed')
         /\ NothingLostInside' /\ StartsInPreamble'
         /\ FramesBegun' /\ NextInFrame' /\ PreambleNext'
<1>1. PICK L \in Nat : L = Len(passed)
  BY Types
<1>2. passed \in Seq(Nat) /\ began \in Seq(BeginningSet) /\ began # <<>>
  BY Types DEF IInv, FramesBegun
<1>3. PICK c \in Nat : c = Coming
  BY ComingFacts
<1>4. /\ passed' \in Seq(Nat) /\ Len(passed') = L + n
      /\ \A k \in 1 .. L : passed'[k] = passed[k]
      /\ \A k \in 1 .. n : passed'[L + k] = c + k - 1
  BY <1>1, <1>3
<1>5. passed'[L + n] = c + n - 1 /\ passed'[L + 1] = c
  <2>1. n \in 1 .. n /\ 1 \in 1 .. n
    OBVIOUS
  <2>2. passed'[L + n] = c + n - 1 /\ passed'[L + 1] = c + 1 - 1
    BY <1>4, <2>1
  <2> QED  BY <2>2
<1>6. \A f \in 1 .. Len(began) :
        /\ began[f] \in BeginningSet
        /\ began[f].at > L => began[f].at = L + 1 /\ f = Len(began)
  <2>1. \A f \in 1 .. Len(began) : began[f] \in BeginningSet
    BY <1>2
  <2>2. \A f \in 1 .. Len(began) : began[f].at > L => began[f].at = L + 1 /\ f = Len(began)
    BY <1>1 DEF IInv, FramesBegun
  <2> QED  BY <2>1, <2>2
<1>7. \A f \in 1 .. Len(began) : began[f].at <= L + n
  <2> SUFFICES ASSUME NEW f \in 1 .. Len(began) PROVE began[f].at <= L + n
    OBVIOUS
  <2>1. PICK a \in Nat : a = began[f].at
    BY <1>6, BeginningTypes
  <2>2. a > L => a = L + 1
    BY <1>6, <2>1
  <2> QED  BY <2>1, <2>2, SMTT(60)
<1>8. Len(began) \in 1 .. Len(began) /\ Len(began) \in Nat
  BY <1>2
<1>9. Frame.at \in Nat /\ Frame.from \in Nat
  BY <1>6, <1>8, BeginningTypes DEF Frame
<1>10. NothingLostInside'
  <2> SUFFICES ASSUME NEW k \in 1 .. (L + n) - 1
               PROVE  \/ passed'[k + 1] = passed'[k] + 1
                      \/ /\ passed'[k + 1] > passed'[k]
                         /\ \E f \in 1 .. Len(began) : began[f].at = k + 1
    BY <1>4 DEF NothingLostInside
  <2>1. CASE k < L
    <3>1. k \in 1 .. L - 1 /\ k \in 1 .. L /\ k + 1 \in 1 .. L
      BY <2>1
    <3>2. \/ passed[k + 1] = passed[k] + 1
          \/ passed[k + 1] > passed[k] /\ \E f \in 1 .. Len(began) : began[f].at = k + 1
      BY <1>1, <3>1 DEF IInv, NothingLostInside
    <3>3. passed'[k] = passed[k] /\ passed'[k + 1] = passed[k + 1]
      BY <1>4, <3>1
    <3> QED  BY <3>2, <3>3
  <2>2. CASE k = L
    <3>1. passed # <<>> /\ L \in 1 .. L /\ passed'[k] = passed[L]
      BY <1>1, <1>4, <2>2
    <3>2. PICK l \in Nat : l = passed[L]
      BY <1>1, <1>2, <3>1
    <3>3. l < c
      BY <1>1, <1>3, <3>1, <3>2 DEF IInv, NextInFrame
    <3>4. CASE Frame.at <= L
      <4>1. l + 1 = c
        BY <1>1, <1>3, <3>1, <3>2, <3>4 DEF IInv, NextInFrame
      <4> QED  BY <1>5, <2>2, <3>1, <3>2, <4>1
    <3>5. CASE Frame.at > L
      <4>1. began[Len(began)].at = L + 1
        BY <1>6, <1>8, <3>5 DEF Frame
      <4> QED  BY <1>5, <1>8, <2>2, <3>1, <3>2, <3>3, <4>1
    <3> QED  BY <1>9, <3>4, <3>5
  <2>3. CASE k > L
    <3>1. PICK j \in 1 .. n - 1 : k = L + j
      <4>1. k - L \in 1 .. n - 1 /\ k = L + (k - L)
        BY <2>3
      <4> QED  BY <4>1
    <3>2. j \in 1 .. n /\ j + 1 \in 1 .. n /\ k + 1 = L + (j + 1)
      BY <3>1
    <3>3. passed'[k] = c + j - 1 /\ passed'[k + 1] = c + (j + 1) - 1
      BY <1>4, <3>1, <3>2
    <3>4. passed'[k + 1] = passed'[k] + 1
      BY <3>3
    <3> QED  BY <3>4
  <2> QED  BY <2>1, <2>2, <2>3
<1>11. StartsInPreamble'
  <2> SUFFICES ASSUME NEW f \in 1 .. Len(began)
               PROVE  passed'[began[f].at] - began[f].from
                        \in {-SamplesPerSymbol, 0, SamplesPerSymbol}
    BY DEF StartsInPreamble
  <2>1. PICK a \in Nat \ {0} : a = began[f].at
    BY <1>6, BeginningTypes
  <2>2. CASE a <= L
    <3>1. a \in 1 .. L
      BY <2>2
    <3>2. passed[a] - began[f].from \in {-SamplesPerSymbol, 0, SamplesPerSymbol}
      BY <1>1, <2>1, <2>2 DEF IInv, StartsInPreamble
    <3> QED  BY <1>4, <2>1, <3>1, <3>2
  <2>3. CASE a > L
    <3>1. a = L + 1 /\ f = Len(began)
      BY <1>6, <2>1, <2>3
    <3>2. c - began[f].from \in {-SamplesPerSymbol, 0, SamplesPerSymbol}
      BY <1>1, <1>3, <2>1, <2>3, <3>1 DEF IInv, PreambleNext, Frame
    <3> QED  BY <1>5, <2>1, <3>1, <3>2
  <2> QED  BY <2>2, <2>3
<1>12. passed' # <<>> /\ passed'[Len(passed')] = Coming + n - 1
  BY <1>3, <1>4, <1>5
<1>13. \A f \in 1 .. Len(began') : began'[f].at <= Len(passed')
  BY <1>4, <1>7
<1>14. began' # <<>> /\ began'[Len(began')] = Frame /\ Frame' = Frame /\ Len(passed') \in Nat
  BY <1>2, <1>4 DEF Frame
<1>15. FramesBegun' /\ PreambleNext'
  <2>1. \A f \in 1 .. Len(began') : ~(began'[f].at > Len(passed'))
    <3> SUFFICES ASSUME NEW f \in 1 .. Len(began') PROVE ~(began'[f].at > Len(passed'))
      OBVIOUS
    <3>1. began'[f].at <= Len(passed') /\ began'[f].at \in Nat
      BY <1>6, <1>13, BeginningTypes
    <3> QED  BY <1>14, <3>1
  <2>2. ~(Frame'.at > Len(passed'))
    <3>1. Len(began') \in 1 .. Len(began')
      BY <1>8
    <3> QED  BY <1>14, <2>1, <3>1
  <2> QED  BY <1>14, <2>1, <2>2 DEF FramesBegun, PreambleNext
<1>16. NextInFrame'
  <2>1. Coming + n - 1 < Coming' /\ (Coming + n - 1) + 1 = Coming + n
    BY <1>3
  <2> QED  BY <1>12, <2>1 DEF NextInFrame
<1> QED  BY <1>4, <1>10, <1>11, <1>12, <1>13, <1>15, <1>16

\* t begins with s.
Grown(s, t) == Len(s) <= Len(t) /\ \A k \in 1 .. Len(s) : t[k] = s[k]

\* Nothing is passed on: what holds of the items passed on stays.
LEMMA PassedKept ==
  ASSUME IInv, passed' = passed, Grown(began, began'), began' \in Seq(BeginningSet),
         \A f \in Len(began) + 1 .. Len(began') : began'[f].at = Len(passed) + 1
  PROVE  NothingLostInside' /\ StartsInPreamble'
<1>1. /\ \A f \in 1 .. Len(began) : began'[f] = began[f] /\ f \in 1 .. Len(began')
      /\ Len(began) \in Nat /\ Len(began') \in Nat
  BY Types, SMTT(60) DEF Grown
<1>2. NothingLostInside'
  <2> SUFFICES ASSUME NEW k \in 1 .. Len(passed) - 1
               PROVE  \/ passed[k + 1] = passed[k] + 1
                      \/ /\ passed[k + 1] > passed[k]
                         /\ \E f \in 1 .. Len(began') : began'[f].at = k + 1
    BY DEF NothingLostInside
  <2>1. ASSUME NEW f \in 1 .. Len(began), began[f].at = k + 1
        PROVE  \E g \in 1 .. Len(began') : began'[g].at = k + 1
    <3>1. f \in 1 .. Len(began') /\ began'[f].at = k + 1
      BY <1>1, <2>1
    <3> QED  BY <3>1
  <2> QED  BY <2>1 DEF IInv, NothingLostInside
<1>3. StartsInPreamble'
  <2> SUFFICES ASSUME NEW f \in 1 .. Len(began'), began'[f].at <= Len(passed)
               PROVE  passed[began'[f].at] - began'[f].from
                        \in {-SamplesPerSymbol, 0, SamplesPerSymbol}
    BY DEF StartsInPreamble
  <2>1. CASE f \in 1 .. Len(began)
    BY <1>1, <2>1 DEF IInv, StartsInPreamble
  <2>2. CASE f \notin 1 .. Len(began)
    <3>1. f \in Len(began) + 1 .. Len(began')
      BY <1>1, <2>2
    <3>2. Len(passed) \in Nat /\ began'[f].at = Len(passed) + 1
      BY <3>1, Types, SMTT(60)
    <3> QED  BY <3>2
  <2> QED  BY <2>1, <2>2
<1> QED  BY <1>2, <1>3

LEMMA SameGrown ==
  ASSUME NEW s, NEW T, s \in Seq(T)
  PROVE  Grown(s, s)
  BY DEF Grown

\* A tag stays where it belongs.
LEMMA OldTags ==
  ASSUME IInv, Grown(out, out'), Grown(tags, tags'), Grown(began, began'),
         out' \in Seq(Int), tags' \in Seq(TagSet), began' \in Seq(BeginningSet),
         UNCHANGED m_detect_second_packet,
         HasSymbol \/ Len(tags') = Len(tags),
         NEW k \in 1 .. Len(tags)
  PROVE  TaggedRight(k)' /\ EndInside(k)'
<1>1. tags'[k] = tags[k] /\ tags[k] \in TagSet /\ Len(tags) <= Len(tags')
  BY Types, SMTT(60) DEF Grown
<1>2. TaggedRight(k) /\ EndInside(k)
  BY DEF IInv, FramesTagged, TagsOfFrames
<1>3. CASE tags[k].value # "end"
  <2>1. EndInside(k)'
    BY <1>1, <1>3 DEF EndInside
  <2>2. CASE tags[k].value = "work_done"
    <3>1. ~HasSymbol
      BY <2>2 DEF IInv, TagsOfFrames
    <3>2. k = Len(tags)
      BY <1>2, <1>3, <2>2 DEF TaggedRight
    <3> QED  BY <1>1, <2>1, <2>2, <3>1, <3>2 DEF TaggedRight
  <2>3. CASE tags[k].value # "work_done"
    <3>1. tags[k].value = "start" /\ k % 2 = 1
      BY <1>2, <1>3, <2>3 DEF TaggedRight
    <3> QED  BY <1>1, <2>1, <3>1 DEF TaggedRight
  <2> QED  BY <2>2, <2>3
<1>4. CASE tags[k].value = "end"
  <2>1. PICK f \in 1 .. Len(began) : f = k \div 2
    BY <1>2, <1>4 DEF EndInside
  <2>2. PICK L \in Nat, M \in Nat : L = Len(out) /\ M = Len(out') /\ L <= M
    BY Types DEF Grown
  <2>3. PICK a \in 2 .. L + 1 : a = tags[k].at
    BY <1>2, <1>4, <2>2 DEF EndInside
  <2>4. a - 1 \in 1 .. L /\ out'[a - 1] = out[a - 1]
    <3>1. a - 1 \in 1 .. L
      BY <2>3, SMTT(60)
    <3> QED  BY <2>2, <3>1 DEF Grown
  <2>5. out[a - 1] = Pad => a >= 3 /\ a - 2 \in 1 .. L /\ out'[a - 2] = out[a - 2]
    <3>1. out[a - 1] = Pad => a >= 3
      BY <1>2, <1>4, <2>3 DEF EndInside
    <3>2. a >= 3 => a - 2 \in 1 .. L
      BY <2>3, SMTT(60)
    <3> QED  BY <2>2, <3>1, <3>2 DEF Grown
  <2>6. began'[f] = began[f] /\ f \in 1 .. Len(began') /\ Len(began) <= Len(began')
    BY Types DEF Grown
  <2>7. LastOf(f)' = LastOf(f)
    BY <2>6 DEF LastOf, WindowLength
  <2>8. EndInside(k)'
    <3>1. a \in 2 .. M + 1
      BY <2>2, <2>3
    <3> QED  BY <1>1, <2>1, <2>2, <2>3, <2>4, <2>5, <2>6, <3>1 DEF EndInside
  <2>9. /\ k % 2 = 0
        /\ IF out[a - 1] = Pad THEN k < Len(tags) /\ out[a - 2] <= LastOf(f)
           ELSE out[a - 1] = LastOf(f)
    BY <1>2, <1>4, <2>1, <2>3 DEF TaggedRight
  <2>10. k < Len(tags) => k < Len(tags')
    BY <1>1, Types
  <2>11. /\ k % 2 = 0
         /\ IF out'[a - 1] = Pad THEN k < Len(tags') /\ out'[a - 2] <= LastOf(f)'
            ELSE out'[a - 1] = LastOf(f)'
    BY <2>4, <2>5, <2>7, <2>9, <2>10
  <2>12. TaggedRight(k)'
    BY <1>1, <1>4, <2>1, <2>3, <2>11 DEF TaggedRight
  <2> QED  BY <2>8, <2>12
<1> QED  BY <1>3, <1>4

\* No tag is added.
LEMMA TagsKept ==
  ASSUME IInv, tags' = tags, Grown(out, out'), Grown(began, began'),
         out' \in Seq(Int), began' \in Seq(BeginningSet),
         UNCHANGED m_detect_second_packet
  PROVE  FramesTagged' /\ \A k \in 1 .. Len(tags') : EndInside(k)'
<1>1. tags' \in Seq(TagSet) /\ Grown(tags, tags') /\ Len(tags') = Len(tags)
  BY Types DEF Grown
<1>2. \A k \in 1 .. Len(tags) : TaggedRight(k)' /\ EndInside(k)'
  BY <1>1, OldTags
<1> QED  BY <1>1, <1>2 DEF FramesTagged

----------------------------------------------------------------------------
(***************************************************************************)
(* The search for a preamble.                                              *)
(***************************************************************************)

LEMMA NeededFacts ==
  ASSUME IInv
  PROVE  Needed \in Nat /\ Needed >= 2 /\ Needed <= NUp
  BY SizeFacts DEF Needed

\* Items behind those of the buffer go on where it ends.
LEMMA BufferedFacts ==
  ASSUME IInv, HasSymbol
  PROVE  LET B == buffer \o Items(SamplesPerSymbol) IN
         /\ B \in Seq(Nat) /\ Len(B) = Len(buffer) + SamplesPerSymbol /\ B # <<>>
         /\ B[1] = Coming
         /\ \A k \in 1 .. Len(B) : B[k] = Coming + k - 1
<1> DEFINE B == buffer \o Items(SamplesPerSymbol)
<1>1. /\ buffer \in Seq(Nat) /\ Items(SamplesPerSymbol) \in Seq(Nat)
      /\ Len(Items(SamplesPerSymbol)) = SamplesPerSymbol
      /\ \A k \in 1 .. SamplesPerSymbol : Items(SamplesPerSymbol)[k] = pos + k - 1
      /\ SamplesPerSymbol \in Nat /\ SamplesPerSymbol >= 4 /\ pos \in Nat
  BY Types, SizeFacts, ItemsFacts
<1>2. /\ B \in Seq(Nat) /\ Len(B) = Len(buffer) + SamplesPerSymbol
      /\ \A k \in 1 .. Len(buffer) : B[k] = buffer[k]
      /\ \A k \in 1 .. SamplesPerSymbol : B[Len(buffer) + k] = Items(SamplesPerSymbol)[k]
  <2>1. \A s, u \in Seq(Nat) :
          /\ s \o u \in Seq(Nat) /\ Len(s \o u) = Len(s) + Len(u)
          /\ \A k \in 1 .. Len(s) : (s \o u)[k] = s[k]
          /\ \A k \in 1 .. Len(u) : (s \o u)[Len(s) + k] = u[k]
    BY ConcatFacts
  <2>2. \A u \in Seq(Nat) :
          /\ buffer \o u \in Seq(Nat) /\ Len(buffer \o u) = Len(buffer) + Len(u)
          /\ \A k \in 1 .. Len(buffer) : (buffer \o u)[k] = buffer[k]
          /\ \A k \in 1 .. Len(u) : (buffer \o u)[Len(buffer) + k] = u[k]
    BY <1>1, <2>1, Zenon
  <2>3. /\ B \in Seq(Nat) /\ Len(B) = Len(buffer) + Len(Items(SamplesPerSymbol))
        /\ \A k \in 1 .. Len(buffer) : B[k] = buffer[k]
        /\ \A k \in 1 .. Len(Items(SamplesPerSymbol)) :
             B[Len(buffer) + k] = Items(SamplesPerSymbol)[k]
    BY <1>1, <2>2, Zenon
  <2> QED  BY <1>1, <2>3, Zenon
<1> HIDE DEF B
<1>3. PICK L \in Nat, c \in Nat : L = Len(buffer) /\ c = Coming /\ c + L = pos
  BY ComingFacts
<1>4. \A k \in 1 .. L : B[k] = c + k - 1
  BY <1>2, <1>3, ComingFacts
<1>5. \A k \in 1 .. SamplesPerSymbol : B[L + k] = c + L + k - 1
  BY <1>1, <1>2, <1>3
<1>6. ASSUME NEW k \in 1 .. L + SamplesPerSymbol
      PROVE  B[k] = c + k - 1
  <2>1. CASE k <= L
    BY <1>4, <2>1
  <2>2. CASE k > L
    <3>1. PICK j \in 1 .. SamplesPerSymbol : k = L + j
      <4>1. k - L \in 1 .. SamplesPerSymbol /\ k = L + (k - L)
        BY <1>1, <2>2
      <4> QED  BY <4>1
    <3>2. B[L + j] = c + L + j - 1
      BY <1>5
    <3> QED  BY <3>1, <3>2
  <2> QED  BY <2>1, <2>2
<1>7. 1 \in 1 .. L + SamplesPerSymbol /\ B[1] = c + 1 - 1
  BY <1>1, <1>6
<1>8. B # <<>> /\ B[1] = c
  BY <1>1, <1>2, <1>3, <1>7
<1>9. \A k \in 1 .. Len(B) : B[k] = Coming + k - 1
  BY <1>2, <1>3, <1>6
<1> QED  BY <1>2, <1>3, <1>8, <1>9 DEF B

\* A symbol of the search: counts, run and buffer afterwards.
LEMMA SearchFacts ==
  ASSUME IInv, m_state = "FIND_PREAMBLE", HasSymbol, NEW bin \in Bins, Searched(bin),
         buffer' = BufferNow(bin), pos' = pos + SamplesPerSymbol
  PROVE  \E C \in 1 .. Needed :
           /\ C = CountNow(bin)
           /\ bin_idx' \in Nat /\ last_bin' = bin /\ bin \in Nat /\ bin - bin_idx' \in -1 .. 1
           /\ run' = RunNow(bin) /\ run' \in Nat /\ run' + C * SamplesPerSymbol = pos'
           /\ \/ Len(buffer') = C * SamplesPerSymbol
              \/ Len(buffer') = (C - 1) * SamplesPerSymbol
           /\ buffer' \in Seq(Nat) /\ Coming' \in Nat /\ Coming' >= Coming
           /\ Coming' + Len(buffer') = pos'
           /\ \A k \in 1 .. Len(buffer') : buffer'[k] = Coming' + k - 1
           /\ SameNow(bin) \in Nat
           /\ ~SecondMode => SameNow(bin) <= C
<1>1. PICK c \in Nat : c = symbol_cnt /\ c < Needed
  BY Types DEF IInv, RunBegins, Searching
<1>2. PICK p \in Nat : p = pos
  BY Types
<1>3. SamplesPerSymbol \in Nat /\ SamplesPerSymbol >= 4 /\ Needed \in Nat /\ Needed >= 2
  BY SizeFacts, NeededFacts
<1>4. bin \in Nat /\ bin_idx \in Nat
  BY Types, DetectorAssumption
<1>5. bin_idx' \in Nat /\ last_bin' = bin /\ bin - bin_idx' \in -1 .. 1 /\ run' = RunNow(bin)
  BY <1>4 DEF Searched, Continues
<1>6. PICK C \in 1 .. Needed : C = IF Continues(bin) THEN c + 1 ELSE 1
  <2>1. c + 1 \in 1 .. Needed /\ 1 \in 1 .. Needed
    BY <1>1, <1>3
  <2> QED  BY <2>1
<1>7. C = CountNow(bin)
  BY <1>1, <1>6 DEF CountNow
<1>8. /\ (c + 1) * SamplesPerSymbol = c * SamplesPerSymbol + SamplesPerSymbol
      /\ c > 0 => c * SamplesPerSymbol = (c - 1) * SamplesPerSymbol + SamplesPerSymbol
      /\ c * SamplesPerSymbol \in Nat /\ (c - 1) * SamplesPerSymbol \in Int
      /\ 0 * SamplesPerSymbol = 0 /\ 1 * SamplesPerSymbol = SamplesPerSymbol
  BY <1>1, <1>3, Products
<1>9. run' \in Nat /\ run' + C * SamplesPerSymbol = p + SamplesPerSymbol
  <2>1. CASE Continues(bin) /\ c > 0
    <3>1. run' = run /\ C = c + 1
      BY <1>1, <1>5, <1>6, <2>1 DEF RunNow
    <3>2. run \in Nat /\ run + c * SamplesPerSymbol = p
      BY <1>1, <1>2, <2>1, Types DEF IInv, RunBegins, Searching
    <3> QED  BY <1>3, <1>8, <3>1, <3>2
  <2>2. CASE ~(Continues(bin) /\ c > 0)
    <3>1. run' = p /\ C = 1
      BY <1>1, <1>2, <1>5, <1>6, <2>2 DEF RunNow
    <3> QED  BY <1>3, <1>8, <3>1
  <2> QED  BY <2>1, <2>2
<1>10. \/ Len(buffer) = c * SamplesPerSymbol
       \/ c > 0 /\ Len(buffer) = (c - 1) * SamplesPerSymbol
  BY <1>1 DEF IInv, BufferLength
<1>11. /\ \/ Len(buffer') = C * SamplesPerSymbol
          \/ Len(buffer') = (C - 1) * SamplesPerSymbol
       /\ buffer' \in Seq(Nat) /\ Coming' \in Nat /\ Coming' >= Coming
       /\ Coming' + Len(buffer') = p + SamplesPerSymbol
       /\ \A k \in 1 .. Len(buffer') : buffer'[k] = Coming' + k - 1
  <2>1. CASE Continues(bin)
    <3>1. buffer' = buffer \o Items(SamplesPerSymbol)
      BY <2>1 DEF BufferNow
    <3>2. /\ buffer' \in Seq(Nat) /\ Len(buffer') = Len(buffer) + SamplesPerSymbol
          /\ buffer' # <<>> /\ buffer'[1] = Coming
          /\ \A k \in 1 .. Len(buffer') : buffer'[k] = Coming + k - 1
      BY <3>1, BufferedFacts
    <3>3. Coming' = Coming /\ Coming \in Nat
      BY <3>2, ComingFacts DEF Coming
    <3>4. \/ Len(buffer') = C * SamplesPerSymbol
          \/ Len(buffer') = (C - 1) * SamplesPerSymbol
      <4>1. C = c + 1 /\ C - 1 = c
        BY <1>6, <2>1
      <4>2. CASE Len(buffer) = c * SamplesPerSymbol
        BY <1>8, <3>2, <4>1, <4>2
      <4>3. CASE c > 0 /\ Len(buffer) = (c - 1) * SamplesPerSymbol
        BY <1>8, <3>2, <4>1, <4>3
      <4> QED  BY <1>10, <4>2, <4>3
    <3>5. Coming' + Len(buffer') = p + SamplesPerSymbol
      <4>1. PICK L \in Nat, k \in Nat : L = Len(buffer) /\ k = Coming /\ k + L = p
        BY <1>2, ComingFacts
      <4>2. Coming' = k /\ Len(buffer') = L + SamplesPerSymbol
        BY <3>2, <3>3, <4>1
      <4> QED  BY <1>3, <4>1, <4>2
    <3> QED  BY <3>2, <3>3, <3>4, <3>5
  <2>2. CASE ~Continues(bin)
    <3>1. buffer' = <<>> /\ Len(buffer') = 0
      BY <2>2 DEF BufferNow
    <3>2. C - 1 = 0
      BY <1>6, <2>2
    <3>3. Coming' = p + SamplesPerSymbol /\ Coming \in Nat /\ Coming <= p
      BY <1>2, <3>1, ComingFacts DEF Coming
    <3> QED  BY <1>2, <1>3, <1>8, <3>1, <3>2, <3>3
  <2> QED  BY <2>1, <2>2
<1>12. SameNow(bin) \in Nat /\ (~SecondMode => SameNow(bin) <= C)
  <2>1. PICK s \in Nat : s = same
    BY Types
  <2>2. SameNow(bin) \in Nat
    BY <2>1 DEF SameNow
  <2>3. ASSUME ~SecondMode PROVE SameNow(bin) <= C
    <3>1. s <= c /\ (s > 0 => last_bin - bin_idx \in -1 .. 1)
      BY <1>1, <2>1, <2>3 DEF IInv, EqualInRun
    <3>2. CASE bin = last_bin /\ s > 0
      <4>1. Continues(bin) /\ SameNow(bin) = s + 1
        BY <2>1, <3>1, <3>2 DEF Continues, SameNow
      <4> QED  BY <1>6, <3>1, <4>1
    <3>3. CASE ~(bin = last_bin /\ s > 0)
      <4>1. SameNow(bin) = 1
        BY <2>1, <3>3 DEF SameNow
      <4> QED  BY <1>6, <4>1
    <3> QED  BY <3>2, <3>3
  <2> QED  BY <2>2, <2>3
<1> QED  BY <1>2, <1>4, <1>5, <1>7, <1>9, <1>11, <1>12

LEMMA SearchOnKeeps ==
  ASSUME IInv, m_state = "FIND_PREAMBLE", HasSymbol, NEW bin \in Bins, Searched(bin),
         buffer' = BufferNow(bin), pos' = pos + SamplesPerSymbol,
         CountNow(bin) # Needed, symbol_cnt' = CountNow(bin), same' = SameNow(bin),
         UNCHANGED <<kind, m_state, m_cnt, tags, began, written, timeoutVars, cnt_padding>>
  PROVE  IInv'
<1>1. PICK C \in 1 .. Needed :
        /\ C = CountNow(bin)
        /\ bin_idx' \in Nat /\ last_bin' = bin /\ bin \in Nat /\ bin - bin_idx' \in -1 .. 1
        /\ run' = RunNow(bin) /\ run' \in Nat /\ run' + C * SamplesPerSymbol = pos'
        /\ \/ Len(buffer') = C * SamplesPerSymbol
           \/ Len(buffer') = (C - 1) * SamplesPerSymbol
        /\ buffer' \in Seq(Nat) /\ Coming' \in Nat /\ Coming' >= Coming
        /\ Coming' + Len(buffer') = pos'
        /\ \A k \in 1 .. Len(buffer') : buffer'[k] = Coming' + k - 1
        /\ SameNow(bin) \in Nat
        /\ ~SecondMode => SameNow(bin) <= C
  BY SearchFacts
<1>2. UNCHANGED <<kind, m_state, m_cnt, tags, began, out, passed, room_kept,
                  m_detect_second_packet, m_n_bytes, cnt_padding>>
      /\ m_state' = "FIND_PREAMBLE"
  BY DEF written, timeoutVars
<1>3. symbol_cnt' = C /\ C \in Nat /\ C > 0 /\ C < Needed /\ C <= NUp /\ Needed' = Needed
  <2>1. symbol_cnt' = C /\ C # Needed
    BY <1>1
  <2>2. Needed \in Nat /\ Needed <= NUp /\ NUp \in Nat
    BY NeededFacts, SizeFacts
  <2>3. Needed' = Needed
    BY <1>2 DEF Needed
  <2> QED  BY <2>1, <2>2, <2>3
<1>4. /\ pos' \in Nat /\ pos' <= InputSymbols * SamplesPerSymbol
      /\ HasSymbol' => HasSymbol
      /\ C * SamplesPerSymbol \in Nat /\ C * SamplesPerSymbol <= pos'
  <2>1. pos \in Nat /\ SamplesPerSymbol \in Nat /\ InputSymbols * SamplesPerSymbol \in Nat
    BY Types, SizeFacts
  <2>2. pos' \in Nat /\ pos' <= InputSymbols * SamplesPerSymbol
    BY <2>1 DEF HasSymbol
  <2>3. C * SamplesPerSymbol \in Nat
    BY <1>3, Products
  <2> QED  BY <1>1, <2>2, <2>3, SMTT(60)
<1>5. Len(buffer') <= C * SamplesPerSymbol /\ Len(buffer') <= (NUp + 1) * SamplesPerSymbol
  <2>1. C * SamplesPerSymbol <= (NUp + 1) * SamplesPerSymbol
    <3>1. C <= NUp + 1 /\ NUp + 1 \in Nat
      BY <1>3, SizeFacts
    <3> QED  BY <1>3, <3>1, ProductMono
  <2>2. (C - 1) * SamplesPerSymbol = C * SamplesPerSymbol - SamplesPerSymbol
        /\ SamplesPerSymbol \in Nat /\ (NUp + 1) * SamplesPerSymbol \in Nat
    <3>1. NUp + 1 \in Nat
      BY SizeFacts
    <3> QED  BY <1>3, <3>1, Products, SizeFacts
  <2>3. Len(buffer') \in Nat /\ Len(buffer') <= C * SamplesPerSymbol
    <3>1. buffer' \in Seq(Nat) /\ Len(buffer') \in Nat
      BY <1>1
    <3>2. PICK X \in Nat : X = C * SamplesPerSymbol /\ (C - 1) * SamplesPerSymbol = X - SamplesPerSymbol
      BY <1>4, <2>2
    <3>3. Len(buffer') = X \/ Len(buffer') = X - SamplesPerSymbol
      BY <1>1, <3>2
    <3>4. Len(buffer') <= X
      BY <2>2, <3>1, <3>3
    <3> QED  BY <3>1, <3>2, <3>4
  <2> QED  BY <1>4, <2>1, <2>2, <2>3
<1>6. Typed'
  <2>1. symbol_cnt' \in 0 .. InputSymbols
    BY <1>3, <1>4, CountBounded
  <2>2. pos' \in 0 .. InputSymbols * SamplesPerSymbol
    BY <1>4, SizeFacts
  <2>3. TypeOK'
    BY <1>1, <1>2, <1>5, <2>1, <2>2 DEF IInv, Typed, TypeOK
  <2>4. same' \in Nat /\ last_bin' \in Int /\ run' \in Nat /\ buffer' \in Seq(Nat)
    BY <1>1
  <2> QED  BY <1>2, <2>3, <2>4, Types DEF Typed
<1>7. StatesOfKind' /\ CountsInInput'
  BY <1>2, <1>3, <1>4 DEF IInv, StatesOfKind, CountsInInput
<1>8. BufferOfInput'
  BY <1>1, <1>2, <1>4 DEF BufferOfInput, Flushing, Searching
<1>9. BufferLength'
  BY <1>1, <1>2, <1>3 DEF BufferLength
<1>10. RunBegins'
  BY <1>1, <1>2, <1>3 DEF RunBegins, Searching
<1>11. EqualInRun' /\ RoomKept'
  BY <1>1, <1>2, <1>3 DEF IInv, EqualInRun, RoomKept, SecondMode
<1>12. Grown(began, began') /\ Grown(out, out')
  BY <1>2, Types DEF Grown
<1>13. NothingLostInside' /\ StartsInPreamble'
  <2>1. \A f \in Len(began) + 1 .. Len(began') : began'[f].at = Len(passed) + 1
    BY <1>2, Types
  <2> QED  BY <1>2, <1>12, <2>1, PassedKept, Types
<1>14. FramesBegun' /\ NextInFrame' /\ PreambleNext'
  <2>1. FramesBegun'
    <3>1. ~Flushing
      BY DEF Flushing
    <3> QED  BY <1>2, <3>1 DEF IInv, FramesBegun, Flushing
  <2>2. passed # <<>> => passed[Len(passed)] < Coming'
    <3>1. passed # <<>> => passed[Len(passed)] \in Nat
      BY Types, SMTT(60)
    <3> QED  BY <1>1, <3>1, ComingFacts, SMTT(60) DEF IInv, NextInFrame
  <2> QED  BY <1>2, <2>1, <2>2 DEF NextInFrame, PreambleNext
<1>15. FramesTagged' /\ \A k \in 1 .. Len(tags') : EndInside(k)'
  BY <1>2, <1>12, TagsKept, Types
<1>16. TagsOfFrames'
  BY <1>2, <1>4, <1>15 DEF IInv, TagsOfFrames
<1>17. LastWritten' /\ WindowPlace'
  BY <1>2, <1>4 DEF IInv, LastWritten, WindowPlace
<1> QED  BY <1>6, <1>7, <1>8, <1>9, <1>10, <1>11, <1>13, <1>14, <1>15, <1>16, <1>17 DEF IInv

LEMMA AppendGrows ==
  ASSUME NEW T, NEW s \in Seq(T), NEW x \in T
  PROVE  LET t == Append(s, x) IN
         /\ t \in Seq(T) /\ Len(t) = Len(s) + 1 /\ t # <<>> /\ Len(s) \in Nat
         /\ Grown(s, t) /\ t[Len(s) + 1] = x /\ t[Len(t)] = x
<1> DEFINE t == Append(s, x)
<1>1. /\ t \in Seq(T) /\ Len(t) = Len(s) + 1 /\ Len(s) \in Nat
      /\ \A k \in 1 .. Len(s) : t[k] = s[k]
      /\ t[Len(s) + 1] = x
  OBVIOUS
<1> HIDE DEF t
<1>2. t # <<>> /\ t[Len(t)] = x /\ Len(s) <= Len(t)
  BY <1>1
<1>3. Grown(s, t)
  BY <1>1, <1>2 DEF Grown
<1> QED  BY <1>1, <1>2, <1>3 DEF t

\* The window of a frame begins behind its preamble.
LEMMA WindowBegins ==
  /\ NBytes \in Nat /\ CntRange \in Nat /\ NBytes < CntRange /\ NBytes >= 1
  /\ (0 + NBytes) % CntRange = NBytes
  BY TimeoutAssumption

\* A run that ends with the buffer, which may lack the first of its symbols.
LEMMA RunAndBuffer ==
  ASSUME NEW S \in Nat, NEW X \in Nat, NEW r \in Nat, NEW p \in Nat, NEW B \in Nat, NEW c \in Nat,
         S >= 4, 2 * S <= X, r + X = p, c + B = p, B = X \/ B = X - S
  PROVE  2 * S <= p /\ B > 0 /\ B <= X /\ (c - r = 0 \/ c - r = S)
<1>1. 2 * S <= p /\ B > 0 /\ B <= X
  OBVIOUS
<1>2. c - r = 0 \/ c - r = S
  OBVIOUS
<1> QED  BY <1>1, <1>2

LEMMA SearchFoundKeeps ==
  ASSUME IInv, m_state = "FIND_PREAMBLE", HasSymbol, NEW bin \in Bins, Searched(bin),
         buffer' = BufferNow(bin), pos' = pos + SamplesPerSymbol,
         CountNow(bin) = Needed, symbol_cnt' = 0, same' = 0,
         began' = Append(began, Beginning(bin)),
         UNCHANGED <<kind, m_cnt, written, timeoutVars, cnt_padding>>,
         \/ kind = "timeout" /\ m_state' = "SEND_PREAMBLE" /\ tags' = Append(tags, Tag("start", 0))
         \/ kind = "threshold" /\ m_state' = "SEND_PREAMBLE" /\ tags' = tags
         \/ kind = "sequence" /\ m_state' = "SEND_BUFFER" /\ tags' = tags
  PROVE  IInv'
<1>1. PICK C \in 1 .. Needed :
        /\ C = CountNow(bin)
        /\ bin_idx' \in Nat /\ last_bin' = bin /\ bin \in Nat /\ bin - bin_idx' \in -1 .. 1
        /\ run' = RunNow(bin) /\ run' \in Nat /\ run' + C * SamplesPerSymbol = pos'
        /\ \/ Len(buffer') = C * SamplesPerSymbol
           \/ Len(buffer') = (C - 1) * SamplesPerSymbol
        /\ buffer' \in Seq(Nat) /\ Coming' \in Nat /\ Coming' >= Coming
        /\ Coming' + Len(buffer') = pos'
        /\ \A k \in 1 .. Len(buffer') : buffer'[k] = Coming' + k - 1
        /\ SameNow(bin) \in Nat
        /\ ~SecondMode => SameNow(bin) <= C
  BY SearchFacts
<1>2. UNCHANGED <<kind, m_cnt, out, passed, room_kept, m_detect_second_packet, m_n_bytes, cnt_padding>>
  BY DEF written, timeoutVars
<1>3. /\ C = Needed /\ C \in Nat /\ C > 0 /\ C >= 2 /\ C <= NUp /\ Needed' = Needed
      /\ SamplesPerSymbol \in Nat /\ SamplesPerSymbol >= 4 /\ NUp \in Nat
      /\ (kind # "sequence" => C = NUp)
  <2>1. Needed \in Nat /\ Needed <= NUp /\ Needed >= 2
    BY NeededFacts
  <2>2. Needed' = Needed
    BY <1>2 DEF Needed
  <2>3. C = Needed /\ (kind # "sequence" => C = NUp)
    BY <1>1 DEF Needed
  <2> QED  BY <2>1, <2>2, <2>3, SizeFacts
<1>4. PICK X \in Nat : /\ X = C * SamplesPerSymbol /\ 2 * SamplesPerSymbol <= X
                       /\ (C - 1) * SamplesPerSymbol = X - SamplesPerSymbol
                       /\ X <= (NUp + 1) * SamplesPerSymbol
  <2>1. C * SamplesPerSymbol \in Nat
        /\ (C - 1) * SamplesPerSymbol = C * SamplesPerSymbol - SamplesPerSymbol
    BY <1>3, Products
  <2>2. 2 * SamplesPerSymbol <= C * SamplesPerSymbol
    BY <1>3, ProductMono
  <2>3. C * SamplesPerSymbol <= (NUp + 1) * SamplesPerSymbol
    <3>1. C <= NUp + 1 /\ NUp + 1 \in Nat
      BY <1>3
    <3> QED  BY <1>3, <3>1, ProductMono
  <2> QED  BY <2>1, <2>2, <2>3
<1>5. PICK r \in Nat, p \in Nat, B \in Nat, c \in Nat :
        /\ r = run' /\ p = pos' /\ B = Len(buffer') /\ c = Coming'
        /\ r + X = p /\ c + B = p /\ (B = X \/ B = X - SamplesPerSymbol)
  <2>1. run' \in Nat /\ Len(buffer') \in Nat /\ Coming' \in Nat /\ pos' \in Nat
    <3>1. run' \in Nat /\ buffer' \in Seq(Nat) /\ Coming' \in Nat
      BY <1>1
    <3>2. pos' \in Nat
      BY <1>3, Types, SMTT(60)
    <3> QED  BY <3>1, <3>2
  <2>2. run' + X = pos' /\ Coming' + Len(buffer') = pos'
        /\ (Len(buffer') = X \/ Len(buffer') = X - SamplesPerSymbol)
    BY <1>1, <1>4
  <2> QED  BY <2>1, <2>2
<1>6. /\ p <= InputSymbols * SamplesPerSymbol /\ 2 * SamplesPerSymbol <= p
      /\ B > 0 /\ B <= X /\ c - r \in {-SamplesPerSymbol, 0, SamplesPerSymbol}
  <2>1. pos + SamplesPerSymbol <= InputSymbols * SamplesPerSymbol
    BY DEF HasSymbol
  <2>2. p <= InputSymbols * SamplesPerSymbol
    BY <1>5, <2>1
  <2>3. 2 * SamplesPerSymbol <= p /\ B > 0 /\ B <= X /\ (c - r = 0 \/ c - r = SamplesPerSymbol)
    <3>1. r + X = p /\ c + B = p /\ (B = X \/ B = X - SamplesPerSymbol)
      BY <1>5
    <3>2. 2 * SamplesPerSymbol <= X /\ SamplesPerSymbol \in Nat /\ SamplesPerSymbol >= 4
      BY <1>3, <1>4
    <3> QED  BY <3>1, <3>2, RunAndBuffer
  <2> QED  BY <2>2, <2>3
<1>7. buffer' # <<>>
  BY <1>1, <1>5, <1>6
<1>8. Beginning(bin) = [at |-> Len(passed) + 1, from |-> r] /\ Beginning(bin) \in BeginningSet
  <2>1. Len(passed) + 1 \in Nat \ {0}
    BY Types, SMTT(60)
  <2>2. Beginning(bin) = [at |-> Len(passed) + 1, from |-> r]
    BY <1>1, <1>5 DEF Beginning
  <2> QED  BY <2>1, <2>2 DEF BeginningSet
<1>9. PICK n \in Nat :
        /\ n = Len(began) /\ Len(began') = n + 1 /\ began' # <<>> /\ began' \in Seq(BeginningSet)
        /\ Grown(began, began') /\ began'[n + 1] = [at |-> Len(passed) + 1, from |-> r]
  <2>1. /\ began' \in Seq(BeginningSet) /\ Len(began') = Len(began) + 1 /\ began' # <<>>
        /\ Len(began) \in Nat /\ Grown(began, began') /\ began'[Len(began) + 1] = Beginning(bin)
    <3>1. began \in Seq(BeginningSet)
      BY Types
    <3>2. LET t == Append(began, Beginning(bin)) IN
          /\ t \in Seq(BeginningSet) /\ Len(t) = Len(began) + 1 /\ t # <<>>
          /\ Len(began) \in Nat /\ Grown(began, t) /\ t[Len(began) + 1] = Beginning(bin)
      BY <1>8, <3>1, AppendGrows
    <3> QED  BY <3>2, Zenon
  <2> QED  BY <1>8, <2>1
<1>10. Frame'.at = Len(passed) + 1 /\ Frame'.from = r
  <2>1. Frame' = [at |-> Len(passed) + 1, from |-> r]
    BY <1>9 DEF Frame
  <2> QED  BY <2>1
<1>11. m_state' \in {"SEND_BUFFER", "SEND_PREAMBLE"} /\ Flushing' /\ ~Searching' /\ m_cnt = 0 /\ m_cnt' = 0
  <2>1. m_cnt = 0
    BY DEF IInv, CountsInInput
  <2> QED  BY <1>2, <2>1 DEF Flushing, Searching
<1>12. Typed'
  <2>1. 0 \in 0 .. InputSymbols /\ pos' \in 0 .. InputSymbols * SamplesPerSymbol
    BY <1>5, <1>6, SizeFacts, DetectorAssumption
  <2>2. Len(buffer') <= (NUp + 1) * SamplesPerSymbol
    <3>1. (NUp + 1) * SamplesPerSymbol \in Nat
      <4>1. NUp + 1 \in Nat
        BY <1>3
      <4> QED  BY <4>1, Products
    <3>2. B <= (NUp + 1) * SamplesPerSymbol
      BY <1>4, <1>6, <3>1
    <3> QED  BY <1>5, <3>2
  <2>3. TypeOK'
    BY <1>1, <1>2, <1>11, <2>1, <2>2 DEF IInv, Typed, TypeOK
  <2>4. tags' \in Seq(TagSet)
    <3>1. Tag("start", 0) \in TagSet
      <4>1. Len(out) + 1 + 0 \in Nat
        BY Types
      <4> QED  BY <4>1 DEF Tag, TagSet
    <3>2. Append(tags, Tag("start", 0)) \in Seq(TagSet) /\ tags \in Seq(TagSet)
      BY <3>1, Types
    <3> QED  BY <3>2, Zenon
  <2>5. same' \in Nat /\ last_bin' \in Int /\ run' \in Nat /\ buffer' \in Seq(Nat)
    BY <1>1
  <2> QED  BY <1>2, <1>9, <2>3, <2>4, <2>5, Types DEF Typed
<1>13. StatesOfKind' /\ CountsInInput'
  <2>1. 0 * SamplesPerSymbol = 0 /\ (0 + 1) * SamplesPerSymbol = SamplesPerSymbol
    BY <1>3
  <2>2. StatesOfKind'
    BY <1>2, <1>11 DEF StatesOfKind
  <2>3. 0 <= p /\ SamplesPerSymbol <= p
    BY <1>3, <1>6
  <2>4. CountsInInput'
    BY <1>5, <1>6, <1>11, <2>1, <2>3 DEF CountsInInput
  <2> QED  BY <2>2, <2>4
<1>14. BufferOfInput' /\ BufferLength'
  <2>1. Coming' + Len(buffer') = pos' /\ Coming' + Len(buffer') <= pos'
    BY <1>5
  <2>2. BufferOfInput'
    BY <1>1, <1>7, <1>11, <2>1 DEF BufferOfInput
  <2> QED  BY <1>11, <2>2 DEF BufferLength
<1>15. RunBegins' /\ EqualInRun' /\ RoomKept'
  BY <1>2, <1>11 DEF IInv, RunBegins, EqualInRun, RoomKept, SecondMode
<1>16. FramesBegun'
  <2>1. ~Flushing
    BY DEF Flushing
  <2>2. ASSUME NEW f \in 1 .. Len(began'), began'[f].at > Len(passed)
        PROVE  began'[f].at = Len(passed) + 1 /\ f = Len(began')
    <3>1. CASE f \in 1 .. n
      <4>1. began'[f] = began[f]
        BY <1>9, <3>1 DEF Grown
      <4> QED  BY <1>9, <2>1, <2>2, <3>1, <4>1 DEF IInv, FramesBegun
    <3>2. CASE f = n + 1
      <4>1. began'[f] = [at |-> Len(passed) + 1, from |-> r]
        BY <1>9, <3>2
      <4> QED  BY <1>9, <3>2, <4>1
    <3> QED  BY <1>9, <3>1, <3>2
  <2> QED  BY <1>2, <1>9, <1>11, <2>2 DEF FramesBegun
<1>17. NextInFrame'
  <2>1. passed # <<>> => passed[Len(passed)] < Coming'
    <3>1. passed # <<>> => passed[Len(passed)] \in Nat
      BY Types, SMTT(60)
    <3> QED  BY <1>1, <3>1, ComingFacts, SMTT(60) DEF IInv, NextInFrame
  <2>2. Len(passed) \in Nat
    BY Types
  <2>3. ~(Frame'.at <= Len(passed))
    BY <1>10, <2>2
  <2> QED  BY <1>2, <2>1, <2>3 DEF NextInFrame
<1>18. PreambleNext'
  BY <1>5, <1>6, <1>10 DEF PreambleNext
<1>19. NothingLostInside' /\ StartsInPreamble'
  <2>1. ASSUME NEW f \in Len(began) + 1 .. Len(began') PROVE began'[f].at = Len(passed) + 1
    <3>1. f = n + 1
      BY <1>9
    <3>2. began'[f] = [at |-> Len(passed) + 1, from |-> r]
      BY <1>9, <3>1
    <3> QED  BY <3>2
  <2> QED  BY <1>2, <1>9, <2>1, PassedKept
<1>20. Grown(out, out') /\ out' \in Seq(Int)
  BY <1>2, Types DEF Grown
<1>21. FramesTagged' /\ TagsOfFrames'
  <2>1. CASE kind # "timeout"
    <3>1. tags' = tags
      BY <2>1
    <3>2. FramesTagged' /\ \A k \in 1 .. Len(tags') : EndInside(k)'
      BY <1>2, <1>9, <1>20, <3>1, TagsKept
    <3> QED  BY <1>2, <2>1, <3>1, <3>2 DEF IInv, TagsOfFrames
  <2>2. CASE kind = "timeout"
    <3>1. tags' = Append(tags, Tag("start", 0)) /\ m_state' = "SEND_PREAMBLE"
      BY <2>2
    <3>2. Tag("start", 0) \in TagSet /\ Tag("start", 0).value = "start"
      <4>1. Len(out) + 1 + 0 \in Nat
        BY Types
      <4> QED  BY <4>1 DEF Tag, TagSet
    <3>3. PICK t \in Nat :
            /\ t = Len(tags) /\ Len(tags') = t + 1 /\ tags' \in Seq(TagSet)
            /\ Grown(tags, tags') /\ tags'[t + 1].value = "start"
      <4>1. tags \in Seq(TagSet)
        BY Types
      <4>2. /\ tags' \in Seq(TagSet) /\ Len(tags') = Len(tags) + 1
            /\ Len(tags) \in Nat /\ Grown(tags, tags') /\ tags'[Len(tags) + 1] = Tag("start", 0)
        <5>1. LET s == Append(tags, Tag("start", 0)) IN
              /\ s \in Seq(TagSet) /\ Len(s) = Len(tags) + 1
              /\ Len(tags) \in Nat /\ Grown(tags, s) /\ s[Len(tags) + 1] = Tag("start", 0)
          BY <3>2, <4>1, AppendGrows
        <5> QED  BY <3>1, <5>1, Zenon
      <4> QED  BY <3>2, <4>2
    <3>4. t = 2 * n
      BY <1>9, <2>2, <3>3 DEF IInv, TagsOfFrames
    <3>5. ASSUME NEW k \in 1 .. t PROVE TaggedRight(k)' /\ EndInside(k)'
      BY <1>2, <1>9, <1>20, <3>3, OldTags
    <3>6. (t + 1) % 2 = 1
      BY <3>4
    <3>7. TaggedRight(t + 1)' /\ EndInside(t + 1)'
      BY <3>3, <3>6 DEF TaggedRight, EndInside
    <3>8. \A k \in 1 .. Len(tags') : TaggedRight(k)' /\ EndInside(k)'
      <4>1. \A k \in 1 .. Len(tags') : k \in 1 .. t \/ k = t + 1
        BY <3>3
      <4> QED  BY <3>5, <3>7, <4>1
    <3>9. \A k \in 1 .. Len(tags') : tags'[k].value # "work_done"
      <4>1. \A k \in 1 .. t : tags'[k].value # "work_done"
        BY <3>3 DEF IInv, TagsOfFrames, Grown
      <4>2. \A k \in 1 .. Len(tags') : k \in 1 .. t \/ k = t + 1
        BY <3>3
      <4> QED  BY <3>3, <4>1, <4>2
    <3>10. Len(tags') = 2 * Len(began') - 1
      BY <1>9, <3>3, <3>4
    <3>11. FramesTagged'
      BY <3>8 DEF FramesTagged
    <3> QED  BY <1>2, <2>2, <3>1, <3>8, <3>9, <3>10, <3>11 DEF TagsOfFrames
  <2> QED  BY <2>1, <2>2
<1>22. LastWritten' /\ WindowPlace'
  <2>1. LastWritten'
    BY <1>11 DEF LastWritten
  <2>2. ASSUME kind = "timeout" PROVE WindowPlace'
    <3>1. m_n_bytes = NBytes /\ m_n_bytes' = NBytes
      BY <1>2, <2>2 DEF IInv, WindowPlace
    <3>2. pos' = Frame'.from + NUp * SamplesPerSymbol
      BY <1>3, <1>4, <1>5, <1>10, <2>2
    <3>3. m_state' = "SEND_PREAMBLE"
      BY <2>2
    <3>4. 0 < CntRange
      BY WindowBegins
    <3> QED  BY <1>11, <3>1, <3>2, <3>3, <3>4, WindowBegins DEF WindowPlace
  <2>3. WindowPlace'
    BY <1>2, <2>2 DEF WindowPlace
  <2> QED  BY <2>1, <2>3
<1> QED  BY <1>12, <1>13, <1>14, <1>15, <1>16, <1>17, <1>18, <1>19, <1>21, <1>22 DEF IInv

----------------------------------------------------------------------------
(***************************************************************************)
(* The buffer is passed on.                                                *)
(***************************************************************************)

\* The smaller of two numbers.
LEMMA MinOfTwo ==
  ASSUME NEW a \in Int, NEW b \in Int
  PROVE  Min({a, b}) \in Int /\ Min({a, b}) <= a /\ Min({a, b}) <= b
         /\ (Min({a, b}) = a \/ Min({a, b}) = b)
<1>1. \E x \in {a, b} : \A y \in {a, b} : x <= y
  OBVIOUS
<1>2. Min({a, b}) \in {a, b} /\ \A y \in {a, b} : Min({a, b}) <= y
  BY <1>1 DEF Min
<1> QED  BY <1>2

\* Items written behind the others.
LEMMA ConcatGrows ==
  ASSUME NEW T, NEW s \in Seq(T), NEW u \in Seq(T)
  PROVE  LET t == s \o u IN
         /\ t \in Seq(T) /\ Len(t) = Len(s) + Len(u) /\ Len(s) \in Nat /\ Len(u) \in Nat
         /\ Grown(s, t) /\ \A k \in 1 .. Len(s) : t[k] = s[k]
         /\ \A k \in 1 .. Len(u) : t[Len(s) + k] = u[k]
<1> DEFINE t == s \o u
<1>1. /\ t \in Seq(T) /\ Len(t) = Len(s) + Len(u) /\ Len(s) \in Nat /\ Len(u) \in Nat
      /\ \A k \in 1 .. Len(s) : t[k] = s[k]
      /\ \A k \in 1 .. Len(u) : t[Len(s) + k] = u[k]
  BY ConcatFacts
<1> HIDE DEF t
<1>2. Grown(s, t)
  BY <1>1 DEF Grown
<1> QED  BY <1>1, <1>2 DEF t

\* The same for both histories of the output.
LEMMA WrittenFacts ==
  ASSUME IInv, NEW items \in Seq(Nat), NEW noutput, Written(items, noutput)
  PROVE  /\ passed' \in Seq(Nat) /\ out' \in Seq(Int) /\ Grown(out, out')
         /\ Len(passed') = Len(passed) + Len(items) /\ Len(out') = Len(out) + Len(items)
         /\ \A k \in 1 .. Len(passed) : passed'[k] = passed[k]
         /\ \A k \in 1 .. Len(items) : passed'[Len(passed) + k] = items[k]
         /\ \A k \in 1 .. Len(items) : out'[Len(out) + k] = items[k]
         /\ room_kept' \in BOOLEAN
         /\ Len(items) <= noutput => room_kept' = room_kept
<1>1. out \in Seq(Int) /\ passed \in Seq(Nat) /\ items \in Seq(Int) /\ room_kept \in BOOLEAN
  BY Types, SMTT(60)
<1>2. LET t == passed \o items IN
      /\ t \in Seq(Nat) /\ Len(t) = Len(passed) + Len(items)
      /\ \A k \in 1 .. Len(passed) : t[k] = passed[k]
      /\ \A k \in 1 .. Len(items) : t[Len(passed) + k] = items[k]
  BY <1>1, ConcatGrows, SMTT(60)
<1>3. LET t == out \o items IN
      /\ t \in Seq(Int) /\ Len(t) = Len(out) + Len(items) /\ Grown(out, t)
      /\ \A k \in 1 .. Len(items) : t[Len(out) + k] = items[k]
  BY <1>1, ConcatGrows
<1>4. passed' = passed \o items /\ out' = out \o items
  BY Zenon DEF Written
<1>5. room_kept' = (room_kept /\ Len(items) <= noutput)
  BY Zenon DEF Written
<1>6. room_kept' \in BOOLEAN /\ (Len(items) <= noutput => room_kept' = room_kept)
  BY <1>1, <1>5
<1> QED  BY <1>2, <1>3, <1>4, <1>6, Zenon

LEMMA SendBufferKeeps ==
  ASSUME IInv, NEW state, NEW next, SendBuffer(state, next),
         UNCHANGED <<kind, timeoutVars, cnt_padding>>,
         \/ kind = "sequence" /\ state = "SEND_BUFFER" /\ next = "SEND_PREAMBLE"
         \/ kind # "sequence" /\ state = "SEND_PREAMBLE" /\ next = "SEND_FRAME"
  PROVE  IInv'
<1>1. PICK noutput \in Rooms :
        /\ Written(SubSeq(buffer, 1, BufferPart(noutput)), noutput)
        /\ buffer' = SubSeq(buffer, BufferPart(noutput) + 1, Len(buffer))
        /\ m_state' = IF BufferPart(noutput) = Len(buffer) THEN next ELSE state
  BY DEF SendBuffer
<1>2. /\ UNCHANGED <<kind, pos, bin_idx, symbol_cnt, m_cnt, tags, run, same, last_bin, began,
                     m_detect_second_packet, m_n_bytes, cnt_padding>>
      /\ m_state = state
  BY DEF SendBuffer, history, timeoutVars
<1>3. Flushing /\ ~Searching /\ m_state # "FIND_PREAMBLE" /\ buffer # <<>>
  <2>1. Flushing /\ ~Searching /\ m_state # "FIND_PREAMBLE"
    BY <1>2 DEF Flushing, Searching, SecondMode
  <2> QED  BY <2>1 DEF IInv, BufferOfInput
<1>4. PICK B \in Nat, c \in Nat, p \in Nat :
        /\ B = Len(buffer) /\ c = Coming /\ p = pos /\ c + B <= p
        /\ HasSymbol => c + B = p
        /\ \A k \in 1 .. B : buffer[k] = c + k - 1
  BY ComingFacts, Types
<1>5. PICK n \in 1 .. B : n = BufferPart(noutput) /\ n <= noutput
  <2>1. noutput \in Nat \ {0} /\ B > 0
    BY <1>3, <1>4, Types, DetectorAssumption
  <2>2. BufferPart(noutput) = Min({B, noutput})
    BY <1>4 DEF BufferPart
  <2>3. PICK m \in Int : m = Min({B, noutput}) /\ m <= B /\ m <= noutput /\ (m = B \/ m = noutput)
    BY <2>1, MinOfTwo
  <2>4. m \in 1 .. B
    BY <2>1, <2>3
  <2> QED  BY <2>2, <2>3, <2>4
<1> DEFINE items == SubSeq(buffer, 1, n)
<1>6. /\ items \in Seq(Nat) /\ Len(items) = n
      /\ \A k \in 1 .. n : items[k] = c + k - 1
      /\ buffer' \in Seq(Nat) /\ Len(buffer') = B - n
      /\ \A k \in 1 .. B - n : buffer'[k] = c + (n + k) - 1
  <2>1. buffer \in Seq(Nat) /\ n \in 0 .. Len(buffer)
    BY <1>4, Types
  <2>2. /\ SubSeq(buffer, 1, n) \in Seq(Nat) /\ Len(SubSeq(buffer, 1, n)) = n
        /\ \A k \in 1 .. n : SubSeq(buffer, 1, n)[k] = buffer[k]
        /\ SubSeq(buffer, n + 1, Len(buffer)) \in Seq(Nat)
        /\ Len(SubSeq(buffer, n + 1, Len(buffer))) = Len(buffer) - n
        /\ \A k \in 1 .. Len(buffer) - n : SubSeq(buffer, n + 1, Len(buffer))[k] = buffer[n + k]
    BY <2>1, PieceFacts, SMTT(60)
  <2>3. buffer' = SubSeq(buffer, n + 1, Len(buffer))
    BY <1>1, <1>5, Zenon
  <2>4. /\ buffer' \in Seq(Nat) /\ Len(buffer') = Len(buffer) - n
        /\ \A k \in 1 .. Len(buffer) - n : buffer'[k] = buffer[n + k]
    BY <2>2, <2>3, Zenon
  <2>5. \A k \in 1 .. n : k \in 1 .. B
    OBVIOUS
  <2>6. \A k \in 1 .. B - n : n + k \in 1 .. B
    OBVIOUS
  <2> QED  BY <1>4, <2>2, <2>4, <2>5, <2>6
<1>7. Written(items, noutput)
  BY <1>1, <1>5, Zenon
<1> HIDE DEF items
<1>8. /\ passed' \in Seq(Nat) /\ out' \in Seq(Int) /\ Grown(out, out')
      /\ Len(passed') = Len(passed) + n /\ Len(out') = Len(out) + n
      /\ \A k \in 1 .. Len(passed) : passed'[k] = passed[k]
      /\ \A k \in 1 .. n : passed'[Len(passed) + k] = c + k - 1
      /\ \A k \in 1 .. n : out'[Len(out) + k] = c + k - 1
      /\ room_kept' = room_kept
  <2>1. /\ passed' \in Seq(Nat) /\ out' \in Seq(Int) /\ Grown(out, out')
        /\ Len(passed') = Len(passed) + Len(items) /\ Len(out') = Len(out) + Len(items)
        /\ \A k \in 1 .. Len(passed) : passed'[k] = passed[k]
        /\ \A k \in 1 .. Len(items) : passed'[Len(passed) + k] = items[k]
        /\ \A k \in 1 .. Len(items) : out'[Len(out) + k] = items[k]
        /\ Len(items) <= noutput => room_kept' = room_kept
    BY <1>6, <1>7, WrittenFacts
  <2> QED  BY <1>5, <1>6, <2>1
<1>9. n \in Nat \ {0} /\ \A k \in 1 .. n : passed'[Len(passed) + k] = Coming + k - 1
  BY <1>4, <1>8
<1>10. CASE n < B
  <2>1. buffer' # <<>> /\ Coming' = c + n /\ m_state' = m_state /\ Flushing' /\ ~Searching'
    <3>1. 1 \in 1 .. B - n
      BY <1>10
    <3>2. buffer'[1] = c + (n + 1) - 1 /\ buffer' # <<>>
      BY <1>6, <3>1
    <3>3. buffer'[1] = c + n
      BY <3>2
    <3>4. n # B /\ n # Len(buffer)
      BY <1>4, <1>10
    <3>5. m_state' = m_state
      BY <1>1, <1>2, <1>5, <3>4
    <3> QED  BY <1>2, <1>3, <3>2, <3>3, <3>5 DEF Coming, Flushing, Searching, SecondMode
  <2>2. /\ NothingLostInside' /\ StartsInPreamble'
        /\ FramesBegun' /\ NextInFrame' /\ PreambleNext'
    <3>1. Coming' = Coming + n /\ Coming' \in Nat
      BY <1>4, <2>1
    <3> QED  BY <1>2, <1>3, <1>8, <1>9, <3>1, PassedMore
  <2>3. HasSymbol' <=> HasSymbol
    BY <1>2 DEF HasSymbol
  <2>4. Typed'
    <3>1. Len(buffer) <= (NUp + 1) * SamplesPerSymbol /\ (NUp + 1) * SamplesPerSymbol \in Nat
      <4>1. NUp + 1 \in Nat
        BY SizeFacts
      <4> QED  BY <4>1, Products DEF IInv, Typed, TypeOK
    <3>2. Len(buffer') <= (NUp + 1) * SamplesPerSymbol
      BY <1>4, <1>6, <3>1
    <3>3. TypeOK'
      BY <1>2, <2>1, <3>2 DEF IInv, Typed, TypeOK
    <3> QED  BY <1>2, <1>6, <1>8, <3>3, Types DEF Typed
  <2>5. StatesOfKind' /\ CountsInInput' /\ RunBegins' /\ EqualInRun' /\ RoomKept'
    <3>1. Needed' = Needed
      BY <1>2 DEF Needed
    <3> QED  BY <1>2, <1>3, <1>8, <2>1, <2>3, <3>1
             DEF IInv, StatesOfKind, CountsInInput, RunBegins, EqualInRun, RoomKept, SecondMode
  <2>6. BufferOfInput' /\ BufferLength'
    <3>1. \A k \in 1 .. B - n : buffer'[k] = (c + n) + k - 1
      BY <1>6
    <3>2. (c + n) + (B - n) = c + B
      OBVIOUS
    <3>3. BufferOfInput'
      BY <1>2, <1>4, <1>6, <2>1, <2>3, <3>1, <3>2 DEF BufferOfInput
    <3> QED  BY <1>3, <2>1, <3>3 DEF BufferLength, Flushing
  <2>7. FramesTagged' /\ \A k \in 1 .. Len(tags') : EndInside(k)'
    <3>1. began' \in Seq(BeginningSet) /\ Grown(began, began')
      BY <1>2, Types, SameGrown
    <3> QED  BY <1>2, <1>8, <3>1, TagsKept
  <2>8. TagsOfFrames'
    BY <1>2, <2>1, <2>3, <2>7 DEF IInv, TagsOfFrames
  <2>9. LastWritten' /\ WindowPlace'
    <3>1. m_state # "SEND_FRAME" /\ Frame' = Frame
      BY <1>2 DEF Frame
    <3> QED  BY <1>2, <2>1, <2>3, <3>1 DEF IInv, LastWritten, WindowPlace, SecondMode
  <2> QED  BY <2>2, <2>4, <2>5, <2>6, <2>7, <2>8, <2>9 DEF IInv
<1>11. CASE n = B
  <2>1. buffer' = <<>> /\ Len(buffer') = 0 /\ Coming' = p /\ m_state' = next /\ ~Flushing'
    <3>1. Len(buffer') = 0
      BY <1>6, <1>11
    <3>2. buffer' = <<>>
      BY <1>6, <3>1
    <3>3. m_state' = next
      BY <1>1, <1>4, <1>5, <1>11
    <3> QED  BY <1>2, <1>4, <3>1, <3>2, <3>3 DEF Coming, Flushing
  <2>2. HasSymbol' <=> HasSymbol
    BY <1>2 DEF HasSymbol
  <2>3. /\ NothingLostInside' /\ StartsInPreamble'
        /\ FramesBegun' /\ NextInFrame' /\ PreambleNext'
    <3>1. Coming' = Coming + n \/ (buffer' = <<>> /\ ~HasSymbol' /\ Coming' > Coming + n - 1)
      <4>1. HasSymbol => p = c + n
        BY <1>4, <1>11
      <4>2. p > c + n - 1
        BY <1>4, <1>11
      <4> QED  BY <1>4, <2>1, <2>2, <4>1, <4>2
    <3>2. Coming' \in Nat
      BY <2>1
    <3> QED  BY <1>2, <1>3, <1>8, <1>9, <3>1, <3>2, PassedMore
  <2>4. symbol_cnt = 0 /\ symbol_cnt' = 0
    <3>1. ~(symbol_cnt > 0)
      BY <1>2, <1>3 DEF IInv, RunBegins
    <3> QED  BY <1>2, <3>1, Types
  <2>5. Typed'
    <3>1. 0 <= (NUp + 1) * SamplesPerSymbol
      <4>1. NUp + 1 \in Nat
        BY SizeFacts
      <4> QED  BY <4>1, Products
    <3>2. TypeOK'
      BY <1>2, <2>1, <3>1 DEF IInv, Typed, TypeOK
    <3> QED  BY <1>2, <1>6, <1>8, <3>2, Types DEF Typed
  <2>6. StatesOfKind' /\ CountsInInput'
    BY <1>2, <2>1 DEF IInv, StatesOfKind, CountsInInput
  <2>7. RunBegins' /\ EqualInRun' /\ RoomKept'
    <3>1. Needed' = Needed /\ 0 < Needed
      <4>1. Needed' = Needed
        BY <1>2 DEF Needed
      <4> QED  BY <4>1, NeededFacts
    <3>2. RunBegins'
      BY <2>4, <3>1 DEF RunBegins
    <3> QED  BY <1>2, <1>3, <1>8, <2>1, <3>2 DEF IInv, EqualInRun, RoomKept, SecondMode
  <2>8. BufferOfInput' /\ BufferLength'
    <3>1. p + 0 = p /\ p <= p
      OBVIOUS
    <3>2. BufferOfInput'
      BY <1>2, <1>4, <2>1, <3>1 DEF BufferOfInput
    <3>3. 0 \in 0 .. NUp /\ 0 = 0 * SamplesPerSymbol
      BY SizeFacts
    <3> QED  BY <2>1, <2>4, <3>2, <3>3 DEF BufferLength
  <2>9. FramesTagged' /\ \A k \in 1 .. Len(tags') : EndInside(k)'
    <3>1. began' \in Seq(BeginningSet) /\ Grown(began, began')
      BY <1>2, Types, SameGrown
    <3> QED  BY <1>2, <1>8, <3>1, TagsKept
  <2>10. TagsOfFrames'
    BY <1>2, <2>1, <2>2, <2>9 DEF IInv, TagsOfFrames
  <2>11. LastWritten'
    <3> SUFFICES ASSUME HasSymbol' PROVE out' # <<>> /\ out'[Len(out')] = Coming' - 1
      BY DEF LastWritten
    <3>1. n \in 1 .. n /\ Len(out') # 0
      BY <1>8, Types
    <3>2. out'[Len(out) + n] = c + n - 1
      BY <1>8, <3>1
    <3>3. p - 1 = c + n - 1
      BY <1>4, <1>11, <2>2
    <3> QED  BY <1>8, <2>1, <3>1, <3>2, <3>3
  <2>12. WindowPlace'
    <3> SUFFICES ASSUME kind = "timeout", HasSymbol PROVE WindowPlace'
      BY <1>2, <2>2 DEF WindowPlace
    <3>1. m_state = "SEND_PREAMBLE" /\ m_state' = "SEND_FRAME" /\ Frame' = Frame
      BY <1>2, <2>1 DEF Frame
    <3>2. /\ m_cnt < CntRange
          /\ pos = Frame.from + NUp * SamplesPerSymbol
          /\ IF SecondMode THEN m_n_bytes = (m_cnt + NBytes) % CntRange
             ELSE m_cnt = 0 /\ m_n_bytes = NBytes
      BY <3>1 DEF IInv, WindowPlace
    <3>3. SecondMode' <=> SecondMode
      BY <1>2 DEF SecondMode
    <3>4. CASE SecondMode
      <4>1. 0 \in 0 .. NBytes /\ NBytes - 0 = NBytes /\ NUp * SamplesPerSymbol \in Nat
            /\ 0 * SamplesPerSymbol = 0 /\ p = pos
        BY <1>4, WindowBegins, SizeFacts, Products
      <4>2. Coming' = Frame.from + NUp * SamplesPerSymbol + 0 * SamplesPerSymbol
        <5>1. PICK q \in Nat : q = NUp * SamplesPerSymbol
          BY <4>1
        <5>2. PICK r \in Nat : r = Frame.from
          <6>1. Frame \in BeginningSet
            BY <1>3, Types, SMTT(60) DEF IInv, FramesBegun, Frame
          <6> QED  BY <6>1, BeginningTypes
        <5>3. p = r + q
          BY <3>2, <4>1, <5>1, <5>2
        <5>4. r + q + 0 = r + q
          OBVIOUS
        <5> QED  BY <2>1, <4>1, <5>1, <5>2, <5>3, <5>4
      <4>3. m_n_bytes' = (m_cnt' + (NBytes - 0)) % CntRange
        BY <1>2, <3>2, <3>4, <4>1
      <4> QED  BY <1>2, <3>1, <3>2, <3>3, <3>4, <4>1, <4>2, <4>3 DEF WindowPlace
    <3>5. CASE ~SecondMode
      <4>1. m_cnt' = 0 /\ 0 <= NBytes /\ m_n_bytes' = NBytes
        BY <1>2, <3>2, <3>5, WindowBegins
      <4>2. pos' = Frame'.from + NUp * SamplesPerSymbol
        BY <1>2, <3>1, <3>2
      <4> QED  BY <1>2, <3>1, <3>2, <3>3, <3>5, <4>1, <4>2 DEF WindowPlace
    <3> QED  BY <3>4, <3>5
  <2> QED  BY <2>3, <2>5, <2>6, <2>7, <2>8, <2>9, <2>10, <2>11, <2>12 DEF IInv
<1> QED  BY <1>5, <1>10, <1>11

----------------------------------------------------------------------------
(***************************************************************************)
(* Symbols and quarter symbols are passed on as they are read.             *)
(***************************************************************************)

LEMMA PassOnFacts ==
  ASSUME IInv, HasSymbol, m_state # "FIND_PREAMBLE", ~Flushing, ~Searching,
         NEW n \in 1 .. SamplesPerSymbol, NEW noutput, PassOn(n, noutput), NotSearched,
         UNCHANGED <<kind, buffer, tags, m_detect_second_packet>>,
         symbol_cnt' \in Nat, ~Flushing', kind = "timeout" => m_state' = m_state
  PROVE  /\ pos' = pos + n /\ pos' \in 0 .. InputSymbols * SamplesPerSymbol
         /\ HasSymbol' => HasSymbol
         /\ buffer' = <<>> /\ out' \in Seq(Int) /\ passed' \in Seq(Nat)
         /\ same' = 0 /\ last_bin' = -1 /\ run' = run /\ began' = began
         /\ room_kept' \in BOOLEAN /\ (n <= noutput => room_kept' = room_kept)
         /\ BufferOfInput' /\ EqualInRun'
         /\ NothingLostInside' /\ StartsInPreamble'
         /\ FramesBegun' /\ NextInFrame' /\ PreambleNext'
         /\ TagsOfFrames' /\ LastWritten' /\ FramesTagged'
<1>1. pos' = pos + n /\ Written(Items(n), noutput)
  BY DEF PassOn
<1>2. PICK p \in Nat : p = pos /\ p + SamplesPerSymbol <= InputSymbols * SamplesPerSymbol
  BY Types DEF HasSymbol
<1>3. SamplesPerSymbol \in Nat /\ InputSymbols * SamplesPerSymbol \in Nat /\ n \in Nat \ {0}
      /\ n <= SamplesPerSymbol
  BY SizeFacts
<1>4. /\ p + n \in Nat /\ p + n <= InputSymbols * SamplesPerSymbol
      /\ (p + n) + SamplesPerSymbol <= InputSymbols * SamplesPerSymbol
           => p + SamplesPerSymbol <= InputSymbols * SamplesPerSymbol
  BY <1>2, <1>3
<1>5. pos' \in 0 .. InputSymbols * SamplesPerSymbol /\ (HasSymbol' => HasSymbol)
  BY <1>1, <1>2, <1>3, <1>4 DEF HasSymbol
<1>6. buffer = <<>> /\ buffer' = <<>> /\ Coming = p /\ Coming' = p + n /\ Len(buffer') = 0
  <2>1. buffer = <<>>
    BY DEF IInv, BufferOfInput
  <2> QED  BY <1>1, <1>2, <2>1 DEF Coming
<1>7. /\ Items(n) \in Seq(Nat) /\ Len(Items(n)) = n
      /\ \A k \in 1 .. n : Items(n)[k] = p + k - 1
  <2>1. pos \in Nat /\ n \in Nat
    BY <1>2, <1>3
  <2> QED  BY <1>2, <2>1, ItemsFacts
<1>8. /\ passed' \in Seq(Nat) /\ out' \in Seq(Int) /\ Grown(out, out')
      /\ Len(passed') = Len(passed) + n /\ Len(out') = Len(out) + n
      /\ \A k \in 1 .. Len(passed) : passed'[k] = passed[k]
      /\ \A k \in 1 .. n : passed'[Len(passed) + k] = p + k - 1
      /\ \A k \in 1 .. n : out'[Len(out) + k] = p + k - 1
      /\ room_kept' \in BOOLEAN /\ (n <= noutput => room_kept' = room_kept)
  <2>1. /\ passed' \in Seq(Nat) /\ out' \in Seq(Int) /\ Grown(out, out')
        /\ Len(passed') = Len(passed) + Len(Items(n)) /\ Len(out') = Len(out) + Len(Items(n))
        /\ \A k \in 1 .. Len(passed) : passed'[k] = passed[k]
        /\ \A k \in 1 .. Len(Items(n)) : passed'[Len(passed) + k] = Items(n)[k]
        /\ \A k \in 1 .. Len(Items(n)) : out'[Len(out) + k] = Items(n)[k]
        /\ room_kept' \in BOOLEAN /\ (Len(Items(n)) <= noutput => room_kept' = room_kept)
    BY <1>1, <1>7, WrittenFacts
  <2> QED  BY <1>7, <2>1
<1>9. began' = began /\ run' = run /\ same' = 0 /\ last_bin' = -1
  BY DEF NotSearched
<1>10. /\ NothingLostInside' /\ StartsInPreamble'
       /\ FramesBegun' /\ NextInFrame' /\ PreambleNext'
  <2>1. Coming' = Coming + n /\ Coming' \in Nat
    BY <1>4, <1>6
  <2>2. \A k \in 1 .. n : passed'[Len(passed) + k] = Coming + k - 1
    BY <1>6, <1>8
  <2> QED  BY <1>3, <1>8, <1>9, <2>1, <2>2, PassedMore
<1>11. BufferOfInput'
  <2>1. Coming' + Len(buffer') = pos'
    BY <1>1, <1>2, <1>4, <1>6
  <2>2. Coming' + Len(buffer') <= pos'
    BY <1>5, <2>1
  <2> QED  BY <1>6, <2>1, <2>2 DEF BufferOfInput
<1>12. EqualInRun'
  BY <1>9 DEF EqualInRun
<1>13. FramesTagged' /\ \A k \in 1 .. Len(tags') : EndInside(k)'
  <2>1. began' \in Seq(BeginningSet) /\ Grown(began, began')
    BY <1>9, Types, SameGrown
  <2> QED  BY <1>8, <2>1, TagsKept
<1>14. TagsOfFrames'
  BY <1>5, <1>9, <1>13 DEF IInv, TagsOfFrames
<1>15. LastWritten'
  <2>1. out' # <<>> /\ Len(out') = Len(out) + n
    BY <1>3, <1>8, Types
  <2>2. n \in 1 .. n
    BY <1>3
  <2>3. out'[Len(out) + n] = p + n - 1
    BY <1>8, <2>2
  <2>4. Coming' - 1 = p + n - 1
    BY <1>3, <1>6
  <2> QED  BY <2>1, <2>3, <2>4 DEF LastWritten
<1> QED  BY <1>1, <1>5, <1>6, <1>8, <1>9, <1>10, <1>11, <1>12, <1>13, <1>14, <1>15

LEMMA TypedFrom ==
  ASSUME kind' \in {"timeout", "threshold", "sequence"},
         pos' \in 0 .. InputSymbols * SamplesPerSymbol,
         m_state' \in {"FIND_PREAMBLE", "SEND_BUFFER", "SEND_PREAMBLE", "SEND_FRAME", "SEND_END_FRAME"},
         bin_idx' \in Nat,
         symbol_cnt' \in Nat, symbol_cnt' * SamplesPerSymbol <= pos',
         m_cnt' \in Nat, m_cnt' * SamplesPerSymbol <= pos',
         m_n_bytes' \in 0 .. CntRange - 1, cnt_padding' \in 0 .. InterFramePadding,
         m_detect_second_packet' \in BOOLEAN, room_kept' \in BOOLEAN,
         buffer' \in Seq(Nat), Len(buffer') <= (NUp + 1) * SamplesPerSymbol,
         passed' \in Seq(Nat), out' \in Seq(Int), tags' \in Seq(TagSet), began' \in Seq(BeginningSet),
         run' \in Nat, same' \in Nat, last_bin' \in Int
  PROVE  Typed'
<1>1. pos' \in Nat /\ pos' <= InputSymbols * SamplesPerSymbol
  BY SizeFacts
<1>2. symbol_cnt' \in 0 .. InputSymbols /\ m_cnt' \in 0 .. InputSymbols
  BY <1>1, CountBounded
<1> QED  BY <1>2 DEF Typed, TypeOK

\* The same for the steps that leave the buffer empty.
LEMMA EmptyTyped ==
  ASSUME IInv, UNCHANGED <<kind, bin_idx, tags, m_detect_second_packet, began, run>>,
         pos' \in 0 .. InputSymbols * SamplesPerSymbol,
         m_state' \in {"FIND_PREAMBLE", "SEND_BUFFER", "SEND_PREAMBLE", "SEND_FRAME", "SEND_END_FRAME"},
         symbol_cnt' \in Nat, symbol_cnt' * SamplesPerSymbol <= pos',
         m_cnt' \in Nat, m_cnt' * SamplesPerSymbol <= pos',
         m_n_bytes' = m_n_bytes, cnt_padding' \in 0 .. InterFramePadding,
         room_kept' \in BOOLEAN, buffer' = <<>>,
         passed' \in Seq(Nat), out' \in Seq(Int), same' = 0, last_bin' = -1
  PROVE  Typed'
<1>1. Len(buffer') <= (NUp + 1) * SamplesPerSymbol /\ buffer' \in Seq(Nat)
  <2>1. (NUp + 1) * SamplesPerSymbol \in Nat
    <3>1. NUp + 1 \in Nat
      BY SizeFacts
    <3> QED  BY <3>1, Products
  <2> QED  BY <2>1
<1>2. same' \in Nat /\ last_bin' \in Int
  OBVIOUS
<1>3. /\ kind' \in {"timeout", "threshold", "sequence"} /\ bin_idx' \in Nat
      /\ tags' \in Seq(TagSet) /\ began' \in Seq(BeginningSet) /\ run' \in Nat
      /\ m_detect_second_packet' \in BOOLEAN /\ m_n_bytes' \in 0 .. CntRange - 1
  BY Types
<1> QED  BY <1>1, <1>2, <1>3, TypedFrom

\* m_cnt symbols of the window.
LEMMA CountsOf ==
  ASSUME IInv
  PROVE  /\ symbol_cnt * SamplesPerSymbol \in Nat /\ symbol_cnt * SamplesPerSymbol <= pos
         /\ m_cnt * SamplesPerSymbol \in Nat
         /\ (m_cnt + 1) * SamplesPerSymbol = m_cnt * SamplesPerSymbol + SamplesPerSymbol
         /\ (symbol_cnt + 1) * SamplesPerSymbol = symbol_cnt * SamplesPerSymbol + SamplesPerSymbol
         /\ (m_cnt + 1 + 1) * SamplesPerSymbol = (m_cnt + 1) * SamplesPerSymbol + SamplesPerSymbol
         /\ 0 * SamplesPerSymbol = 0 /\ (0 + 1) * SamplesPerSymbol = SamplesPerSymbol
         /\ 1 * SamplesPerSymbol = SamplesPerSymbol
         /\ m_state # "FIND_PREAMBLE" => m_cnt * SamplesPerSymbol <= pos
<1>1. symbol_cnt \in Nat /\ m_cnt \in Nat /\ m_cnt + 1 \in Nat /\ SamplesPerSymbol \in Nat
  BY Types, SizeFacts, SMTT(60)
<1>2. 0 * SamplesPerSymbol = 0 /\ (0 + 1) * SamplesPerSymbol = SamplesPerSymbol
      /\ 1 * SamplesPerSymbol = SamplesPerSymbol
  BY <1>1
<1> QED  BY <1>1, <1>2, Products DEF IInv, CountsInInput

LEMMA TimeoutQuarterKeeps ==
  ASSUME IInv, TimeoutQuarter, UNCHANGED <<kind, cnt_padding>>
  PROVE  IInv'
<1>1. PICK noutput \in Rooms :
        /\ Sending(noutput) /\ ~m_detect_second_packet
        /\ m_cnt = 0 /\ m_cnt' = 1
        /\ PassOn(SamplesPerSymbol \div 4, noutput)
        /\ NotSearched
        /\ UNCHANGED <<m_state, bin_idx, symbol_cnt, buffer, tags, timeoutVars>>
  BY DEF TimeoutQuarter
<1>2. /\ kind = "timeout" /\ m_state = "SEND_FRAME" /\ m_state' = "SEND_FRAME" /\ HasSymbol
      /\ noutput > SamplesPerSymbol
      /\ UNCHANGED <<kind, bin_idx, symbol_cnt, buffer, tags, m_detect_second_packet, m_n_bytes, cnt_padding>>
      /\ ~SecondMode /\ ~SecondMode' /\ ~Flushing /\ ~Flushing' /\ ~Searching /\ ~Searching'
  BY <1>1 DEF Sending, timeoutVars, SecondMode, Flushing, Searching
<1>3. PICK q \in 1 .. SamplesPerSymbol : q = SamplesPerSymbol \div 4 /\ q <= noutput
  <2>1. noutput \in Nat /\ SamplesPerSymbol \in Nat /\ SamplesPerSymbol \div 4 \in 1 .. SamplesPerSymbol
    BY DetectorAssumption, SizeFacts
  <2> QED  BY <1>2, <2>1
<1>4. PassOn(q, noutput) /\ NotSearched /\ symbol_cnt' \in Nat /\ symbol_cnt' = 0
  <2>1. ~(symbol_cnt > 0)
    BY <1>2 DEF IInv, RunBegins
  <2> QED  BY <1>1, <1>2, <1>3, <2>1, Types, SMTT(60)
<1>5. /\ pos' = pos + q /\ pos' \in 0 .. InputSymbols * SamplesPerSymbol
      /\ HasSymbol' => HasSymbol
      /\ buffer' = <<>> /\ out' \in Seq(Int) /\ passed' \in Seq(Nat)
      /\ same' = 0 /\ last_bin' = -1 /\ run' = run /\ began' = began
      /\ room_kept' \in BOOLEAN /\ room_kept' = room_kept
      /\ BufferOfInput' /\ EqualInRun'
      /\ NothingLostInside' /\ StartsInPreamble'
      /\ FramesBegun' /\ NextInFrame' /\ PreambleNext'
      /\ TagsOfFrames' /\ LastWritten' /\ FramesTagged'
  BY <1>2, <1>3, <1>4, PassOnFacts
<1>6. PICK p \in Nat : p = pos /\ 2 * SamplesPerSymbol <= p /\ 2 * SamplesPerSymbol <= p + q
  <2>1. pos \in Nat /\ 2 * SamplesPerSymbol <= pos /\ SamplesPerSymbol \in Nat
    BY <1>2, Types, SizeFacts DEF IInv, CountsInInput
  <2>2. 2 * SamplesPerSymbol <= pos + q
    BY <2>1
  <2> QED  BY <2>1, <2>2
<1>7. CountsInInput' /\ m_cnt' * SamplesPerSymbol <= pos' /\ symbol_cnt' * SamplesPerSymbol <= pos'
  <2>1. 1 * SamplesPerSymbol <= p + q /\ (1 + 1) * SamplesPerSymbol <= p + q
        /\ 0 * SamplesPerSymbol <= p + q
    BY <1>6, SizeFacts
  <2> QED  BY <1>1, <1>2, <1>4, <1>5, <1>6, <2>1 DEF CountsInInput
<1>8. Typed'
  <2>1. cnt_padding' \in 0 .. InterFramePadding /\ m_cnt' \in Nat
    BY <1>1, <1>2, Types
  <2> QED  BY <1>2, <1>4, <1>5, <1>7, <2>1, EmptyTyped
<1>9. StatesOfKind' /\ BufferLength' /\ RunBegins' /\ RoomKept'
  BY <1>2, <1>4, <1>5 DEF IInv, StatesOfKind, BufferLength, RunBegins, RoomKept
<1>10. WindowPlace'
  <2>1. Frame' = Frame
    BY <1>5 DEF Frame
  <2>2. pos = Frame.from + NUp * SamplesPerSymbol /\ m_n_bytes = NBytes
    BY <1>1, <1>2 DEF IInv, WindowPlace
  <2>3. PICK r \in Nat, x \in Nat : r = Frame.from /\ x = NUp * SamplesPerSymbol
    <3>1. Frame \in BeginningSet
      BY <1>2, Types, SMTT(60) DEF IInv, FramesBegun, Frame
    <3> QED  BY <3>1, BeginningTypes, SizeFacts, Products
  <2>4. pos' = r + x + ((1 - 1) * SamplesPerSymbol + q)
    <3>1. (1 - 1) * SamplesPerSymbol = 0
      BY SizeFacts
    <3>2. pos' = (r + x) + q
      BY <1>5, <2>2, <2>3
    <3>3. (r + x) + q = r + x + (0 + q)
      OBVIOUS
    <3> QED  BY <3>1, <3>2, <3>3
  <2>5. m_cnt' < CntRange /\ m_cnt' <= NBytes /\ m_cnt' # 0 /\ m_n_bytes' = NBytes
    BY <1>1, <1>2, <2>2, WindowBegins
  <2> QED  BY <1>1, <1>2, <1>3, <2>1, <2>3, <2>4, <2>5 DEF WindowPlace
<1> QED  BY <1>5, <1>7, <1>8, <1>9, <1>10 DEF IInv

LEMMA FrameTypes ==
  ASSUME IInv, m_state # "FIND_PREAMBLE"
  PROVE  Frame \in BeginningSet /\ Frame.at \in Nat /\ Frame.from \in Nat
         /\ NUp * SamplesPerSymbol \in Nat
<1>1. Frame \in BeginningSet
  BY Types, SMTT(60) DEF IInv, FramesBegun, Frame
<1> QED  BY <1>1, BeginningTypes, SizeFacts, Products

\* A whole symbol is within what may be passed on.
LEMMA WholeSymbol == SamplesPerSymbol \in 1 .. SamplesPerSymbol
  BY SizeFacts

LEMMA TimeoutSymbolKeeps ==
  ASSUME IInv, TimeoutSymbol, UNCHANGED <<kind, cnt_padding>>
  PROVE  IInv'
<1>1. PICK noutput \in Rooms :
        /\ Sending(noutput) /\ ~m_detect_second_packet
        /\ m_cnt # 0 /\ ~WindowFull
        /\ m_cnt' = (m_cnt + 1) % CntRange
        /\ PassOn(SamplesPerSymbol, noutput)
        /\ NotSearched
        /\ UNCHANGED <<m_state, bin_idx, symbol_cnt, buffer, tags, timeoutVars>>
  BY DEF TimeoutSymbol
<1>2. /\ kind = "timeout" /\ m_state = "SEND_FRAME" /\ m_state' = "SEND_FRAME" /\ HasSymbol
      /\ noutput > SamplesPerSymbol
      /\ UNCHANGED <<kind, bin_idx, symbol_cnt, buffer, tags, m_detect_second_packet, m_n_bytes, cnt_padding>>
      /\ ~SecondMode /\ ~SecondMode' /\ ~Flushing /\ ~Flushing' /\ ~Searching /\ ~Searching'
  BY <1>1 DEF Sending, timeoutVars, SecondMode, Flushing, Searching
<1>3. SamplesPerSymbol <= noutput
  BY <1>2, DetectorAssumption, SizeFacts
<1>4. symbol_cnt' \in Nat /\ symbol_cnt' = 0
  <2>1. ~(symbol_cnt > 0)
    BY <1>2 DEF IInv, RunBegins
  <2> QED  BY <1>2, <2>1, Types
<1>5. /\ pos' = pos + SamplesPerSymbol /\ pos' \in 0 .. InputSymbols * SamplesPerSymbol
      /\ HasSymbol' => HasSymbol
      /\ buffer' = <<>> /\ out' \in Seq(Int) /\ passed' \in Seq(Nat)
      /\ same' = 0 /\ last_bin' = -1 /\ run' = run /\ began' = began
      /\ room_kept' \in BOOLEAN /\ room_kept' = room_kept
      /\ BufferOfInput' /\ EqualInRun'
      /\ NothingLostInside' /\ StartsInPreamble'
      /\ FramesBegun' /\ NextInFrame' /\ PreambleNext'
      /\ TagsOfFrames' /\ LastWritten' /\ FramesTagged'
  BY <1>1, <1>2, <1>3, <1>4, WholeSymbol, PassOnFacts
<1>6. PICK c \in Nat : c = m_cnt /\ c > 0 /\ c < NBytes /\ m_cnt' = c + 1
  <2>1. m_cnt \in Nat /\ m_cnt <= NBytes /\ m_n_bytes = NBytes
    BY <1>2, Types DEF IInv, WindowPlace
  <2>2. m_cnt > 0 /\ m_cnt < NBytes
    BY <1>1, <2>1, WindowBegins DEF WindowFull
  <2>3. (m_cnt + 1) % CntRange = m_cnt + 1
    <3>1. m_cnt + 1 \in 0 .. CntRange - 1
      BY <2>1, <2>2, WindowBegins
    <3> QED  BY <3>1, WindowBegins
  <2> QED  BY <1>1, <2>1, <2>2, <2>3
<1>7. PICK p \in Nat, X \in Nat :
        /\ p = pos /\ X = c * SamplesPerSymbol /\ X + SamplesPerSymbol <= p
        /\ (c + 1) * SamplesPerSymbol = X + SamplesPerSymbol
        /\ (c + 1 + 1) * SamplesPerSymbol = X + SamplesPerSymbol + SamplesPerSymbol
        /\ (c - 1) * SamplesPerSymbol = X - SamplesPerSymbol
        /\ 2 * SamplesPerSymbol <= p
  <2>1. /\ c * SamplesPerSymbol \in Nat
        /\ (c + 1) * SamplesPerSymbol = c * SamplesPerSymbol + SamplesPerSymbol
        /\ (c + 1 + 1) * SamplesPerSymbol = (c + 1) * SamplesPerSymbol + SamplesPerSymbol
        /\ (c - 1) * SamplesPerSymbol = c * SamplesPerSymbol - SamplesPerSymbol
    BY <1>6, Products
  <2>2. pos \in Nat /\ (c + 1) * SamplesPerSymbol <= pos /\ 2 * SamplesPerSymbol <= pos
    BY <1>2, <1>6, Types DEF IInv, CountsInInput
  <2> QED  BY <2>1, <2>2
<1>8. CountsInInput' /\ m_cnt' * SamplesPerSymbol <= pos' /\ symbol_cnt' * SamplesPerSymbol <= pos'
  <2>1. X + SamplesPerSymbol <= p + SamplesPerSymbol
        /\ X + SamplesPerSymbol + SamplesPerSymbol <= p + SamplesPerSymbol
        /\ 2 * SamplesPerSymbol <= p + SamplesPerSymbol
        /\ 0 * SamplesPerSymbol <= p + SamplesPerSymbol
    BY <1>7, SizeFacts
  <2> QED  BY <1>2, <1>4, <1>5, <1>6, <1>7, <2>1 DEF CountsInInput
<1>9. Typed'
  <2>1. cnt_padding' \in 0 .. InterFramePadding /\ m_cnt' \in Nat
    BY <1>2, <1>6, Types
  <2> QED  BY <1>2, <1>4, <1>5, <1>8, <2>1, EmptyTyped
<1>10. StatesOfKind' /\ BufferLength' /\ RunBegins' /\ RoomKept'
  BY <1>2, <1>4, <1>5 DEF IInv, StatesOfKind, BufferLength, RunBegins, RoomKept
<1>11. WindowPlace'
  <2>1. Frame' = Frame
    BY <1>5 DEF Frame
  <2>2. PICK r \in Nat, x \in Nat, q \in Nat :
          r = Frame.from /\ x = NUp * SamplesPerSymbol /\ q = SamplesPerSymbol \div 4
    BY <1>2, FrameTypes, SizeFacts
  <2>3. pos = Frame.from + NUp * SamplesPerSymbol
               + ((m_cnt - 1) * SamplesPerSymbol + (SamplesPerSymbol \div 4))
        /\ m_n_bytes = NBytes
    BY <1>1, <1>2 DEF IInv, WindowPlace
  <2>4. p = r + x + ((X - SamplesPerSymbol) + q)
    BY <1>6, <1>7, <2>2, <2>3
  <2>5. p + SamplesPerSymbol = r + x + (X + q)
    BY <2>4, SizeFacts
  <2>6. pos' = r + x + (((c + 1) - 1) * SamplesPerSymbol + q)
    <3>1. (c + 1) - 1 = c
      OBVIOUS
    <3> QED  BY <1>5, <1>7, <2>5, <3>1
  <2>7. m_cnt' < CntRange /\ m_cnt' <= NBytes /\ m_cnt' # 0 /\ m_n_bytes' = NBytes
    BY <1>2, <1>6, <2>3, WindowBegins
  <2> QED  BY <1>2, <1>6, <2>1, <2>2, <2>6, <2>7 DEF WindowPlace
<1> QED  BY <1>5, <1>8, <1>9, <1>10, <1>11 DEF IInv

\* The two other blocks have no window.
LEMMA NoWindow ==
  ASSUME kind' # "timeout"
  PROVE  WindowPlace' /\ RoomKept' /\ ~SecondMode'
  BY DEF WindowPlace, RoomKept, SecondMode

LEMMA ThresholdSymbolKeeps ==
  ASSUME IInv, ThresholdSymbol, UNCHANGED <<kind, timeoutVars>>
  PROVE  IInv'
<1>1. PICK noutput \in Rooms :
        /\ kind = "threshold" /\ m_state = "SEND_FRAME" /\ HasSymbol
        /\ PassOn(SamplesPerSymbol, noutput)
        /\ m_cnt' = m_cnt + 1
        /\ NotSearched
        /\ UNCHANGED <<m_state, bin_idx, symbol_cnt, buffer, tags, cnt_padding>>
  BY DEF ThresholdSymbol
<1>2. /\ kind' = "threshold" /\ m_state' = "SEND_FRAME"
      /\ UNCHANGED <<kind, m_detect_second_packet, m_n_bytes>>
      /\ ~SecondMode /\ ~Flushing /\ ~Flushing' /\ ~Searching /\ ~Searching'
  BY <1>1 DEF timeoutVars, SecondMode, Flushing, Searching
<1>3. symbol_cnt' \in Nat /\ symbol_cnt' = 0
  <2>1. ~(symbol_cnt > 0)
    BY <1>1, <1>2 DEF IInv, RunBegins
  <2> QED  BY <1>1, <2>1, Types, SMTT(60)
<1>4. /\ pos' = pos + SamplesPerSymbol /\ pos' \in 0 .. InputSymbols * SamplesPerSymbol
      /\ buffer' = <<>> /\ out' \in Seq(Int) /\ passed' \in Seq(Nat)
      /\ same' = 0 /\ last_bin' = -1 /\ run' = run /\ began' = began
      /\ room_kept' \in BOOLEAN
      /\ BufferOfInput' /\ EqualInRun'
      /\ NothingLostInside' /\ StartsInPreamble'
      /\ FramesBegun' /\ NextInFrame' /\ PreambleNext'
      /\ TagsOfFrames' /\ LastWritten' /\ FramesTagged'
  BY <1>1, <1>2, <1>3, WholeSymbol, PassOnFacts
<1>5. CountsInInput' /\ m_cnt' * SamplesPerSymbol <= pos' /\ symbol_cnt' * SamplesPerSymbol <= pos'
  <2>1. PICK p \in Nat, X \in Nat :
          /\ p = pos /\ X = m_cnt * SamplesPerSymbol /\ X + SamplesPerSymbol <= p
          /\ (m_cnt + 1) * SamplesPerSymbol = X + SamplesPerSymbol
          /\ (m_cnt + 1 + 1) * SamplesPerSymbol = X + SamplesPerSymbol + SamplesPerSymbol
          /\ 2 * SamplesPerSymbol <= p
    BY <1>1, CountsOf, Types DEF IInv, CountsInInput
  <2>2. X + SamplesPerSymbol <= p + SamplesPerSymbol
        /\ X + SamplesPerSymbol + SamplesPerSymbol <= p + SamplesPerSymbol
        /\ 2 * SamplesPerSymbol <= p + SamplesPerSymbol
        /\ 0 * SamplesPerSymbol <= p + SamplesPerSymbol
    BY <2>1, SizeFacts
  <2> QED  BY <1>1, <1>2, <1>3, <1>4, <2>1, <2>2 DEF CountsInInput
<1>6. Typed'
  <2>1. cnt_padding' \in 0 .. InterFramePadding /\ m_cnt' \in Nat
    BY <1>1, Types, SMTT(60)
  <2> QED  BY <1>1, <1>2, <1>3, <1>4, <1>5, <2>1, EmptyTyped
<1>7. StatesOfKind' /\ BufferLength' /\ RunBegins'
  BY <1>2, <1>3, NoWindow DEF StatesOfKind, BufferLength, RunBegins
<1> QED  BY <1>2, <1>4, <1>5, <1>6, <1>7, NoWindow DEF IInv

LEMMA ThresholdPaddingKeeps ==
  ASSUME IInv, ThresholdPadding, UNCHANGED <<kind, timeoutVars>>
  PROVE  IInv'
<1>1. PICK noutput \in Rooms :
        /\ kind = "threshold" /\ m_state = "SEND_END_FRAME" /\ HasSymbol
        /\ cnt_padding # InterFramePadding
        /\ PassOn(SamplesPerSymbol, noutput)
        /\ cnt_padding' = cnt_padding + 1
        /\ NotSearched
        /\ UNCHANGED <<m_state, bin_idx, symbol_cnt, m_cnt, buffer, tags>>
  BY DEF ThresholdPadding
<1>2. /\ kind' = "threshold" /\ m_state' = "SEND_END_FRAME"
      /\ UNCHANGED <<kind, m_detect_second_packet, m_n_bytes>>
      /\ ~SecondMode /\ ~Flushing /\ ~Flushing' /\ ~Searching /\ ~Searching'
  BY <1>1 DEF timeoutVars, SecondMode, Flushing, Searching
<1>3. symbol_cnt' \in Nat /\ symbol_cnt' = 0
  <2>1. ~(symbol_cnt > 0)
    BY <1>1, <1>2 DEF IInv, RunBegins
  <2> QED  BY <1>1, <2>1, Types
<1>4. /\ pos' = pos + SamplesPerSymbol /\ pos' \in 0 .. InputSymbols * SamplesPerSymbol
      /\ buffer' = <<>> /\ out' \in Seq(Int) /\ passed' \in Seq(Nat)
      /\ same' = 0 /\ last_bin' = -1 /\ run' = run /\ began' = began
      /\ room_kept' \in BOOLEAN
      /\ BufferOfInput' /\ EqualInRun'
      /\ NothingLostInside' /\ StartsInPreamble'
      /\ FramesBegun' /\ NextInFrame' /\ PreambleNext'
      /\ TagsOfFrames' /\ LastWritten' /\ FramesTagged'
  BY <1>1, <1>2, <1>3, WholeSymbol, PassOnFacts
<1>5. CountsInInput' /\ m_cnt' * SamplesPerSymbol <= pos' /\ symbol_cnt' * SamplesPerSymbol <= pos'
  <2>1. PICK p \in Nat, X \in Nat :
          /\ p = pos /\ X = m_cnt * SamplesPerSymbol /\ X <= p /\ 2 * SamplesPerSymbol <= p
    BY <1>1, CountsOf, Types DEF IInv, CountsInInput
  <2>2. X <= p + SamplesPerSymbol /\ 2 * SamplesPerSymbol <= p + SamplesPerSymbol
        /\ 0 * SamplesPerSymbol <= p + SamplesPerSymbol
    BY <2>1, SizeFacts
  <2> QED  BY <1>1, <1>2, <1>3, <1>4, <2>1, <2>2 DEF CountsInInput
<1>6. Typed'
  <2>1. cnt_padding' \in 0 .. InterFramePadding /\ m_cnt' \in Nat
    <3>1. cnt_padding \in 0 .. InterFramePadding /\ InterFramePadding \in Nat
      BY Types, ThresholdAssumption
    <3> QED  BY <1>1, <3>1, Types
  <2> QED  BY <1>1, <1>2, <1>3, <1>4, <1>5, <2>1, EmptyTyped
<1>7. StatesOfKind' /\ BufferLength' /\ RunBegins'
  BY <1>2, <1>3, NoWindow DEF StatesOfKind, BufferLength, RunBegins
<1> QED  BY <1>2, <1>4, <1>5, <1>6, <1>7, NoWindow DEF IInv

LEMMA ThresholdEndKeeps ==
  ASSUME IInv, ThresholdEnd, UNCHANGED <<kind, timeoutVars>>
  PROVE  IInv'
<1>1. PICK noutput \in Rooms :
        /\ kind = "threshold" /\ m_state = "SEND_END_FRAME" /\ HasSymbol
        /\ PassOn(SamplesPerSymbol \div 4, noutput)
        /\ cnt_padding' = 0 /\ symbol_cnt' = 0 /\ m_cnt' = 0
        /\ m_state' = "FIND_PREAMBLE"
        /\ NotSearched
        /\ UNCHANGED <<bin_idx, buffer, tags>>
  BY DEF ThresholdEnd
<1>2. /\ kind' = "threshold"
      /\ UNCHANGED <<kind, m_detect_second_packet, m_n_bytes>>
      /\ ~SecondMode /\ ~Flushing /\ ~Flushing' /\ ~Searching
  BY <1>1 DEF timeoutVars, SecondMode, Flushing, Searching
<1>3. symbol_cnt' \in Nat /\ SamplesPerSymbol \div 4 \in 1 .. SamplesPerSymbol
  BY <1>1, SizeFacts
<1>4. /\ pos' \in 0 .. InputSymbols * SamplesPerSymbol
      /\ buffer' = <<>> /\ out' \in Seq(Int) /\ passed' \in Seq(Nat)
      /\ same' = 0 /\ last_bin' = -1 /\ run' = run /\ began' = began
      /\ room_kept' \in BOOLEAN
      /\ BufferOfInput' /\ EqualInRun'
      /\ NothingLostInside' /\ StartsInPreamble'
      /\ FramesBegun' /\ NextInFrame' /\ PreambleNext'
      /\ TagsOfFrames' /\ LastWritten' /\ FramesTagged'
  BY <1>1, <1>2, <1>3, PassOnFacts
<1>5. 0 * SamplesPerSymbol = 0 /\ 0 <= pos'
  BY <1>4, SizeFacts
<1>6. CountsInInput' /\ m_cnt' * SamplesPerSymbol <= pos' /\ symbol_cnt' * SamplesPerSymbol <= pos'
  BY <1>1, <1>5 DEF CountsInInput
<1>7. Typed'
  <2>1. cnt_padding' \in 0 .. InterFramePadding /\ m_cnt' \in Nat
    BY <1>1, ThresholdAssumption
  <2> QED  BY <1>1, <1>2, <1>3, <1>4, <1>6, <2>1, EmptyTyped
<1>8. StatesOfKind' /\ BufferLength' /\ RunBegins'
  <2>1. 0 < Needed' /\ Len(buffer') = 0
    <3>1. Needed' = Needed
      BY <1>2 DEF Needed
    <3> QED  BY <1>4, <3>1, NeededFacts
  <2> QED  BY <1>1, <1>2, <1>5, <2>1, NoWindow DEF StatesOfKind, BufferLength, RunBegins
<1> QED  BY <1>2, <1>4, <1>6, <1>7, <1>8, NoWindow DEF IInv

LEMMA SequenceQuarterKeeps ==
  ASSUME IInv, SequenceQuarter, UNCHANGED <<kind, timeoutVars, cnt_padding>>
  PROVE  IInv'
<1>1. PICK noutput \in Rooms :
        /\ kind = "sequence" /\ m_state = "SEND_PREAMBLE" /\ HasSymbol
        /\ PassOn(SamplesPerSymbol \div 4, noutput)
        /\ m_cnt' = 0 /\ m_state' = "SEND_FRAME"
        /\ NotSearched
        /\ UNCHANGED <<bin_idx, symbol_cnt, buffer, tags>>
  BY DEF SequenceQuarter
<1>2. /\ kind' = "sequence"
      /\ UNCHANGED <<kind, m_detect_second_packet, m_n_bytes, cnt_padding>>
      /\ ~SecondMode /\ ~Flushing /\ ~Flushing' /\ ~Searching /\ ~Searching'
  BY <1>1 DEF timeoutVars, SecondMode, Flushing, Searching
<1>3. /\ symbol_cnt' \in Nat /\ symbol_cnt' = 0
      /\ SamplesPerSymbol \div 4 \in 1 .. SamplesPerSymbol
  <2>1. ~(symbol_cnt > 0)
    BY <1>1, <1>2 DEF IInv, RunBegins
  <2> QED  BY <1>1, <2>1, Types, SizeFacts, SMTT(60)
<1>4. /\ pos' = pos + (SamplesPerSymbol \div 4) /\ pos' \in 0 .. InputSymbols * SamplesPerSymbol
      /\ buffer' = <<>> /\ out' \in Seq(Int) /\ passed' \in Seq(Nat)
      /\ same' = 0 /\ last_bin' = -1 /\ run' = run /\ began' = began
      /\ room_kept' \in BOOLEAN
      /\ BufferOfInput' /\ EqualInRun'
      /\ NothingLostInside' /\ StartsInPreamble'
      /\ FramesBegun' /\ NextInFrame' /\ PreambleNext'
      /\ TagsOfFrames' /\ LastWritten' /\ FramesTagged'
  BY <1>1, <1>2, <1>3, PassOnFacts
<1>5. /\ 0 * SamplesPerSymbol <= pos' /\ 2 * SamplesPerSymbol <= pos'
      /\ (0 + 1) * SamplesPerSymbol <= pos'
  <2>1. PICK p \in Nat, q \in Nat :
          /\ p = pos /\ q = SamplesPerSymbol \div 4 /\ 2 * SamplesPerSymbol <= p
    BY <1>1, <1>3, Types, SMTT(60) DEF IInv, CountsInInput
  <2>2. 0 * SamplesPerSymbol <= p + q /\ 2 * SamplesPerSymbol <= p + q
        /\ (0 + 1) * SamplesPerSymbol <= p + q
    BY <2>1, SizeFacts
  <2> QED  BY <1>4, <2>1, <2>2
<1>6. CountsInInput' /\ m_cnt' * SamplesPerSymbol <= pos' /\ symbol_cnt' * SamplesPerSymbol <= pos'
  BY <1>1, <1>3, <1>5 DEF CountsInInput
<1>7. Typed'
  <2>1. cnt_padding' \in 0 .. InterFramePadding /\ m_cnt' \in Nat
    BY <1>1, <1>2, Types
  <2> QED  BY <1>1, <1>2, <1>3, <1>4, <1>6, <2>1, EmptyTyped
<1>8. StatesOfKind' /\ BufferLength' /\ RunBegins'
  BY <1>1, <1>2, <1>3, NoWindow DEF StatesOfKind, BufferLength, RunBegins
<1> QED  BY <1>2, <1>4, <1>6, <1>7, <1>8, NoWindow DEF IInv

LEMMA SequenceSymbolKeeps ==
  ASSUME IInv, SequenceSymbol, UNCHANGED <<kind, timeoutVars, cnt_padding>>
  PROVE  IInv'
<1>1. PICK noutput \in Rooms, bin \in Bins :
        /\ kind = "sequence" /\ m_state = "SEND_FRAME" /\ HasSymbol
        /\ bin_idx' = IF Continues(bin) THEN bin_idx ELSE bin
        /\ \/ symbol_cnt' = 0 /\ m_state' = "SEND_END_FRAME"
           \/ symbol_cnt' = CountNow(bin) /\ UNCHANGED m_state
        /\ PassOn(SamplesPerSymbol, noutput)
        /\ NotSearched
        /\ UNCHANGED <<m_cnt, buffer, tags>>
  BY DEF SequenceSymbol
<1>2. /\ kind' = "sequence" /\ m_state' \in {"SEND_FRAME", "SEND_END_FRAME"}
      /\ UNCHANGED <<kind, m_detect_second_packet, m_n_bytes, cnt_padding>>
      /\ ~SecondMode /\ ~Flushing /\ ~Flushing' /\ ~Searching /\ ~Searching'
  BY <1>1 DEF timeoutVars, SecondMode, Flushing, Searching
<1>3. /\ symbol_cnt' \in Nat
      /\ symbol_cnt' = 0 \/ symbol_cnt' = symbol_cnt + 1 \/ symbol_cnt' = 1
      /\ symbol_cnt' > 0 => m_state' = "SEND_FRAME"
  BY <1>1, Types, SMTT(60) DEF CountNow
<1>4. /\ pos' = pos + SamplesPerSymbol /\ pos' \in 0 .. InputSymbols * SamplesPerSymbol
      /\ buffer' = <<>> /\ out' \in Seq(Int) /\ passed' \in Seq(Nat)
      /\ same' = 0 /\ last_bin' = -1 /\ run' = run /\ began' = began
      /\ room_kept' \in BOOLEAN
      /\ BufferOfInput' /\ EqualInRun'
      /\ NothingLostInside' /\ StartsInPreamble'
      /\ FramesBegun' /\ NextInFrame' /\ PreambleNext'
      /\ TagsOfFrames' /\ LastWritten' /\ FramesTagged'
  BY <1>1, <1>2, <1>3, WholeSymbol, PassOnFacts
<1>5. CountsInInput' /\ m_cnt' * SamplesPerSymbol <= pos' /\ symbol_cnt' * SamplesPerSymbol <= pos'
  <2>1. PICK p \in Nat, X \in Nat, Y \in Nat :
          /\ p = pos /\ X = m_cnt * SamplesPerSymbol /\ Y = symbol_cnt * SamplesPerSymbol
          /\ X + SamplesPerSymbol <= p /\ Y <= p /\ 2 * SamplesPerSymbol <= p
          /\ (m_cnt + 1) * SamplesPerSymbol = X + SamplesPerSymbol
          /\ (symbol_cnt + 1) * SamplesPerSymbol = Y + SamplesPerSymbol
    BY <1>1, CountsOf, Types DEF IInv, CountsInInput
  <2>2. /\ X <= p + SamplesPerSymbol /\ X + SamplesPerSymbol <= p + SamplesPerSymbol
        /\ 2 * SamplesPerSymbol <= p + SamplesPerSymbol
        /\ Y + SamplesPerSymbol <= p + SamplesPerSymbol
        /\ 0 * SamplesPerSymbol <= p + SamplesPerSymbol
        /\ 1 * SamplesPerSymbol <= p + SamplesPerSymbol
    BY <2>1, SizeFacts
  <2>3. symbol_cnt' * SamplesPerSymbol <= pos'
    BY <1>3, <1>4, <2>1, <2>2
  <2> QED  BY <1>1, <1>2, <1>4, <2>1, <2>2, <2>3 DEF CountsInInput
<1>6. Typed'
  <2>1. cnt_padding' \in 0 .. InterFramePadding /\ m_cnt' \in Nat
    BY <1>1, <1>2, Types
  <2>2. bin_idx' \in Nat
    BY <1>1, Types, DetectorAssumption
  <2>3. /\ tags' \in Seq(TagSet) /\ began' \in Seq(BeginningSet) /\ run' \in Nat
        /\ m_detect_second_packet' \in BOOLEAN /\ m_n_bytes' \in 0 .. CntRange - 1
    BY <1>1, <1>2, <1>4, Types
  <2>4. Len(buffer') <= (NUp + 1) * SamplesPerSymbol /\ buffer' \in Seq(Nat)
    <3>1. (NUp + 1) * SamplesPerSymbol \in Nat
      <4>1. NUp + 1 \in Nat
        BY SizeFacts
      <4> QED  BY <4>1, Products
    <3> QED  BY <1>4, <3>1
  <2>5. same' \in Nat /\ last_bin' \in Int
    BY <1>4
  <2> QED  BY <1>2, <1>3, <1>4, <1>5, <2>1, <2>2, <2>3, <2>4, <2>5, TypedFrom
<1>7. StatesOfKind' /\ BufferLength' /\ RunBegins'
  BY <1>1, <1>2, <1>3, NoWindow DEF IInv, StatesOfKind, BufferLength, RunBegins
<1> QED  BY <1>2, <1>4, <1>5, <1>6, <1>7, NoWindow DEF IInv

\* A step that neither reads nor writes, in a state in which the buffer is empty.
LEMMA NothingMoves ==
  ASSUME IInv, HasSymbol, m_state # "FIND_PREAMBLE", ~Flushing, ~Searching, ~SecondMode,
         kind # "timeout", ~Flushing',
         UNCHANGED <<kind, pos, buffer, tags, written, history, m_detect_second_packet>>
  PROVE  /\ buffer' = <<>>
         /\ BufferOfInput' /\ same' = 0
         /\ NothingLostInside' /\ StartsInPreamble'
         /\ FramesBegun' /\ NextInFrame' /\ PreambleNext'
         /\ TagsOfFrames' /\ LastWritten' /\ FramesTagged'
<1>1. UNCHANGED <<out, passed, room_kept, run, same, last_bin, began>>
  BY DEF written, history
<1>2. buffer = <<>> /\ buffer' = <<>> /\ Coming' = Coming /\ Len(buffer') = 0 /\ Frame' = Frame
  <2>1. buffer = <<>>
    BY DEF IInv, BufferOfInput
  <2> QED  BY <1>1, <2>1 DEF Coming, Frame
<1>3. HasSymbol'
  BY DEF HasSymbol
<1>4. BufferOfInput'
  <2>1. Coming + Len(buffer) = pos /\ Coming + Len(buffer) <= pos
    BY ComingFacts
  <2> QED  BY <1>2, <2>1 DEF BufferOfInput
<1>5. same' = 0
  BY <1>1 DEF IInv, EqualInRun
<1>6. NothingLostInside' /\ StartsInPreamble'
  BY <1>1 DEF IInv, NothingLostInside, StartsInPreamble
<1>7. FramesBegun' /\ PreambleNext'
  <2>1. \A f \in 1 .. Len(began) : ~(began[f].at > Len(passed))
    BY DEF IInv, FramesBegun
  <2>2. began # <<>> /\ Len(began) \in 1 .. Len(began)
    BY Types DEF IInv, FramesBegun
  <2>3. ~(Frame.at > Len(passed))
    BY <2>1, <2>2 DEF Frame
  <2> QED  BY <1>1, <1>2, <2>1, <2>2, <2>3 DEF FramesBegun, PreambleNext
<1>8. NextInFrame'
  BY <1>1, <1>2, <1>3 DEF IInv, NextInFrame
<1>9. FramesTagged' /\ \A k \in 1 .. Len(tags') : EndInside(k)'
  <2>1. began' \in Seq(BeginningSet) /\ Grown(began, began') /\ out' \in Seq(Int) /\ Grown(out, out')
    BY <1>1, Types, SameGrown
  <2> QED  BY <2>1, TagsKept
<1>10. TagsOfFrames' /\ LastWritten'
  BY <1>1, <1>9 DEF IInv, TagsOfFrames, LastWritten
<1> QED  BY <1>2, <1>4, <1>5, <1>6, <1>7, <1>8, <1>9, <1>10

LEMMA PowerFallsKeeps ==
  ASSUME IInv, PowerFalls, UNCHANGED <<kind, timeoutVars>>
  PROVE  IInv'
<1>1. /\ kind = "threshold" /\ m_state = "SEND_FRAME" /\ HasSymbol
      /\ m_cnt' = m_cnt + 1 /\ m_state' = "SEND_END_FRAME"
      /\ UNCHANGED <<pos, bin_idx, symbol_cnt, buffer, tags, history, written, cnt_padding>>
  BY DEF PowerFalls
<1>2. /\ kind' = "threshold"
      /\ UNCHANGED <<kind, m_detect_second_packet, m_n_bytes, out, passed, room_kept,
                     run, same, last_bin, began>>
      /\ ~SecondMode /\ ~Flushing /\ ~Flushing' /\ ~Searching /\ ~Searching'
  BY <1>1 DEF timeoutVars, written, history, SecondMode, Flushing, Searching
<1>3. symbol_cnt' \in Nat /\ symbol_cnt' = 0
  <2>1. ~(symbol_cnt > 0)
    BY <1>1, <1>2 DEF IInv, RunBegins
  <2> QED  BY <1>1, <2>1, Types
<1>4. /\ buffer' = <<>>
      /\ BufferOfInput' /\ same' = 0
      /\ NothingLostInside' /\ StartsInPreamble'
      /\ FramesBegun' /\ NextInFrame' /\ PreambleNext'
      /\ TagsOfFrames' /\ LastWritten' /\ FramesTagged'
  BY <1>1, <1>2, NothingMoves
<1>5. CountsInInput' /\ m_cnt' * SamplesPerSymbol <= pos' /\ symbol_cnt' * SamplesPerSymbol <= pos'
  <2>1. 2 * SamplesPerSymbol <= pos /\ (m_cnt + 1) * SamplesPerSymbol <= pos
        /\ symbol_cnt * SamplesPerSymbol <= pos
    BY <1>1 DEF IInv, CountsInInput
  <2> QED  BY <1>1, <2>1 DEF CountsInInput
<1>6. Typed'
  <2>1. m_cnt' \in Nat /\ pos' \in 0 .. InputSymbols * SamplesPerSymbol
    BY <1>1, Types, SizeFacts, SMTT(60)
  <2>2. Len(buffer') <= (NUp + 1) * SamplesPerSymbol
    BY <1>1 DEF IInv, Typed, TypeOK
  <2> QED  BY <1>1, <1>2, <1>5, <2>1, <2>2, Types, TypedFrom
<1>7. StatesOfKind' /\ BufferLength' /\ RunBegins' /\ EqualInRun'
  BY <1>1, <1>2, <1>3, <1>4, NoWindow DEF StatesOfKind, BufferLength, RunBegins, EqualInRun
<1> QED  BY <1>2, <1>4, <1>5, <1>6, <1>7, NoWindow DEF IInv

LEMMA SequenceEndKeeps ==
  ASSUME IInv, SequenceEnd, UNCHANGED <<kind, timeoutVars, cnt_padding>>
  PROVE  IInv'
<1>1. /\ kind = "sequence" /\ m_state = "SEND_END_FRAME" /\ HasSymbol
      /\ m_state' = "FIND_PREAMBLE"
      /\ UNCHANGED <<pos, bin_idx, symbol_cnt, m_cnt, buffer, tags, history, written>>
  BY DEF SequenceEnd
<1>2. /\ kind' = "sequence"
      /\ UNCHANGED <<kind, m_detect_second_packet, m_n_bytes, cnt_padding, out, passed, room_kept,
                     run, same, last_bin, began>>
      /\ ~SecondMode /\ ~Flushing /\ ~Flushing' /\ ~Searching
  BY <1>1 DEF timeoutVars, written, history, SecondMode, Flushing, Searching
<1>3. symbol_cnt = 0 /\ symbol_cnt' = 0
  <2>1. ~(symbol_cnt > 0)
    BY <1>1, <1>2 DEF IInv, RunBegins
  <2> QED  BY <1>1, <2>1, Types
<1>4. /\ buffer' = <<>>
      /\ BufferOfInput' /\ same' = 0
      /\ NothingLostInside' /\ StartsInPreamble'
      /\ FramesBegun' /\ NextInFrame' /\ PreambleNext'
      /\ TagsOfFrames' /\ LastWritten' /\ FramesTagged'
  BY <1>1, <1>2, NothingMoves
<1>5. CountsInInput'
  BY <1>1 DEF IInv, CountsInInput, StatesOfKind
<1>6. Typed'
  BY <1>1, <1>2 DEF IInv, Typed, TypeOK
<1>7. StatesOfKind' /\ BufferLength' /\ RunBegins' /\ EqualInRun'
  <2>1. 0 < Needed' /\ Len(buffer') = 0 /\ 0 * SamplesPerSymbol = 0
    <3>1. Needed' = Needed
      BY <1>2 DEF Needed
    <3> QED  BY <1>4, <3>1, NeededFacts, SizeFacts
  <2> QED  BY <1>1, <1>2, <1>3, <1>4, <2>1, NoWindow
           DEF IInv, StatesOfKind, BufferLength, RunBegins, EqualInRun
<1> QED  BY <1>2, <1>4, <1>5, <1>6, <1>7, NoWindow DEF IInv

----------------------------------------------------------------------------
(***************************************************************************)
(* Items that only carry tags.                                             *)
(***************************************************************************)

LEMMA PaddedFacts ==
  ASSUME IInv, NEW n \in Nat, NEW noutput, Padded(n, noutput)
  PROVE  /\ out' \in Seq(Int) /\ Grown(out, out') /\ Len(out') = Len(out) + n
         /\ \A k \in 1 .. n : out'[Len(out) + k] = Pad
         /\ passed' = passed
         /\ room_kept' \in BOOLEAN
         /\ n <= noutput => room_kept' = room_kept
<1> DEFINE pads == [k \in 1 .. n |-> Pad]
<1>1. pads \in Seq(Int) /\ Len(pads) = n /\ \A k \in 1 .. n : pads[k] = Pad
  BY PadFacts
<1>2. out' = out \o pads /\ passed' = passed /\ room_kept' = (room_kept /\ n <= noutput)
  BY Zenon DEF Padded
<1> HIDE DEF pads
<1>3. out \in Seq(Int) /\ pads \in Seq(Int) /\ room_kept \in BOOLEAN
  BY <1>1, Types
<1>4. LET t == out \o pads IN
      /\ t \in Seq(Int) /\ Len(t) = Len(out) + Len(pads) /\ Grown(out, t)
      /\ \A k \in 1 .. Len(pads) : t[Len(out) + k] = pads[k]
  BY <1>3, ConcatGrows
<1>5. /\ out' \in Seq(Int) /\ Len(out') = Len(out) + Len(pads) /\ Grown(out, out')
      /\ \A k \in 1 .. Len(pads) : out'[Len(out) + k] = pads[k]
  BY <1>2, <1>4, Zenon
<1>6. room_kept' \in BOOLEAN /\ (n <= noutput => room_kept' = room_kept)
  BY <1>2, <1>3
<1> QED  BY <1>1, <1>2, <1>5, <1>6

\* A tag behind the others.
LEMMA TagAppended ==
  ASSUME IInv, NEW t \in TagSet, tags' = Append(tags, t)
  PROVE  /\ tags' \in Seq(TagSet) /\ Len(tags') = Len(tags) + 1 /\ Len(tags) \in Nat
         /\ Grown(tags, tags') /\ tags'[Len(tags) + 1] = t
<1>1. tags \in Seq(TagSet)
  BY Types
<1>2. LET s == Append(tags, t) IN
      /\ s \in Seq(TagSet) /\ Len(s) = Len(tags) + 1 /\ Len(tags) \in Nat
      /\ Grown(tags, s) /\ s[Len(tags) + 1] = t
  BY <1>1, AppendGrows
<1> QED  BY <1>2, Zenon

\* Some tags more, each of which is where it belongs.
LEMMA MoreTags ==
  ASSUME IInv, HasSymbol, NEW t \in Nat, t = Len(tags),
         Grown(tags, tags'), tags' \in Seq(TagSet),
         Grown(out, out'), out' \in Seq(Int),
         Grown(began, began'), began' \in Seq(BeginningSet),
         UNCHANGED m_detect_second_packet,
         \A k \in t + 1 .. Len(tags') : TaggedRight(k)' /\ EndInside(k)'
  PROVE  /\ FramesTagged'
         /\ \A k \in 1 .. Len(tags') : EndInside(k)'
         /\ \A k \in 1 .. t : tags'[k].value # "work_done"
<1>1. \A k \in 1 .. t : TaggedRight(k)' /\ EndInside(k)'
  BY OldTags
<1>2. \A k \in 1 .. Len(tags') : k \in 1 .. t \/ k \in t + 1 .. Len(tags')
  BY Types
<1>3. \A k \in 1 .. Len(tags') : TaggedRight(k)' /\ EndInside(k)'
  BY <1>1, <1>2
<1>4. \A k \in 1 .. t : tags'[k].value # "work_done"
  BY DEF IInv, TagsOfFrames, Grown
<1> QED  BY <1>3, <1>4 DEF FramesTagged

LEMMA WorkDoneKeeps ==
  ASSUME IInv, WorkDone, UNCHANGED <<kind, timeoutVars, cnt_padding>>
  PROVE  IInv'
<1>1. PICK noutput \in Rooms :
        /\ HasSymbol /\ pos' = InputSymbols * SamplesPerSymbol
        /\ Padded(1, noutput) /\ tags' = Append(tags, Tag("work_done", 0))
        /\ NotSearched
        /\ UNCHANGED <<m_state, bin_idx, symbol_cnt, m_cnt, buffer>>
  BY DEF WorkDone
<1>2. /\ UNCHANGED <<kind, m_detect_second_packet, m_n_bytes, cnt_padding, run, began>>
      /\ same' = 0 /\ last_bin' = -1
  BY <1>1 DEF timeoutVars, NotSearched
<1>3. /\ out' \in Seq(Int) /\ Grown(out, out') /\ Len(out') = Len(out) + 1
      /\ passed' = passed /\ room_kept' = room_kept
  <2>1. 1 <= noutput /\ 1 \in Nat
    BY DetectorAssumption
  <2> QED  BY <1>1, <2>1, PaddedFacts
<1>4. /\ pos' \in Nat /\ pos <= pos' /\ pos' \in 0 .. InputSymbols * SamplesPerSymbol /\ ~HasSymbol'
  BY <1>1, Types, SizeFacts, SMTT(60) DEF HasSymbol
<1>5. /\ Coming' \in Nat /\ Coming <= Coming' /\ Coming' + Len(buffer) <= pos'
      /\ \A k \in 1 .. Len(buffer) : buffer[k] = Coming' + k - 1
      /\ buffer # <<>> => Coming' = Coming
  <2>1. CASE buffer = <<>>
    BY <1>1, <1>4, <2>1, ComingFacts, Types DEF Coming
  <2>2. CASE buffer # <<>>
    <3>1. Coming' = Coming
      BY <1>1, <2>2 DEF Coming
    <3>2. Coming \in Nat /\ Len(buffer) \in Nat /\ Coming + Len(buffer) <= pos /\ pos \in Nat
      BY ComingFacts, Types
    <3>3. Coming + Len(buffer) <= pos'
      BY <1>4, <3>2
    <3> QED  BY <3>1, <3>2, <3>3, ComingFacts
  <2> QED  BY <2>1, <2>2
<1>6. /\ Flushing' <=> Flushing
      /\ Searching' <=> Searching
      /\ Needed' = Needed /\ Frame' = Frame
      /\ SecondMode' <=> SecondMode
  BY <1>1, <1>2 DEF Flushing, Searching, SecondMode, Needed, Frame
<1>7. CountsInInput' /\ m_cnt' * SamplesPerSymbol <= pos' /\ symbol_cnt' * SamplesPerSymbol <= pos'
  <2>1. PICK p \in Nat, P \in Nat, X \in Nat, Y \in Nat :
          /\ p = pos /\ P = pos' /\ p <= P
          /\ X = m_cnt * SamplesPerSymbol /\ Y = symbol_cnt * SamplesPerSymbol
          /\ (m_cnt + 1) * SamplesPerSymbol = X + SamplesPerSymbol
    BY <1>4, CountsOf, Types
  <2>2. Y <= p /\ Y <= P
    BY <2>1, CountsOf
  <2>3. X <= P
    <3>1. CASE m_state = "FIND_PREAMBLE"
      <4>1. m_cnt = 0 /\ 0 * SamplesPerSymbol = 0
        BY <3>1, CountsOf DEF IInv, CountsInInput
      <4> QED  BY <2>1, <4>1
    <3>2. CASE m_state # "FIND_PREAMBLE"
      BY <2>1, <3>2, CountsOf
    <3> QED  BY <3>1, <3>2
  <2>4. ASSUME m_state # "FIND_PREAMBLE"
        PROVE  /\ 2 * SamplesPerSymbol <= P
               /\ m_state # "SEND_END_FRAME" => X + SamplesPerSymbol <= P
    <3>1. /\ 2 * SamplesPerSymbol <= p
          /\ m_state # "SEND_END_FRAME" => X + SamplesPerSymbol <= p
      BY <2>1, <2>4 DEF IInv, CountsInInput
    <3> QED  BY <2>1, <3>1, SizeFacts
  <2>5. CountsInInput'
    BY <1>1, <2>1, <2>2, <2>3, <2>4 DEF IInv, CountsInInput
  <2> QED  BY <1>1, <2>1, <2>2, <2>3, <2>5
<1>8. Tag("work_done", 0) \in TagSet /\ Tag("work_done", 0).value = "work_done"
  <2>1. Len(out) + 1 + 0 \in Nat
    BY Types
  <2> QED  BY <2>1 DEF Tag, TagSet
<1>9. PICK t \in Nat :
        /\ t = Len(tags) /\ Len(tags') = t + 1 /\ tags' \in Seq(TagSet)
        /\ Grown(tags, tags') /\ tags'[t + 1].value = "work_done"
  <2>1. /\ tags' \in Seq(TagSet) /\ Len(tags') = Len(tags) + 1 /\ Len(tags) \in Nat
        /\ Grown(tags, tags') /\ tags'[Len(tags) + 1] = Tag("work_done", 0)
    BY <1>1, <1>8, TagAppended
  <2> QED  BY <1>8, <2>1
<1>10. Typed'
  <2>1. Len(buffer') <= (NUp + 1) * SamplesPerSymbol
    BY <1>1 DEF IInv, Typed, TypeOK
  <2>2. same' \in Nat /\ last_bin' \in Int /\ room_kept' \in BOOLEAN
    BY <1>2, <1>3, Types
  <2> QED  BY <1>1, <1>2, <1>3, <1>4, <1>7, <1>9, <2>1, <2>2, Types, TypedFrom
<1>11. StatesOfKind' /\ BufferLength' /\ RunBegins' /\ EqualInRun' /\ RoomKept'
  <2>1. StatesOfKind' /\ BufferLength'
    BY <1>1, <1>2, <1>6 DEF IInv, StatesOfKind, BufferLength
  <2>2. RunBegins'
    BY <1>1, <1>2, <1>4, <1>6 DEF IInv, RunBegins
  <2>3. EqualInRun'
    BY <1>1, <1>2, Types DEF EqualInRun
  <2> QED  BY <1>2, <1>3, <2>1, <2>2, <2>3 DEF IInv, RoomKept
<1>12. BufferOfInput'
  BY <1>1, <1>4, <1>5, <1>6 DEF IInv, BufferOfInput
<1>13. began' \in Seq(BeginningSet) /\ Grown(began, began')
  BY <1>2, Types, SameGrown
<1>14. NothingLostInside' /\ StartsInPreamble'
  <2>1. \A f \in Len(began) + 1 .. Len(began') : began'[f].at = Len(passed) + 1
    BY <1>2, Types
  <2> QED  BY <1>3, <1>13, <2>1, PassedKept
<1>15. FramesBegun'
  BY <1>1, <1>2, <1>3, <1>6 DEF IInv, FramesBegun
<1>16. NextInFrame'
  <2>1. passed # <<>> => passed[Len(passed)] < Coming'
    <3>1. passed # <<>> => passed[Len(passed)] \in Nat
      BY Types, SMTT(60)
    <3>2. passed # <<>> => passed[Len(passed)] < Coming
      BY DEF IInv, NextInFrame
    <3> QED  BY <1>5, <3>1, <3>2, ComingFacts
  <2> QED  BY <1>1, <1>2, <1>3, <1>4, <1>5, <1>6, <2>1 DEF IInv, NextInFrame
<1>17. PreambleNext'
  <2>1. ASSUME m_state # "FIND_PREAMBLE", Frame.at > Len(passed)
        PROVE  buffer # <<>>
    <3>1. Len(began) \in 1 .. Len(began)
      BY <2>1, Types DEF IInv, FramesBegun
    <3>2. Flushing
      BY <2>1, <3>1 DEF IInv, FramesBegun, Frame
    <3> QED  BY <3>2 DEF IInv, BufferOfInput
  <2> QED  BY <1>1, <1>3, <1>5, <1>6, <2>1 DEF IInv, PreambleNext
<1>18. FramesTagged' /\ TagsOfFrames'
  <2>1. \A k \in t + 1 .. Len(tags') : TaggedRight(k)' /\ EndInside(k)'
    <3>1. TaggedRight(t + 1)' /\ EndInside(t + 1)'
      BY <1>9 DEF TaggedRight, EndInside
    <3>2. \A k \in t + 1 .. Len(tags') : k = t + 1
      BY <1>9
    <3> QED  BY <3>1, <3>2
  <2>2. FramesTagged' /\ \A k \in 1 .. Len(tags') : EndInside(k)'
    BY <1>1, <1>2, <1>3, <1>9, <1>13, <2>1, MoreTags
  <2> QED  BY <1>4, <2>2 DEF TagsOfFrames
<1>19. LastWritten' /\ WindowPlace'
  BY <1>4 DEF LastWritten, WindowPlace
<1> QED  BY <1>7, <1>10, <1>11, <1>12, <1>14, <1>15, <1>16, <1>17, <1>18, <1>19 DEF IInv

----------------------------------------------------------------------------
(***************************************************************************)
(* The end of a window.                                                    *)
(***************************************************************************)

LEMMA WindowLengthFacts ==
  /\ WindowLength \in Nat
  /\ m_detect_second_packet => WindowLength = NBytes * SamplesPerSymbol
  /\ ~m_detect_second_packet =>
       WindowLength = (NBytes - 1) * SamplesPerSymbol + (SamplesPerSymbol \div 4)
<1>1. NBytes * SamplesPerSymbol \in Nat /\ (NBytes - 1) * SamplesPerSymbol \in Nat
      /\ SamplesPerSymbol \div 4 \in Nat
  <2>1. NBytes \in Nat /\ NBytes > 0
    BY WindowBegins
  <2> QED  BY <2>1, Products, SizeFacts
<1>2. ~m_detect_second_packet =>
        WindowLength = (NBytes - 1) * SamplesPerSymbol + (SamplesPerSymbol \div 4)
  BY DEF WindowLength
<1>3. m_detect_second_packet => WindowLength = NBytes * SamplesPerSymbol
  BY DEF WindowLength
<1> QED  BY <1>1, <1>2, <1>3

LEMMA EndOfWindowFacts ==
  ASSUME IInv, kind = "timeout", m_state = "SEND_FRAME", HasSymbol,
         NEW noutput \in Rooms, EndOfWindow(noutput), began' = began,
         UNCHANGED <<kind, m_detect_second_packet>>,
         HasSymbol' => HasSymbol, Coming' \in Nat, Coming <= Coming',
         Coming - 1 = LastOf(Len(began))
  PROVE  /\ m_state' = "FIND_PREAMBLE" /\ m_cnt' = 0 /\ symbol_cnt' = 0 /\ m_n_bytes' = NBytes
         /\ out' \in Seq(Int) /\ passed' = passed /\ tags' \in Seq(TagSet) /\ room_kept' = room_kept
         /\ NothingLostInside' /\ StartsInPreamble'
         /\ FramesBegun' /\ NextInFrame' /\ PreambleNext'
         /\ TagsOfFrames' /\ FramesTagged' /\ LastWritten' /\ WindowPlace' /\ RoomKept'
<1>1. /\ tags' = Append(tags, Tag("end", 0)) /\ Padded(1, noutput)
      /\ m_state' = "FIND_PREAMBLE" /\ m_cnt' = 0 /\ symbol_cnt' = 0 /\ m_n_bytes' = NBytes
  BY DEF EndOfWindow
<1>2. PICK L \in Nat \ {0} :
        /\ L = Len(out) /\ out' \in Seq(Int) /\ Grown(out, out') /\ Len(out') = L + 1
        /\ passed' = passed /\ room_kept' = room_kept
        /\ out'[L] = Coming - 1
  <2>1. 1 <= noutput /\ 1 \in Nat
    BY DetectorAssumption
  <2>2. /\ out' \in Seq(Int) /\ Grown(out, out') /\ Len(out') = Len(out) + 1
        /\ passed' = passed /\ room_kept' = room_kept
    BY <1>1, <2>1, PaddedFacts
  <2>3. out # <<>> /\ out[Len(out)] = Coming - 1
    BY DEF IInv, LastWritten
  <2>4. Len(out) \in Nat \ {0} /\ Len(out) \in 1 .. Len(out)
    BY <2>3, Types, SMTT(60)
  <2>5. out'[Len(out)] = Coming - 1
    BY <2>2, <2>3, <2>4 DEF Grown
  <2> QED  BY <2>2, <2>4, <2>5
<1>3. Tag("end", 0) = [at |-> L + 1, value |-> "end"] /\ Tag("end", 0) \in TagSet
  <2>1. Len(out) + 1 + 0 = L + 1 /\ L + 1 \in Nat
    BY <1>2
  <2> QED  BY <2>1 DEF Tag, TagSet
<1>4. PICK n \in Nat : n = Len(began) /\ n \in 1 .. n
  BY Types, SMTT(60) DEF IInv, FramesBegun
<1>5. /\ Len(tags') = 2 * n /\ tags' \in Seq(TagSet) /\ Len(tags) = 2 * n - 1 /\ 2 * n - 1 \in Nat
      /\ Grown(tags, tags') /\ tags'[2 * n] = [at |-> L + 1, value |-> "end"]
  <2>1. /\ tags' \in Seq(TagSet) /\ Len(tags') = Len(tags) + 1 /\ Len(tags) \in Nat
        /\ Grown(tags, tags') /\ tags'[Len(tags) + 1] = Tag("end", 0)
    BY <1>1, <1>3, TagAppended
  <2>2. Len(tags) = 2 * n - 1
    BY <1>4 DEF IInv, TagsOfFrames
  <2>3. Len(tags) + 1 = 2 * n
    BY <1>4, <2>2
  <2> QED  BY <1>3, <1>4, <2>1, <2>2, <2>3
<1>6. began' \in Seq(BeginningSet) /\ Grown(began, began') /\ Frame' = Frame
  BY Types, SameGrown DEF Frame
<1>7. TaggedRight(2 * n)' /\ EndInside(2 * n)'
  <2>1. (2 * n) % 2 = 0 /\ (2 * n) \div 2 = n
    BY <1>4
  <2>2. tags'[2 * n].at = L + 1 /\ tags'[2 * n].value = "end" /\ (L + 1) - 1 = L
        /\ L + 1 \in 2 .. (L + 1) + 1
    BY <1>2, <1>5
  <2>3. LastOf(n)' = LastOf(n)
    BY <1>6 DEF LastOf, WindowLength
  <2>4. out'[L] = LastOf(n)'
    BY <1>2, <1>4, <2>3
  <2>5. Coming > 0
    <3>1. 2 * SamplesPerSymbol <= pos
      BY DEF IInv, CountsInInput
    <3>2. began[n] \in BeginningSet
      BY <1>4, Types, SMTT(60)
    <3>3. PICK r \in Nat, x \in Nat, y \in Nat :
            r = began[n].from /\ x = NUp * SamplesPerSymbol /\ y = WindowLength
      BY <3>2, BeginningTypes, SizeFacts, Products, WindowLengthFacts
    <3>4. x > 0
      <4>1. 0 < NUp /\ NUp \in Nat
        BY SizeFacts
      <4> QED  BY <3>3, <4>1, Products, SizeFacts
    <3>5. LastOf(n) = r + x + y - 1
      BY <3>3 DEF LastOf
    <3>6. Coming \in Nat /\ Coming - 1 = r + x + y - 1
      BY <1>4, <3>5, ComingFacts
    <3> QED  BY <3>4, <3>6
  <2>6. out'[L] # Pad
    <3>1. Coming \in Nat /\ Coming - 1 # -1
      BY <2>5, ComingFacts
    <3> QED  BY <1>2, <3>1 DEF Pad
  <2>7. Len(began') = n
    BY <1>4
  <2>8. EndInside(2 * n)'
    BY <1>2, <1>4, <2>1, <2>2, <2>6, <2>7 DEF EndInside
  <2>9. TaggedRight(2 * n)'
    BY <2>1, <2>2, <2>4, <2>6 DEF TaggedRight
  <2> QED  BY <2>8, <2>9
<1>8. /\ FramesTagged'
      /\ \A k \in 1 .. Len(tags') : EndInside(k)'
      /\ \A k \in 1 .. 2 * n - 1 : tags'[k].value # "work_done"
  <2>1. \A k \in (2 * n - 1) + 1 .. Len(tags') : k = 2 * n
    BY <1>4, <1>5
  <2>2. \A k \in (2 * n - 1) + 1 .. Len(tags') : TaggedRight(k)' /\ EndInside(k)'
    BY <1>7, <2>1
  <2> QED  BY <1>2, <1>5, <1>6, <2>2, MoreTags
<1>9. TagsOfFrames'
  <2>1. \A k \in 1 .. Len(tags') : tags'[k].value # "work_done"
    <3>1. \A k \in 1 .. Len(tags') : k \in 1 .. 2 * n - 1 \/ k = 2 * n
      BY <1>4, <1>5
    <3> QED  BY <1>5, <1>8, <3>1
  <2> QED  BY <1>1, <1>4, <1>5, <1>8, <2>1 DEF TagsOfFrames
<1>10. NothingLostInside' /\ StartsInPreamble'
  <2>1. \A f \in Len(began) + 1 .. Len(began') : began'[f].at = Len(passed) + 1
    BY Types, SMTT(60)
  <2> QED  BY <1>2, <1>6, <2>1, PassedKept
<1>11. FramesBegun' /\ PreambleNext'
  <2>1. ~Flushing
    BY DEF Flushing
  <2> QED  BY <1>1, <1>2, <2>1 DEF IInv, FramesBegun, PreambleNext
<1>12. NextInFrame'
  <2>1. passed # <<>> => passed[Len(passed)] < Coming'
    <3>1. passed # <<>> => passed[Len(passed)] \in Nat
      BY Types, SMTT(60)
    <3>2. passed # <<>> => passed[Len(passed)] < Coming
      BY DEF IInv, NextInFrame
    <3> QED  BY <3>1, <3>2, ComingFacts
  <2> QED  BY <1>1, <1>2, <2>1 DEF NextInFrame
<1>13. LastWritten' /\ WindowPlace' /\ RoomKept'
  BY <1>1, <1>2, WindowBegins DEF IInv, LastWritten, WindowPlace, RoomKept
<1> QED  BY <1>1, <1>2, <1>5, <1>8, <1>9, <1>10, <1>11, <1>12, <1>13

LEMMA TimeoutEndKeeps ==
  ASSUME IInv, TimeoutEnd, UNCHANGED <<kind, cnt_padding>>
  PROVE  IInv'
<1>1. PICK noutput \in Rooms :
        /\ kind = "timeout" /\ m_state = "SEND_FRAME" /\ HasSymbol
        /\ ~m_detect_second_packet
        /\ m_cnt # 0 /\ m_cnt = m_n_bytes
        /\ EndOfWindow(noutput)
        /\ NotSearched
        /\ UNCHANGED <<pos, bin_idx, buffer, m_detect_second_packet>>
  BY DEF TimeoutEnd, Sending, WindowFull
<1>2. /\ same' = 0 /\ last_bin' = -1 /\ UNCHANGED <<run, began>>
      /\ ~SecondMode /\ ~SecondMode' /\ ~Flushing /\ ~Searching
      /\ HasSymbol' /\ buffer = <<>> /\ Coming = pos /\ Coming' = pos
  <2>1. ~SecondMode /\ ~SecondMode' /\ ~Flushing /\ ~Searching
    BY <1>1 DEF SecondMode, Flushing, Searching
  <2>2. buffer = <<>>
    BY <2>1 DEF IInv, BufferOfInput
  <2> QED  BY <1>1, <2>1, <2>2 DEF NotSearched, HasSymbol, Coming
<1>3. Coming - 1 = LastOf(Len(began))
  <2>1. PICK r \in Nat, x \in Nat, y \in Nat :
          r = Frame.from /\ x = NUp * SamplesPerSymbol /\ y = WindowLength
    BY <1>1, FrameTypes, WindowLengthFacts
  <2>2. y = (NBytes - 1) * SamplesPerSymbol + (SamplesPerSymbol \div 4)
    BY <1>1, <2>1, WindowLengthFacts
  <2>3. m_cnt = NBytes
    BY <1>1, <1>2 DEF IInv, WindowPlace
  <2>4. pos = r + x + y
    BY <1>1, <1>2, <2>1, <2>2, <2>3 DEF IInv, WindowPlace
  <2>5. LastOf(Len(began)) = r + x + y - 1
    BY <2>1 DEF LastOf, Frame
  <2> QED  BY <1>2, <2>4, <2>5
<1>4. /\ m_state' = "FIND_PREAMBLE" /\ m_cnt' = 0 /\ symbol_cnt' = 0 /\ m_n_bytes' = NBytes
      /\ out' \in Seq(Int) /\ passed' = passed /\ tags' \in Seq(TagSet) /\ room_kept' = room_kept
      /\ NothingLostInside' /\ StartsInPreamble'
      /\ FramesBegun' /\ NextInFrame' /\ PreambleNext'
      /\ TagsOfFrames' /\ FramesTagged' /\ LastWritten' /\ WindowPlace' /\ RoomKept'
  <2>1. Coming' \in Nat /\ Coming <= Coming' /\ began' = began
    BY <1>2, Types
  <2> QED  BY <1>1, <1>2, <1>3, <2>1, EndOfWindowFacts
<1>5. 0 * SamplesPerSymbol = 0 /\ 0 <= pos' /\ pos' \in 0 .. InputSymbols * SamplesPerSymbol
  BY <1>1, Types, SizeFacts
<1>6. CountsInInput' /\ m_cnt' * SamplesPerSymbol <= pos' /\ symbol_cnt' * SamplesPerSymbol <= pos'
  BY <1>4, <1>5 DEF CountsInInput
<1>7. Typed'
  <2>1. NBytes \in 0 .. CntRange - 1
    BY TimeoutAssumption
  <2>2. Len(buffer') <= (NUp + 1) * SamplesPerSymbol
    BY <1>1 DEF IInv, Typed, TypeOK
  <2>3. m_cnt' \in Nat /\ symbol_cnt' \in Nat /\ same' \in Nat /\ last_bin' \in Int
        /\ m_n_bytes' \in 0 .. CntRange - 1 /\ passed' \in Seq(Nat) /\ room_kept' \in BOOLEAN
    BY <1>2, <1>4, <2>1, Types
  <2> QED  BY <1>1, <1>2, <1>4, <1>5, <1>6, <2>2, <2>3, Types, TypedFrom
<1>8. StatesOfKind' /\ BufferLength' /\ RunBegins' /\ EqualInRun'
  <2>1. 0 < Needed' /\ Len(buffer') = 0
    <3>1. Needed' = Needed
      BY <1>1 DEF Needed
    <3> QED  BY <1>1, <1>2, <3>1, NeededFacts
  <2> QED  BY <1>1, <1>2, <1>4, <1>5, <2>1 DEF StatesOfKind, BufferLength, RunBegins, EqualInRun
<1>9. BufferOfInput'
  <2>1. ~Flushing' /\ Len(buffer') = 0 /\ buffer' = <<>> /\ pos + 0 = pos /\ pos <= pos
    BY <1>1, <1>2, <1>4, Types, SMTT(60) DEF Flushing
  <2> QED  BY <1>1, <1>2, <2>1 DEF BufferOfInput
<1> QED  BY <1>4, <1>6, <1>7, <1>8, <1>9 DEF IInv

----------------------------------------------------------------------------
(***************************************************************************)
(* detect_second_packet: the window is searched for another preamble.      *)
(***************************************************************************)

\* A count that begins again from zero at most once.
LEMMA ModOnce ==
  ASSUME NEW R \in Nat \ {0}, NEW a \in Nat, a < R + R
  PROVE  a % R = IF a < R THEN a ELSE a - R
<1>1. CASE a < R
  BY <1>1
<1>2. CASE a >= R
  <2>1. PICK b \in Nat : a = b + R /\ b < R
    <3>1. a - R \in Nat /\ a = (a - R) + R /\ a - R < R
      BY <1>2
    <3> QED  BY <3>1
  <2>2. (b + R) % R = b
    BY <2>1
  <2> QED  BY <1>2, <2>1, <2>2
<1> QED  BY <1>1, <1>2

\* d symbols of the window are to come: the counts are equal when none is.
CountsToCome(R, m, d) ==
  /\ m = (m + d) % R <=> d = 0
  /\ (m + 1) % R \in Nat /\ (m + 1) % R < R /\ (m + 1) % R <= m + 1
  /\ d > 0 => (((m + 1) % R) + (d - 1)) % R = (m + d) % R

LEMMA WindowCounts ==
  ASSUME NEW R \in Nat, NEW m \in Nat, NEW d \in Nat, m < R, d < R
  PROVE  CountsToCome(R, m, d)
<1>1. R \in Nat \ {0} /\ m + d \in Nat /\ m + d < R + R /\ m + 1 \in Nat /\ m + 1 < R + R
  OBVIOUS
<1>2. (m + d) % R = IF m + d < R THEN m + d ELSE (m + d) - R
  BY <1>1, ModOnce
<1>3. (m + 1) % R = IF m + 1 < R THEN m + 1 ELSE (m + 1) - R
  BY <1>1, ModOnce
<1>4. m = (m + d) % R <=> d = 0
  BY <1>1, <1>2
<1>5. PICK a \in Nat : a = (m + 1) % R /\ a < R /\ a <= m + 1
  <2>1. (m + 1) % R \in Nat /\ (m + 1) % R < R /\ (m + 1) % R <= m + 1
    BY <1>1, <1>3
  <2> QED  BY <2>1
<1>6. ASSUME d > 0 PROVE (a + (d - 1)) % R = (m + d) % R
  <2>1. a + (d - 1) \in Nat /\ a + (d - 1) < R + R
    BY <1>5, <1>6
  <2>2. (a + (d - 1)) % R = IF a + (d - 1) < R THEN a + (d - 1) ELSE (a + (d - 1)) - R
    BY <1>1, <2>1, ModOnce
  <2>3. CASE m + 1 < R
    BY <1>2, <1>3, <1>5, <2>2, <2>3
  <2>4. CASE m + 1 >= R
    <3>1. a = 0 /\ m + 1 = R
      BY <1>3, <1>5, <2>4
    <3>2. a + (d - 1) = d - 1 /\ d - 1 < R /\ m + d = R + (d - 1)
      BY <1>6, <3>1
    <3> QED  BY <1>2, <1>6, <2>2, <3>1, <3>2
  <2> QED  BY <2>3, <2>4
<1> QED  BY <1>4, <1>5, <1>6 DEF CountsToCome

\* A symbol of the window: counts and run afterwards, and the buffer with it.
LEMMA SecondFacts ==
  ASSUME IInv, NEW noutput, NEW bin \in Bins, Second(noutput, bin)
  PROVE  \E C \in 1 .. NUp, b \in 1 .. NUp + 1 :
           /\ C = CountNow(bin) /\ C <= b
           /\ bin_idx' \in Nat /\ last_bin' = bin /\ bin \in Int
           /\ run' \in Nat /\ run' = RunNow(bin) /\ run' + C * SamplesPerSymbol = pos'
           /\ Buffered \in Seq(Nat) /\ Len(Buffered) = b * SamplesPerSymbol /\ Buffered # <<>>
           /\ Buffered[1] = Coming
           /\ \A k \in 1 .. Len(Buffered) : Buffered[k] = Coming + k - 1
           /\ Coming + b * SamplesPerSymbol = pos'
           /\ SameNow(bin) \in Nat
           /\ kind = "timeout" /\ m_state = "SEND_FRAME" /\ HasSymbol /\ noutput > SamplesPerSymbol
           /\ m_detect_second_packet /\ SecondMode /\ ~Flushing
           /\ pos' = pos + SamplesPerSymbol
           /\ pos' \in 0 .. InputSymbols * SamplesPerSymbol /\ (HasSymbol' => HasSymbol)
<1>1. /\ kind = "timeout" /\ m_state = "SEND_FRAME" /\ HasSymbol /\ noutput > SamplesPerSymbol
      /\ m_detect_second_packet /\ SecondMode /\ ~Flushing /\ Searching
      /\ Searched(bin) /\ pos' = pos + SamplesPerSymbol
  BY DEF Second, Sending, SecondMode, Flushing, Searching
<1>2. PICK c \in Nat : c = symbol_cnt /\ c < NUp
  BY <1>1, Types DEF IInv, RunBegins, Needed
<1>3. PICK p \in Nat : p = pos /\ pos' = p + SamplesPerSymbol
  BY <1>1, Types
<1>4. SamplesPerSymbol \in Nat /\ SamplesPerSymbol >= 4 /\ NUp \in Nat /\ NUp >= 3
  BY SizeFacts
<1>5. bin \in Nat /\ bin_idx \in Nat
  BY Types, DetectorAssumption
<1>6. bin_idx' \in Nat /\ last_bin' = bin /\ run' = RunNow(bin)
  BY <1>1, <1>5 DEF Searched
<1>7. PICK C \in 1 .. NUp : C = CountNow(bin) /\ C = IF Continues(bin) THEN c + 1 ELSE 1
  <2>1. c + 1 \in 1 .. NUp /\ 1 \in 1 .. NUp
    BY <1>2, <1>4
  <2>2. CountNow(bin) = IF Continues(bin) THEN c + 1 ELSE 1
    BY <1>2 DEF CountNow
  <2> QED  BY <2>1, <2>2
<1>8. /\ (c + 1) * SamplesPerSymbol = c * SamplesPerSymbol + SamplesPerSymbol
      /\ c * SamplesPerSymbol \in Nat /\ 1 * SamplesPerSymbol = SamplesPerSymbol
  BY <1>2, <1>4, Products
<1>9. run' \in Nat /\ run' + C * SamplesPerSymbol = p + SamplesPerSymbol
  <2>1. CASE Continues(bin) /\ c > 0
    <3>1. run' = run /\ C = c + 1
      BY <1>2, <1>6, <1>7, <2>1 DEF RunNow
    <3>2. run \in Nat /\ run + c * SamplesPerSymbol = p
      BY <1>1, <1>2, <1>3, <2>1, Types DEF IInv, RunBegins
    <3> QED  BY <1>4, <1>8, <3>1, <3>2
  <2>2. CASE ~(Continues(bin) /\ c > 0)
    <3>1. run' = p /\ C = 1
      BY <1>2, <1>3, <1>6, <1>7, <2>2 DEF RunNow
    <3> QED  BY <1>3, <1>4, <1>8, <3>1
  <2> QED  BY <2>1, <2>2
<1>10. /\ Buffered \in Seq(Nat) /\ Len(Buffered) = Len(buffer) + SamplesPerSymbol /\ Buffered # <<>>
       /\ Buffered[1] = Coming
       /\ \A k \in 1 .. Len(Buffered) : Buffered[k] = Coming + k - 1
  <2>1. LET B == buffer \o Items(SamplesPerSymbol) IN
        /\ B \in Seq(Nat) /\ Len(B) = Len(buffer) + SamplesPerSymbol /\ B # <<>>
        /\ B[1] = Coming
        /\ \A k \in 1 .. Len(B) : B[k] = Coming + k - 1
    BY <1>1, BufferedFacts
  <2> QED  BY <2>1, Zenon DEF Buffered
<1>11. PICK w \in 0 .. NUp : w >= c /\ Len(buffer) = w * SamplesPerSymbol
  <2>1. PICK w \in symbol_cnt .. NUp : Len(buffer) = w * SamplesPerSymbol
    BY <1>1 DEF IInv, BufferLength
  <2>2. w \in 0 .. NUp /\ w >= c
    BY <1>2, <1>4, <2>1
  <2> QED  BY <2>1, <2>2
<1>12. PICK b \in 1 .. NUp + 1 :
         /\ b = w + 1 /\ Len(Buffered) = b * SamplesPerSymbol /\ C <= b
         /\ Coming + b * SamplesPerSymbol = p + SamplesPerSymbol
  <2>1. w \in Nat /\ w + 1 \in 1 .. NUp + 1
    BY <1>4, <1>11
  <2>2. PICK W \in Nat : /\ W = w * SamplesPerSymbol
                         /\ (w + 1) * SamplesPerSymbol = W + SamplesPerSymbol
    BY <2>1, Products
  <2>3. Coming \in Nat /\ Coming + W = p
    BY <1>1, <1>3, <1>11, <2>2, ComingFacts
  <2>4. Coming + (W + SamplesPerSymbol) = p + SamplesPerSymbol
    BY <1>4, <2>3
  <2>5. C <= w + 1
    BY <1>2, <1>7, <1>11
  <2> QED  BY <1>10, <1>11, <2>1, <2>2, <2>4, <2>5
<1>13. /\ pos' \in 0 .. InputSymbols * SamplesPerSymbol /\ (HasSymbol' => HasSymbol)
  BY <1>1, <1>3, <1>4, SizeFacts DEF HasSymbol
<1>14. SameNow(bin) \in Nat
  BY Types, SMTT(60) DEF SameNow
<1> QED  BY <1>1, <1>3, <1>5, <1>6, <1>7, <1>9, <1>10, <1>12, <1>13, <1>14, SMTT(60)

\* The frame whose window this is, and how far it has been passed on.
LEMMA PlaceFacts ==
  ASSUME IInv, kind = "timeout", m_state = "SEND_FRAME", HasSymbol, SecondMode
  PROVE  \E w \in 0 .. NBytes :
           /\ m_cnt < CntRange /\ NBytes - w \in Nat /\ NBytes - w < CntRange
           /\ m_n_bytes = (m_cnt + (NBytes - w)) % CntRange
           /\ Coming = Frame.from + NUp * SamplesPerSymbol + w * SamplesPerSymbol
<1>1. PICK w \in 0 .. NBytes :
        /\ m_n_bytes = (m_cnt + (NBytes - w)) % CntRange
        /\ Coming = Frame.from + NUp * SamplesPerSymbol + w * SamplesPerSymbol
  BY DEF IInv, WindowPlace
<1>2. m_cnt < CntRange
  BY DEF IInv, WindowPlace
<1>3. NBytes - w \in Nat /\ NBytes - w < CntRange
  BY WindowBegins
<1> QED  BY <1>1, <1>2, <1>3

\* The count of the window is within the symbols that have been read.
LEMMA WindowInInput ==
  ASSUME IInv, m_state = "SEND_FRAME", pos' = pos + SamplesPerSymbol,
         m_cnt' \in Nat, m_cnt' <= m_cnt + 1
  PROVE  /\ 2 * SamplesPerSymbol <= pos' /\ m_cnt' * SamplesPerSymbol <= pos'
         /\ (m_cnt' + 1) * SamplesPerSymbol <= pos'
<1>1. PICK p \in Nat, X \in Nat :
        /\ p = pos /\ X = m_cnt * SamplesPerSymbol
        /\ X + SamplesPerSymbol <= p /\ 2 * SamplesPerSymbol <= p
        /\ (m_cnt + 1) * SamplesPerSymbol = X + SamplesPerSymbol
  BY CountsOf, Types DEF IInv, CountsInInput
<1>2. m_cnt' * SamplesPerSymbol <= (m_cnt + 1) * SamplesPerSymbol
  BY Types, ProductMono, SMTT(60)
<1>3. PICK Y \in Nat : /\ Y = m_cnt' * SamplesPerSymbol
                       /\ (m_cnt' + 1) * SamplesPerSymbol = Y + SamplesPerSymbol
  BY Products
<1>4. Y <= X + SamplesPerSymbol
  BY <1>1, <1>2, <1>3
<1>5. /\ 2 * SamplesPerSymbol <= p + SamplesPerSymbol /\ Y <= p + SamplesPerSymbol
      /\ Y + SamplesPerSymbol <= p + SamplesPerSymbol
  BY <1>1, <1>4, SizeFacts
<1> QED  BY <1>1, <1>3, <1>5

LEMMA SecondKeepsKeeps ==
  ASSUME IInv, SecondKeeps, UNCHANGED <<kind, cnt_padding>>
  PROVE  IInv'
<1>1. PICK noutput \in Rooms, bin \in Bins :
        /\ Second(noutput, bin)
        /\ CountNow(bin) # NUp /\ ~BufferFull
        /\ buffer' = Buffered /\ symbol_cnt' = CountNow(bin) /\ same' = SameNow(bin)
        /\ UNCHANGED <<m_state, m_cnt, tags, began, written, timeoutVars>>
  BY DEF SecondKeeps
<1>2. PICK C \in 1 .. NUp, b \in 1 .. NUp + 1 :
        /\ C = CountNow(bin) /\ C <= b
        /\ bin_idx' \in Nat /\ last_bin' = bin /\ bin \in Int
        /\ run' \in Nat /\ run' = RunNow(bin) /\ run' + C * SamplesPerSymbol = pos'
        /\ Buffered \in Seq(Nat) /\ Len(Buffered) = b * SamplesPerSymbol /\ Buffered # <<>>
        /\ Buffered[1] = Coming
        /\ \A k \in 1 .. Len(Buffered) : Buffered[k] = Coming + k - 1
        /\ Coming + b * SamplesPerSymbol = pos'
        /\ SameNow(bin) \in Nat
        /\ kind = "timeout" /\ m_state = "SEND_FRAME" /\ HasSymbol /\ noutput > SamplesPerSymbol
        /\ m_detect_second_packet /\ SecondMode /\ ~Flushing
        /\ pos' = pos + SamplesPerSymbol
        /\ pos' \in 0 .. InputSymbols * SamplesPerSymbol /\ (HasSymbol' => HasSymbol)
  BY <1>1, SecondFacts
<1>3. /\ UNCHANGED <<kind, cnt_padding, m_detect_second_packet, m_n_bytes, out, passed, room_kept, began>>
      /\ m_state' = "SEND_FRAME" /\ SecondMode' /\ ~Flushing' /\ Searching' /\ Needed' = NUp
      /\ Frame' = Frame
  BY <1>1, <1>2 DEF timeoutVars, written, SecondMode, Flushing, Searching, Needed, Frame
<1>4. C < NUp /\ NUp \in Nat /\ b \in C .. NUp /\ C \in Nat /\ b \in Nat
  <2>1. ~(b * SamplesPerSymbol > NUp * SamplesPerSymbol)
    BY <1>1, <1>2 DEF BufferFull
  <2>2. b \in Nat /\ NUp \in Nat
    BY SizeFacts
  <2>3. b * SamplesPerSymbol <= NUp * SamplesPerSymbol
    BY <2>1, <2>2, Products
  <2>4. b <= NUp
    BY <2>2, <2>3, ProductOrder
  <2> QED  BY <1>1, <1>2, <2>2, <2>4
<1>5. /\ buffer' \in Seq(Nat) /\ Len(buffer') = b * SamplesPerSymbol /\ buffer' # <<>>
      /\ Coming' = Coming
      /\ \A k \in 1 .. Len(buffer') : buffer'[k] = Coming' + k - 1
      /\ Coming' + Len(buffer') = pos'
  <2>1. Coming' = Coming
    BY <1>1, <1>2 DEF Coming
  <2> QED  BY <1>1, <1>2, <2>1
<1>6. CountsInInput' /\ m_cnt' * SamplesPerSymbol <= pos' /\ symbol_cnt' * SamplesPerSymbol <= pos'
  <2>1. m_cnt' \in Nat /\ m_cnt' <= m_cnt + 1
    BY <1>1, Types, SMTT(60)
  <2>2. C * SamplesPerSymbol \in Nat /\ C * SamplesPerSymbol <= pos'
    <3>1. C * SamplesPerSymbol \in Nat
      BY <1>4, Products
    <3> QED  BY <1>2, <3>1, SMTT(60)
  <2> QED  BY <1>1, <1>2, <1>3, <2>1, <2>2, WindowInInput DEF CountsInInput
<1>7. Typed'
  <2>1. Len(buffer') <= (NUp + 1) * SamplesPerSymbol
    <3>1. b <= NUp + 1 /\ NUp + 1 \in Nat
      BY <1>4
    <3> QED  BY <1>4, <1>5, <3>1, ProductMono
  <2>2. /\ symbol_cnt' \in Nat /\ m_cnt' \in Nat /\ same' \in Nat /\ last_bin' \in Int
        /\ tags' \in Seq(TagSet) /\ began' \in Seq(BeginningSet)
        /\ m_detect_second_packet' \in BOOLEAN /\ m_n_bytes' \in 0 .. CntRange - 1
    BY <1>1, <1>2, <1>3, <1>4, Types
  <2>3. kind' \in {"timeout", "threshold", "sequence"} /\ cnt_padding' \in 0 .. InterFramePadding
        /\ room_kept' \in BOOLEAN /\ passed' \in Seq(Nat) /\ out' \in Seq(Int)
    BY <1>3, Types
  <2> QED  BY <1>2, <1>3, <1>5, <1>6, <2>1, <2>2, <2>3, TypedFrom
<1>8. StatesOfKind' /\ EqualInRun' /\ RoomKept'
  BY <1>2, <1>3 DEF IInv, StatesOfKind, EqualInRun, RoomKept
<1>9. BufferLength' /\ RunBegins'
  <2>1. symbol_cnt' = C /\ C > 0
    BY <1>1, <1>2, <1>4
  <2>2. RunBegins'
    BY <1>2, <1>3, <1>4, <2>1 DEF RunBegins
  <2> QED  BY <1>3, <1>4, <1>5, <2>1, <2>2 DEF BufferLength
<1>10. BufferOfInput'
  <2>1. Coming' + Len(buffer') <= pos'
    BY <1>2, <1>5
  <2> QED  BY <1>3, <1>5, <2>1 DEF BufferOfInput
<1>11. began' \in Seq(BeginningSet) /\ Grown(began, began') /\ out' \in Seq(Int) /\ Grown(out, out')
  BY <1>3, Types, SameGrown
<1>12. NothingLostInside' /\ StartsInPreamble'
  <2>1. \A f \in Len(began) + 1 .. Len(began') : began'[f].at = Len(passed) + 1
    BY <1>3, Types
  <2> QED  BY <1>3, <1>11, <2>1, PassedKept
<1>13. FramesBegun' /\ NextInFrame' /\ PreambleNext'
  BY <1>1, <1>2, <1>3, <1>5 DEF IInv, FramesBegun, NextInFrame, PreambleNext
<1>14. FramesTagged' /\ \A k \in 1 .. Len(tags') : EndInside(k)'
  BY <1>1, <1>3, <1>11, TagsKept
<1>15. TagsOfFrames'
  BY <1>1, <1>2, <1>3, <1>14 DEF IInv, TagsOfFrames
<1>16. LastWritten' /\ WindowPlace'
  <2>1. PICK w \in 0 .. NBytes :
          /\ m_cnt < CntRange /\ NBytes - w \in Nat /\ NBytes - w < CntRange
          /\ m_n_bytes = (m_cnt + (NBytes - w)) % CntRange
          /\ Coming = Frame.from + NUp * SamplesPerSymbol + w * SamplesPerSymbol
    BY <1>2, PlaceFacts
  <2>2. WindowPlace'
    BY <1>1, <1>3, <1>5, <2>1 DEF WindowPlace
  <2> QED  BY <1>2, <1>3, <1>5, <2>2 DEF IInv, LastWritten
<1> QED  BY <1>6, <1>7, <1>8, <1>9, <1>10, <1>12, <1>13, <1>14, <1>15, <1>16 DEF IInv

\* NUp + 1 symbols are in the buffer when one of them is passed on.
LEMMA FullFacts ==
  ASSUME BufferFull, NEW b \in 1 .. NUp + 1, Len(Buffered) = b * SamplesPerSymbol
  PROVE  /\ b = NUp + 1 /\ Len(Buffered) = NUp * SamplesPerSymbol + SamplesPerSymbol
         /\ NUp * SamplesPerSymbol \in Nat /\ NUp * SamplesPerSymbol > 0
<1>1. b \in Nat /\ NUp \in Nat /\ NUp >= 3
  BY SizeFacts
<1>2. PICK X \in Nat : /\ X = NUp * SamplesPerSymbol
                       /\ (NUp + 1) * SamplesPerSymbol = X + SamplesPerSymbol
                       /\ SamplesPerSymbol <= X
  <2>1. /\ NUp * SamplesPerSymbol \in Nat
        /\ (NUp + 1) * SamplesPerSymbol = NUp * SamplesPerSymbol + SamplesPerSymbol
        /\ SamplesPerSymbol <= NUp * SamplesPerSymbol
    <3>1. NUp \in Nat /\ NUp > 0
      BY <1>1
    <3> QED  BY <3>1, Products, Zenon
  <2> QED  BY <2>1
<1>3. ~(b * SamplesPerSymbol <= X)
  <2>1. b * SamplesPerSymbol > X /\ b * SamplesPerSymbol \in Nat
    BY <1>1, <1>2, Products DEF BufferFull
  <2> QED  BY <2>1
<1>4. ~(b <= NUp)
  BY <1>1, <1>2, <1>3, ProductMono
<1>5. b = NUp + 1
  BY <1>1, <1>4
<1> QED  BY <1>2, <1>5, SizeFacts

LEMMA SecondSymbolKeeps ==
  ASSUME IInv, SecondSymbol, UNCHANGED <<kind, cnt_padding>>
  PROVE  IInv'
<1>1. PICK noutput \in Rooms, bin \in Bins :
        /\ Second(noutput, bin)
        /\ CountNow(bin) # NUp /\ BufferFull /\ ~WindowFull
        /\ Written(SubSeq(Buffered, 1, SamplesPerSymbol), noutput)
        /\ buffer' = SubSeq(Buffered, SamplesPerSymbol + 1, Len(Buffered))
        /\ m_cnt' = (m_cnt + 1) % CntRange
        /\ symbol_cnt' = CountNow(bin) /\ same' = SameNow(bin)
        /\ UNCHANGED <<m_state, tags, began, timeoutVars>>
  BY DEF SecondSymbol
<1>2. PICK C \in 1 .. NUp, b \in 1 .. NUp + 1 :
        /\ C = CountNow(bin) /\ C <= b
        /\ bin_idx' \in Nat /\ last_bin' = bin /\ bin \in Int
        /\ run' \in Nat /\ run' = RunNow(bin) /\ run' + C * SamplesPerSymbol = pos'
        /\ Buffered \in Seq(Nat) /\ Len(Buffered) = b * SamplesPerSymbol /\ Buffered # <<>>
        /\ Buffered[1] = Coming
        /\ \A k \in 1 .. Len(Buffered) : Buffered[k] = Coming + k - 1
        /\ Coming + b * SamplesPerSymbol = pos'
        /\ SameNow(bin) \in Nat
        /\ kind = "timeout" /\ m_state = "SEND_FRAME" /\ HasSymbol /\ noutput > SamplesPerSymbol
        /\ m_detect_second_packet /\ SecondMode /\ ~Flushing
        /\ pos' = pos + SamplesPerSymbol
        /\ pos' \in 0 .. InputSymbols * SamplesPerSymbol /\ (HasSymbol' => HasSymbol)
  BY <1>1, SecondFacts
<1>3. /\ UNCHANGED <<kind, cnt_padding, m_detect_second_packet, m_n_bytes, began>>
      /\ m_state' = "SEND_FRAME" /\ SecondMode' /\ ~Flushing' /\ Searching' /\ Needed' = NUp
      /\ Frame' = Frame
  BY <1>1, <1>2 DEF timeoutVars, SecondMode, Flushing, Searching, Needed, Frame
<1>4. C < NUp /\ NUp \in Nat /\ C \in Nat /\ C > 0
  <2>1. NUp \in Nat /\ C \in 1 .. NUp /\ C # NUp
    BY <1>1, <1>2, SizeFacts
  <2> QED  BY <2>1
<1>5. PICK X \in Nat, S \in Nat, c \in Nat :
        /\ X = NUp * SamplesPerSymbol /\ S = SamplesPerSymbol /\ c = Coming
        /\ Len(Buffered) = X + S /\ X > 0 /\ S >= 4
  BY <1>1, <1>2, FullFacts, SizeFacts, ComingFacts
<1> DEFINE items == SubSeq(Buffered, 1, S)
<1>6. /\ items \in Seq(Nat) /\ Len(items) = S
      /\ \A k \in 1 .. S : items[k] = c + k - 1
      /\ buffer' \in Seq(Nat) /\ Len(buffer') = X
      /\ \A k \in 1 .. X : buffer'[k] = c + (S + k) - 1
  <2>1. Buffered \in Seq(Nat) /\ S \in 0 .. Len(Buffered)
    BY <1>2, <1>5
  <2>2. /\ SubSeq(Buffered, 1, S) \in Seq(Nat) /\ Len(SubSeq(Buffered, 1, S)) = S
        /\ \A k \in 1 .. S : SubSeq(Buffered, 1, S)[k] = Buffered[k]
        /\ SubSeq(Buffered, S + 1, Len(Buffered)) \in Seq(Nat)
        /\ Len(SubSeq(Buffered, S + 1, Len(Buffered))) = Len(Buffered) - S
        /\ \A k \in 1 .. Len(Buffered) - S : SubSeq(Buffered, S + 1, Len(Buffered))[k] = Buffered[S + k]
    BY <2>1, PieceFacts, SMTT(60)
  <2>3. buffer' = SubSeq(Buffered, S + 1, Len(Buffered))
    BY <1>1, <1>5, Zenon
  <2>4. /\ buffer' \in Seq(Nat) /\ Len(buffer') = Len(Buffered) - S
        /\ \A k \in 1 .. Len(Buffered) - S : buffer'[k] = Buffered[S + k]
    BY <2>2, <2>3, Zenon
  <2>5. Len(Buffered) - S = X
    BY <1>5
  <2>6. \A k \in 1 .. X + S : Buffered[k] = c + k - 1
    BY <1>2, <1>5
  <2>7. (\A k \in 1 .. S : k \in 1 .. X + S) /\ (\A k \in 1 .. X : S + k \in 1 .. X + S)
    OBVIOUS
  <2> QED  BY <2>2, <2>4, <2>5, <2>6, <2>7
<1>7. Written(items, noutput)
  BY <1>1, <1>5, Zenon
<1> HIDE DEF items
<1>8. /\ passed' \in Seq(Nat) /\ out' \in Seq(Int) /\ Grown(out, out')
      /\ Len(passed') = Len(passed) + S /\ Len(out') = Len(out) + S
      /\ \A k \in 1 .. Len(passed) : passed'[k] = passed[k]
      /\ \A k \in 1 .. S : passed'[Len(passed) + k] = c + k - 1
      /\ \A k \in 1 .. S : out'[Len(out) + k] = c + k - 1
      /\ room_kept' = room_kept
  <2>1. /\ passed' \in Seq(Nat) /\ out' \in Seq(Int) /\ Grown(out, out')
        /\ Len(passed') = Len(passed) + Len(items) /\ Len(out') = Len(out) + Len(items)
        /\ \A k \in 1 .. Len(passed) : passed'[k] = passed[k]
        /\ \A k \in 1 .. Len(items) : passed'[Len(passed) + k] = items[k]
        /\ \A k \in 1 .. Len(items) : out'[Len(out) + k] = items[k]
        /\ Len(items) <= noutput => room_kept' = room_kept
    BY <1>6, <1>7, WrittenFacts
  <2>2. noutput \in Nat /\ S <= noutput
    BY <1>2, <1>5, DetectorAssumption
  <2> QED  BY <1>6, <2>1, <2>2
<1>9. /\ buffer' # <<>> /\ Coming' = c + S
      /\ \A k \in 1 .. X : buffer'[k] = (c + S) + k - 1
  <2>1. 1 \in 1 .. X
    BY <1>5
  <2>2. buffer'[1] = c + (S + 1) - 1 /\ buffer' # <<>>
    BY <1>6, <2>1
  <2>3. buffer'[1] = c + S
    BY <2>2
  <2>4. \A k \in 1 .. X : buffer'[k] = (c + S) + k - 1
    BY <1>6
  <2> QED  BY <2>2, <2>3, <2>4 DEF Coming
<1>10. (c + S) + X = pos'
  <2>1. PICK p \in Nat : p = pos'
    BY <1>2, SizeFacts
  <2>2. Coming + Len(Buffered) = pos'
    BY <1>2
  <2>3. c + (X + S) = p
    BY <1>5, <2>1, <2>2
  <2> QED  BY <2>1, <2>3
<1>11. BufferOfInput' /\ BufferLength'
  <2>1. Coming' + Len(buffer') = pos' /\ Coming' + Len(buffer') <= pos'
    BY <1>2, <1>6, <1>9, <1>10
  <2>2. \A k \in 1 .. Len(buffer') : buffer'[k] = Coming' + k - 1
    BY <1>6, <1>9
  <2>3. BufferOfInput'
    BY <1>3, <1>9, <2>1, <2>2 DEF BufferOfInput
  <2>4. symbol_cnt' = C /\ NUp \in C .. NUp /\ Len(buffer') = NUp * SamplesPerSymbol
    BY <1>1, <1>2, <1>4, <1>5, <1>6
  <2> QED  BY <1>3, <2>3, <2>4 DEF BufferLength
<1>12. PICK w \in 0 .. NBytes :
         /\ m_cnt < CntRange /\ NBytes - w \in Nat /\ NBytes - w < CntRange
         /\ m_n_bytes = (m_cnt + (NBytes - w)) % CntRange
         /\ Coming = Frame.from + NUp * SamplesPerSymbol + w * SamplesPerSymbol
  BY <1>2, PlaceFacts
<1>13. /\ m_cnt' \in Nat /\ m_cnt' <= m_cnt + 1 /\ m_cnt' < CntRange
       /\ NBytes - w > 0
       /\ m_n_bytes' = (m_cnt' + (NBytes - (w + 1))) % CntRange
  <2>1. PICK m \in Nat, R \in Nat, d \in Nat :
          m = m_cnt /\ R = CntRange /\ d = NBytes - w /\ m < R /\ d < R
    BY <1>12, Types, WindowBegins
  <2>2. /\ m = (m + d) % R <=> d = 0
        /\ (m + 1) % R \in Nat /\ (m + 1) % R < R /\ (m + 1) % R <= m + 1
        /\ d > 0 => (((m + 1) % R) + (d - 1)) % R = (m + d) % R
    <3>1. CountsToCome(R, m, d)
      BY <2>1, WindowCounts
    <3> QED  BY <3>1 DEF CountsToCome
  <2>3. m # (m + d) % R
    BY <1>1, <1>12, <2>1 DEF WindowFull
  <2>4. d > 0
    BY <2>2, <2>3
  <2>5. d - 1 = NBytes - (w + 1)
    BY <2>1, WindowBegins
  <2> QED  BY <1>1, <1>3, <1>12, <2>1, <2>2, <2>4, <2>5
<1>14. CountsInInput' /\ m_cnt' * SamplesPerSymbol <= pos' /\ symbol_cnt' * SamplesPerSymbol <= pos'
  <2>1. C * SamplesPerSymbol \in Nat /\ C * SamplesPerSymbol <= pos'
    <3>1. C * SamplesPerSymbol \in Nat
      BY <1>4, Products
    <3> QED  BY <1>2, <3>1, SMTT(60)
  <2>2. /\ 2 * SamplesPerSymbol <= pos' /\ m_cnt' * SamplesPerSymbol <= pos'
        /\ (m_cnt' + 1) * SamplesPerSymbol <= pos'
    BY <1>2, <1>13, WindowInInput
  <2>3. symbol_cnt' = C
    BY <1>1, <1>2
  <2> QED  BY <1>3, <2>1, <2>2, <2>3 DEF CountsInInput
<1>15. Typed'
  <2>1. Len(buffer') <= (NUp + 1) * SamplesPerSymbol
    <3>1. (NUp + 1) * SamplesPerSymbol = X + S
      BY <1>4, <1>5, Products
    <3> QED  BY <1>5, <1>6, <3>1
  <2>2. /\ symbol_cnt' \in Nat /\ same' \in Nat /\ last_bin' \in Int
        /\ tags' \in Seq(TagSet) /\ began' \in Seq(BeginningSet)
        /\ m_detect_second_packet' \in BOOLEAN /\ m_n_bytes' \in 0 .. CntRange - 1
    BY <1>1, <1>2, <1>3, <1>4, Types
  <2>3. kind' \in {"timeout", "threshold", "sequence"} /\ cnt_padding' \in 0 .. InterFramePadding
        /\ room_kept' \in BOOLEAN
    BY <1>3, <1>8, Types
  <2> QED  BY <1>2, <1>3, <1>6, <1>8, <1>13, <1>14, <2>1, <2>2, <2>3, TypedFrom
<1>16. StatesOfKind' /\ EqualInRun' /\ RoomKept'
  BY <1>2, <1>3, <1>8 DEF IInv, StatesOfKind, EqualInRun, RoomKept
<1>17. RunBegins'
  <2>1. symbol_cnt' = C
    BY <1>1, <1>2
  <2> QED  BY <1>2, <1>3, <1>4, <2>1 DEF RunBegins
<1>18. /\ NothingLostInside' /\ StartsInPreamble'
       /\ FramesBegun' /\ NextInFrame' /\ PreambleNext'
  <2>1. S \in Nat \ {0} /\ Coming' = Coming + S /\ Coming' \in Nat
    BY <1>5, <1>9
  <2>2. \A k \in 1 .. S : passed'[Len(passed) + k] = Coming + k - 1
    BY <1>5, <1>8
  <2> QED  BY <1>2, <1>3, <1>8, <2>1, <2>2, PassedMore
<1>19. began' \in Seq(BeginningSet) /\ Grown(began, began')
  BY <1>3, Types, SameGrown
<1>20. FramesTagged' /\ \A k \in 1 .. Len(tags') : EndInside(k)'
  BY <1>1, <1>3, <1>8, <1>19, TagsKept
<1>21. TagsOfFrames'
  BY <1>1, <1>2, <1>3, <1>20 DEF IInv, TagsOfFrames
<1>22. LastWritten'
  <2>1. out' # <<>> /\ S \in 1 .. S
    BY <1>5, <1>8, Types
  <2>2. out'[Len(out')] = c + S - 1
    BY <1>8, <2>1
  <2>3. Coming' - 1 = c + S - 1
    BY <1>5, <1>9
  <2> QED  BY <2>1, <2>2, <2>3 DEF LastWritten
<1>23. WindowPlace'
  <2>1. w + 1 \in 0 .. NBytes
    BY <1>13, WindowBegins
  <2>2. PICK r \in Nat, W \in Nat :
          /\ r = Frame.from /\ W = w * SamplesPerSymbol
          /\ (w + 1) * SamplesPerSymbol = W + SamplesPerSymbol
    <3>1. w \in Nat
      BY <1>12, WindowBegins
    <3> QED  BY <1>2, <3>1, FrameTypes, Products, ZenonT(60)
  <2>3. c = r + X + W
    BY <1>5, <1>12, <2>2
  <2>4. c + S = r + X + (W + S)
    BY <1>5, <2>3, SMTT(60)
  <2>5. Coming' = Frame'.from + NUp * SamplesPerSymbol + (w + 1) * SamplesPerSymbol
    BY <1>3, <1>5, <1>9, <2>2, <2>4
  <2> QED  BY <1>3, <1>13, <2>1, <2>5 DEF WindowPlace
<1> QED  BY <1>11, <1>14, <1>15, <1>16, <1>17, <1>18, <1>20, <1>21, <1>22, <1>23 DEF IInv

LEMMA SecondEndKeeps ==
  ASSUME IInv, SecondEnd, UNCHANGED <<kind, cnt_padding>>
  PROVE  IInv'
<1>1. PICK noutput \in Rooms, bin \in Bins :
        /\ Second(noutput, bin)
        /\ CountNow(bin) # NUp /\ BufferFull /\ WindowFull
        /\ EndOfWindow(noutput)
        /\ buffer' = <<>> /\ same' = SameNow(bin)
        /\ UNCHANGED <<began, m_detect_second_packet>>
  BY DEF SecondEnd
<1>2. PICK C \in 1 .. NUp, b \in 1 .. NUp + 1 :
        /\ C = CountNow(bin) /\ C <= b
        /\ bin_idx' \in Nat /\ last_bin' = bin /\ bin \in Int
        /\ run' \in Nat /\ run' = RunNow(bin) /\ run' + C * SamplesPerSymbol = pos'
        /\ Buffered \in Seq(Nat) /\ Len(Buffered) = b * SamplesPerSymbol /\ Buffered # <<>>
        /\ Buffered[1] = Coming
        /\ \A k \in 1 .. Len(Buffered) : Buffered[k] = Coming + k - 1
        /\ Coming + b * SamplesPerSymbol = pos'
        /\ SameNow(bin) \in Nat
        /\ kind = "timeout" /\ m_state = "SEND_FRAME" /\ HasSymbol /\ noutput > SamplesPerSymbol
        /\ m_detect_second_packet /\ SecondMode /\ ~Flushing
        /\ pos' = pos + SamplesPerSymbol
        /\ pos' \in 0 .. InputSymbols * SamplesPerSymbol /\ (HasSymbol' => HasSymbol)
  BY <1>1, SecondFacts
<1>3. /\ pos' \in Nat /\ Coming' = pos' /\ Coming' \in Nat /\ Coming <= Coming'
  <2>1. b \in Nat
    BY <1>2, SizeFacts
  <2>2. b * SamplesPerSymbol \in Nat /\ Coming \in Nat
    BY <2>1, Products, ComingFacts
  <2>3. Coming <= pos' /\ pos' \in Nat
    BY <1>2, <2>2, SMTT(60)
  <2> QED  BY <1>1, <2>3 DEF Coming
<1>4. Coming - 1 = LastOf(Len(began))
  <2>1. PICK w \in 0 .. NBytes :
          /\ m_cnt < CntRange /\ NBytes - w \in Nat /\ NBytes - w < CntRange
          /\ m_n_bytes = (m_cnt + (NBytes - w)) % CntRange
          /\ Coming = Frame.from + NUp * SamplesPerSymbol + w * SamplesPerSymbol
    BY <1>2, PlaceFacts
  <2>2. PICK m \in Nat, R \in Nat, d \in Nat :
          m = m_cnt /\ R = CntRange /\ d = NBytes - w /\ m < R /\ d < R
    BY <2>1, Types, WindowBegins
  <2>3. m = (m + d) % R <=> d = 0
    <3>1. CountsToCome(R, m, d)
      BY <2>2, WindowCounts
    <3> QED  BY <3>1 DEF CountsToCome
  <2>4. m = (m + d) % R
    BY <1>1, <2>1, <2>2 DEF WindowFull
  <2>5. w = NBytes
    BY <2>2, <2>3, <2>4, WindowBegins
  <2>6. PICK r \in Nat, x \in Nat, y \in Nat :
          r = Frame.from /\ x = NUp * SamplesPerSymbol /\ y = WindowLength
    BY <1>2, FrameTypes, WindowLengthFacts
  <2>7. y = NBytes * SamplesPerSymbol
    BY <1>2, <2>6, WindowLengthFacts
  <2>8. Coming = r + x + y
    BY <2>1, <2>5, <2>6, <2>7
  <2>9. LastOf(Len(began)) = r + x + y - 1
    BY <2>6 DEF LastOf, Frame
  <2> QED  BY <2>8, <2>9
<1>5. /\ m_state' = "FIND_PREAMBLE" /\ m_cnt' = 0 /\ symbol_cnt' = 0 /\ m_n_bytes' = NBytes
      /\ out' \in Seq(Int) /\ passed' = passed /\ tags' \in Seq(TagSet) /\ room_kept' = room_kept
      /\ NothingLostInside' /\ StartsInPreamble'
      /\ FramesBegun' /\ NextInFrame' /\ PreambleNext'
      /\ TagsOfFrames' /\ FramesTagged' /\ LastWritten' /\ WindowPlace' /\ RoomKept'
  BY <1>1, <1>2, <1>3, <1>4, EndOfWindowFacts
<1>6. 0 * SamplesPerSymbol = 0 /\ 0 <= pos'
  BY <1>3, SizeFacts
<1>7. CountsInInput' /\ m_cnt' * SamplesPerSymbol <= pos' /\ symbol_cnt' * SamplesPerSymbol <= pos'
  BY <1>5, <1>6 DEF CountsInInput
<1>8. Len(buffer') = 0 /\ 0 <= (NUp + 1) * SamplesPerSymbol
  <2>1. NUp + 1 \in Nat
    BY SizeFacts
  <2> QED  BY <1>1, <2>1, Products
<1>9. Typed'
  <2>1. NBytes \in 0 .. CntRange - 1
    BY TimeoutAssumption
  <2>2. m_cnt' \in Nat /\ symbol_cnt' \in Nat /\ same' \in Nat /\ last_bin' \in Int
        /\ m_n_bytes' \in 0 .. CntRange - 1 /\ passed' \in Seq(Nat) /\ room_kept' \in BOOLEAN
        /\ run' \in Nat /\ bin_idx' \in Nat /\ buffer' \in Seq(Nat) /\ m_state' = "FIND_PREAMBLE"
    BY <1>1, <1>2, <1>5, <2>1, Types
  <2>3. kind' \in {"timeout", "threshold", "sequence"} /\ cnt_padding' \in 0 .. InterFramePadding
        /\ m_detect_second_packet' \in BOOLEAN /\ began' \in Seq(BeginningSet)
    BY <1>1, Types
  <2> QED  BY <1>2, <1>5, <1>7, <1>8, <2>2, <2>3, TypedFrom
<1>10. StatesOfKind' /\ EqualInRun' /\ SecondMode'
  BY <1>1, <1>2, <1>5 DEF StatesOfKind, EqualInRun, SecondMode
<1>11. BufferLength' /\ RunBegins'
  <2>1. Needed' = NUp /\ 0 < NUp
    BY <1>2, SizeFacts DEF Needed
  <2> QED  BY <1>5, <1>6, <1>8, <2>1 DEF BufferLength, RunBegins
<1>12. BufferOfInput'
  <2>1. ~Flushing'
    BY <1>5 DEF Flushing
  <2>2. Coming' + 0 = pos' /\ pos' <= pos'
    <3>1. \A p \in Nat : p + 0 = p /\ p <= p
      OBVIOUS
    <3> QED  BY <1>3, <3>1
  <2> QED  BY <1>1, <1>8, <2>1, <2>2 DEF BufferOfInput
<1> QED  BY <1>5, <1>7, <1>9, <1>10, <1>11, <1>12 DEF IInv

\* Two tags behind the others.
LEMMA TwoTagsAppended ==
  ASSUME IInv, NEW s \in TagSet, NEW u \in TagSet, tags' = tags \o <<s, u>>
  PROVE  /\ tags' \in Seq(TagSet) /\ Len(tags') = Len(tags) + 2 /\ Len(tags) \in Nat
         /\ Grown(tags, tags') /\ tags'[Len(tags) + 1] = s /\ tags'[Len(tags) + 2] = u
<1>1. PICK v \in Seq(TagSet) : v = <<s, u>> /\ Len(v) = 2 /\ v[1] = s /\ v[2] = u
  <2>1. /\ <<s, u>> \in Seq(TagSet) /\ Len(<<s, u>>) = 2
        /\ <<s, u>>[1] = s /\ <<s, u>>[2] = u
    OBVIOUS
  <2> QED  BY <2>1, Zenon
<1>2. tags \in Seq(TagSet)
  BY Types
<1>3. LET t == tags \o v IN
      /\ t \in Seq(TagSet) /\ Len(t) = Len(tags) + Len(v) /\ Len(tags) \in Nat
      /\ Grown(tags, t)
      /\ \A k \in 1 .. Len(v) : t[Len(tags) + k] = v[k]
  BY <1>2, ConcatGrows
<1>4. tags' = tags \o v
  BY <1>1, Zenon
<1>5. /\ tags' \in Seq(TagSet) /\ Len(tags') = Len(tags) + Len(v) /\ Len(tags) \in Nat
      /\ Grown(tags, tags')
      /\ \A k \in 1 .. Len(v) : tags'[Len(tags) + k] = v[k]
  BY <1>3, <1>4, Zenon
<1>6. 1 \in 1 .. 2 /\ 2 \in 1 .. 2
  OBVIOUS
<1>7. tags'[Len(tags) + 1] = v[1] /\ tags'[Len(tags) + 2] = v[2]
  BY <1>1, <1>5, <1>6
<1> QED  BY <1>1, <1>5, <1>7

LEMMA SecondPacketKeeps ==
  ASSUME IInv, SecondPacket, UNCHANGED <<kind, cnt_padding>>
  PROVE  IInv'
<1>1. PICK noutput \in Rooms, bin \in Bins :
        /\ Second(noutput, bin)
        /\ CountNow(bin) = NUp
        /\ buffer' = Buffered /\ m_n_bytes' = WindowExtended
        /\ tags' = tags \o <<Tag("end", 1), Tag("start", 2)>>
        /\ Padded(2, noutput)
        /\ symbol_cnt' = 0 /\ same' = 0 /\ m_state' = "SEND_PREAMBLE"
        /\ began' = Append(began, Beginning(bin))
        /\ UNCHANGED <<m_cnt, m_detect_second_packet>>
  BY DEF SecondPacket
<1>2. PICK C \in 1 .. NUp, b \in 1 .. NUp + 1 :
        /\ C = CountNow(bin) /\ C <= b
        /\ bin_idx' \in Nat /\ last_bin' = bin /\ bin \in Int
        /\ run' \in Nat /\ run' = RunNow(bin) /\ run' + C * SamplesPerSymbol = pos'
        /\ Buffered \in Seq(Nat) /\ Len(Buffered) = b * SamplesPerSymbol /\ Buffered # <<>>
        /\ Buffered[1] = Coming
        /\ \A k \in 1 .. Len(Buffered) : Buffered[k] = Coming + k - 1
        /\ Coming + b * SamplesPerSymbol = pos'
        /\ SameNow(bin) \in Nat
        /\ kind = "timeout" /\ m_state = "SEND_FRAME" /\ HasSymbol /\ noutput > SamplesPerSymbol
        /\ m_detect_second_packet /\ SecondMode /\ ~Flushing
        /\ pos' = pos + SamplesPerSymbol
        /\ pos' \in 0 .. InputSymbols * SamplesPerSymbol /\ (HasSymbol' => HasSymbol)
  BY <1>1, SecondFacts
<1>3. /\ UNCHANGED <<kind, cnt_padding, m_cnt, m_detect_second_packet>>
      /\ m_state' = "SEND_PREAMBLE" /\ SecondMode' /\ Flushing' /\ ~Searching' /\ Needed' = NUp
  BY <1>1, <1>2 DEF SecondMode, Flushing, Searching, Needed
<1>4. C = NUp /\ NUp \in Nat /\ NUp >= 3 /\ (b = NUp \/ b = NUp + 1)
  <2>1. C = NUp /\ C <= b /\ b \in 1 .. NUp + 1 /\ NUp \in Nat /\ NUp >= 3
    BY <1>1, <1>2, SizeFacts
  <2> QED  BY <2>1
<1>5. /\ buffer' \in Seq(Nat) /\ Len(buffer') = b * SamplesPerSymbol /\ buffer' # <<>>
      /\ Coming' = Coming
      /\ \A k \in 1 .. Len(buffer') : buffer'[k] = Coming' + k - 1
      /\ Coming' + Len(buffer') = pos'
  <2>1. Coming' = Coming
    BY <1>1, <1>2 DEF Coming
  <2> QED  BY <1>1, <1>2, <2>1
<1>6. PICK S \in Nat, X \in Nat, r \in Nat, c \in Nat, p \in Nat, B \in Nat :
        /\ S = SamplesPerSymbol /\ X = NUp * SamplesPerSymbol /\ r = run' /\ c = Coming /\ p = pos'
        /\ B = b * SamplesPerSymbol
        /\ r + X = p /\ c + B = p /\ (B = X \/ B = X + S)
        /\ (NUp + 1) * SamplesPerSymbol = X + S
  <2>1. /\ SamplesPerSymbol \in Nat /\ NUp * SamplesPerSymbol \in Nat
        /\ (NUp + 1) * SamplesPerSymbol = NUp * SamplesPerSymbol + SamplesPerSymbol
        /\ b * SamplesPerSymbol \in Nat
    <3>1. b \in Nat
      BY <1>4
    <3> QED  BY <1>4, <3>1, Products, SizeFacts, Zenon
  <2>2. run' \in Nat /\ Coming \in Nat /\ pos' \in Nat
    BY <1>2, ComingFacts, SizeFacts
  <2>3. run' + NUp * SamplesPerSymbol = pos' /\ Coming + b * SamplesPerSymbol = pos'
    BY <1>2, <1>4
  <2>4. b * SamplesPerSymbol = NUp * SamplesPerSymbol
        \/ b * SamplesPerSymbol = NUp * SamplesPerSymbol + SamplesPerSymbol
    BY <1>4, <2>1
  <2> QED  BY <2>1, <2>2, <2>3, <2>4
<1>7. Beginning(bin) = [at |-> Len(passed) + 1, from |-> r] /\ Beginning(bin) \in BeginningSet
  <2>1. Len(passed) + 1 \in Nat \ {0}
    BY Types, SMTT(60)
  <2>2. Beginning(bin) = [at |-> Len(passed) + 1, from |-> r]
    BY <1>2, <1>6 DEF Beginning
  <2> QED  BY <2>1, <2>2 DEF BeginningSet
<1>8. PICK n \in Nat :
        /\ n = Len(began) /\ n \in 1 .. n /\ Len(began') = n + 1 /\ began' # <<>>
        /\ began' \in Seq(BeginningSet)
        /\ Grown(began, began') /\ began'[n + 1] = [at |-> Len(passed) + 1, from |-> r]
  <2>1. LET t == Append(began, Beginning(bin)) IN
        /\ t \in Seq(BeginningSet) /\ Len(t) = Len(began) + 1 /\ t # <<>>
        /\ Len(began) \in Nat /\ Grown(began, t) /\ t[Len(began) + 1] = Beginning(bin)
    <3>1. began \in Seq(BeginningSet)
      BY Types
    <3> QED  BY <1>7, <3>1, AppendGrows
  <2>2. /\ began' \in Seq(BeginningSet) /\ Len(began') = Len(began) + 1 /\ began' # <<>>
        /\ Len(began) \in Nat /\ Grown(began, began') /\ began'[Len(began) + 1] = Beginning(bin)
    BY <1>1, <2>1, Zenon
  <2>3. Len(began) \in 1 .. Len(began)
    BY <1>2, Types DEF IInv, FramesBegun
  <2> QED  BY <1>7, <2>2, <2>3
<1>9. Frame'.at = Len(passed) + 1 /\ Frame'.from = r
  <2>1. Frame' = [at |-> Len(passed) + 1, from |-> r]
    BY <1>8 DEF Frame
  <2> QED  BY <2>1
<1>10. PICK L \in Nat \ {0} :
         /\ L = Len(out) /\ out' \in Seq(Int) /\ Grown(out, out') /\ Len(out') = L + 2
         /\ passed' = passed /\ room_kept' = room_kept
         /\ out'[L] = c - 1 /\ out'[L + 1] = Pad
  <2>1. 2 <= noutput /\ 2 \in Nat
    <3>1. noutput \in Nat /\ SamplesPerSymbol >= 4 /\ SamplesPerSymbol \in Nat
      BY DetectorAssumption, SizeFacts
    <3> QED  BY <1>2, <3>1
  <2>2. /\ out' \in Seq(Int) /\ Grown(out, out') /\ Len(out') = Len(out) + 2
        /\ \A k \in 1 .. 2 : out'[Len(out) + k] = Pad
        /\ passed' = passed /\ room_kept' = room_kept
    BY <1>1, <2>1, PaddedFacts
  <2>3. out # <<>> /\ out[Len(out)] = c - 1
    BY <1>2, <1>6 DEF IInv, LastWritten
  <2>4. Len(out) \in Nat \ {0} /\ Len(out) \in 1 .. Len(out) /\ 1 \in 1 .. 2
    BY <2>3, Types, SMTT(60)
  <2>5. out'[Len(out)] = c - 1 /\ out'[Len(out) + 1] = Pad
    BY <2>2, <2>3, <2>4 DEF Grown
  <2> QED  BY <2>2, <2>4, <2>5
<1>11. PICK t \in Nat :
         /\ t = Len(tags) /\ t = 2 * n - 1 /\ Len(tags') = t + 2 /\ tags' \in Seq(TagSet)
         /\ Grown(tags, tags')
         /\ tags'[t + 1] = [at |-> L + 2, value |-> "end"] /\ tags'[t + 2].value = "start"
  <2>1. /\ Tag("end", 1) = [at |-> L + 2, value |-> "end"] /\ Tag("end", 1) \in TagSet
        /\ Tag("start", 2).value = "start" /\ Tag("start", 2) \in TagSet
    <3>1. /\ Len(out) + 1 + 1 = L + 2 /\ L + 2 \in Nat /\ Len(out) + 1 + 2 \in Nat
      BY <1>10
    <3> QED  BY <3>1 DEF Tag, TagSet
  <2>2. /\ tags' \in Seq(TagSet) /\ Len(tags') = Len(tags) + 2 /\ Len(tags) \in Nat
        /\ Grown(tags, tags') /\ tags'[Len(tags) + 1] = Tag("end", 1)
        /\ tags'[Len(tags) + 2] = Tag("start", 2)
    BY <1>1, <2>1, TwoTagsAppended
  <2>3. Len(tags) = 2 * n - 1
    BY <1>2, <1>8 DEF IInv, TagsOfFrames
  <2> QED  BY <2>1, <2>2, <2>3
<1>12. m_n_bytes' \in 0 .. CntRange - 1 /\ m_n_bytes' = (m_cnt' + NBytes) % CntRange /\ m_cnt < CntRange
  <2>1. m_cnt < CntRange
    BY <1>2 DEF IInv, WindowPlace
  <2>2. m_cnt + NBytes \in Nat /\ CntRange \in Nat \ {0}
    <3>1. m_cnt \in Nat
      BY Types
    <3>2. NBytes \in Nat /\ CntRange \in Nat /\ NBytes < CntRange /\ NBytes >= 1
      BY WindowBegins
    <3> QED  BY <3>1, <3>2
  <2>3. (m_cnt + NBytes) % CntRange \in 0 .. CntRange - 1
    BY <2>2
  <2> QED  BY <1>1, <2>1, <2>3 DEF WindowExtended
<1>13. CountsInInput' /\ m_cnt' * SamplesPerSymbol <= pos' /\ symbol_cnt' * SamplesPerSymbol <= pos'
  <2>1. m_cnt' \in Nat /\ m_cnt' <= m_cnt + 1
    BY <1>3, Types, SMTT(60)
  <2>2. 0 * SamplesPerSymbol = 0 /\ 0 <= pos'
    BY <1>6
  <2> QED  BY <1>1, <1>2, <1>3, <2>1, <2>2, WindowInInput DEF CountsInInput
<1>14. Typed'
  <2>1. Len(buffer') <= (NUp + 1) * SamplesPerSymbol
    BY <1>5, <1>6, SMTT(60)
  <2>2. /\ symbol_cnt' \in Nat /\ m_cnt' \in Nat /\ same' \in Nat /\ last_bin' \in Int
        /\ m_detect_second_packet' \in BOOLEAN
    BY <1>1, <1>2, Types
  <2>3. kind' \in {"timeout", "threshold", "sequence"} /\ cnt_padding' \in 0 .. InterFramePadding
        /\ room_kept' \in BOOLEAN /\ passed' \in Seq(Nat)
    BY <1>3, <1>10, Types
  <2> QED  BY <1>2, <1>3, <1>5, <1>8, <1>10, <1>11, <1>12, <1>13, <2>1, <2>2, <2>3, TypedFrom
<1>15. StatesOfKind' /\ EqualInRun' /\ RoomKept' /\ BufferLength' /\ RunBegins'
  BY <1>1, <1>2, <1>3, <1>10
     DEF IInv, StatesOfKind, EqualInRun, RoomKept, BufferLength, RunBegins
<1>16. BufferOfInput'
  <2>1. Coming' + Len(buffer') <= pos'
    BY <1>5, <1>6
  <2> QED  BY <1>3, <1>5, <2>1 DEF BufferOfInput
<1>17. FramesBegun'
  <2>1. ASSUME NEW f \in 1 .. Len(began'), began'[f].at > Len(passed)
        PROVE  began'[f].at = Len(passed) + 1 /\ f = Len(began')
    <3>1. CASE f \in 1 .. n
      <4>1. began'[f] = began[f]
        BY <1>8, <3>1 DEF Grown
      <4> QED  BY <1>2, <1>8, <2>1, <3>1, <4>1 DEF IInv, FramesBegun
    <3>2. CASE f = n + 1
      <4>1. began'[f] = [at |-> Len(passed) + 1, from |-> r]
        BY <1>8, <3>2
      <4> QED  BY <1>8, <3>2, <4>1
    <3> QED  BY <1>8, <3>1, <3>2
  <2> QED  BY <1>3, <1>8, <1>10, <2>1 DEF FramesBegun
<1>18. NextInFrame' /\ PreambleNext'
  <2>1. passed # <<>> => passed[Len(passed)] < Coming'
    BY <1>5 DEF IInv, NextInFrame
  <2>2. ~(Frame'.at <= Len(passed))
    <3>1. Len(passed) \in Nat
      BY Types
    <3> QED  BY <1>9, <3>1
  <2>3. c - r = 0 \/ c - r = -S
    <3>1. r + X = p /\ c + B = p /\ (B = X \/ B = X + S)
      BY <1>6
    <3> QED  BY <3>1
  <2>4. Coming' - Frame'.from \in {-SamplesPerSymbol, 0, SamplesPerSymbol}
    BY <1>5, <1>6, <1>9, <2>3
  <2> QED  BY <1>10, <2>1, <2>2, <2>4 DEF NextInFrame, PreambleNext
<1>19. NothingLostInside' /\ StartsInPreamble'
  <2>1. ASSUME NEW f \in Len(began) + 1 .. Len(began') PROVE began'[f].at = Len(passed) + 1
    <3>1. f = n + 1
      BY <1>8
    <3>2. began'[f] = [at |-> Len(passed) + 1, from |-> r]
      BY <1>8, <3>1
    <3> QED  BY <3>2
  <2> QED  BY <1>8, <1>10, <2>1, PassedKept
<1>20. c - 1 <= LastOf(n)'
  <2>1. PICK w \in 0 .. NBytes : Coming = Frame.from + NUp * SamplesPerSymbol + w * SamplesPerSymbol
    BY <1>2, PlaceFacts
  <2>2. began'[n] = Frame
    BY <1>8 DEF Frame, Grown
  <2>3. PICK g \in Nat, y \in Nat, W \in Nat :
          /\ g = Frame.from /\ y = NBytes * SamplesPerSymbol /\ W = w * SamplesPerSymbol /\ W <= y
    <3>1. w \in Nat /\ NBytes \in Nat /\ w <= NBytes
      BY WindowBegins
    <3>2. w * SamplesPerSymbol <= NBytes * SamplesPerSymbol
      BY <3>1, ProductMono
    <3>3. w * SamplesPerSymbol \in Nat /\ NBytes * SamplesPerSymbol \in Nat
      BY <3>1, Products
    <3> QED  BY <1>2, <3>2, <3>3, FrameTypes
  <2>4. c = g + X + W
    BY <1>6, <2>1, <2>3
  <2>5. LastOf(n)' = g + X + y - 1
    BY <1>2, <1>3, <1>6, <2>2, <2>3 DEF LastOf, WindowLength
  <2> QED  BY <2>3, <2>4, <2>5
<1>21. /\ TaggedRight(t + 1)' /\ EndInside(t + 1)' /\ TaggedRight(t + 2)' /\ EndInside(t + 2)'
  <2>1. (t + 1) % 2 = 0 /\ (t + 1) \div 2 = n /\ (t + 2) % 2 = 1
    <3>1. (2 * n) % 2 = 0 /\ (2 * n) \div 2 = n /\ (2 * n + 1) % 2 = 1
      BY <1>8
    <3>2. t + 1 = 2 * n /\ t + 2 = 2 * n + 1
      BY <1>8, <1>11
    <3> QED  BY <3>1, <3>2
  <2>2. /\ tags'[t + 1].at = L + 2 /\ tags'[t + 1].value = "end"
        /\ (L + 2) - 1 = L + 1 /\ (L + 2) - 2 = L /\ L + 2 \in 2 .. (L + 2) + 1 /\ L + 2 >= 3
    BY <1>10, <1>11, SMTT(60)
  <2>3. t + 1 < Len(tags') /\ n \in 1 .. Len(began')
    BY <1>8, <1>11
  <2>4. TaggedRight(t + 2)' /\ EndInside(t + 2)'
    BY <1>11, <2>1 DEF TaggedRight, EndInside
  <2>5. EndInside(t + 1)'
    BY <1>10, <2>1, <2>2, <2>3 DEF EndInside
  <2>6. TaggedRight(t + 1)'
    <3>1. out'[L + 1] = Pad /\ out'[L] <= LastOf(n)'
      BY <1>10, <1>20
    <3> QED  BY <2>1, <2>2, <2>3, <3>1 DEF TaggedRight
  <2> QED  BY <2>4, <2>5, <2>6
<1>22. FramesTagged' /\ TagsOfFrames'
  <2>1. \A k \in t + 1 .. Len(tags') : k = t + 1 \/ k = t + 2
    BY <1>11
  <2>2. /\ FramesTagged'
        /\ \A k \in 1 .. Len(tags') : EndInside(k)'
        /\ \A k \in 1 .. t : tags'[k].value # "work_done"
    <3>1. \A k \in t + 1 .. Len(tags') : TaggedRight(k)' /\ EndInside(k)'
      BY <1>21, <2>1
    <3> QED  BY <1>1, <1>2, <1>8, <1>10, <1>11, <3>1, MoreTags
  <2>3. \A k \in 1 .. Len(tags') : tags'[k].value # "work_done"
    <3>1. \A k \in 1 .. Len(tags') : k \in 1 .. t \/ k = t + 1 \/ k = t + 2
      BY <1>11
    <3> QED  BY <1>11, <2>2, <3>1
  <2>4. Len(tags') = 2 * Len(began') - 1
    BY <1>8, <1>11
  <2> QED  BY <1>2, <1>3, <2>2, <2>3, <2>4 DEF TagsOfFrames
<1>23. LastWritten' /\ WindowPlace'
  <2>1. pos' = Frame'.from + NUp * SamplesPerSymbol
    BY <1>6, <1>9
  <2> QED  BY <1>3, <1>12, <2>1 DEF LastWritten, WindowPlace
<1> QED  BY <1>13, <1>14, <1>15, <1>16, <1>17, <1>18, <1>19, <1>22, <1>23 DEF IInv

----------------------------------------------------------------------------
(***************************************************************************)
(* The invariant is inductive.                                             *)
(***************************************************************************)

LEMMA OneMore ==
  ASSUME NEW T, NEW s \in Seq(T), NEW x \in T
  PROVE  s \o <<x>> = Append(s, x) /\ s \o <<>> = s
<1>1. s \o <<x>> = Append(s, x)
  OBVIOUS
<1>2. s \o <<>> = s
  OBVIOUS
<1> QED  BY <1>1, <1>2

LEMMA SearchKeeps ==
  ASSUME IInv, NEW next, NEW tag, SearchPreamble(Needed, next, tag),
         UNCHANGED <<kind, timeoutVars, cnt_padding>>,
         \/ kind = "timeout" /\ next = "SEND_PREAMBLE" /\ tag = <<Tag("start", 0)>>
         \/ kind = "threshold" /\ next = "SEND_PREAMBLE" /\ tag = <<>>
         \/ kind = "sequence" /\ next = "SEND_BUFFER" /\ tag = <<>>
  PROVE  IInv'
<1>1. PICK bin \in Bins :
        /\ Searched(bin)
        /\ buffer' = BufferNow(bin)
        /\ \/ /\ CountNow(bin) # Needed
              /\ symbol_cnt' = CountNow(bin)
              /\ same' = SameNow(bin)
              /\ UNCHANGED <<m_state, tags, began>>
           \/ /\ CountNow(bin) = Needed
              /\ symbol_cnt' = 0
              /\ same' = 0
              /\ m_state' = next
              /\ tags' = tags \o tag
              /\ began' = Append(began, Beginning(bin))
  BY DEF SearchPreamble
<1>2. /\ m_state = "FIND_PREAMBLE" /\ HasSymbol
      /\ pos' = pos + SamplesPerSymbol
      /\ UNCHANGED <<m_cnt, written>>
  BY DEF SearchPreamble
<1>3. CASE CountNow(bin) # Needed
  <2>1. /\ symbol_cnt' = CountNow(bin) /\ same' = SameNow(bin)
        /\ UNCHANGED <<m_state, tags, began>>
    BY <1>1, <1>3, Zenon
  <2> QED  BY <1>1, <1>2, <1>3, <2>1, SearchOnKeeps, Zenon
<1>4. CASE CountNow(bin) = Needed
  <2>1. /\ symbol_cnt' = 0 /\ same' = 0 /\ m_state' = next /\ tags' = tags \o tag
        /\ began' = Append(began, Beginning(bin))
    BY <1>1, <1>4, Zenon
  <2>2. tags \o <<Tag("start", 0)>> = Append(tags, Tag("start", 0)) /\ tags \o <<>> = tags
    <3>1. Tag("start", 0) \in TagSet /\ tags \in Seq(TagSet)
      <4>1. Len(out) + 1 + 0 \in Nat
        BY Types
      <4> QED  BY <4>1, Types DEF Tag, TagSet
    <3> QED  BY <3>1, OneMore
  <2>3. \/ /\ kind = "timeout" /\ m_state' = "SEND_PREAMBLE"
           /\ tags' = Append(tags, Tag("start", 0))
        \/ kind = "threshold" /\ m_state' = "SEND_PREAMBLE" /\ tags' = tags
        \/ kind = "sequence" /\ m_state' = "SEND_BUFFER" /\ tags' = tags
    BY <2>1, <2>2, Zenon
  <2> QED  BY <1>1, <1>2, <1>4, <2>1, <2>3, SearchFoundKeeps, Zenon
<1> QED  BY <1>3, <1>4

LEMMA TimeoutKeeps ==
  ASSUME IInv, TimeoutWork, UNCHANGED <<kind, cnt_padding>>
  PROVE  IInv'
<1>1. CASE TimeoutSearch
  <2>1. /\ kind = "timeout" /\ Needed = NUp
        /\ SearchPreamble(NUp, "SEND_PREAMBLE", <<Tag("start", 0)>>)
        /\ UNCHANGED <<kind, timeoutVars, cnt_padding>>
    BY <1>1 DEF TimeoutSearch, Needed
  <2> QED  BY <2>1, SearchKeeps, Zenon
<1>2. CASE TimeoutPreamble
  <2>1. /\ kind = "timeout" /\ kind # "sequence"
        /\ SendBuffer("SEND_PREAMBLE", "SEND_FRAME")
        /\ UNCHANGED <<kind, timeoutVars, cnt_padding>>
    BY <1>2 DEF TimeoutPreamble
  <2> QED  BY <2>1, SendBufferKeeps, Zenon
<1>3. CASE TimeoutQuarter
  BY <1>3, TimeoutQuarterKeeps
<1>4. CASE TimeoutSymbol
  BY <1>4, TimeoutSymbolKeeps
<1>5. CASE TimeoutEnd
  BY <1>5, TimeoutEndKeeps
<1>6. CASE SecondPacket
  BY <1>6, SecondPacketKeeps
<1>7. CASE SecondKeeps
  BY <1>7, SecondKeepsKeeps
<1>8. CASE SecondSymbol
  BY <1>8, SecondSymbolKeeps
<1>9. CASE SecondEnd
  BY <1>9, SecondEndKeeps
<1> QED  BY <1>1, <1>2, <1>3, <1>4, <1>5, <1>6, <1>7, <1>8, <1>9 DEF TimeoutWork

LEMMA ThresholdKeeps ==
  ASSUME IInv, ThresholdWork, UNCHANGED <<kind, timeoutVars>>
  PROVE  IInv'
<1>1. CASE ThresholdSearch
  <2>1. /\ kind = "threshold" /\ Needed = NUp
        /\ SearchPreamble(NUp, "SEND_PREAMBLE", <<>>)
        /\ UNCHANGED <<kind, timeoutVars, cnt_padding>>
    BY <1>1 DEF ThresholdSearch, Needed
  <2> QED  BY <2>1, SearchKeeps, Zenon
<1>2. CASE ThresholdPreamble
  <2>1. /\ kind = "threshold" /\ kind # "sequence"
        /\ SendBuffer("SEND_PREAMBLE", "SEND_FRAME")
        /\ UNCHANGED <<kind, timeoutVars, cnt_padding>>
    BY <1>2 DEF ThresholdPreamble
  <2> QED  BY <2>1, SendBufferKeeps, Zenon
<1>3. CASE ThresholdSymbol
  BY <1>3, ThresholdSymbolKeeps
<1>4. CASE PowerFalls
  BY <1>4, PowerFallsKeeps
<1>5. CASE ThresholdPadding
  BY <1>5, ThresholdPaddingKeeps
<1>6. CASE ThresholdEnd
  BY <1>6, ThresholdEndKeeps
<1> QED  BY <1>1, <1>2, <1>3, <1>4, <1>5, <1>6 DEF ThresholdWork

LEMMA SequenceKeeps ==
  ASSUME IInv, SequenceWork, UNCHANGED <<kind, timeoutVars, cnt_padding>>
  PROVE  IInv'
<1>1. CASE SequenceSearch
  <2>1. /\ kind = "sequence" /\ Needed = NUp - 1
        /\ SearchPreamble(NUp - 1, "SEND_BUFFER", <<>>)
        /\ UNCHANGED <<kind, timeoutVars, cnt_padding>>
    BY <1>1 DEF SequenceSearch, Needed
  <2> QED  BY <2>1, SearchKeeps, Zenon
<1>2. CASE SequenceBuffer
  <2>1. /\ kind = "sequence" /\ SendBuffer("SEND_BUFFER", "SEND_PREAMBLE")
        /\ UNCHANGED <<kind, timeoutVars, cnt_padding>>
    BY <1>2 DEF SequenceBuffer
  <2> QED  BY <2>1, SendBufferKeeps, Zenon
<1>3. CASE SequenceQuarter
  BY <1>3, SequenceQuarterKeeps
<1>4. CASE SequenceSymbol
  BY <1>4, SequenceSymbolKeeps
<1>5. CASE SequenceEnd
  BY <1>5, SequenceEndKeeps
<1> QED  BY <1>1, <1>2, <1>3, <1>4, <1>5 DEF SequenceWork

LEMMA UnchangedIInv == IInv /\ UNCHANGED vars => IInv'
<1> SUFFICES ASSUME IInv, UNCHANGED vars PROVE IInv'
  OBVIOUS
<1>1. /\ UNCHANGED <<kind, pos, m_state, bin_idx, symbol_cnt, m_cnt, buffer, tags, out, passed, room_kept>>
      /\ UNCHANGED <<run, same, last_bin, began, m_detect_second_packet, m_n_bytes, cnt_padding>>
  BY DEF vars, detectorVars, written, history, timeoutVars
<1>2. /\ Coming' = Coming /\ Frame' = Frame /\ Needed' = Needed /\ HasSymbol' = HasSymbol
      /\ SecondMode' = SecondMode /\ Searching' = Searching /\ Flushing' = Flushing
  BY <1>1 DEF Coming, Frame, Needed, HasSymbol, SecondMode, Searching, Flushing
<1>3. Typed' /\ StatesOfKind' /\ CountsInInput'
  BY <1>1 DEF IInv, Typed, TypeOK, StatesOfKind, CountsInInput
<1>4. BufferOfInput' /\ BufferLength' /\ RunBegins' /\ EqualInRun' /\ RoomKept'
  BY <1>1, <1>2 DEF IInv, BufferOfInput, BufferLength, RunBegins, EqualInRun, RoomKept
<1>5. FramesBegun' /\ NextInFrame' /\ NothingLostInside' /\ PreambleNext' /\ StartsInPreamble'
  BY <1>1, <1>2 DEF IInv, FramesBegun, NextInFrame, NothingLostInside, PreambleNext, StartsInPreamble
<1>6. TagsOfFrames' /\ FramesTagged'
  BY <1>1, <1>2 DEF IInv, TagsOfFrames, EndInside, FramesTagged, TaggedRight, LastOf, WindowLength
<1>7. LastWritten' /\ WindowPlace'
  BY <1>1, <1>2 DEF IInv, LastWritten, WindowPlace
<1> QED  BY <1>3, <1>4, <1>5, <1>6, <1>7 DEF IInv

LEMMA NextIInv == IInv /\ [Next]_vars => IInv'
<1> SUFFICES ASSUME IInv, [Next]_vars PROVE IInv'
  OBVIOUS
<1>1. CASE TimeoutStep
  BY <1>1, TimeoutKeeps DEF TimeoutStep
<1>2. CASE ThresholdStep
  BY <1>2, ThresholdKeeps DEF ThresholdStep
<1>3. CASE SequenceStep
  BY <1>3, SequenceKeeps DEF SequenceStep
<1>4. CASE DoneStep
  BY <1>4, WorkDoneKeeps DEF DoneStep
<1>5. CASE UNCHANGED vars
  BY <1>5, UnchangedIInv
<1> QED  BY <1>1, <1>2, <1>3, <1>4, <1>5 DEF Next

----------------------------------------------------------------------------
(***************************************************************************)
(* The counts, the buffer and the histories stay consistent: what is       *)
(* passed on next follows what was passed on, the buffer ends at the read  *)
(* position, and in the window of a frame m_cnt tells, modulo the range of *)
(* m_cnt, how far behind its preamble the next item lies.                  *)
(***************************************************************************)
THEOREM DetectorsInvariant == Spec => []IInv
<1>1. Init => IInv
  BY InitIInv
<1>2. IInv /\ [Next]_vars => IInv'
  BY NextIInv
<1> QED  BY <1>1, <1>2, PTL DEF Spec

(***************************************************************************)
(* The buffer never outgrows a preamble and a symbol, and no counter runs  *)
(* ahead of the input.                                                     *)
(***************************************************************************)
THEOREM DetectorsTypes == Spec => []TypeOK
<1>1. IInv => TypeOK
  BY DEF IInv, Typed
<1> QED  BY <1>1, DetectorsInvariant, PTL

(***************************************************************************)
(* Inside a frame no item is lost or repeated, whichever way the frame     *)
(* ends, however small the pieces are in which the buffer is passed on.    *)
(***************************************************************************)
THEOREM FramesWhole == Spec => []NothingLostInside
<1>1. IInv => NothingLostInside
  BY DEF IInv
<1> QED  BY <1>1, DetectorsInvariant, PTL

(***************************************************************************)
(* Every frame is passed on from its preamble, to one symbol.              *)
(***************************************************************************)
THEOREM FramesFromPreamble == Spec => []StartsInPreamble
<1>1. IInv => StartsInPreamble
  BY DEF IInv
<1> QED  BY <1>1, DetectorsInvariant, PTL

(***************************************************************************)
(* A detector that searches has never seen a whole preamble of equal       *)
(* symbols without beginning a frame, whatever run they came after.  With  *)
(* detect_second_packet the code does forget a run at the end of a window; *)
(* PreambleFound leaves that mode out.                                     *)
(***************************************************************************)
THEOREM PreamblesFound == Spec => []PreambleFound
<1>1. ASSUME IInv PROVE PreambleFound
  <2> SUFFICES ASSUME ~SecondMode PROVE same < Needed
    BY DEF PreambleFound, SecondMode, Needed
  <2>1. same \in Nat /\ symbol_cnt \in Nat /\ Needed \in Nat /\ Needed >= 2
    BY <1>1, Types, NeededFacts
  <2>2. CASE m_state = "FIND_PREAMBLE"
    <3>1. same <= symbol_cnt /\ symbol_cnt < Needed
      BY <1>1, <2>2 DEF IInv, EqualInRun, RunBegins, Searching
    <3> QED  BY <2>1, <3>1
  <2>3. CASE m_state # "FIND_PREAMBLE"
    <3>1. same = 0
      BY <1>1, <2>3 DEF IInv, EqualInRun
    <3> QED  BY <2>1, <3>1
  <2> QED  BY <2>2, <2>3
<1> QED  BY <1>1, DetectorsInvariant, PTL

(***************************************************************************)
(* No call of frame_detector_timeout writes more than it is offered.       *)
(***************************************************************************)
THEOREM RoomAlwaysKept == Spec => []RoomKept
<1>1. IInv => RoomKept
  BY DEF IInv
<1> QED  BY <1>1, DetectorsInvariant, PTL

(***************************************************************************)
(* The tags of frame_detector_timeout bracket its frames: every window is  *)
(* n_bytes symbols long from its own preamble on, or shorter by a second   *)
(* packet, also after m_cnt has passed its range.                          *)
(***************************************************************************)
THEOREM TagsRight == Spec => []FramesTagged
<1>1. IInv => FramesTagged
  BY DEF IInv
<1> QED  BY <1>1, DetectorsInvariant, PTL
===============================================================================
