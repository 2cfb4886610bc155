----------------------------- MODULE CranProofs -----------------------------
(***************************************************************************)
(* Proofs about Cran for any number and length of frames, any division of  *)
(* the stream into calls of work, any bound on the retries.                *)
(***************************************************************************)
EXTENDS Cran, SequenceTheorems, WellFoundedInduction, TLAPS

----------------------------------------------------------------------------
(***************************************************************************)
(* Sets of numbers and sequences of items.                                 *)
(***************************************************************************)

\* A set of natural numbers that is not empty has a least element.
LEMMA Least ==
  ASSUME NEW T, T \subseteq Nat, T # {}
  PROVE  \E m \in T : \A y \in T : m <= y
<1> DEFINE R == {ss \in Nat \X Nat : ss[1] < ss[2]}
<1>1. IsWellFoundedOn(R, Nat)
  BY NatLessThanWellFounded DEF OpToRel
<1>2. PICK m \in T : \A y \in T : <<y, m>> \notin R
  <2> HIDE DEF R
  <2> QED  BY <1>1, WFMin
<1>3. \A y \in T : m <= y
  <2> SUFFICES ASSUME NEW y \in T PROVE m <= y
    OBVIOUS
  <2>1. <<y, m>> \in Nat \X Nat /\ ~(y < m)
    BY <1>2
  <2> QED  BY <2>1
<1> QED  BY <1>3

\* A bounded one has a greatest.
LEMMA Greatest ==
  ASSUME NEW n \in Nat, NEW T, T \subseteq 0 .. n, T # {}
  PROVE  Max(T) \in T /\ \A y \in T : y <= Max(T)
<1> DEFINE D == {n - x : x \in T}
<1>1. D \subseteq Nat /\ D # {}
  <2>1. \A x \in T : x \in Int /\ 0 <= x /\ x <= n
    OBVIOUS
  <2>2. \A x \in T : n - x \in Nat
    BY <2>1
  <2> QED  BY <2>2
<1>2. PICK m \in D : \A y \in D : m <= y
  BY <1>1, Least
<1>3. PICK x \in T : m = n - x
  OBVIOUS
<1>4. \A y \in T : x >= y
  <2> SUFFICES ASSUME NEW y \in T PROVE x >= y
    OBVIOUS
  <2>1. n - y \in D
    OBVIOUS
  <2>2. n - x <= n - y
    BY <1>2, <1>3, <2>1
  <2> QED  BY <2>2
<1> QED  BY <1>4 DEF Max

LEMMA MinOfTwo ==
  ASSUME NEW a \in Int, NEW b \in Int
  PROVE  Min({a, b}) = IF a <= b THEN a ELSE b
BY DEF Min

\* Items that follow each other.
LEMMA ItemsFacts ==
  ASSUME NEW from \in Nat, NEW n \in Nat
  PROVE  /\ Items(from, n) \in Seq(Nat)
         /\ Len(Items(from, n)) = n
         /\ \A k \in 1 .. n : Items(from, n)[k] = from + k - 1
         /\ n > 0 => Last(Items(from, n)) + 1 = from + n
         /\ \A top \in Nat : from + n <= top + 1 => Items(from, n) \in Seq(0 .. top)
<1>1. Items(from, n) \in Seq(Nat)
  BY DEF Items
<1>2. Len(Items(from, n)) = n /\ \A k \in 1 .. n : Items(from, n)[k] = from + k - 1
  BY DEF Items
<1>3. ASSUME NEW top \in Nat, from + n <= top + 1
      PROVE  Items(from, n) \in Seq(0 .. top)
  BY <1>3 DEF Items
<1> QED  BY <1>1, <1>2, <1>3 DEF Last

LEMMA ItemsJoin ==
  ASSUME NEW from \in Nat, NEW n \in Nat, NEW m \in Nat
  PROVE  Items(from, n) \o Items(from + n, m) = Items(from, n + m)
<1>1. from + n \in Nat /\ n + m \in Nat
  OBVIOUS
<1>2. Items(from, n) \in Seq(Nat) /\ Items(from + n, m) \in Seq(Nat) /\ Items(from, n + m) \in Seq(Nat)
  BY <1>1, ItemsFacts
<1>3. Len(Items(from, n)) = n /\ Len(Items(from + n, m)) = m
  BY <1>1, ItemsFacts
<1>4. Len(Items(from, n) \o Items(from + n, m)) = n + m
  BY <1>2, <1>3, ConcatProperties
<1>5. ASSUME NEW k \in 1 .. n + m
      PROVE  (Items(from, n) \o Items(from + n, m))[k] = Items(from, n + m)[k]
  <2>1. (Items(from, n) \o Items(from + n, m))[k]
          = IF k <= n THEN Items(from, n)[k] ELSE Items(from + n, m)[k - n]
    BY <1>2, <1>3, ConcatProperties
  <2> QED  BY <2>1 DEF Items
<1>6. Len(Items(from, n + m)) = n + m
  BY <1>1, ItemsFacts
<1> QED  BY <1>2, <1>4, <1>5, <1>6, SeqEqual, ConcatProperties

\* The first d items and the rest.
LEMMA ItemsDivided ==
  ASSUME NEW from \in Nat, NEW n \in Nat, NEW d \in Nat
  PROVE  LET m == IF d <= n THEN d ELSE n IN
         /\ PartOfPacket(Items(from, n), d) = Items(from, m)
         /\ PartKept(Items(from, n), d) = Items(from + m, n - m)
<1> DEFINE m == IF d <= n THEN d ELSE n
<1>1. Items(from, n) \in Seq(Nat) /\ Len(Items(from, n)) = n /\ m \in Nat /\ n - m \in Nat
  BY ItemsFacts
<1>2. Min({d, n}) = m
  BY MinOfTwo
<1>3. SubSeq(Items(from, n), 1, m) = Items(from, m)
  BY <1>1, Z3 DEF Items
<1>4. SubSeq(Items(from, n), d + 1, n) = Items(from + m, n - m)
  BY <1>1, Z3 DEF Items
<1> QED  BY <1>1, <1>2, <1>3, <1>4 DEF PartOfPacket, PartKept

----------------------------------------------------------------------------
(***************************************************************************)
(* Where the frames and their tags are.                                    *)
(***************************************************************************)

LEMMA LongestFrame == Max(FrameLens) \in Nat
<1>1. Max(FrameLens) \in FrameLens
  BY SenderAssumption DEF Max
<1> QED  BY <1>1, SenderAssumption

LEMMA LayoutFacts ==
  ASSUME frame_ends \in Layouts
  PROVE  /\ frame_ends \in [1 .. NFrames -> Nat] /\ StartTags \in [1 .. NFrames -> Nat]
         /\ StreamLen \in Nat /\ StreamLen = frame_ends[NFrames] + 1
         /\ StartTags[1] = 0
         /\ \A f \in 1 .. NFrames : StartTags[f] < frame_ends[f]
         /\ \A f \in 1 .. NFrames - 1 : StartTags[f + 1] = frame_ends[f] + 1
<1>1. NFrames \in Nat /\ NFrames > 0 /\ FrameLens \subseteq Nat \ {0}
  BY SenderAssumption
<1>2. NFrames * (Max(FrameLens) + 1) \in Nat
  BY <1>1, LongestFrame
<1>3. frame_ends \in [1 .. NFrames -> Nat]
  BY <1>2 DEF Layouts
<1>4. \A f \in 1 .. NFrames : StartAfter(frame_ends, f) \in Nat
  BY <1>3, <1>1 DEF StartAfter
<1>5. StartTags \in [1 .. NFrames -> Nat]
  BY <1>4 DEF StartTags
<1>6. \A f \in 1 .. NFrames : StartTags[f] < frame_ends[f]
  <2> SUFFICES ASSUME NEW f \in 1 .. NFrames PROVE StartTags[f] < frame_ends[f]
    OBVIOUS
  <2>1. frame_ends[f] - StartAfter(frame_ends, f) \in FrameLens
    BY DEF Layouts
  <2>2. StartTags[f] = StartAfter(frame_ends, f)
    BY DEF StartTags
  <2> QED  BY <1>1, <1>3, <1>4, <2>1, <2>2
<1>7. StreamLen \in Nat /\ StreamLen = frame_ends[NFrames] + 1
  BY <1>1, <1>3 DEF StreamLen
<1>8. StartTags[1] = 0
  BY <1>1 DEF StartTags, StartAfter
<1>9. \A f \in 1 .. NFrames - 1 : StartTags[f + 1] = frame_ends[f] + 1
  BY <1>1, <1>3 DEF StartTags, StartAfter
<1> QED  BY <1>3, <1>5, <1>6, <1>7, <1>8, <1>9

\* A sequence of numbers each less than the next is increasing.
LEMMA Increasing ==
  ASSUME NEW n \in Nat, NEW t \in [1 .. n -> Nat], \A f \in 1 .. n - 1 : t[f] < t[f + 1]
  PROVE  \A f, g \in 1 .. n : f < g => t[f] < t[g]
<1> SUFFICES ASSUME NEW f \in 1 .. n, NEW h \in 1 .. n, f < h, ~(t[f] < t[h])
             PROVE  FALSE
  OBVIOUS
<1> DEFINE B == {g \in 1 .. n : f < g /\ ~(t[f] < t[g])}
<1>1. PICK m \in B : \A y \in B : m <= y
  <2>1. B \subseteq Nat /\ h \in B
    OBVIOUS
  <2> HIDE DEF B
  <2> QED  BY <2>1, Least
<1>2. m - 1 \in 1 .. n - 1 /\ t[m - 1] < t[m] /\ m - 1 >= f
  <2>1. m - 1 \in 1 .. n - 1 /\ m - 1 >= f
    OBVIOUS
  <2>2. t[m - 1] < t[(m - 1) + 1]
    BY <2>1
  <2> QED  BY <2>1, <2>2
<1>3. ~(m - 1 \in B)
  BY <1>1
<1>4. t[f] <= t[m - 1]
  BY <1>2, <1>3
<1> QED  BY <1>2, <1>4

TagSequence(t) ==
  t \in [1 .. NFrames -> Nat] /\ \A f, g \in 1 .. NFrames : f < g => t[f] < t[g]

LEMMA TagsIncrease ==
  ASSUME frame_ends \in Layouts
  PROVE  TagSequence(frame_ends) /\ TagSequence(StartTags)
<1>1. NFrames \in Nat
  BY SenderAssumption
<1>2. \A f \in 1 .. NFrames - 1 : f + 1 \in 1 .. NFrames /\ f \in 1 .. NFrames
  BY <1>1
<1>3. \A f \in 1 .. NFrames - 1 :
        frame_ends[f] < frame_ends[f + 1] /\ StartTags[f] < StartTags[f + 1]
  BY <1>1, <1>2, LayoutFacts, SMTT(60)
<1>4. TagSequence(frame_ends)
  BY <1>1, <1>3, LayoutFacts, Increasing DEF TagSequence
<1>5. TagSequence(StartTags)
  BY <1>1, <1>3, LayoutFacts, Increasing DEF TagSequence
<1> QED  BY <1>4, <1>5

LEMMA BeforeFacts ==
  ASSUME NEW t, TagSequence(t), NEW at \in Nat
  PROVE  /\ Before(t, at) \in 0 .. NFrames
         /\ \A f \in 1 .. NFrames : f <= Before(t, at) <=> t[f] < at
<1> DEFINE B == {0} \cup {f \in 1 .. NFrames : t[f] < at}
<1>1. NFrames \in Nat
  BY SenderAssumption
<1>2. B \subseteq 0 .. NFrames /\ B # {}
  BY <1>1
<1>3. Max(B) \in B /\ \A y \in B : y <= Max(B)
  BY <1>1, <1>2, Greatest
<1>4. Before(t, at) = Max(B)
  BY DEF Before
<1> HIDE DEF B
<1>5. ASSUME NEW f \in 1 .. NFrames, f <= Max(B)
      PROVE  t[f] < at
  <2>1. Max(B) \in 1 .. NFrames /\ t[Max(B)] < at
    BY <1>1, <1>2, <1>3, <1>5 DEF B
  <2>2. f < Max(B) => t[f] < t[Max(B)]
    BY <2>1 DEF TagSequence
  <2>3. t[f] \in Nat /\ t[Max(B)] \in Nat
    BY <2>1 DEF TagSequence
  <2>4. CASE f = Max(B)  BY <2>1, <2>4
  <2>5. CASE f < Max(B)  BY <2>1, <2>2, <2>3, <2>5
  <2> QED  BY <1>1, <1>5, <2>1, <2>4, <2>5
<1>6. ASSUME NEW f \in 1 .. NFrames, t[f] < at
      PROVE  f <= Max(B)
  BY <1>3, <1>6 DEF B
<1> QED  BY <1>2, <1>3, <1>4, <1>5, <1>6

\* The tags that a call of work reads continue those known.
LEMMA TagsJoin ==
  ASSUME NEW t, TagSequence(t), NEW n \in Nat, offset \in Nat,
         NEW p \in Nat, p <= Before(t, offset)
  PROVE  /\ Before(t, offset) <= Before(t, offset + n)
         /\ SubSeq(t, p + 1, Before(t, offset)) \o TagsRead(t, n)
              = SubSeq(t, p + 1, Before(t, offset + n))
<1> DEFINE a == Before(t, offset)
           b == Before(t, offset + n)
<1>1. NFrames \in Nat /\ a \in 0 .. NFrames /\ b \in 0 .. NFrames
  BY SenderAssumption, BeforeFacts
<1>2. a <= b
  <2>1. CASE a = 0  BY <1>1, <2>1
  <2>2. CASE a > 0
    <3>1. a \in 1 .. NFrames
      BY <1>1, <2>2
    <3>2. t[a] < offset /\ t[a] \in Nat
      <4>1. t[a] < offset
        <5>1. a <= Before(t, offset)
          BY <1>1
        <5> HIDE DEF a
        <5> QED  BY <3>1, <5>1, BeforeFacts
      <4> QED  BY <3>1, <4>1 DEF TagSequence
    <3>3. offset + n \in Nat /\ t[a] < offset + n
      BY <3>2
    <3> QED  BY <3>1, <3>3, BeforeFacts
  <2> QED  BY <1>1, <2>1, <2>2
<1>3. t \in Seq(Nat) /\ Len(t) = NFrames
  BY <1>1 DEF TagSequence
<1>4. p + 1 \in 1 .. Len(t) + 1 /\ a \in (p + 1) - 1 .. Len(t) /\ b \in a .. Len(t)
  BY <1>1, <1>2, <1>3
<1>5. SubSeq(t, p + 1, a) \o SubSeq(t, a + 1, b) = SubSeq(t, p + 1, b)
  <2> HIDE DEF a, b
  <2> QED  BY <1>3, <1>4, ConcatAdjacentSubSeq
<1> QED  BY <1>2, <1>5 DEF TagsRead

\* The first of the tags known, and those behind it.
LEMMA FirstTagKnown ==
  ASSUME NEW t, TagSequence(t), NEW at \in Nat, NEW p \in Nat,
         SubSeq(t, p + 1, Before(t, at)) # <<>>
  PROVE  /\ p + 1 \in 1 .. NFrames /\ p + 1 <= Before(t, at) /\ t[p + 1] < at
         /\ SubSeq(t, p + 1, Before(t, at))[1] = t[p + 1]
         /\ Tail(SubSeq(t, p + 1, Before(t, at))) = SubSeq(t, p + 2, Before(t, at))
<1> DEFINE b == Before(t, at)
<1>1. NFrames \in Nat /\ b \in 0 .. NFrames
  BY SenderAssumption, BeforeFacts
<1>2. t \in Seq(Nat) /\ Len(t) = NFrames
  BY <1>1 DEF TagSequence
<1>3. p + 1 <= b
  BY <1>1, SubSeqEmpty
<1>4. p + 1 \in 1 .. NFrames
  BY <1>1, <1>3
<1>5. t[p + 1] < at
  BY <1>3, <1>4, BeforeFacts
<1>6. /\ Head(SubSeq(t, p + 1, b)) = t[p + 1]
      /\ Tail(SubSeq(t, p + 1, b)) = SubSeq(t, (p + 1) + 1, b)
  <2>1. p + 1 \in 1 .. Len(t) /\ b \in p + 1 .. Len(t)
    BY <1>1, <1>2, <1>3, <1>4
  <2> HIDE DEF b
  <2> QED  BY <1>2, <2>1, HeadTailOfSubSeq
<1>7. (p + 1) + 1 = p + 2 /\ \A q \in Seq(Nat) : q # <<>> => Head(q) = q[1]
  OBVIOUS
<1>8. SubSeq(t, p + 1, b) \in Seq(Nat)
  <2>1. \A i \in p + 1 .. b : t[i] \in Nat
    BY <1>1, <1>2
  <2> HIDE DEF b
  <2> QED  BY <1>1, <2>1, SubSeqProperties
<1> HIDE DEF b
<1>9. /\ SubSeq(t, p + 1, b)[1] = t[p + 1]
      /\ Tail(SubSeq(t, p + 1, b)) = SubSeq(t, p + 2, b)
  <2>1. SubSeq(t, p + 1, b) # <<>>
    BY DEF b
  <2> QED  BY <1>6, <1>7, <1>8, <2>1
<1> QED  BY <1>3, <1>4, <1>5, <1>9 DEF b

----------------------------------------------------------------------------
(***************************************************************************)
(* The buffers of frame_sender: the invariant.                             *)
(***************************************************************************)

Base == offset - Len(buffer)   \* offset of the first item in buffer
NCut == Len(packets)
Within == 0 .. StreamLen

SenderTypes ==
  /\ frame_ends \in Layouts /\ mode \in Modes
  /\ offset \in Within
  /\ packets \in Seq(Seq(Nat))
  /\ buffer \in Seq(Within) /\ old_buffer \in Seq(Within) /\ data \in Seq(Within)

\* Packets and buffers divide what was read of the stream.
BuffersInOrder ==
  /\ \A k \in 0 .. NCut : CutAfter(k) \in Nat
  /\ \A k \in 1 .. NCut :
       /\ CutAfter(k - 1) < CutAfter(k)
       /\ packets[k] = Items(CutAfter(k - 1), CutAfter(k) - CutAfter(k - 1))
  /\ CutAfter(NCut) <= Base
  /\ old_buffer = Items(CutAfter(NCut), Base - CutAfter(NCut))
  /\ buffer = Items(Base, Len(buffer))

\* The tags kept are those read of the frames not yet cut; no cut was made
\* before the tag of its frame, so the buffer begins behind that frame.
TagsKept(t, index) ==
  /\ NCut <= Before(t, offset)
  /\ index = SubSeq(t, NCut + 1, Before(t, offset))

TagsInOrder ==
  /\ TagsKept(StartTags, start_index) /\ TagsKept(frame_ends, end_index)
  /\ NCut < NFrames => StartTags[NCut + 1] <= Base

BufferInv == SenderTypes /\ BuffersInOrder /\ TagsInOrder

LEMMA PacketAppended ==
  ASSUME packets \in Seq(Seq(Nat)), NEW from \in Nat, NEW n \in Nat, n > 0,
         NEW p, p = NCut, packets' = Append(packets, Items(from, n))
  PROVE  /\ packets' \in Seq(Seq(Nat)) /\ NCut' = p + 1 /\ p \in Nat
         /\ packets'[p + 1] = Items(from, n)
         /\ \A k \in 1 .. p : packets'[k] = packets[k]
         /\ \A k \in 0 .. p : CutAfter(k)' = CutAfter(k)
         /\ CutAfter(p + 1)' = from + n
<1>1. Items(from, n) \in Seq(Nat) /\ Len(Items(from, n)) = n /\ Last(Items(from, n)) + 1 = from + n
  BY ItemsFacts
<1>2. p \in Nat
  BY DEF NCut
<1>3. /\ packets' \in Seq(Seq(Nat)) /\ NCut' = p + 1
      /\ packets'[p + 1] = Items(from, n)
      /\ \A k \in 1 .. p : packets'[k] = packets[k]
  BY <1>1, AppendProperties DEF NCut
<1>4. \A k \in 0 .. p : CutAfter(k)' = CutAfter(k)
  <2> SUFFICES ASSUME NEW k \in 0 .. p PROVE CutAfter(k)' = CutAfter(k)
    OBVIOUS
  <2>1. CASE k = 0  BY <2>1 DEF CutAfter
  <2>2. CASE k # 0
    <3>1. k \in 1 .. p
      BY <1>2, <2>2
    <3>2. packets'[k] = packets[k]
      BY <1>3, <3>1
    <3> QED  BY <2>2, <3>2 DEF CutAfter
  <2> QED  BY <2>1, <2>2
<1>5. CutAfter(p + 1)' = from + n
  <2>1. p + 1 # 0 /\ packets'[p + 1] # <<>>
    BY <1>1, <1>2, <1>3
  <2> QED  BY <1>1, <1>3, <2>1 DEF CutAfter
<1> QED  BY <1>2, <1>3, <1>4, <1>5

\* What a call of work finds when it has read n items.
LEMMA ItemsRead ==
  ASSUME BufferInv, NEW n \in Nat, n > 0, offset + n <= StreamLen
  PROVE  /\ Base \in Nat /\ NCut \in Nat /\ offset \in Nat /\ StreamLen \in Nat /\ Len(buffer) \in Nat
         /\ buffer \o Items(offset, n) = Items(Base, Len(buffer) + n)
         /\ \A t \in {StartTags, frame_ends} :
              /\ TagSequence(t)
              /\ Before(t, offset) <= Before(t, offset + n)
              /\ Before(t, offset) \in Nat /\ Before(t, offset + n) \in Nat
         /\ start_index \o TagsRead(StartTags, n)
              = SubSeq(StartTags, NCut + 1, Before(StartTags, offset + n))
         /\ end_index \o TagsRead(frame_ends, n)
              = SubSeq(frame_ends, NCut + 1, Before(frame_ends, offset + n))
<1>1. StreamLen \in Nat
  BY LayoutFacts DEF BufferInv, SenderTypes
<1>2. offset \in Nat /\ Len(buffer) \in Nat /\ NCut \in Nat
  BY <1>1 DEF BufferInv, SenderTypes, Within, NCut
<1>3. Base \in Nat
  <2>1. CutAfter(NCut) \in Nat /\ CutAfter(NCut) <= Base
    BY <1>2 DEF BufferInv, BuffersInOrder
  <2>2. Base \in Int
    BY <1>2 DEF Base
  <2> QED  BY <2>1, <2>2
<1>4. buffer \o Items(offset, n) = Items(Base, Len(buffer) + n)
  <2>1. buffer = Items(Base, Len(buffer))
    BY DEF BufferInv, BuffersInOrder
  <2>2. Base + Len(buffer) = offset
    BY <1>2 DEF Base
  <2>3. Items(Base, Len(buffer)) \o Items(Base + Len(buffer), n) = Items(Base, Len(buffer) + n)
    BY <1>2, <1>3, ItemsJoin
  <2> QED  BY <2>1, <2>2, <2>3
<1>5. TagSequence(StartTags) /\ TagSequence(frame_ends)
  BY TagsIncrease DEF BufferInv, SenderTypes
<1>6. /\ Before(StartTags, offset) <= Before(StartTags, offset + n)
      /\ start_index \o TagsRead(StartTags, n)
           = SubSeq(StartTags, NCut + 1, Before(StartTags, offset + n))
  BY <1>2, <1>5, TagsJoin DEF BufferInv, TagsInOrder, TagsKept
<1>7. /\ Before(frame_ends, offset) <= Before(frame_ends, offset + n)
      /\ end_index \o TagsRead(frame_ends, n)
           = SubSeq(frame_ends, NCut + 1, Before(frame_ends, offset + n))
  BY <1>2, <1>5, TagsJoin DEF BufferInv, TagsInOrder, TagsKept
<1>8. \A t \in {StartTags, frame_ends} : Before(t, offset) \in Nat /\ Before(t, offset + n) \in Nat
  <2>1. offset + n \in Nat /\ NFrames \in Nat
    BY <1>2, SenderAssumption
  <2>2. \A t, at : TagSequence(t) /\ at \in Nat => Before(t, at) \in Nat
    BY <2>1, BeforeFacts
  <2> QED  BY <1>2, <1>5, <2>1, <2>2
<1> QED  BY <1>1, <1>2, <1>3, <1>4, <1>5, <1>6, <1>7, <1>8

LEMMA ChunkFits ==
  ASSUME BufferInv, NEW n \in 1 .. Min({MaxChunk, StreamLen - offset})
  PROVE  n \in Nat /\ n > 0 /\ offset + n <= StreamLen
<1>1. StreamLen \in Nat
  BY LayoutFacts DEF BufferInv, SenderTypes
<1>2. offset \in Nat /\ MaxChunk \in Nat
  BY <1>1, SenderAssumption DEF BufferInv, SenderTypes, Within
<1>3. Min({MaxChunk, StreamLen - offset}) =
        IF MaxChunk <= StreamLen - offset THEN MaxChunk ELSE StreamLen - offset
  BY <1>1, <1>2, MinOfTwo
<1>4. Min({MaxChunk, StreamLen - offset}) <= StreamLen - offset
      /\ Min({MaxChunk, StreamLen - offset}) \in Int
  BY <1>1, <1>2, <1>3
<1> QED  BY <1>1, <1>2, <1>4

\* Tags in order, said of the values behind a step.
LEMMA TagsInOrderNext ==
  ASSUME UNCHANGED frame_ends, NEW p, NCut' = p, NEW at, offset' = at, NEW b, Base' = b,
         p <= Before(StartTags, at), p <= Before(frame_ends, at),
         start_index' = SubSeq(StartTags, p + 1, Before(StartTags, at)),
         end_index' = SubSeq(frame_ends, p + 1, Before(frame_ends, at)),
         p < NFrames => StartTags[p + 1] <= b
  PROVE  TagsInOrder'
<1>1. StartTags' = StartTags
  BY DEF StartTags
<1>2. TagsKept(StartTags, start_index)'
  BY <1>1 DEF TagsKept, Before
<1>3. TagsKept(frame_ends, end_index)'
  BY DEF TagsKept, Before
<1> QED  BY <1>1, <1>2, <1>3 DEF TagsInOrder

\* A call of work that cuts no packet.
LEMMA ReadMore ==
  ASSUME BufferInv, NEW n \in Nat, n > 0, offset + n <= StreamLen,
         UNCHANGED <<frame_ends, mode, old_buffer, data, packets>>,
         offset' = offset + n,
         buffer' = buffer \o Items(offset, n),
         start_index' = start_index \o TagsRead(StartTags, n),
         end_index' = end_index \o TagsRead(frame_ends, n)
  PROVE  BufferInv'
<1>1. /\ Base \in Nat /\ NCut \in Nat /\ offset \in Nat /\ StreamLen \in Nat /\ Len(buffer) \in Nat
      /\ buffer' = Items(Base, Len(buffer) + n)
      /\ \A t \in {StartTags, frame_ends} :
           /\ Before(t, offset) <= Before(t, offset + n)
           /\ Before(t, offset) \in Nat /\ Before(t, offset + n) \in Nat
      /\ start_index' = SubSeq(StartTags, NCut + 1, Before(StartTags, offset + n))
      /\ end_index' = SubSeq(frame_ends, NCut + 1, Before(frame_ends, offset + n))
  BY ItemsRead
<1>2. Len(buffer') = Len(buffer) + n
  <2>1. Len(buffer) + n \in Nat
    BY <1>1
  <2> QED  BY <1>1, <2>1, ItemsFacts
<1>3. Base' = Base /\ NCut' = NCut /\ StreamLen' = StreamLen
  <2>1. (offset + n) - (Len(buffer) + n) = offset - Len(buffer)
    BY <1>1
  <2>2. Base' = Base
    BY <1>2, <2>1 DEF Base
  <2> QED  BY <2>2 DEF NCut, StreamLen
<1>4. SenderTypes'
  <2>1. buffer' \in Seq(Within)
    <3>1. Len(buffer) + n \in Nat /\ Base + (Len(buffer) + n) <= StreamLen + 1
      BY <1>1 DEF Base
    <3> QED  BY <1>1, <3>1, ItemsFacts DEF Within
  <2>2. offset' \in Within
    BY <1>1 DEF Within
  <2>3. Within' = Within /\ Layouts' = Layouts
    BY <1>3 DEF Within, Layouts
  <2> QED  BY <2>1, <2>2, <2>3 DEF BufferInv, SenderTypes
<1>5. BuffersInOrder'
  <2>1. \A k \in 0 .. NCut : CutAfter(k)' = CutAfter(k)
    BY DEF CutAfter
  <2>2. CutAfter(NCut)' = CutAfter(NCut)
    BY DEF CutAfter, NCut
  <2>3. \A k \in 1 .. NCut : CutAfter(k)' = CutAfter(k) /\ CutAfter(k - 1)' = CutAfter(k - 1)
    BY DEF CutAfter
  <2>4. BuffersInOrder
    BY DEF BufferInv
  <2>5. CutAfter(NCut)' <= Base' /\ old_buffer' = Items(CutAfter(NCut)', Base' - CutAfter(NCut)')
    BY <1>3, <2>2, <2>4 DEF BuffersInOrder
  <2>6. buffer' = Items(Base', Len(buffer'))
    BY <1>1, <1>2, <1>3
  <2> QED  BY <1>3, <2>1, <2>3, <2>4, <2>5, <2>6 DEF BuffersInOrder
<1>6. TagsInOrder'
  <2>1. NCut <= Before(StartTags, offset) /\ NCut <= Before(frame_ends, offset)
    BY DEF BufferInv, TagsInOrder, TagsKept
  <2>2. NCut <= Before(StartTags, offset + n)
    BY <1>1, <2>1
  <2>3. NCut <= Before(frame_ends, offset + n)
    BY <1>1, <2>1
  <2>4. NCut < NFrames => StartTags[NCut + 1] <= Base
    BY DEF BufferInv, TagsInOrder
  <2> QED  BY <1>1, <1>3, <2>2, <2>3, <2>4, TagsInOrderNext
<1> QED  BY <1>4, <1>5, <1>6 DEF BufferInv

\* A call of work that cuts a packet: the packet follows the one before, and
\* it reaches to the end of its frame.
LEMMA ReadCut ==
  ASSUME BufferInv, NEW n \in Nat, n > 0, offset + n <= StreamLen,
         UNCHANGED <<frame_ends, mode>>,
         NEW starts, starts = start_index \o TagsRead(StartTags, n), starts # <<>>,
         NEW ends, ends = end_index \o TagsRead(frame_ends, n), ends # <<>>,
         offset' = offset + n,
         data' = old_buffer \o PartOfPacket(buffer \o Items(offset, n), ends[1] - starts[1]),
         old_buffer' = PartKept(buffer \o Items(offset, n), ends[1] - starts[1]),
         buffer' = <<>>,
         start_index' = Tail(starts), end_index' = Tail(ends),
         packets' = Append(packets, data'),
         NEW p, p = NCut
  PROVE  /\ BufferInv'
         /\ p \in Nat /\ p < NFrames /\ NCut' = p + 1
         /\ \A k \in 0 .. p : CutAfter(k)' = CutAfter(k)
         /\ CutAfter(p + 1)' \in frame_ends[p + 1] .. frame_ends[NFrames] + 1
<1>1. Base \in Nat /\ p \in Nat /\ offset \in Nat /\ StreamLen \in Nat /\ Len(buffer) \in Nat
  BY ItemsRead
<1>2. NFrames \in Nat /\ offset + n \in Nat
  BY <1>1, SenderAssumption
<1>3. TagSequence(StartTags) /\ TagSequence(frame_ends)
  BY ItemsRead
<1>4. starts = SubSeq(StartTags, p + 1, Before(StartTags, offset + n))
  BY ItemsRead
<1>5. ends = SubSeq(frame_ends, p + 1, Before(frame_ends, offset + n))
  BY ItemsRead
<1>6. /\ p + 1 \in 1 .. NFrames /\ starts[1] = StartTags[p + 1]
      /\ p + 1 <= Before(StartTags, offset + n)
      /\ start_index' = SubSeq(StartTags, p + 2, Before(StartTags, offset + n))
  <2>1. SubSeq(StartTags, p + 1, Before(StartTags, offset + n)) # <<>>
    BY <1>4
  <2>2. /\ p + 1 \in 1 .. NFrames /\ p + 1 <= Before(StartTags, offset + n)
        /\ SubSeq(StartTags, p + 1, Before(StartTags, offset + n))[1] = StartTags[p + 1]
        /\ Tail(SubSeq(StartTags, p + 1, Before(StartTags, offset + n)))
             = SubSeq(StartTags, p + 2, Before(StartTags, offset + n))
    BY <1>1, <1>2, <1>3, <2>1, FirstTagKnown
  <2> QED  BY <1>4, <2>2
<1>7. /\ ends[1] = frame_ends[p + 1] /\ frame_ends[p + 1] < offset + n
      /\ p + 1 <= Before(frame_ends, offset + n)
      /\ end_index' = SubSeq(frame_ends, p + 2, Before(frame_ends, offset + n))
  <2>1. SubSeq(frame_ends, p + 1, Before(frame_ends, offset + n)) # <<>>
    BY <1>5
  <2>2. /\ p + 1 <= Before(frame_ends, offset + n) /\ frame_ends[p + 1] < offset + n
        /\ SubSeq(frame_ends, p + 1, Before(frame_ends, offset + n))[1] = frame_ends[p + 1]
        /\ Tail(SubSeq(frame_ends, p + 1, Before(frame_ends, offset + n)))
             = SubSeq(frame_ends, p + 2, Before(frame_ends, offset + n))
    BY <1>1, <1>2, <1>3, <2>1, FirstTagKnown, ZenonT(60)
  <2> QED  BY <1>5, <2>2
<1>8. /\ frame_ends \in [1 .. NFrames -> Nat] /\ StartTags \in [1 .. NFrames -> Nat]
      /\ StreamLen = frame_ends[NFrames] + 1
      /\ \A f \in 1 .. NFrames : StartTags[f] < frame_ends[f]
      /\ \A f \in 1 .. NFrames - 1 : StartTags[f + 1] = frame_ends[f] + 1
  BY LayoutFacts DEF BufferInv, SenderTypes
<1> DEFINE diff == ends[1] - starts[1]
           read == Len(buffer) + n
           m == IF diff <= read THEN diff ELSE read
           cut == CutAfter(p)
<1>9. diff \in Nat /\ diff > 0 /\ read \in Nat /\ read > 0 /\ m \in Nat /\ m > 0 /\ m <= read
  <2>1. frame_ends[p + 1] \in Nat /\ StartTags[p + 1] \in Nat /\ StartTags[p + 1] < frame_ends[p + 1]
    BY <1>6, <1>8
  <2>2. diff \in Nat /\ diff > 0
    <3>1. ends[1] = frame_ends[p + 1] /\ starts[1] = StartTags[p + 1]
      BY <1>6, <1>7, Zenon
    <3>2. diff = frame_ends[p + 1] - StartTags[p + 1]
      BY <3>1, SMTT(60)
    <3> HIDE DEF diff
    <3> QED  BY <2>1, <3>2, SMTT(60)
  <2>3. read \in Nat /\ read > 0
    BY <1>1, SMTT(60)
  <2> HIDE DEF diff, read
  <2> QED  BY <2>2, <2>3
<1>10. Base + read = offset + n
  BY <1>1 DEF Base
<1>11. /\ PartOfPacket(buffer \o Items(offset, n), diff) = Items(Base, m)
      /\ old_buffer' = Items(Base + m, read - m)
  <2>1. buffer \o Items(offset, n) = Items(Base, read)
    BY ItemsRead
  <2> HIDE DEF read
  <2>2. /\ PartOfPacket(Items(Base, read), diff) = Items(Base, m)
       /\ PartKept(Items(Base, read), diff) = Items(Base + m, read - m)
    <3> HIDE DEF diff
    <3> QED  BY <1>1, <1>9, ItemsDivided, ZenonT(60)
  <2> QED  BY <2>1, <2>2
<1>12. /\ cut \in Nat /\ cut <= Base /\ old_buffer = Items(cut, Base - cut)
  BY <1>1 DEF BufferInv, BuffersInOrder
<1>13. data' = Items(cut, (Base - cut) + m)
  <2> HIDE DEF cut, m, diff
  <2>1. Base - cut \in Nat /\ cut + (Base - cut) = Base
    BY <1>1, <1>12
  <2>2. Items(cut, Base - cut) \o Items(cut + (Base - cut), m) = Items(cut, (Base - cut) + m)
    BY <1>9, <1>12, <2>1, ItemsJoin, ZenonT(60)
  <2>3. data' = old_buffer \o Items(Base, m)
    BY <1>11 DEF diff
  <2> QED  BY <1>12, <2>1, <2>2, <2>3
<1> HIDE DEF diff, read, m, cut
<1>14. (Base - cut) + m \in Nat /\ (Base - cut) + m > 0 /\ cut + ((Base - cut) + m) = Base + m
  BY <1>1, <1>9, <1>12, SMTT(60)
<1>15. /\ packets' \in Seq(Seq(Nat)) /\ NCut' = p + 1
       /\ packets'[p + 1] = Items(cut, (Base - cut) + m)
       /\ \A k \in 1 .. p : packets'[k] = packets[k]
       /\ \A k \in 0 .. p : CutAfter(k)' = CutAfter(k)
       /\ CutAfter(p + 1)' = Base + m
  <2> DEFINE w == (Base - cut) + m
  <2>1. packets \in Seq(Seq(Nat)) /\ packets' = Append(packets, Items(cut, w))
    BY <1>13 DEF BufferInv, SenderTypes
  <2>2. p = NCut /\ w \in Nat /\ w > 0 /\ cut \in Nat /\ cut + w = Base + m
    BY <1>12, <1>14
  <2> HIDE DEF w
  <2>3. /\ packets' \in Seq(Seq(Nat)) /\ NCut' = p + 1
        /\ packets'[p + 1] = Items(cut, w)
        /\ \A k \in 1 .. p : packets'[k] = packets[k]
        /\ \A k \in 0 .. p : CutAfter(k)' = CutAfter(k)
        /\ CutAfter(p + 1)' = cut + w
    <3>1. packets' \in Seq(Seq(Nat)) /\ NCut' = p + 1
      BY ONLY <2>1, <2>2, PacketAppended
    <3>2. packets'[p + 1] = Items(cut, w)
      BY ONLY <2>1, <2>2, PacketAppended, ZenonT(60)
    <3>3. \A k \in 1 .. p : packets'[k] = packets[k]
      BY ONLY <2>1, <2>2, PacketAppended, ZenonT(60)
    <3>4. CutAfter(p + 1)' = cut + w
      BY ONLY <2>1, <2>2, PacketAppended
    <3>5. \A k \in 0 .. p : CutAfter(k)' = CutAfter(k)
      BY ONLY <2>1, <2>2, PacketAppended
    <3> QED BY <3>1, <3>2, <3>3, <3>4, <3>5
  <2> QED  BY <2>2, <2>3 DEF w
<1>16. Base' = offset + n /\ Len(buffer') = 0 /\ StreamLen' = StreamLen
  BY <1>2 DEF Base, StreamLen
<1>17. SenderTypes'
  <2>1. offset' \in Within
    BY <1>1 DEF Within
  <2>2. data' \in Seq(Within)
    <3>1. cut + ((Base - cut) + m) <= StreamLen + 1
      BY <1>1, <1>2, <1>9, <1>10, <1>14
    <3>2. Items(cut, (Base - cut) + m) \in Seq(0 .. StreamLen)
      BY <1>1, <1>12, <1>14, <3>1, ItemsFacts
    <3> QED  BY <1>13, <3>2 DEF Within
  <2>3. old_buffer' \in Seq(Within)
    <3>1. Base + m \in Nat /\ read - m \in Nat /\ (Base + m) + (read - m) <= StreamLen + 1
      BY <1>1, <1>2, <1>9, <1>10
    <3>2. Items(Base + m, read - m) \in Seq(0 .. StreamLen)
      BY <1>1, <3>1, ItemsFacts
    <3> QED  BY <1>11, <3>2 DEF Within
  <2>4. Within' = Within /\ Layouts' = Layouts
    BY <1>16 DEF Within, Layouts
  <2>5. buffer' \in Seq(Within)
    BY EmptySeq
  <2>6. SenderTypes
    BY DEF BufferInv
  <2> QED  BY <1>15, <2>1, <2>2, <2>3, <2>4, <2>5, <2>6 DEF SenderTypes
<1>18. BuffersInOrder'
  <2>1. \A k \in 0 .. p + 1 : CutAfter(k)' \in Nat
    <3>1. \A k \in 0 .. p : CutAfter(k) \in Nat
      BY DEF BufferInv, BuffersInOrder
    <3>2. Base + m \in Nat
      BY <1>1, <1>9
    <3>3. \A k \in 0 .. p + 1 : k \in 0 .. p \/ k = p + 1
      BY <1>1
    <3> QED  BY <1>15, <3>1, <3>2, <3>3
  <2>2. ASSUME NEW k \in 1 .. p + 1
        PROVE  /\ CutAfter(k - 1)' < CutAfter(k)'
               /\ packets'[k] = Items(CutAfter(k - 1)', CutAfter(k)' - CutAfter(k - 1)')
    <3>1. CASE k = p + 1
      <4>1. CutAfter(k - 1)' = cut
        <5>1. k - 1 = p /\ p \in 0 .. p
          BY <1>1, <3>1
        <5> QED  BY <1>15, <5>1 DEF cut
      <4>2. CutAfter(k)' = Base + m
        BY <1>15, <3>1
      <4>3. (Base + m) - cut = (Base - cut) + m
        BY <1>1, <1>9, <1>12
      <4>4. cut < Base + m
        BY <1>1, <1>9, <1>12
      <4> QED  BY <1>15, <3>1, <4>1, <4>2, <4>3, <4>4
    <3>2. CASE k # p + 1
      <4>1. k \in 1 .. p /\ k \in 0 .. p /\ k - 1 \in 0 .. p
        BY <1>1, <3>2
      <4>2. /\ CutAfter(k - 1) < CutAfter(k)
            /\ packets[k] = Items(CutAfter(k - 1), CutAfter(k) - CutAfter(k - 1))
        BY <4>1 DEF BufferInv, BuffersInOrder
      <4> QED  BY <1>15, <4>1, <4>2
    <3> QED  BY <3>1, <3>2
  <2>3. CutAfter(NCut)' = Base + m
    BY <1>15
  <2>4. Base + m <= Base' /\ old_buffer' = Items(Base + m, Base' - (Base + m))
    <3>1. Base + m <= offset + n /\ read - m = (offset + n) - (Base + m)
      BY <1>1, <1>9, <1>10
    <3> QED  BY <1>11, <1>16, <3>1
  <2>5. buffer' = Items(Base', Len(buffer'))
    BY <1>16 DEF Items
  <2> QED  BY <1>15, <2>1, <2>2, <2>3, <2>4, <2>5 DEF BuffersInOrder
<1>19. TagsInOrder'
  <2>1. p + 1 < NFrames => StartTags[p + 2] <= offset + n
    <3> SUFFICES ASSUME p + 1 < NFrames PROVE StartTags[p + 2] <= offset + n
      OBVIOUS
    <3>1. p + 1 \in 1 .. NFrames - 1 /\ (p + 1) + 1 = p + 2
      BY <1>1, <1>2
    <3>2. StartTags[p + 2] = frame_ends[p + 1] + 1
      BY <1>8, <3>1
    <3> QED  BY <1>2, <1>6, <1>7, <1>8, <3>2, SMTT(60)
  <2>2. (p + 1) + 1 = p + 2
    BY <1>1
  <2> QED  BY <1>6, <1>7, <1>15, <1>16, <2>1, <2>2, TagsInOrderNext
<1>20. Base + m \in frame_ends[p + 1] .. frame_ends[NFrames] + 1
  <2>1. frame_ends[p + 1] \in Nat /\ StartTags[p + 1] \in Nat /\ frame_ends[NFrames] \in Nat
    BY <1>2, <1>6, <1>8
  <2>2. StartTags[p + 1] <= Base
    BY <1>1, <1>2, <1>6 DEF BufferInv, TagsInOrder
  <2>3. Base + m <= frame_ends[NFrames] + 1
    BY <1>1, <1>8, <1>9, <1>10, SMTT(60)
  <2>4. diff = frame_ends[p + 1] - StartTags[p + 1]
    BY <1>6, <1>7 DEF diff
  <2>5. m = diff \/ m = read
    BY DEF m
  <2>6. m = diff => frame_ends[p + 1] <= Base + m
    <3>1. \A e, s, b \in Nat : s <= b => e <= b + (e - s)
      OBVIOUS
    <3>2. frame_ends[p + 1] <= Base + (frame_ends[p + 1] - StartTags[p + 1])
      BY <1>1, <2>1, <2>2, <3>1
    <3> QED  BY <2>4, <3>2
  <2>7. m = read => frame_ends[p + 1] <= Base + m
    BY <1>1, <1>2, <1>7, <1>9, <1>10, <2>1, SMTT(60)
  <2>8. frame_ends[p + 1] <= Base + m
    BY <2>5, <2>6, <2>7
  <2> QED  BY <1>1, <1>9, <2>1, <2>3, <2>8
<1>21. p < NFrames
  BY <1>1, <1>2, <1>6
<1> QED  BY <1>1, <1>15, <1>17, <1>18, <1>19, <1>20, <1>21 DEF BufferInv

\* Both kinds of call.
LEMMA ReadKeeps ==
  ASSUME BufferInv, Read, NEW p, p = NCut
  PROVE  /\ BufferInv' /\ p \in Nat
         /\ \/ UNCHANGED <<packets, send_packet, attempts>>
            \/ /\ send_packet' = TRUE /\ attempts' = 0
               /\ p < NFrames /\ NCut' = p + 1
               /\ \A k \in 0 .. p : CutAfter(k)' = CutAfter(k)
               /\ CutAfter(p + 1)' \in frame_ends[p + 1] .. frame_ends[NFrames] + 1
<1>1. PICK n \in 1 .. Min({MaxChunk, StreamLen - offset}) : ReadItems(n)
  BY DEF Read
<1>2. n \in Nat /\ n > 0 /\ offset + n <= StreamLen
  BY ChunkFits
<1>3. UNCHANGED <<frame_ends, mode>>
  BY DEF Read
<1> DEFINE starts == start_index \o TagsRead(StartTags, n)
           ends   == end_index \o TagsRead(frame_ends, n)
<1>4. CASE starts # <<>> /\ ends # <<>>
  <2>1. /\ offset' = offset + n
        /\ data' = old_buffer \o PartOfPacket(buffer \o Items(offset, n), ends[1] - starts[1])
        /\ old_buffer' = PartKept(buffer \o Items(offset, n), ends[1] - starts[1])
        /\ buffer' = <<>>
        /\ start_index' = Tail(starts) /\ end_index' = Tail(ends)
        /\ packets' = Append(packets, data')
        /\ send_packet' = TRUE /\ attempts' = 0
    BY <1>1, <1>4 DEF ReadItems
  <2> HIDE DEF starts, ends
  <2>2. starts = start_index \o TagsRead(StartTags, n) /\ ends = end_index \o TagsRead(frame_ends, n)
    BY DEF starts, ends
  <2>3. BufferInv' /\ p \in Nat /\ p < NFrames /\ NCut' = p + 1
    BY <1>2, <1>3, <1>4, <2>1, <2>2, ReadCut
  <2>4. \A k \in 0 .. p : CutAfter(k)' = CutAfter(k)
    BY <1>2, <1>3, <1>4, <2>1, <2>2, ReadCut
  <2>5. CutAfter(p + 1)' \in frame_ends[p + 1] .. frame_ends[NFrames] + 1
    BY <1>2, <1>3, <1>4, <2>1, <2>2, ReadCut
  <2> QED  BY <2>1, <2>3, <2>4, <2>5
<1>5. CASE ~(starts # <<>> /\ ends # <<>>)
  <2>1. /\ offset' = offset + n
        /\ buffer' = buffer \o Items(offset, n)
        /\ start_index' = starts /\ end_index' = ends
        /\ UNCHANGED <<old_buffer, data, send_packet, packets, attempts>>
    BY <1>1, <1>5 DEF ReadItems
  <2>2. BufferInv'
    BY <1>2, <1>3, <2>1, ReadMore
  <2>3. p \in Nat
    BY DEF BufferInv, SenderTypes, NCut
  <2> QED  BY <2>1, <2>2, <2>3
<1> QED  BY <1>4, <1>5

LEMMA SameBuffers ==
  ASSUME BufferInv, UNCHANGED <<frame_ends, mode, bufferVars>>
  PROVE  BufferInv'
<1>1. StreamLen' = StreamLen /\ Base' = Base /\ NCut' = NCut /\ Layouts' = Layouts /\ StartTags' = StartTags
  BY DEF bufferVars, StreamLen, Base, NCut, Layouts, StartTags
<1>2. SenderTypes'
  BY <1>1 DEF BufferInv, SenderTypes, Within, bufferVars
<1>3. \A k : CutAfter(k)' = CutAfter(k)
  BY DEF bufferVars, CutAfter
<1>4. BuffersInOrder'
  <2>1. CutAfter(NCut)' = CutAfter(NCut)
    BY DEF CutAfter, NCut, bufferVars
  <2>2. BuffersInOrder
    BY DEF BufferInv
  <2>3. UNCHANGED <<buffer, old_buffer, packets>>
    BY DEF bufferVars
  <2> QED  BY <1>1, <1>3, <2>1, <2>2, <2>3 DEF BuffersInOrder
<1>5. TagsInOrder'
  <2>1. UNCHANGED <<offset, start_index, end_index>> /\ TagsInOrder
    BY DEF bufferVars, BufferInv
  <2>2. TagsKept(StartTags, start_index)'
    BY <1>1, <2>1 DEF TagsInOrder, TagsKept, Before
  <2>3. TagsKept(frame_ends, end_index)'
    BY <1>1, <2>1 DEF TagsInOrder, TagsKept, Before
  <2> QED  BY <1>1, <2>1, <2>2, <2>3 DEF TagsInOrder
<1> QED  BY <1>2, <1>4, <1>5 DEF BufferInv

LEMMA BuffersAtStart ==
  ASSUME SenderInit
  PROVE  BufferInv
<1>1. /\ frame_ends \in Layouts /\ mode \in Modes /\ offset = 0
      /\ buffer = <<>> /\ old_buffer = <<>> /\ data = <<>> /\ start_index = <<>> /\ end_index = <<>>
      /\ packets = <<>>
  BY DEF SenderInit
<1>2. NCut = 0 /\ Base = 0 /\ CutAfter(0) = 0 /\ Items(0, 0) = <<>> /\ Len(buffer) = 0
  <2>1. Items(0, 0) \in Seq(Nat) /\ Len(Items(0, 0)) = 0
    BY ItemsFacts
  <2>2. Items(0, 0) = <<>>
    BY <2>1, EmptySeq
  <2>3. NCut = 0 /\ Len(buffer) = 0
    BY <1>1, EmptySeq DEF NCut
  <2>4. Base = 0
    <3>1. offset = 0
      BY <1>1
    <3> QED  BY <2>3, <3>1 DEF Base
  <2> QED  BY <2>2, <2>3, <2>4 DEF CutAfter
<1>3. StreamLen \in Nat /\ NFrames \in Nat /\ NFrames > 0 /\ StartTags[1] = 0
  BY <1>1, SenderAssumption, LayoutFacts
<1>4. SenderTypes
  BY <1>1, <1>3, EmptySeq DEF SenderTypes, Within
<1>5. BuffersInOrder
  BY <1>1, <1>2 DEF BuffersInOrder
<1>6. ASSUME NEW t, TagSequence(t) PROVE Before(t, 0) = 0
  <2>1. Before(t, 0) \in 0 .. NFrames /\ \A f \in 1 .. NFrames : f <= Before(t, 0) => t[f] < 0
    BY <1>6, BeforeFacts
  <2>2. \A f \in 1 .. NFrames : ~(t[f] < 0)
    BY <1>6 DEF TagSequence
  <2> QED  BY <1>3, <2>1, <2>2
<1>7. TagsInOrder
  <2>1. TagSequence(StartTags) /\ TagSequence(frame_ends)
    BY <1>1, TagsIncrease
  <2>2. Before(StartTags, 0) = 0 /\ Before(frame_ends, 0) = 0
    BY <1>6, <2>1
  <2>3. \A t : SubSeq(t, 1, 0) = <<>>
    BY SubSeqEmpty
  <2> QED  BY <1>1, <1>2, <1>3, <2>2, <2>3 DEF TagsInOrder, TagsKept
<1> QED  BY <1>4, <1>5, <1>7 DEF BufferInv

----------------------------------------------------------------------------
(***************************************************************************)
(* Retries and statistics.                                                 *)
(***************************************************************************)

\* Every send of the packet that is still to be settled was counted in retries.
AttemptInv ==
  /\ sender \in {"work", "waiting", "exited", "failed"}
  /\ send_packet \in BOOLEAN /\ retries \in 0 .. MaxRetries /\ attempts \in Nat
  /\ send_packet => NCut > 0
  /\ ~send_packet => retries = 0
  /\ sender \in {"waiting", "exited"} => Waits /\ send_packet
  /\ sender = "waiting" => retries < MaxRetries
  /\ Waits => attempts <= IF ~send_packet THEN MaxRetries
                          ELSE IF sender = "waiting" THEN retries + 1 ELSE retries

CountInv ==
  /\ num_send \in Nat /\ num_recieved \in Nat /\ num_decoded \in Nat /\ num_error \in Nat
  /\ PacketsCounted

SenderInv == BufferInv /\ AttemptInv /\ CountInv

LEMMA RetriesPositive == MaxRetries \in Nat /\ MaxRetries > 0
BY SenderAssumption

LEMMA SenderAtStart ==
  ASSUME SenderInit
  PROVE  SenderInv
<1>1. BufferInv
  BY BuffersAtStart
<1>2. AttemptInv
  <2>1. sender = "work" /\ send_packet = FALSE /\ retries = 0 /\ attempts = 0
    BY DEF SenderInit
  <2>2. ~send_packet /\ send_packet \in BOOLEAN
    BY <2>1
  <2>3. retries \in 0 .. MaxRetries /\ attempts \in Nat /\ attempts <= MaxRetries
    BY <2>1, RetriesPositive
  <2> QED  BY <2>1, <2>2, <2>3 DEF AttemptInv
<1>3. CountInv
  BY DEF SenderInit, CountInv, PacketsCounted, Settled
<1> QED  BY <1>1, <1>2, <1>3 DEF SenderInv

LEMMA NCutNat ==
  ASSUME BufferInv
  PROVE  NCut \in Nat /\ NCut = Len(packets)
BY DEF BufferInv, SenderTypes, NCut

LEMMA ReadCounts ==
  ASSUME SenderInv, Read
  PROVE  SenderInv'
<1>1. BufferInv /\ AttemptInv /\ CountInv /\ NCut \in Nat
  BY NCutNat DEF SenderInv
<1>2. BufferInv'
  BY <1>1, ReadKeeps
<1>3. /\ sender = "work" /\ ~send_packet /\ retries = 0
      /\ UNCHANGED <<mode, retries, counters, sender>>
  BY <1>1 DEF Read, AttemptInv
<1>4. \/ UNCHANGED <<packets, send_packet, attempts>>
      \/ send_packet' = TRUE /\ attempts' = 0 /\ NCut' = NCut + 1
  BY <1>1, ReadKeeps
<1>5. AttemptInv'
  <2>1. Waits' = Waits
    BY <1>3 DEF Waits
  <2>2. CASE UNCHANGED <<packets, send_packet, attempts>>
    BY <1>1, <1>3, <2>1, <2>2 DEF AttemptInv, NCut
  <2>3. CASE send_packet' = TRUE /\ attempts' = 0 /\ NCut' = NCut + 1
    BY <1>1, <1>3, <2>1, <2>3 DEF AttemptInv
  <2> QED  BY <1>4, <2>2, <2>3
<1>6. Settled' = Settled
  BY <1>1, <1>3, <1>4 DEF Settled, NCut
<1>7. CountInv'
  BY <1>1, <1>3, <1>6 DEF CountInv, PacketsCounted, counters, Waits
<1> QED  BY <1>2, <1>5, <1>7 DEF SenderInv

LEMMA AttemptCounts ==
  ASSUME SenderInv, Attempt
  PROVE  SenderInv'
<1>1. BufferInv /\ AttemptInv /\ CountInv
  BY DEF SenderInv
<1>2. BufferInv'
  BY <1>1, SameBuffers DEF Attempt
<1>3. /\ sender = "work" /\ send_packet /\ retries < MaxRetries
      /\ sender' = IF Waits THEN "waiting" ELSE "work"
      /\ attempts' = attempts + 1
      /\ num_send' = IF Waits /\ mode.debug_mode THEN num_send + 1 ELSE num_send
      /\ UNCHANGED <<mode, packets, send_packet, retries, num_recieved, num_decoded, num_error>>
  BY DEF Attempt, bufferVars
<1>4. Waits' = Waits /\ Settled' = Settled /\ NCut' = NCut
  BY <1>3 DEF Waits, Settled, NCut
<1>5. AttemptInv'
  BY <1>1, <1>3, <1>4, RetriesPositive DEF AttemptInv
<1>6. CountInv'
  BY <1>1, <1>3, <1>4 DEF CountInv, PacketsCounted
<1> QED  BY <1>2, <1>5, <1>6 DEF SenderInv

LEMMA ReplyCounts ==
  ASSUME SenderInv, Reply
  PROVE  SenderInv'
<1>1. BufferInv /\ AttemptInv /\ CountInv /\ NCut \in Nat
  BY NCutNat DEF SenderInv
<1>2. BufferInv'
  BY <1>1, SameBuffers DEF Reply
<1> DEFINE good == mode.debug_mode /\ Head(replies).code # "W_ERROR"
<1>3. /\ sender = "waiting" /\ sender' = "work"
      /\ good => retries' = 0 /\ send_packet' = FALSE
      /\ ~good => retries' = retries + 1 /\ send_packet' = TRUE
      /\ num_recieved' = IF mode.debug_mode THEN num_recieved + 1 ELSE num_recieved
      /\ num_decoded' = IF good THEN num_decoded + 1 ELSE num_decoded
      /\ UNCHANGED <<mode, packets, num_send, num_error, attempts>>
  BY DEF Reply, RetriesAfter, bufferVars
<1>4. Waits /\ send_packet /\ retries < MaxRetries /\ attempts <= retries + 1
  BY <1>1, <1>3 DEF AttemptInv
<1>5. Waits' = Waits /\ NCut' = NCut
  BY <1>3 DEF Waits, NCut
<1>6. good => mode.debug_mode
  OBVIOUS
<1> HIDE DEF good
<1>7. AttemptInv'
  <2>1. CASE good
    <3>1. ~send_packet' /\ send_packet' \in BOOLEAN /\ retries' = 0 /\ sender' = "work"
      BY <1>3, <2>1
    <3>2. attempts' \in Nat /\ attempts' <= MaxRetries /\ retries' \in 0 .. MaxRetries
      BY <1>1, <1>3, <1>4, <3>1, RetriesPositive DEF AttemptInv
    <3> QED  BY <1>5, <3>1, <3>2 DEF AttemptInv
  <2>2. CASE ~good
    BY <1>1, <1>3, <1>4, <1>5, <2>2, RetriesPositive DEF AttemptInv
  <2> QED  BY <2>1, <2>2
<1>8. Settled' = IF good THEN Settled + 1 ELSE Settled
  <2>1. Settled = NCut - 1
    BY <1>4 DEF Settled, NCut
  <2>2. good => Settled' = NCut - 0
    BY <1>3, <1>5 DEF Settled, NCut
  <2>3. ~good => Settled' = NCut - 1
    BY <1>3, <1>5 DEF Settled, NCut
  <2> QED  BY <1>1, <2>1, <2>2, <2>3
<1>9. CountInv'
  <2>1. CASE good
    BY <1>1, <1>3, <1>5, <1>6, <1>8, <2>1 DEF CountInv, PacketsCounted
  <2>2. CASE ~good
    BY <1>1, <1>3, <1>5, <1>8, <2>2 DEF CountInv, PacketsCounted
  <2> QED  BY <2>1, <2>2
<1> QED  BY <1>2, <1>7, <1>9 DEF SenderInv

LEMMA NoReplyCounts ==
  ASSUME SenderInv, NoReply
  PROVE  SenderInv'
<1>1. BufferInv /\ AttemptInv /\ CountInv
  BY DEF SenderInv
<1>2. BufferInv'
  BY <1>1, SameBuffers DEF NoReply
<1>3. /\ sender = "waiting" /\ sender' = "exited" /\ retries' = retries + 1
      /\ UNCHANGED <<mode, packets, send_packet, counters, attempts>>
  BY DEF NoReply, bufferVars
<1>4. Waits' = Waits /\ Settled' = Settled /\ NCut' = NCut
  BY <1>3 DEF Waits, Settled, NCut
<1>5. AttemptInv'
  BY <1>1, <1>3, <1>4, RetriesPositive DEF AttemptInv
<1>6. CountInv'
  BY <1>1, <1>3, <1>4 DEF CountInv, PacketsCounted, counters
<1> QED  BY <1>2, <1>5, <1>6 DEF SenderInv

LEMMA GiveUpCounts ==
  ASSUME SenderInv, GiveUp
  PROVE  SenderInv'
<1>1. BufferInv /\ AttemptInv /\ CountInv /\ NCut \in Nat
  BY NCutNat DEF SenderInv
<1>2. BufferInv'
  BY <1>1, SameBuffers DEF GiveUp
<1>3. /\ sender = "work" /\ retries >= MaxRetries
      /\ UNCHANGED <<mode, packets, num_send, num_recieved, num_decoded, attempts>>
  BY DEF GiveUp, bufferVars
<1>4. send_packet /\ retries \in 0 .. MaxRetries
  BY <1>1, <1>3, RetriesPositive DEF AttemptInv
<1>5. Waits' = Waits /\ NCut' = NCut
  BY <1>3 DEF Waits, NCut
<1>6. CASE mode.debug_mode /\ num_error' = num_error + 1 /\ retries' = 0
             /\ send_packet' = FALSE /\ sender' = sender
  <2>1. AttemptInv'
    <3>1. ~send_packet' /\ send_packet' \in BOOLEAN /\ retries' = 0 /\ sender' = "work"
      BY <1>3, <1>6
    <3>2. attempts \in Nat /\ (Waits => attempts <= MaxRetries)
      BY <1>1, <1>3, <1>4, RetriesPositive DEF AttemptInv
    <3>3. attempts' = attempts /\ retries' \in 0 .. MaxRetries
      BY <1>3, <3>1, RetriesPositive
    <3> QED  BY <1>5, <3>1, <3>2, <3>3 DEF AttemptInv
  <2>2. Settled' = Settled + 1
    BY <1>1, <1>3, <1>4, <1>6 DEF Settled, NCut
  <2>3. CountInv'
    BY <1>1, <1>3, <1>5, <1>6, <2>2 DEF CountInv, PacketsCounted
  <2> QED  BY <1>2, <2>1, <2>3 DEF SenderInv
<1>7. CASE ~mode.debug_mode /\ sender' = "failed" /\ UNCHANGED <<num_error, retries, send_packet>>
  <2>1. AttemptInv'
    BY <1>1, <1>3, <1>4, <1>5, <1>7, RetriesPositive DEF AttemptInv
  <2>2. CountInv'
    BY <1>1, <1>3, <1>7 DEF CountInv, PacketsCounted
  <2> QED  BY <1>2, <2>1, <2>2 DEF SenderInv
<1> QED  BY <1>6, <1>7 DEF GiveUp

LEMMA SameSender ==
  ASSUME SenderInv, UNCHANGED senderVars
  PROVE  SenderInv'
<1>1. BufferInv'
  BY SameBuffers DEF SenderInv, senderVars
<1>2. UNCHANGED <<mode, packets, send_packet, retries, counters, sender, attempts>>
  BY DEF senderVars, bufferVars
<1>3. Waits' = Waits /\ Settled' = Settled /\ NCut' = NCut
  BY <1>2 DEF Waits, Settled, NCut
<1>4. AttemptInv'
  BY <1>2, <1>3 DEF SenderInv, AttemptInv
<1>5. CountInv'
  BY <1>2, <1>3 DEF SenderInv, CountInv, PacketsCounted, counters
<1> QED  BY <1>1, <1>4, <1>5 DEF SenderInv

LEMMA SenderNext ==
  ASSUME SenderInv, [Next]_vars
  PROVE  SenderInv'
<1>1. CASE Sender
  BY <1>1, ReadCounts, AttemptCounts, ReplyCounts, GiveUpCounts DEF Sender, SenderStep
<1>2. CASE Client
  BY <1>2, NoReplyCounts DEF Client
<1>3. CASE Process \/ Decoded \/ Worker \/ UNCHANGED vars
  BY <1>3, SameSender DEF Process, Decoded, Worker, vars
<1> QED  BY <1>1, <1>2, <1>3 DEF Next

LEMMA SenderAlways == Spec => []SenderInv
<1>1. Init => SenderInv
  BY SenderAtStart DEF Init
<1> QED  BY <1>1, SenderNext, PTL DEF Spec

\* Packets and buffers are the stream, nothing missing and nothing twice
\* (frame_sender.work).
THEOREM StreamIsCovered == Spec => []StreamCovered
<1>1. ASSUME SenderInv PROVE StreamCovered
  <2>1. BuffersInOrder /\ NCut = Len(packets) /\ NCut \in Nat
    BY <1>1, NCutNat DEF SenderInv, BufferInv
  <2>2. StreamLen \in Nat
    BY <1>1, LayoutFacts DEF SenderInv, BufferInv, SenderTypes
  <2>3. offset \in Nat /\ Len(buffer) \in Nat
    BY <1>1, <2>2 DEF SenderInv, BufferInv, SenderTypes, Within
  <2> DEFINE last == CutAfter(Len(packets))
  <2>4. /\ last \in Nat /\ last <= Base
       /\ old_buffer = Items(last, Base - last) /\ buffer = Items(Base, Len(buffer))
    BY <2>1 DEF BuffersInOrder
  <2> HIDE DEF last
  <2>5. Base - last \in Nat /\ last + (Base - last) = Base /\ (Base - last) + Len(buffer) = offset - last
    BY <2>3, <2>4 DEF Base
  <2>6. Items(last, Base - last) \o Items(last + (Base - last), Len(buffer))
          = Items(last, (Base - last) + Len(buffer))
    BY <2>3, <2>4, <2>5, ItemsJoin
  <2>7. old_buffer \o buffer = Items(last, offset - last)
    BY <2>4, <2>5, <2>6
  <2> QED  BY <2>1, <2>7 DEF StreamCovered, BuffersInOrder, last
<1> QED  BY <1>1, SenderAlways, PTL

\* With a client that answers no packet is sent more than max_retries times
\* (the loop of frame_sender.work).
THEOREM AttemptsAreBounded == Spec => []AttemptsBounded
<1>1. ASSUME SenderInv PROVE AttemptsBounded
  <2>1. AttemptInv
    BY <1>1 DEF SenderInv
  <2> QED  BY <2>1, RetriesPositive DEF AttemptInv, AttemptsBounded
<1> QED  BY <1>1, SenderAlways, PTL

\* The statistics of debug_mode count every packet and every reply once.
THEOREM PacketsAreCounted == Spec => []PacketsCounted
<1>1. SenderInv => PacketsCounted
  BY DEF SenderInv, CountInv
<1> QED  BY <1>1, SenderAlways, PTL

LEMMA AppendIs ==
  ASSUME NEW S, NEW s \in Seq(S), NEW e \in S
  PROVE  Append(s, e) = [k \in 1 .. Len(s) + 1 |-> IF k = Len(s) + 1 THEN e ELSE s[k]]
<1> DEFINE t == [k \in 1 .. Len(s) + 1 |-> IF k = Len(s) + 1 THEN e ELSE s[k]]
<1>1. Len(s) \in Nat /\ \A k \in 1 .. Len(s) : s[k] \in S
  BY LenProperties, ElementOfSeq
<1>2. t \in Seq(S) /\ Len(t) = Len(s) + 1
  BY <1>1
<1>3. \A k \in 1 .. Len(s) + 1 : Append(s, e)[k] = t[k]
  BY <1>1, AppendProperties
<1>4. Append(s, e) \in Seq(S) /\ Len(Append(s, e)) = Len(s) + 1
  BY AppendProperties
<1> HIDE DEF t
<1>5. Append(s, e) = t
  BY <1>2, <1>3, <1>4, SeqEqual
<1> QED  BY <1>5 DEF t

\* A step that cuts no packet leaves the abstract cuts alone.
LEMMA CutsSame ==
  ASSUME UNCHANGED packets
  PROVE  CutOffsets' = CutOffsets
BY DEF CutOffsets, CutAfter

LEMMA SettledSame ==
  ASSUME UNCHANGED <<packets, send_packet>>
  PROVE  Settled' = Settled
BY DEF Settled

\* A step of frame_sender is a step of PacketService or none.
LEMMA ServiceStep ==
  ASSUME SenderInv, [Next]_vars
  PROVE  [Packets!Cut \/ Packets!Settle]_<<frame_ends, CutOffsets, Settled>>
<1>1. BufferInv /\ AttemptInv /\ NCut \in Nat /\ NCut = Len(packets)
  BY NCutNat DEF SenderInv
<1>2. CutOffsets \in Seq(Nat) /\ Len(CutOffsets) = NCut
  <2>1. \A k \in 1 .. NCut : CutAfter(k) \in Nat
    BY <1>1 DEF BufferInv, BuffersInOrder
  <2> QED  BY <1>1, <2>1 DEF CutOffsets
<1>3. CASE UNCHANGED <<frame_ends, packets, send_packet>>
  BY <1>3, CutsSame, SettledSame
<1>4. ASSUME UNCHANGED <<frame_ends, packets>>, send_packet, send_packet' = FALSE
      PROVE  Packets!Settle
  <2>1. Settled = NCut - 1 /\ Settled' = NCut - 0
    BY <1>1, <1>4 DEF Settled
  <2>2. Settled < Len(CutOffsets) /\ Settled' = Settled + 1
    BY <1>1, <1>2, <2>1
  <2> QED  BY <1>4, <2>2, CutsSame DEF Packets!Settle
<1>5. CASE Read
  <2>1. UNCHANGED frame_ends /\ ~send_packet
    BY <1>5 DEF Read
  <2>2. CASE UNCHANGED <<packets, send_packet, attempts>>
    BY <1>3, <2>1, <2>2
  <2>3. CASE ~UNCHANGED <<packets, send_packet, attempts>>
    <3>1. PICK p : p = NCut
      OBVIOUS
    <3>2. p \in Nat /\ send_packet' = TRUE /\ p < NFrames /\ NCut' = p + 1
      BY <1>1, <1>5, <2>3, <3>1, ReadKeeps
    <3>3. \A k \in 0 .. p : CutAfter(k)' = CutAfter(k)
      BY <1>1, <1>5, <2>3, <3>1, ReadKeeps
    <3>4. CutAfter(p + 1)' \in frame_ends[p + 1] .. frame_ends[NFrames] + 1
      BY <1>1, <1>5, <2>3, <3>1, ReadKeeps
    <3>5. PICK at \in frame_ends[p + 1] .. frame_ends[NFrames] + 1 : at = CutAfter(p + 1)'
      BY <3>4
    <3>6. Len(packets') = p + 1
      BY <3>2 DEF NCut
    <3>7. CutOffsets' = [k \in 1 .. p + 1 |-> CutAfter(k)']
      BY <3>6 DEF CutOffsets
    <3>8. CutOffsets' = Append(CutOffsets, at)
      <4>1. CutOffsets = [k \in 1 .. p |-> CutAfter(k)]
        BY <1>1, <3>1 DEF CutOffsets
      <4>2. \A k \in 1 .. p : CutAfter(k)' = CutOffsets[k]
        BY <3>2, <3>3, <4>1
      <4>3. CutOffsets' = [k \in 1 .. p + 1 |-> IF k = p + 1 THEN at ELSE CutOffsets[k]]
        <5>1. \A k \in 1 .. p + 1 : k # p + 1 => k \in 1 .. p
          BY <3>2
        <5> QED  BY <3>5, <3>7, <4>2, <5>1
      <4>4. Len(CutOffsets) = p
        BY <1>2, <3>1
      <4>5. at \in Nat
        <5>1. frame_ends[p + 1] \in Nat /\ frame_ends[NFrames] \in Nat
          BY <1>1, <3>2, SenderAssumption, LayoutFacts DEF BufferInv, SenderTypes
        <5> QED  BY <5>1
      <4> QED  BY <1>2, <4>3, <4>4, <4>5, AppendIs
    <3>9. Settled = NCut - 0 /\ Settled' = (p + 1) - 1
      BY <1>1, <2>1, <3>2, <3>6 DEF Settled
    <3>10. Settled' = Settled /\ Settled = Len(CutOffsets) /\ Len(CutOffsets) = p
      BY <1>2, <3>1, <3>2, <3>9
    <3>11. Packets!Cut
      BY <2>1, <3>2, <3>5, <3>8, <3>10 DEF Packets!Cut
    <3> QED  BY <3>11
  <2> QED  BY <2>2, <2>3
<1>6. CASE Attempt \/ NoReply
  BY <1>3, <1>6 DEF Attempt, NoReply, bufferVars
<1>7. CASE Reply
  <2>1. /\ send_packet /\ UNCHANGED <<frame_ends, packets>>
       /\ send_packet \in BOOLEAN /\ send_packet' \in BOOLEAN
    BY <1>1, <1>7 DEF AttemptInv, Reply, bufferVars
  <2>2. CASE send_packet'
    BY <1>3, <2>1, <2>2
  <2>3. CASE ~send_packet'
    BY <1>4, <2>1, <2>3
  <2> QED  BY <2>2, <2>3
<1>8. CASE GiveUp
  <2>1. UNCHANGED <<frame_ends, packets>> /\ (send_packet' = FALSE \/ send_packet' = send_packet)
    BY <1>8 DEF GiveUp, bufferVars
  <2>2. send_packet
    <3>1. retries \in 0 .. MaxRetries /\ retries >= MaxRetries
      BY <1>1, <1>8 DEF AttemptInv, GiveUp
    <3> QED  BY <1>1, <3>1, RetriesPositive DEF AttemptInv
  <2> QED  BY <1>3, <1>4, <2>1, <2>2
<1>9. CASE UNCHANGED senderVars
  BY <1>3, <1>9 DEF senderVars, bufferVars
<1> QED  BY <1>5, <1>6, <1>7, <1>8, <1>9
         DEF Next, Sender, SenderStep, Client, Process, Decoded, Worker, vars

\* The sender implements PacketService: each packet reaches the end of its
\* frame, and packets are settled one by one.
THEOREM SenderKeepsPromise == Spec => KeepsPromise
<1>1. Init => Packets!ServiceInit
  <2> SUFFICES ASSUME Init PROVE Packets!ServiceInit
    OBVIOUS
  <2>1. packets = <<>> /\ send_packet = FALSE /\ Len(packets) = 0
    BY EmptySeq DEF Init, SenderInit
  <2>2. Settled = 0
    BY <2>1 DEF Settled
  <2>3. CutOffsets = <<>>
    <3>1. CutOffsets = [k \in 1 .. 0 |-> CutAfter(k)]
      BY <2>1 DEF CutOffsets
    <3> QED  BY <3>1
  <2> QED  BY <2>2, <2>3 DEF Packets!ServiceInit
<1> QED  BY <1>1, ServiceStep, SenderAlways, PTL DEF Spec, KeepsPromise, Packets!Service

----------------------------------------------------------------------------
(***************************************************************************)
(* The worker and its processes.                                           *)
(***************************************************************************)

Request == [id : Nat \ {0}, data : Seq(Nat)]

LinkInv ==
  /\ requests \in Seq(Request)
  /\ replies \in Seq([code : Codes, of : Nat])

ProcessInv ==
  /\ process \in {"none", "starting", "running", "exited"} /\ state \in 0 .. 4
  /\ passed \in Seq(Nat) /\ rx_buffer \in Seq(Nat)
  /\ process = "starting" => state = 0
  /\ process = "exited" => state \in {2, 3}
  /\ state \in {0, 1} => taken = NoPacket /\ passed = <<>> /\ rx_buffer = <<>>
  /\ state \in {2, 3, 4} => taken \in Request
  /\ state \in {2, 3} => passed \o rx_buffer = taken.data
  /\ state = 3 => Len(rx_buffer) < Max(Rooms)

\* If every process took its data, what is in the socket is the data of the
\* request for which the process that runs has not yet taken them.
SocketInv ==
  /\ to_flowgraph \in Seq(Request) /\ to_worker \in Nat
  /\ taken_all \in BOOLEAN
  /\ taken_all /\ taken # NoPacket => taken.id = request /\ to_flowgraph = <<>>
  /\ taken_all /\ taken = NoPacket /\ process = "none" => to_flowgraph = <<>>
  /\ taken_all /\ taken = NoPacket /\ process # "none" =>
       to_flowgraph # <<>> /\ Tail(to_flowgraph) = <<>> /\ Head(to_flowgraph).id = request

RunnerInv ==
  /\ runner \in {"recv", "await", "communicate"} /\ (process = "none" <=> runner = "recv")
  /\ run \in 0 .. RestartAfter
  /\ reply = NoReplyYet \/ reply \in [code : Codes, of : Nat]

WorkerInv == LinkInv /\ ProcessInv /\ SocketInv /\ RunnerInv

LEMMA LargestRoom ==
  ASSUME NEW room \in Rooms
  PROVE  room \in Nat /\ room > 0 /\ Max(Rooms) \in Nat /\ room <= Max(Rooms)
<1>1. Max(Rooms) \in Rooms /\ \A r \in Rooms : r <= Max(Rooms)
  <2>1. PICK largest \in Rooms : \A r \in Rooms : r <= largest
    BY RecieverAssumption
  <2>2. \A r \in Rooms : r \in Int
    BY RecieverAssumption
  <2> QED  BY <2>1, <2>2 DEF Max
<1>2. \A r \in Rooms : r \in Nat /\ r > 0
  BY RecieverAssumption
<1>3. Max(Rooms) \in Nat
  BY <1>1, <1>2
<1> QED  BY <1>1, <1>2, <1>3

LEMMA TakenIsPacket ==
  ASSUME NEW p \in Request
  PROVE  p # NoPacket /\ p.id \in Nat /\ p.data \in Seq(Nat)
BY DEF Request, NoPacket

\* A sequence cut in two is the sequence.
LEMMA CutInTwo ==
  ASSUME NEW S, NEW s \in Seq(S), NEW n \in Nat, n <= Len(s)
  PROVE  /\ SubSeq(s, 1, n) \in Seq(S) /\ SubSeq(s, n + 1, Len(s)) \in Seq(S)
         /\ SubSeq(s, 1, n) \o SubSeq(s, n + 1, Len(s)) = s
<1>1. Len(s) \in Nat /\ \A i \in 1 .. Len(s) : s[i] \in S
  BY LenProperties, ElementOfSeq
<1>2. SubSeq(s, 1, n) \in Seq(S)
  <2>1. \A i \in 1 .. n : s[i] \in S
    BY <1>1
  <2> QED  BY <2>1, SubSeqProperties
<1>3. SubSeq(s, n + 1, Len(s)) \in Seq(S)
  <2>1. \A i \in n + 1 .. Len(s) : s[i] \in S
    BY <1>1
  <2> QED  BY <1>1, <2>1, SubSeqProperties
<1>4. SubSeq(s, 1, n) \o SubSeq(s, n + 1, Len(s)) = SubSeq(s, 1, Len(s))
  <2>1. 1 \in 1 .. Len(s) + 1 /\ n \in 1 - 1 .. Len(s) /\ Len(s) \in n .. Len(s)
    BY <1>1
  <2> QED  BY <2>1, ConcatAdjacentSubSeq
<1> QED  BY <1>2, <1>3, <1>4, SubSeqFull

LEMMA WorkerAtStart ==
  ASSUME Init
  PROVE  WorkerInv
<1>1. LinkInv
  BY EmptySeq DEF Init, LinksInit, LinkInv
<1>2. ProcessInv
  BY EmptySeq DEF Init, RecieverInit, ProcessInv
<1>3. SocketInv
  BY EmptySeq DEF Init, RecieverInit, RunnerInit, SocketInv
<1>4. RunnerInv
  BY RunnerAssumption DEF Init, RecieverInit, RunnerInit, RunnerInv
<1> QED  BY <1>1, <1>2, <1>3, <1>4 DEF WorkerInv

\* What frame_sender does of the worker's state is to queue requests and to
\* read replies.
LEMMA SenderLeavesWorker ==
  ASSUME WorkerInv, SenderInv, SenderStep \/ NoReply,
         UNCHANGED <<socketVars, recieverVars, runnerVars>>
  PROVE  WorkerInv'
<1>1. LinkInv'
  <2>1. LinkInv
    BY DEF WorkerInv
  <2>2. CASE Attempt
    <3>1. NCut \in Nat /\ NCut > 0 /\ NCut = Len(packets)
      BY <2>2, NCutNat DEF SenderInv, AttemptInv, Attempt
    <3>2. data \in Seq(Nat)
      <4>1. StreamLen \in Nat /\ data \in Seq(Within)
        BY LayoutFacts DEF SenderInv, BufferInv, SenderTypes
      <4>2. Within \subseteq Nat
        BY <4>1 DEF Within
      <4> QED  BY <4>1, <4>2, SeqMonotonic
    <3>3. [id |-> Len(packets), data |-> data] \in Request
      BY <3>1, <3>2 DEF Request
    <3> QED  BY <2>1, <2>2, <3>3, AppendProperties DEF Attempt, LinkInv
  <2>3. CASE Reply
    BY <2>1, <2>3, HeadTailProperties DEF Reply, LinkInv
  <2>4. CASE Read \/ GiveUp \/ NoReply
    BY <2>1, <2>4 DEF Read, GiveUp, NoReply, LinkInv
  <2> QED  BY <2>2, <2>3, <2>4 DEF SenderStep
<1>2. ProcessInv'
  BY DEF WorkerInv, ProcessInv, recieverVars
<1>3. SocketInv'
  BY DEF WorkerInv, SocketInv, recieverVars, socketVars, runnerVars
<1>4. RunnerInv'
  BY DEF WorkerInv, RunnerInv, recieverVars, runnerVars
<1> QED  BY <1>1, <1>2, <1>3, <1>4 DEF WorkerInv

LEMMA BindKeeps ==
  ASSUME WorkerInv, Bind, UNCHANGED <<requests, replies, runnerVars>>
  PROVE  WorkerInv'
<1>1. /\ process = "starting" /\ process' = "running" /\ state = 0 /\ state' = 1
      /\ to_worker' = to_worker + RepliesAtStart
      /\ UNCHANGED <<to_flowgraph, rx_buffer, taken, passed>>
  BY DEF Bind, WorkerInv, ProcessInv
<1>2. LinkInv'
  BY DEF WorkerInv, LinkInv
<1>3. ProcessInv'
  BY <1>1 DEF WorkerInv, ProcessInv
<1>4. SocketInv'
  BY <1>1 DEF WorkerInv, SocketInv, RepliesAtStart, runnerVars
<1>5. RunnerInv'
  BY <1>1 DEF WorkerInv, RunnerInv, runnerVars
<1> QED  BY <1>2, <1>3, <1>4, <1>5 DEF WorkerInv

LEMMA TakeKeeps ==
  ASSUME WorkerInv, Take, UNCHANGED <<requests, replies, runnerVars>>
  PROVE  WorkerInv'
<1> DEFINE p == Head(to_flowgraph)
<1>1. /\ process = "running" /\ process' = "running" /\ state = 1 /\ to_flowgraph # <<>>
      /\ taken' = p /\ to_flowgraph' = Tail(to_flowgraph)
      /\ taken = NoPacket /\ passed = <<>>
  BY DEF Take, Running, WorkerInv, ProcessInv
<1>2. to_flowgraph \in Seq(Request) /\ to_worker \in Nat
  BY DEF WorkerInv, SocketInv
<1>3. p \in Request /\ to_flowgraph' \in Seq(Request)
  BY <1>1, <1>2, HeadTailProperties
<1>4. p # NoPacket /\ p.data \in Seq(Nat)
  BY <1>3, TakenIsPacket
<1>5. PICK room \in Rooms :
        \/ /\ Len(p.data) >= room
           /\ passed' = SubSeq(p.data, 1, room)
           /\ rx_buffer' = SubSeq(p.data, room + 1, Len(p.data))
           /\ to_worker' = to_worker + 1
           /\ state' = 2
        \/ /\ Len(p.data) < room
           /\ rx_buffer' = p.data
           /\ state' = 4
           /\ UNCHANGED <<passed, to_worker>>
  BY DEF Take
<1>6. room \in Nat
  BY LargestRoom
<1> HIDE DEF p
<1>7. ProcessInv'
  <2>1. CASE /\ Len(p.data) >= room
             /\ passed' = SubSeq(p.data, 1, room)
             /\ rx_buffer' = SubSeq(p.data, room + 1, Len(p.data))
             /\ state' = 2
    <3>1. room <= Len(p.data)
      BY <1>4, <1>6, <2>1, LenProperties
    <3>2. passed' \in Seq(Nat) /\ rx_buffer' \in Seq(Nat) /\ passed' \o rx_buffer' = p.data
      BY <1>4, <1>6, <2>1, <3>1, CutInTwo
    <3>3. taken' \in Request /\ passed' \o rx_buffer' = taken'.data /\ state' = 2 /\ process' = "running"
      BY <1>1, <1>3, <2>1, <3>2
    <3> QED  BY <3>2, <3>3 DEF ProcessInv
  <2>2. CASE rx_buffer' = p.data /\ state' = 4 /\ passed' = passed
    BY <1>1, <1>3, <1>4, <2>2 DEF WorkerInv, ProcessInv
  <2> QED  BY <1>5, <2>1, <2>2
<1>8. SocketInv'
  <2>1. to_worker' \in Nat
    BY <1>2, <1>5
  <2>2. taken_all => to_flowgraph' = <<>> /\ p.id = request
    BY <1>1 DEF WorkerInv, SocketInv, p
  <2>3. taken_all' = taken_all /\ request' = request /\ taken_all \in BOOLEAN
    BY DEF WorkerInv, SocketInv, runnerVars
  <2> QED  BY <1>1, <1>3, <1>4, <2>1, <2>2, <2>3 DEF SocketInv
<1>9. LinkInv'
  BY DEF WorkerInv, LinkInv
<1>10. RunnerInv'
  BY <1>1 DEF WorkerInv, RunnerInv, runnerVars
<1> QED  BY <1>7, <1>8, <1>9, <1>10 DEF WorkerInv

LEMMA StreamKeeps ==
  ASSUME WorkerInv, Stream, UNCHANGED <<requests, replies, runnerVars>>
  PROVE  WorkerInv'
<1>1. process = "running" /\ state = 2 /\ UNCHANGED <<to_flowgraph, to_worker, process, taken>>
  BY DEF Stream, Running, socketVars
<1>2. PICK room \in Rooms :
        \/ /\ ~EndsStream(room)
           /\ passed' = passed \o SubSeq(rx_buffer, 1, room)
           /\ rx_buffer' = LeftAfter(rx_buffer, room)
           /\ UNCHANGED state
        \/ EndsStream(room) /\ state' = 3 /\ UNCHANGED <<passed, rx_buffer>>
  BY DEF Stream
<1>3. room \in Nat /\ Max(Rooms) \in Nat /\ room <= Max(Rooms)
  BY LargestRoom
<1>4. /\ passed \in Seq(Nat) /\ rx_buffer \in Seq(Nat) /\ taken \in Request
      /\ passed \o rx_buffer = taken.data /\ Len(rx_buffer) \in Nat
  BY <1>1, LenProperties DEF WorkerInv, ProcessInv
<1>5. ProcessInv'
  <2>1. CASE ~EndsStream(room) /\ passed' = passed \o SubSeq(rx_buffer, 1, room)
             /\ rx_buffer' = LeftAfter(rx_buffer, room) /\ UNCHANGED state
    <3>1. room <= Len(rx_buffer)
      BY <1>3, <1>4, <2>1 DEF EndsStream
    <3> DEFINE a == SubSeq(rx_buffer, 1, room)
               b == SubSeq(rx_buffer, room + 1, Len(rx_buffer))
    <3>2. a \in Seq(Nat) /\ b \in Seq(Nat) /\ a \o b = rx_buffer
      BY <1>3, <1>4, <3>1, CutInTwo
    <3>3. passed' = passed \o a /\ rx_buffer' = b
      BY <2>1 DEF LeftAfter
    <3> HIDE DEF a, b
    <3>4. passed' \in Seq(Nat) /\ passed' \o rx_buffer' = taken.data
      <4>1. passed \o a \in Seq(Nat)
        BY <1>4, <3>2, ConcatProperties
      <4>2. (passed \o a) \o b = passed \o (a \o b)
        <5>1. passed \in Seq(Nat) /\ a \in Seq(Nat) /\ b \in Seq(Nat)
          BY <1>4, <3>2
        <5> QED  BY <5>1, ConcatProperties, SMTT(30)
      <4> QED  BY <1>4, <3>2, <3>3, <4>1, <4>2
    <3>5. /\ process' = "running" /\ state' = 2 /\ rx_buffer' \in Seq(Nat)
          /\ taken' \in Request /\ passed' \o rx_buffer' = taken'.data
      BY <1>1, <1>4, <2>1, <3>2, <3>3, <3>4
    <3> QED  BY <3>4, <3>5 DEF ProcessInv
  <2>2. CASE EndsStream(room) /\ state' = 3 /\ UNCHANGED <<passed, rx_buffer>>
    <3>1. Len(rx_buffer) < Max(Rooms)
      BY <1>3, <1>4, <2>2 DEF EndsStream
    <3> QED  BY <1>1, <1>4, <2>2, <3>1 DEF ProcessInv
  <2> QED  BY <1>2, <2>1, <2>2
<1>6. SocketInv'
  BY <1>1 DEF WorkerInv, SocketInv, runnerVars
<1>7. LinkInv'
  BY DEF WorkerInv, LinkInv
<1>8. RunnerInv'
  BY <1>1 DEF WorkerInv, RunnerInv, runnerVars
<1> QED  BY <1>5, <1>6, <1>7, <1>8 DEF WorkerInv

LEMMA ExitKeeps ==
  ASSUME WorkerInv, Exit, UNCHANGED <<requests, replies, runnerVars>>
  PROVE  WorkerInv'
<1>1. /\ process = "running" /\ state \in {2, 3} /\ process' = "exited"
      /\ UNCHANGED <<to_flowgraph, to_worker, state, rx_buffer, taken, passed>>
  BY DEF Exit, Running, socketVars
<1>2. ProcessInv'
  BY <1>1 DEF WorkerInv, ProcessInv
<1>3. SocketInv'
  BY <1>1 DEF WorkerInv, SocketInv, runnerVars
<1>4. LinkInv'
  BY DEF WorkerInv, LinkInv
<1>5. RunnerInv'
  BY <1>1 DEF WorkerInv, RunnerInv, runnerVars
<1> QED  BY <1>2, <1>3, <1>4, <1>5 DEF WorkerInv

LEMMA SendReplyKeeps ==
  ASSUME WorkerInv, SendReply
  PROVE  WorkerInv'
<1>1. /\ reply # NoReplyYet /\ replies' = Append(replies, reply) /\ reply' = NoReplyYet
      /\ UNCHANGED <<requests, to_flowgraph, to_worker, process, state, rx_buffer, taken, passed,
                     runner, run, request, taken_all>>
  BY DEF SendReply, socketVars, recieverVars
<1>2. LinkInv'
  BY <1>1, AppendProperties DEF WorkerInv, LinkInv, RunnerInv
<1>3. ProcessInv'
  BY <1>1 DEF WorkerInv, ProcessInv
<1>4. SocketInv'
  BY <1>1 DEF WorkerInv, SocketInv
<1>5. RunnerInv'
  BY <1>1 DEF WorkerInv, RunnerInv
<1> QED  BY <1>2, <1>3, <1>4, <1>5 DEF WorkerInv

\* The socket is empty when a process is started, if all took their data.
LEMMA StartFlowgraphKeeps ==
  ASSUME WorkerInv, StartFlowgraph
  PROVE  WorkerInv'
<1> DEFINE p == Head(requests)
<1>1. /\ runner = "recv" /\ process = "none" /\ run # RestartAfter
      /\ requests # <<>> /\ requests' = Tail(requests) /\ request' = p.id
      /\ to_flowgraph' = to_flowgraph \o <<p>>
      /\ process' = "starting" /\ state' = 0
      /\ rx_buffer' = <<>> /\ taken' = NoPacket /\ passed' = <<>>
      /\ run' = run + 1 /\ runner' = "await"
      /\ UNCHANGED <<replies, to_worker, reply, taken_all>>
  BY DEF StartFlowgraph, DataSent, MustRestart, WorkerInv, RunnerInv
<1>2. p \in Request /\ requests' \in Seq(Request)
  BY <1>1, HeadTailProperties DEF WorkerInv, LinkInv
<1> HIDE DEF p
<1>3. LinkInv'
  BY <1>1, <1>2 DEF WorkerInv, LinkInv
<1>4. ProcessInv'
  BY <1>1, EmptySeq DEF ProcessInv
<1>5. SocketInv'
  <2>1. to_flowgraph \in Seq(Request) /\ to_worker \in Nat /\ taken_all \in BOOLEAN
    BY DEF WorkerInv, SocketInv
  <2>2. <<p>> \in Seq(Request)
    BY <1>2
  <2>3. to_flowgraph' \in Seq(Request)
    BY <1>1, <2>1, <2>2, ConcatProperties
  <2>4. taken_all => to_flowgraph = <<>>
    BY <1>1 DEF WorkerInv, SocketInv
  <2>5. taken_all => to_flowgraph' = <<p>>
    BY <1>1, <2>2, <2>4, ConcatEmptySeq
  <2>6. <<p>> # <<>> /\ Tail(<<p>>) = <<>> /\ Head(<<p>>) = p
    OBVIOUS
  <2> QED  BY <1>1, <2>1, <2>3, <2>5, <2>6 DEF SocketInv
<1>6. RunnerInv'
  <2>1. run + 1 \in 0 .. RestartAfter
    BY <1>1, RunnerAssumption DEF WorkerInv, RunnerInv
  <2> QED  BY <1>1, <2>1 DEF WorkerInv, RunnerInv
<1> QED  BY <1>3, <1>4, <1>5, <1>6 DEF WorkerInv

LEMMA AwaitKeeps ==
  ASSUME WorkerInv, AwaitFlowgraph
  PROVE  WorkerInv'
<1>1. /\ runner = "await" /\ to_worker > 0 /\ to_worker' = to_worker - 1
      /\ runner' = "communicate"
      /\ UNCHANGED <<requests, replies, to_flowgraph, process, state, rx_buffer, taken, passed,
                     run, reply, request, taken_all>>
  BY DEF AwaitFlowgraph, recieverVars
<1>2. LinkInv'
  BY <1>1 DEF WorkerInv, LinkInv
<1>3. ProcessInv'
  BY <1>1 DEF WorkerInv, ProcessInv
<1>4. SocketInv'
  BY <1>1 DEF WorkerInv, SocketInv
<1>5. RunnerInv'
  BY <1>1 DEF WorkerInv, RunnerInv
<1> QED  BY <1>2, <1>3, <1>4, <1>5 DEF WorkerInv

LEMMA AnswerTyped ==
  ASSUME WorkerInv, NEW code \in Codes
  PROVE  Answer(code) \in [code : Codes, of : Nat]
<1>1. taken.id \in Nat
  <2>1. state \in {0, 1} \/ state \in {2, 3, 4}
    BY DEF WorkerInv, ProcessInv
  <2>2. CASE state \in {0, 1}
    BY <2>2 DEF WorkerInv, ProcessInv, NoPacket
  <2>3. CASE state \in {2, 3, 4}
    BY <2>3, TakenIsPacket DEF WorkerInv, ProcessInv
  <2> QED  BY <2>1, <2>2, <2>3
<1> QED  BY <1>1 DEF Answer

LEMMA CommunicateKeeps ==
  ASSUME WorkerInv, Communicate
  PROVE  WorkerInv'
<1>1. /\ runner = "communicate" /\ process = "exited" /\ process' = "none" /\ runner' = "recv"
      /\ taken_all' = (taken_all /\ taken # NoPacket)
      /\ UNCHANGED <<requests, replies, to_flowgraph, to_worker, state, rx_buffer, taken, passed,
                     run, request>>
  BY DEF Communicate, socketVars
<1>2. PICK code \in {"message", "decode_error"} : reply' = Answer(code)
  BY DEF Communicate
<1>3. reply' \in [code : Codes, of : Nat]
  <2>1. code \in Codes
    BY DEF Codes
  <2> QED  BY <1>2, <2>1, AnswerTyped
<1>4. LinkInv'
  BY <1>1 DEF WorkerInv, LinkInv
<1>5. ProcessInv'
  BY <1>1 DEF WorkerInv, ProcessInv
<1>6. SocketInv'
  BY <1>1 DEF WorkerInv, SocketInv
<1>7. RunnerInv'
  BY <1>1, <1>3 DEF WorkerInv, RunnerInv
<1> QED  BY <1>4, <1>5, <1>6, <1>7 DEF WorkerInv

LEMMA TimeoutKeeps ==
  ASSUME WorkerInv, TimeoutExpired
  PROVE  WorkerInv'
<1>1. /\ runner = "communicate" /\ process \in Expires /\ process' = "none" /\ runner' = "recv"
      /\ reply' = Answer("W_ERROR")
      /\ taken_all' = (taken_all /\ taken # NoPacket)
      /\ UNCHANGED <<requests, replies, to_worker, state, rx_buffer, taken, passed, run, request>>
      /\ to_flowgraph' = to_flowgraph \/ (to_flowgraph # <<>> /\ to_flowgraph' = Tail(to_flowgraph))
  BY DEF TimeoutExpired
<1>2. reply' \in [code : Codes, of : Nat]
  <2>1. "W_ERROR" \in Codes
    BY DEF Codes
  <2> QED  BY <1>1, <2>1, AnswerTyped
<1>3. LinkInv'
  BY <1>1 DEF WorkerInv, LinkInv
<1>4. ProcessInv'
  BY <1>1 DEF WorkerInv, ProcessInv
<1>5. SocketInv'
  <2>1. to_flowgraph' \in Seq(Request)
    BY <1>1, HeadTailProperties DEF WorkerInv, SocketInv
  <2>2. taken_all' => to_flowgraph = <<>> /\ taken.id = request /\ taken # NoPacket
    BY <1>1 DEF WorkerInv, SocketInv
  <2> QED  BY <1>1, <2>1, <2>2 DEF WorkerInv, SocketInv
<1>6. RunnerInv'
  BY <1>1, <1>2 DEF WorkerInv, RunnerInv
<1> QED  BY <1>3, <1>4, <1>5, <1>6 DEF WorkerInv

LEMMA RestartKeeps ==
  ASSUME WorkerInv, Restart
  PROVE  WorkerInv'
<1>1. /\ run' = 0 /\ reply' = NoReplyYet /\ to_flowgraph' = <<>> /\ to_worker' = 0 /\ runner = "recv"
      /\ UNCHANGED <<requests, replies, process, state, rx_buffer, taken, passed,
                     runner, request, taken_all>>
  BY DEF Restart, recieverVars
<1>2. LinkInv'
  BY <1>1 DEF WorkerInv, LinkInv
<1>3. ProcessInv'
  BY <1>1 DEF WorkerInv, ProcessInv
<1>4. SocketInv'
  <2>1. process = "none"
    BY <1>1 DEF WorkerInv, RunnerInv
  <2> QED  BY <1>1, <2>1, EmptySeq DEF WorkerInv, SocketInv
<1>5. RunnerInv'
  BY <1>1, RunnerAssumption DEF WorkerInv, RunnerInv
<1> QED  BY <1>2, <1>3, <1>4, <1>5 DEF WorkerInv

LEMMA SameWorker ==
  ASSUME WorkerInv, UNCHANGED <<requests, replies, socketVars, recieverVars, runnerVars>>
  PROVE  WorkerInv'
<1>1. LinkInv' /\ ProcessInv'
  BY DEF WorkerInv, LinkInv, ProcessInv, recieverVars
<1>2. SocketInv'
  BY DEF WorkerInv, SocketInv, socketVars, recieverVars, runnerVars
<1>3. RunnerInv'
  BY DEF WorkerInv, RunnerInv, recieverVars, runnerVars
<1> QED  BY <1>1, <1>2, <1>3 DEF WorkerInv

LEMMA WorkerNext ==
  ASSUME WorkerInv, SenderInv, [Next]_vars
  PROVE  WorkerInv'
<1>1. CASE Sender \/ Client
  BY <1>1, SenderLeavesWorker DEF Sender, Client
<1>2. CASE Process
  BY <1>2, BindKeeps, TakeKeeps, StreamKeeps DEF Process, RecieverStep
<1>3. CASE Decoded
  BY <1>3, ExitKeeps DEF Decoded
<1>4. CASE Worker
  BY <1>4, SendReplyKeeps, StartFlowgraphKeeps, AwaitKeeps, CommunicateKeeps, TimeoutKeeps,
     RestartKeeps DEF Worker, RunnerStep
<1>5. CASE UNCHANGED vars
  BY <1>5, SameWorker DEF vars
<1> QED  BY <1>1, <1>2, <1>3, <1>4, <1>5 DEF Next

LEMMA WorkerAlways == Spec => []WorkerInv
<1>1. Init => WorkerInv
  BY WorkerAtStart
<1> QED  BY <1>1, WorkerNext, SenderAlways, PTL DEF Spec

\* A process takes the data of its own request, as long as none was killed
\* with its data untaken (frame_reciever, runner.py).
THEOREM OwnPacketIsTaken == Spec => []OwnPacketTaken
<1>1. WorkerInv => OwnPacketTaken
  BY DEF WorkerInv, SocketInv, OwnPacketTaken
<1> QED  BY <1>1, WorkerAlways, PTL

\* What reaches hier_rx is the beginning of the packet (frame_reciever.work).
THEOREM PacketIsPassedOn == Spec => []PassedOn
<1>1. ASSUME WorkerInv PROVE PassedOn
  <2>1. ProcessInv
    BY <1>1 DEF WorkerInv
  <2>2. state \in {1, 2, 3} => passed \o rx_buffer = taken.data /\ taken.data \in Seq(Nat)
    <3>1. CASE state = 1
      <4>1. passed = <<>> /\ rx_buffer = <<>> /\ taken = NoPacket
        BY <2>1, <3>1 DEF ProcessInv
      <4>2. taken.data = <<>> /\ <<>> \in Seq(Nat) /\ <<>> \o <<>> = <<>>
        BY <4>1, EmptySeq, ConcatEmptySeq DEF NoPacket
      <4> QED  BY <4>1, <4>2
    <3>2. CASE state \in {2, 3}
      BY <2>1, <3>2, TakenIsPacket DEF ProcessInv
    <3> QED  BY <3>1, <3>2
  <2>3. \A s \in Seq(Nat) : IsPrefix(s, s)
    BY LenProperties DEF IsPrefix
  <2> QED  BY <2>1, <2>2, <2>3 DEF PassedOn, ProcessInv
<1> QED  BY <1>1, WorkerAlways, PTL

\* Type correctness of the composition.
THEOREM CranTypeCorrect == Spec => []TypeOK
<1>1. ASSUME SenderInv, WorkerInv PROVE TypeOK
  <2>1. \A k \in 1 .. Len(replies) : replies[k].code \in Codes
    <3> DEFINE R == [code : Codes, of : Nat]
    <3>1. replies \in Seq(R)
      BY <1>1 DEF WorkerInv, LinkInv
    <3>2. \A r \in R : r.code \in Codes
      OBVIOUS
    <3> HIDE DEF R
    <3>3. \A k \in 1 .. Len(replies) : replies[k] \in R
      BY <3>1, ElementOfSeq
    <3> QED  BY <3>2, <3>3
  <2>2. reply.code \in Codes \cup {"none"}
    BY <1>1 DEF WorkerInv, RunnerInv, NoReplyYet
  <2>3. process \in {"none", "starting", "running", "exited"} /\ state \in 0 .. 4
    BY <1>1 DEF WorkerInv, ProcessInv
  <2>4. runner \in {"recv", "await", "communicate"} /\ run \in 0 .. RestartAfter
    BY <1>1 DEF WorkerInv, RunnerInv
  <2>5. /\ send_packet \in BOOLEAN /\ retries \in 0 .. MaxRetries
        /\ sender \in {"work", "waiting", "exited", "failed"}
    BY <1>1 DEF SenderInv, AttemptInv
  <2>6. /\ frame_ends \in Layouts /\ mode \in Modes /\ offset \in 0 .. StreamLen
        /\ {buffer, old_buffer, data} \subseteq Seq(0 .. StreamLen)
    BY <1>1 DEF SenderInv, BufferInv, SenderTypes, Within
  <2> QED  BY <2>1, <2>2, <2>3, <2>4, <2>5, <2>6 DEF TypeOK
<1> QED  BY <1>1, SenderAlways, WorkerAlways, PTL
=============================================================================
