---------------------------- MODULE RxTailProofs ----------------------------
(***************************************************************************)
(* Proofs about RxTail: the messages are the payloads, for any number of   *)
(* frames of any length, any capacity of the buffer and any way to cut the *)
(* nibbles into windows.                                                   *)
(*                                                                         *)
(* A place in the stream of nibbles of all frames is a frame and a number  *)
(* of its nibbles.  The inductive invariant says at which place each item  *)
(* is by relating it to every item behind it, not only to its neighbour:   *)
(* the steps take and add many items at once.                              *)
(***************************************************************************)
EXTENDS RxTail, TLAPS, WellFoundedInduction

\* The bytes of frame f, CRC included; it has two nibbles for each of them.
BytesOf(f) == FrameBytes(sent[f].pay_len, sent[f].crc)

\* The place after n nibbles of frame f, at the end of the frame the next one.
PlaceAt(f, n) == IF n = NibblesOf(f) THEN [frame |-> f + 1, n |-> 0] ELSE [frame |-> f, n |-> n]

\* The place of the k-th item, or of the item that will come in its place.
NibblePlace(k) ==
  IF k \in 1 .. Len(nibbles) /\ ~IsDone(nibbles[k])
  THEN [frame |-> nibbles[k].frame, n |-> nibbles[k].i]
  ELSE written
BytePlace(k) ==
  IF k \in 1 .. Len(bytes) /\ ~IsDone(bytes[k])
  THEN [frame |-> bytes[k].frame, n |-> 2 * bytes[k].i]
  ELSE NibblePlace(1)

\* Writing is inside a frame, or all of them have been written.
WrittenInFrame ==
  /\ written.frame <= NFrames => written.n < NibblesOf(written.frame)
  /\ written.frame > NFrames => written.n = 0

\* "work_done" comes after the last frame, and only if m_exit.
DoneLast ==
  /\ \A k \in 1 .. Len(nibbles) :
       IsDone(nibbles[k]) =>
         /\ m_exit /\ written.frame > NFrames
         /\ \A j \in k .. Len(nibbles) : IsDone(nibbles[j])
  /\ \A k \in 1 .. Len(bytes) : IsDone(bytes[k]) => HasDone(nibbles) /\ k = Len(bytes)

\* Nibble by nibble the link holds the frames between reader and writer.
NibblesInOrder ==
  \A k \in 1 .. Len(nibbles) :
    ~IsDone(nibbles[k]) =>
      /\ nibbles[k].frame \in 1 .. NFrames
      /\ nibbles[k].i < NibblesOf(nibbles[k].frame)
      /\ \A j \in 1 .. NibblesOf(nibbles[k].frame) - nibbles[k].i :
           k + j <= Len(nibbles) + 1 /\ ~IsDone(nibbles[k + j - 1]) =>
             NibblePlace(k + j) = PlaceAt(nibbles[k].frame, nibbles[k].i + j)

\* dewhitening is at a byte of the frame whose length it has, and the place in
\* the whitening sequence is that of the byte.
OffsetOfPlace ==
  LET place == NibblePlace(1) IN
  /\ place.n > 0 =>
       /\ m_payload_len = sent[place.frame].pay_len
       /\ m_crc_presence = sent[place.frame].crc
       /\ place.n = 2 * offset
  /\ place.n = 0 => offset = m_payload_len + 2 * m_crc_presence

\* The same for the bytes; crc_verif is at the beginning of the next message.
BytesInOrder ==
  \A k \in 1 .. Len(bytes) :
    ~IsDone(bytes[k]) =>
      /\ bytes[k].frame \in 1 .. NFrames
      /\ bytes[k].i < BytesOf(bytes[k].frame)
      /\ bytes[k].key = IF bytes[k].i < sent[bytes[k].frame].pay_len THEN bytes[k].i ELSE Raw
      /\ \A j \in 1 .. BytesOf(bytes[k].frame) - bytes[k].i :
           k + j <= Len(bytes) + 1 /\ ~IsDone(bytes[k + j - 1]) =>
             BytePlace(k + j) = PlaceAt(bytes[k].frame, 2 * (bytes[k].i + j))

AtFrameStart == BytePlace(1) = [frame |-> Len(msg) + 1, n |-> 0]

\* The inductive invariant.
IInv ==
  /\ TypeOK
  /\ WrittenInFrame
  /\ DoneLast
  /\ NibblesInOrder
  /\ OffsetOfPlace
  /\ BytesInOrder
  /\ AtFrameStart
  /\ MessagesAreFrames

----------------------------------------------------------------------------
(***************************************************************************)
(* Facts about lengths, places and sequences.                              *)
(***************************************************************************)

\* A frame has at least one byte and an even number of nibbles.
LEMMA FrameFacts ==
  ASSUME sent \in [1 .. NFrames -> FrameKinds], NEW f \in 1 .. NFrames
  PROVE  /\ sent[f].pay_len \in 1 .. 255 /\ sent[f].crc \in {0, 1}
         /\ BytesOf(f) = sent[f].pay_len + 2 * sent[f].crc
         /\ BytesOf(f) \in 1 .. 257
         /\ NibblesOf(f) = 2 * BytesOf(f)
         /\ NibblesOf(f) \in 2 .. 514 /\ 0 < NibblesOf(f)
<1>1. sent[f] \in [pay_len : 1 .. 255, crc : {0, 1}, ok : BOOLEAN]
  BY TailAssumption
<1>2. sent[f].pay_len \in 1 .. 255 /\ sent[f].crc \in {0, 1}
  BY <1>1
<1> DEFINE p == sent[f].pay_len
           c == sent[f].crc
<1>3. BytesOf(f) = p + 2 * c /\ NibblesOf(f) = 2 * p + 4 * c
  BY DEF BytesOf, FrameBytes, NibblesOf
<1>4. p \in 1 .. 255 /\ c \in {0, 1}
  BY <1>2
<1> HIDE DEF p, c
<1>5. p + 2 * c \in 1 .. 257 /\ 2 * p + 4 * c = 2 * (p + 2 * c) /\ 2 * p + 4 * c \in 2 .. 514
      /\ 0 < 2 * p + 4 * c
  BY <1>4
<1> QED  BY <1>3, <1>4, <1>5 DEF p, c

\* The smaller of two numbers.
LEMMA MinOfTwo ==
  ASSUME NEW a \in Int, NEW b \in Int
  PROVE  Min({a, b}) = IF a <= b THEN a ELSE b
<1>1. \E x \in {a, b} : \A y \in {a, b} : x <= y
  OBVIOUS
<1>2. Min({a, b}) \in {a, b} /\ \A y \in {a, b} : Min({a, b}) <= y
  BY <1>1 DEF Min
<1> QED  BY <1>2

LEMMA MaxOfTwo ==
  ASSUME NEW a \in Int, NEW b \in Int
  PROVE  Max({a, b}) = IF a >= b THEN a ELSE b
<1>1. \E x \in {a, b} : \A y \in {a, b} : x >= y
  OBVIOUS
<1>2. Max({a, b}) \in {a, b} /\ \A y \in {a, b} : Max({a, b}) >= y
  BY <1>1 DEF Max
<1> QED  BY <1>2

\* The least-number principle, for the set of the next tags.
LEMMA LeastNumber ==
  ASSUME NEW T \in SUBSET Nat, T # {}
  PROVE  Min(T) \in T /\ \A y \in T : Min(T) <= y
<1> DEFINE R == OpToRel(<, Nat)
<1>1. IsWellFoundedOn(R, Nat)
  BY NatLessThanWellFounded
<1>2. \A x, y \in Nat : y < x => <<y, x>> \in R
  BY DEF OpToRel
<1> HIDE DEF R
<1>3. PICK x \in T : \A y \in T : ~(<<y, x>> \in R)
  BY <1>1, WFMin
<1>4. ASSUME NEW y \in T PROVE x <= y
  <2>1. x \in Nat /\ y \in Nat /\ ~(y < x)
    BY <1>2, <1>3
  <2> QED  BY <2>1
<1> QED  BY <1>4 DEF Min

LEMMA ConcatFacts ==
  ASSUME NEW S, NEW s \in Seq(S), NEW t \in Seq(S)
  PROVE  /\ s \o t \in Seq(S)
         /\ Len(s \o t) = Len(s) + Len(t) /\ Len(s) \in Nat /\ Len(t) \in Nat
         /\ \A k \in 1 .. Len(s) : (s \o t)[k] = s[k]
         /\ \A k \in 1 .. Len(t) : (s \o t)[Len(s) + k] = t[k]
  OBVIOUS

LEMMA AppendFacts ==
  ASSUME NEW S, NEW s \in Seq(S), NEW x \in S
  PROVE  /\ Append(s, x) \in Seq(S)
         /\ Len(Append(s, x)) = Len(s) + 1 /\ Len(s) \in Nat
         /\ \A k \in 1 .. Len(s) : Append(s, x)[k] = s[k]
         /\ Append(s, x)[Len(s) + 1] = x
  OBVIOUS

LEMMA SuffixFacts ==
  ASSUME NEW S, NEW s \in Seq(S), NEW n \in 0 .. Len(s)
  PROVE  /\ SubSeq(s, n + 1, Len(s)) \in Seq(S)
         /\ Len(SubSeq(s, n + 1, Len(s))) = Len(s) - n /\ Len(s) \in Nat
         /\ \A k \in 1 .. (Len(s) - n) : SubSeq(s, n + 1, Len(s))[k] = s[n + k]
  OBVIOUS

\* An item of the links is the tag "work_done" or a nibble, a byte.
LEMMA ItemTypes ==
  ASSUME TypeOK, NEW k \in 1 .. Len(nibbles)
  PROVE  nibbles[k] \in Item /\ nibbles[k].i \in 0 .. 513
<1>1. nibbles \in Seq(Item)
  BY DEF TypeOK
<1>2. nibbles[k] \in Item
  BY <1>1
<1> QED  BY <1>2 DEF Item

LEMMA ByteTypes ==
  ASSUME TypeOK, NEW k \in 1 .. Len(bytes)
  PROVE  bytes[k].i \in 0 .. 256 /\ (IsDone(bytes[k]) \/ bytes[k] \in Byte)
<1>1. bytes \in Seq(Byte \cup {Done})
  BY DEF TypeOK
<1>2. bytes[k] \in Byte \cup {Done}
  BY <1>1
<1>3. CASE bytes[k] \in Byte
  BY <1>3 DEF Byte
<1>4. CASE bytes[k] = Done
  <2>1. Done.i = 0 /\ IsDone(Done)
    BY DEF Done, IsDone
  <2> QED  BY <1>4, <2>1
<1> QED  BY <1>2, <1>3, <1>4

----------------------------------------------------------------------------
(***************************************************************************)
(* The steps of header_decoder.                                            *)
(***************************************************************************)

LEMMA InitIInv == Init => IInv
<1> SUFFICES ASSUME Init PROVE IInv
  OBVIOUS
<1> USE DEF Init
<1>1. sent \in [1 .. NFrames -> FrameKinds] /\ NFrames \in Nat
  BY TailAssumption
<1>2. NFrames >= 1 => NibblesOf(1) \in 2 .. 514
  <2> SUFFICES ASSUME NFrames >= 1 PROVE NibblesOf(1) \in 2 .. 514
    OBVIOUS
  <2>1. 1 \in 1 .. NFrames
    BY <1>1
  <2> QED  BY <1>1, <2>1, FrameFacts
<1>3. TypeOK
  <2>1. written \in [frame : 1 .. NFrames + 1, n : 0 .. 513]
    BY <1>1
  <2>2. m_exit \in ExitModes /\ NibblesCapacity \in Nat
    BY TailAssumption
  <2>3. nibbles \in Seq(Item) /\ bytes \in Seq(Byte \cup {Done}) /\ msg \in Seq(Seq(Byte))
    OBVIOUS
  <2>4. Len(nibbles) = 0
    OBVIOUS
  <2>5. m_payload_len = 0 /\ m_crc_presence = 0 /\ offset = 0
    OBVIOUS
  <2>6. offset \in 0 .. (m_payload_len + 2 * m_crc_presence)
    BY <2>5
  <2>7. crc_payload_len = 0 /\ crc_crc_presence = 0 /\ exited \in BOOLEAN
    OBVIOUS
  <2> HIDE DEF Init
  <2> QED  BY <1>1, <2>1, <2>2, <2>3, <2>4, <2>5, <2>6, <2>7 DEF TypeOK
<1>4. WrittenInFrame
  <2>1. written.frame = 1 /\ written.n = 0
    OBVIOUS
  <2> HIDE DEF Init
  <2>2. written.frame <= NFrames => NibblesOf(written.frame) \in 2 .. 514
    BY <1>2, <2>1, Zenon
  <2>3. written.frame <= NFrames => written.n < NibblesOf(written.frame)
    BY <2>1, <2>2
  <2> QED  BY <2>1, <2>3 DEF WrittenInFrame
<1>5. DoneLast /\ NibblesInOrder /\ BytesInOrder /\ MessagesAreFrames
  BY DEF DoneLast, NibblesInOrder, BytesInOrder, MessagesAreFrames
<1>6. NibblePlace(1) = written /\ BytePlace(1) = written
  BY DEF NibblePlace, BytePlace
<1> QED  BY <1>3, <1>4, <1>5, <1>6 DEF IInv, OffsetOfPlace, AtFrameStart

\* What is behind the reader of the nibbles does not change for the bytes.
LEMMA BytesKept ==
  ASSUME IInv, UNCHANGED <<sent, bytes, msg, m_payload_len, m_crc_presence, offset>>,
         NibblePlace(1)' = NibblePlace(1)
  PROVE  OffsetOfPlace' /\ BytesInOrder' /\ AtFrameStart' /\ MessagesAreFrames'
<1>1. \A k \in Nat : BytePlace(k)' = BytePlace(k)
  BY DEF BytePlace
<1>2. BytesInOrder'
  <2>1. \A f, n : PlaceAt(f, n)' = PlaceAt(f, n)
    BY DEF PlaceAt, NibblesOf
  <2>2. \A f : BytesOf(f)' = BytesOf(f)
    BY DEF BytesOf, FrameBytes
  <2> QED  BY <1>1, <2>1, <2>2, ItemTypes DEF IInv, BytesInOrder
<1> QED  BY <1>1, <1>2 DEF IInv, OffsetOfPlace, AtFrameStart, MessagesAreFrames, PayloadOf

\* While header_decoder still writes nibbles no "work_done" is on its way.
LEMMA NoneDoneYet ==
  ASSUME IInv, written.frame <= NFrames
  PROVE  /\ ~HasDone(nibbles) /\ ~HasDone(bytes)
         /\ \A k \in 1 .. Len(nibbles) : ~IsDone(nibbles[k])
         /\ \A k \in 1 .. Len(bytes) : ~IsDone(bytes[k])
<1>1. NFrames \in Nat /\ written.frame \in Nat
  BY TailAssumption DEF IInv, TypeOK
<1>2. \A k \in 1 .. Len(nibbles) : ~IsDone(nibbles[k])
  BY <1>1 DEF IInv, DoneLast
<1>3. ~HasDone(nibbles)
  BY <1>2 DEF HasDone
<1>4. \A k \in 1 .. Len(bytes) : ~IsDone(bytes[k])
  BY <1>3 DEF IInv, DoneLast
<1> QED  BY <1>2, <1>3, <1>4 DEF HasDone

LEMMA WriteNibblesKeeps ==
  ASSUME IInv, WriteNibbles
  PROVE  IInv'
<1>a. NFrames \in Nat /\ NibblesCapacity \in Nat
  BY TailAssumption
<1>b. sent \in [1 .. NFrames -> FrameKinds] /\ nibbles \in Seq(Item)
  BY DEF IInv, TypeOK
<1>c. PICK f \in 1 .. NFrames, w \in 0 .. 513 : written = [frame |-> f, n |-> w]
  <2>1. written \in [frame : 1 .. NFrames + 1, n : 0 .. 513] /\ written.frame <= NFrames
    BY DEF IInv, TypeOK, WriteNibbles
  <2>2. written = [frame |-> written.frame, n |-> written.n]
    BY <2>1
  <2>3. written.frame \in 1 .. NFrames /\ written.n \in 0 .. 513
    BY <1>a, <2>1
  <2> QED  BY <2>2, <2>3
<1>d. PICK L \in Nat : L = Len(nibbles) /\ L <= NibblesCapacity
  BY <1>b DEF IInv, TypeOK
<1>e. PICK N \in 2 .. 514 : N = NibblesOf(f)
  BY <1>b, FrameFacts, ZenonT(60)
<1>1. w < N
  <2>1. written.frame = f /\ written.n = w
    BY <1>c
  <2> QED  BY <1>a, <1>e, <2>1 DEF IInv, WrittenInFrame
<1>2. PICK n \in 1 .. Min({NibblesCapacity - L, N - w}) :
        /\ nibbles' = nibbles \o [k \in 1 .. n |-> [frame |-> f, i |-> w + k - 1, done |-> FALSE]]
        /\ written' = IF n = N - w THEN [frame |-> f + 1, n |-> 0]
                                   ELSE [frame |-> f, n |-> w + n]
  <2>1. written.frame = f /\ written.n = w
    BY <1>c
  <2>2. PICK n \in 1 .. Min({NibblesCapacity - Len(nibbles),
                             NibblesOf(written.frame) - written.n}) :
          /\ nibbles' = nibbles \o
               [k \in 1 .. n |-> [frame |-> written.frame, i |-> written.n + k - 1, done |-> FALSE]]
          /\ written' = IF n = NibblesOf(written.frame) - written.n
                        THEN [frame |-> written.frame + 1, n |-> 0]
                        ELSE [written EXCEPT !.n = @ + n]
    BY DEF WriteNibbles
  <2>3. [written EXCEPT !.n = @ + n] = [frame |-> f, n |-> w + n]
    BY <1>c
  <2>4. NibblesOf(written.frame) = N /\ Len(nibbles) = L
    BY <1>d, <1>e, <2>1
  <2> QED  BY <2>1, <2>2, <2>3, <2>4, ZenonT(60)
<1>3. n \in 1 .. N - w /\ n <= NibblesCapacity - L /\ n \in Nat
  <2>1. NibblesCapacity - L \in Int /\ N - w \in Int
    BY <1>a
  <2>2. Min({NibblesCapacity - L, N - w})
          = IF NibblesCapacity - L <= N - w THEN NibblesCapacity - L ELSE N - w
    BY <2>1, MinOfTwo
  <2> QED  BY <1>a, <2>2
<1>4. UNCHANGED <<m_exit, sent, dewhiteningVars, bytes, crcVars>>
  BY DEF WriteNibbles
<1>5. written' = PlaceAt(f, w + n)
  <2>1. n = N - w <=> w + n = N
    BY <1>3
  <2> QED  BY <1>2, <1>e, <2>1 DEF PlaceAt
<1>6. PICK new \in Seq(Item) :
        /\ nibbles' = nibbles \o new /\ Len(new) = n
        /\ \A m \in 1 .. n : new[m] = [frame |-> f, i |-> w + m - 1, done |-> FALSE]
  <2> DEFINE new == [k \in 1 .. n |-> [frame |-> f, i |-> w + k - 1, done |-> FALSE]]
  <2>1. \A m \in 1 .. n : [frame |-> f, i |-> w + m - 1, done |-> FALSE] \in Item
    <3> SUFFICES ASSUME NEW m \in 1 .. n
                 PROVE  [frame |-> f, i |-> w + m - 1, done |-> FALSE] \in Item
      OBVIOUS
    <3>1. w + m - 1 \in 0 .. 513 /\ f \in 0 .. NFrames
      BY <1>a, <1>1, <1>3
    <3> QED  BY <3>1 DEF Item
  <2>2. new \in Seq(Item) /\ Len(new) = n
    BY <1>3, <2>1
  <2> QED  BY <1>2, <2>2
<1>7. /\ nibbles' \in Seq(Item) /\ Len(nibbles') = L + n
      /\ \A k \in 1 .. L : nibbles'[k] = nibbles[k]
      /\ \A m \in 1 .. n : nibbles'[L + m] = [frame |-> f, i |-> w + m - 1, done |-> FALSE]
  <2>1. /\ nibbles \o new \in Seq(Item) /\ Len(nibbles \o new) = Len(nibbles) + Len(new)
        /\ \A k \in 1 .. Len(nibbles) : (nibbles \o new)[k] = nibbles[k]
        /\ \A m \in 1 .. Len(new) : (nibbles \o new)[Len(nibbles) + m] = new[m]
    <3>1. nibbles \in Seq(Item) /\ new \in Seq(Item)
      BY <1>b
    <3> QED  BY <3>1, ConcatFacts
  <2> QED  BY <1>d, <1>6, <2>1, ZenonT(60)
<1>8. /\ \A k \in 1 .. L : ~IsDone(nibbles[k]) /\ ~IsDone(nibbles'[k])
      /\ \A m \in 1 .. n : ~IsDone(nibbles'[L + m])
      /\ \A k \in 1 .. L + n : ~IsDone(nibbles'[k])
  <2>1. \A k \in 1 .. L : ~IsDone(nibbles[k]) /\ ~IsDone(nibbles'[k])
    <3>1. written.frame <= NFrames
      BY <1>a, <1>c
    <3> QED  BY <1>d, <1>7, <3>1, NoneDoneYet
  <2>2. \A m \in 1 .. n : ~IsDone(nibbles'[L + m])
    <3>1. \A g, i : ~IsDone([frame |-> g, i |-> i, done |-> FALSE])
      BY DEF IsDone
    <3> QED  BY <1>7, <3>1
  <2>3. \A k \in 1 .. L + n : k \in 1 .. L \/ (k - L \in 1 .. n /\ k = L + (k - L))
    BY <1>3
  <2> QED  BY <2>1, <2>2, <2>3, ZenonT(60)
<1>9. /\ \A g, m : PlaceAt(g, m)' = PlaceAt(g, m)
      /\ \A g : NibblesOf(g)' = NibblesOf(g)
  BY <1>4 DEF PlaceAt, NibblesOf
<1>10. /\ \A k \in 1 .. L : NibblePlace(k)' = NibblePlace(k)
       /\ NibblePlace(L + 1) = [frame |-> f, n |-> w]
  <2>1. \A k \in 1 .. L : NibblePlace(k)' = NibblePlace(k)
    BY <1>d, <1>3, <1>7, <1>8 DEF NibblePlace
  <2>2. NibblePlace(L + 1) = written
    BY <1>d DEF NibblePlace
  <2> QED  BY <1>c, <2>1, <2>2
<1>11. \A m \in 0 .. n : NibblePlace(L + 1 + m)' = PlaceAt(f, w + m)
  <2> SUFFICES ASSUME NEW m \in 0 .. n PROVE NibblePlace(L + 1 + m)' = PlaceAt(f, w + m)
    OBVIOUS
  <2>1. CASE m = n
    <3>1. L + 1 + m \notin 1 .. Len(nibbles')
      BY <1>3, <1>7, <2>1
    <3> QED  BY <1>5, <2>1, <3>1 DEF NibblePlace
  <2>2. CASE m < n
    <3>1. m + 1 \in 1 .. n /\ L + 1 + m = L + (m + 1) /\ L + 1 + m \in 1 .. Len(nibbles')
          /\ w + (m + 1) - 1 = w + m
      BY <1>3, <1>7, <2>2
    <3>2. nibbles'[L + (m + 1)] = [frame |-> f, i |-> w + (m + 1) - 1, done |-> FALSE]
      BY <1>7, <3>1
    <3>3. nibbles'[L + 1 + m] = [frame |-> f, i |-> w + m, done |-> FALSE]
      BY <3>1, <3>2
    <3>4. nibbles'[L + 1 + m].frame = f /\ nibbles'[L + 1 + m].i = w + m
          /\ ~IsDone(nibbles'[L + 1 + m])
      BY <3>3 DEF IsDone
    <3>5. NibblePlace(L + 1 + m)' = [frame |-> f, n |-> w + m]
      BY <3>1, <3>4 DEF NibblePlace
    <3>6. w + m # N
      BY <1>3, <2>2
    <3> QED  BY <1>e, <3>5, <3>6 DEF PlaceAt
  <2> QED  BY <1>3, <2>1, <2>2
<1>12. NibblesInOrder'
  <2> SUFFICES ASSUME NEW k \in 1 .. Len(nibbles'), ~IsDone(nibbles'[k])
               PROVE  /\ nibbles'[k].frame \in 1 .. NFrames
                      /\ nibbles'[k].i < NibblesOf(nibbles'[k].frame)
                      /\ \A j \in 1 .. NibblesOf(nibbles'[k].frame) - nibbles'[k].i :
                           k + j <= Len(nibbles') + 1 /\ ~IsDone(nibbles'[k + j - 1]) =>
                             NibblePlace(k + j)' = PlaceAt(nibbles'[k].frame, nibbles'[k].i + j)
    BY <1>9, Zenon DEF NibblesInOrder
  <2>1. CASE k \in 1 .. L
    <3>1. PICK g, i : g = nibbles[k].frame /\ i = nibbles[k].i
      OBVIOUS
    <3>2. /\ g \in 1 .. NFrames /\ i < NibblesOf(g) /\ i \in 0 .. 513
          /\ \A j \in 1 .. NibblesOf(g) - i :
               k + j <= L + 1 /\ ~IsDone(nibbles[k + j - 1]) =>
                 NibblePlace(k + j) = PlaceAt(g, i + j)
      <4>1. ~IsDone(nibbles[k]) /\ k \in 1 .. Len(nibbles)
        BY <1>d, <1>8, <2>1
      <4>2. i \in 0 .. 513
        BY <3>1, <4>1, ItemTypes DEF IInv
      <4> QED  BY <1>d, <3>1, <4>1, <4>2, ZenonT(60) DEF IInv, NibblesInOrder
    <3>3. PICK G \in 2 .. 514 : G = NibblesOf(g)
      BY <1>b, <3>2, FrameFacts, ZenonT(60)
    <3>4. ASSUME NEW j \in 1 .. G - i, k + j <= L + n + 1
          PROVE  NibblePlace(k + j)' = PlaceAt(g, i + j)
      <4>1. CASE k + j <= L
        <5>1. k + j \in 1 .. L /\ k + j - 1 \in 1 .. L /\ k + j <= L + 1
          BY <2>1, <3>2, <4>1
        <5> QED  BY <1>8, <1>10, <3>2, <3>3, <5>1
      <4>2. CASE k + j > L
        <5>1. PICK q \in 1 .. j : q = L + 1 - k /\ k + q = L + 1 /\ k + q - 1 = L /\ L \in 1 .. L
                                   /\ q \in 1 .. G - i
          <6>1. L + 1 - k \in 1 .. j
            BY <2>1, <3>2, <4>2
          <6>2. k + (L + 1 - k) = L + 1 /\ k + (L + 1 - k) - 1 = L /\ L \in 1 .. L
                /\ L + 1 - k \in 1 .. G - i
            BY <2>1, <3>2, <6>1
          <6> QED  BY <6>1, <6>2
        <5>2. PlaceAt(g, i + q) = [frame |-> f, n |-> w]
          BY <1>8, <1>10, <3>2, <3>3, <5>1, SMTT(60)
        <5>3. NibblePlace(L + 1 + 0)' = PlaceAt(f, w + 0) /\ L + 1 + 0 = L + 1 /\ w + 0 = w
          <6>1. 0 \in 0 .. n /\ L + 1 + 0 = L + 1 /\ w + 0 = w
            BY <1>3
          <6> QED  BY <1>11, <6>1
        <5>4. PlaceAt(f, w) = [frame |-> f, n |-> w]
          BY <1>1, <1>e DEF PlaceAt
        <5>5. CASE q = j
          BY <5>1, <5>2, <5>3, <5>4, <5>5, ZenonT(60)
        <5>6. CASE q < j
          <6>1. i + q # NibblesOf(g)
            BY <3>2, <3>3, <5>1, <5>6, SMTT(60)
          <6>2. f = g /\ w = i + q
            BY <5>2, <6>1 DEF PlaceAt
          <6>3. j - q \in 0 .. n /\ L + 1 + (j - q) = k + j /\ w + (j - q) = i + j
            BY <1>3, <2>1, <3>2, <3>4, <5>1, <5>6, <6>2
          <6>4. NibblePlace(L + 1 + (j - q))' = PlaceAt(f, w + (j - q))
            BY <1>11, <6>3, ZenonT(60)
          <6> QED  BY <6>2, <6>3, <6>4, ZenonT(60)
        <5> QED  BY <5>1, <5>5, <5>6
      <4> QED  BY <2>1, <3>2, <3>4, <4>1, <4>2
    <3>5. nibbles'[k].frame = g /\ nibbles'[k].i = i
      BY <1>7, <2>1, <3>1
    <3> QED  BY <1>7, <3>2, <3>3, <3>4, <3>5
  <2>2. CASE k \notin 1 .. L
    <3>1. PICK m \in 1 .. n : k = L + m
      <4>1. k - L \in 1 .. n /\ k = L + (k - L)
        BY <1>3, <1>7, <2>2
      <4> QED  BY <4>1
    <3>2. nibbles'[k].frame = f /\ nibbles'[k].i = w + m - 1
      <4>1. nibbles'[k] = [frame |-> f, i |-> w + m - 1, done |-> FALSE]
        BY <1>7, <3>1
      <4> QED  BY <4>1
    <3>3. w + m - 1 < N
      BY <1>3, <3>1
    <3>4. ASSUME NEW j \in 1 .. N - (w + m - 1), k + j <= L + n + 1
          PROVE  NibblePlace(k + j)' = PlaceAt(f, w + m - 1 + j)
      <4>1. m - 1 + j \in 0 .. n /\ L + 1 + (m - 1 + j) = k + j /\ w + (m - 1 + j) = w + m - 1 + j
        BY <1>3, <3>1, <3>4
      <4>2. NibblePlace(L + 1 + (m - 1 + j))' = PlaceAt(f, w + (m - 1 + j))
        BY <1>11, <4>1
      <4> QED  BY <4>1, <4>2
    <3> QED  BY <1>e, <1>7, <3>2, <3>3, <3>4
  <2> QED  BY <2>1, <2>2
<1>13. NibblePlace(1)' = NibblePlace(1)
  <2>1. CASE L = 0
    <3>1. NibblePlace(L + 1 + 0)' = PlaceAt(f, w + 0) /\ L + 1 + 0 = 1 /\ w + 0 = w /\ L + 1 = 1
      BY <1>3, <1>11, <2>1
    <3>2. PlaceAt(f, w) = [frame |-> f, n |-> w]
      BY <1>1, <1>e DEF PlaceAt
    <3> QED  BY <1>10, <3>1, <3>2
  <2>2. CASE L # 0
    <3>1. 1 \in 1 .. L
      BY <2>2
    <3> QED  BY <1>10, <3>1
  <2> QED  BY <2>1, <2>2
<1>14. TypeOK'
  <2>1. written' \in [frame : 1 .. NFrames + 1, n : 0 .. 513]
    <3>1. f + 1 \in 1 .. NFrames + 1 /\ f \in 1 .. NFrames + 1
      BY <1>a
    <3>2. n # N - w => w + n \in 0 .. 513
      BY <1>3
    <3> QED  BY <1>2, <3>1, <3>2
  <2>2. Len(nibbles') <= NibblesCapacity
    BY <1>a, <1>3, <1>7
  <2> QED  BY <1>4, <1>7, <2>1, <2>2 DEF IInv, TypeOK, dewhiteningVars, crcVars
<1>15. WrittenInFrame'
  <2>1. CASE n = N - w
    <3>1. written'.frame = f + 1 /\ written'.n = 0
      BY <1>2, <2>1
    <3>2. PICK g : g = f + 1
      OBVIOUS
    <3>3. g <= NFrames => 0 < NibblesOf(g)
      <4> SUFFICES ASSUME g <= NFrames PROVE 0 < NibblesOf(g)
        OBVIOUS
      <4>1. g \in 1 .. NFrames
        BY <1>a, <3>2
      <4> QED  BY <1>b, <4>1, FrameFacts
    <3> QED  BY <1>9, <3>1, <3>2, <3>3 DEF WrittenInFrame
  <2>2. CASE n # N - w
    <3>1. written'.frame = f /\ written'.n = w + n
      BY <1>2, <2>2
    <3>2. w + n < N /\ ~(f > NFrames)
      BY <1>a, <1>3, <2>2
    <3> QED  BY <1>9, <1>e, <3>1, <3>2 DEF WrittenInFrame
  <2> QED  BY <2>1, <2>2
<1>16. DoneLast'
  <2>1. \A k \in 1 .. Len(bytes') : ~IsDone(bytes'[k])
    <3>1. written.frame <= NFrames
      BY <1>a, <1>c
    <3> QED  BY <1>4, <3>1, NoneDoneYet
  <2> QED  BY <1>7, <1>8, <2>1 DEF DoneLast
<1>17. OffsetOfPlace' /\ BytesInOrder' /\ AtFrameStart' /\ MessagesAreFrames'
  BY <1>4, <1>13, BytesKept DEF dewhiteningVars, crcVars
<1> QED  BY <1>12, <1>14, <1>15, <1>16, <1>17 DEF IInv

LEMMA WriteDoneKeeps ==
  ASSUME IInv, WriteDone
  PROVE  IInv'
<1>1. PICK L \in Nat : L = Len(nibbles) /\ L < NibblesCapacity
  BY DEF IInv, TypeOK, WriteDone
<1>2. UNCHANGED <<m_exit, sent, written, dewhiteningVars, bytes, crcVars>>
  BY DEF WriteDone, envVars
<1>3. Done \in Item /\ IsDone(Done) /\ IsDone(Done) = TRUE
  <2>1. 0 \in 0 .. NFrames
    BY TailAssumption
  <2> QED  BY <2>1 DEF Done, Item, IsDone
<1>4. /\ nibbles \in Seq(Item)
      /\ nibbles' \in Seq(Item) /\ Len(nibbles') = L + 1
      /\ \A k \in 1 .. L : nibbles'[k] = nibbles[k]
      /\ nibbles'[L + 1] = Done
  <2>1. nibbles \in Seq(Item)
    BY DEF IInv, TypeOK
  <2>2. nibbles' = Append(nibbles, Done)
    BY DEF WriteDone
  <2> QED  BY <1>1, <1>3, <2>1, <2>2, AppendFacts
<1>5. \A k \in Nat : NibblePlace(k)' = NibblePlace(k)
  <2> SUFFICES ASSUME NEW k \in Nat PROVE NibblePlace(k)' = NibblePlace(k)
    OBVIOUS
  <2>1. CASE k \in 1 .. L
    BY <1>1, <1>2, <1>4, <2>1 DEF NibblePlace
  <2>2. CASE k = L + 1
    BY <1>1, <1>2, <1>3, <1>4, <2>2 DEF NibblePlace
  <2>3. CASE k > L + 1
    BY <1>1, <1>2, <1>4, <2>3 DEF NibblePlace
  <2>4. CASE k = 0
    BY <1>1, <1>2, <1>4, <2>4 DEF NibblePlace
  <2> QED  BY <1>1, <2>1, <2>2, <2>3, <2>4
<1>6. /\ \A g, m : PlaceAt(g, m)' = PlaceAt(g, m)
      /\ \A g : NibblesOf(g)' = NibblesOf(g)
  BY <1>2, SMTT(60) DEF PlaceAt, NibblesOf
<1>7. NibblesInOrder'
  <2> SUFFICES ASSUME NEW k \in 1 .. Len(nibbles'), ~IsDone(nibbles'[k])
               PROVE  /\ nibbles'[k].frame \in 1 .. NFrames
                      /\ nibbles'[k].i < NibblesOf(nibbles'[k].frame)
                      /\ \A j \in 1 .. NibblesOf(nibbles'[k].frame) - nibbles'[k].i :
                           k + j <= Len(nibbles') + 1 /\ ~IsDone(nibbles'[k + j - 1]) =>
                             NibblePlace(k + j)' = PlaceAt(nibbles'[k].frame, nibbles'[k].i + j)
    BY <1>6, Zenon DEF NibblesInOrder
  <2>1. k # L + 1
    BY <1>3, <1>4
  <2>2. k \in 1 .. L /\ nibbles'[k] = nibbles[k]
    BY <1>4, <2>1
  <2>3. PICK g, i : g = nibbles[k].frame /\ i = nibbles[k].i
    OBVIOUS
  <2>4. /\ g \in 1 .. NFrames /\ i < NibblesOf(g)
        /\ \A j \in 1 .. NibblesOf(g) - i :
             k + j <= L + 1 /\ ~IsDone(nibbles[k + j - 1]) =>
               NibblePlace(k + j) = PlaceAt(g, i + j)
    BY <1>1, <2>2, <2>3 DEF IInv, NibblesInOrder
  <2>5. PICK G \in 2 .. 514 : G = NibblesOf(g)
    BY <2>4, FrameFacts, ZenonT(60) DEF IInv, TypeOK
  <2>6. i \in 0 .. 513
    BY <1>1, <2>2, <2>3, ItemTypes DEF IInv
  <2>7. ASSUME NEW j \in 1 .. G - i, k + j <= L + 2, ~IsDone(nibbles'[k + j - 1])
        PROVE  NibblePlace(k + j)' = PlaceAt(g, i + j)
    <3>1. k + j - 1 # L + 1
      BY <1>3, <1>4, <2>7
    <3>2. k + j - 1 \in 1 .. L /\ k + j <= L + 1 /\ k + j \in Nat
      BY <2>2, <2>6, <2>7, <3>1
    <3> QED  BY <1>4, <1>5, <2>4, <2>5, <2>7, <3>2
  <2> QED  BY <1>4, <2>2, <2>3, <2>4, <2>5, <2>7
<1>8. TypeOK'
  <2>1. Len(nibbles') <= NibblesCapacity
    BY <1>1, <1>4, TailAssumption
  <2> QED  BY <1>2, <1>4, <2>1 DEF IInv, TypeOK, dewhiteningVars, crcVars
<1>9. WrittenInFrame'
  BY <1>2, <1>6 DEF IInv, WrittenInFrame
<1>10. DoneLast'
  <2>1. m_exit' /\ written'.frame > NFrames
    BY <1>2 DEF WriteDone
  <2>2. ASSUME NEW k \in 1 .. Len(nibbles'), IsDone(nibbles'[k])
        PROVE  \A j \in k .. Len(nibbles') : IsDone(nibbles'[j])
    <3> SUFFICES ASSUME NEW j \in k .. Len(nibbles') PROVE IsDone(nibbles'[j])
      OBVIOUS
    <3>1. CASE j = L + 1
      BY <1>3, <1>4, <3>1
    <3>2. CASE j # L + 1
      <4>1. k \in 1 .. L /\ j \in k .. L /\ j \in 1 .. L
        BY <1>4, <3>2
      <4>2. IsDone(nibbles[k])
        BY <1>4, <2>2, <4>1
      <4>3. IsDone(nibbles[j])
        BY <1>1, <4>1, <4>2 DEF IInv, DoneLast
      <4> QED  BY <1>4, <4>1, <4>3
    <3> QED  BY <3>1, <3>2
  <2>3. HasDone(nibbles)'
    <3>1. L + 1 \in 1 .. Len(nibbles') /\ IsDone(nibbles'[L + 1])
      BY <1>3, <1>4
    <3> QED  BY <3>1 DEF HasDone
  <2>4. \A k \in 1 .. Len(bytes') : IsDone(bytes'[k]) => k = Len(bytes')
    BY <1>2 DEF IInv, DoneLast
  <2> QED  BY <2>1, <2>2, <2>3, <2>4 DEF DoneLast
<1>11. OffsetOfPlace' /\ BytesInOrder' /\ AtFrameStart' /\ MessagesAreFrames'
  BY <1>2, <1>5, BytesKept DEF dewhiteningVars, crcVars
<1> QED  BY <1>7, <1>8, <1>9, <1>10, <1>11 DEF IInv

----------------------------------------------------------------------------
(***************************************************************************)
(* "work_done" at dewhitening, and the calls of crc_verif that publish     *)
(* nothing.                                                                *)
(***************************************************************************)

\* The nibbles stay where they are.
LEMMA NibblesKept ==
  ASSUME IInv, UNCHANGED <<m_exit, sent, written, nibbles>>
  PROVE  /\ WrittenInFrame' /\ NibblesInOrder'
         /\ \A k : NibblePlace(k)' = NibblePlace(k)
         /\ \A g, m : PlaceAt(g, m)' = PlaceAt(g, m)
         /\ \A g : BytesOf(g)' = BytesOf(g)
<1>1. \A k : NibblePlace(k)' = NibblePlace(k)
  BY DEF NibblePlace
<1>2. /\ \A g, m : PlaceAt(g, m)' = PlaceAt(g, m)
      /\ \A g : NibblesOf(g)' = NibblesOf(g)
      /\ \A g : BytesOf(g)' = BytesOf(g)
  BY DEF PlaceAt, NibblesOf, BytesOf, FrameBytes
<1>3. NibblesInOrder'
  BY <1>1, <1>2 DEF IInv, NibblesInOrder
<1>4. WrittenInFrame'
  BY <1>2 DEF IInv, WrittenInFrame
<1> QED  BY <1>1, <1>2, <1>3, <1>4

LEMMA DewhitenDoneKeeps ==
  ASSUME IInv, DewhitenDone
  PROVE  IInv'
<1>1. PICK L \in Nat : L = Len(bytes)
  BY DEF IInv, TypeOK
<1>2. UNCHANGED <<m_exit, sent, written, nibbles, dewhiteningVars, crcVars>>
  BY DEF DewhitenDone, envVars
<1>3. IsDone(Done) /\ Done \in Byte \cup {Done}
  BY DEF Done, IsDone
<1>4. /\ bytes \in Seq(Byte \cup {Done})
      /\ bytes' \in Seq(Byte \cup {Done}) /\ Len(bytes') = L + 1
      /\ \A k \in 1 .. L : bytes'[k] = bytes[k]
      /\ bytes'[L + 1] = Done
  <2>1. bytes \in Seq(Byte \cup {Done})
    BY DEF IInv, TypeOK
  <2>2. bytes' = Append(bytes, Done)
    BY DEF DewhitenDone
  <2> QED  BY <1>1, <1>3, <2>1, <2>2, AppendFacts
<1>5. /\ WrittenInFrame' /\ NibblesInOrder'
      /\ \A k : NibblePlace(k)' = NibblePlace(k)
      /\ \A g, m : PlaceAt(g, m)' = PlaceAt(g, m)
      /\ \A g : BytesOf(g)' = BytesOf(g)
  BY <1>2, NibblesKept
<1>6. \A k \in Nat : BytePlace(k)' = BytePlace(k)
  <2> SUFFICES ASSUME NEW k \in Nat PROVE BytePlace(k)' = BytePlace(k)
    OBVIOUS
  <2>1. CASE k \in 1 .. L
    BY <1>1, <1>4, <1>5, <2>1 DEF BytePlace
  <2>2. CASE k = L + 1
    BY <1>1, <1>3, <1>4, <1>5, <2>2 DEF BytePlace
  <2>3. CASE k > L + 1
    BY <1>1, <1>4, <1>5, <2>3 DEF BytePlace
  <2>4. CASE k = 0
    BY <1>1, <1>4, <1>5, <2>4 DEF BytePlace
  <2> QED  BY <1>1, <2>1, <2>2, <2>3, <2>4
<1>7. BytesInOrder'
  <2> SUFFICES ASSUME NEW k \in 1 .. Len(bytes'), ~IsDone(bytes'[k])
               PROVE  /\ bytes'[k].frame \in 1 .. NFrames
                      /\ bytes'[k].i < BytesOf(bytes'[k].frame)
                      /\ bytes'[k].key = IF bytes'[k].i < sent[bytes'[k].frame].pay_len
                                         THEN bytes'[k].i ELSE Raw
                      /\ \A j \in 1 .. BytesOf(bytes'[k].frame) - bytes'[k].i :
                           k + j <= Len(bytes') + 1 /\ ~IsDone(bytes'[k + j - 1]) =>
                             BytePlace(k + j)' = PlaceAt(bytes'[k].frame, 2 * (bytes'[k].i + j))
    BY <1>2, <1>5, Zenon DEF BytesInOrder
  <2>1. k # L + 1
    BY <1>3, <1>4
  <2>2. k \in 1 .. L /\ bytes'[k] = bytes[k]
    BY <1>4, <2>1
  <2>3. PICK g, i : g = bytes[k].frame /\ i = bytes[k].i
    OBVIOUS
  <2>4. /\ g \in 1 .. NFrames /\ i < BytesOf(g)
        /\ bytes[k].key = IF i < sent[g].pay_len THEN i ELSE Raw
        /\ \A j \in 1 .. BytesOf(g) - i :
             k + j <= L + 1 /\ ~IsDone(bytes[k + j - 1]) =>
               BytePlace(k + j) = PlaceAt(g, 2 * (i + j))
    BY <1>1, <2>2, <2>3 DEF IInv, BytesInOrder
  <2>5. PICK G \in 1 .. 257 : G = BytesOf(g)
    BY <2>4, FrameFacts, ZenonT(60) DEF IInv, TypeOK
  <2>6. i \in 0 .. 256
    <3>1. k \in 1 .. Len(bytes)
      BY <1>1, <2>2
    <3> QED  BY <2>3, <3>1, ByteTypes DEF IInv
  <2>7. ASSUME NEW j \in 1 .. G - i, k + j <= L + 2, ~IsDone(bytes'[k + j - 1])
        PROVE  BytePlace(k + j)' = PlaceAt(g, 2 * (i + j))
    <3>1. k + j - 1 # L + 1
      BY <1>3, <1>4, <2>7
    <3>2. k \in Nat /\ j \in Nat /\ k >= 1 /\ j >= 1
      BY <2>2, <2>6
    <3>3. k + j - 1 \in 1 .. L /\ k + j <= L + 1 /\ k + j \in Nat
      BY <2>7, <3>1, <3>2
    <3> QED  BY <1>4, <1>6, <2>4, <2>5, <2>7, <3>3
  <2> QED  BY <1>4, <2>2, <2>3, <2>4, <2>5, <2>7
<1>8. TypeOK'
  BY <1>2, <1>4 DEF IInv, TypeOK, dewhiteningVars, crcVars
<1>9. DoneLast'
  <2>1. HasDone(nibbles)' /\ nibbles' = nibbles /\ m_exit' = m_exit /\ written' = written
    BY <1>2 DEF DewhitenDone, HasDone
  <2>2. \A k \in 1 .. Len(bytes') : IsDone(bytes'[k]) => k = Len(bytes')
    <3>1. \A k \in 1 .. L : ~IsDone(bytes[k])
      BY <1>1 DEF DewhitenDone, HasDone
    <3> QED  BY <1>4, <3>1
  <2> QED  BY <2>1, <2>2 DEF IInv, DoneLast
<1>10. OffsetOfPlace' /\ AtFrameStart' /\ MessagesAreFrames'
  BY <1>2, <1>5, <1>6
     DEF IInv, OffsetOfPlace, AtFrameStart, MessagesAreFrames, PayloadOf, dewhiteningVars, crcVars
<1> QED  BY <1>5, <1>7, <1>8, <1>9, <1>10 DEF IInv

LEMMA ZeroOfDouble ==
  ASSUME NEW x \in 0 .. 256, 2 * x = 0
  PROVE  x = 0
  OBVIOUS

\* crc_verif always begins with the first byte of the frame whose turn it is,
\* so that it knows the lengths of this frame.
LEMMA CrcAtFrameStart ==
  ASSUME IInv, bytes # <<>>, m_exit => ~HasDone(bytes)
  PROVE  /\ Len(msg) \in Nat /\ Len(msg) + 1 \in 1 .. NFrames
         /\ 1 \in 1 .. Len(bytes)
         /\ \A k \in 1 .. Len(bytes) : ~IsDone(bytes[k])
         /\ bytes[1].frame = Len(msg) + 1 /\ bytes[1].i = 0
         /\ CrcPayloadLenNow = sent[Len(msg) + 1].pay_len
         /\ CrcPresenceNow = sent[Len(msg) + 1].crc
<1>1. bytes \in Seq(Byte \cup {Done}) /\ msg \in Seq(Seq(Byte)) /\ TypeOK
  BY DEF IInv, TypeOK
<1>2. Len(msg) \in Nat /\ 1 \in 1 .. Len(bytes)
  BY <1>1
<1>3. \A k \in 1 .. Len(bytes) : ~IsDone(bytes[k])
  <2>1. CASE m_exit
    BY <2>1 DEF HasDone
  <2>2. CASE ~m_exit
    <3>1. ~HasDone(nibbles)
      BY <2>2 DEF IInv, DoneLast, HasDone
    <3> QED  BY <3>1 DEF IInv, DoneLast
  <2> QED  BY <2>1, <2>2
<1>4. [frame |-> bytes[1].frame, n |-> 2 * bytes[1].i] = [frame |-> Len(msg) + 1, n |-> 0]
  BY <1>2, <1>3 DEF IInv, AtFrameStart, BytePlace
<1>5. bytes[1].frame = Len(msg) + 1 /\ 2 * bytes[1].i = 0
  BY <1>4
<1>6. bytes[1].i \in 0 .. 256
  BY <1>1, <1>2, ByteTypes
<1>7. bytes[1].i = 0
  <2>1. 2 * bytes[1].i = 0
    BY <1>5
  <2> QED  BY <1>6, <2>1, ZeroOfDouble, Zenon
<1>8. IsTagged(bytes[1])
  BY <1>2, <1>3, <1>7 DEF IsTagged
<1>9. bytes[1].frame \in 1 .. NFrames
  BY <1>2, <1>3 DEF IInv, BytesInOrder
<1> QED  BY <1>2, <1>3, <1>5, <1>7, <1>8, <1>9 DEF CrcPayloadLenNow, CrcPresenceNow

LEMMA CrcLengthTypes ==
  ASSUME IInv, bytes # <<>>, m_exit => ~HasDone(bytes)
  PROVE  CrcPayloadLenNow \in 1 .. 255 /\ CrcPresenceNow \in {0, 1}
<1>1. sent \in [1 .. NFrames -> FrameKinds]
  BY DEF IInv, TypeOK
<1>2. PICK f \in 1 .. NFrames : CrcPayloadLenNow = sent[f].pay_len /\ CrcPresenceNow = sent[f].crc
  BY CrcAtFrameStart
<1>3. sent[f].pay_len \in 1 .. 255 /\ sent[f].crc \in {0, 1}
  BY <1>1, FrameFacts
<1> QED  BY <1>2, <1>3

LEMMA AwaitBytesKeeps ==
  ASSUME IInv, AwaitBytes
  PROVE  IInv'
<1>1. UNCHANGED <<m_exit, sent, written, nibbles, dewhiteningVars, bytes, msg, exited>>
  BY DEF AwaitBytes, envVars
<1>2. NibblePlace(1)' = NibblePlace(1) /\ WrittenInFrame' /\ NibblesInOrder'
  BY <1>1, NibblesKept
<1>3. OffsetOfPlace' /\ BytesInOrder' /\ AtFrameStart' /\ MessagesAreFrames'
  BY <1>1, <1>2, BytesKept DEF dewhiteningVars
<1>4. crc_payload_len' \in 0 .. 255 /\ crc_crc_presence' \in {0, 1}
  BY CrcLengthTypes DEF AwaitBytes
<1>5. TypeOK'
  BY <1>1, <1>4 DEF IInv, TypeOK, dewhiteningVars
<1>6. DoneLast'
  BY <1>1 DEF IInv, DoneLast, HasDone
<1> QED  BY <1>2, <1>3, <1>5, <1>6 DEF IInv

LEMMA ExitKeeps ==
  ASSUME IInv, Exit
  PROVE  IInv'
<1>1. UNCHANGED <<m_exit, sent, written, nibbles, dewhiteningVars, bytes, msg,
                  crc_payload_len, crc_crc_presence>>
  BY DEF Exit, envVars
<1>2. NibblePlace(1)' = NibblePlace(1) /\ WrittenInFrame' /\ NibblesInOrder'
  BY <1>1, NibblesKept
<1>3. OffsetOfPlace' /\ BytesInOrder' /\ AtFrameStart' /\ MessagesAreFrames'
  BY <1>1, <1>2, BytesKept DEF dewhiteningVars
<1>4. exited' \in BOOLEAN
  BY DEF Exit
<1>5. TypeOK'
  BY <1>1, <1>4 DEF IInv, TypeOK, dewhiteningVars
<1>6. DoneLast'
  BY <1>1 DEF IInv, DoneLast, HasDone
<1> QED  BY <1>2, <1>3, <1>5, <1>6 DEF IInv

----------------------------------------------------------------------------
(***************************************************************************)
(* A message is published.                                                 *)
(***************************************************************************)

\* The bytes in front of crc_verif, up to the end of the frame.
LEMMA FrameAtFront ==
  ASSUME IInv, bytes # <<>>, m_exit => ~HasDone(bytes),
         NEW f, f = Len(msg) + 1, NEW k \in 1 .. Len(bytes), k <= BytesOf(f)
  PROVE  /\ bytes[k] \in Byte
         /\ bytes[k].frame = f /\ bytes[k].i = k - 1 /\ bytes[k].done = FALSE
         /\ bytes[k].key = IF k - 1 < sent[f].pay_len THEN k - 1 ELSE Raw
<1>1. /\ f \in 1 .. NFrames /\ 1 \in 1 .. Len(bytes)
      /\ \A q \in 1 .. Len(bytes) : ~IsDone(bytes[q])
      /\ bytes[1].frame = f /\ bytes[1].i = 0
  BY CrcAtFrameStart
<1>2. PICK B \in 1 .. 257 : B = BytesOf(f) /\ NibblesOf(f) = 2 * B
  BY <1>1, FrameFacts, ZenonT(60) DEF IInv, TypeOK
<1>3. ~IsDone(bytes[k]) /\ bytes[k] \in Byte /\ bytes[k].i \in 0 .. 256
  BY <1>1, ByteTypes DEF IInv
<1>4. bytes[k].frame = f /\ bytes[k].i = k - 1
  <2>1. CASE k = 1
    BY <1>1, <2>1
  <2>2. CASE k # 1
    <3>1. PICK j \in 1 .. B - 0 : j = k - 1 /\ 1 + j = k /\ j < B
      <4>1. k - 1 \in 1 .. B - 0 /\ 1 + (k - 1) = k /\ k - 1 < B
        BY <1>2, <2>2
      <4> QED  BY <4>1
    <3>2. 1 + j <= Len(bytes) + 1 /\ 1 + j - 1 \in 1 .. Len(bytes)
      BY <3>1
    <3>3. BytePlace(1 + j) = PlaceAt(f, 2 * (0 + j))
      BY <1>1, <1>2, <3>1, <3>2 DEF IInv, BytesInOrder
    <3>4. 2 * (0 + j) # NibblesOf(f) /\ 2 * (0 + j) = 2 * j
      BY <1>2, <3>1
    <3>5. BytePlace(k) = [frame |-> f, n |-> 2 * j]
      BY <3>1, <3>3, <3>4 DEF PlaceAt
    <3>6. BytePlace(k) = [frame |-> bytes[k].frame, n |-> 2 * bytes[k].i]
      BY <1>3 DEF BytePlace
    <3>7. bytes[k].frame = f /\ 2 * bytes[k].i = 2 * j
      BY <3>5, <3>6
    <3>8. PICK x \in 0 .. 256 : x = bytes[k].i
      BY <1>3
    <3>9. x = j
      BY <3>7, <3>8
    <3> QED  BY <3>1, <3>7, <3>8, <3>9
  <2> QED  BY <2>1, <2>2
<1>5. bytes[k].key = IF bytes[k].i < sent[bytes[k].frame].pay_len THEN bytes[k].i ELSE Raw
  BY <1>3 DEF IInv, BytesInOrder
<1>6. bytes[k].done = FALSE
  <2>1. bytes[k].done \in BOOLEAN
    BY <1>3 DEF Byte
  <2> QED  BY <1>3, <2>1, Zenon DEF IsDone
<1> QED  BY <1>3, <1>4, <1>5, <1>6

LEMMA PublishKeeps ==
  ASSUME IInv, Publish
  PROVE  IInv'
<1>a. bytes # <<>> /\ (m_exit => ~HasDone(bytes))
  BY DEF Publish
<1>b. bytes \in Seq(Byte \cup {Done}) /\ msg \in Seq(Seq(Byte)) /\ TypeOK
      /\ sent \in [1 .. NFrames -> FrameKinds]
  BY DEF IInv, TypeOK
<1>c. PICK f \in 1 .. NFrames :
        /\ f = Len(msg) + 1
        /\ CrcPayloadLenNow = sent[f].pay_len /\ CrcPresenceNow = sent[f].crc
        /\ bytes[1].frame = f /\ bytes[1].i = 0
  BY <1>a, CrcAtFrameStart
<1>d. /\ \A k \in 1 .. Len(bytes) : ~IsDone(bytes[k])
      /\ 1 \in 1 .. Len(bytes)
  BY <1>a, CrcAtFrameStart
<1>e. PICK B \in 1 .. 257 : B = BytesOf(f) /\ NibblesOf(f) = 2 * B
  BY <1>b, FrameFacts, ZenonT(60)
<1>f. PICK p \in 1 .. 255 : p = sent[f].pay_len /\ p <= B
  <2>1. sent[f].pay_len \in 1 .. 255 /\ sent[f].crc \in {0, 1}
        /\ B = sent[f].pay_len + 2 * sent[f].crc
    BY <1>b, <1>e, FrameFacts
  <2>2. sent[f].pay_len <= B
    BY <2>1, SMTT(60)
  <2> QED  BY <2>1, <2>2
<1>g. PICK L \in Nat : L = Len(bytes) /\ B <= L
  <2>1. FrameBytes(CrcPayloadLenNow, CrcPresenceNow) = B
    BY <1>c, <1>e DEF BytesOf
  <2> QED  BY <1>b, <2>1 DEF Publish
<1>1. /\ msg' = Append(msg, SubSeq(bytes, 1, p))
      /\ bytes' = SubSeq(bytes, B + 1, Len(bytes))
  <2>1. FrameBytes(CrcPayloadLenNow, CrcPresenceNow) = B /\ CrcPayloadLenNow = p
    BY <1>c, <1>e, <1>f DEF BytesOf
  <2> QED  BY <2>1 DEF Publish
<1>2. UNCHANGED <<m_exit, sent, written, nibbles, dewhiteningVars, exited>>
  BY DEF Publish, envVars
<1>3. /\ WrittenInFrame' /\ NibblesInOrder'
      /\ \A k : NibblePlace(k)' = NibblePlace(k)
      /\ \A g, m : PlaceAt(g, m)' = PlaceAt(g, m)
      /\ \A g : BytesOf(g)' = BytesOf(g)
  BY <1>2, NibblesKept
<1>4. /\ bytes' \in Seq(Byte \cup {Done}) /\ Len(bytes') = L - B
      /\ \A k \in 1 .. (L - B) : bytes'[k] = bytes[B + k]
  <2>1. B \in 0 .. Len(bytes)
    BY <1>g
  <2> QED  BY <1>1, <1>b, <1>g, <2>1, SuffixFacts, ZenonT(60)
<1>5. \A k \in 1 .. (L - B) : ~IsDone(bytes'[k]) /\ ~IsDone(bytes[B + k]) /\ B + k \in 1 .. L
  <2>1. \A k \in 1 .. (L - B) : B + k \in 1 .. L
    BY <1>g
  <2> QED  BY <1>d, <1>g, <1>4, <2>1
<1>6. \A k \in Nat \ {0} : BytePlace(k)' = BytePlace(B + k)
  <2> SUFFICES ASSUME NEW k \in Nat \ {0} PROVE BytePlace(k)' = BytePlace(B + k)
    OBVIOUS
  <2>1. CASE k \in 1 .. (L - B)
    BY <1>3, <1>4, <1>5, <1>g, <2>1 DEF BytePlace
  <2>2. CASE k \notin 1 .. (L - B)
    <3>1. B + k \notin 1 .. Len(bytes) /\ k \notin 1 .. Len(bytes')
      BY <1>4, <1>g, <2>2
    <3> QED  BY <1>3, <3>1 DEF BytePlace
  <2> QED  BY <2>1, <2>2
<1>7. \A k \in 1 .. p : SubSeq(bytes, 1, p)[k] = PayloadOf(f)[k]
  <2> SUFFICES ASSUME NEW k \in 1 .. p PROVE SubSeq(bytes, 1, p)[k] = PayloadOf(f)[k]
    OBVIOUS
  <2>1. k \in 1 .. Len(bytes) /\ k <= BytesOf(f) /\ k - 1 < sent[f].pay_len /\ p <= Len(bytes)
        /\ k \in 1 .. sent[f].pay_len
    BY <1>e, <1>f, <1>g
  <2>2. bytes[k] \in Byte /\ bytes[k].frame = f /\ bytes[k].i = k - 1 /\ bytes[k].done = FALSE
        /\ bytes[k].key = k - 1
    BY <1>a, <1>c, <2>1, FrameAtFront
  <2>3. bytes[k] = [frame |-> f, i |-> k - 1, done |-> FALSE, key |-> k - 1]
    BY <2>2 DEF Byte
  <2>4. PayloadOf(f)[k] = [frame |-> f, i |-> k - 1, done |-> FALSE, key |-> k - 1]
    BY <2>1 DEF PayloadOf
  <2>5. SubSeq(bytes, 1, p)[k] = bytes[k]
    BY <1>b, <2>1
  <2> QED  BY <2>3, <2>4, <2>5
<1>8. SubSeq(bytes, 1, p) = PayloadOf(f) /\ SubSeq(bytes, 1, p) \in Seq(Byte)
  <2>1. \A k \in 1 .. p : bytes[k] \in Byte
    <3> SUFFICES ASSUME NEW k \in 1 .. p PROVE bytes[k] \in Byte
      OBVIOUS
    <3>1. k \in 1 .. Len(bytes) /\ k <= BytesOf(f)
      BY <1>e, <1>f, <1>g
    <3> QED  BY <1>a, <1>c, <3>1, FrameAtFront
  <2>2. SubSeq(bytes, 1, p) = [k \in 1 .. p |-> bytes[k]]
    BY <1>b, <1>f, <1>g
  <2>3. DOMAIN PayloadOf(f) = 1 .. p /\ PayloadOf(f) = [k \in 1 .. p |-> PayloadOf(f)[k]]
    BY <1>f DEF PayloadOf
  <2>4. SubSeq(bytes, 1, p) = PayloadOf(f)
    BY <1>7, <2>2, <2>3
  <2> QED  BY <2>1, <2>2, <2>4
<1>9. /\ msg' \in Seq(Seq(Byte)) /\ Len(msg') = f
      /\ \A k \in 1 .. Len(msg) : msg'[k] = msg[k]
      /\ msg'[f] = PayloadOf(f)
  <2>1. PICK x \in Seq(Byte) : x = SubSeq(bytes, 1, p) /\ x = PayloadOf(f)
    BY <1>8
  <2>2. /\ Append(msg, x) \in Seq(Seq(Byte)) /\ Len(Append(msg, x)) = Len(msg) + 1
        /\ \A k \in 1 .. Len(msg) : Append(msg, x)[k] = msg[k]
        /\ Append(msg, x)[Len(msg) + 1] = x
    BY <1>b, AppendFacts
  <2> QED  BY <1>1, <1>c, <2>1, <2>2
<1>10. MessagesAreFrames'
  <2>1. \A g : PayloadOf(g)' = PayloadOf(g)
    BY <1>2 DEF PayloadOf
  <2>2. ASSUME NEW k \in 1 .. Len(msg') PROVE msg'[k] = PayloadOf(k)
    <3>1. k \in 1 .. Len(msg) \/ k = f
      BY <1>b, <1>c, <1>9
    <3> QED  BY <1>9, <3>1 DEF IInv, MessagesAreFrames
  <2> QED  BY <2>1, <2>2 DEF MessagesAreFrames
<1>11. AtFrameStart'
  <2>1. B \in 1 .. B - 0 /\ 1 + B <= L + 1 /\ 1 + B - 1 \in 1 .. L
        /\ 1 + B = B + 1 /\ 2 * (0 + B) = 2 * B
    BY <1>g
  <2>2. ~IsDone(bytes[1]) /\ ~IsDone(bytes[1 + B - 1])
    BY <1>d, <1>g, <2>1
  <2>3. BytePlace(1 + B) = PlaceAt(f, 2 * (0 + B))
    BY <1>c, <1>d, <1>e, <1>g, <2>1, <2>2 DEF IInv, BytesInOrder
  <2>4. PlaceAt(f, 2 * (0 + B)) = [frame |-> f + 1, n |-> 0]
    BY <1>e, <2>1 DEF PlaceAt
  <2>5. BytePlace(1)' = BytePlace(B + 1)
    BY <1>6
  <2> QED  BY <1>9, <2>1, <2>3, <2>4, <2>5 DEF AtFrameStart
<1>12. BytesInOrder'
  <2> SUFFICES ASSUME NEW k \in 1 .. Len(bytes'), ~IsDone(bytes'[k])
               PROVE  /\ bytes'[k].frame \in 1 .. NFrames
                      /\ bytes'[k].i < BytesOf(bytes'[k].frame)
                      /\ bytes'[k].key = IF bytes'[k].i < sent[bytes'[k].frame].pay_len
                                         THEN bytes'[k].i ELSE Raw
                      /\ \A j \in 1 .. BytesOf(bytes'[k].frame) - bytes'[k].i :
                           k + j <= Len(bytes') + 1 /\ ~IsDone(bytes'[k + j - 1]) =>
                             BytePlace(k + j)' = PlaceAt(bytes'[k].frame, 2 * (bytes'[k].i + j))
    BY <1>2, <1>3, Zenon DEF BytesInOrder
  <2>1. PICK K \in 1 .. L : K = B + k /\ bytes'[k] = bytes[K] /\ ~IsDone(bytes[K])
    BY <1>4, <1>5
  <2>2. PICK g, i : g = bytes[K].frame /\ i = bytes[K].i
    OBVIOUS
  <2>3. /\ g \in 1 .. NFrames /\ i < BytesOf(g)
        /\ bytes[K].key = IF i < sent[g].pay_len THEN i ELSE Raw
        /\ \A j \in 1 .. BytesOf(g) - i :
             K + j <= L + 1 /\ ~IsDone(bytes[K + j - 1]) =>
               BytePlace(K + j) = PlaceAt(g, 2 * (i + j))
    BY <1>g, <2>1, <2>2 DEF IInv, BytesInOrder
  <2>4. PICK G \in 1 .. 257 : G = BytesOf(g)
    BY <1>b, <2>3, FrameFacts, ZenonT(60)
  <2>5. i \in 0 .. 256
    <3>1. K \in 1 .. Len(bytes)
      BY <1>g
    <3> QED  BY <1>b, <2>2, <3>1, ByteTypes
  <2>6. ASSUME NEW j \in 1 .. G - i, k + j <= L - B + 1
        PROVE  BytePlace(k + j)' = PlaceAt(g, 2 * (i + j))
    <3>1. j \in Nat /\ j >= 1
      BY <2>5
    <3>2. K + j <= L + 1 /\ K + j - 1 \in 1 .. L /\ k + j \in Nat \ {0} /\ B + (k + j) = K + j
      BY <1>g, <2>1, <2>6, <3>1
    <3> QED  BY <1>6, <1>d, <1>g, <2>3, <2>4, <3>2
  <2> QED  BY <1>4, <2>1, <2>2, <2>3, <2>4, <2>6, ZenonT(60)
<1>13. TypeOK'
  <2>1. crc_payload_len' \in 0 .. 255 /\ crc_crc_presence' \in {0, 1}
    BY <1>a, CrcLengthTypes DEF Publish
  <2> QED  BY <1>2, <1>4, <1>9, <2>1 DEF IInv, TypeOK, dewhiteningVars
<1>14. DoneLast'
  BY <1>2, <1>4, <1>5 DEF IInv, DoneLast, HasDone
<1>15. OffsetOfPlace'
  BY <1>2, <1>3 DEF IInv, OffsetOfPlace, dewhiteningVars
<1> QED  BY <1>3, <1>10, <1>11, <1>12, <1>13, <1>14, <1>15 DEF IInv

----------------------------------------------------------------------------
(***************************************************************************)
(* dewhitening makes bytes.                                                *)
(***************************************************************************)

\* dewhitening knows the frame and the byte at which it is.
LEMMA DewhitenNow ==
  ASSUME IInv, Len(nibbles) >= 2, ~HasDone(nibbles)
  PROVE  /\ \A k \in 1 .. Len(nibbles) : ~IsDone(nibbles[k])
         /\ \A k \in 1 .. Len(bytes) : ~IsDone(bytes[k])
         /\ nibbles[1].frame \in 1 .. NFrames
         /\ PayloadLenNow = sent[nibbles[1].frame].pay_len
         /\ CrcNow = sent[nibbles[1].frame].crc
         /\ OffsetNow \in 0 .. BytesOf(nibbles[1].frame) - 1
         /\ nibbles[1].i = 2 * OffsetNow
         /\ IsTagged(nibbles[1]) <=> OffsetNow = 0
         /\ NibblePlace(1) = [frame |-> nibbles[1].frame, n |-> 2 * OffsetNow]
<1>1. /\ \A k \in 1 .. Len(nibbles) : ~IsDone(nibbles[k])
      /\ \A k \in 1 .. Len(bytes) : ~IsDone(bytes[k])
  <2>1. \A k \in 1 .. Len(nibbles) : ~IsDone(nibbles[k])
    BY DEF HasDone
  <2>2. \A k \in 1 .. Len(bytes) : ~IsDone(bytes[k])
    BY DEF IInv, DoneLast
  <2> QED  BY <2>1, <2>2
<1>2. nibbles \in Seq(Item) /\ sent \in [1 .. NFrames -> FrameKinds] /\ TypeOK
      /\ offset \in 0 .. (m_payload_len + 2 * m_crc_presence)
      /\ m_payload_len \in 0 .. 255 /\ m_crc_presence \in {0, 1}
  BY DEF IInv, TypeOK
<1>3. 1 \in 1 .. Len(nibbles) /\ ~IsDone(nibbles[1])
  BY <1>1, <1>2
<1>4. PICK f, i : f = nibbles[1].frame /\ i = nibbles[1].i
  OBVIOUS
<1>5. f \in 1 .. NFrames /\ i < NibblesOf(f) /\ i \in 0 .. 513
  BY <1>2, <1>3, <1>4, ItemTypes DEF IInv, NibblesInOrder
<1>6. PICK B \in 1 .. 257 : B = BytesOf(f) /\ NibblesOf(f) = 2 * B
  BY <1>2, <1>5, FrameFacts, ZenonT(60)
<1>7. NibblePlace(1) = [frame |-> f, n |-> i]
  BY <1>3, <1>4 DEF NibblePlace
<1>8. IsTagged(nibbles[1]) <=> i = 0
  BY <1>3, <1>4 DEF IsTagged
<1>9. CASE i = 0
  <2>1. PayloadLenNow = sent[f].pay_len /\ CrcNow = sent[f].crc /\ OffsetNow = 0
    BY <1>4, <1>8, <1>9 DEF PayloadLenNow, CrcNow, OffsetNow
  <2>2. 0 \in 0 .. B - 1 /\ i = 2 * 0
    BY <1>9
  <2> QED  BY <1>1, <1>4, <1>5, <1>6, <1>7, <1>8, <1>9, <2>1, <2>2
<1>10. CASE i # 0
  <2>1. PayloadLenNow = m_payload_len /\ CrcNow = m_crc_presence /\ OffsetNow = offset
    BY <1>8, <1>10 DEF PayloadLenNow, CrcNow, OffsetNow
  <2>2. i > 0
    BY <1>5, <1>10
  <2>3. NibblePlace(1).frame = f /\ NibblePlace(1).n = i
    BY <1>7
  <2>4. m_payload_len = sent[f].pay_len /\ m_crc_presence = sent[f].crc /\ i = 2 * offset
    BY <2>2, <2>3 DEF IInv, OffsetOfPlace
  <2>5. offset \in 0 .. B - 1 /\ offset # 0
    <3>1. offset \in Int
      BY <1>2
    <3>2. i < 2 * B
      BY <1>5, <1>6
    <3> QED  BY <1>5, <2>2, <2>4, <3>1, <3>2
  <2> QED  BY <1>1, <1>4, <1>5, <1>6, <1>7, <1>8, <1>10, <2>1, <2>4, <2>5
<1> QED  BY <1>9, <1>10

\* The window has no more than the items on the link, and both nibbles of the
\* first byte of a frame.
LEMMA WindowFacts ==
  ASSUME IInv, Len(nibbles) >= 2, ~HasDone(nibbles)
  PROVE  /\ Window(nibbles) \in 1 .. Len(nibbles)
         /\ IsTagged(nibbles[1]) => Window(nibbles) >= 2
<1> DEFINE next == {k \in 2 .. Len(nibbles) : IsTagged(nibbles[k])}
<1>1. Len(nibbles) \in Nat /\ sent \in [1 .. NFrames -> FrameKinds]
  BY DEF IInv, TypeOK
<1>2. CASE next = {}
  BY <1>1, <1>2 DEF Window
<1>3. CASE next # {}
  <2>1. next \in SUBSET Nat
    BY <1>1
  <2> HIDE DEF next
  <2>2. Min(next) \in next
    BY <1>3, <2>1, LeastNumber
  <2>3. Min(next) \in 2 .. Len(nibbles) /\ IsTagged(nibbles[Min(next)])
    BY <2>2 DEF next
  <2>4. Window(nibbles) = Min(next) - 1
    BY <1>3 DEF Window, next
  <2>5. IsTagged(nibbles[1]) => ~IsTagged(nibbles[2])
    <3> SUFFICES ASSUME IsTagged(nibbles[1]) PROVE ~IsTagged(nibbles[2])
      OBVIOUS
    <3>1. PICK f \in 1 .. NFrames : f = nibbles[1].frame
      BY DewhitenNow
    <3>2. PICK N \in 2 .. 514 : N = NibblesOf(f)
      BY <1>1, FrameFacts, ZenonT(60)
    <3>3. N # 1
      <4>1. PICK B \in 1 .. 257 : NibblesOf(f) = 2 * B
        BY <1>1, FrameFacts, ZenonT(60)
      <4> QED  BY <3>2, <4>1
    <3>4. nibbles[1].i = 0
      BY DEF IsTagged
    <3>5. 1 \in 1 .. Len(nibbles) /\ 2 \in 1 .. Len(nibbles) /\ 1 + 1 = 2 /\ 1 + 1 - 1 = 1
          /\ 1 \in 1 .. N - 0 /\ 1 + 1 <= Len(nibbles) + 1 /\ 0 + 1 = 1
      BY <1>1
    <3>6. ~IsDone(nibbles[1]) /\ ~IsDone(nibbles[2])
      BY <3>5, DewhitenNow
    <3>7. NibblePlace(1 + 1) = PlaceAt(f, 0 + 1)
      BY <3>1, <3>2, <3>4, <3>5, <3>6 DEF IInv, NibblesInOrder
    <3>8. NibblePlace(2) = [frame |-> f, n |-> 1]
      BY <3>2, <3>3, <3>5, <3>7 DEF PlaceAt
    <3>9. NibblePlace(2) = [frame |-> nibbles[2].frame, n |-> nibbles[2].i]
      BY <3>5, <3>6 DEF NibblePlace
    <3>10. nibbles[2].i = 1
      BY <3>8, <3>9
    <3> QED  BY <3>10 DEF IsTagged
  <2>6. PICK m \in 2 .. Len(nibbles) : m = Min(next)
    BY <2>3
  <2>7. IsTagged(nibbles[1]) => m # 2
    BY <2>3, <2>5, <2>6
  <2> QED  BY <1>1, <2>4, <2>6, <2>7
<1> QED  BY <1>2, <1>3

\* Half of a number of items, and of an even one.
LEMMA HalfFacts ==
  ASSUME NEW x \in Nat
  PROVE  x \div 2 \in Nat /\ 2 * (x \div 2) <= x /\ (x >= 2 => x \div 2 >= 1) /\ (2 * x) \div 2 = x
  OBVIOUS

\* A byte of a frame of B bytes, and the entry of the whitening sequence for one.
LEMMA IndexRange ==
  ASSUME NEW B \in 1 .. 257, NEW o \in 0 .. B - 1, NEW n \in 0 .. B - o, NEW m \in 1 .. n
  PROVE  o + m - 1 \in 0 .. 256
  OBVIOUS

LEMMA MadeByte ==
  ASSUME NEW f \in 0 .. NFrames, NEW x \in 0 .. 256, NEW p \in 1 .. 255
  PROVE  [frame |-> f, i |-> x, done |-> FALSE, key |-> IF x < p THEN x ELSE Raw] \in Byte
<1>1. PICK key \in -1 .. 254 : key = IF x < p THEN x ELSE Raw
  <2>1. Raw \in -1 .. 254 /\ (x < p => x \in -1 .. 254)
    BY SMTT(60) DEF Raw
  <2> QED  BY <2>1
<1> QED  BY <1>1 DEF Byte

\* The bytes made: the next ones of the frame, as many as the window and the
\* frame have.
LEMMA DewhitenedFacts ==
  ASSUME IInv, Len(nibbles) >= 2, ~HasDone(nibbles),
         NEW f \in 1 .. NFrames, f = nibbles[1].frame,
         NEW B \in 1 .. 257, B = BytesOf(f),
         NEW o \in 0 .. B - 1, o = OffsetNow
  PROVE  \E n \in 0 .. B - o :
           /\ 2 * n <= Len(nibbles)
           /\ o = 0 => n >= 1
           /\ Len(Dewhitened) = n
           /\ Dewhitened \in Seq(Byte \cup {Done})
           /\ \A m \in 1 .. n :
                Dewhitened[m] = [frame |-> f, i |-> o + m - 1, done |-> FALSE,
                                 key |-> IF o + m - 1 < sent[f].pay_len THEN o + m - 1 ELSE Raw]
<1>a. nibbles \in Seq(Item) /\ sent \in [1 .. NFrames -> FrameKinds] /\ TypeOK
  BY SMTT(60) DEF IInv, TypeOK
<1>b. /\ PayloadLenNow = sent[f].pay_len /\ CrcNow = sent[f].crc
      /\ nibbles[1].i = 2 * o /\ (IsTagged(nibbles[1]) <=> o = 0)
      /\ \A k \in 1 .. Len(nibbles) : ~IsDone(nibbles[k])
      /\ NibblePlace(1) = [frame |-> f, n |-> 2 * o]
  BY DewhitenNow, SMTT(60)
<1>p. PICK p \in 1 .. 255, c \in {0, 1} :
        /\ p = sent[f].pay_len /\ PayloadLenNow = p /\ CrcNow = c /\ B = p + 2 * c
  BY <1>a, <1>b, FrameFacts, ZenonT(60)
<1>c. NibblesOf(f) = 2 * B /\ PayloadLenNow + 2 * CrcNow = B
      /\ sent[f].pay_len \in 1 .. 255 /\ sent[f].crc \in {0, 1}
  BY <1>a, <1>b, FrameFacts, ZenonT(60)
<1>d. PICK W \in 1 .. Len(nibbles) : W = Window(nibbles) /\ (o = 0 => W >= 2)
  BY <1>b, WindowFacts
<1>e. PICK L \in Nat : L = Len(nibbles)
  BY <1>a
<1> DEFINE n == Min({Window(nibbles) \div 2, Max({(PayloadLenNow + 2 * CrcNow) - OffsetNow, 0})})
<1>3. Dewhitened = [k \in 1 .. n |->
         [frame |-> nibbles[2 * k - 1].frame, i |-> nibbles[2 * k - 1].i \div 2, done |-> FALSE,
          key |-> Key(OffsetNow + k - 1)]]
  BY Zenon DEF Dewhitened
<1>1. n = Min({Window(nibbles) \div 2, Max({(PayloadLenNow + 2 * CrcNow) - OffsetNow, 0})})
  OBVIOUS
<1> HIDE DEF n
<1>2. n \in 0 .. B - o /\ 2 * n <= L /\ (o = 0 => n >= 1)
  <2>1. PICK h \in Nat : h = W \div 2 /\ 2 * h <= W /\ (W >= 2 => h >= 1)
    <3>1. W \in Nat
      BY <1>d, <1>e
    <3> QED  BY <3>1, HalfFacts
  <2>2. PICK r \in 1 .. B : r = B - o
    <3>1. B - o \in 1 .. B
      OBVIOUS
    <3> QED  BY <3>1
  <2>3. Max({r, 0}) = r
    BY <2>2, MaxOfTwo
  <2>4. n = Min({h, r})
    <3>3. (PayloadLenNow + 2 * CrcNow) - OffsetNow = r
      <4>1. B = p + 2 * c
        BY <1>p
      <4>2. (p + 2 * c) - o = r
        BY <2>2, <4>1
      <4>3. PayloadLenNow = p /\ CrcNow = c /\ OffsetNow = o
        BY <1>p, Zenon
      <4> QED  BY ONLY <4>2, <4>3, Zenon
    <3>4. Window(nibbles) \div 2 = h
      BY <1>d, <2>1, Zenon
    <3> QED  BY <1>1, <2>3, <3>3, <3>4, Zenon
  <2>5. n = IF h <= r THEN h ELSE r
    BY <2>4, MinOfTwo
  <2>6. W <= L
    BY <1>d, <1>e
  <2> QED  BY <1>c, <1>d, <1>e, <2>1, <2>2, <2>5, <2>6, SMTT(60)
<1>4. ASSUME NEW m \in 1 .. n
      PROVE  nibbles[2 * m - 1].frame = f /\ nibbles[2 * m - 1].i = 2 * (o + m - 1)
  <2>1. CASE m = 1
    <3>1. 2 * m - 1 = 1 /\ o + m - 1 = o
      BY <1>b, <2>1
    <3> QED  BY <1>b, <3>1
  <2>2. CASE m # 1
    <3>1. PICK j \in 1 .. 2 * B - 2 * o : j = 2 * m - 2 /\ 1 + j = 2 * m - 1
                                          /\ 2 * o + j = 2 * (o + m - 1) /\ 2 * o + j < 2 * B
      <4>1. 2 * m - 2 \in 1 .. 2 * B - 2 * o /\ 1 + (2 * m - 2) = 2 * m - 1
            /\ 2 * o + (2 * m - 2) = 2 * (o + m - 1) /\ 2 * o + (2 * m - 2) < 2 * B
        BY <1>2, <1>b, <1>c, <2>2, SMTT(60)
      <4> QED  BY <4>1, SMTT(60)
    <3>2. 1 + j <= L + 1 /\ 1 + j - 1 \in 1 .. L /\ 1 + j \in 1 .. L /\ 1 \in 1 .. L
      BY <1>2, <3>1
    <3>3. ~IsDone(nibbles[1]) /\ ~IsDone(nibbles[1 + j - 1]) /\ ~IsDone(nibbles[1 + j])
      BY <1>b, <1>e, <3>2
    <3>4. NibblePlace(1 + j) = PlaceAt(f, 2 * o + j)
      BY <1>b, <1>c, <1>e, <3>1, <3>2, <3>3 DEF IInv, NibblesInOrder
    <3>5. 2 * o + j # NibblesOf(f)
      BY <1>b, <1>c, <3>1
    <3>6. NibblePlace(1 + j) = [frame |-> f, n |-> 2 * o + j]
      BY <3>4, <3>5 DEF PlaceAt
    <3>7. NibblePlace(1 + j) = [frame |-> nibbles[1 + j].frame, n |-> nibbles[1 + j].i]
      BY <1>e, <3>2, <3>3 DEF NibblePlace
    <3>8. nibbles[1 + j].frame = f /\ nibbles[1 + j].i = 2 * o + j
      <4>1. NibblePlace(1 + j).frame = f /\ NibblePlace(1 + j).n = 2 * o + j
        BY <3>6, SMTT(60)
      <4> QED  BY <3>7, <4>1, SMTT(60)
    <3> QED  BY <3>1, <3>8
  <2> QED  BY <2>1, <2>2
<1>5. ASSUME NEW m \in 1 .. n
      PROVE  Dewhitened[m] = [frame |-> f, i |-> o + m - 1, done |-> FALSE,
                              key |-> IF o + m - 1 < sent[f].pay_len THEN o + m - 1 ELSE Raw]
  <2>1. PICK x \in Nat : x = o + m - 1
    BY <1>2, <1>b
  <2>2. (2 * x) \div 2 = x
    BY HalfFacts
  <2>3. nibbles[2 * m - 1].frame = f /\ nibbles[2 * m - 1].i \div 2 = x
    BY <1>4, <2>1, <2>2
  <2>4. Key(OffsetNow + m - 1) = IF x < sent[f].pay_len THEN x ELSE Raw
    BY <1>b, <2>1 DEF Key
  <2>5. Dewhitened[m] = [frame |-> nibbles[2 * m - 1].frame, i |-> nibbles[2 * m - 1].i \div 2,
                         done |-> FALSE, key |-> Key(OffsetNow + m - 1)]
    BY <1>3
  <2> QED  BY <2>1, <2>3, <2>4, <2>5
<1>6. Dewhitened \in Seq(Byte \cup {Done}) /\ Len(Dewhitened) = n
  <2>1. \A m \in 1 .. n : Dewhitened[m] \in Byte
    <3> SUFFICES ASSUME NEW m \in 1 .. n PROVE Dewhitened[m] \in Byte
      OBVIOUS
    <3>1. PICK x \in 0 .. 256 : x = o + m - 1
      <4>1. o + m - 1 \in 0 .. 256
        BY <1>2, <1>b, <1>c, IndexRange
      <4> QED  BY <4>1, SMTT(60)
    <3>2. f \in 0 .. NFrames
      BY <1>b
    <3>3. [frame |-> f, i |-> x, done |-> FALSE, key |-> IF x < p THEN x ELSE Raw] \in Byte
      BY <3>2, MadeByte, Zenon
    <3> QED  BY <1>5, <1>p, <3>1, <3>3
  <2>2. DOMAIN Dewhitened = 1 .. n /\ Dewhitened = [k \in 1 .. n |-> Dewhitened[k]]
    BY <1>3
  <2> HIDE DEF Dewhitened
  <2>3. n \in Nat
    BY <1>2, <1>b
  <2> QED  BY <2>1, <2>2, <2>3, SMTT(60)
<1> QED  BY <1>2, <1>5, <1>6, <1>e

LEMMA DewhitenKeeps ==
  ASSUME IInv, Dewhiten
  PROVE  IInv'
<1>a. /\ bytes \in Seq(Byte \cup {Done}) /\ nibbles \in Seq(Item) /\ TypeOK
      /\ sent \in [1 .. NFrames -> FrameKinds] /\ Len(nibbles) <= NibblesCapacity
  BY DEF IInv, TypeOK
<1>b. Len(nibbles) >= 2 /\ ~HasDone(nibbles)
  BY DEF Dewhiten
<1>c. PICK f \in 1 .. NFrames :
        /\ f = nibbles[1].frame
        /\ PayloadLenNow = sent[f].pay_len /\ CrcNow = sent[f].crc
        /\ OffsetNow \in 0 .. BytesOf(f) - 1
        /\ NibblePlace(1) = [frame |-> f, n |-> 2 * OffsetNow]
  BY <1>b, DewhitenNow
<1>d. PICK B \in 1 .. 257 : B = BytesOf(f) /\ NibblesOf(f) = 2 * B
  BY <1>a, FrameFacts
<1>e. PICK o \in 0 .. B - 1 : o = OffsetNow
  BY <1>c, <1>d
<1>f. PICK n \in 0 .. B - o :
        /\ 2 * n <= Len(nibbles)
        /\ o = 0 => n >= 1
        /\ Len(Dewhitened) = n
        /\ Dewhitened \in Seq(Byte \cup {Done})
        /\ \A m \in 1 .. n :
             Dewhitened[m] = [frame |-> f, i |-> o + m - 1, done |-> FALSE,
                              key |-> IF o + m - 1 < sent[f].pay_len THEN o + m - 1 ELSE Raw]
  BY <1>b, <1>c, <1>d, <1>e, DewhitenedFacts
<1>g. PICK L \in Nat, M \in Nat : L = Len(bytes) /\ M = Len(nibbles) /\ 2 * n <= M
  BY <1>a, <1>f
<1>1. /\ m_payload_len' = sent[f].pay_len /\ m_crc_presence' = sent[f].crc /\ offset' = o + n
      /\ bytes' = bytes \o Dewhitened
      /\ nibbles' = SubSeq(nibbles, 2 * n + 1, Len(nibbles))
      /\ UNCHANGED <<m_exit, sent, written, crcVars>>
  BY <1>c, <1>e, <1>f DEF Dewhiten, envVars
<1>2. /\ \A k \in 1 .. M : ~IsDone(nibbles[k])
      /\ \A k \in 1 .. L : ~IsDone(bytes[k])
  BY <1>b, <1>g, DewhitenNow
<1>3. /\ \A g, m : PlaceAt(g, m)' = PlaceAt(g, m)
      /\ \A g : NibblesOf(g)' = NibblesOf(g)
      /\ \A g : BytesOf(g)' = BytesOf(g)
  BY <1>1 DEF PlaceAt, NibblesOf, BytesOf, FrameBytes
<1>4. /\ nibbles' \in Seq(Item) /\ Len(nibbles') = M - 2 * n
      /\ \A k \in 1 .. (M - 2 * n) : nibbles'[k] = nibbles[2 * n + k]
  <2>1. 2 * n \in 0 .. Len(nibbles)
    BY <1>g
  <2>2. PICK d \in 0 .. Len(nibbles) : d = 2 * n
    BY <2>1
  <2>3. /\ SubSeq(nibbles, d + 1, Len(nibbles)) \in Seq(Item)
        /\ Len(SubSeq(nibbles, d + 1, Len(nibbles))) = Len(nibbles) - d
        /\ \A k \in 1 .. (Len(nibbles) - d) : SubSeq(nibbles, d + 1, Len(nibbles))[k] = nibbles[d + k]
    BY <1>a, SuffixFacts
  <2> QED  BY <1>1, <1>g, <2>2, <2>3
<1>5. \A k \in 1 .. (M - 2 * n) : ~IsDone(nibbles'[k]) /\ 2 * n + k \in 1 .. M
  <2>1. \A k \in 1 .. (M - 2 * n) : 2 * n + k \in 1 .. M
    BY <1>g
  <2> QED  BY <1>2, <1>4, <2>1
<1>6. \A k \in Nat \ {0} : NibblePlace(k)' = NibblePlace(2 * n + k)
  <2> SUFFICES ASSUME NEW k \in Nat \ {0} PROVE NibblePlace(k)' = NibblePlace(2 * n + k)
    OBVIOUS
  <2>1. CASE k \in 1 .. (M - 2 * n)
    <3>1. 2 * n + k \in 1 .. Len(nibbles) /\ ~IsDone(nibbles[2 * n + k])
          /\ k \in 1 .. Len(nibbles') /\ ~IsDone(nibbles'[k]) /\ nibbles'[k] = nibbles[2 * n + k]
      BY <1>2, <1>4, <1>5, <1>g, <2>1
    <3> QED  BY <3>1 DEF NibblePlace
  <2>2. CASE k \notin 1 .. (M - 2 * n)
    <3>1. 2 * n + k \notin 1 .. Len(nibbles) /\ k \notin 1 .. Len(nibbles')
      BY <1>4, <1>g, <2>2
    <3> QED  BY <1>1, <3>1 DEF NibblePlace
  <2> QED  BY <2>1, <2>2
<1>7. NibblePlace(1)' = PlaceAt(f, 2 * (o + n))
  <2>1. NibblePlace(1)' = NibblePlace(2 * n + 1)
    BY <1>6
  <2>2. CASE n = 0
    <3>1. NibblePlace(1) = [frame |-> f, n |-> 2 * o] /\ 2 * n + 1 = 1 /\ o + n = o
      BY <1>c, <1>e, <2>2
    <3>2. 2 * o # NibblesOf(f)
      BY <1>d
    <3> QED  BY <2>1, <3>1, <3>2 DEF PlaceAt
  <2>3. CASE n # 0
    <3>1. PICK j \in 1 .. 2 * B - 2 * o : j = 2 * n /\ 1 + j = 2 * n + 1 /\ 2 * o + j = 2 * (o + n)
                                          /\ 1 + j - 1 = j /\ j \in 1 .. M /\ 1 \in 1 .. M
      <4>1. 2 * n \in 1 .. 2 * B - 2 * o /\ 1 + 2 * n = 2 * n + 1 /\ 2 * o + 2 * n = 2 * (o + n)
            /\ 1 + 2 * n - 1 = 2 * n /\ 2 * n \in 1 .. M /\ 1 \in 1 .. M
        BY <1>g, <2>3
      <4> QED  BY <4>1
    <3>2. ~IsDone(nibbles[1]) /\ ~IsDone(nibbles[1 + j - 1]) /\ 1 \in 1 .. Len(nibbles)
          /\ 1 + j <= Len(nibbles) + 1
      BY <1>2, <1>g, <3>1
    <3>3. nibbles[1].frame = f /\ nibbles[1].i = 2 * o
      BY <1>b, <1>c, <1>e, DewhitenNow
    <3>4. NibblePlace(1 + j) = PlaceAt(f, 2 * o + j)
      BY <1>d, <3>1, <3>2, <3>3 DEF IInv, NibblesInOrder
    <3> QED  BY <2>1, <3>1, <3>4
  <2> QED  BY <2>2, <2>3
<1>8. NibblesInOrder'
  <2> SUFFICES ASSUME NEW k \in 1 .. Len(nibbles'), ~IsDone(nibbles'[k])
               PROVE  /\ nibbles'[k].frame \in 1 .. NFrames
                      /\ nibbles'[k].i < NibblesOf(nibbles'[k].frame)
                      /\ \A j \in 1 .. NibblesOf(nibbles'[k].frame) - nibbles'[k].i :
                           k + j <= Len(nibbles') + 1 /\ ~IsDone(nibbles'[k + j - 1]) =>
                             NibblePlace(k + j)' = PlaceAt(nibbles'[k].frame, nibbles'[k].i + j)
    BY <1>3, Zenon DEF NibblesInOrder
  <2>1. PICK K \in 1 .. M : K = 2 * n + k /\ nibbles'[k] = nibbles[K] /\ ~IsDone(nibbles[K])
    <3>1. 2 * n + k \in 1 .. M /\ nibbles'[k] = nibbles[2 * n + k] /\ ~IsDone(nibbles[2 * n + k])
      BY <1>2, <1>4, <1>5
    <3> QED  BY <3>1
  <2>2. PICK g, i : g = nibbles[K].frame /\ i = nibbles[K].i
    OBVIOUS
  <2>3. /\ g \in 1 .. NFrames /\ i < NibblesOf(g)
        /\ \A j \in 1 .. NibblesOf(g) - i :
             K + j <= M + 1 /\ ~IsDone(nibbles[K + j - 1]) =>
               NibblePlace(K + j) = PlaceAt(g, i + j)
    BY <1>g, <2>1, <2>2 DEF IInv, NibblesInOrder
  <2>4. PICK G \in 2 .. 514 : G = NibblesOf(g)
    BY <1>a, <2>3, FrameFacts, ZenonT(60)
  <2>5. i \in 0 .. 513
    BY <1>a, <1>g, <2>2, ItemTypes
  <2>6. ASSUME NEW j \in 1 .. G - i, k + j <= M - 2 * n + 1
        PROVE  NibblePlace(k + j)' = PlaceAt(g, i + j)
    <3>1. j \in Nat /\ j >= 1
      BY <2>5
    <3>2. K + j <= M + 1 /\ K + j - 1 \in 1 .. M /\ k + j \in Nat \ {0} /\ 2 * n + (k + j) = K + j
      <4>1. k \in Nat /\ k >= 1 /\ n \in Nat
        BY <1>4
      <4>2. K = 2 * n + k
        BY <2>1
      <4> QED  BY <2>6, <3>1, <4>1, <4>2
    <3> QED  BY <1>6, <1>2, <2>3, <2>4, <3>2
  <2> QED  BY <1>4, <2>1, <2>2, <2>3, <2>4, <2>6, ZenonT(60)
<1>9. /\ bytes' \in Seq(Byte \cup {Done}) /\ Len(bytes') = L + n
      /\ \A k \in 1 .. L : bytes'[k] = bytes[k]
      /\ \A m \in 1 .. n : bytes'[L + m] = Dewhitened[m]
  <2>1. /\ bytes \o Dewhitened \in Seq(Byte \cup {Done})
        /\ Len(bytes \o Dewhitened) = Len(bytes) + Len(Dewhitened)
        /\ \A k \in 1 .. Len(bytes) : (bytes \o Dewhitened)[k] = bytes[k]
        /\ \A m \in 1 .. Len(Dewhitened) : (bytes \o Dewhitened)[Len(bytes) + m] = Dewhitened[m]
    <3>1. bytes \in Seq(Byte \cup {Done}) /\ Dewhitened \in Seq(Byte \cup {Done})
      BY <1>a, <1>f
    <3> QED  BY <3>1, ConcatFacts
  <2> QED  BY <1>1, <1>f, <1>g, <2>1
<1>10. \A m \in 1 .. n :
         /\ bytes'[L + m].frame = f /\ bytes'[L + m].i = o + m - 1 /\ ~IsDone(bytes'[L + m])
         /\ bytes'[L + m].key = IF o + m - 1 < sent[f].pay_len THEN o + m - 1 ELSE Raw
  <2> SUFFICES ASSUME NEW m \in 1 .. n
               PROVE  /\ bytes'[L + m].frame = f /\ bytes'[L + m].i = o + m - 1
                      /\ ~IsDone(bytes'[L + m])
                      /\ bytes'[L + m].key = IF o + m - 1 < sent[f].pay_len THEN o + m - 1 ELSE Raw
    OBVIOUS
  <2>1. PICK x, key : x = o + m - 1 /\ key = IF o + m - 1 < sent[f].pay_len THEN o + m - 1 ELSE Raw
    OBVIOUS
  <2>2. bytes'[L + m] = [frame |-> f, i |-> x, done |-> FALSE, key |-> key]
    BY <1>9, <1>f, <2>1
  <2>3. bytes'[L + m].frame = f /\ bytes'[L + m].i = x /\ bytes'[L + m].key = key
    BY <2>2
  <2>4. ~IsDone(bytes'[L + m])
    BY <2>2 DEF IsDone
  <2> QED  BY <2>1, <2>3, <2>4
<1>11. \A k \in 1 .. L + n : ~IsDone(bytes'[k])
  <2>1. \A k \in 1 .. L + n : k \in 1 .. L \/ (k - L \in 1 .. n /\ k = L + (k - L))
    BY <1>g
  <2> QED  BY <1>2, <1>9, <1>10, <2>1
<1>12. /\ \A k \in 1 .. L : BytePlace(k)' = BytePlace(k)
       /\ BytePlace(L + 1) = [frame |-> f, n |-> 2 * o]
  <2>1. \A k \in 1 .. L : BytePlace(k)' = BytePlace(k)
    <3> SUFFICES ASSUME NEW k \in 1 .. L PROVE BytePlace(k)' = BytePlace(k)
      OBVIOUS
    <3>1. k \in 1 .. Len(bytes) /\ k \in 1 .. Len(bytes') /\ bytes'[k] = bytes[k]
          /\ ~IsDone(bytes[k]) /\ ~IsDone(bytes'[k])
      BY <1>2, <1>9, <1>11, <1>g
    <3> QED  BY <3>1 DEF BytePlace
  <2>2. L + 1 \notin 1 .. Len(bytes)
    BY <1>g
  <2>3. BytePlace(L + 1) = NibblePlace(1)
    BY <2>2 DEF BytePlace
  <2> QED  BY <1>c, <1>e, <2>1, <2>3
<1>13. \A m \in 0 .. n : BytePlace(L + 1 + m)' = PlaceAt(f, 2 * (o + m))
  <2> SUFFICES ASSUME NEW m \in 0 .. n PROVE BytePlace(L + 1 + m)' = PlaceAt(f, 2 * (o + m))
    OBVIOUS
  <2>1. CASE m = n
    <3>1. L + 1 + m \notin 1 .. Len(bytes')
      BY <1>9, <1>g, <2>1
    <3>2. BytePlace(L + 1 + m)' = NibblePlace(1)'
      BY <3>1 DEF BytePlace
    <3> QED  BY <1>7, <2>1, <3>2
  <2>2. CASE m # n
    <3>1. m + 1 \in 1 .. n /\ L + 1 + m = L + (m + 1) /\ L + (m + 1) \in 1 .. Len(bytes')
          /\ o + (m + 1) - 1 = o + m
      BY <1>9, <1>g, <2>2
    <3>2. bytes'[L + (m + 1)].frame = f /\ bytes'[L + (m + 1)].i = o + m
          /\ ~IsDone(bytes'[L + (m + 1)])
      BY <1>10, <3>1
    <3>3. BytePlace(L + (m + 1))' = [frame |-> f, n |-> 2 * (o + m)]
      BY <3>1, <3>2 DEF BytePlace
    <3>4. 2 * (o + m) # NibblesOf(f)
      BY <1>d, <2>2
    <3> QED  BY <3>1, <3>3, <3>4 DEF PlaceAt
  <2> QED  BY <2>1, <2>2
<1>14. BytesInOrder'
  <2> SUFFICES ASSUME NEW k \in 1 .. Len(bytes'), ~IsDone(bytes'[k])
               PROVE  /\ bytes'[k].frame \in 1 .. NFrames
                      /\ bytes'[k].i < BytesOf(bytes'[k].frame)
                      /\ bytes'[k].key = IF bytes'[k].i < sent[bytes'[k].frame].pay_len
                                         THEN bytes'[k].i ELSE Raw
                      /\ \A j \in 1 .. BytesOf(bytes'[k].frame) - bytes'[k].i :
                           k + j <= Len(bytes') + 1 /\ ~IsDone(bytes'[k + j - 1]) =>
                             BytePlace(k + j)' = PlaceAt(bytes'[k].frame, 2 * (bytes'[k].i + j))
    BY <1>1, <1>3, Zenon DEF BytesInOrder
  <2>1. CASE k \in 1 .. L
    <3>1. PICK g, i : g = bytes[k].frame /\ i = bytes[k].i
      OBVIOUS
    <3>2. /\ g \in 1 .. NFrames /\ i < BytesOf(g)
          /\ bytes[k].key = IF i < sent[g].pay_len THEN i ELSE Raw
          /\ \A j \in 1 .. BytesOf(g) - i :
               k + j <= L + 1 /\ ~IsDone(bytes[k + j - 1]) =>
                 BytePlace(k + j) = PlaceAt(g, 2 * (i + j))
      BY <1>2, <1>g, <2>1, <3>1 DEF IInv, BytesInOrder
    <3>3. PICK G \in 1 .. 257 : G = BytesOf(g) /\ NibblesOf(g) = 2 * G
      BY <1>a, <3>2, FrameFacts
    <3>4. i \in 0 .. 256
      BY <1>a, <1>g, <2>1, <3>1, ByteTypes
    <3>5. ASSUME NEW j \in 1 .. G - i, k + j <= L + n + 1
          PROVE  BytePlace(k + j)' = PlaceAt(g, 2 * (i + j))
      <4>0. j \in Nat /\ j >= 1
        BY <3>4
      <4>1. CASE k + j <= L
        <5>1. k + j \in 1 .. L /\ k + j - 1 \in 1 .. L /\ k + j <= L + 1
          BY <2>1, <4>0, <4>1
        <5> QED  BY <1>2, <1>12, <3>2, <3>3, <5>1
      <4>2. CASE k + j > L
        <5>1. PICK q \in 1 .. j : q = L + 1 - k /\ k + q = L + 1 /\ k + q - 1 = L /\ L \in 1 .. L
                                   /\ q \in 1 .. G - i
          <6>1. L + 1 - k \in 1 .. j
            BY <2>1, <4>0, <4>2
          <6>2. k + (L + 1 - k) = L + 1 /\ k + (L + 1 - k) - 1 = L /\ L \in 1 .. L
                /\ L + 1 - k \in 1 .. G - i
            BY <2>1, <3>4, <6>1
          <6> QED  BY <6>1, <6>2
        <5>2. PlaceAt(g, 2 * (i + q)) = [frame |-> f, n |-> 2 * o]
          BY <1>2, <1>12, <3>2, <3>3, <5>1
        <5>3. BytePlace(L + 1 + 0)' = PlaceAt(f, 2 * (o + 0)) /\ L + 1 + 0 = L + 1 /\ o + 0 = o
          <6>1. 0 \in 0 .. n /\ L + 1 + 0 = L + 1 /\ o + 0 = o
            OBVIOUS
          <6> QED  BY <1>13, <6>1
        <5>4. PlaceAt(f, 2 * o) = [frame |-> f, n |-> 2 * o]
          <6>1. 2 * o # NibblesOf(f)
            BY <1>d
          <6> QED  BY <6>1 DEF PlaceAt
        <5>5. CASE q = j
          BY <5>1, <5>2, <5>3, <5>4, <5>5
        <5>6. CASE q < j
          <6>1. 2 * (i + q) # NibblesOf(g)
            BY <3>3, <3>4, <5>1, <5>6
          <6>2. f = g /\ 2 * o = 2 * (i + q)
            BY <5>2, <6>1 DEF PlaceAt
          <6>3. o = i + q
            BY <3>4, <5>1, <6>2
          <6>4. j - q \in 0 .. n /\ L + 1 + (j - q) = k + j /\ o + (j - q) = i + j
            BY <2>1, <3>4, <3>5, <4>0, <5>1, <5>6, <6>3
          <6>5. BytePlace(L + 1 + (j - q))' = PlaceAt(f, 2 * (o + (j - q)))
            BY <1>13, <6>4
          <6> QED  BY <6>2, <6>4, <6>5
        <5> QED  BY <5>1, <5>5, <5>6
      <4> QED  BY <2>1, <4>0, <4>1, <4>2
    <3>6. bytes'[k] = bytes[k]
      BY <1>9, <2>1
    <3> QED  BY <1>9, <3>1, <3>2, <3>3, <3>5, <3>6
  <2>2. CASE k \notin 1 .. L
    <3>1. PICK m \in 1 .. n : k = L + m
      <4>1. k - L \in 1 .. n /\ k = L + (k - L)
        BY <1>9, <2>2
      <4> QED  BY <4>1
    <3>2. PICK x \in 0 .. B - 1 : x = o + m - 1
      <4>1. o + m - 1 \in 0 .. B - 1
        OBVIOUS
      <4> QED  BY <4>1
    <3>3. bytes'[k].frame = f /\ bytes'[k].i = x
          /\ bytes'[k].key = IF x < sent[f].pay_len THEN x ELSE Raw
      BY <1>10, <3>1, <3>2
    <3>4. ASSUME NEW j \in 1 .. B - x, k + j <= L + n + 1
          PROVE  BytePlace(k + j)' = PlaceAt(f, 2 * (x + j))
      <4>1. m - 1 + j \in 0 .. n /\ L + 1 + (m - 1 + j) = k + j /\ o + (m - 1 + j) = x + j
        BY <3>1, <3>2, <3>4
      <4>2. BytePlace(L + 1 + (m - 1 + j))' = PlaceAt(f, 2 * (o + (m - 1 + j)))
        BY <1>13, <4>1
      <4> QED  BY <4>1, <4>2
    <3>5. x < B
      OBVIOUS
    <3> QED  BY <1>9, <1>d, <3>3, <3>4, <3>5
  <2> QED  BY <2>1, <2>2
<1>15. m_payload_len' + 2 * m_crc_presence' = B /\ m_payload_len' \in 1 .. 255
       /\ m_crc_presence' \in {0, 1}
  BY <1>1, <1>a, <1>d, FrameFacts
<1>16. OffsetOfPlace'
  <2>1. CASE o + n = B
    <3>1. NibblePlace(1)' = [frame |-> f + 1, n |-> 0]
      BY <1>7, <1>d, <2>1 DEF PlaceAt
    <3>2. NibblePlace(1)'.n = 0
      BY <3>1
    <3> QED  BY <1>1, <1>15, <2>1, <3>2 DEF OffsetOfPlace
  <2>2. CASE o + n # B
    <3>1. 2 * (o + n) # NibblesOf(f) /\ 2 * (o + n) > 0
      <4>1. o = 0 => n >= 1
        BY <1>f
      <4>2. 2 * (o + n) # 2 * B /\ 2 * (o + n) > 0
        BY <2>2, <4>1
      <4> QED  BY <1>d, <4>2
    <3>2. NibblePlace(1)'.frame = f /\ NibblePlace(1)'.n = 2 * (o + n)
      BY <1>7, <3>1 DEF PlaceAt
    <3> QED  BY <1>1, <3>1, <3>2 DEF OffsetOfPlace
  <2> QED  BY <2>1, <2>2
<1>17. AtFrameStart'
  <2>1. BytePlace(1)' = BytePlace(1)
    <3>1. CASE L = 0
      <4>1. BytePlace(L + 1 + 0)' = PlaceAt(f, 2 * (o + 0)) /\ L + 1 + 0 = 1 /\ o + 0 = o /\ L + 1 = 1
        <5>1. 0 \in 0 .. n /\ L + 1 + 0 = 1 /\ o + 0 = o /\ L + 1 = 1
          BY <3>1
        <5> QED  BY <1>13, <5>1
      <4>2. PlaceAt(f, 2 * o) = [frame |-> f, n |-> 2 * o]
        <5>1. 2 * o # NibblesOf(f)
          BY <1>d
        <5> QED  BY <5>1 DEF PlaceAt
      <4> QED  BY <1>12, <4>1, <4>2
    <3>2. CASE L # 0
      <4>1. 1 \in 1 .. L
        BY <3>2
      <4> QED  BY <1>12, <4>1
    <3> QED  BY <3>1, <3>2
  <2>2. msg' = msg
    BY <1>1 DEF crcVars
  <2> QED  BY <2>1, <2>2 DEF IInv, AtFrameStart
<1>18. TypeOK'
  <2>1. Len(nibbles') <= NibblesCapacity
    BY <1>a, <1>4, <1>g, TailAssumption
  <2>2. offset' \in 0 .. (m_payload_len' + 2 * m_crc_presence')
    <3>1. o + n \in 0 .. B
      OBVIOUS
    <3> QED  BY <1>1, <1>15, <3>1
  <2>3. m_payload_len' \in 0 .. 255
    BY <1>15
  <2> QED  BY <1>1, <1>4, <1>9, <1>15, <2>1, <2>2, <2>3 DEF IInv, TypeOK, crcVars
<1>19. WrittenInFrame'
  BY <1>1, <1>3 DEF IInv, WrittenInFrame
<1>20. DoneLast'
  BY <1>4, <1>5, <1>9, <1>11 DEF DoneLast
<1>21. MessagesAreFrames'
  BY <1>1 DEF IInv, MessagesAreFrames, PayloadOf, crcVars
<1> QED  BY <1>8, <1>14, <1>16, <1>17, <1>18, <1>19, <1>20, <1>21 DEF IInv

----------------------------------------------------------------------------
(***************************************************************************)
(* The theorems.                                                           *)
(***************************************************************************)

LEMMA NextIInv == IInv /\ [Next]_vars => IInv'
<1> SUFFICES ASSUME IInv, [Next]_vars PROVE IInv'
  OBVIOUS
<1>1. CASE HeaderDecoderStep
  BY <1>1, WriteNibblesKeeps, WriteDoneKeeps DEF HeaderDecoderStep
<1>2. CASE DewhiteningStep
  BY <1>2, DewhitenKeeps, DewhitenDoneKeeps DEF DewhiteningStep
<1>3. CASE CrcVerifStep
  BY <1>3, PublishKeeps, AwaitBytesKeeps, ExitKeeps DEF CrcVerifStep
<1>4. CASE UNCHANGED vars
  <2>1. UNCHANGED <<m_exit, sent, written, nibbles, m_payload_len, m_crc_presence, offset, bytes,
                    msg, crc_payload_len, crc_crc_presence, exited>>
    BY <1>4 DEF vars, envVars, dewhiteningVars, crcVars
  <2>2. NibblePlace(1)' = NibblePlace(1) /\ WrittenInFrame' /\ NibblesInOrder'
    BY <2>1, NibblesKept
  <2>3. OffsetOfPlace' /\ BytesInOrder' /\ AtFrameStart' /\ MessagesAreFrames'
    BY <2>1, <2>2, BytesKept
  <2>4. TypeOK' /\ DoneLast'
    BY <2>1 DEF IInv, TypeOK, DoneLast, HasDone
  <2> QED  BY <2>2, <2>3, <2>4 DEF IInv
<1> QED  BY <1>1, <1>2, <1>3, <1>4 DEF Next

\* The items on both links are the frames in order, item by item.
THEOREM TailInvariant == Spec => []IInv
<1>1. Init => IInv
  BY InitIInv
<1>2. IInv /\ [Next]_vars => IInv'
  BY NextIInv
<1> QED  BY <1>1, <1>2, PTL DEF Spec

\* The types of the variables of dewhitening and crc_verif and of their links.
THEOREM TailTypes == Spec => []TypeOK
<1>1. IInv => TypeOK
  BY DEF IInv
<1> QED  BY <1>1, TailInvariant, PTL

\* The messages crc_verif publishes are the payloads of the frames, in order,
\* dewhitened from the first byte on and without the CRC.
THEOREM TailMessages == Spec => []MessagesAreFrames
<1>1. IInv => MessagesAreFrames
  BY DEF IInv
<1> QED  BY <1>1, TailInvariant, PTL

\* dewhitening passes on the bytes of the CRC, and only those, as received.
THEOREM TailCrcRaw == Spec => []CrcNotDewhitened
<1>1. IInv => CrcNotDewhitened
  <2> SUFFICES ASSUME IInv, NEW k \in 1 .. Len(bytes), ~IsDone(bytes[k])
               PROVE  bytes[k].key = Raw <=> bytes[k].i >= sent[bytes[k].frame].pay_len
    BY SMTT(60) DEF CrcNotDewhitened
  <2>1. PICK f \in 1 .. NFrames, i \in 0 .. 256 :
          f = bytes[k].frame /\ i = bytes[k].i
          /\ bytes[k].key = IF i < sent[f].pay_len THEN i ELSE Raw
    <3>1. bytes[k].frame \in 1 .. NFrames
          /\ bytes[k].key = IF bytes[k].i < sent[bytes[k].frame].pay_len THEN bytes[k].i ELSE Raw
      BY DEF IInv, BytesInOrder
    <3>2. bytes[k].i \in 0 .. 256
      BY ByteTypes DEF IInv
    <3> QED  BY <3>1, <3>2
  <2>2. PICK p \in 1 .. 255 : p = sent[f].pay_len
    <3>1. sent \in [1 .. NFrames -> FrameKinds]
      BY DEF IInv, TypeOK
    <3>2. sent[f].pay_len \in 1 .. 255
      BY <3>1, FrameFacts
    <3> QED  BY <3>2
  <2>3. PICK key : key = bytes[k].key /\ key = IF i < p THEN i ELSE -1
    BY <2>1, <2>2 DEF Raw
  <2>4. key = -1 <=> i >= p
    <3>1. CASE i < p
      <4>1. key = i /\ i # -1 /\ ~(i >= p)
        BY <2>3, <3>1
      <4> QED  BY <4>1
    <3>2. CASE ~(i < p)
      <4>1. key = -1 /\ i >= p
        BY <2>3, <3>2
      <4> QED  BY <4>1
    <3> QED  BY <3>1, <3>2
  <2> QED  BY <2>1, <2>2, <2>3, <2>4 DEF Raw
<1> QED  BY <1>1, TailInvariant, PTL
=============================================================================
