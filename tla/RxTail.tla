------------------------------- MODULE RxTail -------------------------------
(***************************************************************************)
(* The end of the receive chain: lib/dewhitening_impl.cc turns pairs of    *)
(* payload nibbles into bytes, lib/crc_verif_impl.cc collects the bytes of *)
(* a frame and publishes them on the message port "msg".                   *)
(*                                                                         *)
(* header_decoder is the environment here: it writes the nibbles of the    *)
(* frames whose header it accepted, in pieces of any size, the first one   *)
(* with a "frame_info" tag (RxLoop shows that a frame is written in full). *)
(* At the end of a simulation it passes on the tag "work_done".            *)
(*                                                                         *)
(* A nibble is its frame and place; a byte also says with which entry of   *)
(* the whitening sequence it was decoded (Raw for none).  Tags stay on     *)
(* the item they were added to.                                            *)
(***************************************************************************)
EXTENDS Integers, Sequences, FiniteSetsExt

CONSTANTS
  NFrames,      \* frames received
  FrameKinds,   \* their contents: [pay_len, crc, ok], ok says whether the CRC matches
  NibblesCapacity,  \* items the buffer between header_decoder and dewhitening holds
  ExitModes     \* the values of the parameter exit of hier_rx explored

\* crc_verif supports a CRC only over two bytes or more (crc_verif_impl.cc:98).
ASSUME TailAssumption ==
  /\ NFrames \in Nat
  /\ FrameKinds \subseteq [pay_len : 1 .. 255, crc : {0, 1}, ok : BOOLEAN]
  /\ \A k \in FrameKinds : k.crc = 1 => k.pay_len >= 2
  /\ NibblesCapacity \in Nat /\ NibblesCapacity >= 2
  /\ ExitModes \subseteq BOOLEAN

Raw == -1

\* Items with the tag "work_done"; their value is never read.
Done == [frame |-> 0, i |-> 0, done |-> TRUE]
IsDone(item) == item.done

VARIABLES
  m_exit,    \* crc_verif ends the process on "work_done", which the sender then adds
  sent,      \* the frames header_decoder passes on
  written,   \* how many nibbles of which frame it has written
  nibbles,   \* header_decoder -> dewhitening
  m_payload_len, m_crc_presence, offset,    \* of dewhitening
  bytes,     \* dewhitening -> crc_verif
  crc_payload_len, crc_crc_presence,        \* m_payload_len, m_crc_presence of crc_verif
  msg,       \* history: the messages crc_verif published
  exited     \* std::exit was called

envVars == <<m_exit, sent, written>>
dewhiteningVars == <<m_payload_len, m_crc_presence, offset>>
crcVars == <<crc_payload_len, crc_crc_presence, msg, exited>>
vars == <<envVars, nibbles, dewhiteningVars, bytes, crcVars>>

NibblesOf(f) == 2 * sent[f].pay_len + 4 * sent[f].crc

\* The first item of a frame carries the tag "frame_info".
IsTagged(item) == item.i = 0 /\ ~IsDone(item)

HasDone(stream) == \E k \in 1 .. Len(stream) : IsDone(stream[k])

\* Items up to the next "frame_info" tag, tags[0] or tags[1], or to the end.
Window(stream) ==
  LET next == {k \in 2 .. Len(stream) : IsTagged(stream[k])}
  IN  IF next = {} THEN Len(stream) ELSE Min(next) - 1

Init ==
  /\ m_exit \in ExitModes
  /\ sent \in [1 .. NFrames -> FrameKinds]
  /\ written = [frame |-> 1, n |-> 0]
  /\ nibbles = <<>>
  /\ m_payload_len = 0 /\ m_crc_presence = 0 /\ offset = 0
  /\ bytes = <<>>
  /\ crc_payload_len = 0 /\ crc_crc_presence = 0
  /\ msg = <<>>
  /\ exited = FALSE

----------------------------------------------------------------------------

\* header_decoder writes some nibbles of the current frame.
WriteNibbles ==
  /\ ~exited
  /\ written.frame <= NFrames
  /\ LET f == written.frame
         room == NibblesCapacity - Len(nibbles)
         left == NibblesOf(f) - written.n
     IN \E n \in 1 .. Min({room, left}) :
          /\ nibbles' = nibbles \o
               [k \in 1 .. n |-> [frame |-> f, i |-> written.n + k - 1, done |-> FALSE]]
          /\ written' = IF n = left THEN [frame |-> f + 1, n |-> 0]
                                    ELSE [written EXCEPT !.n = @ + n]
  /\ UNCHANGED <<m_exit, sent, dewhiteningVars, bytes, crcVars>>

\* header_decoder writes an item with "work_done" whenever it is called again.
WriteDone ==
  /\ ~exited /\ m_exit
  /\ written.frame > NFrames
  /\ Len(nibbles) < NibblesCapacity
  /\ nibbles' = Append(nibbles, Done)
  /\ UNCHANGED <<envVars, dewhiteningVars, bytes, crcVars>>

----------------------------------------------------------------------------
\* dewhitening; the scheduler calls it with at least two items.

\* The mode of dewhitening for the window: set by a tag on its first item.
PayloadLenNow == IF IsTagged(nibbles[1]) THEN sent[nibbles[1].frame].pay_len ELSE m_payload_len
CrcNow == IF IsTagged(nibbles[1]) THEN sent[nibbles[1].frame].crc ELSE m_crc_presence
\* Mutant: the place in the whitening sequence is not reset by a new frame.
OffsetNowKept == offset

OffsetNow == IF IsTagged(nibbles[1]) THEN 0 ELSE offset

\* The entry of the whitening sequence for the byte at place at of the frame.
\* Mutant: the CRC is dewhitened as well.
KeyAlways(at) == at

Key(at) == IF at < PayloadLenNow THEN at ELSE Raw

\* The bytes made of the window: pairs of nibbles until the packet is full.
Dewhitened ==
  LET full == PayloadLenNow + 2 * CrcNow
      n == Min({Window(nibbles) \div 2, Max({full - OffsetNow, 0})})
  IN  [k \in 1 .. n |->
         [frame |-> nibbles[2 * k - 1].frame, i |-> nibbles[2 * k - 1].i \div 2, done |-> FALSE,
          key |-> Key(OffsetNow + k - 1)]]

Dewhiten ==
  /\ ~exited
  /\ Len(nibbles) >= 2 /\ ~HasDone(nibbles)
  /\ m_payload_len' = PayloadLenNow
  /\ m_crc_presence' = CrcNow
  /\ offset' = OffsetNow + Len(Dewhitened)
  /\ bytes' = bytes \o Dewhitened
  /\ nibbles' = SubSeq(nibbles, 2 * Len(Dewhitened) + 1, Len(nibbles))
  /\ UNCHANGED <<envVars, crcVars>>

\* A "work_done" tag anywhere in the input: one item with the tag, nothing consumed.
DewhitenDone ==
  /\ ~exited
  /\ Len(nibbles) >= 2 /\ HasDone(nibbles)
  /\ ~HasDone(bytes)   \* further items say the same
  /\ bytes' = Append(bytes, Done)
  /\ UNCHANGED <<envVars, nibbles, dewhiteningVars, crcVars>>

----------------------------------------------------------------------------
\* crc_verif.  Its window is not cut at the next tag.

CrcPayloadLenNow ==
  IF IsTagged(bytes[1]) THEN sent[bytes[1].frame].pay_len ELSE crc_payload_len
CrcPresenceNow ==
  IF IsTagged(bytes[1]) THEN sent[bytes[1].frame].crc ELSE crc_crc_presence

\* Mutant: the second byte of the CRC is left in the stream.
FrameBytesOne(pay_len, crc) == pay_len + crc

\* Mutant: two bytes of CRC are awaited even if the frame has none.
FrameBytesCrc(pay_len, crc) == pay_len + 2

\* The bytes of a frame: payload and CRC.
FrameBytes(pay_len, crc) == pay_len + 2 * crc

\* The message is published whether or not the CRC matches.
Publish ==
  /\ ~exited
  /\ bytes # <<>>
  /\ m_exit => ~HasDone(bytes)
  /\ crc_payload_len' = CrcPayloadLenNow
  /\ crc_crc_presence' = CrcPresenceNow
  /\ LET n == FrameBytes(CrcPayloadLenNow, CrcPresenceNow) IN
       /\ Len(bytes) >= n
       /\ msg' = Append(msg, SubSeq(bytes, 1, CrcPayloadLenNow))
       /\ bytes' = SubSeq(bytes, n + 1, Len(bytes))
  /\ UNCHANGED <<envVars, nibbles, dewhiteningVars, exited>>

\* Called before the frame is complete: only the tag is read.
AwaitBytes ==
  /\ ~exited
  /\ bytes # <<>>
  /\ m_exit => ~HasDone(bytes)
  /\ Len(bytes) < FrameBytes(CrcPayloadLenNow, CrcPresenceNow)
  /\ crc_payload_len' = CrcPayloadLenNow
  /\ crc_crc_presence' = CrcPresenceNow
  /\ UNCHANGED <<envVars, nibbles, dewhiteningVars, bytes, msg, exited>>

\* m_exit: the process ends as soon as the tag is in the input.
Exit ==
  /\ ~exited
  /\ m_exit /\ HasDone(bytes)
  /\ exited' = TRUE
  /\ UNCHANGED <<envVars, nibbles, dewhiteningVars, bytes, crc_payload_len, crc_crc_presence, msg>>

HeaderDecoderStep == WriteNibbles \/ WriteDone
DewhiteningStep == Dewhiten \/ DewhitenDone
CrcVerifStep == Publish \/ AwaitBytes \/ Exit

Next == HeaderDecoderStep \/ DewhiteningStep \/ CrcVerifStep

\* The scheduler calls each block while it has input and room.
Spec ==
  /\ Init /\ [][Next]_vars
  /\ WF_vars(HeaderDecoderStep) /\ WF_vars(DewhiteningStep) /\ WF_vars(CrcVerifStep)
----------------------------------------------------------------------------

Item == [frame : 0 .. NFrames, i : 0 .. 513, done : BOOLEAN]
Byte == [frame : 0 .. NFrames, i : 0 .. 256, done : BOOLEAN, key : -1 .. 254]

TypeOK ==
  /\ m_exit \in ExitModes
  /\ sent \in [1 .. NFrames -> FrameKinds]
  /\ written \in [frame : 1 .. NFrames + 1, n : 0 .. 513]
  /\ nibbles \in Seq(Item) /\ Len(nibbles) <= NibblesCapacity
  /\ m_payload_len \in 0 .. 255 /\ m_crc_presence \in {0, 1}
  /\ offset \in 0 .. (m_payload_len + 2 * m_crc_presence)
  /\ bytes \in Seq(Byte \cup {Done})
  /\ crc_payload_len \in 0 .. 255 /\ crc_crc_presence \in {0, 1}
  /\ msg \in Seq(Seq(Byte))
  /\ exited \in BOOLEAN

\* What the sender put into frame f.
PayloadOf(f) ==
  [k \in 1 .. sent[f].pay_len |-> [frame |-> f, i |-> k - 1, done |-> FALSE, key |-> k - 1]]

(***************************************************************************)
(* The messages are the payloads of the frames, in the order they came,    *)
(* each byte decoded with its own entry of the whitening sequence and none *)
(* of the bytes of the CRC or of another frame among them, however the     *)
(* nibbles are cut into windows.                                           *)
(***************************************************************************)
MessagesAreFrames == \A k \in 1 .. Len(msg) : msg[k] = PayloadOf(k)

(***************************************************************************)
(* A byte of the CRC is passed on as received, at its place behind the     *)
(* payload (dewhitening_impl.cc:126, "do not dewhiten the CRC").           *)
(***************************************************************************)
CrcNotDewhitened ==
  \A k \in 1 .. Len(bytes) :
    ~IsDone(bytes[k]) =>
      (bytes[k].key = Raw <=> bytes[k].i >= sent[bytes[k].frame].pay_len)

(***************************************************************************)
(* Every frame is published, unless "work_done" ends the process first: no *)
(* rest of a frame stays in a buffer and holds up the next one.            *)
(***************************************************************************)
AllPublished == <>(exited \/ Len(msg) = NFrames)

(***************************************************************************)
(* README.md:55, "Verification of payload CRC": a message is published     *)
(* only if its CRC matches.                                                *)
(***************************************************************************)
OnlyVerifiedPublished ==
  \A k \in 1 .. Len(msg) : sent[k].crc = 1 => sent[k].ok
============================================================================
