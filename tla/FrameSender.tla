---------------------------- MODULE FrameSender ----------------------------
(***************************************************************************)
(* python/frame_sender.py: cuts the samples that a frame detector passes   *)
(* on into packets, at its tags "start" and "end", and sends each packet   *)
(* to a worker.                                                            *)
(*                                                                         *)
(* The frame detector is the environment: it writes the samples of frame   *)
(* after frame; the tag "start" is on the first, "end" on the item it adds *)
(* behind the last one (FramesTagged of FrameDetectors).  An item is its   *)
(* offset in the stream.                                                   *)
(***************************************************************************)
EXTENDS CranLinks

CONSTANTS
  NFrames,      \* frames the detector passes on
  FrameLens,    \* their lengths
  MaxChunk,     \* most items of one call of work
  Modes,        \* parameters explored: [modus, reply, debug_mode]
  MaxRetries,   \* max_retries
  AttemptBound  \* bounds the loop that never ends without replies

ASSUME SenderAssumption ==
  /\ NFrames \in Nat \ {0}
  /\ FrameLens \subseteq Nat \ {0}
  /\ \E longest \in FrameLens : \A len \in FrameLens : len <= longest
  /\ MaxChunk \in Nat \ {0}
  /\ Modes \subseteq [modus : BOOLEAN, reply : BOOLEAN, debug_mode : BOOLEAN]
  /\ MaxRetries \in Nat \ {0}
  /\ AttemptBound \in Nat /\ AttemptBound >= MaxRetries

VARIABLES
  frame_ends,   \* offset of the tag "end" of each frame
  mode,         \* its parameters
  offset,       \* items read
  buffer, old_buffer, data,
  start_index, end_index,
  send_packet, retries,
  num_send, num_recieved, num_decoded, num_error,
  sender,       \* where the block is: in work, waiting for a reply, or ended
  packets,      \* history: the packets cut
  attempts      \* history: how often the last packet was sent

bufferVars == <<offset, buffer, old_buffer, data, start_index, end_index, packets>>
counters == <<num_send, num_recieved, num_decoded, num_error>>
senderVars == <<frame_ends, mode, bufferVars, send_packet, retries, counters, sender, attempts>>

\* Frames follow each other with one item, that of the tag "end", in between.
StartAfter(ends, f) == IF f = 1 THEN 0 ELSE ends[f - 1] + 1
StartTags == [f \in 1 .. NFrames |-> StartAfter(frame_ends, f)]

Layouts ==
  {ends \in [1 .. NFrames -> 0 .. NFrames * (Max(FrameLens) + 1)] :
     \A f \in 1 .. NFrames : ends[f] - StartAfter(ends, f) \in FrameLens}

StreamLen == frame_ends[NFrames] + 1

SenderInit ==
  /\ frame_ends \in Layouts
  /\ mode \in Modes
  /\ offset = 0
  /\ buffer = <<>> /\ old_buffer = <<>> /\ data = <<>>
  /\ start_index = <<>> /\ end_index = <<>>
  /\ send_packet = FALSE /\ retries = 0
  /\ num_send = 0 /\ num_recieved = 0 /\ num_decoded = 0 /\ num_error = 0
  /\ sender = "work"
  /\ packets = <<>> /\ attempts = 0

\* The frames whose tag is before offset at are the first so many.
Before(tags, at) == Max({0} \cup {f \in 1 .. NFrames : tags[f] < at})

\* The tags of the n items that are read.
TagsRead(tags, n) == SubSeq(tags, Before(tags, offset) + 1, Before(tags, offset + n))

Items(from, n) == [k \in 1 .. n |-> from + k - 1]

----------------------------------------------------------------------------

\* Mutant: one item is dropped between two packets.
PartOfPacketShort(items, diff) == SubSeq(items, 1, Min({diff - 1, Len(items)}))

\* Mutant: the items in old_buffer count as part of the frame.
PartOfPacketLess(items, diff) == SubSeq(items, 1, Min({diff - Len(old_buffer), Len(items)}))

\* self.buffer[:diff] and self.buffer[diff:]
PartOfPacket(items, diff) == SubSeq(items, 1, Min({diff, Len(items)}))
PartKept(items, diff) == SubSeq(items, diff + 1, Len(items))

\* work up to the loop: n items more; one packet is cut if a start and an end
\* are known.
ReadItems(n) ==
  LET items  == buffer \o Items(offset, n)
      starts == start_index \o TagsRead(StartTags, n)
      ends   == end_index \o TagsRead(frame_ends, n)
  IN
  /\ offset' = offset + n
  /\ IF starts # <<>> /\ ends # <<>>
     THEN LET diff == ends[1] - starts[1] IN
          /\ data' = old_buffer \o PartOfPacket(items, diff)
          /\ old_buffer' = PartKept(items, diff)
          /\ buffer' = <<>>
          /\ start_index' = Tail(starts) /\ end_index' = Tail(ends)
          /\ send_packet' = TRUE
          /\ packets' = Append(packets, data') /\ attempts' = 0
     ELSE /\ buffer' = items
          /\ start_index' = starts /\ end_index' = ends
          /\ UNCHANGED <<old_buffer, data, send_packet, packets, attempts>>

Read ==
  /\ sender = "work" /\ ~send_packet /\ retries < MaxRetries
  /\ \E n \in 1 .. Min({MaxChunk, StreamLen - offset}) : ReadItems(n)
  /\ UNCHANGED <<frame_ends, mode, retries, counters, sender, requests, replies>>

Waits == mode.modus /\ mode.reply

\* An iteration of the loop, up to the reply if there will be one.
Attempt ==
  /\ sender = "work" /\ send_packet /\ retries < MaxRetries
  /\ attempts < AttemptBound
  /\ requests' = Append(requests, [id |-> Len(packets), data |-> data])
  /\ num_send' = IF Waits /\ mode.debug_mode THEN num_send + 1 ELSE num_send
  /\ sender' = IF Waits THEN "waiting" ELSE "work"
  /\ attempts' = attempts + 1
  /\ UNCHANGED <<frame_ends, mode, bufferVars, send_packet, retries,
                 num_recieved, num_decoded, num_error, replies>>

\* Mutant: after a message the retries are not set back.
RetriesAfterKept(code) == retries + 1

\* Mutant: the retries are set back after every reply.
RetriesAfterZero(code) == 0

RetriesAfter(code) == IF mode.debug_mode /\ code # "W_ERROR" THEN 0 ELSE retries + 1

Reply ==
  /\ sender = "waiting" /\ replies # <<>>
  /\ LET code == Head(replies).code
         good == mode.debug_mode /\ code # "W_ERROR" IN
       /\ retries' = RetriesAfter(code)
       /\ send_packet' = ~good
       /\ num_recieved' = IF mode.debug_mode THEN num_recieved + 1 ELSE num_recieved
       /\ num_decoded' = IF good THEN num_decoded + 1 ELSE num_decoded
  /\ replies' = Tail(replies)
  /\ sender' = "work"
  /\ UNCHANGED <<frame_ends, mode, bufferVars, num_send, num_error, attempts, requests>>

\* The client gives up: the process of the sender ends.
NoReply ==
  /\ sender = "waiting"
  /\ retries' = retries + 1
  /\ sender' = "exited"
  /\ UNCHANGED <<frame_ends, mode, bufferVars, send_packet, counters, attempts, requests, replies>>

\* Behind the loop.  num_error exists in debug_mode only, otherwise work raises.
GiveUp ==
  /\ sender = "work" /\ retries >= MaxRetries
  /\ \/ /\ mode.debug_mode
        /\ num_error' = num_error + 1
        /\ retries' = 0
        /\ send_packet' = FALSE
        /\ UNCHANGED sender
     \/ /\ ~mode.debug_mode
        /\ sender' = "failed"
        /\ UNCHANGED <<num_error, retries, send_packet>>
  /\ UNCHANGED <<frame_ends, mode, bufferVars, num_send, num_recieved, num_decoded,
                 attempts, requests, replies>>

SenderStep == Read \/ Attempt \/ Reply \/ GiveUp
============================================================================
