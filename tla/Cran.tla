-------------------------------- MODULE Cran --------------------------------
(***************************************************************************)
(* The C-RAN of python/ and apps/: frame_sender at the sensor, one worker  *)
(* (runner.py) with a process of cran_recieve for each packet.  The three  *)
(* run side by side; a process may be killed at any time and the client    *)
(* may give up waiting.                                                    *)
(***************************************************************************)
EXTENDS FrameSender, Runner, SequencesExt

vars == <<requests, replies, senderVars, socketVars, recieverVars, runnerVars>>

Init == LinksInit /\ SenderInit /\ RecieverInit /\ RunnerInit

Sender  == SenderStep /\ UNCHANGED <<socketVars, recieverVars, runnerVars>>
Client  == NoReply /\ UNCHANGED <<socketVars, recieverVars, runnerVars>>
Process == RecieverStep /\ UNCHANGED <<requests, replies, senderVars, runnerVars>>
Decoded == Exit /\ UNCHANGED <<requests, replies, senderVars, runnerVars>>
Worker  == RunnerStep /\ UNCHANGED senderVars

Next == Sender \/ Client \/ Process \/ Decoded \/ Worker

\* Every process is scheduled.  A message may never come, then the time is over.
Spec ==
  /\ Init /\ [][Next]_vars
  /\ WF_vars(Sender) /\ WF_vars(Process) /\ WF_vars(Worker)
----------------------------------------------------------------------------

TypeOK ==
  /\ frame_ends \in Layouts /\ mode \in Modes
  /\ offset \in 0 .. StreamLen
  /\ {buffer, old_buffer, data} \subseteq Seq(0 .. StreamLen)
  /\ send_packet \in BOOLEAN /\ retries \in 0 .. MaxRetries
  /\ sender \in {"work", "waiting", "exited", "failed"}
  /\ \A k \in 1 .. Len(replies) : replies[k].code \in Codes
  /\ process \in {"none", "starting", "running", "exited"} /\ state \in 0 .. 4
  /\ runner \in {"recv", "await", "communicate"} /\ run \in 0 .. RestartAfter
  /\ reply.code \in Codes \cup {"none"}

\* The offset behind packet k.
CutAfter(k) == IF k = 0 \/ packets[k] = <<>> THEN 0 ELSE Last(packets[k]) + 1

(***************************************************************************)
(* No sample is lost, doubled or moved by the two buffers of frame_sender: *)
(* each packet begins where the one before ends, and the two buffers hold  *)
(* the rest of the stream as far as it was read, wherever the calls of     *)
(* work cut it.                                                            *)
(***************************************************************************)
StreamCovered ==
  LET last == CutAfter(Len(packets)) IN
  /\ \A k \in 1 .. Len(packets) :
       packets[k] = Items(CutAfter(k - 1), CutAfter(k) - CutAfter(k - 1))
  /\ old_buffer \o buffer = Items(last, offset - last)

CutOffsets == [k \in 1 .. Len(packets) |-> CutAfter(k)]
Settled == Len(packets) - (IF send_packet THEN 1 ELSE 0)

Packets == INSTANCE PacketService WITH
  Frames <- NFrames, ends <- frame_ends, cuts <- CutOffsets, settled <- Settled

(***************************************************************************)
(* The sender keeps the promise of PacketService: when packet k goes out,  *)
(* all samples of frame k are on their way, although the buffers are cut   *)
(* by the length of the frame and not where its tags are; and packets are  *)
(* settled one by one (frame_sender.work).                                 *)
(***************************************************************************)
KeepsPromise == Packets!Service

(***************************************************************************)
(* A client that answers makes the loop of work end: no packet is sent     *)
(* more often than max_retries.  ("keep sending till we reached the max    *)
(* number of times we are trying", frame_sender.py:157.)  Without replies  *)
(* nothing counts the attempts.                                            *)
(***************************************************************************)
AttemptsBounded == Waits => attempts <= MaxRetries

(***************************************************************************)
(* The statistics of debug_mode add up: every packet settled was counted   *)
(* as decoded or as an error, once, and every reply was counted.           *)
(***************************************************************************)
PacketsCounted ==
  Waits /\ mode.debug_mode =>
    /\ num_decoded + num_error = Settled
    /\ num_send = num_recieved + (IF sender \in {"waiting", "exited"} THEN 1 ELSE 0)

(***************************************************************************)
(* What reaches hier_rx is the beginning of the packet, in order; when     *)
(* frame_reciever ends the stream it keeps back less than one output       *)
(* buffer of it.                                                           *)
(***************************************************************************)
PassedOn ==
  /\ state \in {1, 2, 3} => IsPrefix(passed \o rx_buffer, taken.data)
                            /\ Len(passed \o rx_buffer) = Len(taken.data)
  /\ state = 3 => Len(rx_buffer) < Max(Rooms)

(***************************************************************************)
(* The process started for a request takes the data of this request and    *)
(* no other, as long as none was killed before it had taken its own: the   *)
(* socket, which outlives the processes, is empty between two requests.    *)
(***************************************************************************)
OwnPacketTaken == taken_all /\ taken # NoPacket => taken.id = request

(***************************************************************************)
(* A request that has not reached the worker is answered, whatever becomes *)
(* of the process that decodes its packet, unless it is the last before    *)
(* the worker replaces itself: that answer is lost (runner.py:57-63).      *)
(***************************************************************************)
AnswerComes ==
  (sender = "waiting" /\ requests # <<>>) ~> (sender # "waiting" \/ run = RestartAfter)

(***************************************************************************)
(* "send back the last part of the split of the output (decoded msg)"      *)
(* (runner.py:92): a message that is sent back was decoded from the data   *)
(* of the request it answers.                                              *)
(***************************************************************************)
AnswersOwnPacket == reply.code = "message" => reply.of = request
=============================================================================
