--------------------------- MODULE FrameReciever ---------------------------
(***************************************************************************)
(* python/frame_reciever.py in a process of apps/cran_recieve.py: started  *)
(* for one packet, it takes the packet from its socket, passes it on to    *)
(* the receive chain (hier_rx) and ends when a message was decoded.        *)
(*                                                                         *)
(* Socket and path are those of the worker, which go on from one process   *)
(* to the next: a message that nobody took stays in to_flowgraph or        *)
(* to_worker (ZeroMQ's pair socket, external).                             *)
(***************************************************************************)
EXTENDS Integers, Sequences, FiniteSetsExt

CONSTANT Rooms  \* noutput_items explored
ASSUME RecieverAssumption ==
  Rooms \subseteq Nat \ {0} /\ \E largest \in Rooms : \A room \in Rooms : room <= largest

VARIABLES
  to_flowgraph,  \* data of requests
  to_worker,     \* how many W_REPLY
  process,       \* "none", "starting", "running", "exited"
  state,         \* 0 before __init__, self.state, 3 when work returned -1, 4 when it raised
  rx_buffer,     \* self.buffer
  taken,         \* history: the packet this process took
  passed         \* history: the items that reached hier_rx

socketVars == <<to_flowgraph, to_worker>>
recieverVars == <<process, state, rx_buffer, taken, passed>>

NoPacket == [id |-> 0, data |-> <<>>]

RecieverInit ==
  /\ to_flowgraph = <<>> /\ to_worker = 0
  /\ process = "none" /\ state = 0
  /\ rx_buffer = <<>> /\ taken = NoPacket /\ passed = <<>>

Running(s) == process = "running" /\ state = s

\* Mutant: nothing is sent before the data are there.
RepliesAtStartNone == 0

\* Messages that __init__ sends.
RepliesAtStart == 1

\* __init__
Bind ==
  /\ process = "starting"
  /\ process' = "running" /\ state' = 1
  /\ to_worker' = to_worker + RepliesAtStart
  /\ UNCHANGED <<to_flowgraph, rx_buffer, taken, passed>>

\* work in state 1; an array shorter than the output does not fit and raises.
Take ==
  /\ Running(1) /\ to_flowgraph # <<>>
  /\ \E room \in Rooms :
       LET data == Head(to_flowgraph).data IN
       \/ /\ Len(data) >= room
          /\ passed' = SubSeq(data, 1, room)
          /\ rx_buffer' = SubSeq(data, room + 1, Len(data))
          /\ to_worker' = to_worker + 1
          /\ state' = 2
       \/ /\ Len(data) < room
          /\ rx_buffer' = data
          /\ state' = 4
          /\ UNCHANGED <<passed, to_worker>>
  /\ taken' = Head(to_flowgraph)
  /\ to_flowgraph' = Tail(to_flowgraph)
  /\ UNCHANGED process

\* Mutant: items are deleted that were not passed on.
LeftAfterOne(items, n) == SubSeq(items, n + 2, Len(items))

LeftAfter(items, n) == SubSeq(items, n + 1, Len(items))

\* What is written together with a -1 is not passed on.
EndsStream(room) == Len(rx_buffer) < room

\* work in state 2.
Stream ==
  /\ Running(2)
  /\ \E room \in Rooms :
       \/ /\ ~EndsStream(room)
          /\ passed' = passed \o SubSeq(rx_buffer, 1, room)
          /\ rx_buffer' = LeftAfter(rx_buffer, room)
          /\ UNCHANGED state
       \/ /\ EndsStream(room)
          /\ state' = 3
          /\ UNCHANGED <<passed, rx_buffer>>
  /\ UNCHANGED <<socketVars, process, taken>>

\* The message of a frame whose samples were passed on reaches main, which
\* ends the process.  Whether hier_rx decodes a frame is not modelled here.
Exit ==
  /\ Running(2) \/ Running(3)
  /\ process' = "exited"
  /\ UNCHANGED <<socketVars, state, rx_buffer, taken, passed>>

RecieverStep == Bind \/ Take \/ Stream
============================================================================
