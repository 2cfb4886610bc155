--------------------------- MODULE PacketService ---------------------------
(***************************************************************************)
(* What the sensor's half of the C-RAN promises: the stream of a frame     *)
(* detector is cut into packets, one for each frame, the k-th of which     *)
(* ends not before frame k does; and a packet is settled (its worker       *)
(* answered, or it was given up) before the next one is cut.               *)
(***************************************************************************)
EXTENDS Integers, Sequences

CONSTANT Frames   \* number of frames
VARIABLES
  ends,     \* offset behind the last sample of each frame
  cuts,     \* offset behind the last item of each packet
  settled   \* packets settled

ServiceInit == cuts = <<>> /\ settled = 0

Cut ==
  /\ Len(cuts) < Frames /\ settled = Len(cuts)
  /\ \E at \in ends[Len(cuts) + 1] .. ends[Frames] + 1 : cuts' = Append(cuts, at)
  /\ UNCHANGED <<ends, settled>>

Settle ==
  /\ settled < Len(cuts)
  /\ settled' = settled + 1
  /\ UNCHANGED <<ends, cuts>>

Service == ServiceInit /\ [][Cut \/ Settle]_<<ends, cuts, settled>>
============================================================================
