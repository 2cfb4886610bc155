----------------------------- MODULE CranLinks -----------------------------
(***************************************************************************)
(* Between the sensor and the cloud: what frame_sender gives to its client *)
(* (loudify, not in this repository) arrives at one worker, apps/runner.py,*)
(* in order, and so do the answers of the worker at the client.            *)
(***************************************************************************)
EXTENDS Integers, Sequences, FiniteSetsExt

VARIABLES
  requests,  \* client -> worker: [id, data], id is the number of the packet
  replies    \* worker -> client: [code, of], of is the packet that was decoded

\* The codes of an answer: W_ERROR, any text read from the receiver, or the
\* text "decode_error".
Codes == {"W_ERROR", "message", "decode_error"}

LinksInit == requests = <<>> /\ replies = <<>>
============================================================================
