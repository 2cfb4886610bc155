------------------------------- MODULE Runner -------------------------------
(***************************************************************************)
(* apps/runner.py, the worker: for each request it starts a process of     *)
(* cran_recieve, sends it the data, waits for a W_REPLY and for the end of *)
(* the process, and answers with the message it printed.  The answer is    *)
(* handed to worker.recv, which sends it before it waits for a request     *)
(* (worker_api of loudify, external).                                      *)
(***************************************************************************)
EXTENDS CranLinks, FrameReciever

CONSTANTS
  RestartAfter,  \* 250: the requests after which the worker replaces itself
  Restarts,      \* bounds how often it does
  Expires        \* stages of the process in which the time of communicate may be over

ASSUME RunnerAssumption ==
  /\ RestartAfter \in Nat \ {0} /\ Restarts \in Nat
  /\ Expires \subseteq {"starting", "running"}

VARIABLES
  runner,     \* where main is
  run,        \* requests since the start
  reply,      \* the answer not yet sent, or NoReplyYet
  request,    \* history: the packet of the last request
  restarts,   \* history
  taken_all   \* history: every process took its data before it was killed

runnerVars == <<runner, run, reply, request, restarts, taken_all>>

NoReplyYet == [code |-> "none", of |-> 0]
Answer(code) == [code |-> code, of |-> taken.id]

RunnerInit ==
  /\ runner = "recv" /\ run = 0
  /\ reply = NoReplyYet /\ request = 0 /\ restarts = 0
  /\ taken_all = TRUE

\* Mutant: one request too many.
MustRestartLate == run > RestartAfter

MustRestart == run = RestartAfter

\* worker.recv: the answer to the request before goes out.
SendReply ==
  /\ runner = "recv" /\ ~MustRestart
  /\ reply # NoReplyYet
  /\ replies' = Append(replies, reply)
  /\ reply' = NoReplyYet
  /\ UNCHANGED <<requests, socketVars, recieverVars, runner, run, request, restarts, taken_all>>

\* Mutant: the data are sent a second time.
DataSentTwice(data) == <<data, data>>

DataSent(data) == <<data>>

\* A request: the process is started and the data put into its socket.
StartFlowgraph ==
  /\ runner = "recv" /\ ~MustRestart
  /\ reply = NoReplyYet /\ requests # <<>>
  /\ requests' = Tail(requests)
  /\ request' = Head(requests).id
  /\ to_flowgraph' = to_flowgraph \o DataSent(Head(requests))
  /\ process' = "starting" /\ state' = 0
  /\ rx_buffer' = <<>> /\ taken' = NoPacket /\ passed' = <<>>
  /\ run' = run + 1
  /\ runner' = "await"
  /\ UNCHANGED <<replies, to_worker, reply, restarts, taken_all>>

\* socket.recv: any W_REPLY will do, one of an earlier process too.
AwaitFlowgraph ==
  /\ runner = "await" /\ to_worker > 0
  /\ to_worker' = to_worker - 1
  /\ runner' = "communicate"
  /\ UNCHANGED <<requests, replies, to_flowgraph, recieverVars, run, reply, request, restarts, taken_all>>

\* communicate returns: the message, or "decode_error" if it is not utf-8.
Communicate ==
  /\ runner = "communicate" /\ process = "exited"
  /\ \E code \in {"message", "decode_error"} : reply' = Answer(code)
  /\ process' = "none"
  /\ runner' = "recv"
  /\ taken_all' = (taken_all /\ taken # NoPacket)
  /\ UNCHANGED <<requests, replies, socketVars, state, rx_buffer, taken, passed, run, request, restarts>>

\* TimeoutExpired: the process is killed, with data that reached it but were not taken.
TimeoutExpired ==
  /\ runner = "communicate" /\ process \in Expires
  /\ reply' = Answer("W_ERROR")
  /\ process' = "none"
  /\ \/ UNCHANGED to_flowgraph
     \/ process = "running" /\ to_flowgraph # <<>> /\ to_flowgraph' = Tail(to_flowgraph)
  /\ runner' = "recv"
  /\ taken_all' = (taken_all /\ taken # NoPacket)
  /\ UNCHANGED <<requests, replies, to_worker, state, rx_buffer, taken, passed, run, request, restarts>>

\* os.execv: a new worker with a path of its own.
Restart ==
  /\ runner = "recv" /\ MustRestart
  /\ restarts < Restarts
  /\ run' = 0
  /\ reply' = NoReplyYet
  /\ to_flowgraph' = <<>> /\ to_worker' = 0
  /\ restarts' = restarts + 1
  /\ UNCHANGED <<requests, replies, recieverVars, runner, request, taken_all>>

RunnerStep ==
  \/ SendReply \/ StartFlowgraph \/ AwaitFlowgraph \/ Communicate \/ TimeoutExpired \/ Restart
=============================================================================
