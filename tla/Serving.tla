------------------------------ MODULE Serving ------------------------------
(***************************************************************************)
(* The engine as its users see it: VeXact (vexact/engine.py) and the veRL  *)
(* server on top of it (vexact/integrations/verl/async_server.py,          *)
(* rollout.py).  Composes the request channel, the control channel and the *)
(* worker processes around a generation loop of which only this is kept:   *)
(* it takes requests in, gives each of them Tokens tokens, one at a time,  *)
(* and puts the finished ones out (module Scheduler has the rest).         *)
(*                                                                         *)
(* A token is the version of the weights of every rank when it was         *)
(* sampled, or Garbage when some memory it needs was not on the GPU.       *)
(***************************************************************************)
EXTENDS RequestChannel, WorkerProcs

CONSTANTS Tokens,     \* the number of tokens of an answer
          MaxSteps,   \* bound: how many times the trainer updates the weights
          Uses        \* how the engine is used: records with the fields
                      \*   timeouts:  generate() is called with a timeout,
                      \*   trained:   by veRL, whose trainer updates the weights,
                      \*   free_cache_engine: and releases the memory meanwhile

\* VeXactServer.generate, which veRL calls, passes no timeout.
ASSUME ServingAssumption ==
  /\ Tokens \in Nat \ {0}
  /\ MaxSteps \in Nat
  /\ \A u \in Uses : u.trained => ~u.timeouts

VARIABLES
  use,
  request_queue,    \* calls whose request the driver has not admitted
  active_requests,  \* per request id, the call that is running, or NoCall
  generated,        \* per call, its tokens
  result_queue,     \* finished calls whose output has not been sent
  trainer,          \* where the trainer is
  global_steps,     \* the version the server reports
  reported          \* per returned call, the global_steps of its TokenOutput

driver_vars == <<request_queue, active_requests, generated, result_queue>>

server_vars == <<trainer, global_steps, reported>>

vars == <<use, channel_vars, control_vars, proc_vars, driver_vars, server_vars>>

Init ==
  /\ use \in Uses
  /\ ChannelInit
  /\ ControlInit
  /\ ProcsInit
  /\ request_queue = << >>
  /\ active_requests = [i \in Ids |-> NoCall]
  /\ generated = [c \in Calls |-> << >>]
  /\ result_queue = << >>
  /\ trainer = "rollout"
  /\ global_steps = 0
  /\ reported = [c \in Calls |-> -1]

Up == parent = "up"

-----------------------------------------------------------------------------
(* The worker processes. *)

Launch ==
  /\ ProcSteps \/ ProcFaults
  /\ UNCHANGED <<use, channel_vars, control_vars, driver_vars, server_vars>>

NothingWaits == \A c \in Calls : call[c] # "waiting"

\* VeXact.close(), when its user is done with it.
close ==
  /\ Up
  /\ NothingWaits
  /\ trainer \in {"rollout", "failed"}
  /\ begin_close
  /\ UNCHANGED <<use, channel_vars, control_vars, driver_vars, server_vars>>

-----------------------------------------------------------------------------
(* Requests. *)

\* A call is made while the trainer collects samples, and with an id that no
\* call uses that is still waiting: the turns of a conversation may share one.
generate(c) ==
  /\ Up
  /\ trainer = "rollout"
  /\ \A d \in Calls : call[d] = "waiting" => RequestId[d] # RequestId[c]
  /\ submit(c)
  /\ UNCHANGED <<use, control_vars, proc_vars, driver_vars, server_vars>>

GenerateSends(c) ==
  /\ Up
  /\ SendRequest(c)
  /\ UNCHANGED <<use, control_vars, proc_vars, driver_vars, server_vars>>

GenerateFails(c) ==
  /\ Up
  /\ SendRaises(c)
  /\ UNCHANGED <<use, control_vars, proc_vars, driver_vars, server_vars>>

ReceiveOutput ==
  /\ Up
  /\ _receive_loop
  /\ UNCHANGED <<use, control_vars, proc_vars, driver_vars, server_vars>>

\* VeXactServer.generate reads global_steps after the answer has come.
GenerateReturns(c) ==
  /\ Up
  /\ Return(c)
  /\ reported' = [reported EXCEPT ![c] = global_steps]
  /\ UNCHANGED <<use, control_vars, proc_vars, driver_vars, trainer, global_steps>>

CloseGenerator(c) ==
  /\ Up
  /\ close_generator(c)
  /\ UNCHANGED <<use, control_vars, proc_vars, driver_vars, server_vars>>

GenerateTimesOut(c) ==
  /\ Up
  /\ use.timeouts
  /\ Timeout(c) \/ CancelSend(c)
  /\ UNCHANGED <<use, control_vars, proc_vars, driver_vars, server_vars>>

\* _input_loop and DriverWorkerProxy._on_request.
_on_request ==
  /\ Up
  /\ TakeRequest
  /\ request_queue' = Append(request_queue, Head(input_socket))
  /\ UNCHANGED <<use, control_vars, proc_vars, active_requests, generated,
                 result_queue, server_vars>>

\* Mutant: of the finished requests that were polled only one is sent.
_poll_outputs_first ==
  /\ Up
  /\ result_queue # << >>
  /\ LET c == Head(result_queue)
     IN  SendOutput([request_id |-> RequestId[c], of |-> c, tokens |-> generated[c]])
  /\ result_queue' = << >>
  /\ UNCHANGED <<use, control_vars, proc_vars, request_queue, active_requests,
                 generated, server_vars>>

\* _output_loop and DriverWorkerProxy._poll_outputs.
_poll_outputs ==
  /\ Up
  /\ result_queue # << >>
  /\ LET c == Head(result_queue)
     IN  SendOutput([request_id |-> RequestId[c], of |-> c, tokens |-> generated[c]])
  /\ result_queue' = Tail(result_queue)
  /\ UNCHANGED <<use, control_vars, proc_vars, request_queue, active_requests,
                 generated, server_vars>>

-----------------------------------------------------------------------------
(* The generation loop. *)

\* _activate_request: a request replaces an active one of the same id.
Admit ==
  /\ Up
  /\ request_queue # << >>
  /\ active_requests' =
       [active_requests EXCEPT ![RequestId[Head(request_queue)]] = Head(request_queue)]
  /\ request_queue' = Tail(request_queue)
  /\ UNCHANGED <<use, channel_vars, control_vars, proc_vars, generated,
                 result_queue, server_vars>>

AllMapped == \A r \in Workers : mapped[r] = Regions

Garbage == [r \in Workers |-> -1]

Sampled == IF AllMapped THEN version ELSE Garbage

\* Mutant: the limit is checked before the new token is counted.
is_last_late(c) == Len(generated[c]) = Tokens

\* The token that is being appended reaches max_new_tokens.
is_last(c) == Len(generated[c]) + 1 = Tokens

\* One token for one active request; the last one finishes it.
GenerateToken(i) ==
  /\ Up
  /\ active_requests[i] # NoCall
  /\ LET c == active_requests[i]
         last == is_last(c)
     IN  /\ generated' = [generated EXCEPT ![c] = Append(@, Sampled)]
         /\ active_requests' = [active_requests EXCEPT ![i] = IF last THEN NoCall ELSE @]
         /\ result_queue' = IF last THEN Append(result_queue, c) ELSE result_queue
  /\ UNCHANGED <<use, channel_vars, control_vars, proc_vars, request_queue, server_vars>>

-----------------------------------------------------------------------------
(* The trainer, and what VeXactServer and ServerAdapter make of its calls.   *)
(* veRL waits for the samples it asked for, releases the rollout's memory,  *)
(* trains, resumes the weights, updates them, and resumes the KV cache.     *)

Request(method, argument, from, to) ==
  /\ Up
  /\ use.trained
  /\ trainer = from
  /\ begin_rpc(method, argument)
  /\ trainer' = to
  /\ UNCHANGED <<use, channel_vars, proc_vars, driver_vars, global_steps, reported>>

Skip(from, to) ==
  /\ Up
  /\ use.trained
  /\ ~use.free_cache_engine
  /\ trainer = from
  /\ trainer' = to
  /\ UNCHANGED <<use, channel_vars, control_vars, proc_vars, driver_vars,
                 global_steps, reported>>

\* Mutant: without waiting for the samples.
release_early ==
  /\ global_steps < MaxSteps
  /\ \/ use.free_cache_engine /\ Request("sleep", "all", "rollout", "releasing")
     \/ Skip("rollout", "released")

\* release() and sleep(): every region.
release ==
  /\ global_steps < MaxSteps
  /\ NothingWaits
  /\ \/ use.free_cache_engine /\ Request("sleep", "all", "rollout", "releasing")
     \/ Skip("rollout", "released")

\* resume(tags) and wake_up(tags): the first tag.
resume_weights ==
  \/ use.free_cache_engine /\ Request("wake_up", "weights", "released", "resuming_weights")
  \/ Skip("released", "resumed_weights")

\* update_weights() and receive_weights(global_steps).
update_weights ==
  Request("receive_weights", global_steps + 1, "resumed_weights", "updating")

\* Mutant: the KV cache is left out.
resume_kv_cache_skipped ==
  /\ Up
  /\ use.trained
  /\ trainer = "updated"
  /\ trainer' = "rollout"
  /\ UNCHANGED <<use, channel_vars, control_vars, proc_vars, driver_vars,
                 global_steps, reported>>

resume_kv_cache ==
  \/ use.free_cache_engine /\ Request("wake_up", "kv_cache", "updated", "resuming_kv_cache")
  \/ Skip("updated", "rollout")

Rpc ==
  /\ Up
  /\ SendNext \/ ReceiveNext \/ \E r \in Workers : _handle_request(r)
  /\ UNCHANGED <<use, channel_vars, proc_vars, driver_vars, server_vars>>

after_rpc ==
  CASE trainer = "releasing"         -> "released"
    [] trainer = "resuming_weights"  -> "resumed_weights"
    [] trainer = "updating"          -> "updated"
    [] trainer = "resuming_kv_cache" -> "rollout"

\* global_steps is set after a successful update only.
steps_after == IF trainer = "updating" /\ rpc_succeeded THEN rpc.argument ELSE global_steps

RpcEnds ==
  /\ Up
  /\ end_rpc
  /\ trainer' = IF rpc_raised THEN "failed" ELSE after_rpc
  /\ global_steps' = steps_after
  /\ UNCHANGED <<use, channel_vars, proc_vars, driver_vars, reported>>

-----------------------------------------------------------------------------

Serve ==
  \/ ReceiveOutput \/ _on_request \/ _poll_outputs \/ Admit
  \/ \E i \in Ids : GenerateToken(i)
  \/ \E c \in Calls : GenerateSends(c) \/ GenerateReturns(c) \/ CloseGenerator(c)

Train == release \/ resume_weights \/ update_weights \/ resume_kv_cache

Next ==
  \/ Launch \/ close
  \/ \E c \in Calls : generate(c) \/ GenerateFails(c) \/ GenerateTimesOut(c)
  \/ Serve
  \/ Train
  \/ Rpc \/ RpcEnds

Spec == Init /\ [][Next]_vars

\* The threads of the engine, the workers and the pipes make progress; nobody
\* has to call generate(), to train, to close or to fail.
FairSpec ==
  /\ Spec
  /\ WF_vars(ProcSteps /\ UNCHANGED <<use, channel_vars, control_vars, driver_vars, server_vars>>)
  /\ WF_vars(ReceiveOutput) /\ WF_vars(_on_request) /\ WF_vars(_poll_outputs)
  /\ WF_vars(Admit)
  /\ \A i \in Ids : WF_vars(GenerateToken(i))
  /\ \A c \in Calls : /\ WF_vars(GenerateSends(c)) /\ WF_vars(GenerateReturns(c))
                       /\ WF_vars(CloseGenerator(c))
  /\ WF_vars(Rpc) /\ WF_vars(RpcEnds)

-----------------------------------------------------------------------------
(* Properties. *)

\* The type invariant of the engine.
TypeOK ==
  /\ use \in Uses
  /\ \A c \in Calls :
       /\ call[c] \in {"new", "waiting", "returned", "timed_out", "cut_off"}
       /\ Len(generated[c]) <= Tokens
       /\ reported[c] \in -1 .. MaxSteps
  /\ output_queues \in [Ids -> Calls \cup {NoCall}]
  /\ active_requests \in [Ids -> Calls \cup {NoCall}]
  /\ dropped \subseteq Calls
  /\ sending \subseteq Calls
  /\ \A r \in Workers : mapped[r] \subseteq Regions /\ version[r] \in 0 .. MaxSteps
  /\ rank_at \in Workers
  /\ global_steps \in 0 .. MaxSteps

\* "This method is safe for concurrent calls: each request gets its own result":
\* a call returns the whole answer to its own request, whatever other calls
\* return, time out or answer late.
OwnResult ==
  \A c \in Calls : \A k \in DOMAIN result[c] :
    result[c][k].of = c /\ Len(result[c][k].tokens) = Tokens

\* An answer is sampled on one version of the weights, complete on every rank,
\* and that is the version the server reports with it, although global_steps is
\* read when the answer arrives and the ranks change their weights one by one.
StepsTrue ==
  \A c \in Calls : use.trained /\ call[c] = "returned" =>
    \A k \in 1 .. Tokens : \A r \in Workers :
      result[c][1].tokens[k][r] = reported[c]

\* No token is ever computed while a region it needs is released on some rank,
\* and no weights are received into a released region.
ComputesMapped ==
  /\ \A c \in Calls : \A k \in DOMAIN generated[c] : generated[c][k] # Garbage
  /\ trainer = "updating" => \A r \in Workers : "weights" \in mapped[r]

\* A collective call leaves every socket ready for the next one, also when some
\* worker's method raised: REQ and REP alternate, a reply left behind would be
\* taken for the answer of a later call.
SocketsReady ==
  rpc.phase = "idle" =>
    \A r \in Workers : ~request_at[r] /\ reply_at[r] = NoReply

\* A queue is registered only for a call that waits or has just returned; the
\* late answer of a call that timed out finds none.  Only a call that ends while
\* submit() sends its request, before the try, leaves its queue registered: the
\* table of a server that runs for weeks grows by these calls and by no others.
QueuesCleaned ==
  \A i \in Ids : output_queues[i] # NoCall =>
    \/ call[output_queues[i]] \in {"waiting", "cut_off"}
    \/ output_queues[i] \in dropped

\* However the start, the shutdown or the parent ends, no worker process stays.
NoOrphans ==
  parent \in {"closing", "collecting", "closed", "killed"} ~>
    \A r \in Workers : proc[r] \in {"none", "exited"}

\* A call that is made returns, raises or times out while the engine is up.
EveryCallAnswered ==
  \A c \in Calls : call[c] = "waiting" ~> call[c] # "waiting" \/ parent # "up"

=============================================================================
