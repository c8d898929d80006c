--------------------------- MODULE ControlChannel ---------------------------
(***************************************************************************)
(* ControlChannelClient.collective_rpc and the control servers of the      *)
(* workers (vexact/ipc/control_channel.py), with the methods they may      *)
(* call: sleep, wake_up and receive_weights of Worker                      *)
(* (vexact/worker/worker.py), that is pause and resume of the memory       *)
(* regions (vexact/utils/torch_memory_saver_adapter.py) and a transfer of  *)
(* weights, of which only the version is kept here.                        *)
(***************************************************************************)
EXTENDS Integers, FiniteSets, FiniteSetsExt

CONSTANTS WorldSize,    \* config.parallel.world_size
          MaxFailures   \* bound: how many worker methods raise

ASSUME ControlChannelAssumption == WorldSize \in Nat \ {0} /\ MaxFailures \in Nat

VARIABLES
  rpc,        \* the call in progress: method, argument, phase and errors
  request_at, \* per socket, whether a request is waiting at the server
  reply_at,   \* per socket, the reply to be received
  mapped,     \* per rank, the memory regions that are on the GPU
  version,    \* per rank, the version of its weights
  failures

control_vars == <<rpc, request_at, reply_at, mapped, version, failures>>

Workers == 0 .. (WorldSize - 1)

Regions == {"weights", "kv_cache"}

NoReply == "none"

Idle == [phase |-> "idle", method |-> "", argument |-> 0, next |-> 0, sent |-> {},
         errors |-> 0]

ControlInit ==
  /\ rpc = Idle
  /\ request_at = [r \in Workers |-> FALSE]
  /\ reply_at = [r \in Workers |-> NoReply]
  /\ mapped = [r \in Workers |-> Regions]
  /\ version = [r \in Workers |-> 0]
  /\ failures = 0

worker_vars == <<mapped, version, failures>>

\* The call begins; argument is the tag, or the version that is being sent.
begin_rpc(method, argument) ==
  /\ rpc.phase = "idle"
  /\ rpc' = [Idle EXCEPT !.phase = "send", !.method = method, !.argument = argument]
  /\ UNCHANGED <<request_at, reply_at, worker_vars>>

\* A REQ socket that has a request outstanding refuses the next one.
refuses(r) == request_at[r] \/ reply_at[r] # NoReply

advanced(e) ==
  LET last == rpc.next = WorldSize - 1
  IN  [rpc EXCEPT !.next = IF last THEN 0 ELSE @ + 1,
                  !.phase = IF last THEN (IF @ = "send" THEN "recv" ELSE "done") ELSE @,
                  !.errors = @ + e]

\* Phase 1: one send after the other; a failed one is noted.
SendNext ==
  /\ rpc.phase = "send"
  /\ LET r == rpc.next
     IN  IF refuses(r)
         THEN rpc' = advanced(1) /\ UNCHANGED request_at
         ELSE /\ rpc' = [advanced(0) EXCEPT !.sent = @ \cup {r}]
              /\ request_at' = [request_at EXCEPT ![r] = TRUE]
  /\ UNCHANGED <<reply_at, worker_vars>>

\* Mutant: the first error ends the call.
ReceiveNextOrRaise ==
  /\ rpc.phase = "recv"
  /\ LET r == rpc.next
     IN  IF r \notin rpc.sent
         THEN rpc' = advanced(0) /\ UNCHANGED reply_at
         ELSE /\ reply_at[r] # NoReply
              /\ rpc' = IF reply_at[r] = "error"
                        THEN [advanced(1) EXCEPT !.phase = "done"] ELSE advanced(0)
              /\ reply_at' = [reply_at EXCEPT ![r] = NoReply]
  /\ UNCHANGED <<request_at, worker_vars>>

\* Phase 2: one receive after the other from those that were sent to, errors
\* included, and only then the exception.
ReceiveNext ==
  /\ rpc.phase = "recv"
  /\ LET r == rpc.next
     IN  IF r \notin rpc.sent
         THEN rpc' = advanced(0) /\ UNCHANGED reply_at
         ELSE /\ reply_at[r] # NoReply
              /\ rpc' = advanced(IF reply_at[r] = "error" THEN 1 ELSE 0)
              /\ reply_at' = [reply_at EXCEPT ![r] = NoReply]
  /\ UNCHANGED <<request_at, worker_vars>>

\* pause(tag) and resume(tag); without a tag, every region.
tagged(tag) == IF tag = "all" THEN Regions ELSE {tag}

pause(r, tag) == mapped' = [mapped EXCEPT ![r] = @ \ tagged(tag)] /\ UNCHANGED version

resume(r, tag) == mapped' = [mapped EXCEPT ![r] = @ \cup tagged(tag)] /\ UNCHANGED version

receive_weights(r, v) == version' = [version EXCEPT ![r] = v] /\ UNCHANGED mapped

\* _run and _handle_request of rank r: call the method, reply with its outcome.
_handle_request(r) ==
  /\ request_at[r]
  /\ request_at' = [request_at EXCEPT ![r] = FALSE]
  /\ \/ /\ CASE rpc.method = "sleep"           -> pause(r, rpc.argument)
             [] rpc.method = "wake_up"         -> resume(r, rpc.argument)
             [] rpc.method = "receive_weights" -> receive_weights(r, rpc.argument)
        /\ reply_at' = [reply_at EXCEPT ![r] = "success"]
        /\ UNCHANGED failures
     \/ /\ failures < MaxFailures
        /\ failures' = failures + 1
        /\ reply_at' = [reply_at EXCEPT ![r] = "error"]
        /\ UNCHANGED <<mapped, version>>
  /\ UNCHANGED rpc

\* collective_rpc returns, or raises when there were errors.
end_rpc ==
  /\ rpc.phase = "done"
  /\ rpc' = Idle
  /\ UNCHANGED <<request_at, reply_at, worker_vars>>

rpc_succeeded == rpc.phase = "done" /\ rpc.errors = 0

rpc_raised == rpc.phase = "done" /\ rpc.errors > 0

=============================================================================
