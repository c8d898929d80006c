--------------------------- MODULE RequestChannel ---------------------------
(***************************************************************************)
(* VeXact.generate over the request channel (vexact/engine.py,             *)
(* vexact/worker/driver_client.py, vexact/ipc/request_channel.py): the     *)
(* client's event loop, which keeps one queue per request id, the two      *)
(* sockets, and the two threads of the server.                             *)
(*                                                                         *)
(* A call is one use of generate().  submit() is an async generator;       *)
(* generate() takes its first output and drops it, so the clean-up in its  *)
(* finally runs later, when the event loop closes the dropped generator.   *)
(* The queue is registered before the try that this finally belongs to: a   *)
(* call that ends at the await of the send in between leaves it behind.    *)
(***************************************************************************)
EXTENDS Integers, Sequences, FiniteSets, SequencesExt

CONSTANTS Calls,      \* the calls of generate()
          RequestId,  \* the request_id each of them passes
          NoCall      \* not a call

ASSUME RequestChannelAssumption == NoCall \notin Calls

VARIABLES
  call,            \* where each call is: new, waiting, returned, timed_out, or
                   \*   cut_off when it ended before its request was sent
  sending,         \* waiting calls that are still at the await of the send
  result,          \* the outputs each call has been given
  output_queues,   \* per request id, the call whose queue is registered
  queue,           \* per call, the content of its queue
  input_socket,    \* requests on their way to the server
  output_socket,   \* outputs on their way back
  dropped          \* calls whose generator the event loop has still to close

channel_vars == <<call, sending, result, output_queues, queue, input_socket,
                  output_socket, dropped>>

Ids == {RequestId[c] : c \in Calls}

ChannelInit ==
  /\ call = [c \in Calls |-> "new"]
  /\ sending = {}
  /\ result = [c \in Calls |-> << >>]
  /\ output_queues = [i \in Ids |-> NoCall]
  /\ queue = [c \in Calls |-> << >>]
  /\ input_socket = << >>
  /\ output_socket = << >>
  /\ dropped = {}

\* submit() up to its first await: a new queue takes the place of any other
\* under this id.
submit(c) ==
  /\ call[c] = "new"
  /\ call' = [call EXCEPT ![c] = "waiting"]
  /\ output_queues' = [output_queues EXCEPT ![RequestId[c]] = c]
  /\ sending' = sending \cup {c}
  /\ UNCHANGED <<result, queue, input_socket, output_socket, dropped>>

\* The send is over: at once when the socket has room, else when it has again.
SendRequest(c) ==
  /\ c \in sending
  /\ sending' = sending \ {c}
  /\ input_socket' = Append(input_socket, c)
  /\ UNCHANGED <<call, result, output_queues, queue, output_socket, dropped>>

\* The call ends at the await of the send, outside the try: no finally runs.
cut_off(c) ==
  /\ c \in sending
  /\ sending' = sending \ {c}
  /\ call' = [call EXCEPT ![c] = "cut_off"]
  /\ UNCHANGED <<result, output_queues, queue, output_socket, dropped>>

\* encode() or send() raises.
SendRaises(c) ==
  /\ cut_off(c)
  /\ UNCHANGED input_socket

\* wait_for() cancels get_result() at the send; the request may just have gone.
CancelSend(c) ==
  /\ cut_off(c)
  /\ input_socket' \in {input_socket, Append(input_socket, c)}

\* Mutant: an output goes to the longest waiting call.
route_first(output) ==
  LET waiting == {c \in Calls : call[c] = "waiting"}
  IN  IF waiting = {} THEN NoCall ELSE CHOOSE c \in waiting : TRUE

\* _output_queues.get(output.request_id)
route(output) == output_queues[output.request_id]

\* _receive_loop: an output whose id nobody waits for is dropped.
_receive_loop ==
  /\ output_socket # << >>
  /\ LET output == Head(output_socket)
     IN  queue' = IF route(output) = NoCall THEN queue
                  ELSE [queue EXCEPT ![route(output)] = Append(@, output)]
  /\ output_socket' = Tail(output_socket)
  /\ UNCHANGED <<call, sending, result, output_queues, input_socket, dropped>>

\* queue.get() and yield; get_result() returns without finishing the generator.
Return(c) ==
  /\ call[c] = "waiting" /\ c \notin sending
  /\ queue[c] # << >>
  /\ call' = [call EXCEPT ![c] = "returned"]
  /\ result' = [result EXCEPT ![c] = <<Head(queue[c])>>]
  /\ queue' = [queue EXCEPT ![c] = Tail(@)]
  /\ dropped' = dropped \cup {c}
  /\ UNCHANGED <<sending, output_queues, input_socket, output_socket>>

\* Mutant: the clean-up is left out.
close_generator_keep(c) ==
  /\ c \in dropped
  /\ dropped' = dropped \ {c}
  /\ UNCHANGED <<call, sending, result, output_queues, queue, input_socket,
                 output_socket>>

\* The event loop closes a dropped generator: its finally pops the request id,
\* whoever has registered a queue under it by now.
close_generator(c) ==
  /\ c \in dropped
  /\ dropped' = dropped \ {c}
  /\ output_queues' = [output_queues EXCEPT ![RequestId[c]] = NoCall]
  /\ UNCHANGED <<call, sending, result, queue, input_socket, output_socket>>

\* wait_for() cancels get_result() at queue.get(); the finally runs at once.
Timeout(c) ==
  /\ call[c] = "waiting" /\ c \notin sending
  /\ call' = [call EXCEPT ![c] = "timed_out"]
  /\ output_queues' = [output_queues EXCEPT ![RequestId[c]] = NoCall]
  /\ UNCHANGED <<sending, result, queue, input_socket, output_socket, dropped>>

\* The server's input thread takes a request off the socket ...
TakeRequest ==
  /\ input_socket # << >>
  /\ input_socket' = Tail(input_socket)
  /\ UNCHANGED <<call, sending, result, output_queues, queue, output_socket, dropped>>

\* ... and its output thread sends a finished one's output.
SendOutput(output) ==
  /\ output_socket' = Append(output_socket, output)
  /\ UNCHANGED <<call, sending, result, output_queues, queue, input_socket, dropped>>

=============================================================================
