--------------------------- MODULE ServingProofs ---------------------------
(***************************************************************************)
(* Theorems about the engine that serves requests and is trained, for any  *)
(* calls, any assignment of request ids, any number of ranks, tokens and   *)
(* updates:                                                                *)
(*                                                                         *)
(*   EngineTypes        its types;                                         *)
(*   CallsLeaveNoReply  a collective call leaves every socket ready;       *)
(*   QueuesAreCleaned   the table of queues is cleaned, but for the calls  *)
(*                      that end in the send;                              *)
(*   ComputesOnMapped   nothing is computed on released memory;            *)
(*   StepsAreTrue       the version reported with an answer is its own;    *)
(*   CallsGetTheirOwn   each call gets its own result, unless ids are      *)
(*                      shared and calls time out.                         *)
(*                                                                         *)
(* All rest on one inductive invariant, Inv, in two halves.  Registered,   *)
(* Ahead, Behind and Own follow a request from the call to the answer;     *)
(* Sockets, Calling, Memory and Versions follow the trainer through its    *)
(* collective calls, rank by rank.  They meet in Tokenized: a token is     *)
(* sampled only while some call waits, hence between two updates.          *)
(***************************************************************************)
EXTENDS Serving, SequenceTheorems, TLAPS

\* No element twice.
Distinct(s) == \A i, j \in 1 .. Len(s) : i # j => s[i] # s[j]

\* The output of a call: its id and all it has generated.
Answer(c) == [request_id |-> RequestId[c], of |-> c, tokens |-> generated[c]]

\* A token: the version of the weights on every rank.
Rows == [Workers -> Int]

Outputs == [request_id : Ids, of : Calls, tokens : Seq(Rows)]

CallsOrNone == Calls \cup {NoCall}

CallStates == {"new", "waiting", "returned", "timed_out", "cut_off"}

\* The types of the channel and of the driver.
ChannelTypes ==
  /\ use \in Uses
  /\ call \in [Calls -> CallStates]
  /\ sending \subseteq Calls
  /\ result \in [Calls -> Seq(Outputs)]
  /\ output_queues \in [Ids -> CallsOrNone]
  /\ queue \in [Calls -> Seq(Outputs)]
  /\ input_socket \in Seq(Calls)
  /\ output_socket \in Seq(Outputs)
  /\ dropped \subseteq Calls
  /\ request_queue \in Seq(Calls)
  /\ active_requests \in [Ids -> CallsOrNone]
  /\ generated \in [Calls -> Seq(Rows)]
  /\ result_queue \in Seq(Calls)

\* The types of the control channel, the workers and the server.
ControlTypes ==
  /\ DOMAIN rpc = {"phase", "method", "argument", "next", "sent", "errors"}
  /\ rpc.phase \in {"idle", "send", "recv", "done"}
  /\ rpc.next \in Workers
  /\ rpc.errors \in Nat
  /\ request_at \in [Workers -> BOOLEAN]
  /\ reply_at \in [Workers -> {NoReply, "success", "error"}]
  /\ mapped \in [Workers -> SUBSET Regions]
  /\ version \in [Workers -> 0 .. MaxSteps]
  /\ rank_at \in Workers
  /\ ready_pipe \in [Workers -> {"empty", "READY", "FAILED", "EOF"}]
  /\ global_steps \in 0 .. MaxSteps
  /\ reported \in [Calls -> -1 .. MaxSteps]

\* The table of queues: a call is registered under its own id, only while it waits,
\* before its generator is closed or after it was cut off in the send; while a call
\* waits, its id leads to it or, once the generator of an earlier call has popped
\* it, nowhere.
Registered ==
  /\ \A i \in Ids : output_queues[i] # NoCall =>
       /\ RequestId[output_queues[i]] = i
       /\ \/ call[output_queues[i]] \in {"waiting", "cut_off"}
          \/ output_queues[i] \in dropped
  /\ \A c \in dropped : call[c] = "returned"
  /\ \A c \in sending : call[c] = "waiting"
  /\ \A c \in Calls : call[c] = "waiting" => output_queues[RequestId[c]] \in {c, NoCall}
  /\ \A c, d \in Calls : call[c] = "waiting" /\ call[d] = "waiting" /\ c # d
       => RequestId[c] # RequestId[d]

\* The request of c has not been admitted.
Submitted(c) == c \in Range(input_socket) \cup Range(request_queue)

\* The request of c is being computed.
Active(c) == active_requests[RequestId[c]] = c

\* The request of c has not been sent; nor will it be, when c has no timeout and
\* was cut off: encode() or send() has raised.
Unsent(c) == call[c] = "new" \/ c \in sending \/ (call[c] = "cut_off" /\ ~use.timeouts)

\* Before the answer: a request is in one place, has no token before it is
\* admitted, and is computed only while tokens are missing.
Ahead ==
  /\ Distinct(input_socket) /\ Distinct(request_queue)
  /\ Range(input_socket) \cap Range(request_queue) = {}
  /\ \A c \in Calls :
       /\ Submitted(c) => generated[c] = << >> /\ ~Active(c)
       /\ Active(c) => Len(generated[c]) < Tokens
       /\ Unsent(c) => generated[c] = << >> /\ ~Submitted(c) /\ ~Active(c)
       /\ Len(generated[c]) <= Tokens
  /\ \A i \in Ids : active_requests[i] # NoCall => RequestId[active_requests[i]] = i

\* After the last token: the call is once in the result queue or once on the
\* socket, as a whole answer.
Behind ==
  /\ Distinct(result_queue) /\ Distinct(output_socket)
  /\ \A c \in Range(result_queue) : Len(generated[c]) = Tokens
  /\ \A o \in Range(output_socket) :
       o = Answer(o.of) /\ Len(generated[o.of]) = Tokens /\ o.of \notin Range(result_queue)

\* Only calls with a timeout time out.
Patient == \A c \in Calls : call[c] = "timed_out" => use.timeouts

\* No two calls share a request id.
DistinctIds == \A c, d \in Calls : c # d => RequestId[c] # RequestId[d]

\* What generate() needs to give each call its own result: ids of their own, or
\* no timeouts (see the run that shows what happens otherwise).
Separated == DistinctIds \/ ~use.timeouts

\* The answer of c has reached it.
Arrived(c) == call[c] = "returned" \/ queue[c] # << >>

\* A call has, in its queue and as its result, its own answer only, and what has
\* arrived is nowhere else.
Own ==
  \A c \in Calls :
    /\ \A o \in Range(queue[c]) : o = Answer(c)
    /\ result[c] = IF call[c] = "returned" THEN <<Answer(c)>> ELSE << >>
    /\ Arrived(c) =>
         /\ Len(generated[c]) = Tokens
         /\ c \notin Range(result_queue)
         /\ \A o \in Range(output_socket) : o.of # c

\* The ranks that have been sent the request of the collective call and whose
\* reply has not been received.
Outstanding ==
  IF rpc.phase = "send" THEN {r \in Workers : r < rpc.next}
  ELSE IF rpc.phase = "recv" THEN {r \in Workers : r >= rpc.next}
  ELSE {}

\* REQ and REP alternate: an outstanding rank holds either the request or its
\* reply, any other neither.
Sockets ==
  /\ \A r \in Workers :
       IF r \in Outstanding
       THEN request_at[r] <=> reply_at[r] = NoReply
       ELSE ~request_at[r] /\ reply_at[r] = NoReply
  /\ rpc.phase = "send" => rpc.sent = {r \in Workers : r < rpc.next}
  /\ rpc.phase = "recv" => rpc.sent = Workers

\* Where the trainer is decides which collective call is in progress, and nobody
\* waits for samples outside the rollout.
Calling ==
  /\ trainer \in {"rollout", "releasing", "released", "resuming_weights", "resumed_weights",
                  "updating", "updated", "resuming_kv_cache", "failed"}
  /\ rpc.phase # "idle" <=>
       trainer \in {"releasing", "resuming_weights", "updating", "resuming_kv_cache"}
  /\ trainer = "releasing" => rpc.method = "sleep" /\ rpc.argument = "all"
  /\ trainer = "resuming_weights" => rpc.method = "wake_up" /\ rpc.argument = "weights"
  /\ trainer = "resuming_kv_cache" => rpc.method = "wake_up" /\ rpc.argument = "kv_cache"
  /\ trainer = "updating" =>
       rpc.method = "receive_weights" /\ rpc.argument = global_steps + 1
  /\ trainer \in {"releasing", "released", "resuming_weights", "resumed_weights", "updating"}
       => global_steps < MaxSteps
  /\ trainer # "rollout" => use.trained
  /\ trainer \in {"releasing", "resuming_weights", "resuming_kv_cache"} => use.free_cache_engine
  /\ \A c \in Calls : call[c] = "waiting" => trainer = "rollout"

\* Rank r has executed the method of the call in progress, and nothing failed.
Handled(r) ==
  /\ rpc.phase # "idle"
  /\ rpc.phase = "send" => r < rpc.next
  /\ ~request_at[r]
  /\ rpc.errors = 0
  /\ reply_at[r] # "error"

\* What is mapped on every rank, by where the trainer is.
Memory ==
  \A r \in Workers :
    /\ trainer = "rollout" \/ ~use.free_cache_engine => mapped[r] = Regions
    /\ trainer \in {"resumed_weights", "updating", "updated", "resuming_kv_cache"}
         => "weights" \in mapped[r]
    /\ trainer = "resuming_weights" /\ Handled(r) => "weights" \in mapped[r]
    /\ trainer = "resuming_kv_cache" /\ Handled(r) => "kv_cache" \in mapped[r]

\* The weights of every rank, by where the trainer is.
Versions ==
  \A r \in Workers :
    /\ trainer \notin {"updating", "failed"} => version[r] = global_steps
    /\ trainer = "updating" => version[r] \in {global_steps, global_steps + 1}
    /\ trainer = "updating" /\ Handled(r) => version[r] = global_steps + 1

\* No token is garbage; the tokens of a waiting call are of the current version,
\* those of a returned one of the version reported with it.
Tokenized ==
  \A c \in Calls :
    /\ \A k \in 1 .. Len(generated[c]) : generated[c][k] # Garbage
    /\ use.trained /\ call[c] = "waiting" =>
         \A k \in 1 .. Len(generated[c]) : \A r \in Workers :
           generated[c][k][r] = global_steps
    /\ use.trained /\ call[c] = "returned" =>
         \A k \in 1 .. Len(generated[c]) : \A r \in Workers :
           generated[c][k][r] = reported[c]

\* The inductive invariant.
Inv == /\ ChannelTypes /\ ControlTypes /\ Registered /\ Ahead /\ Behind /\ Patient
       /\ (Separated => Own) /\ Sockets /\ Calling /\ Memory /\ Versions /\ Tokenized

-----------------------------------------------------------------------------
(* Sequences. *)

\* The range of a sequence is the set of its elements.
LEMMA RangeElement ==
  ASSUME NEW S, NEW s \in Seq(S)
  PROVE  /\ Range(s) \subseteq S
         /\ \A x : x \in Range(s) <=> \E k \in 1 .. Len(s) : s[k] = x
<1>1. DOMAIN s = 1 .. Len(s)
  BY LenProperties
<1>2. \A k \in 1 .. Len(s) : s[k] \in S
  BY ElementOfSeq
<1> QED BY <1>1, <1>2 DEF Range

\* Appending adds to the range, and keeps the elements distinct if it is new.
LEMMA RangeAppend ==
  ASSUME NEW S, NEW s \in Seq(S), NEW e \in S
  PROVE  /\ Range(Append(s, e)) = Range(s) \cup {e}
         /\ Distinct(s) /\ e \notin Range(s) => Distinct(Append(s, e))
<1> DEFINE t == Append(s, e)
           n == Len(s)
<1>1. /\ t \in Seq(S) /\ Len(t) = n + 1 /\ t[n + 1] = e /\ n \in Nat
      /\ \A i \in 1 .. n : t[i] = s[i]
  BY AppendProperties, LenProperties
<1> HIDE DEF t, n
<1>2. \A i \in 1 .. n + 1 : i \in 1 .. n \/ i = n + 1
  BY <1>1
<1>3. \A x : x \in Range(t) <=> \E k \in 1 .. n + 1 : t[k] = x
  BY <1>1, RangeElement
<1>4. \A x : x \in Range(s) <=> \E k \in 1 .. n : s[k] = x
  BY RangeElement DEF n
<1>5. Range(t) = Range(s) \cup {e}
  <2>1. \A i \in 1 .. n : i \in 1 .. n + 1
    BY <1>1
  <2>2. n + 1 \in 1 .. n + 1
    BY <1>1
  <2> QED BY <1>1, <1>2, <1>3, <1>4, <2>1, <2>2
<1>6. Distinct(s) /\ e \notin Range(s) => Distinct(t)
  <2> SUFFICES ASSUME Distinct(s), e \notin Range(s),
                      NEW i \in 1 .. n + 1, NEW j \in 1 .. n + 1, i # j
               PROVE  t[i] # t[j]
    BY <1>1 DEF Distinct
  <2>1. \A a, b \in 1 .. n : a # b => s[a] # s[b]
    BY DEF Distinct, n
  <2> QED BY <1>1, <1>2, <1>4, <2>1
<1> QED BY <1>5, <1>6 DEF t

\* Of distinct elements the tail loses just the head.
LEMMA RangeTail ==
  ASSUME NEW S, NEW s \in Seq(S), s # << >>, Distinct(s)
  PROVE  /\ Range(Tail(s)) = Range(s) \ {Head(s)}
         /\ Head(s) \in Range(s)
         /\ Distinct(Tail(s))
<1> DEFINE t == Tail(s)
           n == Len(s)
<1>1. /\ t \in Seq(S) /\ Len(t) = n - 1 /\ n \in Nat /\ n > 0
      /\ \A i \in 1 .. n - 1 : t[i] = s[i + 1]
      /\ Head(s) = s[1]
  BY HeadTailProperties, EmptySeq
<1> HIDE DEF t, n
<1>2. \A x : x \in Range(t) <=> \E k \in 1 .. n - 1 : t[k] = x
  BY <1>1, RangeElement
<1>3. \A x : x \in Range(s) <=> \E k \in 1 .. n : s[k] = x
  BY RangeElement DEF n
<1>4. \A a, b \in 1 .. n : a # b => s[a] # s[b]
  BY DEF Distinct, n
<1>5. Head(s) \in Range(s)
  BY <1>1, <1>3
<1>6. ASSUME NEW x PROVE x \in Range(t) <=> x \in Range(s) /\ x # Head(s)
  <2>1. ASSUME x \in Range(t) PROVE x \in Range(s) /\ x # Head(s)
    <3>1. PICK k \in 1 .. n - 1 : t[k] = x
      BY <1>2, <2>1
    <3>2. k + 1 \in 1 .. n /\ k + 1 # 1 /\ 1 \in 1 .. n /\ s[k + 1] = x
      BY <1>1, <3>1
    <3> QED BY <1>1, <1>3, <1>4, <3>2
  <2>2. ASSUME x \in Range(s), x # Head(s) PROVE x \in Range(t)
    <3>1. PICK k \in 1 .. n : s[k] = x
      BY <1>3, <2>2
    <3>2. k - 1 \in 1 .. n - 1 /\ (k - 1) + 1 = k
      BY <1>1, <2>2, <3>1
    <3> QED BY <1>1, <1>2, <3>1, <3>2
  <2> QED BY <2>1, <2>2
<1>7. Distinct(t)
  <2> SUFFICES ASSUME NEW i \in 1 .. n - 1, NEW j \in 1 .. n - 1, i # j
               PROVE  t[i] # t[j]
    BY <1>1 DEF Distinct
  <2>1. i + 1 \in 1 .. n /\ j + 1 \in 1 .. n /\ i + 1 # j + 1
    BY <1>1
  <2> QED BY <1>1, <1>4, <2>1
<1> QED BY <1>5, <1>6, <1>7 DEF t

-----------------------------------------------------------------------------
(* Frames and types. *)

\* How the engine is used never changes.
LEMMA UseKept == [Next]_vars => use' = use
BY DEF Next, vars, Launch, close, generate, GenerateSends, GenerateFails, GenerateTimesOut,
   Serve, ReceiveOutput, _on_request, _poll_outputs, Admit, GenerateToken, GenerateReturns, CloseGenerator, Train, release,
   resume_weights, update_weights, resume_kv_cache, Request, Skip, Rpc, RpcEnds

\* Only the trainer and the collective calls touch the workers' state.
LEMMA ControlKept ==
  ASSUME [Next]_vars, ~Train, ~Rpc, ~RpcEnds
  PROVE  UNCHANGED <<control_vars, trainer, global_steps>>
BY DEF Next, vars, server_vars, Launch, close, generate, GenerateSends, GenerateFails,
   GenerateTimesOut, Serve, ReceiveOutput, _on_request, _poll_outputs, Admit, GenerateToken, GenerateReturns, CloseGenerator

\* Only the requests' own actions touch the channel and the driver.
LEMMA RequestsKept ==
  ASSUME [Next]_vars, ~Serve,
         \A c \in Calls : ~generate(c) /\ ~GenerateFails(c) /\ ~GenerateTimesOut(c)
  PROVE  UNCHANGED <<channel_vars, driver_vars, reported>>
BY DEF Next, vars, server_vars, Launch, close, Train, release, resume_weights, update_weights,
   resume_kv_cache, Request, Skip, Rpc, RpcEnds

\* The ids are those of the calls.
LEMMA IdsTyped == \A c \in Calls : RequestId[c] \in Ids /\ c # NoCall
BY RequestChannelAssumption DEF Ids

\* A sampled token is a row of versions.
LEMMA SampledRow == ControlTypes => Sampled \in Rows
<1> SUFFICES ASSUME ControlTypes PROVE Sampled \in Rows
  OBVIOUS
<1>1. version \in Rows
  BY ServingAssumption DEF ControlTypes, Rows
<1>2. Garbage \in Rows
  BY DEF Garbage, Rows
<1> QED BY <1>1, <1>2 DEF Sampled

\* An answer is an output.
LEMMA AnswerTyped == ChannelTypes => \A c \in Calls : Answer(c) \in Outputs
<1> SUFFICES ASSUME ChannelTypes, NEW c \in Calls PROVE Answer(c) \in Outputs
  OBVIOUS
<1>1. generated[c] \in Seq(Rows) /\ RequestId[c] \in Ids
  BY IdsTyped DEF ChannelTypes
<1> QED BY <1>1 DEF Answer, Outputs

\* What is active is a call.
LEMMA ActiveCall ==
  ASSUME ChannelTypes, NEW i \in Ids, active_requests[i] # NoCall
  PROVE  active_requests[i] \in Calls
BY DEF ChannelTypes, CallsOrNone

\* Every step keeps the types of the channel and the driver.
LEMMA ChannelTypesStep == Inv /\ [Next]_vars => ChannelTypes'
<1> SUFFICES ASSUME Inv, [Next]_vars PROVE ChannelTypes'
  OBVIOUS
<1>0. ChannelTypes /\ ControlTypes /\ use' = use
  BY UseKept DEF Inv
<1>a. Outputs' = Outputs /\ Rows' = Rows
  BY DEF Outputs, Rows
<1> USE DEF ChannelTypes, channel_vars, driver_vars
<1>1. ASSUME NEW c \in Calls, generate(c) PROVE ChannelTypes'
  BY <1>0, <1>1, IdsTyped DEF generate, submit, CallsOrNone, CallStates
<1>2. ASSUME NEW c \in Calls, GenerateTimesOut(c) PROVE ChannelTypes'
  <2>1. Append(input_socket, c) \in Seq(Calls)
    BY <1>0, AppendProperties
  <2>2. CASE Timeout(c)
    BY <1>0, <1>2, <2>2, IdsTyped DEF GenerateTimesOut, Timeout, CallsOrNone, CallStates
  <2>3. CASE CancelSend(c)
    BY <1>0, <1>2, <2>1, <2>3 DEF GenerateTimesOut, CancelSend, cut_off, CallStates
  <2> QED BY <1>2, <2>2, <2>3 DEF GenerateTimesOut
<1>11. ASSUME NEW c \in Calls, GenerateSends(c) PROVE ChannelTypes'
  <2>1. Append(input_socket, c) \in Seq(Calls)
    BY <1>0, AppendProperties
  <2> QED BY <1>0, <1>11, <2>1 DEF GenerateSends, SendRequest
<1>12. ASSUME NEW c \in Calls, GenerateFails(c) PROVE ChannelTypes'
  BY <1>0, <1>12 DEF GenerateFails, SendRaises, cut_off, CallStates
<1>3. ASSUME NEW c \in Calls, CloseGenerator(c) PROVE ChannelTypes'
  BY <1>0, <1>3, IdsTyped DEF CloseGenerator, close_generator, CallsOrNone
<1>4. ASSUME NEW c \in Calls, GenerateReturns(c) PROVE ChannelTypes'
  <2>1. queue[c] \in Seq(Outputs) /\ queue[c] # << >>
    BY <1>0, <1>4 DEF GenerateReturns, Return
  <2>2. Head(queue[c]) \in Outputs /\ Tail(queue[c]) \in Seq(Outputs)
    BY <2>1, HeadTailProperties
  <2>3. <<Head(queue[c])>> \in Seq(Outputs)
    BY <2>2
  <2>4. result' \in [Calls -> Seq(Outputs)] /\ queue' \in [Calls -> Seq(Outputs)]
    BY <1>0, <1>4, <2>2, <2>3 DEF GenerateReturns, Return
  <2> QED BY <1>0, <1>4, <1>a, <2>4 DEF GenerateReturns, Return, CallStates
<1>5. CASE ReceiveOutput
  <2> DEFINE o == Head(output_socket)
             d == route(o)
  <2>1. o \in Outputs /\ Tail(output_socket) \in Seq(Outputs)
    BY <1>0, <1>5, HeadTailProperties DEF ReceiveOutput, _receive_loop
  <2>2. o.request_id \in Ids
    BY <2>1 DEF Outputs
  <2>3. d \in CallsOrNone
    BY <1>0, <2>2 DEF route
  <2>4. queue' = IF d = NoCall THEN queue ELSE [queue EXCEPT ![d] = Append(@, o)]
    BY <1>5 DEF ReceiveOutput, _receive_loop
  <2> HIDE DEF o, d
  <2>5. queue' \in [Calls -> Seq(Outputs)]
    <3>1. CASE d = NoCall
      BY <1>0, <2>4, <3>1
    <3>2. CASE d \in Calls
      <4>1. Append(queue[d], o) \in Seq(Outputs)
        BY <1>0, <2>1, <3>2, AppendProperties
      <4>2. queue' = [queue EXCEPT ![d] = Append(queue[d], o)]
        BY <2>4, <3>2, IdsTyped
      <4> QED BY <1>0, <3>2, <4>1, <4>2
    <3> QED BY <2>3, <3>1, <3>2 DEF CallsOrNone
  <2> QED BY <1>0, <1>5, <1>a, <2>1, <2>5 DEF ReceiveOutput, _receive_loop
<1>6. CASE _on_request
  <2>1. Head(input_socket) \in Calls /\ Tail(input_socket) \in Seq(Calls)
    BY <1>0, <1>6, HeadTailProperties DEF _on_request, TakeRequest
  <2> QED BY <1>0, <1>6, <2>1, AppendProperties DEF _on_request, TakeRequest
<1>7. CASE _poll_outputs
  <2>1. Head(result_queue) \in Calls /\ Tail(result_queue) \in Seq(Calls)
    BY <1>0, <1>7, HeadTailProperties DEF _poll_outputs
  <2>2. output_socket' = Append(output_socket, Answer(Head(result_queue)))
    BY <1>7 DEF _poll_outputs, SendOutput, Answer
  <2>3. output_socket' \in Seq(Outputs)
    BY <1>0, <2>1, <2>2, AnswerTyped, AppendProperties
  <2> QED BY <1>0, <1>7, <1>a, <2>1, <2>3 DEF _poll_outputs, SendOutput
<1>8. CASE Admit
  <2>1. Head(request_queue) \in Calls /\ Tail(request_queue) \in Seq(Calls)
    BY <1>0, <1>8, HeadTailProperties DEF Admit
  <2> QED BY <1>0, <1>8, <2>1, IdsTyped DEF Admit, CallsOrNone
<1>9. ASSUME NEW i \in Ids, GenerateToken(i) PROVE ChannelTypes'
  <2> DEFINE c == active_requests[i]
  <2>1. c \in Calls
    BY <1>0, <1>9, ActiveCall DEF GenerateToken
  <2>2. Append(generated[c], Sampled) \in Seq(Rows)
    BY <1>0, <2>1, SampledRow, AppendProperties
  <2>3. /\ generated' = [generated EXCEPT ![c] = Append(generated[c], Sampled)]
        /\ active_requests' = [active_requests EXCEPT ![i] =
                                 IF is_last(c) THEN NoCall ELSE active_requests[i]]
        /\ result_queue' = IF is_last(c) THEN Append(result_queue, c) ELSE result_queue
    BY <1>9 DEF GenerateToken
  <2> HIDE DEF c
  <2>4. generated' \in [Calls -> Seq(Rows)]
    BY <1>0, <2>1, <2>2, <2>3
  <2>5. active_requests' \in [Ids -> CallsOrNone]
    BY <1>0, <2>3 DEF CallsOrNone
  <2>6. result_queue' \in Seq(Calls)
    BY <1>0, <2>1, <2>3, AppendProperties
  <2> QED BY <1>0, <1>9, <1>a, <2>4, <2>5, <2>6 DEF GenerateToken
<1>10. CASE ~Serve /\ \A c \in Calls : ~generate(c) /\ ~GenerateFails(c) /\ ~GenerateTimesOut(c)
  BY <1>0, <1>a, <1>10, RequestsKept
<1> QED
  BY <1>1, <1>2, <1>3, <1>4, <1>5, <1>6, <1>7, <1>8, <1>9, <1>10, <1>11, <1>12 DEF Serve

-----------------------------------------------------------------------------
(* The collective calls. *)

\* The fields of the call that is in progress.
Fields(c, p, m, a, n, s, e) ==
  /\ DOMAIN c = {"phase", "method", "argument", "next", "sent", "errors"}
  /\ c.phase = p /\ c.method = m /\ c.argument = a
  /\ c.next = n /\ c.sent = s /\ c.errors = e

\* The ranks are numbers from 0 on.
LEMMA WorkersTyped ==
  /\ \A r \in Workers : r \in Nat /\ r \in Int /\ r < WorldSize
  /\ 0 \in Workers /\ WorldSize - 1 \in Workers
  /\ WorldSize \in Nat
  /\ \A r \in Workers : r # WorldSize - 1 => r + 1 \in Workers
  /\ \A r \in Workers : (r + 1) % WorldSize \in Workers
<1>1. WorldSize \in Nat /\ WorldSize > 0
  BY ControlChannelAssumption
<1>2. \A r \in Workers : (r + 1) % WorldSize \in 0 .. (WorldSize - 1)
  BY <1>1 DEF Workers
<1> QED BY <1>1, <1>2 DEF Workers

\* Moving the collective call to its next rank.
LEMMA Advanced ==
  ASSUME ControlTypes, NEW e \in Nat
  PROVE  LET last == rpc.next = WorldSize - 1
         IN  Fields(advanced(e),
                    IF last THEN (IF rpc.phase = "send" THEN "recv" ELSE "done")
                    ELSE rpc.phase,
                    rpc.method, rpc.argument,
                    IF last THEN 0 ELSE rpc.next + 1,
                    rpc.sent, rpc.errors + e)
BY DEF ControlTypes, advanced, Fields

\* What sending to the next rank does: its socket was free.
LEMMA SendFacts ==
  ASSUME Inv, SendNext
  PROVE  LET last == rpc.next = WorldSize - 1
         IN  /\ rpc.phase = "send"
             /\ Fields(rpc', IF last THEN "recv" ELSE "send", rpc.method, rpc.argument,
                              IF last THEN 0 ELSE rpc.next + 1,
                              rpc.sent \cup {rpc.next}, rpc.errors)
             /\ request_at' = [request_at EXCEPT ![rpc.next] = TRUE]
             /\ UNCHANGED <<reply_at, mapped, version, failures>>
<1>1. ControlTypes /\ rpc.phase = "send" /\ rpc.next \in Workers /\ rpc.errors \in Nat
  BY DEF Inv, SendNext, ControlTypes
<1>2. ~request_at[rpc.next] /\ reply_at[rpc.next] = NoReply
  BY <1>1, WorkersTyped DEF Inv, Sockets, Outstanding
<1>3. /\ rpc' = [advanced(0) EXCEPT !.sent = @ \cup {rpc.next}]
      /\ request_at' = [request_at EXCEPT ![rpc.next] = TRUE]
      /\ UNCHANGED <<reply_at, mapped, version, failures>>
  BY <1>2 DEF SendNext, refuses, worker_vars
<1>4. rpc.errors + 0 = rpc.errors
  BY <1>1
<1>5. Fields(advanced(0), IF rpc.next = WorldSize - 1 THEN "recv" ELSE "send",
                           rpc.method, rpc.argument,
                           IF rpc.next = WorldSize - 1 THEN 0 ELSE rpc.next + 1,
                           rpc.sent, rpc.errors)
  BY <1>1, <1>4, Advanced
<1> QED BY <1>1, <1>3, <1>5 DEF Fields

\* What receiving from the next rank does: all ranks had been sent to.
LEMMA ReceiveFacts ==
  ASSUME Inv, ReceiveNext
  PROVE  LET last == rpc.next = WorldSize - 1
         IN  /\ rpc.phase = "recv"
             /\ reply_at[rpc.next] \in {"success", "error"}
             /\ Fields(rpc', IF last THEN "done" ELSE "recv", rpc.method, rpc.argument,
                              IF last THEN 0 ELSE rpc.next + 1, rpc.sent,
                              rpc.errors + (IF reply_at[rpc.next] = "error" THEN 1 ELSE 0))
             /\ reply_at' = [reply_at EXCEPT ![rpc.next] = NoReply]
             /\ UNCHANGED <<request_at, mapped, version, failures>>
<1>1. ControlTypes /\ rpc.phase = "recv" /\ rpc.next \in Workers /\ rpc.errors \in Nat
      /\ rpc.sent = Workers
  BY DEF Inv, ReceiveNext, ControlTypes, Sockets
<1> DEFINE e == IF reply_at[rpc.next] = "error" THEN 1 ELSE 0
<1>2. /\ rpc' = advanced(e) /\ reply_at[rpc.next] # NoReply
      /\ reply_at' = [reply_at EXCEPT ![rpc.next] = NoReply]
      /\ UNCHANGED <<request_at, mapped, version, failures>>
  BY <1>1 DEF ReceiveNext, worker_vars
<1>3. e \in Nat
  OBVIOUS
<1>4. reply_at[rpc.next] \in {"success", "error"}
  BY <1>1, <1>2 DEF ControlTypes
<1> HIDE DEF e
<1>5. Fields(advanced(e), IF rpc.next = WorldSize - 1 THEN "done" ELSE "recv",
                           rpc.method, rpc.argument,
                           IF rpc.next = WorldSize - 1 THEN 0 ELSE rpc.next + 1,
                           rpc.sent, rpc.errors + e)
  BY <1>1, <1>3, Advanced
<1> QED BY <1>1, <1>2, <1>4, <1>5 DEF e

\* What beginning a collective call does.
LEMMA BeginFacts ==
  ASSUME NEW m, NEW a, begin_rpc(m, a)
  PROVE  /\ rpc.phase = "idle" /\ Fields(rpc', "send", m, a, 0, {}, 0)
         /\ UNCHANGED <<request_at, reply_at, mapped, version, failures>>
BY DEF begin_rpc, Idle, Fields, worker_vars

\* What ending a collective call does.
LEMMA EndFacts ==
  ASSUME end_rpc
  PROVE  /\ rpc.phase = "done" /\ Fields(rpc', "idle", "", 0, 0, {}, 0)
         /\ UNCHANGED <<request_at, reply_at, mapped, version, failures>>
BY DEF end_rpc, Idle, Fields, worker_vars

\* What a worker that handles a request does: it executes the method of the
\* trainer's current step, or its method raises.
LEMMA HandleFacts ==
  ASSUME Inv, NEW r \in Workers, _handle_request(r)
  PROVE  /\ rpc.phase \in {"send", "recv"} /\ r \in Outstanding
         /\ request_at' = [request_at EXCEPT ![r] = FALSE] /\ rpc' = rpc
         /\ \/ /\ reply_at' = [reply_at EXCEPT ![r] = "success"]
               /\ \/ /\ trainer = "releasing" /\ version' = version
                     /\ mapped' = [mapped EXCEPT ![r] = @ \ Regions]
                  \/ /\ trainer = "resuming_weights" /\ version' = version
                     /\ mapped' = [mapped EXCEPT ![r] = @ \cup {"weights"}]
                  \/ /\ trainer = "resuming_kv_cache" /\ version' = version
                     /\ mapped' = [mapped EXCEPT ![r] = @ \cup {"kv_cache"}]
                  \/ /\ trainer = "updating" /\ mapped' = mapped
                     /\ version' = [version EXCEPT ![r] = global_steps + 1]
            \/ /\ reply_at' = [reply_at EXCEPT ![r] = "error"]
               /\ UNCHANGED <<mapped, version>>
<1>1. request_at[r] /\ request_at' = [request_at EXCEPT ![r] = FALSE] /\ rpc' = rpc
  BY DEF _handle_request
<1>2. r \in Outstanding /\ rpc.phase \in {"send", "recv"}
  BY <1>1 DEF Inv, Sockets, Outstanding
<1>3. trainer \in {"releasing", "resuming_weights", "updating", "resuming_kv_cache"}
  BY <1>2 DEF Inv, Calling
<1>4. \/ /\ reply_at' = [reply_at EXCEPT ![r] = "success"]
         /\ CASE rpc.method = "sleep"           -> pause(r, rpc.argument)
              [] rpc.method = "wake_up"         -> resume(r, rpc.argument)
              [] rpc.method = "receive_weights" -> receive_weights(r, rpc.argument)
      \/ /\ reply_at' = [reply_at EXCEPT ![r] = "error"]
         /\ UNCHANGED <<mapped, version>>
  BY DEF _handle_request
<1>5. ASSUME CASE rpc.method = "sleep"           -> pause(r, rpc.argument)
               [] rpc.method = "wake_up"         -> resume(r, rpc.argument)
               [] rpc.method = "receive_weights" -> receive_weights(r, rpc.argument)
      PROVE  \/ /\ trainer = "releasing" /\ version' = version
                /\ mapped' = [mapped EXCEPT ![r] = @ \ Regions]
             \/ /\ trainer = "resuming_weights" /\ version' = version
                /\ mapped' = [mapped EXCEPT ![r] = @ \cup {"weights"}]
             \/ /\ trainer = "resuming_kv_cache" /\ version' = version
                /\ mapped' = [mapped EXCEPT ![r] = @ \cup {"kv_cache"}]
             \/ /\ trainer = "updating" /\ mapped' = mapped
                /\ version' = [version EXCEPT ![r] = global_steps + 1]
  <2>1. CASE trainer = "releasing"
    <3>1. rpc.method = "sleep" /\ rpc.argument = "all"
      BY <2>1 DEF Inv, Calling
    <3> QED BY <1>5, <2>1, <3>1 DEF pause, tagged
  <2>2. CASE trainer = "resuming_weights"
    <3>1. rpc.method = "wake_up" /\ rpc.argument = "weights"
      BY <2>2 DEF Inv, Calling
    <3> QED BY <1>5, <2>2, <3>1 DEF resume, tagged
  <2>3. CASE trainer = "resuming_kv_cache"
    <3>1. rpc.method = "wake_up" /\ rpc.argument = "kv_cache"
      BY <2>3 DEF Inv, Calling
    <3> QED BY <1>5, <2>3, <3>1 DEF resume, tagged
  <2>4. CASE trainer = "updating"
    <3>1. rpc.method = "receive_weights" /\ rpc.argument = global_steps + 1
      BY <2>4 DEF Inv, Calling
    <3> QED BY <1>5, <2>4, <3>1 DEF receive_weights
  <2> QED BY <1>3, <2>1, <2>2, <2>3, <2>4
<1> QED BY <1>1, <1>2, <1>4, <1>5

\* The steps of the trainer: a call begins, or the memory is not released and
\* the trainer goes on without one.
LEMMA TrainFacts ==
  ASSUME Inv, Train
  PROVE  /\ UNCHANGED <<global_steps, mapped, version, request_at, reply_at>>
         /\ use.trained
         /\ \/ /\ rpc.phase = "idle"
               /\ \/ /\ trainer = "rollout" /\ trainer' = "releasing" /\ NothingWaits
                     /\ global_steps < MaxSteps /\ use.free_cache_engine
                     /\ Fields(rpc', "send", "sleep", "all", 0, {}, 0)
                  \/ /\ trainer = "released" /\ trainer' = "resuming_weights"
                     /\ use.free_cache_engine
                     /\ Fields(rpc', "send", "wake_up", "weights", 0, {}, 0)
                  \/ /\ trainer = "resumed_weights" /\ trainer' = "updating"
                     /\ Fields(rpc', "send", "receive_weights", global_steps + 1, 0, {}, 0)
                  \/ /\ trainer = "updated" /\ trainer' = "resuming_kv_cache"
                     /\ use.free_cache_engine
                     /\ Fields(rpc', "send", "wake_up", "kv_cache", 0, {}, 0)
            \/ /\ rpc' = rpc /\ ~use.free_cache_engine
               /\ \/ /\ trainer = "rollout" /\ trainer' = "released" /\ NothingWaits
                     /\ global_steps < MaxSteps
                  \/ trainer = "released" /\ trainer' = "resumed_weights"
                  \/ trainer = "updated" /\ trainer' = "rollout"
<1> USE DEF control_vars
<1>1. CASE release
  BY <1>1, BeginFacts DEF release, Request, Skip
<1>2. CASE resume_weights
  BY <1>2, BeginFacts DEF resume_weights, Request, Skip
<1>3. CASE update_weights
  BY <1>3, BeginFacts DEF update_weights, Request
<1>4. CASE resume_kv_cache
  BY <1>4, BeginFacts DEF resume_kv_cache, Request, Skip
<1> QED BY <1>1, <1>2, <1>3, <1>4 DEF Train

\* The end of a call: the trainer fails, or goes on where its step leads.
LEMMA RpcEndsFacts ==
  ASSUME Inv, RpcEnds
  PROVE  /\ rpc.phase = "done" /\ Fields(rpc', "idle", "", 0, 0, {}, 0)
         /\ UNCHANGED <<request_at, reply_at, mapped, version>>
         /\ \/ rpc.errors > 0 /\ trainer' = "failed" /\ global_steps' = global_steps
            \/ /\ rpc.errors = 0
               /\ \/ /\ trainer = "releasing" /\ trainer' = "released"
                     /\ global_steps' = global_steps
                  \/ /\ trainer = "resuming_weights" /\ trainer' = "resumed_weights"
                     /\ global_steps' = global_steps
                  \/ /\ trainer = "resuming_kv_cache" /\ trainer' = "rollout"
                     /\ global_steps' = global_steps
                  \/ /\ trainer = "updating" /\ trainer' = "updated"
                     /\ global_steps' = global_steps + 1
<1>1. /\ rpc.phase = "done" /\ Fields(rpc', "idle", "", 0, 0, {}, 0)
      /\ UNCHANGED <<request_at, reply_at, mapped, version>>
  BY EndFacts DEF RpcEnds
<1>2. rpc.errors \in Nat
      /\ trainer \in {"releasing", "resuming_weights", "updating", "resuming_kv_cache"}
      /\ (trainer = "updating" => rpc.argument = global_steps + 1)
  BY <1>1 DEF Inv, ControlTypes, Calling
<1>3. CASE rpc.errors > 0
  <2>1. rpc.errors # 0
    BY <1>2, <1>3
  <2> QED BY <1>1, <1>3, <2>1 DEF RpcEnds, rpc_raised, steps_after, rpc_succeeded
<1>4. CASE rpc.errors = 0
  <2>1. ~(rpc.errors > 0)
    BY <1>4
  <2>2. trainer' = after_rpc /\ global_steps' = steps_after
    BY <2>1 DEF RpcEnds, rpc_raised
  <2> QED BY <1>1, <1>2, <1>4, <2>2 DEF after_rpc, steps_after, rpc_succeeded
<1>5. rpc.errors > 0 \/ rpc.errors = 0
  BY <1>2
<1> QED BY <1>3, <1>4, <1>5

\* Every step keeps the types of the control side.
LEMMA ControlTypesStep == Inv /\ [Next]_vars => ControlTypes'
<1> SUFFICES ASSUME Inv, [Next]_vars PROVE ControlTypes'
  OBVIOUS
<1>0. ControlTypes
  BY DEF Inv
<1>a. /\ reported' \in [Calls -> -1 .. MaxSteps]
      /\ rank_at' \in Workers
      /\ ready_pipe' \in [Workers -> {"empty", "READY", "FAILED", "EOF"}]
  <2>1. reported' \in [Calls -> -1 .. MaxSteps]
    <3>1. ASSUME NEW c \in Calls, GenerateReturns(c) PROVE reported' \in [Calls -> -1 .. MaxSteps]
      <4>1. global_steps \in -1 .. MaxSteps
        BY <1>0, ServingAssumption DEF ControlTypes
      <4> QED BY <1>0, <3>1, <4>1 DEF GenerateReturns, ControlTypes
    <3>2. CASE \A c \in Calls : ~GenerateReturns(c)
      <4>1. reported' = reported
        BY <3>2 DEF Next, vars, server_vars, Launch, close, generate, GenerateSends,
           GenerateFails, GenerateTimesOut, Serve, ReceiveOutput, _on_request, _poll_outputs, Admit, GenerateToken, CloseGenerator,
           Train, release, resume_weights, update_weights, resume_kv_cache, Request, Skip,
           Rpc, RpcEnds
      <4> QED BY <1>0, <4>1 DEF ControlTypes
    <3> QED BY <3>1, <3>2
  <2>2. CASE Launch \/ close
    <3>1. /\ rank_at \in Workers /\ 0 \in Workers /\ (rank_at + 1) % WorldSize \in Workers
          /\ ready_pipe \in [Workers -> {"empty", "READY", "FAILED", "EOF"}]
      BY <1>0, WorkersTyped DEF ControlTypes
    <3>2. CASE AwaitReady
      <4>1. ready_pipe[rank_at] \in {"READY", "FAILED", "EOF"}
        BY <3>1, <3>2 DEF AwaitReady
      <4>2. rank_at' \in {0, (rank_at + 1) % WorldSize}
        BY <3>2, <4>1 DEF AwaitReady
      <4> QED BY <2>1, <3>1, <3>2, <4>2 DEF AwaitReady
    <3>3. CASE StartProc \/ JoinOrKill \/ Finalize \/ CloseDeathPipes \/ ParentKilled
               \/ begin_close
      BY <2>1, <3>1, <3>3 DEF StartProc, JoinOrKill, Finalize, CloseDeathPipes, ParentKilled,
         begin_close
    <3>4. ASSUME NEW r \in Workers,
                 \/ ProxyStarted(r) \/ ProxyTimesOut(r) \/ StopServing(r)
                 \/ ProxyRaises(r) \/ ProcDies(r)
          PROVE  rank_at' = rank_at
                 /\ ready_pipe' \in [Workers -> {"empty", "READY", "FAILED", "EOF"}]
      BY <3>1, <3>4 DEF ProxyStarted, ProxyTimesOut, StopServing, ProxyRaises, ProcDies, Report
    <3> QED BY <2>1, <2>2, <3>1, <3>2, <3>3, <3>4 DEF Launch, close, ProcSteps, ProcFaults
  <2>3. CASE ~Launch /\ ~close
    <3>1. UNCHANGED <<rank_at, ready_pipe>>
      BY <2>3 DEF Next, vars, proc_vars, generate, GenerateSends, GenerateFails,
         GenerateTimesOut, Serve,
         ReceiveOutput, _on_request, _poll_outputs, Admit, GenerateToken, GenerateReturns,
         CloseGenerator, Train, release, resume_weights, update_weights, resume_kv_cache,
         Request, Skip, Rpc, RpcEnds
    <3> QED BY <1>0, <2>1, <3>1 DEF ControlTypes
  <2> QED BY <2>2, <2>3
<1>1. CASE Train
  BY <1>0, <1>1, <1>a, TrainFacts, WorkersTyped DEF ControlTypes, Fields
<1>2. CASE SendNext /\ Rpc
  <2>1. UNCHANGED global_steps
    BY <1>2 DEF Rpc, server_vars
  <2>2. rpc.next \in Workers /\ rpc.errors \in Nat
    BY <1>0 DEF ControlTypes
  <2>3. rpc'.next \in Workers
    BY <1>2, <2>2, SendFacts, WorkersTyped DEF Fields
  <2>4. request_at' \in [Workers -> BOOLEAN]
    BY <1>0, <1>2, <2>2, SendFacts DEF ControlTypes
  <2> QED BY <1>0, <1>2, <1>a, <2>1, <2>2, <2>3, <2>4, SendFacts DEF ControlTypes, Fields
<1>3. CASE ReceiveNext /\ Rpc
  <2>1. UNCHANGED global_steps
    BY <1>3 DEF Rpc, server_vars
  <2>2. rpc'.errors \in Nat
    BY <1>0, <1>3, ReceiveFacts DEF ControlTypes, Fields
  <2> QED BY <1>0, <1>3, <1>a, <2>1, <2>2, ReceiveFacts, WorkersTyped DEF ControlTypes, Fields
<1>4. ASSUME NEW r \in Workers, _handle_request(r), Rpc PROVE ControlTypes'
  <2>1. UNCHANGED <<global_steps, rpc>>
    BY <1>4, HandleFacts DEF Rpc, server_vars
  <2>2. request_at' \in [Workers -> BOOLEAN]
        /\ reply_at' \in [Workers -> {NoReply, "success", "error"}]
    BY <1>0, <1>4, HandleFacts DEF ControlTypes
  <2>3. mapped' \in [Workers -> SUBSET Regions]
    BY <1>0, <1>4, HandleFacts DEF ControlTypes, Regions
  <2>4. version' \in [Workers -> 0 .. MaxSteps]
    <3>1. trainer = "updating" => global_steps + 1 \in 0 .. MaxSteps
      BY <1>0, ServingAssumption DEF Inv, Calling, ControlTypes
    <3> QED BY <1>0, <1>4, <3>1, HandleFacts DEF ControlTypes
  <2> QED BY <1>0, <1>a, <2>1, <2>2, <2>3, <2>4 DEF ControlTypes
<1>5. CASE RpcEnds
  <2>1. global_steps' \in 0 .. MaxSteps
    <3>1. global_steps \in Nat /\ global_steps <= MaxSteps /\ MaxSteps \in Nat
          /\ (trainer = "updating" => global_steps < MaxSteps)
      BY <1>0, ServingAssumption DEF Inv, Calling, ControlTypes
    <3>2. global_steps' = global_steps
          \/ (trainer = "updating" /\ global_steps' = global_steps + 1)
      BY <1>5, RpcEndsFacts
    <3> QED BY <3>1, <3>2
  <2> QED BY <1>0, <1>5, <1>a, <2>1, RpcEndsFacts, WorkersTyped DEF ControlTypes, Fields
<1>6. CASE ~Train /\ ~Rpc /\ ~RpcEnds
  BY <1>0, <1>6, <1>a, ControlKept DEF ControlTypes, control_vars
<1> QED BY <1>1, <1>2, <1>3, <1>4, <1>5, <1>6 DEF Rpc

\* Every step keeps REQ and REP alternating.
LEMMA SocketsStep == Inv /\ [Next]_vars => Sockets'
<1> SUFFICES ASSUME Inv, [Next]_vars PROVE Sockets'
  OBVIOUS
<1>0. Sockets /\ ControlTypes
  BY DEF Inv
<1>a. rpc.next \in Workers /\ rpc.next \in Nat
  BY <1>0, WorkersTyped DEF ControlTypes
<1>1. CASE Train
  <2>1. CASE rpc' = rpc
    BY <1>0, <1>1, <2>1, TrainFacts DEF Sockets, Outstanding
  <2>2. CASE rpc' # rpc
    <3>1. /\ rpc.phase = "idle" /\ UNCHANGED <<request_at, reply_at>>
          /\ rpc'.phase = "send" /\ rpc'.next = 0 /\ rpc'.sent = {}
      BY <1>1, <2>2, TrainFacts DEF Fields
    <3>2. \A r \in Workers : ~(r < 0)
      BY WorkersTyped
    <3> QED BY <1>0, <3>1, <3>2 DEF Sockets, Outstanding
  <2> QED BY <2>1, <2>2
<1>2. CASE SendNext
  <2> DEFINE n == rpc.next
             last == n = WorldSize - 1
  <2>1. /\ rpc.phase = "send" /\ rpc.sent = {r \in Workers : r < n}
        /\ rpc'.phase = (IF last THEN "recv" ELSE "send")
        /\ rpc'.next = (IF last THEN 0 ELSE n + 1)
        /\ rpc'.sent = rpc.sent \cup {n}
        /\ request_at' = [request_at EXCEPT ![n] = TRUE] /\ reply_at' = reply_at
    BY <1>0, <1>2, SendFacts DEF Fields, Sockets
  <2>2. \A r \in Workers : r < n + 1 <=> r < n \/ r = n
    BY <1>a, WorkersTyped
  <2>3. last => \A r \in Workers : r < n \/ r = n
    BY <1>a, WorkersTyped
  <2>4. n \notin Outstanding
    BY <1>a, <2>1 DEF Outstanding
  <2>5. \A r \in Workers : r \in Outstanding' <=> r \in Outstanding \/ r = n
    BY <1>a, <2>1, <2>2, <2>3, WorkersTyped DEF Outstanding
  <2>6. \A r \in Workers : IF r \in Outstanding'
                           THEN request_at'[r] <=> reply_at'[r] = NoReply
                           ELSE ~request_at'[r] /\ reply_at'[r] = NoReply
    BY <1>0, <1>a, <2>1, <2>4, <2>5 DEF Sockets, ControlTypes
  <2>7. rpc'.phase = "send" => rpc'.sent = {r \in Workers : r < rpc'.next}
    BY <1>a, <2>1, <2>2
  <2>8. rpc'.phase = "recv" => rpc'.sent = Workers
    BY <1>a, <2>1, <2>3
  <2> QED BY <2>6, <2>7, <2>8 DEF Sockets
<1>3. CASE ReceiveNext
  <2> DEFINE n == rpc.next
             last == n = WorldSize - 1
  <2>1. /\ rpc.phase = "recv" /\ rpc.sent = Workers
        /\ rpc'.phase = (IF last THEN "done" ELSE "recv")
        /\ rpc'.next = (IF last THEN 0 ELSE n + 1)
        /\ rpc'.sent = rpc.sent
        /\ reply_at' = [reply_at EXCEPT ![n] = NoReply] /\ request_at' = request_at
        /\ reply_at[n] # NoReply
    BY <1>0, <1>3, ReceiveFacts DEF Fields, Sockets, NoReply
  <2>2. \A r \in Workers : r >= n + 1 <=> r >= n /\ r # n
    BY <1>a, WorkersTyped
  <2>3. last => \A r \in Workers : r >= n => r = n
    BY <1>a, WorkersTyped
  <2>4. n \in Outstanding /\ ~request_at[n]
    BY <1>0, <1>a, <2>1 DEF Outstanding, Sockets
  <2>5. \A r \in Workers : r \in Outstanding' <=> r \in Outstanding /\ r # n
    BY <1>a, <2>1, <2>2, <2>3, WorkersTyped DEF Outstanding
  <2>6. \A r \in Workers : IF r \in Outstanding'
                           THEN request_at'[r] <=> reply_at'[r] = NoReply
                           ELSE ~request_at'[r] /\ reply_at'[r] = NoReply
    BY <1>0, <1>a, <2>1, <2>4, <2>5 DEF Sockets, ControlTypes
  <2> QED BY <2>1, <2>6 DEF Sockets
<1>4. ASSUME NEW r \in Workers, _handle_request(r) PROVE Sockets'
  <2>1. /\ rpc' = rpc /\ r \in Outstanding /\ request_at' = [request_at EXCEPT ![r] = FALSE]
        /\ \E o \in {"success", "error"} : reply_at' = [reply_at EXCEPT ![r] = o]
    BY <1>4, HandleFacts
  <2>2. Outstanding' = Outstanding
    BY <2>1 DEF Outstanding
  <2>3. \A q \in Workers : IF q \in Outstanding'
                           THEN request_at'[q] <=> reply_at'[q] = NoReply
                           ELSE ~request_at'[q] /\ reply_at'[q] = NoReply
    BY <1>0, <2>1, <2>2 DEF Sockets, ControlTypes, NoReply
  <2> QED BY <1>0, <2>1, <2>3 DEF Sockets
<1>5. CASE RpcEnds
  <2>1. /\ rpc.phase = "done" /\ rpc'.phase = "idle" /\ UNCHANGED <<request_at, reply_at>>
    BY <1>5, RpcEndsFacts DEF Fields
  <2> QED BY <1>0, <2>1 DEF Sockets, Outstanding
<1>6. CASE ~Train /\ ~Rpc /\ ~RpcEnds
  BY <1>0, <1>6, ControlKept DEF Sockets, Outstanding, control_vars
<1> QED BY <1>1, <1>2, <1>3, <1>4, <1>5, <1>6 DEF Rpc

\* Every step keeps the trainer and the call in progress together.
LEMMA CallingStep == Inv /\ [Next]_vars => Calling'
<1> SUFFICES ASSUME Inv, [Next]_vars PROVE Calling'
  OBVIOUS
<1>0. Calling /\ ControlTypes /\ use' = use /\ ChannelTypes
  BY UseKept DEF Inv
<1>a. \A c \in Calls : call'[c] = "waiting" => call[c] = "waiting" \/ generate(c)
  <2>1. ASSUME NEW c \in Calls, generate(c) PROVE \A d \in Calls : d # c => call'[d] = call[d]
    BY <1>0, <2>1 DEF generate, submit, ChannelTypes
  <2>2. ASSUME NEW c \in Calls,
               GenerateFails(c) \/ GenerateTimesOut(c) \/ GenerateReturns(c)
        PROVE  \A d \in Calls : call'[d] = "waiting" => call[d] = "waiting"
    BY <1>0, <2>2 DEF GenerateFails, SendRaises, GenerateTimesOut, Timeout, CancelSend, cut_off,
       GenerateReturns, Return, ChannelTypes
  <2>3. CASE \A c \in Calls : /\ ~generate(c) /\ ~GenerateFails(c) /\ ~GenerateTimesOut(c)
                              /\ ~GenerateReturns(c)
    <3>1. call' = call
      BY <2>3 DEF GenerateSends, SendRequest, Next, vars, channel_vars, Launch, close, Serve, ReceiveOutput, _receive_loop,
         _on_request, TakeRequest, _poll_outputs, SendOutput, Admit, GenerateToken,
         CloseGenerator, close_generator, Train, release, resume_weights, update_weights,
         resume_kv_cache, Request, Skip, Rpc, RpcEnds
    <3> QED BY <3>1
  <2> QED BY <2>1, <2>2, <2>3
<1>b. \A c \in Calls : generate(c) => trainer = "rollout" /\ UNCHANGED <<control_vars, trainer, global_steps>>
  BY DEF generate, server_vars
<1>1. CASE Train
  <2>1. \A c \in Calls : ~generate(c)
    BY <1>1, <1>b, TrainFacts
  <2>2. \A c \in Calls : call'[c] = "waiting" => call[c] = "waiting" /\ trainer = "rollout"
    BY <1>0, <1>a, <2>1 DEF Calling
  <2>3. \A c \in Calls : call'[c] = "waiting" => FALSE
    BY <1>1, <2>2, TrainFacts DEF NothingWaits
  <2> QED BY <1>0, <1>1, <2>3, TrainFacts DEF Calling, Fields
<1>2. CASE Rpc
  <2>1. UNCHANGED <<call, trainer, global_steps>>
    BY <1>2 DEF Rpc, channel_vars, server_vars
  <2>2. rpc.phase # "idle" /\ rpc'.phase # "idle" /\ rpc'.method = rpc.method
        /\ rpc'.argument = rpc.argument
    <3>1. CASE SendNext
      BY <3>1, SendFacts DEF Fields
    <3>2. CASE ReceiveNext
      BY <3>2, ReceiveFacts DEF Fields
    <3>3. ASSUME NEW r \in Workers, _handle_request(r)
          PROVE  rpc.phase # "idle" /\ rpc' = rpc
      BY <3>3, HandleFacts
    <3> QED BY <1>2, <3>1, <3>2, <3>3 DEF Rpc
  <2> QED BY <1>0, <2>1, <2>2 DEF Calling
<1>3. CASE RpcEnds
  <2>1. call' = call
    BY <1>3 DEF RpcEnds, channel_vars
  <2> QED BY <1>0, <1>3, <2>1, RpcEndsFacts DEF Calling, Fields
<1>4. CASE ~Train /\ ~Rpc /\ ~RpcEnds
  <2>1. UNCHANGED <<rpc, trainer, global_steps>>
    BY <1>4, ControlKept DEF control_vars
  <2> QED BY <1>0, <1>a, <1>b, <2>1 DEF Calling
<1> QED BY <1>1, <1>2, <1>3, <1>4

\* A rank counts as handled only by handling its request.
LEMMA HandledKept ==
  ASSUME Inv, SendNext \/ ReceiveNext, NEW r \in Workers, Handled(r)'
  PROVE  Handled(r)
<1>0. /\ rpc.next \in Workers /\ rpc.next \in Nat /\ r \in Nat /\ rpc.errors \in Nat
      /\ request_at \in [Workers -> BOOLEAN]
      /\ reply_at \in [Workers -> {NoReply, "success", "error"}]
  BY WorkersTyped DEF Inv, ControlTypes
<1>1. CASE SendNext
  <2> DEFINE n == rpc.next
             last == n = WorldSize - 1
  <2>1. /\ rpc.phase = "send"
        /\ rpc'.phase = (IF last THEN "recv" ELSE "send")
        /\ rpc'.next = (IF last THEN 0 ELSE n + 1)
        /\ rpc'.errors = rpc.errors
        /\ request_at' = [request_at EXCEPT ![n] = TRUE] /\ reply_at' = reply_at
    BY <1>1, SendFacts DEF Fields
  <2>2. r # n
    BY <1>0, <2>1 DEF Handled
  <2>3. r < n
    <3>1. CASE last
      BY <1>0, <2>2, <3>1, WorkersTyped
    <3>2. CASE ~last
      <4>1. r < n + 1
        BY <2>1, <3>2 DEF Handled
      <4> QED BY <1>0, <2>2, <4>1
    <3> QED BY <3>1, <3>2
  <2> QED BY <1>0, <2>1, <2>2, <2>3 DEF Handled
<1>2. CASE ReceiveNext
  <2> DEFINE n == rpc.next
             e == IF reply_at[n] = "error" THEN 1 ELSE 0
  <2>1. /\ rpc.phase = "recv" /\ reply_at[n] \in {"success", "error"}
        /\ rpc'.errors = rpc.errors + e
        /\ reply_at' = [reply_at EXCEPT ![n] = NoReply] /\ request_at' = request_at
    BY <1>2, ReceiveFacts DEF Fields
  <2>2. rpc'.errors = 0
    BY DEF Handled
  <2>3. rpc.errors = 0 /\ reply_at[n] # "error"
    BY <1>0, <2>1, <2>2
  <2>4. reply_at[r] # "error"
    BY <1>0, <2>1, <2>3 DEF Handled
  <2> QED BY <2>1, <2>3, <2>4 DEF Handled
<1> QED BY <1>1, <1>2

\* A call that is done without an error has been handled by every rank.
LEMMA AllHandled ==
  ASSUME Inv, rpc.phase = "done", rpc.errors = 0, NEW r \in Workers
  PROVE  Handled(r)
<1>1. ~request_at[r] /\ reply_at[r] = NoReply
  BY DEF Inv, Sockets, Outstanding
<1> QED BY <1>1 DEF Handled, NoReply

\* Handling a request handles it for that rank only, and only if it succeeds.
LEMMA OneHandled ==
  ASSUME Inv, NEW r \in Workers, _handle_request(r)
  PROVE  /\ \A q \in Workers : q # r /\ Handled(q)' => Handled(q)
         /\ Handled(r)' => reply_at' = [reply_at EXCEPT ![r] = "success"]
                           /\ reply_at' # [reply_at EXCEPT ![r] = "error"]
<1>0. /\ request_at \in [Workers -> BOOLEAN]
      /\ reply_at \in [Workers -> {NoReply, "success", "error"}]
  BY DEF Inv, ControlTypes
<1>1. /\ rpc' = rpc /\ request_at' = [request_at EXCEPT ![r] = FALSE]
      /\ reply_at' = [reply_at EXCEPT ![r] = "success"]
         \/ reply_at' = [reply_at EXCEPT ![r] = "error"]
  BY HandleFacts
<1>2. ASSUME NEW q \in Workers, q # r, Handled(q)' PROVE Handled(q)
  BY <1>0, <1>1, <1>2 DEF Handled
<1>3. ASSUME Handled(r)' PROVE reply_at'[r] # "error"
  BY <1>3 DEF Handled
<1> QED BY <1>0, <1>1, <1>2, <1>3

\* When a call begins or has ended no rank counts as handled.
LEMMA NothingHandled ==
  ASSUME Inv, \/ Train /\ rpc' # rpc
              \/ RpcEnds,
         NEW r \in Workers
  PROVE  ~Handled(r)'
<1>1. CASE Train /\ rpc' # rpc
  <2>1. rpc'.phase = "send" /\ rpc'.next = 0
    BY <1>1, TrainFacts DEF Fields
  <2> QED BY <2>1, WorkersTyped DEF Handled
<1>2. CASE RpcEnds
  BY <1>2, RpcEndsFacts DEF Handled, Fields
<1> QED BY <1>1, <1>2

\* Every step keeps what is mapped.
LEMMA MemoryStep == Inv /\ [Next]_vars => Memory'
<1> SUFFICES ASSUME Inv, [Next]_vars PROVE Memory'
  OBVIOUS
<1>0. Memory /\ Calling /\ use' = use /\ mapped \in [Workers -> SUBSET Regions]
  BY UseKept DEF Inv, ControlTypes
<1>1. CASE Train
  <2>1. CASE rpc' = rpc
    <3>1. ~use.free_cache_engine /\ mapped' = mapped
      BY <1>1, <2>1, TrainFacts DEF Fields
    <3>2. \A r \in Workers : mapped'[r] = Regions
      BY <1>0, <3>1 DEF Memory
    <3>3. "weights" \in Regions /\ "kv_cache" \in Regions
      BY DEF Regions
    <3> QED BY <3>2, <3>3 DEF Memory
  <2>2. CASE rpc' # rpc
    BY <1>0, <1>1, <2>2, TrainFacts, NothingHandled DEF Memory
  <2> QED BY <2>1, <2>2
<1>2. CASE (SendNext \/ ReceiveNext) /\ Rpc
  <2>1. UNCHANGED <<mapped, trainer>>
    BY <1>2, SendFacts, ReceiveFacts DEF Rpc, server_vars
  <2> QED BY <1>0, <1>2, <2>1, HandledKept DEF Memory
<1>3. ASSUME NEW r \in Workers, _handle_request(r), Rpc PROVE Memory'
  <2>1. trainer' = trainer
    BY <1>3 DEF Rpc, server_vars
  <2>2. \A q \in Workers : q # r /\ Handled(q)' => Handled(q)
    BY <1>3, OneHandled
  <2>3. trainer \in {"releasing", "resuming_weights", "updating", "resuming_kv_cache"}
    BY <1>0, <1>3, HandleFacts DEF Calling
  <2>4. \A q \in Workers : q # r => mapped'[q] = mapped[q]
    BY <1>0, <1>3, HandleFacts
  <2>5. CASE mapped' = mapped
    <3>1. Handled(r)' => trainer \notin {"resuming_weights", "resuming_kv_cache"}
                         \/ (trainer = "resuming_weights" /\ "weights" \in mapped'[r])
                         \/ (trainer = "resuming_kv_cache" /\ "kv_cache" \in mapped'[r])
      BY <1>0, <1>3, HandleFacts, OneHandled
    <3> QED BY <1>0, <2>1, <2>2, <2>5, <3>1 DEF Memory
  <2>6. CASE mapped' # mapped
    <3>1. \/ trainer = "releasing" /\ mapped' = [mapped EXCEPT ![r] = @ \ Regions]
          \/ trainer = "resuming_weights" /\ mapped' = [mapped EXCEPT ![r] = @ \cup {"weights"}]
          \/ trainer = "resuming_kv_cache" /\ mapped' = [mapped EXCEPT ![r] = @ \cup {"kv_cache"}]
      BY <1>3, <2>6, HandleFacts
    <3>2. CASE trainer = "releasing"
      BY <1>0, <2>1, <3>2 DEF Memory, Calling
    <3>3. CASE trainer = "resuming_weights"
      BY <1>0, <2>1, <2>2, <2>4, <3>1, <3>3 DEF Memory, Calling
    <3>4. CASE trainer = "resuming_kv_cache"
      BY <1>0, <2>1, <2>2, <2>4, <3>1, <3>4 DEF Memory, Calling
    <3> QED BY <3>1, <3>2, <3>3, <3>4
  <2> QED BY <2>5, <2>6
<1>4. CASE RpcEnds
  <2> SUFFICES ASSUME NEW r \in Workers
               PROVE  /\ trainer' = "rollout" \/ ~use.free_cache_engine => mapped[r] = Regions
                      /\ trainer' \in {"resumed_weights", "updating", "updated",
                                       "resuming_kv_cache"} => "weights" \in mapped[r]
    BY <1>0, <1>4, NothingHandled, RpcEndsFacts DEF Memory
  <2>1. rpc.errors = 0 => Handled(r)
    BY <1>4, AllHandled, RpcEndsFacts
  <2>2. mapped[r] \subseteq Regions
    BY <1>0
  <2> QED BY <1>0, <1>4, <2>1, <2>2, RpcEndsFacts DEF Memory, Regions
<1>5. CASE ~Train /\ ~Rpc /\ ~RpcEnds
  BY <1>0, <1>5, ControlKept DEF Memory, Handled, control_vars
<1> QED BY <1>1, <1>2, <1>3, <1>4, <1>5 DEF Rpc

\* Every step keeps what the weights are.
LEMMA VersionsStep == Inv /\ [Next]_vars => Versions'
<1> SUFFICES ASSUME Inv, [Next]_vars PROVE Versions'
  OBVIOUS
<1>0. Versions /\ Calling /\ version \in [Workers -> 0 .. MaxSteps]
  BY DEF Inv, ControlTypes
<1>1. CASE Train
  <2>1. CASE rpc' = rpc
    BY <1>0, <1>1, <2>1, TrainFacts DEF Versions, Handled
  <2>2. CASE rpc' # rpc
    BY <1>0, <1>1, <2>2, TrainFacts, NothingHandled DEF Versions
  <2> QED BY <2>1, <2>2
<1>2. CASE (SendNext \/ ReceiveNext) /\ Rpc
  <2>1. UNCHANGED <<version, trainer, global_steps>>
    BY <1>2, SendFacts, ReceiveFacts DEF Rpc, server_vars
  <2> QED BY <1>0, <1>2, <2>1, HandledKept DEF Versions
<1>3. ASSUME NEW r \in Workers, _handle_request(r), Rpc PROVE Versions'
  <2>1. UNCHANGED <<trainer, global_steps>>
    BY <1>3 DEF Rpc, server_vars
  <2>2. \A q \in Workers : q # r /\ Handled(q)' => Handled(q)
    BY <1>3, OneHandled
  <2>3. \A q \in Workers : q # r => version'[q] = version[q]
    BY <1>0, <1>3, HandleFacts
  <2>4. version'[r] = version[r] \/ (trainer = "updating" /\ version'[r] = global_steps + 1)
    BY <1>0, <1>3, HandleFacts
  <2>5. trainer = "updating" /\ Handled(r)' => version'[r] = global_steps + 1
    BY <1>0, <1>3, HandleFacts, OneHandled
  <2> QED BY <1>0, <2>1, <2>2, <2>3, <2>4, <2>5 DEF Versions
<1>4. CASE RpcEnds
  <2> SUFFICES ASSUME NEW r \in Workers
               PROVE  /\ trainer' \notin {"updating", "failed"} => version[r] = global_steps'
                      /\ trainer' # "updating"
    BY <1>0, <1>4, NothingHandled, RpcEndsFacts DEF Versions
  <2>1. rpc.errors = 0 => Handled(r)
    BY <1>4, AllHandled, RpcEndsFacts
  <2> QED BY <1>0, <1>4, <2>1, RpcEndsFacts DEF Versions
<1>5. CASE ~Train /\ ~Rpc /\ ~RpcEnds
  BY <1>0, <1>5, ControlKept DEF Versions, Handled, control_vars
<1> QED BY <1>1, <1>2, <1>3, <1>4, <1>5 DEF Rpc

-----------------------------------------------------------------------------
(* The requests. *)

\* Only the caller's own actions touch the calls and the table of queues.
LEMMA CallsKept ==
  ASSUME [Next]_vars,
         \A c \in Calls : /\ ~generate(c) /\ ~GenerateFails(c) /\ ~GenerateTimesOut(c)
                          /\ ~GenerateReturns(c) /\ ~CloseGenerator(c)
  PROVE  /\ UNCHANGED <<call, result, output_queues, dropped, reported>>
         /\ sending' \subseteq sending
BY DEF GenerateSends, SendRequest, Next, vars, channel_vars, server_vars, Launch, close, Serve, ReceiveOutput, _receive_loop,
   _on_request, TakeRequest, _poll_outputs, SendOutput, Admit, GenerateToken, Train, release,
   resume_weights, update_weights, resume_kv_cache, Request, Skip, Rpc, RpcEnds

\* Every step keeps the table of queues.
LEMMA RegisteredStep == Inv /\ [Next]_vars => Registered'
<1> SUFFICES ASSUME Inv, [Next]_vars PROVE Registered'
  OBVIOUS
<1>0. /\ Registered /\ dropped \subseteq Calls /\ sending \subseteq Calls
      /\ call \in [Calls -> CallStates]
      /\ output_queues \in [Ids -> CallsOrNone]
  BY DEF Inv, ChannelTypes
<1>a. \A i \in Ids : output_queues[i] # NoCall => output_queues[i] \in Calls
  BY <1>0 DEF CallsOrNone
<1>1. ASSUME NEW c \in Calls, generate(c) PROVE Registered'
  <2>1. /\ call' = [call EXCEPT ![c] = "waiting"] /\ dropped' = dropped /\ call[c] = "new"
        /\ output_queues' = [output_queues EXCEPT ![RequestId[c]] = c]
        /\ \A d \in Calls : call[d] = "waiting" => RequestId[d] # RequestId[c]
        /\ sending' = sending \cup {c}
    BY <1>1 DEF generate, submit
  <2>2. RequestId[c] \in Ids /\ c # NoCall
    BY IdsTyped
  <2> QED BY <1>0, <1>a, <2>1, <2>2, IdsTyped DEF Registered
<1>2. ASSUME NEW c \in Calls, GenerateTimesOut(c), Timeout(c) PROVE Registered'
  <2>1. /\ call' = [call EXCEPT ![c] = "timed_out"] /\ dropped' = dropped /\ call[c] = "waiting"
        /\ output_queues' = [output_queues EXCEPT ![RequestId[c]] = NoCall]
        /\ c \notin sending /\ sending' = sending
    BY <1>2 DEF Timeout
  <2> QED BY <1>0, <1>a, <2>1, IdsTyped DEF Registered
<1>6. ASSUME NEW c \in Calls, cut_off(c) PROVE Registered'
  <2>1. /\ call' = [call EXCEPT ![c] = "cut_off"] /\ dropped' = dropped /\ c \in sending
        /\ output_queues' = output_queues /\ sending' = sending \ {c}
    BY <1>6 DEF cut_off
  <2>2. call[c] = "waiting"
    BY <1>0, <2>1 DEF Registered
  <2> QED BY <1>0, <1>a, <2>1, <2>2, IdsTyped DEF Registered
<1>7. ASSUME NEW c \in Calls, GenerateFails(c) \/ GenerateTimesOut(c) PROVE Registered'
  BY <1>2, <1>6, <1>7 DEF GenerateFails, SendRaises, GenerateTimesOut, CancelSend
<1>3. ASSUME NEW c \in Calls, GenerateReturns(c) PROVE Registered'
  <2>1. /\ call' = [call EXCEPT ![c] = "returned"] /\ dropped' = dropped \cup {c}
        /\ call[c] = "waiting" /\ output_queues' = output_queues
        /\ c \notin sending /\ sending' = sending
    BY <1>3 DEF GenerateReturns, Return
  <2> QED BY <1>0, <1>a, <2>1, IdsTyped DEF Registered
<1>4. ASSUME NEW c \in Calls, CloseGenerator(c) PROVE Registered'
  <2>1. /\ call' = call /\ dropped' = dropped \ {c} /\ c \in dropped
        /\ output_queues' = [output_queues EXCEPT ![RequestId[c]] = NoCall]
        /\ sending' = sending
    BY <1>4 DEF CloseGenerator, close_generator
  <2> QED BY <1>0, <1>a, <2>1, IdsTyped DEF Registered
<1>5. CASE \A c \in Calls : /\ ~generate(c) /\ ~GenerateFails(c) /\ ~GenerateTimesOut(c)
                            /\ ~GenerateReturns(c) /\ ~CloseGenerator(c)
  BY <1>0, <1>5, CallsKept DEF Registered
<1> QED BY <1>1, <1>3, <1>4, <1>5, <1>7

\* Every step keeps who may time out.
LEMMA PatientStep == Inv /\ [Next]_vars => Patient'
<1> SUFFICES ASSUME Inv, [Next]_vars PROVE Patient'
  OBVIOUS
<1>0. /\ Patient /\ use' = use
      /\ call \in [Calls -> CallStates]
  BY UseKept DEF Inv, ChannelTypes
<1>1. ASSUME NEW c \in Calls, GenerateTimesOut(c) PROVE Patient'
  BY <1>0, <1>1 DEF GenerateTimesOut, Timeout, CancelSend, cut_off, Patient
<1>2. ASSUME NEW c \in Calls,
             generate(c) \/ GenerateFails(c) \/ GenerateReturns(c) \/ CloseGenerator(c)
      PROVE  Patient'
  BY <1>0, <1>2 DEF generate, submit, GenerateFails, SendRaises, cut_off, GenerateReturns, Return,
     CloseGenerator, close_generator, Patient
<1>3. CASE \A c \in Calls : /\ ~generate(c) /\ ~GenerateFails(c) /\ ~GenerateTimesOut(c)
                            /\ ~GenerateReturns(c) /\ ~CloseGenerator(c)
  BY <1>0, <1>3, CallsKept DEF Patient
<1> QED BY <1>1, <1>2, <1>3

\* Only submission, admission and generation touch the requests.
LEMMA DriverKept ==
  ASSUME [Next]_vars, ~_on_request, ~Admit, \A i \in Ids : ~GenerateToken(i),
         \A c \in Calls : ~GenerateSends(c) /\ ~GenerateTimesOut(c)
  PROVE  UNCHANGED <<input_socket, request_queue, active_requests, generated>>
BY DEF Next, vars, channel_vars, driver_vars, Launch, close, Serve, ReceiveOutput, _receive_loop,
   _poll_outputs, SendOutput, generate, submit, GenerateFails, SendRaises, GenerateReturns,
   Return, CloseGenerator, close_generator, Train, release, resume_weights, update_weights,
   resume_kv_cache, Request, Skip, Rpc, RpcEnds

\* What generating a token for an id does to the call that is active under it.
LEMMA TokenFacts ==
  ASSUME Inv, NEW i \in Ids, GenerateToken(i)
  PROVE  \E c \in Calls :
           /\ active_requests[i] = c /\ RequestId[c] = i /\ c # NoCall /\ Active(c)
           /\ Len(generated[c]) \in Nat /\ Len(generated[c]) < Tokens
           /\ generated' = [generated EXCEPT ![c] = Append(generated[c], Sampled)]
           /\ generated'[c] = Append(generated[c], Sampled)
           /\ \A d \in Calls : d # c => generated'[d] = generated[d]
           /\ Len(generated'[c]) = Len(generated[c]) + 1
           /\ \/ /\ Len(generated[c]) + 1 = Tokens
                 /\ active_requests' = [active_requests EXCEPT ![i] = NoCall]
                 /\ result_queue' = Append(result_queue, c)
              \/ /\ Len(generated[c]) + 1 < Tokens
                 /\ active_requests' = active_requests
                 /\ result_queue' = result_queue
           /\ UNCHANGED <<use, channel_vars, control_vars, request_queue, server_vars>>
<1> DEFINE c == active_requests[i]
<1>0. ChannelTypes /\ ControlTypes /\ Ahead
  BY DEF Inv
<1>1. c \in Calls /\ c # NoCall
  BY <1>0, ActiveCall DEF GenerateToken
<1>2. RequestId[c] = i /\ Active(c)
  BY <1>0, <1>1 DEF Ahead, Active
<1>3. generated[c] \in Seq(Rows) /\ Sampled \in Rows
  BY <1>0, <1>1, SampledRow DEF ChannelTypes
<1>4. Len(generated[c]) \in Nat /\ Len(generated[c]) < Tokens
  BY <1>0, <1>1, <1>2, <1>3, LenProperties DEF Ahead
<1>5. /\ generated' = [generated EXCEPT ![c] = Append(generated[c], Sampled)]
      /\ active_requests' = [active_requests EXCEPT ![i] =
                               IF is_last(c) THEN NoCall ELSE active_requests[i]]
      /\ result_queue' = IF is_last(c) THEN Append(result_queue, c) ELSE result_queue
      /\ UNCHANGED <<use, channel_vars, control_vars, request_queue, server_vars>>
  BY DEF GenerateToken
<1> HIDE DEF c
<1>6. generated'[c] = Append(generated[c], Sampled)
      /\ \A d \in Calls : d # c => generated'[d] = generated[d]
  BY <1>0, <1>1, <1>5 DEF ChannelTypes
<1>7. Len(generated'[c]) = Len(generated[c]) + 1
  BY <1>3, <1>6, AppendProperties
<1>8. Tokens \in Nat
  BY ServingAssumption
<1>9. \/ /\ Len(generated[c]) + 1 = Tokens
         /\ active_requests' = [active_requests EXCEPT ![i] = NoCall]
         /\ result_queue' = Append(result_queue, c)
      \/ /\ Len(generated[c]) + 1 < Tokens
         /\ active_requests' = active_requests
         /\ result_queue' = result_queue
  <2>1. CASE is_last(c)
    BY <1>5, <2>1 DEF is_last
  <2>2. CASE ~is_last(c)
    <3>1. Len(generated[c]) + 1 < Tokens
      BY <1>4, <1>8, <2>2 DEF is_last
    <3>2. active_requests' = [active_requests EXCEPT ![i] = active_requests[i]]
      BY <1>5, <2>2
    <3>3. active_requests' = active_requests
      BY <1>0, <3>2 DEF ChannelTypes
    <3> QED BY <1>5, <2>2, <3>1, <3>3
  <2> QED BY <2>1, <2>2
<1>10. active_requests[i] = c
  BY DEF c
<1> QED BY <1>1, <1>2, <1>4, <1>5, <1>6, <1>7, <1>9, <1>10

\* Every step keeps a request in one place.
LEMMA AheadStep == Inv /\ [Next]_vars => Ahead'
<1> SUFFICES ASSUME Inv, [Next]_vars PROVE Ahead'
  OBVIOUS
<1>0. /\ Ahead
      /\ call \in [Calls -> CallStates]
      /\ input_socket \in Seq(Calls) /\ request_queue \in Seq(Calls)
      /\ active_requests \in [Ids -> CallsOrNone]
      /\ generated \in [Calls -> Seq(Rows)]
  BY DEF Inv, ChannelTypes
<1>a. Tokens \in Nat /\ Tokens > 0 /\ Len(<< >>) = 0
  BY ServingAssumption
<1>b. \A c \in sending : call[c] = "waiting"
  BY DEF Inv, Registered
<1>1. ASSUME UNCHANGED <<input_socket, request_queue, active_requests, generated>>,
             \A d \in Calls : Unsent(d)' => Unsent(d)
      PROVE  Ahead'
  BY <1>0, <1>1 DEF Ahead, Submitted, Active
<1>6. ASSUME NEW c \in Calls, Unsent(c), input_socket' = Append(input_socket, c),
             UNCHANGED <<request_queue, active_requests, generated>>,
             \A d \in Calls : Unsent(d)' => Unsent(d) /\ d # c
      PROVE  Ahead'
  <2>1. c \notin Range(input_socket) /\ c \notin Range(request_queue)
    BY <1>0, <1>6 DEF Ahead, Submitted
  <2>2. Range(input_socket') = Range(input_socket) \cup {c} /\ Distinct(input_socket')
    BY <1>0, <1>6, <2>1, RangeAppend DEF Ahead
  <2>3. \A d \in Calls : /\ Submitted(d)' <=> Submitted(d) \/ d = c
                         /\ Active(d)' <=> Active(d)
    BY <1>6, <2>2 DEF Submitted, Active
  <2> QED BY <1>0, <1>6, <2>1, <2>2, <2>3 DEF Ahead
<1>7. ASSUME NEW c \in Calls, generate(c) PROVE Ahead'
  <2>1. /\ call' = [call EXCEPT ![c] = "waiting"] /\ call[c] = "new"
        /\ sending' = sending \cup {c} /\ use' = use
        /\ UNCHANGED <<input_socket, request_queue, active_requests, generated>>
    BY <1>7 DEF generate, submit, driver_vars
  <2>2. \A d \in Calls : Unsent(d)' => Unsent(d)
    BY <1>0, <2>1 DEF Unsent
  <2> QED BY <1>1, <2>1, <2>2
<1>8. ASSUME NEW c \in Calls, GenerateSends(c) PROVE Ahead'
  <2>1. /\ c \in sending /\ sending' = sending \ {c} /\ UNCHANGED <<call, use>>
        /\ input_socket' = Append(input_socket, c)
        /\ UNCHANGED <<request_queue, active_requests, generated>>
    BY <1>8 DEF GenerateSends, SendRequest, driver_vars
  <2>2. Unsent(c) /\ \A d \in Calls : Unsent(d)' => Unsent(d) /\ d # c
    BY <1>b, <2>1 DEF Unsent
  <2> QED BY <1>6, <2>1, <2>2
<1>9. ASSUME NEW c \in Calls, GenerateFails(c) \/ GenerateTimesOut(c) PROVE Ahead'
  <2>1. UNCHANGED <<use, request_queue, active_requests, generated>>
    BY <1>9 DEF GenerateFails, GenerateTimesOut, driver_vars
  <2>2. CASE Timeout(c)
    <3>1. /\ call' = [call EXCEPT ![c] = "timed_out"]
          /\ UNCHANGED <<sending, input_socket>>
      BY <2>2 DEF Timeout
    <3>2. \A d \in Calls : Unsent(d)' => Unsent(d)
      BY <1>0, <2>1, <3>1 DEF Unsent
    <3> QED BY <1>1, <2>1, <3>1, <3>2
  <2>3. CASE cut_off(c)
    <3>1. /\ call' = [call EXCEPT ![c] = "cut_off"] /\ c \in sending /\ Unsent(c)
          /\ sending' = sending \ {c}
      BY <2>3 DEF cut_off, Unsent
    <3>2. \A d \in Calls : Unsent(d)' => Unsent(d)
      BY <1>0, <2>1, <3>1 DEF Unsent
    <3>3. CASE input_socket' = input_socket
      BY <1>1, <2>1, <3>2, <3>3
    <3>4. CASE use.timeouts /\ input_socket' = Append(input_socket, c)
      <4>1. ~Unsent(c)'
        BY <1>0, <2>1, <3>1, <3>4 DEF Unsent
      <4> QED BY <1>6, <2>1, <3>1, <3>2, <3>4, <4>1
    <3> QED BY <1>9, <2>3, <3>3, <3>4 DEF GenerateFails, SendRaises, GenerateTimesOut, Timeout,
               CancelSend
  <2> QED BY <1>9, <2>2, <2>3 DEF GenerateFails, SendRaises, GenerateTimesOut, CancelSend
<1>2. CASE _on_request
  <2> DEFINE h == Head(input_socket)
  <2>1. /\ input_socket # << >> /\ input_socket' = Tail(input_socket)
        /\ request_queue' = Append(request_queue, h)
        /\ UNCHANGED <<call, sending, use, active_requests, generated>>
    BY <1>2 DEF _on_request, TakeRequest
  <2>2. /\ h \in Calls /\ h \in Range(input_socket)
        /\ Range(input_socket') = Range(input_socket) \ {h}
        /\ Distinct(input_socket')
    BY <1>0, <2>1, RangeTail, HeadTailProperties DEF Ahead
  <2> HIDE DEF h
  <2>3. h \notin Range(request_queue)
    BY <1>0, <2>2 DEF Ahead
  <2>4. Range(request_queue') = Range(request_queue) \cup {h} /\ Distinct(request_queue')
    BY <1>0, <2>1, <2>2, <2>3, RangeAppend DEF Ahead
  <2>5. \A d \in Calls : /\ Submitted(d)' <=> Submitted(d)
                         /\ Active(d)' <=> Active(d)
                         /\ Unsent(d)' <=> Unsent(d)
    BY <2>1, <2>2, <2>4 DEF Submitted, Active, Unsent
  <2>6. Range(input_socket') \cap Range(request_queue') = {}
    BY <1>0, <2>2, <2>4 DEF Ahead
  <2> QED BY <1>0, <2>1, <2>2, <2>4, <2>5, <2>6 DEF Ahead
<1>3. CASE Admit
  <2> DEFINE h == Head(request_queue)
  <2>1. /\ request_queue # << >> /\ request_queue' = Tail(request_queue)
        /\ active_requests' = [active_requests EXCEPT ![RequestId[h]] = h]
        /\ UNCHANGED <<call, sending, use, input_socket, generated>>
    BY <1>3 DEF Admit, channel_vars
  <2>2. /\ h \in Calls /\ h \in Range(request_queue)
        /\ Range(request_queue') = Range(request_queue) \ {h}
        /\ Distinct(request_queue')
    BY <1>0, <2>1, RangeTail, HeadTailProperties DEF Ahead
  <2> HIDE DEF h
  <2>3. RequestId[h] \in Ids /\ h # NoCall
    BY <2>2, IdsTyped
  <2>4. Submitted(h) /\ generated[h] = << >> /\ ~Unsent(h) /\ h \notin Range(input_socket)
    BY <1>0, <2>2 DEF Submitted, Ahead
  <2>5. \A d \in Calls : /\ Submitted(d)' <=> Submitted(d) /\ d # h
                         /\ Active(d)' => Active(d) \/ d = h
                         /\ Unsent(d)' <=> Unsent(d)
    BY <1>0, <2>1, <2>2, <2>3, <2>4, IdsTyped DEF Submitted, Active, Unsent
  <2>6. \A i \in Ids : active_requests'[i] # NoCall => RequestId[active_requests'[i]] = i
    BY <1>0, <2>1, <2>3 DEF Ahead
  <2> QED BY <1>0, <1>a, <2>1, <2>2, <2>4, <2>5, <2>6 DEF Ahead
<1>4. ASSUME NEW i \in Ids, GenerateToken(i) PROVE Ahead'
  <2>1. PICK c \in Calls :
           /\ active_requests[i] = c /\ RequestId[c] = i /\ c # NoCall /\ Active(c)
           /\ Len(generated[c]) \in Nat /\ Len(generated[c]) < Tokens
           /\ \A d \in Calls : d # c => generated'[d] = generated[d]
           /\ Len(generated'[c]) = Len(generated[c]) + 1
           /\ \/ /\ Len(generated[c]) + 1 = Tokens
                 /\ active_requests' = [active_requests EXCEPT ![i] = NoCall]
              \/ /\ Len(generated[c]) + 1 < Tokens
                 /\ active_requests' = active_requests
           /\ UNCHANGED <<call, sending, use, input_socket, request_queue>>
    BY <1>4, TokenFacts DEF channel_vars
  <2>2. ~Submitted(c) /\ ~Unsent(c)
    BY <1>0, <2>1 DEF Ahead
  <2>3. \A d \in Calls : /\ Submitted(d)' <=> Submitted(d)
                         /\ Active(d)' => Active(d)
                         /\ Unsent(d)' <=> Unsent(d)
    BY <1>0, <2>1, IdsTyped DEF Submitted, Active, Unsent
  <2>4. Active(c)' => Len(generated'[c]) < Tokens
    BY <1>0, <2>1 DEF Active
  <2>5. Len(generated'[c]) <= Tokens
    BY <1>a, <2>1
  <2>6. \A j \in Ids : active_requests'[j] # NoCall => RequestId[active_requests'[j]] = j
    BY <1>0, <2>1 DEF Ahead
  <2>7. ASSUME NEW d \in Calls
        PROVE  /\ Submitted(d)' => generated'[d] = << >> /\ ~Active(d)'
               /\ Active(d)' => Len(generated'[d]) < Tokens
               /\ Unsent(d)' => generated'[d] = << >> /\ ~Submitted(d)' /\ ~Active(d)'
               /\ Len(generated'[d]) <= Tokens
    <3>1. CASE d = c
      BY <2>1, <2>2, <2>3, <2>4, <2>5, <3>1
    <3>2. CASE d # c
      BY <1>0, <2>1, <2>3, <3>2 DEF Ahead
    <3> QED BY <3>1, <3>2
  <2> QED BY <1>0, <2>1, <2>6, <2>7 DEF Ahead
<1>5. CASE /\ ~_on_request /\ ~Admit /\ \A i \in Ids : ~GenerateToken(i)
           /\ \A c \in Calls : /\ ~generate(c) /\ ~GenerateSends(c) /\ ~GenerateFails(c)
                               /\ ~GenerateTimesOut(c)
  <2>1. UNCHANGED <<input_socket, request_queue, active_requests, generated>>
    BY <1>5, DriverKept
  <2>2. \A d \in Calls : Unsent(d)' => Unsent(d)
    <3>1. ASSUME NEW c \in Calls, GenerateReturns(c) \/ CloseGenerator(c)
          PROVE  \A d \in Calls : Unsent(d)' => Unsent(d)
      BY <1>0, <3>1 DEF GenerateReturns, Return, CloseGenerator, close_generator, Unsent
    <3>2. CASE \A c \in Calls : ~GenerateReturns(c) /\ ~CloseGenerator(c)
      <4>1. UNCHANGED <<call, use>> /\ sending' \subseteq sending
        BY <1>5, <3>2, CallsKept, UseKept
      <4> QED BY <4>1 DEF Unsent
    <3> QED BY <3>1, <3>2
  <2> QED BY <1>1, <2>1, <2>2
<1> QED BY <1>2, <1>3, <1>4, <1>5, <1>7, <1>8, <1>9

\* The tail has no new element.
LEMMA RangeShrinks ==
  ASSUME NEW S, NEW s \in Seq(S), s # << >>
  PROVE  Range(Tail(s)) \subseteq Range(s) /\ Head(s) \in Range(s)
<1> DEFINE t == Tail(s)
           n == Len(s)
<1>1. /\ t \in Seq(S) /\ Len(t) = n - 1 /\ n \in Nat /\ n > 0
      /\ \A i \in 1 .. n - 1 : t[i] = s[i + 1]
      /\ Head(s) = s[1]
  BY HeadTailProperties, EmptySeq
<1> HIDE DEF t, n
<1>2. \A i \in 1 .. n - 1 : i + 1 \in 1 .. n
  BY <1>1
<1>3. 1 \in 1 .. n
  BY <1>1
<1>4. \A x : x \in Range(t) <=> \E k \in 1 .. n - 1 : t[k] = x
  BY <1>1, RangeElement
<1>5. \A x : x \in Range(s) <=> \E k \in 1 .. n : s[k] = x
  BY RangeElement DEF n
<1> QED BY <1>1, <1>2, <1>3, <1>4, <1>5 DEF t

\* Only generation, polling and receiving touch the outputs.
LEMMA OutputsKept ==
  ASSUME [Next]_vars, ~ReceiveOutput, ~_poll_outputs, \A i \in Ids : ~GenerateToken(i)
  PROVE  UNCHANGED <<result_queue, output_socket, generated>>
BY DEF Next, vars, channel_vars, driver_vars, Launch, close, Serve, generate, submit, _on_request,
   TakeRequest, Admit, GenerateSends, SendRequest, GenerateFails, SendRaises, cut_off, CancelSend,
   GenerateTimesOut, Timeout, GenerateReturns, Return, CloseGenerator, close_generator, Train, release, resume_weights, update_weights, resume_kv_cache, Request,
   Skip, Rpc, RpcEnds

\* What is on the socket is an output of a call.
LEMMA OutputTyped ==
  ASSUME ChannelTypes, NEW o \in Range(output_socket)
  PROVE  o \in Outputs /\ o.of \in Calls /\ o.request_id \in Ids
<1>1. o \in Outputs
  BY RangeElement DEF ChannelTypes
<1> QED BY <1>1 DEF Outputs

\* What sending a finished call's output does.
LEMMA PollFacts ==
  ASSUME Inv, _poll_outputs
  PROVE  \E h \in Calls :
           /\ h \in Range(result_queue) /\ Distinct(result_queue')
           /\ Range(result_queue') = Range(result_queue) \ {h}
           /\ Range(output_socket') = Range(output_socket) \cup {Answer(h)}
           /\ Answer(h).of = h /\ Distinct(output_socket')
           /\ UNCHANGED <<call, result, queue, generated>>
<1> DEFINE h == Head(result_queue)
<1>0. /\ ChannelTypes /\ Behind /\ result_queue \in Seq(Calls) /\ output_socket \in Seq(Outputs)
  BY DEF Inv, ChannelTypes
<1>1. /\ result_queue # << >> /\ result_queue' = Tail(result_queue)
      /\ output_socket' = Append(output_socket, Answer(h))
      /\ UNCHANGED <<call, result, queue, generated>>
  BY DEF _poll_outputs, SendOutput, Answer
<1>2. h \in Calls
  BY <1>0, <1>1, HeadTailProperties
<1>3. /\ h \in Range(result_queue) /\ Distinct(result_queue')
      /\ Range(result_queue') = Range(result_queue) \ {h}
  BY <1>0, <1>1, RangeTail DEF Behind
<1> HIDE DEF h
<1>4. Answer(h) \in Outputs /\ Answer(h).of = h
  BY <1>0, <1>2, AnswerTyped DEF Answer
<1>5. Answer(h) \notin Range(output_socket)
  BY <1>0, <1>3, <1>4 DEF Behind
<1>6. /\ Range(output_socket') = Range(output_socket) \cup {Answer(h)}
      /\ Distinct(output_socket')
  BY <1>0, <1>1, <1>4, <1>5, RangeAppend DEF Behind
<1> QED BY <1>1, <1>2, <1>3, <1>4, <1>6

\* What the client's receive loop does.
LEMMA ReceiveOutputFacts ==
  ASSUME Inv, ReceiveOutput
  PROVE  \E o \in Range(output_socket) :
           /\ o = Head(output_socket)
           /\ Range(output_socket') = Range(output_socket) \ {o} /\ Distinct(output_socket')
           /\ queue' = IF route(o) = NoCall THEN queue
                       ELSE [queue EXCEPT ![route(o)] = Append(queue[route(o)], o)]
           /\ UNCHANGED <<call, result, output_queues, generated, result_queue>>
<1>0. Behind /\ output_socket \in Seq(Outputs)
  BY DEF Inv, ChannelTypes
<1>1. output_socket # << >> /\ output_socket' = Tail(output_socket)
      /\ UNCHANGED <<call, result, output_queues, generated, result_queue>>
  BY DEF ReceiveOutput, _receive_loop, driver_vars
<1>2. /\ Head(output_socket) \in Range(output_socket)
      /\ Range(output_socket') = Range(output_socket) \ {Head(output_socket)}
      /\ Distinct(output_socket')
  BY <1>0, <1>1, RangeTail DEF Behind
<1>3. queue' = IF route(Head(output_socket)) = NoCall THEN queue
               ELSE [queue EXCEPT ![route(Head(output_socket))] =
                       Append(queue[route(Head(output_socket))], Head(output_socket))]
  BY DEF ReceiveOutput, _receive_loop
<1> QED BY <1>1, <1>2, <1>3

\* Every step keeps the answers whole and in one place.
LEMMA BehindStep == Inv /\ [Next]_vars => Behind'
<1> SUFFICES ASSUME Inv, [Next]_vars PROVE Behind'
  OBVIOUS
<1>0. Behind /\ ChannelTypes
  BY DEF Inv
<1>1. CASE ReceiveOutput
  <2>1. /\ Range(output_socket') \subseteq Range(output_socket) /\ Distinct(output_socket')
        /\ UNCHANGED <<generated, result_queue>>
    BY <1>1, ReceiveOutputFacts
  <2>2. \A c : Answer(c)' = Answer(c)
    BY <2>1 DEF Answer
  <2> QED BY <1>0, <2>1, <2>2 DEF Behind
<1>2. CASE _poll_outputs
  <2>1. PICK h \in Calls :
           /\ h \in Range(result_queue) /\ Distinct(result_queue')
           /\ Range(result_queue') = Range(result_queue) \ {h}
           /\ Range(output_socket') = Range(output_socket) \cup {Answer(h)}
           /\ Answer(h).of = h /\ Distinct(output_socket')
           /\ UNCHANGED <<call, result, queue, generated>>
    BY <1>2, PollFacts
  <2>2. \A c : Answer(c)' = Answer(c)
    BY <2>1 DEF Answer
  <2> QED BY <1>0, <2>1, <2>2 DEF Behind
<1>3. ASSUME NEW i \in Ids, GenerateToken(i) PROVE Behind'
  <2>1. PICK c \in Calls :
           /\ Len(generated[c]) \in Nat /\ Len(generated[c]) < Tokens
           /\ \A d \in Calls : d # c => generated'[d] = generated[d]
           /\ Len(generated'[c]) = Len(generated[c]) + 1
           /\ \/ /\ Len(generated[c]) + 1 = Tokens
                 /\ result_queue' = Append(result_queue, c)
              \/ result_queue' = result_queue
           /\ output_socket' = output_socket
    BY <1>3, TokenFacts DEF channel_vars
  <2>2. c \notin Range(result_queue) /\ \A o \in Range(output_socket) : o.of # c
    BY <1>0, <2>1 DEF Behind
  <2>3. \A d \in Calls : d # c => Answer(d)' = Answer(d)
    BY <2>1 DEF Answer
  <2>4. result_queue \in Seq(Calls) /\ Range(result_queue) \subseteq Calls
    BY <1>0, RangeElement DEF ChannelTypes
  <2>5. /\ Distinct(result_queue')
        /\ \A d \in Range(result_queue') : d \in Range(result_queue)
                                           \/ (d = c /\ Len(generated[c]) + 1 = Tokens)
    <3>1. Distinct(result_queue)
      BY <1>0 DEF Behind
    <3>2. CASE result_queue' = result_queue
      BY <3>1, <3>2
    <3>3. CASE Len(generated[c]) + 1 = Tokens /\ result_queue' = Append(result_queue, c)
      <4>1. Range(Append(result_queue, c)) = Range(result_queue) \cup {c}
            /\ Distinct(Append(result_queue, c))
        BY <2>2, <2>4, <3>1, RangeAppend
      <4> QED BY <3>3, <4>1
    <3> QED BY <2>1, <3>2, <3>3
  <2>6. \A o \in Range(output_socket) : o.of \in Calls
    BY <1>0, OutputTyped
  <2>7. \A d \in Range(result_queue') : Len(generated'[d]) = Tokens
    BY <1>0, <2>1, <2>2, <2>4, <2>5 DEF Behind
  <2>8. \A o \in Range(output_socket) :
          o = Answer(o.of)' /\ Len(generated'[o.of]) = Tokens /\ o.of \notin Range(result_queue')
    BY <1>0, <2>1, <2>2, <2>3, <2>5, <2>6 DEF Behind
  <2> QED BY <1>0, <2>1, <2>5, <2>7, <2>8 DEF Behind
<1>4. CASE ~ReceiveOutput /\ ~_poll_outputs /\ \A i \in Ids : ~GenerateToken(i)
  BY <1>0, <1>4, OutputsKept DEF Behind, Answer
<1> QED BY <1>1, <1>2, <1>3, <1>4

\* An output can only go to the call it answers, or to nobody.
LEMMA RouteOwn ==
  ASSUME Inv, Separated, NEW o \in Range(output_socket)
  PROVE  route(o) \in {o.of, NoCall}
<1>0. /\ ChannelTypes /\ Registered /\ Ahead /\ Behind /\ Patient /\ Own
  BY DEF Inv
<1>1. o.of \in Calls /\ RequestId[o.of] = o.request_id /\ Len(generated[o.of]) = Tokens
      /\ o.request_id \in Ids
  <2>1. o = Answer(o.of) /\ Len(generated[o.of]) = Tokens
    BY <1>0 DEF Behind
  <2>2. Answer(o.of).request_id = RequestId[o.of]
    BY DEF Answer
  <2> QED BY <1>0, <2>1, <2>2, OutputTyped
<1>2. CASE DistinctIds
  <2>1. output_queues[o.request_id] \in CallsOrNone
    BY <1>0, <1>1 DEF ChannelTypes
  <2> QED BY <1>0, <1>1, <1>2, <2>1 DEF Registered, DistinctIds, route, CallsOrNone
<1>3. CASE ~use.timeouts
  <2>1. call[o.of] # "timed_out"
    BY <1>0, <1>1, <1>3 DEF Patient
  <2>2. call[o.of] # "new" /\ call[o.of] # "cut_off"
    BY <1>0, <1>1, <1>3, ServingAssumption DEF Ahead, Unsent
  <2>3. call[o.of] # "returned"
    BY <1>0, <1>1 DEF Own, Arrived
  <2>4. call[o.of] = "waiting"
    BY <1>0, <1>1, <2>1, <2>2, <2>3 DEF ChannelTypes, CallStates
  <2> QED BY <1>0, <1>1, <2>4 DEF Registered, route
<1> QED BY <1>2, <1>3 DEF Separated

\* Every step keeps the answers with their calls.
LEMMA OwnStep == Inv /\ [Next]_vars => (Separated => Own)'
<1> SUFFICES ASSUME Inv, [Next]_vars, Separated' PROVE Own'
  OBVIOUS
<1>0. Separated /\ Own /\ ChannelTypes /\ Ahead /\ Behind
  BY UseKept DEF Inv, Separated
<1>a. /\ call \in [Calls -> CallStates]
      /\ result \in [Calls -> Seq(Outputs)] /\ queue \in [Calls -> Seq(Outputs)]
  BY <1>0 DEF ChannelTypes
<1>b. \A c \in sending : call[c] = "waiting"
  BY DEF Inv, Registered
<1>1. ASSUME NEW c \in Calls, generate(c) \/ GenerateFails(c) \/ GenerateTimesOut(c) PROVE Own'
  <2>1. /\ UNCHANGED <<result, queue, output_socket, result_queue, generated>>
        /\ call[c] # "returned" /\ call'[c] # "returned"
        /\ \A d \in Calls : d # c => call'[d] = call[d]
    BY <1>1, <1>a, <1>b DEF generate, submit, GenerateFails, SendRaises, cut_off,
       GenerateTimesOut, Timeout, CancelSend, driver_vars
  <2>2. \A d \in Calls : (Arrived(d)' => Arrived(d)) /\ Answer(d)' = Answer(d)
                         /\ (call'[d] = "returned" <=> call[d] = "returned")
    BY <2>1 DEF Arrived, Answer
  <2> QED BY <1>0, <2>1, <2>2 DEF Own
<1>2. ASSUME NEW c \in Calls, GenerateReturns(c) PROVE Own'
  <2>1. /\ queue[c] # << >> /\ call' = [call EXCEPT ![c] = "returned"]
        /\ result' = [result EXCEPT ![c] = <<Head(queue[c])>>]
        /\ queue' = [queue EXCEPT ![c] = Tail(queue[c])]
        /\ UNCHANGED <<output_socket, result_queue, generated>>
    BY <1>2 DEF GenerateReturns, Return, driver_vars
  <2>2. Head(queue[c]) = Answer(c) /\ \A o \in Range(Tail(queue[c])) : o = Answer(c)
    BY <1>0, <1>a, <2>1, RangeShrinks DEF Own
  <2>3. \A d \in Calls : (Arrived(d)' => Arrived(d)) /\ Answer(d)' = Answer(d)
    BY <1>a, <2>1 DEF Arrived, Answer
  <2> QED BY <1>0, <1>a, <2>1, <2>2, <2>3 DEF Own
<1>3. ASSUME NEW c \in Calls, CloseGenerator(c) PROVE Own'
  BY <1>0, <1>3 DEF CloseGenerator, close_generator, driver_vars, Own, Arrived, Answer
<1>4. CASE ReceiveOutput
  <2>1. PICK o \in Range(output_socket) :
           /\ Range(output_socket') = Range(output_socket) \ {o}
           /\ queue' = IF route(o) = NoCall THEN queue
                       ELSE [queue EXCEPT ![route(o)] = Append(queue[route(o)], o)]
           /\ UNCHANGED <<call, result, output_queues, generated, result_queue>>
    BY <1>4, ReceiveOutputFacts
  <2>2. \A d : Answer(d)' = Answer(d)
    BY <2>1 DEF Answer
  <2>3. CASE route(o) = NoCall
    BY <1>0, <2>1, <2>2, <2>3 DEF Own, Arrived
  <2>4. CASE route(o) # NoCall
    <3>1. route(o) = o.of /\ o.of \in Calls /\ o \in Outputs
      BY <1>0, <2>4, RouteOwn, OutputTyped
    <3>2. PICK d \in Calls : d = o.of
      BY <3>1
    <3>3. o = Answer(d) /\ Len(generated[d]) = Tokens /\ d \notin Range(result_queue)
      BY <1>0, <3>2 DEF Behind
    <3>4. queue' = [queue EXCEPT ![d] = Append(queue[d], o)]
      BY <2>1, <2>4, <3>1, <3>2
    <3>5. Range(Append(queue[d], o)) = Range(queue[d]) \cup {o}
      BY <1>a, <3>1, <3>2, RangeAppend
    <3>6. \A x \in Range(output_socket') : x.of # d
      BY <1>0, <2>1, <3>3 DEF Behind
    <3>7. \A c \in Calls : Arrived(c)' => Arrived(c) \/ c = d
      BY <1>a, <2>1, <3>4 DEF Arrived
    <3>8. \A c \in Calls : \A x \in Range(queue'[c]) : x = Answer(c)
      BY <1>0, <1>a, <3>3, <3>4, <3>5 DEF Own
    <3> QED BY <1>0, <2>1, <2>2, <3>3, <3>6, <3>7, <3>8 DEF Own
  <2> QED BY <2>3, <2>4
<1>5. CASE _poll_outputs
  <2>1. PICK h \in Calls :
           /\ h \in Range(result_queue)
           /\ Range(result_queue') = Range(result_queue) \ {h}
           /\ Range(output_socket') = Range(output_socket) \cup {Answer(h)}
           /\ Answer(h).of = h
           /\ UNCHANGED <<call, result, queue, generated>>
    BY <1>5, PollFacts
  <2>2. \A d \in Calls : (Arrived(d)' <=> Arrived(d)) /\ Answer(d)' = Answer(d)
    BY <2>1 DEF Arrived, Answer
  <2>3. ~Arrived(h)
    BY <1>0, <2>1 DEF Own
  <2> QED BY <1>0, <2>1, <2>2, <2>3 DEF Own
<1>6. ASSUME NEW i \in Ids, GenerateToken(i) PROVE Own'
  <2>1. PICK c \in Calls :
           /\ Len(generated[c]) \in Nat /\ Len(generated[c]) < Tokens
           /\ \A d \in Calls : d # c => generated'[d] = generated[d]
           /\ result_queue' = Append(result_queue, c) \/ result_queue' = result_queue
           /\ UNCHANGED <<call, result, queue, output_socket>>
    BY <1>6, TokenFacts DEF channel_vars
  <2>2. \A d \in Calls : Arrived(d)' <=> Arrived(d)
    BY <2>1 DEF Arrived
  <2>3. ~Arrived(c)
    <3>1. Len(generated[c]) # Tokens
      BY <2>1, ServingAssumption
    <3> QED BY <1>0, <3>1 DEF Own
  <2>4. \A d \in Calls : d # c => Answer(d)' = Answer(d)
    BY <2>1 DEF Answer
  <2>5. result_queue \in Seq(Calls)
    BY <1>0 DEF ChannelTypes
  <2>6. \A d \in Range(result_queue') : d \in Range(result_queue) \/ d = c
    <3>1. Range(Append(result_queue, c)) = Range(result_queue) \cup {c}
      BY <2>5, RangeAppend
    <3> QED BY <2>1, <3>1
  <2>7. call[c] # "returned" /\ Range(queue[c]) = {}
    <3>1. queue[c] = << >> /\ call[c] # "returned"
      BY <2>3 DEF Arrived
    <3>2. Range(<< >>) = {}
      BY DEF Range
    <3> QED BY <3>1, <3>2
  <2> QED BY <1>0, <2>1, <2>2, <2>3, <2>4, <2>6, <2>7 DEF Own
<1>7. CASE /\ ~ReceiveOutput /\ ~_poll_outputs /\ \A i \in Ids : ~GenerateToken(i)
           /\ \A c \in Calls : /\ ~generate(c) /\ ~GenerateFails(c) /\ ~GenerateTimesOut(c)
                               /\ ~GenerateReturns(c) /\ ~CloseGenerator(c)
  <2>1. UNCHANGED <<call, result, queue, output_socket, result_queue, generated>>
    <3>1. UNCHANGED queue
      BY <1>7 DEF Next, vars, channel_vars, Launch, close, Serve, GenerateSends, SendRequest,
         _on_request, TakeRequest, Admit,
         Train, release, resume_weights, update_weights, resume_kv_cache, Request, Skip, Rpc,
         RpcEnds
    <3> QED BY <1>7, <3>1, OutputsKept, CallsKept
  <2> QED BY <1>0, <2>1 DEF Own, Arrived, Answer
<1> QED BY <1>1, <1>2, <1>3, <1>4, <1>5, <1>6, <1>7

\* A token is sampled while the trainer collects samples.
LEMMA SamplesDuringRollout ==
  ASSUME Inv, NEW c \in Calls, Active(c)
  PROVE  /\ trainer = "rollout" /\ Sampled = version
         /\ version # Garbage /\ \A r \in Workers : version[r] = global_steps
<1>0. ChannelTypes /\ ControlTypes /\ Ahead /\ Patient /\ Calling /\ Memory /\ Versions
  BY DEF Inv
<1>1. trainer = "rollout"
  <2>1. CASE use.trained
    <3>1. ~use.timeouts
      BY <1>0, <2>1, ServingAssumption DEF ChannelTypes
    <3>2. Own
      BY <3>1 DEF Inv, Separated
    <3>3. Len(generated[c]) \in Nat /\ Len(generated[c]) < Tokens /\ Tokens \in Nat
      BY <1>0, LenProperties, ServingAssumption DEF Ahead, ChannelTypes
    <3>4. Len(generated[c]) # Tokens
      BY <3>3
    <3>5. call[c] = "waiting"
      BY <1>0, <3>1, <3>2, <3>4 DEF Own, Arrived, Patient, Ahead, Unsent, ChannelTypes,
         CallStates
    <3> QED BY <1>0, <3>5 DEF Calling
  <2>2. CASE ~use.trained
    BY <1>0, <2>2 DEF Calling
  <2> QED BY <2>1, <2>2
<1>2. \A r \in Workers : mapped[r] = Regions /\ version[r] = global_steps
  BY <1>0, <1>1 DEF Memory, Versions
<1>3. Sampled = version
  BY <1>2 DEF Sampled, AllMapped
<1>4. version[0] # -1 /\ 0 \in Workers
  <2>1. 0 \in Workers
    BY WorkersTyped
  <2>2. version[0] \in 0 .. MaxSteps
    BY <1>0, <2>1 DEF ControlTypes
  <2> QED BY <2>1, <2>2, ServingAssumption
<1>5. version # Garbage
  BY <1>4 DEF Garbage
<1> QED BY <1>1, <1>2, <1>3, <1>5

\* Every step keeps the tokens true to the version.
LEMMA TokenizedStep == Inv /\ [Next]_vars => Tokenized'
<1> SUFFICES ASSUME Inv, [Next]_vars PROVE Tokenized'
  OBVIOUS
<1>0. Tokenized /\ ChannelTypes /\ ControlTypes /\ Ahead /\ Calling /\ use' = use
  BY UseKept DEF Inv
<1>a. /\ call \in [Calls -> CallStates]
      /\ reported \in [Calls -> -1 .. MaxSteps]
      /\ generated \in [Calls -> Seq(Rows)]
  BY <1>0 DEF ChannelTypes, ControlTypes
<1>g. Garbage' = Garbage
  BY DEF Garbage
<1>1. ASSUME NEW c \in Calls, generate(c) PROVE Tokenized'
  <2>1. /\ call' = [call EXCEPT ![c] = "waiting"] /\ call[c] = "new"
        /\ UNCHANGED <<generated, reported, global_steps>>
    BY <1>1 DEF generate, submit, driver_vars, server_vars
  <2>2. generated[c] = << >>
    BY <1>0, <2>1 DEF Ahead, Unsent
  <2>3. \A k \in 1 .. Len(generated[c]) : FALSE
    BY <2>2
  <2>4. \A d \in Calls : d # c => call'[d] = call[d]
    BY <1>a, <2>1
  <2>9. ASSUME NEW d \in Calls
        PROVE  /\ \A k \in 1 .. Len(generated[d]) : generated[d][k] # Garbage
               /\ use.trained /\ call'[d] = "waiting" =>
                    \A k \in 1 .. Len(generated[d]) : \A r \in Workers :
                      generated[d][k][r] = global_steps
               /\ use.trained /\ call'[d] = "returned" =>
                    \A k \in 1 .. Len(generated[d]) : \A r \in Workers :
                      generated[d][k][r] = reported[d]
    <3>1. CASE d # c
      BY <1>0, <2>4, <3>1 DEF Tokenized
    <3>2. CASE d = c
      BY <1>0, <2>3, <3>2 DEF Tokenized
    <3> QED BY <3>1, <3>2
  <2> QED BY <1>0, <1>g, <2>1, <2>9 DEF Tokenized
<1>2. ASSUME NEW c \in Calls, GenerateFails(c) \/ GenerateTimesOut(c) PROVE Tokenized'
  <2>1. /\ \/ call' = [call EXCEPT ![c] = "timed_out"]
           \/ call' = [call EXCEPT ![c] = "cut_off"]
        /\ UNCHANGED <<generated, reported, global_steps>>
    BY <1>2 DEF GenerateFails, SendRaises, cut_off, GenerateTimesOut, Timeout, CancelSend,
       driver_vars, server_vars
  <2>2. call'[c] # "waiting" /\ call'[c] # "returned" /\ \A d \in Calls : d # c => call'[d] = call[d]
    BY <1>a, <2>1
  <2>9. ASSUME NEW d \in Calls
        PROVE  /\ \A k \in 1 .. Len(generated[d]) : generated[d][k] # Garbage
               /\ use.trained /\ call'[d] = "waiting" =>
                    \A k \in 1 .. Len(generated[d]) : \A r \in Workers :
                      generated[d][k][r] = global_steps
               /\ use.trained /\ call'[d] = "returned" =>
                    \A k \in 1 .. Len(generated[d]) : \A r \in Workers :
                      generated[d][k][r] = reported[d]
    <3>1. CASE d # c
      BY <1>0, <2>2, <3>1 DEF Tokenized
    <3>2. CASE d = c
      BY <1>0, <2>2, <3>2 DEF Tokenized
    <3> QED BY <3>1, <3>2
  <2> QED BY <1>0, <1>g, <2>1, <2>9 DEF Tokenized
<1>3. ASSUME NEW c \in Calls, GenerateReturns(c) PROVE Tokenized'
  <2>1. /\ call' = [call EXCEPT ![c] = "returned"] /\ call[c] = "waiting"
        /\ reported' = [reported EXCEPT ![c] = global_steps]
        /\ UNCHANGED <<generated, global_steps>>
    BY <1>3 DEF GenerateReturns, Return, driver_vars
  <2>2. /\ call'[c] # "waiting" /\ reported'[c] = global_steps
        /\ \A d \in Calls : d # c => call'[d] = call[d] /\ reported'[d] = reported[d]
    BY <1>a, <2>1
  <2>9. ASSUME NEW d \in Calls
        PROVE  /\ \A k \in 1 .. Len(generated[d]) : generated[d][k] # Garbage
               /\ use.trained /\ call'[d] = "waiting" =>
                    \A k \in 1 .. Len(generated[d]) : \A r \in Workers :
                      generated[d][k][r] = global_steps
               /\ use.trained /\ call'[d] = "returned" =>
                    \A k \in 1 .. Len(generated[d]) : \A r \in Workers :
                      generated[d][k][r] = reported'[d]
    <3>1. CASE d # c
      BY <1>0, <2>2, <3>1 DEF Tokenized
    <3>2. CASE d = c
      BY <1>0, <2>1, <2>2, <3>2 DEF Tokenized
    <3> QED BY <3>1, <3>2
  <2> QED BY <1>0, <1>g, <2>1, <2>9 DEF Tokenized
<1>4. ASSUME NEW i \in Ids, GenerateToken(i) PROVE Tokenized'
  <2>1. PICK c \in Calls :
           /\ Active(c)
           /\ generated'[c] = Append(generated[c], Sampled)
           /\ \A d \in Calls : d # c => generated'[d] = generated[d]
           /\ UNCHANGED <<call, reported, global_steps>>
    BY <1>4, TokenFacts DEF channel_vars, server_vars
  <2>2. /\ Sampled # Garbage /\ \A r \in Workers : Sampled[r] = global_steps
    BY <2>1, SamplesDuringRollout
  <2>3. generated[c] \in Seq(Rows) /\ Sampled \in Rows
    BY <1>0, <1>a, SampledRow
  <2>4. PICK n : n = Len(generated[c])
    OBVIOUS
  <2>5. /\ n \in Nat /\ Len(generated'[c]) = n + 1 /\ generated'[c][n + 1] = Sampled
        /\ \A k \in 1 .. n : generated'[c][k] = generated[c][k]
    BY <2>1, <2>3, <2>4, AppendProperties, LenProperties
  <2>6. \A k \in 1 .. n + 1 : k \in 1 .. n \/ k = n + 1
    BY <2>5
  <2>7. use.trained => call[c] # "returned"
    <3> SUFFICES ASSUME use.trained, call[c] = "returned" PROVE FALSE
      OBVIOUS
    <3>1. Own
      BY <1>0, ServingAssumption DEF Inv, Separated, ChannelTypes
    <3>2. Len(generated[c]) = Tokens
      BY <3>1 DEF Own, Arrived
    <3>3. Len(generated[c]) < Tokens
      BY <1>0, <2>1 DEF Ahead
    <3> QED BY <3>2, <3>3, ServingAssumption
  <2>8. ASSUME NEW d \in Calls
        PROVE  /\ \A k \in 1 .. Len(generated'[d]) : generated'[d][k] # Garbage
               /\ use.trained /\ call[d] = "waiting" =>
                    \A k \in 1 .. Len(generated'[d]) : \A r \in Workers :
                      generated'[d][k][r] = global_steps
               /\ use.trained /\ call[d] = "returned" =>
                    \A k \in 1 .. Len(generated'[d]) : \A r \in Workers :
                      generated'[d][k][r] = reported[d]
    <3>1. CASE d # c
      BY <1>0, <2>1, <3>1 DEF Tokenized
    <3>2. CASE d = c
      BY <1>0, <2>2, <2>4, <2>5, <2>6, <2>7, <3>2 DEF Tokenized
    <3> QED BY <3>1, <3>2
  <2> QED BY <1>0, <1>g, <2>1, <2>8 DEF Tokenized
<1>5. CASE RpcEnds
  <2>1. UNCHANGED <<call, generated, reported>>
    BY <1>5 DEF RpcEnds, channel_vars, driver_vars
  <2>2. global_steps' = global_steps \/ trainer = "updating"
    BY <1>5, RpcEndsFacts
  <2>3. global_steps' = global_steps \/ \A c \in Calls : call[c] # "waiting"
    BY <1>0, <2>2 DEF Calling
  <2> QED BY <1>0, <1>g, <2>1, <2>3 DEF Tokenized
<1>6. CASE /\ ~RpcEnds /\ \A i \in Ids : ~GenerateToken(i)
           /\ \A c \in Calls : /\ ~generate(c) /\ ~GenerateFails(c) /\ ~GenerateTimesOut(c)
                               /\ ~GenerateReturns(c)
  <2>1. UNCHANGED <<call, generated, reported, global_steps>>
    BY <1>6 DEF Next, vars, channel_vars, driver_vars, server_vars, Launch, close, Serve,
       GenerateSends, SendRequest, ReceiveOutput, _receive_loop, _on_request, TakeRequest, _poll_outputs, SendOutput, Admit,
       CloseGenerator, close_generator, Train, release, resume_weights, update_weights,
       resume_kv_cache, Request, Skip, Rpc
  <2> QED BY <1>0, <1>g, <2>1 DEF Tokenized
<1> QED BY <1>1, <1>2, <1>3, <1>4, <1>5, <1>6

-----------------------------------------------------------------------------
(* The invariant, and what follows from it. *)

\* The invariant holds when the engine starts.
LEMMA InvInit == Init => Inv
<1> SUFFICES ASSUME Init PROVE Inv
  OBVIOUS
<1> USE DEF Init, ChannelInit, ControlInit, ProcsInit
<1>a. Len(<< >>) = 0 /\ Range(<< >>) = {} /\ Distinct(<< >>) /\ 1 .. 0 = {}
  BY DEF Range, Distinct
<1>b. \A c \in Calls : call[c] = "new" /\ generated[c] = << >> /\ queue[c] = << >>
                       /\ result[c] = << >>
  OBVIOUS
<1>c. Tokens \in Nat /\ Tokens > 0 /\ MaxSteps \in Nat
  BY ServingAssumption
<1>1. ChannelTypes
  BY DEF ChannelTypes, CallsOrNone, CallStates
<1>2. ControlTypes
  <2>1. -1 \in -1 .. MaxSteps /\ 0 \in 0 .. MaxSteps
    BY <1>c
  <2> QED BY <2>1, WorkersTyped DEF ControlTypes, Idle
<1>3. Registered
  BY <1>b DEF Registered
<1>4. Ahead
  <2>1. \A c \in Calls : ~Submitted(c)
    BY <1>a DEF Submitted
  <2>2. \A c \in Calls : ~Active(c)
    BY IdsTyped DEF Active
  <2> QED BY <1>a, <1>b, <1>c, <2>1, <2>2 DEF Ahead
<1>5. Behind
  BY <1>a DEF Behind
<1>6. Patient
  BY <1>b DEF Patient
<1>7. Own
  BY <1>a, <1>b DEF Own, Arrived
<1>8. Sockets
  BY DEF Sockets, Outstanding, Idle
<1>9. Calling
  BY <1>b DEF Calling, Idle
<1>10. Memory
  BY DEF Memory
<1>11. Versions
  BY DEF Versions
<1>12. Tokenized
  BY <1>a, <1>b DEF Tokenized
<1> QED BY <1>1, <1>2, <1>3, <1>4, <1>5, <1>6, <1>7, <1>8, <1>9, <1>10, <1>11, <1>12 DEF Inv

\* Every step of the engine keeps the invariant.
LEMMA InvNext == Inv /\ [Next]_vars => Inv'
<1> SUFFICES ASSUME Inv, [Next]_vars PROVE Inv'
  OBVIOUS
<1>1. ChannelTypes' /\ ControlTypes' /\ Registered' /\ Ahead' /\ Behind' /\ Patient'
  BY ChannelTypesStep, ControlTypesStep, RegisteredStep, AheadStep, BehindStep, PatientStep
<1>2. (Separated => Own)'
  BY OwnStep
<1>3. Sockets' /\ Calling' /\ Memory' /\ Versions' /\ Tokenized'
  BY SocketsStep, CallingStep, MemoryStep, VersionsStep, TokenizedStep
<1> QED BY <1>1, <1>2, <1>3 DEF Inv

\* The invariant holds for ever.
LEMMA AlwaysInv == Spec => []Inv
BY InvInit, InvNext, PTL DEF Spec

\* The engine's type invariant, for any calls, ranks and bounds.
THEOREM EngineTypes == Spec => []TypeOK
<1>1. Inv => TypeOK
  <2> SUFFICES ASSUME Inv PROVE TypeOK
    OBVIOUS
  <2>1. ChannelTypes /\ ControlTypes /\ Ahead
    BY DEF Inv
  <2> QED BY <2>1 DEF TypeOK, ChannelTypes, ControlTypes, Ahead, CallsOrNone, CallStates
<1> QED BY <1>1, AlwaysInv, PTL

\* ControlChannel.call_all leaves every socket ready for the next call, however
\* many workers raise.
THEOREM CallsLeaveNoReply == Spec => []SocketsReady
<1>1. Inv => SocketsReady
  BY DEF Inv, Sockets, Outstanding, SocketsReady
<1> QED BY <1>1, AlwaysInv, PTL

\* The client's table of queues holds no entry of a call that is over and whose
\* generator is closed, but for those that ended while submit() was sending: no
\* timeout, late answer or shared id leaves any other behind.
THEOREM QueuesAreCleaned == Spec => []QueuesCleaned
<1>1. Inv => QueuesCleaned
  BY DEF Inv, Registered, QueuesCleaned
<1> QED BY <1>1, AlwaysInv, PTL

\* No token is computed, and no weights are received, while a region they need is
\* released on some rank, in whatever order the trainer's calls and the ranks'
\* replies come, and although nothing in the generation loop checks it.
THEOREM ComputesOnMapped == Spec => []ComputesMapped
<1>1. Inv => ComputesMapped
  <2> SUFFICES ASSUME Inv PROVE ComputesMapped
    OBVIOUS
  <2>1. ASSUME NEW c \in Calls PROVE \A k \in DOMAIN generated[c] : generated[c][k] # Garbage
    <3>1. DOMAIN generated[c] = 1 .. Len(generated[c])
      BY LenProperties DEF Inv, ChannelTypes
    <3> QED BY <3>1 DEF Inv, Tokenized
  <2>2. trainer = "updating" => \A r \in Workers : "weights" \in mapped[r]
    BY DEF Inv, Memory
  <2> QED BY <2>1, <2>2 DEF ComputesMapped
<1> QED BY <1>1, AlwaysInv, PTL

\* The version the server reports with an answer is the one of every token of it
\* on every rank.
THEOREM StepsAreTrue == Spec => []StepsTrue
<1>1. Inv => StepsTrue
  <2> SUFFICES ASSUME Inv, NEW c \in Calls, use.trained, call[c] = "returned",
                      NEW k \in 1 .. Tokens, NEW r \in Workers
               PROVE  result[c][1].tokens[k][r] = reported[c]
    BY DEF StepsTrue
  <2>1. Own
    BY ServingAssumption DEF Inv, Separated, ChannelTypes
  <2>2. result[c] = <<Answer(c)>> /\ Len(generated[c]) = Tokens
    BY <2>1 DEF Own, Arrived
  <2>3. result[c][1].tokens = generated[c]
    BY <2>2 DEF Answer
  <2>4. \A j \in 1 .. Len(generated[c]) : \A q \in Workers : generated[c][j][q] = reported[c]
    BY DEF Inv, Tokenized
  <2> QED BY <2>2, <2>3, <2>4
<1> QED BY <1>1, AlwaysInv, PTL

\* generate() gives each call the whole answer to its own request, when no two
\* calls share an id or none has a timeout.
THEOREM CallsGetTheirOwn ==
  ASSUME DistinctIds \/ \A u \in Uses : ~u.timeouts
  PROVE  Spec => []OwnResult
<1>1. Inv => OwnResult
  <2> SUFFICES ASSUME Inv, NEW c \in Calls, NEW k \in DOMAIN result[c]
               PROVE  result[c][k].of = c /\ Len(result[c][k].tokens) = Tokens
    BY DEF OwnResult
  <2>1. Own
    BY DEF Inv, Separated, ChannelTypes
  <2>2. CASE call[c] # "returned"
    <3>1. result[c] = << >>
      BY <2>1, <2>2 DEF Own
    <3>2. DOMAIN << >> = {}
      OBVIOUS
    <3> QED BY <3>1, <3>2
  <2>3. CASE call[c] = "returned"
    <3>1. result[c] = <<Answer(c)>> /\ Len(generated[c]) = Tokens
      BY <2>1, <2>3 DEF Own, Arrived
    <3>2. k = 1
      BY <3>1
    <3>3. result[c][k] = Answer(c)
      BY <3>1, <3>2
    <3> QED BY <3>1, <3>3 DEF Answer
  <2> QED BY <2>2, <2>3
<1> QED BY <1>1, AlwaysInv, PTL

=============================================================================
