----------------------------- MODULE RingProofs -----------------------------
(***************************************************************************)
(* Proofs about the ring of pipeline ranks, for any number of ranks and    *)
(* batches: the ranks never all wait for each other, a replay of a graph   *)
(* never overwrites an output that is being sent, and the outputs come     *)
(* back in the order of the batches, computed by all ranks in order.       *)
(*                                                                         *)
(* The invariant has three layers.  The threads: the slots of the          *)
(* scheduler hold the batches in flight (InSlots), and the objects between *)
(* two ranks are those that one has put and the other has not yet taken    *)
(* (Channels).  The GPUs of the other ranks: each runs through the cycle   *)
(* receive, wait, forward, send, wait, and where it is in that cycle tells *)
(* what it holds (Workers).  The GPU of rank 0, whose thread launches its  *)
(* transfers in an order that depends on what there is to update           *)
(* (Device0).  A single rank is a case of its own (Solo).                  *)
(***************************************************************************)
EXTENDS Ring, SequenceTheorems, WellFoundedInduction, TLAPS

\* The operations of a stream.
Kinds == {"irecv", "wait_recv", "forward", "isend", "wait_send"}

\* An operation and the batch it is for.
Op == Kinds \X Nat

\* The tensors a rank computes.
Tensor == [batch : Nat, hidden : Seq(Nat)]

\* What a rank receives: the KV-cache context and the tensors.
Payload == [ctx : Nat, out : Tensor]

\* Where a thread may be.
Calls == {"schedule", "infer", "recv_infer_out", "recv_gen_ctx", "send", "sending", "update"}

\* The type invariant of the ring.
Types ==
  /\ config \in Configs
  /\ inflight \in [Ranks -> Nat]
  /\ current_batch_idx \in Ranks
  /\ issued \in Nat
  /\ answered \in Seq(Tensor)
  /\ to_update \in BOOLEAN
  /\ pc \in [Ranks -> Calls]
  /\ gen_ctx \in [Ranks -> Nat]
  /\ objects \in [Ranks -> Seq(Nat)]
  /\ stream \in [Ranks -> Seq(Op)]
  /\ sends \in [Ranks -> Seq(Nat)]
  /\ recvs \in [Ranks -> Nat]
  /\ received \in [Ranks -> Payload]
  /\ outputs \in [Ranks -> Tensor]

-----------------------------------------------------------------------------
(* The batches in flight and the threads. *)

\* After how many more rotations slot k is the one to update.
Turn(k) == IF k >= current_batch_idx THEN k - current_batch_idx
           ELSE k - current_batch_idx + pp_size

\* Slot k holds a batch in flight.  While schedule() runs, the slot at hand
\* has just been updated and is about to be overwritten.
Pending(k) == inflight[k] # 0 /\ (pc[0] = "schedule" => k # current_batch_idx)

\* The slots hold the batches that are issued and not answered, each once,
\* oldest first in the order of rotation; at most pp_size of them.
InSlots ==
  /\ Len(answered) <= issued
  /\ \A k \in Ranks : Pending(k) =>
       /\ Len(answered) < inflight[k]
       /\ inflight[k] <= issued
       /\ issued - inflight[k] <= pp_size - 1 - Turn(k)
  /\ \A k, l \in Ranks :
       Pending(k) /\ Pending(l) /\ Turn(k) < Turn(l) => inflight[k] < inflight[l]
  /\ \A b \in (Len(answered) + 1) .. issued : \E k \in Ranks : Pending(k) /\ inflight[k] = b

\* Rank 0's thread: what batch_to_update and gen_ctx are at each call.
Driving ==
  /\ pc[0] # "recv_gen_ctx"
  /\ to_update <=> (pc[0] # "schedule" /\ inflight[current_batch_idx] # 0)
  /\ pc[0] = "infer" => gen_ctx[0] # 0 \/ to_update
  /\ pc[0] \in {"recv_infer_out", "update"} => to_update
  /\ pc[0] \in {"send", "sending"} => gen_ctx[0] # 0
  /\ gen_ctx[0] # 0 /\ pc[0] # "schedule" =>
       /\ gen_ctx[0] = issued
       /\ \E k \in Ranks : Turn(k) = pp_size - 1 /\ inflight[k] = issued

\* The threads of the other ranks.
Following ==
  \A r \in Ranks : r # 0 => /\ pc[r] \in {"recv_gen_ctx", "send", "sending"}
                            /\ pc[r] # "recv_gen_ctx" => gen_ctx[r] >= 1

\* Whether rank 0 holds a batch that it has not sent on yet.
Unsent == IF gen_ctx[0] # 0 /\ pc[0] \in {"infer", "recv_infer_out", "send"} THEN 1 ELSE 0

\* How many batches rank r's thread has taken from the rank before it.
Taken(r) ==
  IF r = 0
  THEN Len(answered) + (IF to_update /\ pc[0] \in {"send", "sending", "update"} THEN 1 ELSE 0)
  ELSE gen_ctx[r]

\* How many batches rank r's thread has sent to the next rank.
Put(r) ==
  IF r = 0 THEN issued - Unsent
  ELSE gen_ctx[r] - (IF pc[r] = "send" THEN 1 ELSE 0)

\* The objects on their way: those put and not taken, in order.
Fifo(s, put, taken) ==
  /\ put >= taken
  /\ Len(s) = put - taken
  /\ \A n \in DOMAIN s : s[n] = taken + n

\* Each rank takes from the next channel what was put there, in order.
Channels == \A r \in Ranks : Fifo(objects[r], Put(r), Taken(next_rank(r)))

-----------------------------------------------------------------------------
(* Numbers and ranks. *)

\* A set of natural numbers has a least element.
LEMMA LeastNat ==
  ASSUME NEW T \in SUBSET Nat, T # {}
  PROVE  \E x \in T : \A y \in T : x <= y
<1> DEFINE R == {p \in Nat \X Nat : p[1] < p[2]}
<1>1. R = OpToRel(<, Nat)
  BY DEF OpToRel
<1>2. IsWellFoundedOn(R, Nat)
  BY <1>1, NatLessThanWellFounded
<1>3. \E x \in T : \A y \in T : ~ (<<y, x>> \in R)
  BY <1>2, WFMin
<1>4. PICK x \in T : \A y \in T : ~ (<<y, x>> \in R)
  BY <1>3
<1>5. \A y \in T : x <= y
  <2> SUFFICES ASSUME NEW y \in T PROVE x <= y
    OBVIOUS
  <2>1. <<y, x>> \in Nat \X Nat /\ <<y, x>>[1] = y /\ <<y, x>>[2] = x
    OBVIOUS
  <2>2. ~ (y < x)
    BY <1>4, <2>1
  <2> QED BY <2>2
<1> QED BY <1>5

\* The remainder of a number below twice the divisor.
LEMMA Modulo ==
  ASSUME NEW p \in Nat, p > 0, NEW x \in Nat
  PROVE  /\ x < p => x % p = x
         /\ (x >= p /\ x < 2 * p) => x % p = x - p
<1>1. /\ x \div p \in Int /\ x % p \in 0 .. (p - 1)
      /\ x = p * (x \div p) + (x % p)
  OBVIOUS
<1> DEFINE d == x \div p
           m == x % p
<1>2. d \in Int /\ m \in 0 .. (p - 1) /\ x = p * d + m
  BY <1>1
<1> HIDE DEF d, m
<1>3. d >= 0
  <2> SUFFICES ASSUME d <= -1 PROVE FALSE
    BY <1>2
  <2>1. p * d <= -p
    BY <1>2
  <2> QED BY <1>2, <2>1
<1>4. d = 0 => m = x
  BY <1>2
<1>5. d = 1 => m = x - p
  BY <1>2
<1>6. d >= 1 => x >= p
  <2> SUFFICES ASSUME d >= 1 PROVE x >= p
    OBVIOUS
  <2>1. p * d >= p
    BY <1>2
  <2> QED BY <1>2, <2>1
<1>7. d >= 2 => x >= 2 * p
  <2> SUFFICES ASSUME d >= 2 PROVE x >= 2 * p
    OBVIOUS
  <2>1. p * d >= 2 * p
    BY <1>2
  <2> QED BY <1>2, <2>1
<1>8. (x < p => m = x) /\ ((x >= p /\ x < 2 * p) => m = x - p)
  BY <1>2, <1>3, <1>4, <1>5, <1>6, <1>7
<1> QED BY <1>8 DEF m

\* The neighbours of a rank.
LEMMA RankFacts ==
  ASSUME Types
  PROVE  /\ pp_size \in Nat /\ pp_size > 0 /\ Ranks = 0 .. (pp_size - 1) /\ 0 \in Ranks
         /\ \A r \in Ranks :
              /\ r \in Nat /\ r < pp_size
              /\ next_rank(r) \in Ranks
              /\ prev_rank(r) \in Ranks
              /\ next_rank(r) = (IF r = pp_size - 1 THEN 0 ELSE r + 1)
              /\ prev_rank(r) = (IF r = 0 THEN pp_size - 1 ELSE r - 1)
              /\ next_rank(prev_rank(r)) = r
              /\ prev_rank(next_rank(r)) = r
<1>1. pp_size \in Nat /\ pp_size > 0
  BY RingAssumption DEF Types, pp_size
<1>2. \A r \in Ranks : r \in Nat /\ r < pp_size
  BY <1>1 DEF Ranks
<1>3. 0 \in Ranks
  BY <1>1 DEF Ranks
<1>4. \A r \in Ranks : /\ next_rank(r) = (IF r = pp_size - 1 THEN 0 ELSE r + 1)
                       /\ prev_rank(r) = (IF r = 0 THEN pp_size - 1 ELSE r - 1)
  <2> SUFFICES ASSUME NEW r \in Ranks
               PROVE  /\ next_rank(r) = (IF r = pp_size - 1 THEN 0 ELSE r + 1)
                      /\ prev_rank(r) = (IF r = 0 THEN pp_size - 1 ELSE r - 1)
    OBVIOUS
  <2>1. (r + 1) % pp_size = (IF r = pp_size - 1 THEN 0 ELSE r + 1)
    <3>1. PICK x, p : x = r + 1 /\ p = pp_size
      OBVIOUS
    <3>x. x \in Nat /\ p \in Nat /\ p > 0
      BY <1>1, <1>2, <3>1
    <3>2. /\ x < p => x % p = x
          /\ (x >= p /\ x < 2 * p) => x % p = x - p
      BY <3>x, Modulo
    <3>3. (r = pp_size - 1 => x >= p /\ x < 2 * p /\ x - p = 0) /\ (r # pp_size - 1 => x < p)
      BY <1>1, <1>2, <3>1
    <3>4. x % p = (IF r = pp_size - 1 THEN 0 ELSE r + 1)
      BY <3>1, <3>2, <3>3
    <3> QED BY <3>1, <3>4
  <2>2. (r + pp_size - 1) % pp_size = (IF r = 0 THEN pp_size - 1 ELSE r - 1)
    <3>1. PICK x, p : x = r + pp_size - 1 /\ p = pp_size
      OBVIOUS
    <3>x. x \in Nat /\ p \in Nat /\ p > 0
      BY <1>1, <1>2, <3>1
    <3>2. /\ x < p => x % p = x
          /\ (x >= p /\ x < 2 * p) => x % p = x - p
      BY <3>x, Modulo
    <3>3. /\ r = 0 => x < p /\ x = pp_size - 1
          /\ r # 0 => x >= p /\ x < 2 * p /\ x - p = r - 1
      BY <1>1, <1>2, <3>1
    <3>4. x % p = (IF r = 0 THEN pp_size - 1 ELSE r - 1)
      BY <3>2, <3>3
    <3> QED BY <3>1, <3>4
  <2> QED BY <2>1, <2>2 DEF next_rank, prev_rank
<1>5. \A r \in Ranks : next_rank(r) \in Ranks /\ prev_rank(r) \in Ranks
  BY <1>1, <1>2, <1>4 DEF Ranks
<1>6. \A r \in Ranks : next_rank(prev_rank(r)) = r /\ prev_rank(next_rank(r)) = r
  BY <1>1, <1>2, <1>4, <1>5
<1>7. Ranks = 0 .. (pp_size - 1)
  BY DEF Ranks
<1> QED BY <1>1, <1>2, <1>3, <1>4, <1>5, <1>6, <1>7

\* The configuration is fixed.
LEMMA SameRing ==
  ASSUME config' = config
  PROVE  /\ pp_size' = pp_size /\ Ranks' = Ranks
         /\ \A r : next_rank(r)' = next_rank(r) /\ prev_rank(r)' = prev_rank(r)
BY DEF pp_size, Ranks, next_rank, prev_rank

-----------------------------------------------------------------------------
(* Types. *)

\* A rank computes a tensor.
LEMMA ModelOutputType ==
  ASSUME Types, NEW r \in Ranks, NEW b \in Nat
  PROVE  model_output(r, b) \in Tensor
<1>1. received[r] \in Payload
  BY DEF Types
<1>2. received[r].out.hidden \in Seq(Nat)
  BY <1>1 DEF Payload, Tensor
<1>3. r \in Nat
  BY RankFacts
<1>4. Append(received[r].out.hidden, r) \in Seq(Nat)
  BY <1>2, <1>3
<1>5. <<0>> \in Seq(Nat)
  OBVIOUS
<1> QED BY <1>4, <1>5 DEF model_output, Tensor

\* The types hold initially.
LEMMA TypeInit == Init => Types
<1> SUFFICES ASSUME Init PROVE Types
  OBVIOUS
<1>1. pp_size \in Nat /\ pp_size > 0
  BY RingAssumption DEF Init, pp_size
<1>2. 0 \in Ranks
  BY <1>1 DEF Ranks
<1>3. NoTensor \in Tensor
  BY DEF NoTensor, Tensor
<1>4. [ctx |-> 0, out |-> NoTensor] \in Payload
  BY <1>3 DEF Payload
<1> QED BY <1>2, <1>3, <1>4 DEF Init, Types, Calls

\* infer() goes on with one of the calls.
LEMMA NextCallType ==
  ASSUME Types, NEW r \in Ranks, NEW done \in {"forward", "recv_infer_out", "send"}
  PROVE  next_call(r, done) \in Calls
BY DEF next_call, Calls

\* The operations that are launched.
LEMMA OpTypes ==
  ASSUME NEW b \in Nat
  PROVE  /\ _send_batch_tensor(b) \in Seq(Op) /\ _recv_batch_tensor(b) \in Seq(Op)
         /\ <<<<"forward", b>>>> \in Seq(Op)
<1>1. /\ <<"isend", b>> \in Op /\ <<"wait_send", b>> \in Op /\ <<"irecv", b>> \in Op
      /\ <<"wait_recv", b>> \in Op /\ <<"forward", b>> \in Op
  BY DEF Op, Kinds
<1> QED BY <1>1 DEF _send_batch_tensor, _recv_batch_tensor

\* Launching keeps the streams well typed.
LEMMA LaunchType ==
  ASSUME Types, NEW r \in Ranks, NEW ops \in Seq(Op), Launch(r, ops)
  PROVE  stream' \in [Ranks -> Seq(Op)]
<1>1. stream[r] \in Seq(Op)
  BY DEF Types
<1>2. stream[r] \o ops \in Seq(Op)
  BY <1>1, ConcatProperties
<1> QED BY <1>2 DEF Launch, Types

\* The operation at the head of a stream.
LEMMA NextOpType ==
  ASSUME Types, NEW r \in Ranks, NEW k, NextOp(r, k)
  PROVE  /\ stream[r] # << >> /\ stream[r] \in Seq(Op)
         /\ Head(stream[r]) \in Op /\ Head(stream[r])[1] = k
         /\ Head(stream[r])[2] \in Nat /\ Tail(stream[r]) \in Seq(Op)
<1>1. stream[r] \in Seq(Op) /\ stream[r] # << >> /\ Head(stream[r])[1] = k
  BY DEF Types, NextOp
<1>2. Head(stream[r]) \in Op /\ Tail(stream[r]) \in Seq(Op)
  BY <1>1, HeadTailProperties
<1>3. Head(stream[r])[2] \in Nat
  BY <1>2 DEF Op
<1> QED BY <1>1, <1>2, <1>3

\* What an advancing GPU leaves alone.
LEMMA AdvanceType ==
  ASSUME Types, NEW r \in Ranks, NEW k, NextOp(r, k), Advance(r)
  PROVE  stream' \in [Ranks -> Seq(Op)]
BY NextOpType DEF Advance, Types

\* Every step keeps the types.
LEMMA TypeStep == Types /\ [Next]_vars => Types'
<1> SUFFICES ASSUME Types, [Next]_vars PROVE Types'
  OBVIOUS
<1>0. CASE UNCHANGED vars
  <2>1. /\ config' = config /\ inflight' = inflight /\ current_batch_idx' = current_batch_idx
        /\ issued' = issued /\ answered' = answered /\ to_update' = to_update /\ pc' = pc
        /\ gen_ctx' = gen_ctx /\ objects' = objects /\ stream' = stream /\ sends' = sends
        /\ recvs' = recvs /\ received' = received /\ outputs' = outputs
    BY <1>0 DEF vars, loop_vars, gpu_vars
  <2>2. Ranks' = Ranks
    BY <2>1, SameRing
  <2> QED BY <2>1, <2>2 DEF Types
<1>f. /\ 0 \in Ranks /\ \A r \in Ranks : next_rank(r) \in Ranks /\ prev_rank(r) \in Ranks
  BY RankFacts
<1>1. ASSUME NEW r \in Ranks, _send_object_list(r) PROVE Types'
  <2> USE <1>1 DEF _send_object_list
  <2>1. Ranks' = Ranks
    BY SameRing
  <2>2. Append(objects[r], gen_ctx[r]) \in Seq(Nat)
    BY DEF Types
  <2>3. objects' \in [Ranks -> Seq(Nat)] /\ pc' \in [Ranks -> Calls]
    BY <2>2 DEF Types, Goto, Calls
  <2> QED BY <2>1, <2>3 DEF Types, loop_vars, gpu_vars
<1>2. ASSUME NEW r \in Ranks, SendTensors(r) PROVE Types'
  <2> USE <1>2 DEF SendTensors
  <2>1. Ranks' = Ranks
    BY SameRing
  <2>2. stream' \in [Ranks -> Seq(Op)]
    <3>1. gen_ctx[r] \in Nat
      BY DEF Types
    <3> QED BY <3>1, OpTypes, LaunchType
  <2>3. pc' \in [Ranks -> Calls]
    BY NextCallType DEF Types, Goto
  <2> QED BY <2>1, <2>2, <2>3 DEF Types, loop_vars, gpu_vars
<1>3. ASSUME Schedule PROVE Types'
  <2> USE <1>3 DEF Schedule
  <2>1. Ranks' = Ranks
    BY SameRing
  <2>2. PICK b \in {0, issued + 1} :
             /\ inflight' = [inflight EXCEPT ![current_batch_idx] = b]
             /\ issued' = IF b = 0 THEN issued ELSE b
             /\ gen_ctx' = [gen_ctx EXCEPT ![0] = b]
             /\ current_batch_idx' = (current_batch_idx + 1) % pp_size
             /\ to_update' = (inflight'[current_batch_idx'] # 0)
             /\ Goto(0, IF b = 0 /\ ~to_update' THEN "schedule" ELSE "infer")
    OBVIOUS
  <2>3. b \in Nat /\ issued \in Nat
    BY DEF Types
  <2>4. inflight' \in [Ranks -> Nat] /\ issued' \in Nat /\ gen_ctx' \in [Ranks -> Nat]
    BY <2>2, <2>3, <1>f DEF Types
  <2>5. current_batch_idx' \in Ranks
    BY <2>2, <1>f DEF Types, next_rank
  <2>6. to_update' \in BOOLEAN
    BY <2>2
  <2>7. pc' \in [Ranks -> Calls]
    <3>1. \A l \in Calls : [pc EXCEPT ![0] = l] \in [Ranks -> Calls]
      BY <1>f DEF Types
    <3>2. pc' = [pc EXCEPT ![0] = "schedule"] \/ pc' = [pc EXCEPT ![0] = "infer"]
      BY <2>2 DEF Goto
    <3> QED BY <3>1, <3>2 DEF Calls
  <2> QED BY <2>1, <2>4, <2>5, <2>6, <2>7 DEF Types, gpu_vars
<1>4. ASSUME PrepareAndForward PROVE Types'
  <2> USE <1>4 DEF PrepareAndForward
  <2>1. Ranks' = Ranks
    BY SameRing
  <2>2. stream' \in [Ranks -> Seq(Op)]
    <3>1. gen_ctx[0] \in Nat
      BY <1>f DEF Types
    <3> QED BY <3>1, <1>f, OpTypes, LaunchType
  <2>3. pc' \in [Ranks -> Calls]
    BY <1>f, NextCallType DEF Types, Goto
  <2> QED BY <2>1, <2>2, <2>3 DEF Types, loop_vars, gpu_vars
<1>5. ASSUME SkipForward PROVE Types'
  <2> USE <1>5 DEF SkipForward
  <2>1. Ranks' = Ranks
    BY SameRing
  <2>3. pc' \in [Ranks -> Calls]
    BY <1>f, NextCallType DEF Types, Goto
  <2> QED BY <2>1, <2>3 DEF Types, loop_vars, gpu_vars
<1>6. ASSUME recv_infer_out PROVE Types'
  <2> USE <1>6 DEF recv_infer_out
  <2>1. Ranks' = Ranks
    BY SameRing
  <2>a. objects[prev_rank(0)] \in Seq(Nat) /\ objects[prev_rank(0)] # << >>
    BY <1>f DEF Types
  <2>b. Head(objects[prev_rank(0)]) \in Nat /\ Tail(objects[prev_rank(0)]) \in Seq(Nat)
    BY <2>a, HeadTailProperties
  <2>2. stream' \in [Ranks -> Seq(Op)]
    BY <2>b, <1>f, OpTypes, LaunchType
  <2>3. pc' \in [Ranks -> Calls]
    BY <1>f, NextCallType DEF Types, Goto
  <2>4. objects' \in [Ranks -> Seq(Nat)]
    BY <2>b DEF Types
  <2> QED BY <2>1, <2>2, <2>3, <2>4 DEF Types, loop_vars, gpu_vars
<1>7. ASSUME Update PROVE Types'
  <2> USE <1>7 DEF Update
  <2>1. Ranks' = Ranks
    BY SameRing
  <2>2. outputs[0] \in Tensor /\ received[0].out \in Tensor
    BY <1>f DEF Types, Payload
  <2>3. answered' \in Seq(Tensor)
    BY <2>2 DEF Types
  <2>4. pc' \in [Ranks -> Calls]
    BY DEF Types, Goto, Calls
  <2> QED BY <2>1, <2>3, <2>4 DEF Types, gpu_vars
<1>8. ASSUME NEW r \in Ranks, recv_gen_ctx(r) PROVE Types'
  <2> USE <1>8 DEF recv_gen_ctx
  <2>1. Ranks' = Ranks
    BY SameRing
  <2> DEFINE b == Head(objects[prev_rank(r)])
  <2>a. objects[prev_rank(r)] \in Seq(Nat) /\ objects[prev_rank(r)] # << >>
    BY <1>f DEF Types
  <2>b. b \in Nat /\ Tail(objects[prev_rank(r)]) \in Seq(Nat)
    BY <2>a, HeadTailProperties
  <2>2. stream' \in [Ranks -> Seq(Op)]
    <3>1. _recv_batch_tensor(b) \o <<<<"forward", b>>>> \in Seq(Op)
      BY <2>b, OpTypes, ConcatProperties
    <3> QED BY <3>1, LaunchType
  <2>3. pc' \in [Ranks -> Calls]
    BY <1>f, NextCallType DEF Types, Goto
  <2>4. objects' \in [Ranks -> Seq(Nat)] /\ gen_ctx' \in [Ranks -> Nat]
    BY <2>b DEF Types
  <2> QED BY <2>1, <2>2, <2>3, <2>4 DEF Types, loop_vars, gpu_vars
<1>9. ASSUME NEW r \in Ranks, RunForward(r) PROVE Types'
  <2> USE <1>9 DEF RunForward
  <2>1. Ranks' = Ranks
    BY SameRing DEF Advance
  <2>2. outputs' \in [Ranks -> Tensor]
    BY NextOpType, ModelOutputType DEF Types
  <2>3. stream' \in [Ranks -> Seq(Op)]
    BY AdvanceType
  <2> QED BY <2>1, <2>2, <2>3 DEF Types, loop_vars, Advance
<1>10. ASSUME NEW r \in Ranks, BeginSend(r) PROVE Types'
  <2> USE <1>10 DEF BeginSend
  <2>1. Ranks' = Ranks
    BY SameRing DEF Advance
  <2>2. sends' \in [Ranks -> Seq(Nat)]
    <3>1. sends[r] \in Seq(Nat) /\ Head(stream[r])[2] \in Nat
      BY NextOpType DEF Types
    <3>2. Append(sends[r], Head(stream[r])[2]) \in Seq(Nat)
      BY <3>1
    <3> QED BY <3>2 DEF Types
  <2>3. stream' \in [Ranks -> Seq(Op)]
    BY AdvanceType
  <2> QED BY <2>1, <2>2, <2>3 DEF Types, loop_vars, Advance
<1>11. ASSUME NEW r \in Ranks, BeginRecv(r) PROVE Types'
  <2> USE <1>11 DEF BeginRecv
  <2>1. Ranks' = Ranks
    BY SameRing DEF Advance
  <2>2. recvs' \in [Ranks -> Nat]
    BY DEF Types
  <2>3. stream' \in [Ranks -> Seq(Op)]
    BY AdvanceType
  <2> QED BY <2>1, <2>2, <2>3 DEF Types, loop_vars, Advance
<1>12. ASSUME NEW r \in Ranks, FinishWait(r) PROVE Types'
  <2> USE <1>12 DEF FinishWait
  <2>1. Ranks' = Ranks
    BY SameRing DEF Advance
  <2>3. stream' \in [Ranks -> Seq(Op)]
    BY AdvanceType
  <2> QED BY <2>1, <2>3 DEF Types, loop_vars, Advance, gpu_vars
<1>13. ASSUME NEW r \in Ranks, Transfer(r) PROVE Types'
  <2> USE <1>13 DEF Transfer
  <2>1. Ranks' = Ranks
    BY SameRing
  <2>2. sends[r] \in Seq(Nat) /\ outputs[r] \in Tensor /\ next_rank(r) \in Ranks
        /\ recvs[next_rank(r)] \in Nat
    BY <1>f DEF Types
  <2>3. Head(sends[r]) \in Nat /\ Tail(sends[r]) \in Seq(Nat)
    BY <2>2, HeadTailProperties
  <2>4. [ctx |-> Head(sends[r]), out |-> outputs[r]] \in Payload
    BY <2>2, <2>3 DEF Payload
  <2>5. received' \in [Ranks -> Payload]
    BY <2>4 DEF Types
  <2>6. sends' \in [Ranks -> Seq(Nat)]
    BY <2>3 DEF Types
  <2>7. recvs' \in [Ranks -> Nat]
    <3>1. recvs[next_rank(r)] - 1 \in Nat
      BY <2>2
    <3> QED BY <2>2, <3>1 DEF Types
  <2> QED BY <2>1, <2>5, <2>6, <2>7 DEF Types, loop_vars
<1> QED BY <1>0, <1>1, <1>2, <1>3, <1>4, <1>5, <1>6, <1>7, <1>8, <1>9, <1>10, <1>11, <1>12, <1>13
        DEF Next, Thread, Gpu

-----------------------------------------------------------------------------
(* The threads of the ranks and the slots of the scheduler. *)

\* The order of the calls in infer() in a ring of several ranks.
LEMMA NextCalls ==
  ASSUME Types, pp_size > 1
  PROVE  /\ \A r \in Ranks : r # 0 => /\ next_call(r, "send") = "recv_gen_ctx"
                                      /\ next_call(r, "forward") = "send"
         /\ next_call(0, "forward") = IF to_update THEN "recv_infer_out"
                                      ELSE IF gen_ctx[0] # 0 THEN "send" ELSE "schedule"
         /\ next_call(0, "recv_infer_out") = IF gen_ctx[0] # 0 THEN "send"
                                             ELSE IF to_update THEN "update" ELSE "schedule"
         /\ next_call(0, "send") = IF to_update THEN "update" ELSE "schedule"
<1>0. pp_size # 1
  BY RankFacts
<1>1. \A r \in Ranks : r # 0 => /\ next_call(r, "send") = "recv_gen_ctx"
                                /\ next_call(r, "forward") = "send"
  BY <1>0 DEF next_call
<1>2. next_call(0, "forward") = IF to_update THEN "recv_infer_out"
                                      ELSE IF gen_ctx[0] # 0 THEN "send" ELSE "schedule"
  <2>1. to_update \in BOOLEAN
    BY DEF Types
  <2>2. CASE to_update
    BY <1>0, <2>2 DEF next_call
  <2>3. CASE ~ to_update /\ gen_ctx[0] # 0
    BY <1>0, <2>3 DEF next_call
  <2>4. CASE ~ to_update /\ gen_ctx[0] = 0
    BY <1>0, <2>4 DEF next_call
  <2> QED BY <2>1, <2>2, <2>3, <2>4
<1>3. next_call(0, "recv_infer_out") = IF gen_ctx[0] # 0 THEN "send"
                                             ELSE IF to_update THEN "update" ELSE "schedule"
  BY <1>0 DEF next_call, Types
<1>4. next_call(0, "send") = IF to_update THEN "update" ELSE "schedule"
  BY <1>0 DEF next_call, Types
<1> QED BY <1>1, <1>2, <1>3, <1>4

\* Turns number the slots, the one at hand being first.
LEMMA TurnFacts ==
  ASSUME Types
  PROVE  /\ \A k \in Ranks : Turn(k) \in Nat /\ Turn(k) <= pp_size - 1
                             /\ (Turn(k) = 0 <=> k = current_batch_idx)
         /\ \A k, l \in Ranks : Turn(k) = Turn(l) => k = l
<1>1. pp_size \in Nat /\ \A k \in Ranks : k \in Nat /\ k < pp_size
  BY RankFacts
<1>2. current_batch_idx \in Ranks
  BY DEF Types
<1>3. \A k \in Ranks : Turn(k) \in Nat /\ Turn(k) <= pp_size - 1
                       /\ (Turn(k) = 0 <=> k = current_batch_idx)
  BY <1>1, <1>2 DEF Turn
<1>4. \A k, l \in Ranks : Turn(k) = Turn(l) => k = l
  BY <1>1, <1>2 DEF Turn
<1> QED BY <1>3, <1>4

\* A move of rank 0's thread between schedule() and update().
LEMMA DriverMoves ==
  ASSUME Types, pp_size > 1, InSlots, Driving,
         config' = config, UNCHANGED loop_vars, gen_ctx'[0] = gen_ctx[0],
         pc[0] # "schedule", pc'[0] # "recv_gen_ctx", pc'[0] # "infer",
         pc'[0] = "schedule" => ~ to_update,
         pc'[0] \in {"recv_infer_out", "update"} => to_update,
         pc'[0] \in {"send", "sending"} => gen_ctx[0] # 0
  PROVE  InSlots' /\ Driving'
<1>1. pp_size' = pp_size /\ Ranks' = Ranks
  BY SameRing
<1>2. /\ inflight' = inflight /\ current_batch_idx' = current_batch_idx
      /\ issued' = issued /\ answered' = answered /\ to_update' = to_update
  BY DEF loop_vars
<1>3. \A k : Turn(k)' = Turn(k)
  BY <1>1, <1>2 DEF Turn
<1>4. to_update <=> inflight[current_batch_idx] # 0
  BY DEF Driving
<1>5. \A k : Pending(k)' <=> Pending(k)
  BY <1>2, <1>4 DEF Pending
<1>6. InSlots'
  BY <1>1, <1>2, <1>3, <1>5 DEF InSlots
<1>7. Driving'
  BY <1>1, <1>2, <1>3, <1>4 DEF Driving
<1> QED BY <1>6, <1>7

\* Steps of the other ranks do not touch what rank 0's thread keeps.
LEMMA DriverKept ==
  ASSUME InSlots, Driving, config' = config, UNCHANGED loop_vars,
         gen_ctx'[0] = gen_ctx[0], pc'[0] = pc[0]
  PROVE  InSlots' /\ Driving'
<1>1. pp_size' = pp_size /\ Ranks' = Ranks
  BY SameRing
<1>2. /\ inflight' = inflight /\ current_batch_idx' = current_batch_idx
      /\ issued' = issued /\ answered' = answered /\ to_update' = to_update
  BY DEF loop_vars
<1>3. \A k : Turn(k)' = Turn(k)
  BY <1>1, <1>2 DEF Turn
<1>5. \A k : Pending(k)' <=> Pending(k)
  BY <1>2 DEF Pending
<1>6. InSlots'
  BY <1>1, <1>2, <1>3, <1>5 DEF InSlots
<1>7. Driving'
  BY <1>1, <1>2, <1>3 DEF Driving
<1> QED BY <1>6, <1>7

\* schedule() fills the slot at hand and rotates: every other slot is one
\* turn nearer to its update.
LEMMA ScheduleSlots ==
  ASSUME Types, Types', pp_size > 1, InSlots, Driving, Schedule
  PROVE  InSlots' /\ Driving'
<1> USE DEF Schedule
<1>1. config' = config /\ pp_size' = pp_size /\ Ranks' = Ranks /\ answered' = answered
  BY SameRing
<1>2. PICK b \in {0, issued + 1} :
             /\ inflight' = [inflight EXCEPT ![current_batch_idx] = b]
             /\ issued' = IF b = 0 THEN issued ELSE b
             /\ gen_ctx' = [gen_ctx EXCEPT ![0] = b]
             /\ current_batch_idx' = (current_batch_idx + 1) % pp_size
             /\ to_update' = (inflight'[current_batch_idx'] # 0)
             /\ Goto(0, IF b = 0 /\ ~to_update' THEN "schedule" ELSE "infer")
  OBVIOUS
<1> HIDE DEF Schedule
<1>3. /\ issued \in Nat /\ b \in Nat /\ current_batch_idx \in Ranks /\ 0 \in Ranks
      /\ pp_size \in Nat /\ inflight \in [Ranks -> Nat] /\ Len(answered) \in Nat
      /\ \A k \in Ranks : k \in Nat /\ k < pp_size
  <2>1. 0 \in Ranks /\ pp_size \in Nat /\ \A k \in Ranks : k \in Nat /\ k < pp_size
    BY RankFacts
  <2>2. /\ issued \in Nat /\ current_batch_idx \in Ranks /\ inflight \in [Ranks -> Nat]
        /\ answered \in Seq(Tensor)
    BY DEF Types
  <2> QED BY <1>2, <2>1, <2>2
<1>p. pc[0] = "schedule"
  BY DEF Schedule
<1>4. /\ current_batch_idx' = IF current_batch_idx = pp_size - 1 THEN 0 ELSE current_batch_idx + 1
      /\ current_batch_idx' \in Ranks
  BY <1>2, <1>3, RankFacts DEF next_rank
<1>5. \A k \in Ranks : Turn(k) \in Nat /\ Turn(k) <= pp_size - 1
                        /\ (Turn(k) = 0 <=> k = current_batch_idx)
  BY TurnFacts
<1>6. \A k \in Ranks : k # current_batch_idx => Turn(k)' = Turn(k) - 1
  BY <1>1, <1>3, <1>4 DEF Turn
<1>7. \A k \in Ranks : k = current_batch_idx => Turn(k)' = pp_size - 1
  BY <1>1, <1>3, <1>4 DEF Turn
<1>8. /\ pc'[0] = IF b = 0 /\ ~to_update' THEN "schedule" ELSE "infer"
      /\ gen_ctx'[0] = b
  BY <1>2, <1>3 DEF Goto, Types
<1>9. \A k \in Ranks : inflight'[k] = IF k = current_batch_idx THEN b ELSE inflight[k]
  BY <1>2, <1>3
<1>10. \A k \in Ranks : Pending(k)' <=> inflight'[k] # 0
  BY <1>2, <1>8 DEF Pending
<1>11. \A k \in Ranks : Pending(k) <=> (inflight[k] # 0 /\ k # current_batch_idx)
  BY <1>p DEF Pending
<1>12. \A k \in Ranks : k # current_batch_idx => (Pending(k)' <=> Pending(k))
  BY <1>9, <1>10, <1>11
<1>13. issued' \in Nat /\ issued <= issued' /\ issued' <= issued + 1 /\ (b # 0 => issued' = b /\ b = issued + 1)
       /\ (b = 0 => issued' = issued)
  BY <1>2, <1>3
<1>a. Len(answered)' <= issued'
  BY <1>1, <1>3, <1>13 DEF InSlots
<1>b. ASSUME NEW k \in Ranks, Pending(k)'
      PROVE  /\ Len(answered') < inflight'[k]
             /\ inflight'[k] <= issued'
             /\ issued' - inflight'[k] <= pp_size - 1 - Turn(k)'
  <2>1. CASE k = current_batch_idx
    <3>1. b # 0 /\ inflight'[k] = b
      BY <1>9, <1>10, <1>b, <2>1
    <3>2. Turn(k)' = pp_size - 1
      BY <1>7, <2>1
    <3>3. Len(answered) <= issued
      BY DEF InSlots
    <3> QED BY <3>1, <3>2, <3>3, <1>1, <1>3, <1>13
  <2>2. CASE k # current_batch_idx
    <3>1. Pending(k) /\ inflight'[k] = inflight[k] /\ Turn(k)' = Turn(k) - 1
      BY <1>12, <1>9, <1>6, <1>b, <2>2
    <3>2. /\ Len(answered) < inflight[k]
          /\ inflight[k] <= issued
          /\ issued - inflight[k] <= pp_size - 1 - Turn(k)
      BY <3>1 DEF InSlots
    <3>3. inflight[k] \in Nat /\ Turn(k) \in Nat
      BY <1>3, <1>5
    <3> QED BY <3>1, <3>2, <3>3, <1>1, <1>3, <1>13
  <2> QED BY <2>1, <2>2
<1>c. ASSUME NEW k \in Ranks, NEW l \in Ranks, Pending(k)', Pending(l)', Turn(k)' < Turn(l)'
      PROVE  inflight'[k] < inflight'[l]
  <2>0. k # l
    <3>1. Turn(k)' \in Int
      BY <1>3, <1>5, <1>6, <1>7
    <3> QED BY <1>c, <3>1
  <2>1. CASE k = current_batch_idx
    <3>1. Turn(k)' = pp_size - 1 /\ Turn(l)' = Turn(l) - 1
      BY <2>0, <2>1, <1>6, <1>7
    <3> QED BY <3>1, <1>c, <1>3, <1>5
  <2>2. CASE l = current_batch_idx
    <3>1. inflight'[k] = inflight[k] /\ Pending(k) /\ inflight'[l] = b /\ b # 0
      BY <2>0, <2>2, <1>9, <1>10, <1>12, <1>c
    <3>2. inflight[k] <= issued /\ inflight[k] \in Nat
      BY <3>1, <1>3 DEF InSlots
    <3> QED BY <3>1, <3>2, <1>3, <1>13
  <2>3. CASE k # current_batch_idx /\ l # current_batch_idx
    <3>1. /\ Pending(k) /\ Pending(l) /\ inflight'[k] = inflight[k] /\ inflight'[l] = inflight[l]
          /\ Turn(k)' = Turn(k) - 1 /\ Turn(l)' = Turn(l) - 1
      BY <2>3, <1>c, <1>6, <1>9, <1>12
    <3>2. Turn(k) < Turn(l)
      BY <3>1, <1>c, <1>5
    <3> QED BY <3>1, <3>2 DEF InSlots
  <2> QED BY <2>1, <2>2, <2>3
<1>d. ASSUME NEW n \in (Len(answered) + 1) .. issued'
      PROVE  \E k \in Ranks : Pending(k)' /\ inflight'[k] = n
  <2>1. CASE b # 0 /\ n = b
    <3>1. PICK k \in Ranks : k = current_batch_idx
      BY <1>3
    <3>2. inflight'[k] = n /\ Pending(k)'
      BY <2>1, <3>1, <1>9, <1>10
    <3> QED BY <3>2
  <2>2. CASE ~ (b # 0 /\ n = b)
    <3>1. n \in (Len(answered) + 1) .. issued
      BY <2>2, <1>3, <1>13
    <3>2. PICK k \in Ranks : Pending(k) /\ inflight[k] = n
      BY <3>1 DEF InSlots
    <3>3. k # current_batch_idx
      BY <3>2, <1>11
    <3> QED BY <3>2, <3>3, <1>9, <1>12
  <2> QED BY <2>1, <2>2
<1>e. InSlots'
  BY <1>1, <1>a, <1>b, <1>c, <1>d DEF InSlots
<1>f. Driving'
  <2>1. to_update' <=> inflight'[current_batch_idx'] # 0
    BY <1>2
  <2>2. (pc'[0] = "schedule" => ~ to_update') /\ (pc'[0] # "schedule" => pc'[0] = "infer")
        /\ (pc'[0] = "infer" => b # 0 \/ to_update')
    BY <1>8
  <2>3. gen_ctx'[0] # 0 => /\ gen_ctx'[0] = issued'
                           /\ inflight'[current_batch_idx] = issued'
    BY <1>3, <1>8, <1>9, <1>13
  <2>4. gen_ctx'[0] # 0 => \E k \in Ranks : Turn(k)' = pp_size - 1 /\ inflight'[k] = issued'
    BY <1>3, <1>7, <1>9, <2>3, <1>8, <1>13
  <2>5. pc'[0] \in {"schedule", "infer"} /\ pc'[0] # "recv_gen_ctx" /\ pc'[0] \notin {"recv_infer_out", "update", "send", "sending"}
    BY <1>8
  <2> QED BY <1>1, <1>8, <2>1, <2>2, <2>3, <2>4, <2>5 DEF Driving
<1> QED BY <1>e, <1>f

\* The slot rotated to holds the oldest batch in flight.
LEMMA OldestSlot ==
  ASSUME Types, InSlots, Driving, to_update
  PROVE  /\ Pending(current_batch_idx) /\ inflight[current_batch_idx] = Len(answered) + 1
         /\ Len(answered) < issued
<1>1. current_batch_idx \in Ranks /\ inflight \in [Ranks -> Nat] /\ issued \in Nat /\ Len(answered) \in Nat
  BY DEF Types
<1>2. Pending(current_batch_idx)
  BY DEF Driving, Pending
<1>3. Len(answered) < inflight[current_batch_idx] /\ inflight[current_batch_idx] <= issued
  BY <1>1, <1>2 DEF InSlots
<1>4. Len(answered) + 1 \in (Len(answered) + 1) .. issued
  BY <1>1, <1>3
<1>5. PICK k \in Ranks : Pending(k) /\ inflight[k] = Len(answered) + 1
  BY <1>4 DEF InSlots
<1>6. k = current_batch_idx
  <2> SUFFICES ASSUME k # current_batch_idx PROVE FALSE
    OBVIOUS
  <2>1. Turn(current_batch_idx) < Turn(k)
    BY TurnFacts, <1>1
  <2>2. inflight[current_batch_idx] < inflight[k]
    BY <2>1, <1>1, <1>2, <1>5 DEF InSlots
  <2> QED BY <2>2, <1>1, <1>3, <1>5
<1> QED BY <1>1, <1>2, <1>3, <1>5, <1>6

\* update() answers the oldest batch, the one of the slot rotated to.
LEMMA UpdateSlots ==
  ASSUME Types, pp_size > 1, InSlots, Driving, Update
  PROVE  InSlots' /\ Driving'
<1> USE DEF Update
<1>1. config' = config /\ pp_size' = pp_size /\ Ranks' = Ranks
  BY SameRing
<1>2. /\ inflight' = inflight /\ current_batch_idx' = current_batch_idx /\ issued' = issued
      /\ gen_ctx' = gen_ctx /\ ~ to_update' /\ pc[0] = "update" /\ pc'[0] = "schedule"
  BY RankFacts DEF Goto, Types
<1>3. Len(answered') = Len(answered) + 1 /\ Len(answered) \in Nat
  <2>1. outputs[0] \in Tensor /\ received[0].out \in Tensor /\ answered \in Seq(Tensor)
    BY RankFacts DEF Types, Payload
  <2> QED BY <2>1
<1> HIDE DEF Update
<1>4. to_update
  BY <1>2 DEF Driving
<1>5. inflight[current_batch_idx] = Len(answered) + 1 /\ Len(answered) < issued
      /\ Pending(current_batch_idx)
  BY <1>4, OldestSlot
<1>6. \A k \in Ranks : Pending(k)' <=> (Pending(k) /\ k # current_batch_idx)
  BY <1>2 DEF Pending
<1>7. \A k : Turn(k)' = Turn(k)
  BY <1>1, <1>2 DEF Turn
<1>8. current_batch_idx \in Ranks /\ inflight \in [Ranks -> Nat] /\ issued \in Nat
  BY DEF Types
<1>9. \A k \in Ranks : Pending(k)' => Len(answered') < inflight[k]
  <2> SUFFICES ASSUME NEW k \in Ranks, Pending(k)' PROVE Len(answered') < inflight[k]
    OBVIOUS
  <2>1. Pending(k) /\ k # current_batch_idx
    BY <1>6
  <2>2. Turn(current_batch_idx) < Turn(k)
    BY TurnFacts, <1>8, <2>1
  <2>3. inflight[current_batch_idx] < inflight[k]
    BY <2>1, <2>2, <1>5, <1>8 DEF InSlots
  <2> QED BY <2>3, <1>3, <1>5, <1>8
<1>10. \A b \in (Len(answered') + 1) .. issued : \E k \in Ranks : Pending(k)' /\ inflight[k] = b
  <2> SUFFICES ASSUME NEW b \in (Len(answered') + 1) .. issued
               PROVE  \E k \in Ranks : Pending(k)' /\ inflight[k] = b
    OBVIOUS
  <2>1. b \in (Len(answered) + 1) .. issued /\ b # Len(answered) + 1
    BY <1>3, <1>8
  <2>2. PICK k \in Ranks : Pending(k) /\ inflight[k] = b
    BY <2>1 DEF InSlots
  <2>3. k # current_batch_idx
    BY <2>1, <2>2, <1>5
  <2> QED BY <2>2, <2>3, <1>6
<1>11. InSlots'
  <2>1. Len(answered') <= issued
    BY <1>3, <1>5, <1>8
  <2>2. \A k \in Ranks : Pending(k)' => /\ inflight[k] <= issued
                                        /\ issued - inflight[k] <= pp_size - 1 - Turn(k)
    BY <1>6 DEF InSlots
  <2>3. \A k, l \in Ranks :
          Pending(k)' /\ Pending(l)' /\ Turn(k) < Turn(l) => inflight[k] < inflight[l]
    BY <1>6 DEF InSlots
  <2> QED BY <1>1, <1>2, <1>7, <1>9, <1>10, <2>1, <2>2, <2>3 DEF InSlots
<1>12. Driving'
  BY <1>1, <1>2, <1>7 DEF Driving
<1> QED BY <1>11, <1>12

-----------------------------------------------------------------------------
(* The channels between the threads. *)

\* Putting one more batch on a channel.
LEMMA FifoPut ==
  ASSUME NEW s \in Seq(Nat), NEW p \in Int, NEW t \in Int, NEW x \in Nat, Fifo(s, p, t), x = p + 1
  PROVE  Fifo(Append(s, x), p + 1, t)
<1> DEFINE a == Append(s, x)
<1>1. /\ Len(a) = Len(s) + 1 /\ DOMAIN a = 1 .. (Len(s) + 1) /\ DOMAIN s = 1 .. Len(s) /\ Len(s) \in Nat
      /\ \A n \in 1 .. Len(s) : a[n] = s[n]
      /\ a[Len(s) + 1] = x
  BY AppendProperties
<1> HIDE DEF a
<1>2. \A n \in DOMAIN a : a[n] = t + n
  <2> SUFFICES ASSUME NEW n \in DOMAIN a PROVE a[n] = t + n
    OBVIOUS
  <2>1. CASE n = Len(s) + 1
    BY <1>1, <2>1 DEF Fifo
  <2>2. CASE n \in 1 .. Len(s)
    BY <1>1, <2>2 DEF Fifo
  <2> QED BY <1>1, <2>1, <2>2
<1>3. Fifo(a, p + 1, t)
  BY <1>1, <1>2 DEF Fifo
<1> QED BY <1>3 DEF a

\* Taking the oldest batch off a channel.
LEMMA FifoTake ==
  ASSUME NEW s \in Seq(Nat), NEW p \in Int, NEW t \in Int, Fifo(s, p, t), s # << >>
  PROVE  Head(s) = t + 1 /\ Fifo(Tail(s), p, t + 1)
<1> DEFINE a == Tail(s)
<1>1. /\ Len(a) = Len(s) - 1 /\ DOMAIN a = 1 .. (Len(s) - 1) /\ DOMAIN s = 1 .. Len(s)
      /\ Len(s) \in Nat /\ Len(s) >= 1
      /\ \A n \in 1 .. (Len(s) - 1) : a[n] = s[n + 1]
      /\ Head(s) = s[1]
  BY HeadTailProperties, EmptySeq
<1> HIDE DEF a
<1>2. \A n \in DOMAIN a : a[n] = t + 1 + n
  <2> SUFFICES ASSUME NEW n \in DOMAIN a PROVE a[n] = t + 1 + n
    OBVIOUS
  <2>1. n \in 1 .. (Len(s) - 1) /\ n + 1 \in 1 .. Len(s)
    BY <1>1
  <2> QED BY <1>1, <2>1 DEF Fifo
<1>3. Fifo(a, p, t + 1)
  BY <1>1, <1>2 DEF Fifo
<1>4. Head(s) = t + 1
  <2>1. 1 \in DOMAIN s
    BY <1>1
  <2> QED BY <1>1, <2>1 DEF Fifo
<1> QED BY <1>3, <1>4 DEF a

\* The counters are numbers.
LEMMA CountTypes ==
  ASSUME Types
  PROVE  \A r \in Ranks : Put(r) \in Int /\ Taken(r) \in Nat
BY DEF Types, Put, Taken, Unsent

\* No object moves.
LEMMA ChannelsKept ==
  ASSUME Types, Channels, config' = config, objects' = objects,
         \A q \in Ranks : Put(q)' = Put(q) /\ Taken(q)' = Taken(q)
  PROVE  Channels'
<1>1. Ranks' = Ranks /\ \A r \in Ranks : next_rank(r)' = next_rank(r) /\ next_rank(r) \in Ranks
  BY SameRing, RankFacts
<1> QED BY <1>1 DEF Channels

\* Rank r puts the batch in its hands on its channel.
LEMMA ChannelsPut ==
  ASSUME Types, Channels, config' = config, NEW r \in Ranks,
         objects' = [objects EXCEPT ![r] = Append(@, gen_ctx[r])],
         gen_ctx[r] = Put(r) + 1, Put(r)' = Put(r) + 1,
         \A q \in Ranks : (q # r => Put(q)' = Put(q)) /\ Taken(q)' = Taken(q)
  PROVE  Channels'
<1>1. Ranks' = Ranks /\ \A q \in Ranks : next_rank(q)' = next_rank(q) /\ next_rank(q) \in Ranks
  BY SameRing, RankFacts
<1>2. objects \in [Ranks -> Seq(Nat)] /\ gen_ctx[r] \in Nat
  BY DEF Types
<1>3. Fifo(Append(objects[r], gen_ctx[r]), Put(r) + 1, Taken(next_rank(r)))
  <2>1. objects[r] \in Seq(Nat) /\ Put(r) \in Int /\ Taken(next_rank(r)) \in Int
    BY <1>1, <1>2, CountTypes
  <2>2. Fifo(objects[r], Put(r), Taken(next_rank(r)))
    BY DEF Channels
  <2> QED BY <1>2, <2>1, <2>2, FifoPut
<1>4. \A q \in Ranks : Fifo(objects'[q], Put(q)', Taken(next_rank(q))')
  <2> SUFFICES ASSUME NEW q \in Ranks PROVE Fifo(objects'[q], Put(q)', Taken(next_rank(q))')
    OBVIOUS
  <2>1. Taken(next_rank(q))' = Taken(next_rank(q))
    <3>1. PICK z : z = next_rank(q)
      OBVIOUS
    <3>2. z \in Ranks /\ next_rank(q)' = z
      BY <1>1, <3>1
    <3>3. Taken(z)' = Taken(z)
      BY <3>2
    <3> QED BY <3>1, <3>2, <3>3 DEF Taken
  <2>2. CASE q = r
    BY <1>2, <1>3, <2>1, <2>2
  <2>3. CASE q # r
    <3>1. objects'[q] = objects[q] /\ Put(q)' = Put(q)
      BY <1>2, <2>3
    <3> QED BY <3>1, <2>1 DEF Channels
  <2> QED BY <2>2, <2>3
<1> QED BY <1>1, <1>4 DEF Channels

\* Rank r takes the oldest batch off its predecessor's channel.
LEMMA ChannelsTake ==
  ASSUME Types, Channels, config' = config, NEW r \in Ranks, objects[prev_rank(r)] # << >>,
         objects' = [objects EXCEPT ![prev_rank(r)] = Tail(@)],
         Taken(r)' = Taken(r) + 1,
         \A q \in Ranks : (q # r => Taken(q)' = Taken(q)) /\ Put(q)' = Put(q)
  PROVE  Channels'
<1>1. /\ Ranks' = Ranks /\ prev_rank(r) \in Ranks /\ next_rank(prev_rank(r)) = r
      /\ \A q \in Ranks : /\ next_rank(q)' = next_rank(q) /\ next_rank(q) \in Ranks
                          /\ (next_rank(q) = r => q = prev_rank(r))
  BY SameRing, RankFacts
<1>2. objects \in [Ranks -> Seq(Nat)]
  BY DEF Types
<1>3. Fifo(Tail(objects[prev_rank(r)]), Put(prev_rank(r)), Taken(r) + 1)
  <2>1. objects[prev_rank(r)] \in Seq(Nat) /\ Put(prev_rank(r)) \in Int /\ Taken(r) \in Int
    BY <1>1, <1>2, CountTypes
  <2>2. Fifo(objects[prev_rank(r)], Put(prev_rank(r)), Taken(r))
    BY <1>1 DEF Channels
  <2> QED BY <2>1, <2>2, FifoTake
<1>4. \A q \in Ranks : Fifo(objects'[q], Put(q)', Taken(next_rank(q))')
  <2> SUFFICES ASSUME NEW q \in Ranks PROVE Fifo(objects'[q], Put(q)', Taken(next_rank(q))')
    OBVIOUS
  <2>1. PICK z : z = next_rank(q)
    OBVIOUS
  <2>2. z \in Ranks /\ next_rank(q)' = z
    BY <1>1, <2>1
  <2>3. Taken(next_rank(q))' = Taken(z)'
    BY <2>2 DEF Taken
  <2>4. CASE q = prev_rank(r)
    <3>1. z = r /\ objects'[q] = Tail(objects[prev_rank(r)]) /\ Put(q)' = Put(prev_rank(r))
      BY <1>1, <1>2, <2>1, <2>4
    <3>2. Taken(z)' = Taken(r) + 1
      BY <3>1
    <3> QED BY <3>1, <3>2, <1>3, <2>3
  <2>5. CASE q # prev_rank(r)
    <3>1. objects'[q] = objects[q] /\ Put(q)' = Put(q) /\ Taken(z)' = Taken(z)
      BY <1>1, <1>2, <2>1, <2>2, <2>5
    <3> QED BY <3>1, <2>1, <2>3 DEF Channels
  <2> QED BY <2>4, <2>5
<1> QED BY <1>1, <1>4 DEF Channels

\* The next object a rank takes is the batch that follows its last one.
LEMMA NextObject ==
  ASSUME Types, Channels, NEW r \in Ranks, objects[prev_rank(r)] # << >>
  PROVE  Head(objects[prev_rank(r)]) = Taken(r) + 1
<1>1. prev_rank(r) \in Ranks /\ next_rank(prev_rank(r)) = r
  BY RankFacts
<1>2. objects[prev_rank(r)] \in Seq(Nat) /\ Put(prev_rank(r)) \in Int /\ Taken(r) \in Int
  <2>1. Put(prev_rank(r)) \in Int /\ Taken(r) \in Int
    BY <1>1, CountTypes
  <2>2. objects[prev_rank(r)] \in Seq(Nat)
    BY <1>1 DEF Types
  <2> QED BY <2>1, <2>2
<1>3. Fifo(objects[prev_rank(r)], Put(prev_rank(r)), Taken(r))
  BY <1>1 DEF Channels
<1> QED BY <1>2, <1>3, FifoTake

\* What the threads of a ring of several ranks keep.
Threads == InSlots /\ Driving /\ Following /\ Channels

\* Every step keeps it; those of the GPUs do not touch it.
LEMMA ThreadStep ==
  ASSUME Types, Types', pp_size > 1, Threads, [Next]_vars
  PROVE  Threads'
<1> USE DEF Threads
<1>f. /\ 0 \in Ranks /\ issued \in Nat /\ Len(answered) \in Nat /\ gen_ctx[0] \in Nat
      /\ pc \in [Ranks -> Calls] /\ gen_ctx \in [Ranks -> Nat] /\ to_update \in BOOLEAN
      /\ prev_rank(0) \in Ranks
  <2>1. 0 \in Ranks /\ prev_rank(0) \in Ranks
    BY RankFacts
  <2>2. /\ issued \in Nat /\ answered \in Seq(Tensor) /\ pc \in [Ranks -> Calls]
        /\ gen_ctx \in [Ranks -> Nat] /\ to_update \in BOOLEAN
    BY DEF Types
  <2> QED BY <2>1, <2>2
<1>g. ASSUME config' = config, UNCHANGED loop_vars, pc' = pc, gen_ctx' = gen_ctx, objects' = objects
      PROVE  Threads'
  <2>0. /\ answered' = answered /\ to_update' = to_update /\ issued' = issued
    BY <1>g DEF loop_vars
  <2>1. InSlots' /\ Driving'
    BY <1>g, DriverKept
  <2>2. Following'
    BY <1>g, SameRing DEF Following
  <2>3. \A q \in Ranks : Put(q)' = Put(q) /\ Taken(q)' = Taken(q)
    BY <1>g, <2>0 DEF Put, Taken, Unsent
  <2> QED BY <1>g, <2>1, <2>2, <2>3, ChannelsKept
<1>0. CASE UNCHANGED vars
  BY <1>0, <1>g DEF vars
<1>1. ASSUME NEW r \in Ranks, Gpu(r) PROVE Threads'
  BY <1>1, <1>g DEF Gpu, RunForward, BeginSend, BeginRecv, FinishWait, Transfer, Advance
<1>2. ASSUME NEW r \in Ranks, _send_object_list(r) PROVE Threads'
  <2> USE <1>2 DEF _send_object_list
  <2>1. /\ config' = config /\ UNCHANGED loop_vars /\ gen_ctx' = gen_ctx /\ Ranks' = Ranks
        /\ pc[r] = "send" /\ pc'[r] = "sending" /\ \A q \in Ranks : q # r => pc'[q] = pc[q]
    BY <1>f, SameRing DEF Goto
  <2>2. InSlots' /\ Driving'
    <3>1. CASE r = 0
      <4>1. gen_ctx[0] # 0
        BY <2>1, <3>1 DEF Driving
      <4> QED BY <2>1, <3>1, <4>1, DriverMoves
    <3>2. CASE r # 0
      BY <1>f, <2>1, <3>2, DriverKept
    <3> QED BY <3>1, <3>2
  <2>3. Following'
    BY <2>1 DEF Following
  <2>4. answered' = answered /\ to_update' = to_update /\ issued' = issued
    BY <2>1 DEF loop_vars
  <2>5. \A q \in Ranks : Taken(q)' = Taken(q)
    BY <2>1, <2>4, <1>f DEF Taken
  <2>6. \A q \in Ranks : q # r => Put(q)' = Put(q)
    BY <2>1, <2>4, <1>f DEF Put, Unsent
  <2>7. gen_ctx[r] = Put(r) + 1 /\ Put(r)' = Put(r) + 1
    <3>1. CASE r = 0
      <4>1. gen_ctx[0] # 0 /\ gen_ctx[0] = issued
        BY <2>1, <3>1 DEF Driving
      <4> QED BY <2>1, <2>4, <1>f, <3>1, <4>1 DEF Put, Unsent
    <3>2. CASE r # 0
      <4>1. gen_ctx[r] \in Nat
        BY <1>f
      <4> QED BY <2>1, <2>4, <1>f, <3>2, <4>1 DEF Put, Unsent
    <3> QED BY <3>1, <3>2
  <2> QED BY <2>1, <2>2, <2>3, <2>5, <2>6, <2>7, ChannelsPut
<1>3. ASSUME NEW r \in Ranks, SendTensors(r) PROVE Threads'
  <2> USE <1>3 DEF SendTensors
  <2>1. /\ config' = config /\ UNCHANGED loop_vars /\ gen_ctx' = gen_ctx /\ Ranks' = Ranks
        /\ objects' = objects
        /\ pc[r] = "sending" /\ pc'[r] = next_call(r, "send")
        /\ \A q \in Ranks : q # r => pc'[q] = pc[q]
    BY <1>f, SameRing DEF Goto
  <2>4. answered' = answered /\ to_update' = to_update /\ issued' = issued
    BY <2>1 DEF loop_vars
  <2>2. CASE r = 0
    <3>1. pc'[0] = IF to_update THEN "update" ELSE "schedule"
      BY <2>1, <2>2, NextCalls
    <3>2. InSlots' /\ Driving'
      BY <2>1, <2>2, <3>1, <1>f, DriverMoves
    <3>3. Following'
      BY <2>1, <2>2 DEF Following
    <3>4. \A q \in Ranks : Taken(q)' = Taken(q) /\ Put(q)' = Put(q)
      BY <2>1, <2>2, <2>4, <3>1, <1>f DEF Taken, Put, Unsent
    <3> QED BY <2>1, <3>2, <3>3, <3>4, ChannelsKept
  <2>3. CASE r # 0
    <3>1. pc'[r] = "recv_gen_ctx"
      BY <2>1, <2>3, NextCalls
    <3>2. InSlots' /\ Driving'
      BY <2>1, <2>3, <1>f, DriverKept
    <3>3. Following'
      BY <2>1, <2>3, <3>1 DEF Following
    <3>4. \A q \in Ranks : Taken(q)' = Taken(q) /\ Put(q)' = Put(q)
      BY <2>1, <2>3, <2>4, <3>1, <1>f DEF Taken, Put, Unsent
    <3> QED BY <2>1, <3>2, <3>3, <3>4, ChannelsKept
  <2> QED BY <2>2, <2>3
<1>4. ASSUME Schedule PROVE Threads'
  <2> USE <1>4 DEF Schedule
  <2>1. InSlots' /\ Driving'
    BY ScheduleSlots
  <2>2. PICK b \in {0, issued + 1} :
             /\ issued' = IF b = 0 THEN issued ELSE b
             /\ gen_ctx' = [gen_ctx EXCEPT ![0] = b]
             /\ Goto(0, IF b = 0 /\ ~to_update' THEN "schedule" ELSE "infer")
    OBVIOUS
  <2>3. /\ config' = config /\ objects' = objects /\ answered' = answered /\ Ranks' = Ranks
        /\ pc[0] = "schedule"
    BY SameRing
  <2> HIDE DEF Schedule
  <2>4. /\ pc'[0] = IF b = 0 /\ ~to_update' THEN "schedule" ELSE "infer"
        /\ gen_ctx'[0] = b
        /\ \A q \in Ranks : q # 0 => pc'[q] = pc[q] /\ gen_ctx'[q] = gen_ctx[q]
    BY <1>f, <2>2 DEF Goto
  <2>5. Following'
    BY <2>3, <2>4 DEF Following
  <2>6. \A q \in Ranks : Taken(q)' = Taken(q)
    BY <2>3, <2>4, <1>f DEF Taken
  <2>7. Unsent' = (IF b = 0 THEN 0 ELSE 1) /\ Unsent = 0
    BY <2>3, <2>4 DEF Unsent
  <2>8. \A q \in Ranks : Put(q)' = Put(q)
    BY <2>2, <2>4, <2>7, <1>f DEF Put
  <2> QED BY <2>1, <2>3, <2>5, <2>6, <2>8, ChannelsKept
<1>5. ASSUME PrepareAndForward \/ SkipForward PROVE Threads'
  <2>1. /\ config' = config /\ UNCHANGED loop_vars /\ gen_ctx' = gen_ctx /\ Ranks' = Ranks
        /\ objects' = objects /\ pc[0] = "infer" /\ pc'[0] = next_call(0, "forward")
        /\ \A q \in Ranks : q # 0 => pc'[q] = pc[q]
    BY <1>5, <1>f, SameRing DEF Goto, PrepareAndForward, SkipForward
  <2>2. answered' = answered /\ to_update' = to_update /\ issued' = issued
    BY <2>1 DEF loop_vars
  <2>3. gen_ctx[0] # 0 \/ to_update
    BY <2>1 DEF Driving
  <2>4. pc'[0] = IF to_update THEN "recv_infer_out" ELSE "send"
    BY <2>1, <2>3, NextCalls
  <2>5. InSlots' /\ Driving'
    BY <2>1, <2>3, <2>4, DriverMoves
  <2>6. Following'
    BY <2>1 DEF Following
  <2>7. \A q \in Ranks : Taken(q)' = Taken(q) /\ Put(q)' = Put(q)
    BY <2>1, <2>2, <2>3, <2>4, <1>f DEF Taken, Put, Unsent
  <2> QED BY <2>1, <2>5, <2>6, <2>7, ChannelsKept
<1>6. ASSUME recv_infer_out PROVE Threads'
  <2> USE <1>6 DEF recv_infer_out
  <2>1. /\ config' = config /\ UNCHANGED loop_vars /\ gen_ctx' = gen_ctx /\ Ranks' = Ranks
        /\ pc[0] = "recv_infer_out" /\ pc'[0] = next_call(0, "recv_infer_out")
        /\ \A q \in Ranks : q # 0 => pc'[q] = pc[q]
    BY <1>f, SameRing DEF Goto
  <2>2. answered' = answered /\ to_update' = to_update /\ issued' = issued
    BY <2>1 DEF loop_vars
  <2>3. to_update
    BY <2>1 DEF Driving
  <2>4. pc'[0] = IF gen_ctx[0] # 0 THEN "send" ELSE "update"
    BY <2>1, <2>3, NextCalls
  <2>5. InSlots' /\ Driving'
    BY <2>1, <2>3, <2>4, DriverMoves
  <2>6. Following'
    BY <2>1 DEF Following
  <2>7. /\ Taken(0)' = Taken(0) + 1
        /\ \A q \in Ranks : (q # 0 => Taken(q)' = Taken(q)) /\ Put(q)' = Put(q)
    BY <2>1, <2>2, <2>3, <2>4, <1>f DEF Taken, Put, Unsent
  <2> QED BY <1>f, <2>1, <2>5, <2>6, <2>7, ChannelsTake
<1>7. ASSUME Update PROVE Threads'
  <2> USE <1>7 DEF Update
  <2>1. /\ config' = config /\ gen_ctx' = gen_ctx /\ Ranks' = Ranks /\ objects' = objects
        /\ issued' = issued /\ ~ to_update'
        /\ pc[0] = "update" /\ pc'[0] = "schedule" /\ \A q \in Ranks : q # 0 => pc'[q] = pc[q]
    BY <1>f, SameRing DEF Goto
  <2>2. Len(answered') = Len(answered) + 1
    <3>1. outputs[0] \in Tensor /\ received[0].out \in Tensor /\ answered \in Seq(Tensor)
      BY RankFacts DEF Types, Payload
    <3> QED BY <3>1
  <2>3. to_update
    BY <2>1 DEF Driving
  <2>4. InSlots' /\ Driving'
    BY UpdateSlots
  <2>6. Following'
    BY <2>1 DEF Following
  <2>7. \A q \in Ranks : Taken(q)' = Taken(q) /\ Put(q)' = Put(q)
    BY <2>1, <2>2, <2>3, <1>f DEF Taken, Put, Unsent
  <2> QED BY <2>1, <2>4, <2>6, <2>7, ChannelsKept
<1>8. ASSUME NEW r \in Ranks, r # 0, recv_gen_ctx(r) PROVE Threads'
  <2> USE <1>8 DEF recv_gen_ctx
  <2>1. /\ config' = config /\ UNCHANGED loop_vars /\ Ranks' = Ranks
        /\ pc[r] = "recv_gen_ctx" /\ pc'[r] = next_call(r, "forward")
        /\ gen_ctx'[r] = Head(objects[prev_rank(r)])
        /\ \A q \in Ranks : q # r => pc'[q] = pc[q] /\ gen_ctx'[q] = gen_ctx[q]
    BY <1>f, SameRing DEF Goto
  <2>2. answered' = answered /\ to_update' = to_update /\ issued' = issued
    BY <2>1 DEF loop_vars
  <2>3. Head(objects[prev_rank(r)]) = gen_ctx[r] + 1 /\ gen_ctx[r] \in Nat
    BY <1>f, NextObject DEF Taken
  <2>4. pc'[r] = "send"
    BY <2>1, NextCalls
  <2>5. InSlots' /\ Driving'
    BY <1>f, <2>1, DriverKept
  <2>6. Following'
    <3>1. gen_ctx'[r] >= 1
      BY <2>1, <2>3
    <3> QED BY <2>1, <2>4, <3>1 DEF Following
  <2>7. Taken(r)' = Taken(r) + 1 /\ Put(r)' = Put(r)
    BY <2>1, <2>2, <2>3, <2>4 DEF Taken, Put
  <2>8. \A q \in Ranks : q # r => Taken(q)' = Taken(q) /\ Put(q)' = Put(q)
    BY <2>1, <2>2, <1>f DEF Taken, Put, Unsent
  <2> QED BY <2>1, <2>5, <2>6, <2>7, <2>8, ChannelsTake
<1> QED BY <1>0, <1>1, <1>2, <1>3, <1>4, <1>5, <1>6, <1>7, <1>8 DEF Next, Thread

\* It holds initially.
LEMMA ThreadInit ==
  ASSUME Init, pp_size > 1
  PROVE  Threads
<1>0. Types
  BY TypeInit
<1>1. /\ 0 \in Ranks /\ pp_size \in Nat
      /\ \A r \in Ranks : next_rank(r) \in Ranks
  BY <1>0, RankFacts
<1>2. /\ inflight = [k \in Ranks |-> 0] /\ issued = 0 /\ answered = << >> /\ to_update = FALSE
      /\ pc = [r \in Ranks |-> IF r = 0 THEN "schedule" ELSE "recv_gen_ctx"]
      /\ gen_ctx = [r \in Ranks |-> 0] /\ objects = [r \in Ranks |-> << >>]
      /\ current_batch_idx \in Ranks
  BY <1>1 DEF Init
<1>3. Len(answered) = 0 /\ pc[0] = "schedule" /\ gen_ctx[0] = 0
  BY <1>1, <1>2
<1>4. InSlots
  BY <1>1, <1>2, <1>3 DEF InSlots, Pending
<1>5. Driving
  BY <1>1, <1>2, <1>3 DEF Driving
<1>6. Following
  BY <1>2 DEF Following
<1>7. \A r \in Ranks : Put(r) = 0 /\ Taken(r) = 0
  BY <1>2, <1>3 DEF Put, Taken, Unsent
<1>8. Channels
  BY <1>1, <1>2, <1>7 DEF Channels, Fifo
<1> QED BY <1>4, <1>5, <1>6, <1>8 DEF Threads

\* A channel is empty when everything put was taken.
LEMMA EmptyObjects ==
  ASSUME Types, Channels, NEW r \in Ranks
  PROVE  /\ objects[r] = << >> => Put(r) = Taken(next_rank(r))
         /\ objects[r] # << >> => Put(r) >= Taken(next_rank(r)) + 1
<1>1. objects[r] \in Seq(Nat) /\ Put(r) \in Int /\ Taken(next_rank(r)) \in Int
  <2>1. Put(r) \in Int /\ Taken(next_rank(r)) \in Int
    BY RankFacts, CountTypes
  <2>2. objects[r] \in Seq(Nat)
    BY DEF Types
  <2> QED BY <2>1, <2>2
<1>2. Len(objects[r]) = Put(r) - Taken(next_rank(r))
  BY DEF Channels, Fifo
<1>3. Len(objects[r]) \in Nat /\ (objects[r] = << >> <=> Len(objects[r]) = 0)
  BY <1>1, EmptySeq
<1> QED BY <1>1, <1>2, <1>3

\* Never more batches in flight than slots; one slot is free when none is to
\* be updated.
LEMMA InFlightBound ==
  ASSUME Types, pp_size > 1, InSlots, Driving, pc[0] # "schedule"
  PROVE  issued - Len(answered) <= pp_size - (IF to_update THEN 0 ELSE 1)
<1>1. /\ issued \in Nat /\ Len(answered) \in Nat /\ Len(answered) <= issued /\ pp_size \in Nat
      /\ inflight \in [Ranks -> Nat]
  <2>1. pp_size \in Nat
    BY RankFacts
  <2>2. issued \in Nat /\ answered \in Seq(Tensor) /\ inflight \in [Ranks -> Nat]
    BY DEF Types
  <2>3. Len(answered) <= issued
    BY DEF InSlots
  <2> QED BY <2>1, <2>2, <2>3
<1>2. CASE Len(answered) = issued
  BY <1>1, <1>2
<1>3. CASE Len(answered) < issued
  <2>1. Len(answered) + 1 \in (Len(answered) + 1) .. issued
    BY <1>1, <1>3
  <2>2. PICK k \in Ranks : Pending(k) /\ inflight[k] = Len(answered) + 1
    BY <2>1 DEF InSlots
  <2>3. issued - inflight[k] <= pp_size - 1 - Turn(k)
    BY <2>2 DEF InSlots
  <2>4. Turn(k) \in Nat /\ (Turn(k) = 0 => k = current_batch_idx)
    BY TurnFacts
  <2>5. ~ to_update => Turn(k) # 0
    BY <2>2, <2>4 DEF Driving, Pending
  <2> QED BY <1>1, <2>2, <2>3, <2>4, <2>5
<1> QED BY <1>1, <1>2, <1>3

\* Not every rank waits.  If rank 0 waits for an output, then all channels
\* back to its own are empty, although it has put more batches than it has
\* taken.  If rank 0 waits for its receiver, then all channels are occupied, and
\* pp_size batches are in flight besides the one it is to update.
LEMMA NoRingOfWaits ==
  ASSUME Types, pp_size > 1, Threads, \A r \in Ranks : Waits(r)
  PROVE  FALSE
<1> USE DEF Threads
<1>0. /\ 0 \in Ranks /\ Ranks = 0 .. (pp_size - 1) /\ pp_size \in Nat
      /\ \A r \in Ranks : r \in Nat /\ r < pp_size
      /\ \A r \in Ranks : next_rank(r) = (IF r = pp_size - 1 THEN 0 ELSE r + 1)
      /\ \A r \in Ranks : prev_rank(r) = (IF r = 0 THEN pp_size - 1 ELSE r - 1)
  BY RankFacts
<1>1. \A r \in Ranks : Put(r) \in Int /\ Taken(r) \in Nat
  BY CountTypes
<1>2. \A r \in Ranks : /\ objects[r] = << >> => Put(r) = Taken(next_rank(r))
                       /\ objects[r] # << >> => Put(r) >= Taken(next_rank(r)) + 1
  BY EmptyObjects
<1>3. ASSUME NEW r \in Ranks, r # 0
      PROVE  /\ objects[r] = << >> => objects[r - 1] = << >> /\ Put(r) = Taken(r)
             /\ objects[r - 1] # << >> => objects[r] # << >> /\ Put(r) = Taken(r)
  <2>1. pc[r] \in {"recv_gen_ctx", "send", "sending"}
    BY <1>3 DEF Following
  <2>2. prev_rank(r) = r - 1
    BY <1>0, <1>3
  <2>3. \/ pc[r] = "recv_gen_ctx" /\ objects[r - 1] = << >>
        \/ pc[r] = "sending" /\ objects[r] # << >>
    BY <2>1, <2>2 DEF Waits
  <2>4. pc[r] # "send" => Put(r) = Taken(r)
    BY <1>1, <1>3 DEF Put, Taken, Types
  <2> QED BY <2>3, <2>4
<1>4. /\ issued \in Nat /\ Len(answered) \in Nat /\ Len(answered) <= issued
  BY DEF Types, InSlots
<1>5. CASE pc[0] = "recv_infer_out"
  <2>1. to_update /\ objects[pp_size - 1] = << >>
    BY <1>0, <1>5 DEF Waits, Driving
  <2>2. Len(answered) < issued /\ inflight[current_batch_idx] = Len(answered) + 1
        /\ Pending(current_batch_idx)
    BY <2>1, OldestSlot
  <2>3. Put(0) > Taken(0)
    <3>1. CASE gen_ctx[0] = 0
      BY <1>4, <1>5, <2>2, <3>1 DEF Put, Taken, Unsent
    <3>2. CASE gen_ctx[0] # 0
      <4>1. PICK k \in Ranks : Turn(k) = pp_size - 1 /\ inflight[k] = issued
        BY <1>5, <3>2 DEF Driving
      <4>2. current_batch_idx \in Ranks /\ Turn(current_batch_idx) = 0
        BY TurnFacts DEF Types
      <4>3. Pending(k)
        BY <1>4, <1>5, <2>2, <4>1 DEF Pending
      <4>4. Turn(current_batch_idx) < Turn(k)
        BY <4>1, <4>2, <1>0
      <4>5. inflight[current_batch_idx] < inflight[k]
        BY <2>2, <4>2, <4>3, <4>4 DEF InSlots
      <4> QED BY <1>4, <1>5, <2>2, <4>1, <4>5 DEF Put, Taken, Unsent
    <3> QED BY <3>1, <3>2
  <2> DEFINE T == {j \in Nat : j < pp_size /\ ~ (/\ objects[pp_size - 1 - j] = << >>
                                                 /\ Put(pp_size - 1 - j) = Taken(0))}
  <2>4. T # {}
    <3> SUFFICES ASSUME T = {} PROVE FALSE
      OBVIOUS
    <3>1. pp_size - 1 \in Nat /\ pp_size - 1 < pp_size /\ pp_size - 1 - (pp_size - 1) = 0
      BY <1>0
    <3>2. Put(pp_size - 1 - (pp_size - 1)) = Taken(0)
      BY <3>1
    <3> QED BY <3>1, <3>2, <2>3, <1>1, <1>0
  <2>5. PICK j \in T : \A i \in T : j <= i
    BY <2>4, LeastNat
  <2>6. j \in Nat /\ j < pp_size
    OBVIOUS
  <2> DEFINE q == pp_size - 1 - j
  <2>7. ~ (objects[q] = << >> /\ Put(q) = Taken(0)) /\ q \in Ranks
    BY <1>0, <2>6
  <2>8. CASE j = 0
    <3>1. q = pp_size - 1 /\ next_rank(q) = 0
      BY <1>0, <2>8, <2>7
    <3> QED BY <3>1, <2>1, <2>7, <1>2
  <2>9. CASE j > 0
    <3>a. j - 1 \in Nat /\ j - 1 < pp_size /\ ~ (j <= j - 1)
      BY <1>0, <2>6, <2>9
    <3>1. j - 1 \in Nat /\ j - 1 < pp_size /\ j - 1 \notin T
      BY <2>5, <3>a
    <3>2. pp_size - 1 - (j - 1) = q + 1 /\ q + 1 \in Ranks /\ q + 1 # 0 /\ next_rank(q) = q + 1
      BY <1>0, <2>6, <2>7, <2>9
    <3>3. objects[q + 1] = << >> /\ Put(q + 1) = Taken(0)
      BY <3>1, <3>2
    <3>4. q + 1 - 1 = q
      BY <1>0, <2>6
    <3>5. objects[q] = << >> /\ Put(q + 1) = Taken(q + 1)
      <4> DEFINE z == q + 1
      <4>1. z \in Ranks /\ z # 0 /\ z - 1 = q /\ objects[z] = << >>
        <5>1. z - 1 = q
          BY <1>0, <2>6
        <5> QED BY <3>2, <3>3, <5>1
      <4> HIDE DEF z
      <4>2. objects[z - 1] = << >> /\ Put(z) = Taken(z)
        BY <4>1, <1>3
      <4> QED BY <4>1, <4>2 DEF z
    <3>6. Put(q) = Taken(q + 1)
      BY <1>2, <2>7, <3>2, <3>5
    <3> QED BY <2>7, <3>3, <3>5, <3>6
  <2> QED BY <2>6, <2>8, <2>9
<1>6. CASE pc[0] = "sending"
  <2>1. objects[0] # << >> /\ gen_ctx[0] # 0
    BY <1>0, <1>6 DEF Waits, Driving
  <2>2. Put(0) <= Taken(0) + pp_size - 1
    <3>1. issued - Len(answered) <= pp_size - (IF to_update THEN 0 ELSE 1)
      BY <1>6, InFlightBound
    <3>2. Put(0) = issued /\ Taken(0) = Len(answered) + (IF to_update THEN 1 ELSE 0)
      BY <1>4, <1>6 DEF Put, Taken, Unsent
    <3> QED BY <1>0, <1>4, <3>1, <3>2
  <2> DEFINE T == {j \in Nat : j < pp_size /\ ~ (/\ objects[j] # << >>
                                                 /\ Put(0) >= Taken(next_rank(j)) + j + 1)}
  <2>3. T # {}
    <3> SUFFICES ASSUME T = {} PROVE FALSE
      OBVIOUS
    <3>1. pp_size - 1 \in Nat /\ pp_size - 1 < pp_size /\ pp_size - 1 \in Ranks
      BY <1>0
    <3>2. next_rank(pp_size - 1) = 0
      BY <1>0, <3>1
    <3>3. Put(0) >= Taken(0) + (pp_size - 1) + 1
      BY <3>1, <3>2
    <3> QED BY <3>3, <2>2, <1>0, <1>1
  <2>4. PICK j \in T : \A i \in T : j <= i
    BY <2>3, LeastNat
  <2>5. j \in Nat /\ j < pp_size /\ j \in Ranks
        /\ ~ (objects[j] # << >> /\ Put(0) >= Taken(next_rank(j)) + j + 1)
    BY <1>0
  <2>6. CASE j = 0
    <3>1. Put(0) >= Taken(next_rank(0)) + 1
      BY <2>1, <1>0, <1>2
    <3>2. next_rank(0) \in Ranks
      BY RankFacts
    <3>3. Put(0) \in Int /\ Taken(next_rank(0)) \in Nat
      BY <3>2, <1>0, <1>1
    <3>4. Put(0) >= Taken(next_rank(0)) + 0 + 1
      BY <3>1, <3>3
    <3> QED BY <3>4, <2>1, <2>5, <2>6
  <2>7. CASE j > 0
    <3> DEFINE i == j - 1
    <3>1. i \in Nat /\ i < pp_size /\ i \notin T /\ i \in Ranks /\ next_rank(i) = j /\ j # 0
      BY <2>4, <2>5, <2>7, <1>0
    <3>2. objects[i] # << >> /\ Put(0) >= Taken(j) + i + 1
      BY <3>1
    <3>3. objects[j] # << >> /\ Put(j) = Taken(j)
      BY <1>3, <2>5, <3>1, <3>2
    <3>4. Put(j) >= Taken(next_rank(j)) + 1
      BY <1>2, <2>5, <3>3
    <3>5. next_rank(j) \in Ranks
      BY <2>5, RankFacts
    <3>6. Taken(next_rank(j)) \in Nat /\ Taken(j) \in Nat /\ Put(0) \in Int
      BY <3>5, <2>5, <1>0, <1>1
    <3>7. Put(0) >= Taken(next_rank(j)) + j + 1
      BY <3>2, <3>3, <3>4, <3>6, <2>5
    <3> QED BY <3>7, <3>3, <2>5
  <2> QED BY <2>5, <2>6, <2>7
<1>7. pc[0] \in {"recv_infer_out", "sending"}
  BY <1>0 DEF Waits, Driving
<1> QED BY <1>5, <1>6, <1>7

-----------------------------------------------------------------------------
(* The GPUs of the ranks other than 0. *)

\* The operation that follows op on the stream of a rank other than 0.
Succ(op) ==
  IF op[1] = "irecv" THEN <<"wait_recv", op[2]>>
  ELSE IF op[1] = "wait_recv" THEN <<"forward", op[2]>>
  ELSE IF op[1] = "forward" THEN <<"isend", op[2]>>
  ELSE IF op[1] = "isend" THEN <<"wait_send", op[2]>>
  ELSE <<"irecv", op[2] + 1>>

\* Stream s runs through the cycle of operations up to u, the next to launch.
Chained(s, u) ==
  \A n \in DOMAIN s : Succ(s[n]) = IF n = Len(s) THEN u ELSE s[n + 1]

\* The operation at hand: the head of the stream, or the next to launch.
First(s, u) == IF s = << >> THEN u ELSE Head(s)

\* Launching the next operation of the cycle leaves the one at hand.
LEMMA ChainLaunch ==
  ASSUME NEW s \in Seq(Op), NEW u \in Op, Chained(s, u)
  PROVE  /\ Append(s, u) \in Seq(Op)
         /\ Chained(Append(s, u), Succ(u))
         /\ First(Append(s, u), Succ(u)) = First(s, u)
<1> DEFINE a == Append(s, u)
<1>1. /\ a \in Seq(Op) /\ Len(a) = Len(s) + 1 /\ DOMAIN a = 1 .. (Len(s) + 1)
      /\ DOMAIN s = 1 .. Len(s) /\ Len(s) \in Nat
      /\ \A n \in 1 .. Len(s) : a[n] = s[n]
      /\ a[Len(s) + 1] = u
  BY AppendProperties
<1>2. a # << >> /\ Head(a) = a[1] /\ (s # << >> => Head(s) = s[1] /\ Len(s) >= 1)
      /\ (s = << >> => Len(s) = 0)
  BY <1>1, EmptySeq
<1> HIDE DEF a
<1>3. Chained(a, Succ(u))
  <2> SUFFICES ASSUME NEW n \in DOMAIN a
               PROVE  Succ(a[n]) = IF n = Len(a) THEN Succ(u) ELSE a[n + 1]
    BY DEF Chained
  <2>1. CASE n = Len(s) + 1
    BY <1>1, <2>1
  <2>2. CASE n # Len(s) + 1
    <3>1. n \in 1 .. Len(s) /\ n # Len(a) /\ a[n] = s[n]
      BY <1>1, <2>2
    <3>2. Succ(s[n]) = IF n = Len(s) THEN u ELSE s[n + 1]
      BY <1>1, <3>1 DEF Chained
    <3>3. n = Len(s) => a[n + 1] = u
      BY <1>1
    <3>4. n # Len(s) => a[n + 1] = s[n + 1]
      BY <1>1, <3>1
    <3> QED BY <3>1, <3>2, <3>3, <3>4
  <2> QED BY <2>1, <2>2
<1>4. First(a, Succ(u)) = First(s, u)
  <2>1. CASE s = << >>
    BY <1>1, <1>2, <2>1 DEF First
  <2>2. CASE s # << >>
    BY <1>1, <1>2, <2>2 DEF First
  <2> QED BY <2>1, <2>2
<1> QED BY <1>1, <1>3, <1>4 DEF a

\* Advancing moves the operation at hand on by one.
LEMMA ChainAdvance ==
  ASSUME NEW s \in Seq(Op), NEW u \in Op, Chained(s, u), s # << >>
  PROVE  /\ Chained(Tail(s), u)
         /\ First(Tail(s), u) = Succ(First(s, u))
<1> DEFINE a == Tail(s)
<1>1. /\ a \in Seq(Op) /\ Len(a) = Len(s) - 1 /\ DOMAIN a = 1 .. (Len(s) - 1)
      /\ DOMAIN s = 1 .. Len(s) /\ Len(s) \in Nat /\ Len(s) >= 1
      /\ \A n \in 1 .. (Len(s) - 1) : a[n] = s[n + 1]
      /\ Head(s) = s[1]
  BY HeadTailProperties, EmptySeq
<1> HIDE DEF a
<1>2. (a = << >> <=> Len(a) = 0) /\ (a # << >> => Head(a) = a[1])
  BY <1>1, EmptySeq
<1>3. Chained(a, u)
  <2> SUFFICES ASSUME NEW n \in DOMAIN a
               PROVE  Succ(a[n]) = IF n = Len(a) THEN u ELSE a[n + 1]
    BY DEF Chained
  <2>1. PICK m : m = n + 1
    OBVIOUS
  <2>2. m \in DOMAIN s /\ a[n] = s[m] /\ (m = Len(s) <=> n = Len(a)) /\ n \in Nat
    BY <1>1, <2>1
  <2>3. Succ(s[m]) = IF m = Len(s) THEN u ELSE s[m + 1]
    BY <2>2 DEF Chained
  <2>4. n # Len(a) => a[n + 1] = s[m + 1]
    BY <1>1, <2>1, <2>2
  <2> QED BY <2>2, <2>3, <2>4
<1>4. First(a, u) = Succ(First(s, u))
  <2>1. Succ(s[1]) = IF 1 = Len(s) THEN u ELSE s[1 + 1]
    BY <1>1 DEF Chained
  <2>2. CASE Len(s) = 1
    BY <1>1, <1>2, <2>1, <2>2 DEF First
  <2>3. CASE Len(s) # 1
    <3>1. a[1] = s[1 + 1]
      BY <1>1, <2>3
    <3> QED BY <1>1, <1>2, <2>1, <2>3, <3>1 DEF First
  <2> QED BY <2>2, <2>3
<1> QED BY <1>3, <1>4 DEF a

\* Launching two operations is launching one after the other.
LEMMA ConcatTwo ==
  ASSUME NEW s \in Seq(Op), NEW x \in Op, NEW y \in Op
  PROVE  s \o <<x, y>> = Append(Append(s, x), y)
OBVIOUS

\* Launching three operations is launching one after the other.
LEMMA ConcatThree ==
  ASSUME NEW s \in Seq(Op), NEW x \in Op, NEW y \in Op, NEW z \in Op
  PROVE  s \o (<<x, y>> \o <<z>>) = Append(Append(Append(s, x), y), z)
OBVIOUS

\* An operation of kind k is on stream s.
HasKind(s, k) == \E n \in DOMAIN s : s[n][1] = k

\* The operations of kind k on stream s are for batch b.
Tagged(s, k, b) == \A n \in DOMAIN s : s[n][1] = k => s[n][2] = b

\* The stream of rank 0: every kind at most once, a forward only at the head,
\* every transfer followed by its wait.
Ordered(s) ==
  /\ \A m, n \in DOMAIN s : s[m][1] = s[n][1] => m = n
  /\ \A n \in DOMAIN s : s[n][1] = "forward" => n = 1
  /\ \A n \in DOMAIN s : s[n][1] = "isend" => n + 1 \in DOMAIN s /\ s[n + 1][1] = "wait_send"
  /\ \A n \in DOMAIN s : s[n][1] = "irecv" => n + 1 \in DOMAIN s /\ s[n + 1][1] = "wait_recv"
  /\ \A n \in DOMAIN s : (s[n][1] = "wait_send" /\ n > 1) => s[n - 1][1] = "isend"

\* What the head of such a stream tells about the rest.
LEMMA OrderedHead ==
  ASSUME NEW s \in Seq(Op), s # << >>, Ordered(s)
  PROVE  /\ HasKind(s, Head(s)[1])
         /\ Head(s)[1] = "wait_send" => ~ HasKind(s, "isend") /\ ~ HasKind(s, "forward")
         /\ Head(s)[1] = "wait_recv" => ~ HasKind(s, "irecv")
         /\ HasKind(s, "forward") => Head(s)[1] = "forward"
         /\ HasKind(s, "isend") => HasKind(s, "wait_send")
         /\ HasKind(s, "irecv") => HasKind(s, "wait_recv")
         /\ (HasKind(s, "wait_send") /\ ~ HasKind(s, "isend")) => Head(s)[1] = "wait_send"
<1>1. DOMAIN s = 1 .. Len(s) /\ Len(s) \in Nat /\ Len(s) >= 1 /\ Head(s) = s[1] /\ 1 \in DOMAIN s
  BY EmptySeq
<1>2. HasKind(s, Head(s)[1])
  BY <1>1 DEF HasKind
<1>3. Head(s)[1] = "wait_send" => ~ HasKind(s, "isend") /\ ~ HasKind(s, "forward")
  <2> SUFFICES ASSUME Head(s)[1] = "wait_send" PROVE ~ HasKind(s, "isend") /\ ~ HasKind(s, "forward")
    OBVIOUS
  <2>1. ~ HasKind(s, "isend")
    <3> SUFFICES ASSUME NEW n \in DOMAIN s, s[n][1] = "isend" PROVE FALSE
      BY DEF HasKind
    <3>1. n + 1 \in DOMAIN s /\ s[n + 1][1] = "wait_send" /\ n \in Nat /\ n >= 1
      BY <1>1 DEF Ordered
    <3>2. n + 1 = 1
      BY <1>1, <3>1 DEF Ordered
    <3> QED BY <3>1, <3>2
  <2>2. ~ HasKind(s, "forward")
    BY <1>1 DEF HasKind, Ordered
  <2> QED BY <2>1, <2>2
<1>4. Head(s)[1] = "wait_recv" => ~ HasKind(s, "irecv")
  <2> SUFFICES ASSUME Head(s)[1] = "wait_recv", NEW n \in DOMAIN s, s[n][1] = "irecv" PROVE FALSE
    BY DEF HasKind
  <2>1. n + 1 \in DOMAIN s /\ s[n + 1][1] = "wait_recv" /\ n \in Nat /\ n >= 1
    BY <1>1 DEF Ordered
  <2>2. n + 1 = 1
    BY <1>1, <2>1 DEF Ordered
  <2> QED BY <2>1, <2>2
<1>5. HasKind(s, "forward") => Head(s)[1] = "forward"
  BY <1>1 DEF HasKind, Ordered
<1>6. HasKind(s, "isend") => HasKind(s, "wait_send")
  BY <1>1 DEF HasKind, Ordered
<1>7. HasKind(s, "irecv") => HasKind(s, "wait_recv")
  BY <1>1 DEF HasKind, Ordered
<1>8. (HasKind(s, "wait_send") /\ ~ HasKind(s, "isend")) => Head(s)[1] = "wait_send"
  <2> SUFFICES ASSUME NEW n \in DOMAIN s, s[n][1] = "wait_send", ~ HasKind(s, "isend")
               PROVE  Head(s)[1] = "wait_send"
    BY DEF HasKind
  <2>1. n > 1 => n - 1 \in DOMAIN s /\ s[n - 1][1] = "isend"
    BY <1>1 DEF Ordered
  <2>2. ~ (n > 1)
    BY <2>1 DEF HasKind
  <2>3. n = 1
    BY <2>2, <1>1
  <2> QED BY <1>1, <2>3
<1> QED BY <1>2, <1>3, <1>4, <1>5, <1>6, <1>7, <1>8

\* Advancing such a stream.
LEMMA OrderedTail ==
  ASSUME NEW s \in Seq(Op), s # << >>, Ordered(s)
  PROVE  /\ Ordered(Tail(s))
         /\ \A k : HasKind(Tail(s), k) <=> (HasKind(s, k) /\ k # Head(s)[1])
         /\ \A k, b : Tagged(s, k, b) => Tagged(Tail(s), k, b)
<1> DEFINE a == Tail(s)
<1>1. /\ a \in Seq(Op) /\ Len(a) = Len(s) - 1 /\ DOMAIN a = 1 .. (Len(s) - 1)
      /\ DOMAIN s = 1 .. Len(s) /\ Len(s) \in Nat /\ Len(s) >= 1
      /\ \A n \in 1 .. (Len(s) - 1) : a[n] = s[n + 1]
      /\ Head(s) = s[1]
  BY HeadTailProperties, EmptySeq
<1> HIDE DEF a
<1>2. \A n \in DOMAIN a : n \in Nat /\ n >= 1 /\ n + 1 \in DOMAIN s /\ a[n] = s[n + 1]
  BY <1>1
<1>3. \A n \in DOMAIN s : n > 1 => n - 1 \in DOMAIN a /\ a[n - 1] = s[n]
  <2> SUFFICES ASSUME NEW n \in DOMAIN s, n > 1 PROVE n - 1 \in DOMAIN a /\ a[n - 1] = s[n]
    OBVIOUS
  <2>1. n - 1 \in 1 .. (Len(s) - 1) /\ n - 1 + 1 = n
    BY <1>1
  <2> QED BY <1>1, <2>1
<1>4. Ordered(a)
  <2>1. ASSUME NEW m \in DOMAIN a, NEW n \in DOMAIN a, a[m][1] = a[n][1] PROVE m = n
    <3>1. m + 1 = n + 1
      BY <1>2, <2>1 DEF Ordered
    <3> QED BY <1>2, <3>1
  <2>2. ASSUME NEW n \in DOMAIN a, a[n][1] = "forward" PROVE n = 1
    <3>1. n + 1 = 1
      BY <1>2, <2>2 DEF Ordered
    <3> QED BY <1>2, <3>1
  <2>3. ASSUME NEW n \in DOMAIN a, a[n][1] = "isend"
        PROVE  n + 1 \in DOMAIN a /\ a[n + 1][1] = "wait_send"
    <3>1. PICK m \in DOMAIN s : m = n + 1
      BY <1>2
    <3>2. s[m][1] = "isend" /\ n \in Nat /\ n >= 1
      BY <1>2, <2>3, <3>1
    <3>3. m + 1 \in DOMAIN s /\ s[m + 1][1] = "wait_send"
      BY <3>2 DEF Ordered
    <3>4. m + 1 > 1 /\ m + 1 - 1 = n + 1
      BY <3>1, <3>2
    <3>5. n + 1 \in DOMAIN a /\ a[n + 1] = s[m + 1]
      BY <1>3, <3>3, <3>4
    <3> QED BY <3>3, <3>5
  <2>4. ASSUME NEW n \in DOMAIN a, a[n][1] = "irecv"
        PROVE  n + 1 \in DOMAIN a /\ a[n + 1][1] = "wait_recv"
    <3>1. PICK m \in DOMAIN s : m = n + 1
      BY <1>2
    <3>2. s[m][1] = "irecv" /\ n \in Nat /\ n >= 1
      BY <1>2, <2>4, <3>1
    <3>3. m + 1 \in DOMAIN s /\ s[m + 1][1] = "wait_recv"
      BY <3>2 DEF Ordered
    <3>4. m + 1 > 1 /\ m + 1 - 1 = n + 1
      BY <3>1, <3>2
    <3>5. n + 1 \in DOMAIN a /\ a[n + 1] = s[m + 1]
      BY <1>3, <3>3, <3>4
    <3> QED BY <3>3, <3>5
  <2>5. ASSUME NEW n \in DOMAIN a, a[n][1] = "wait_send", n > 1
        PROVE  a[n - 1][1] = "isend"
    <3>1. PICK m \in DOMAIN s : m = n + 1
      BY <1>2
    <3>2. s[m][1] = "wait_send" /\ n \in Nat /\ m > 1
      BY <1>2, <2>5, <3>1
    <3>3. s[m - 1][1] = "isend"
      BY <3>2 DEF Ordered
    <3>4. n - 1 \in DOMAIN a /\ n - 1 + 1 = m - 1
      BY <1>1, <2>5, <3>1, <3>2
    <3>5. a[n - 1] = s[n - 1 + 1]
      BY <1>2, <3>4
    <3> QED BY <3>3, <3>4, <3>5
  <2> QED BY <2>1, <2>2, <2>3, <2>4, <2>5 DEF Ordered
<1>5. ASSUME NEW k PROVE HasKind(a, k) <=> (HasKind(s, k) /\ k # Head(s)[1])
  <2>1. ASSUME HasKind(a, k) PROVE HasKind(s, k) /\ k # Head(s)[1]
    <3>1. PICK n \in DOMAIN a : a[n][1] = k
      BY <2>1 DEF HasKind
    <3>2. n + 1 \in DOMAIN s /\ s[n + 1][1] = k /\ n + 1 # 1
      BY <1>2, <3>1
    <3>3. s[1][1] # k
      BY <1>1, <3>2 DEF Ordered
    <3> QED BY <1>1, <3>2, <3>3 DEF HasKind
  <2>2. ASSUME HasKind(s, k), k # Head(s)[1] PROVE HasKind(a, k)
    <3>1. PICK n \in DOMAIN s : s[n][1] = k
      BY <2>2 DEF HasKind
    <3>2. n > 1
      BY <1>1, <2>2, <3>1
    <3> QED BY <1>3, <3>1, <3>2 DEF HasKind
  <2> QED BY <2>1, <2>2
<1>6. ASSUME NEW k, NEW b, Tagged(s, k, b) PROVE Tagged(a, k, b)
  BY <1>2, <1>6 DEF Tagged
<1> QED BY <1>4, <1>5, <1>6 DEF a

\* Launching a transfer and its wait on such a stream.
LEMMA OrderedPair ==
  ASSUME NEW s \in Seq(Op), Ordered(s), NEW x \in Op, NEW y \in Op,
         \/ x[1] = "isend" /\ y[1] = "wait_send"
         \/ x[1] = "irecv" /\ y[1] = "wait_recv",
         ~ HasKind(s, x[1]), ~ HasKind(s, y[1])
  PROVE  /\ Ordered(s \o <<x, y>>)
         /\ \A k : HasKind(s \o <<x, y>>, k) <=> (HasKind(s, k) \/ k = x[1] \/ k = y[1])
         /\ Tagged(s \o <<x, y>>, x[1], x[2])
         /\ \A k, b : (Tagged(s, k, b) /\ k # x[1] /\ k # y[1]) => Tagged(s \o <<x, y>>, k, b)
<1> DEFINE a == s \o <<x, y>>
<1>1. /\ DOMAIN a = 1 .. (Len(s) + 2) /\ DOMAIN s = 1 .. Len(s) /\ Len(s) \in Nat
      /\ \A n \in 1 .. Len(s) : a[n] = s[n]
      /\ a[Len(s) + 1] = x /\ a[Len(s) + 2] = y
  <2>1. <<x, y>> \in Seq(Op) /\ Len(<<x, y>>) = 2
    OBVIOUS
  <2>2. a \in Seq(Op) /\ Len(a) = Len(s) + 2 /\ Len(s) \in Nat
    BY <2>1, ConcatProperties
  <2>3. DOMAIN a = 1 .. (Len(s) + 2) /\ DOMAIN s = 1 .. Len(s)
    BY <2>2
  <2>4. \A n \in 1 .. Len(s) : a[n] = s[n]
    BY <2>1, ConcatProperties
  <2>5. a[Len(s) + 1] = x /\ a[Len(s) + 2] = y
    OBVIOUS
  <2> QED BY <2>2, <2>3, <2>4, <2>5
<1> HIDE DEF a
<1>2. ASSUME NEW n \in DOMAIN a
      PROVE  \/ n \in DOMAIN s /\ a[n] = s[n]
             \/ n = Len(s) + 1 /\ a[n] = x
             \/ n = Len(s) + 2 /\ a[n] = y
  BY <1>1
<1>3. \A n \in DOMAIN s : n \in DOMAIN a /\ a[n] = s[n] /\ s[n][1] # x[1] /\ s[n][1] # y[1]
                          /\ n \in Nat /\ n <= Len(s)
  BY <1>1 DEF HasKind
<1>4. /\ Len(s) + 1 \in DOMAIN a /\ Len(s) + 2 \in DOMAIN a /\ Len(s) + 1 + 1 = Len(s) + 2
      /\ Len(s) + 2 - 1 = Len(s) + 1
      /\ a[Len(s) + 1] = x /\ a[Len(s) + 2] = y /\ x[1] # y[1]
      /\ x[1] # "forward" /\ y[1] # "forward" /\ x[1] # "wait_send" /\ y[1] # "isend" /\ y[1] # "irecv"
  BY <1>1
<1>5. Ordered(a)
  <2>1. ASSUME NEW m \in DOMAIN a, NEW n \in DOMAIN a, a[m][1] = a[n][1] PROVE m = n
    <3>1. CASE m \in DOMAIN s /\ n \in DOMAIN s
      BY <1>3, <2>1, <3>1 DEF Ordered
    <3>2. CASE m \notin DOMAIN s \/ n \notin DOMAIN s
      BY <1>2, <1>3, <1>4, <2>1, <3>2
    <3> QED BY <3>1, <3>2
  <2>2. ASSUME NEW n \in DOMAIN a, a[n][1] = "forward" PROVE n = 1
    <3>1. n \in DOMAIN s /\ s[n][1] = "forward"
      BY <1>2, <1>4, <2>2
    <3> QED BY <3>1 DEF Ordered
  <2>3. ASSUME NEW n \in DOMAIN a, a[n][1] = "isend"
        PROVE  n + 1 \in DOMAIN a /\ a[n + 1][1] = "wait_send"
    <3>1. CASE n \in DOMAIN s
      <4>1. n + 1 \in DOMAIN s /\ s[n + 1][1] = "wait_send"
        BY <1>3, <2>3, <3>1 DEF Ordered
      <4> QED BY <1>3, <4>1
    <3>2. CASE n \notin DOMAIN s
      <4>1. n = Len(s) + 1 /\ x[1] = "isend"
        BY <1>2, <1>4, <2>3, <3>2
      <4> QED BY <1>4, <4>1
    <3> QED BY <3>1, <3>2
  <2>4. ASSUME NEW n \in DOMAIN a, a[n][1] = "irecv"
        PROVE  n + 1 \in DOMAIN a /\ a[n + 1][1] = "wait_recv"
    <3>1. CASE n \in DOMAIN s
      <4>1. n + 1 \in DOMAIN s /\ s[n + 1][1] = "wait_recv"
        BY <1>3, <2>4, <3>1 DEF Ordered
      <4> QED BY <1>3, <4>1
    <3>2. CASE n \notin DOMAIN s
      <4>1. n = Len(s) + 1 /\ x[1] = "irecv"
        BY <1>2, <1>4, <2>4, <3>2
      <4> QED BY <1>4, <4>1
    <3> QED BY <3>1, <3>2
  <2>5. ASSUME NEW n \in DOMAIN a, a[n][1] = "wait_send", n > 1
        PROVE  a[n - 1][1] = "isend"
    <3>1. CASE n \in DOMAIN s
      <4>1. s[n - 1][1] = "isend" /\ n - 1 \in DOMAIN s
        BY <1>1, <1>3, <2>5, <3>1 DEF Ordered
      <4> QED BY <1>3, <4>1
    <3>2. CASE n \notin DOMAIN s
      <4>1. n = Len(s) + 2 /\ y[1] = "wait_send"
        BY <1>2, <1>4, <2>5, <3>2
      <4> QED BY <1>4, <4>1
    <3> QED BY <3>1, <3>2
  <2> QED BY <2>1, <2>2, <2>3, <2>4, <2>5 DEF Ordered
<1>6. ASSUME NEW k PROVE HasKind(a, k) <=> (HasKind(s, k) \/ k = x[1] \/ k = y[1])
  <2>1. HasKind(a, k) => (HasKind(s, k) \/ k = x[1] \/ k = y[1])
    BY <1>2 DEF HasKind
  <2>2. HasKind(s, k) => HasKind(a, k)
    BY <1>3 DEF HasKind
  <2>3. (k = x[1] \/ k = y[1]) => HasKind(a, k)
    BY <1>4 DEF HasKind
  <2> QED BY <2>1, <2>2, <2>3
<1>7. Tagged(a, x[1], x[2])
  BY <1>2, <1>3, <1>4 DEF Tagged
<1>8. ASSUME NEW k, NEW b, Tagged(s, k, b), k # x[1], k # y[1] PROVE Tagged(a, k, b)
  BY <1>2, <1>8 DEF Tagged
<1> QED BY <1>5, <1>6, <1>7, <1>8 DEF a

-----------------------------------------------------------------------------
(* The outputs, and the GPU of rank 0. *)

\* The ranks from 0 to r.
Route(r) == [i \in 1 .. (r + 1) |-> i - 1]

\* The right output of rank r for batch b.
Good(r, b) == [batch |-> b, hidden |-> Route(r)]

\* The batch that rank r received last.
In(r) == received[r].ctx

\* The batch that the rank after r received last.
Out(r) == received[next_rank(r)].ctx

\* The next operation that the thread of rank r, not 0, will launch.
Upcoming(r) ==
  IF pc[r] \in {"send", "sending"} THEN <<"isend", gen_ctx[r]>> ELSE <<"irecv", gen_ctx[r] + 1>>

\* The operation at hand on rank r, not 0.
NextOn(r) == First(stream[r], Upcoming(r))

\* The tensors and transfers of rank r, not 0, before an operation of kind k
\* for batch b.
Phase(r, k, b) ==
  /\ b >= 1
  /\ k # "wait_recv" => recvs[r] = 0
  /\ k # "wait_send" => sends[r] = << >> /\ Out(r) = b - 1
  /\ k = "irecv" => In(r) = b - 1
  /\ k \in {"forward", "isend", "wait_send"} => In(r) = b
  /\ k = "wait_recv" => \/ recvs[r] = 1 /\ In(r) = b - 1
                        \/ recvs[r] = 0 /\ In(r) = b /\ received[r].out = Good(r - 1, b)
  /\ k = "forward" => received[r].out = Good(r - 1, b)
  /\ k \in {"isend", "wait_send"} => outputs[r] = Good(r, b)
  /\ k = "wait_send" => \/ sends[r] = <<b>> /\ Out(r) = b - 1
                        \/ sends[r] = << >> /\ Out(r) = b

\* Rank r, not 0, is at one point of its cycle.
WorkerRank(r) == Chained(stream[r], Upcoming(r)) /\ Phase(r, NextOn(r)[1], NextOn(r)[2])

\* Every rank other than 0 is.
Workers == \A r \in Ranks : r # 0 => WorkerRank(r)

\* The last batch whose transfer rank 0 has launched.
Launched == Put(0) - (IF pc[0] = "sending" THEN 1 ELSE 0)

\* The last batch whose forward rank 0 has launched.
Forwards == issued - (IF gen_ctx[0] # 0 /\ pc[0] = "infer" THEN 1 ELSE 0)

\* The stream of rank 0, and when its transfers may be on it.
Queue0 ==
  /\ Ordered(stream[0])
  /\ Tagged(stream[0], "forward", Forwards)
  /\ Tagged(stream[0], "isend", Launched)
  /\ (pc[0] \in {"recv_infer_out", "send", "sending"} /\ gen_ctx[0] # 0) =>
       ~ HasKind(stream[0], "isend") /\ ~ HasKind(stream[0], "wait_send")
  /\ (HasKind(stream[0], "irecv") \/ HasKind(stream[0], "wait_recv")) =>
       to_update /\ pc[0] \in {"send", "sending", "update"}

\* The transfer of batch l from rank 0: to begin, under way or done.
Sending0(l) ==
  /\ HasKind(stream[0], "isend") => sends[0] = << >> /\ Out(0) = l - 1
  /\ (~ HasKind(stream[0], "isend") /\ HasKind(stream[0], "wait_send")) =>
       \/ sends[0] = <<l>> /\ Out(0) = l - 1
       \/ sends[0] = << >> /\ Out(0) = l
  /\ (~ HasKind(stream[0], "isend") /\ ~ HasKind(stream[0], "wait_send")) =>
       sends[0] = << >> /\ Out(0) = l

\* The output of batch t is back on rank 0.
Back0(t) ==
  recvs[0] = 0 /\ In(0) = t /\ (t > 0 => received[0].out = Good(pp_size - 1, t))

\* The transfer of the output of batch t to rank 0.
Receiving0(t) ==
  /\ HasKind(stream[0], "irecv") => recvs[0] = 0 /\ In(0) = t - 1
  /\ (~ HasKind(stream[0], "irecv") /\ HasKind(stream[0], "wait_recv")) =>
       (recvs[0] = 1 /\ In(0) = t - 1) \/ Back0(t)
  /\ (~ HasKind(stream[0], "irecv") /\ ~ HasKind(stream[0], "wait_recv")) => Back0(t)

\* The output of batch f is on rank 0 once its forward has run.
Computed0(f) == (~ HasKind(stream[0], "forward") /\ f > 0) => outputs[0] = Good(0, f)

\* The GPU of rank 0.
Device0 == Queue0 /\ Sending0(Launched) /\ Receiving0(Taken(0)) /\ Computed0(Forwards)

\* Every rank adds itself to the route.
LEMMA Routes ==
  ASSUME NEW r \in Nat
  PROVE  /\ Route(0) = <<0>>
         /\ r # 0 => Append(Route(r - 1), r) = Route(r)
         /\ Route(r) \in Seq(Nat)
<1>1. Route(0) = <<0>>
  BY DEF Route
<1>2. ASSUME NEW q \in Nat PROVE Route(q) \in Seq(Nat) /\ Len(Route(q)) = q + 1
  BY DEF Route
<1>3. ASSUME r # 0 PROVE Append(Route(r - 1), r) = Route(r)
  <2>1. r - 1 \in Nat /\ r - 1 + 1 = r
    BY <1>3
  <2> DEFINE a == Append(Route(r - 1), r)
  <2>2. Route(r - 1) \in Seq(Nat) /\ Len(Route(r - 1)) = r
    BY <1>2, <2>1
  <2>3. a \in Seq(Nat) /\ Len(a) = r + 1 /\ a[r + 1] = r /\ \A i \in 1 .. r : a[i] = Route(r - 1)[i]
    BY <2>2, AppendProperties
  <2>4. Route(r) \in Seq(Nat) /\ Len(Route(r)) = r + 1
    BY <1>2
  <2>5. \A i \in 1 .. (r + 1) : a[i] = Route(r)[i]
    <3> SUFFICES ASSUME NEW i \in 1 .. (r + 1) PROVE a[i] = Route(r)[i]
      OBVIOUS
    <3>1. Route(r)[i] = i - 1
      BY DEF Route
    <3>2. CASE i = r + 1
      BY <2>3, <3>1, <3>2
    <3>3. CASE i # r + 1
      <4>1. i \in 1 .. r
        BY <3>3
      <4>2. Route(r - 1)[i] = i - 1
        BY <2>1, <4>1 DEF Route
      <4> QED BY <2>3, <3>1, <4>1, <4>2
    <3> QED BY <3>2, <3>3
  <2> HIDE DEF a
  <2>6. a = Route(r)
    BY <2>3, <2>4, <2>5, SeqEqual
  <2> QED BY <2>6 DEF a
<1> QED BY <1>1, <1>2, <1>3

\* The operations at hand and to come.
LEMMA UpcomingType ==
  ASSUME Types, NEW r \in Ranks
  PROVE  /\ stream[r] \in Seq(Op) /\ Upcoming(r) \in Op /\ NextOn(r) \in Op
         /\ NextOn(r)[1] \in Kinds /\ NextOn(r)[2] \in Nat
<1>1. stream[r] \in Seq(Op) /\ gen_ctx[r] \in Nat
  BY DEF Types
<1>2. Upcoming(r) \in Op
  BY <1>1 DEF Upcoming, Op, Kinds
<1>3. NextOn(r) \in Op
  <2>1. stream[r] # << >> => Head(stream[r]) \in Op
    BY <1>1, HeadTailProperties
  <2> QED BY <1>2, <2>1 DEF NextOn, First
<1>4. NextOn(r)[1] \in Kinds /\ NextOn(r)[2] \in Nat
  BY <1>3 DEF Op
<1> QED BY <1>1, <1>2, <1>3, <1>4

\* A rank whose thread and GPU do nothing, and whose neighbours touch nothing of it.
LEMMA WorkerKept ==
  ASSUME NEW r \in Ranks, WorkerRank(r), config' = config, pc'[r] = pc[r], gen_ctx'[r] = gen_ctx[r],
         stream'[r] = stream[r], sends'[r] = sends[r], recvs'[r] = recvs[r],
         received'[r] = received[r], outputs'[r] = outputs[r],
         received'[next_rank(r)] = received[next_rank(r)]
  PROVE  WorkerRank(r)'
<1>1. next_rank(r)' = next_rank(r)
  BY SameRing
<1>2. Upcoming(r)' = Upcoming(r)
  BY DEF Upcoming
<1>3. NextOn(r)' = NextOn(r)
  BY <1>2 DEF NextOn
<1>4. In(r)' = In(r) /\ Out(r)' = Out(r)
  BY <1>1 DEF In, Out
<1>5. PICK k, b : k = NextOn(r)[1] /\ b = NextOn(r)[2]
  OBVIOUS
<1>6. Phase(r, k, b)
  BY <1>5 DEF WorkerRank
<1>7. Phase(r, k, b)'
  BY <1>4, <1>6 DEF Phase
<1>8. Phase(r, NextOn(r)[1], NextOn(r)[2])'
  BY <1>3, <1>5, <1>7 DEF Phase
<1> QED BY <1>2, <1>8 DEF WorkerRank

\* Launching leaves the operation at hand where it is.
LEMMA WorkerLaunches ==
  ASSUME NEW r \in Ranks, WorkerRank(r), config' = config, UNCHANGED gpu_vars,
         Chained(stream'[r], Upcoming(r)'), NextOn(r)' = NextOn(r)
  PROVE  WorkerRank(r)'
<1>1. next_rank(r)' = next_rank(r)
  BY SameRing
<1>2. sends' = sends /\ recvs' = recvs /\ received' = received /\ outputs' = outputs
  BY DEF gpu_vars
<1>4. In(r)' = In(r) /\ Out(r)' = Out(r)
  BY <1>1, <1>2 DEF In, Out
<1>5. PICK k, b : k = NextOn(r)[1] /\ b = NextOn(r)[2]
  OBVIOUS
<1>6. Phase(r, k, b)
  BY <1>5 DEF WorkerRank
<1>7. Phase(r, k, b)'
  BY <1>2, <1>4, <1>6 DEF Phase
<1>8. Phase(r, NextOn(r)[1], NextOn(r)[2])'
  BY <1>5, <1>7 DEF Phase
<1> QED BY <1>8 DEF WorkerRank

\* A GPU that advances is at the next operation of its cycle.
LEMMA WorkerAdvances ==
  ASSUME Types, NEW r \in Ranks, NEW k, NextOp(r, k), Advance(r), WorkerRank(r)
  PROVE  /\ Chained(stream'[r], Upcoming(r)')
         /\ NextOn(r) = Head(stream[r]) /\ NextOn(r)[1] = k
         /\ NextOn(r)' = Succ(NextOn(r))
<1>1. stream[r] # << >> /\ Head(stream[r])[1] = k
  BY DEF NextOp
<1>2. stream[r] \in Seq(Op) /\ Upcoming(r) \in Op
  BY UpcomingType
<1>3. stream'[r] = Tail(stream[r])
  BY DEF Advance, Types
<1>4. Upcoming(r)' = Upcoming(r)
  BY DEF Advance, Upcoming
<1>5. Chained(stream[r], Upcoming(r))
  BY DEF WorkerRank
<1>6. PICK s, u : s = stream[r] /\ u = Upcoming(r)
  OBVIOUS
<1>7. Chained(Tail(s), u) /\ First(Tail(s), u) = Succ(First(s, u))
  BY <1>1, <1>2, <1>5, <1>6, ChainAdvance
<1>8. Chained(stream'[r], Upcoming(r)')
  BY <1>3, <1>4, <1>6, <1>7
<1>9. NextOn(r)' = First(Tail(s), u)
  BY <1>3, <1>4, <1>6 DEF NextOn
<1>10. NextOn(r) = Head(stream[r])
  BY <1>1 DEF NextOn, First
<1>11. NextOn(r) = First(s, u)
  BY <1>6 DEF NextOn
<1> QED BY <1>1, <1>7, <1>8, <1>9, <1>10, <1>11

\* The GPU of a rank other than 0, one operation at a time.
LEMMA WorkerGpu ==
  ASSUME Types, NEW r \in Ranks, r # 0, WorkerRank(r),
         RunForward(r) \/ BeginSend(r) \/ BeginRecv(r) \/ FinishWait(r)
  PROVE  WorkerRank(r)'
<1>0. PICK op : op = NextOn(r)
  OBVIOUS
<1>1. PICK k, b : k = op[1] /\ b = op[2]
  OBVIOUS
<1>2. op \in Op /\ k \in Kinds /\ b \in Nat
  BY <1>0, <1>1, UpcomingType
<1>3. Phase(r, k, b)
  BY <1>0, <1>1 DEF WorkerRank
<1>4. /\ sends \in [Ranks -> Seq(Nat)] /\ recvs \in [Ranks -> Nat]
      /\ outputs \in [Ranks -> Tensor] /\ received[r].ctx \in Nat /\ r \in Nat
  <2>1. received[r] \in Payload
    BY DEF Types
  <2> QED BY <2>1, RankFacts DEF Types, Payload
<1>5. ASSUME Advance(r), UNCHANGED received PROVE In(r)' = In(r) /\ Out(r)' = Out(r)
  BY <1>5 DEF Advance, In, Out, next_rank, pp_size
<1>6. ASSUME Chained(stream'[r], Upcoming(r)'), NextOn(r)' = Succ(op),
             \E l, c : Succ(op) = <<l, c>> /\ Phase(r, l, c)'
      PROVE  WorkerRank(r)'
  <2>1. PICK l, c : Succ(op) = <<l, c>> /\ Phase(r, l, c)'
    BY <1>6
  <2>2. NextOn(r)'[1] = l /\ NextOn(r)'[2] = c
    BY <1>6, <2>1
  <2>3. Phase(r, NextOn(r)[1], NextOn(r)[2])'
    BY <2>1, <2>2 DEF Phase
  <2> QED BY <1>6, <2>3 DEF WorkerRank
<1>7. CASE RunForward(r)
  <2> USE <1>7 DEF RunForward
  <2>1. /\ Chained(stream'[r], Upcoming(r)') /\ op = Head(stream[r]) /\ k = "forward"
        /\ NextOn(r)' = Succ(op)
    BY <1>0, <1>1, WorkerAdvances
  <2>2. Succ(op) = <<"isend", b>>
    BY <1>1, <2>1 DEF Succ
  <2>3. In(r)' = In(r) /\ Out(r)' = Out(r)
    BY <1>5
  <2>4. outputs'[r] = model_output(r, b)
    BY <1>1, <1>4, <2>1
  <2>5. model_output(r, b) = Good(r, b)
    <3>1. received[r].ctx = b /\ received[r].out = Good(r - 1, b)
      BY <1>3, <2>1 DEF Phase, In
    <3>2. received[r].out.batch = b /\ received[r].out.hidden = Route(r - 1)
      BY <3>1 DEF Good
    <3>3. Append(Route(r - 1), r) = Route(r)
      BY <1>4, Routes
    <3> QED BY <3>1, <3>2, <3>3 DEF model_output, Good
  <2>6. sends' = sends /\ recvs' = recvs /\ received' = received
    OBVIOUS
  <2>7. Phase(r, "isend", b)'
    BY <1>3, <2>1, <2>3, <2>4, <2>5, <2>6 DEF Phase
  <2> QED BY <1>6, <2>1, <2>2, <2>7
<1>8. CASE BeginSend(r)
  <2> USE <1>8 DEF BeginSend
  <2>1. /\ Chained(stream'[r], Upcoming(r)') /\ op = Head(stream[r]) /\ k = "isend"
        /\ NextOn(r)' = Succ(op)
    BY <1>0, <1>1, WorkerAdvances
  <2>2. Succ(op) = <<"wait_send", b>>
    BY <1>1, <2>1 DEF Succ
  <2>3. In(r)' = In(r) /\ Out(r)' = Out(r)
    BY <1>5
  <2>4. sends[r] = << >> /\ Out(r) = b - 1
    BY <1>3, <2>1 DEF Phase
  <2>5. sends'[r] = <<b>>
    BY <1>1, <1>4, <2>1, <2>4
  <2>6. outputs' = outputs /\ recvs' = recvs /\ received' = received
    OBVIOUS
  <2>7. Phase(r, "wait_send", b)'
    BY <1>3, <2>1, <2>3, <2>4, <2>5, <2>6 DEF Phase
  <2> QED BY <1>6, <2>1, <2>2, <2>7
<1>9. CASE BeginRecv(r)
  <2> USE <1>9 DEF BeginRecv
  <2>1. /\ Chained(stream'[r], Upcoming(r)') /\ op = Head(stream[r]) /\ k = "irecv"
        /\ NextOn(r)' = Succ(op)
    BY <1>0, <1>1, WorkerAdvances
  <2>2. Succ(op) = <<"wait_recv", b>>
    BY <1>1, <2>1 DEF Succ
  <2>3. In(r)' = In(r) /\ Out(r)' = Out(r)
    BY <1>5
  <2>4. recvs'[r] = 1
    <3>1. recvs[r] = 0
      BY <1>3, <2>1 DEF Phase
    <3> QED BY <1>4, <3>1
  <2>6. outputs' = outputs /\ sends' = sends /\ received' = received
    OBVIOUS
  <2>7. Phase(r, "wait_recv", b)'
    BY <1>3, <2>1, <2>3, <2>4, <2>6 DEF Phase
  <2> QED BY <1>6, <2>1, <2>2, <2>7
<1>10. CASE FinishWait(r)
  <2> USE <1>10 DEF FinishWait
  <2>0. /\ sends' = sends /\ recvs' = recvs /\ received' = received /\ outputs' = outputs
        /\ Advance(r)
    BY DEF gpu_vars
  <2>3. In(r)' = In(r) /\ Out(r)' = Out(r)
    BY <1>5, <2>0
  <2>4. CASE NextOp(r, "wait_send") /\ sends[r] = << >>
    <3>1. /\ Chained(stream'[r], Upcoming(r)') /\ k = "wait_send" /\ NextOn(r)' = Succ(op)
      BY <1>0, <1>1, <2>0, <2>4, WorkerAdvances
    <3>2. Succ(op) = <<"irecv", b + 1>>
      BY <1>1, <3>1 DEF Succ
    <3>3. Out(r) = b /\ In(r) = b /\ recvs[r] = 0 /\ b >= 1
      <4>1. sends[r] # <<b>>
        BY <2>4
      <4> QED BY <1>3, <3>1, <4>1 DEF Phase
    <3>c. PICK c : c = b + 1
      OBVIOUS
    <3>4. c - 1 = b /\ c >= 1
      BY <1>2, <3>c
    <3>5. Phase(r, "irecv", c)'
      BY <2>0, <2>3, <2>4, <3>3, <3>4 DEF Phase
    <3> QED BY <1>6, <3>1, <3>2, <3>5, <3>c
  <2>5. CASE NextOp(r, "wait_recv") /\ recvs[r] = 0
    <3>1. /\ Chained(stream'[r], Upcoming(r)') /\ k = "wait_recv" /\ NextOn(r)' = Succ(op)
      BY <1>0, <1>1, <2>0, <2>5, WorkerAdvances
    <3>2. Succ(op) = <<"forward", b>>
      BY <1>1, <3>1 DEF Succ
    <3>5. Phase(r, "forward", b)'
      BY <1>3, <2>0, <2>3, <2>5, <3>1 DEF Phase
    <3> QED BY <1>6, <3>1, <3>2, <3>5
  <2> QED BY <2>4, <2>5
<1> QED BY <1>7, <1>8, <1>9, <1>10

\* The thread of a rank other than 0.
LEMMA WorkerThread ==
  ASSUME Types, Channels, pp_size > 1, NEW r \in Ranks, r # 0, WorkerRank(r),
         _send_object_list(r) \/ SendTensors(r) \/ recv_gen_ctx(r)
  PROVE  WorkerRank(r)'
<1>1. PICK s, u, g : s = stream[r] /\ u = Upcoming(r) /\ g = gen_ctx[r]
  OBVIOUS
<1>2. s \in Seq(Op) /\ u \in Op /\ g \in Nat /\ Chained(s, u) /\ NextOn(r) = First(s, u)
  BY <1>1, UpcomingType DEF WorkerRank, NextOn, Types
<1>t. /\ pc \in [Ranks -> Calls] /\ gen_ctx \in [Ranks -> Nat] /\ stream \in [Ranks -> Seq(Op)]
  BY DEF Types
<1>3. CASE _send_object_list(r)
  <2>1. /\ config' = config /\ UNCHANGED gpu_vars /\ gen_ctx' = gen_ctx /\ stream' = stream
        /\ pc[r] = "send" /\ pc'[r] = "sending"
    BY <1>3, <1>t DEF _send_object_list, Goto
  <2>2. Upcoming(r)' = Upcoming(r)
    BY <2>1 DEF Upcoming
  <2>3. NextOn(r)' = NextOn(r) /\ Chained(stream'[r], Upcoming(r)')
    BY <1>1, <1>2, <2>1, <2>2 DEF NextOn
  <2> QED BY <2>1, <2>3, WorkerLaunches
<1>4. CASE SendTensors(r)
  <2>1. /\ config' = config /\ UNCHANGED gpu_vars /\ gen_ctx' = gen_ctx
        /\ pc[r] = "sending" /\ pc'[r] = next_call(r, "send")
        /\ stream'[r] = s \o _send_batch_tensor(g)
    BY <1>1, <1>4, <1>t DEF SendTensors, Goto, Launch
  <2>2. pc'[r] = "recv_gen_ctx"
    BY <2>1, NextCalls
  <2>3. u = <<"isend", g>> /\ Upcoming(r)' = <<"irecv", g + 1>>
    BY <1>1, <2>1, <2>2 DEF Upcoming
  <2>4. PICK v : v = <<"wait_send", g>>
    OBVIOUS
  <2>5. v \in Op /\ Succ(u) = v /\ Succ(v) = Upcoming(r)'
    BY <1>2, <2>3, <2>4 DEF Succ, Op, Kinds
  <2>6. stream'[r] = Append(Append(s, u), v)
    BY <1>2, <2>1, <2>3, <2>4, <2>5, ConcatTwo DEF _send_batch_tensor
  <2>7. PICK a : a = Append(s, u)
    OBVIOUS
  <2>8. a \in Seq(Op) /\ Chained(a, v) /\ First(a, v) = First(s, u)
    BY <1>2, <2>5, <2>7, ChainLaunch
  <2>9. Chained(Append(a, v), Succ(v)) /\ First(Append(a, v), Succ(v)) = First(a, v)
    BY <2>5, <2>8, ChainLaunch
  <2>10. Chained(stream'[r], Upcoming(r)') /\ NextOn(r)' = NextOn(r)
    BY <1>2, <2>5, <2>6, <2>7, <2>8, <2>9 DEF NextOn
  <2> QED BY <2>1, <2>10, WorkerLaunches
<1>5. CASE recv_gen_ctx(r)
  <2>0. Head(objects[prev_rank(r)]) = g + 1
    BY <1>1, <1>5, NextObject DEF recv_gen_ctx, Taken
  <2>1. /\ config' = config /\ UNCHANGED gpu_vars /\ gen_ctx'[r] = g + 1
        /\ pc[r] = "recv_gen_ctx" /\ pc'[r] = next_call(r, "forward")
        /\ stream'[r] = s \o (_recv_batch_tensor(g + 1) \o <<<<"forward", g + 1>>>>)
    BY <1>1, <1>5, <1>t, <2>0 DEF recv_gen_ctx, Goto, Launch
  <2>2. pc'[r] = "send"
    BY <2>1, NextCalls
  <2>3. u = <<"irecv", g + 1>> /\ Upcoming(r)' = <<"isend", g + 1>>
    BY <1>1, <2>1, <2>2 DEF Upcoming
  <2>4. PICK v, w : v = <<"wait_recv", g + 1>> /\ w = <<"forward", g + 1>>
    OBVIOUS
  <2>5. v \in Op /\ w \in Op /\ Succ(u) = v /\ Succ(v) = w /\ Succ(w) = Upcoming(r)'
    BY <1>2, <2>3, <2>4 DEF Succ, Op, Kinds
  <2>6. stream'[r] = Append(Append(Append(s, u), v), w)
    <3>1. _recv_batch_tensor(g + 1) = <<u, v>>
      BY <2>3, <2>4 DEF _recv_batch_tensor
    <3>2. stream'[r] = s \o (<<u, v>> \o <<w>>)
      BY <2>1, <2>4, <3>1
    <3> QED BY <1>2, <2>5, <3>2, ConcatThree
  <2>7. PICK a : a = Append(s, u)
    OBVIOUS
  <2>8. a \in Seq(Op) /\ Chained(a, v) /\ First(a, v) = First(s, u)
    BY <1>2, <2>5, <2>7, ChainLaunch
  <2>9. PICK c : c = Append(a, v)
    OBVIOUS
  <2>10. c \in Seq(Op) /\ Chained(c, w) /\ First(c, w) = First(a, v)
    BY <2>5, <2>8, <2>9, ChainLaunch
  <2>11. Chained(Append(c, w), Succ(w)) /\ First(Append(c, w), Succ(w)) = First(c, w)
    BY <2>5, <2>10, ChainLaunch
  <2>12. Chained(stream'[r], Upcoming(r)') /\ NextOn(r)' = NextOn(r)
    BY <1>2, <2>5, <2>6, <2>7, <2>8, <2>9, <2>10, <2>11 DEF NextOn
  <2> QED BY <2>1, <2>12, WorkerLaunches
<1> QED BY <1>3, <1>4, <1>5

\* The counters of rank 0 are numbers.
LEMMA Counts0 ==
  ASSUME Types
  PROVE  Launched \in Int /\ Forwards \in Int /\ Taken(0) \in Nat /\ stream[0] \in Seq(Op)
<1>1. 0 \in Ranks
  BY RankFacts
<1>2. Put(0) \in Int /\ Taken(0) \in Nat
  BY <1>1, CountTypes
<1>3. issued \in Nat /\ stream[0] \in Seq(Op)
  BY <1>1 DEF Types
<1> QED BY <1>2, <1>3 DEF Launched, Forwards

\* The counters of rank 0 change only with its thread.
LEMMA Counts0Kept ==
  ASSUME issued' = issued, answered' = answered, to_update' = to_update,
         pc'[0] = pc[0], gen_ctx'[0] = gen_ctx[0]
  PROVE  Launched' = Launched /\ Forwards' = Forwards /\ Taken(0)' = Taken(0)
BY DEF Launched, Forwards, Taken, Put, Unsent

\* Nothing of rank 0 is touched.
LEMMA Device0Kept ==
  ASSUME Types, Device0, config' = config, issued' = issued, answered' = answered,
         to_update' = to_update, pc'[0] = pc[0], gen_ctx'[0] = gen_ctx[0],
         stream'[0] = stream[0], sends'[0] = sends[0], recvs'[0] = recvs[0],
         received'[0] = received[0], outputs'[0] = outputs[0],
         received'[next_rank(0)] = received[next_rank(0)]
  PROVE  Device0'
<1>1. next_rank(0)' = next_rank(0) /\ pp_size' = pp_size
  BY SameRing
<1>2. Launched' = Launched /\ Forwards' = Forwards /\ Taken(0)' = Taken(0)
  BY Counts0Kept
<1>3. In(0)' = In(0) /\ Out(0)' = Out(0)
  BY <1>1 DEF In, Out
<1>4. PICK l, t, f : l = Launched /\ t = Taken(0) /\ f = Forwards
  OBVIOUS
<1>5. Sending0(l)' /\ Receiving0(t)' /\ Computed0(f)'
  BY <1>1, <1>3, <1>4 DEF Device0, Sending0, Receiving0, Computed0, Back0
<1>6. Sending0(Launched)' /\ Receiving0(Taken(0))' /\ Computed0(Forwards)'
  BY <1>2, <1>4, <1>5 DEF Sending0, Receiving0, Computed0, Back0
<1>7. Queue0'
  BY <1>2 DEF Device0, Queue0
<1> QED BY <1>6, <1>7 DEF Device0

\* The GPU of rank 0, one operation at a time.
LEMMA Device0Gpu ==
  ASSUME Types, Device0,
         RunForward(0) \/ BeginSend(0) \/ BeginRecv(0) \/ FinishWait(0)
  PROVE  Device0'
<1>1. /\ Advance(0) /\ config' = config /\ received' = received
      /\ \E k \in Kinds : NextOp(0, k)
  BY DEF RunForward, BeginSend, BeginRecv, FinishWait, gpu_vars, Advance, Kinds
<1>2. /\ issued' = issued /\ answered' = answered /\ to_update' = to_update /\ pc' = pc
      /\ gen_ctx' = gen_ctx
  BY <1>1 DEF Advance, loop_vars
<1>3. Launched' = Launched /\ Forwards' = Forwards /\ Taken(0)' = Taken(0)
  BY <1>2, Counts0Kept
<1>4. In(0)' = In(0) /\ Out(0)' = Out(0) /\ pp_size' = pp_size
  BY <1>1, SameRing DEF In, Out
<1>5. PICK l, t, f : l = Launched /\ t = Taken(0) /\ f = Forwards
  OBVIOUS
<1>6. l \in Int /\ t \in Nat /\ f \in Int /\ stream[0] \in Seq(Op) /\ stream[0] # << >> /\ 0 \in Ranks
  BY <1>1, <1>5, Counts0, RankFacts DEF NextOp
<1>7. PICK s : s = stream[0]
  OBVIOUS
<1>8. stream'[0] = Tail(s) /\ s \in Seq(Op) /\ s # << >>
  BY <1>1, <1>6, <1>7 DEF Advance, Types
<1>9. Ordered(s)
  BY <1>7 DEF Device0, Queue0
<1>10. PICK h : h = Head(s)
  OBVIOUS
<1>11. /\ HasKind(s, h[1])
       /\ h[1] = "wait_send" => ~ HasKind(s, "isend") /\ ~ HasKind(s, "forward")
       /\ h[1] = "wait_recv" => ~ HasKind(s, "irecv")
       /\ HasKind(s, "isend") => HasKind(s, "wait_send")
       /\ HasKind(s, "irecv") => HasKind(s, "wait_recv")
  BY <1>8, <1>9, <1>10, OrderedHead
<1>12. /\ Ordered(Tail(s))
       /\ \A k : HasKind(Tail(s), k) <=> (HasKind(s, k) /\ k # h[1])
       /\ \A k, b : Tagged(s, k, b) => Tagged(Tail(s), k, b)
  BY <1>8, <1>9, <1>10, OrderedTail
<1>13. Queue0'
  BY <1>2, <1>3, <1>7, <1>8, <1>12 DEF Device0, Queue0
<1>14. /\ Sending0(l) /\ Receiving0(t) /\ Computed0(f)
       /\ Tagged(s, "forward", f) /\ Tagged(s, "isend", l)
  BY <1>5, <1>7 DEF Device0, Queue0
<1>15. DOMAIN s = 1 .. Len(s) /\ 1 \in DOMAIN s /\ h = s[1]
  BY <1>8, <1>10, EmptySeq
<1>16. ASSUME Sending0(l)', Receiving0(t)', Computed0(f)' PROVE Device0'
  <2>1. Sending0(Launched)' /\ Receiving0(Taken(0))' /\ Computed0(Forwards)'
    BY <1>3, <1>5, <1>16 DEF Sending0, Receiving0, Computed0, Back0
  <2> QED BY <1>13, <2>1 DEF Device0
<1>t. sends \in [Ranks -> Seq(Nat)] /\ recvs \in [Ranks -> Nat] /\ outputs \in [Ranks -> Tensor]
  BY DEF Types
<1>17. CASE RunForward(0)
  <2>1. h[1] = "forward" /\ sends' = sends /\ recvs' = recvs /\ outputs'[0] = model_output(0, h[2])
    BY <1>6, <1>7, <1>10, <1>17, <1>t DEF RunForward, NextOp
  <2>2. h[2] = f
    BY <1>14, <1>15, <2>1 DEF Tagged
  <2>3. outputs'[0] = Good(0, f)
    BY <2>1, <2>2, Routes DEF model_output, Good
  <2>4. Computed0(f)'
    BY <2>3 DEF Computed0
  <2>5. Sending0(l)'
    BY <1>4, <1>7, <1>8, <1>12, <1>14, <2>1 DEF Sending0
  <2>6. Receiving0(t)'
    BY <1>1, <1>4, <1>7, <1>8, <1>12, <1>14, <2>1 DEF Receiving0, Back0
  <2> QED BY <1>16, <2>4, <2>5, <2>6
<1>18. CASE BeginSend(0)
  <2>1. /\ h[1] = "isend" /\ recvs' = recvs /\ outputs' = outputs
        /\ sends'[0] = Append(sends[0], h[2])
    BY <1>6, <1>7, <1>10, <1>18, <1>t DEF BeginSend, NextOp
  <2>2. h[2] = l
    BY <1>14, <1>15, <2>1 DEF Tagged
  <2>3. sends[0] = << >> /\ Out(0) = l - 1
    BY <1>7, <1>11, <1>14, <2>1 DEF Sending0
  <2>4. sends'[0] = <<l>>
    BY <2>1, <2>2, <2>3
  <2>5. Sending0(l)'
    BY <1>4, <1>8, <1>11, <1>12, <2>1, <2>3, <2>4 DEF Sending0
  <2>6. Receiving0(t)'
    BY <1>1, <1>4, <1>7, <1>8, <1>12, <1>14, <2>1 DEF Receiving0, Back0
  <2>7. Computed0(f)'
    BY <1>7, <1>8, <1>12, <1>14, <2>1 DEF Computed0
  <2> QED BY <1>16, <2>5, <2>6, <2>7
<1>19. CASE BeginRecv(0)
  <2>1. /\ h[1] = "irecv" /\ sends' = sends /\ outputs' = outputs
        /\ recvs'[0] = recvs[0] + 1
    BY <1>6, <1>7, <1>10, <1>19, <1>t DEF BeginRecv, NextOp
  <2>3. recvs[0] = 0 /\ In(0) = t - 1
    BY <1>7, <1>11, <1>14, <2>1 DEF Receiving0
  <2>4. recvs'[0] = 1
    BY <2>1, <2>3
  <2>5. Sending0(l)'
    BY <1>4, <1>7, <1>8, <1>12, <1>14, <2>1 DEF Sending0
  <2>6. Receiving0(t)'
    BY <1>4, <1>8, <1>11, <1>12, <2>1, <2>3, <2>4 DEF Receiving0
  <2>7. Computed0(f)'
    BY <1>7, <1>8, <1>12, <1>14, <2>1 DEF Computed0
  <2> QED BY <1>16, <2>5, <2>6, <2>7
<1>20. CASE FinishWait(0)
  <2>1. sends' = sends /\ recvs' = recvs /\ outputs' = outputs
    BY <1>20 DEF FinishWait, gpu_vars
  <2>2. CASE h[1] = "wait_send" /\ sends[0] = << >>
    <3>1. sends[0] # <<l>>
      BY <2>2
    <3>2. Out(0) = l
      BY <1>7, <1>11, <1>14, <2>2, <3>1 DEF Sending0
    <3>3. Sending0(l)'
      BY <1>4, <1>8, <1>11, <1>12, <2>1, <2>2, <3>2 DEF Sending0
    <3>6. Receiving0(t)'
      BY <1>1, <1>4, <1>7, <1>8, <1>12, <1>14, <2>1, <2>2 DEF Receiving0, Back0
    <3>7. Computed0(f)'
      BY <1>7, <1>8, <1>12, <1>14, <2>1, <2>2 DEF Computed0
    <3> QED BY <1>16, <3>3, <3>6, <3>7
  <2>3. CASE h[1] = "wait_recv" /\ recvs[0] = 0
    <3>1. Back0(t)
      BY <1>7, <1>11, <1>14, <2>3 DEF Receiving0
    <3>2. Back0(t)'
      BY <1>1, <1>4, <2>1, <3>1 DEF Back0
    <3>3. Receiving0(t)'
      BY <1>8, <1>11, <1>12, <2>3, <3>2 DEF Receiving0
    <3>4. Sending0(l)'
      BY <1>4, <1>7, <1>8, <1>12, <1>14, <2>1, <2>3 DEF Sending0
    <3>7. Computed0(f)'
      BY <1>7, <1>8, <1>12, <1>14, <2>1, <2>3 DEF Computed0
    <3> QED BY <1>16, <3>3, <3>4, <3>7
  <2>4. \/ h[1] = "wait_send" /\ sends[0] = << >>
        \/ h[1] = "wait_recv" /\ recvs[0] = 0
    BY <1>7, <1>10, <1>20 DEF FinishWait, NextOp
  <2> QED BY <2>2, <2>3, <2>4
<1> QED BY <1>17, <1>18, <1>19, <1>20

\* Rank 0's thread leaves the GPU where it is; its counters and the tail of the
\* stream change.
LEMMA Device0Thread ==
  ASSUME Types, Types', pp_size > 1, Threads, Device0,
         \/ _send_object_list(0) \/ SendTensors(0) \/ Schedule \/ PrepareAndForward
         \/ SkipForward \/ recv_infer_out \/ Update
  PROVE  Device0'
<1> USE DEF Threads
<1>t. /\ 0 \in Ranks /\ pc \in [Ranks -> Calls] /\ gen_ctx \in [Ranks -> Nat]
      /\ stream \in [Ranks -> Seq(Op)] /\ issued \in Nat /\ to_update \in BOOLEAN
      /\ Len(answered) \in Nat
  <2>1. 0 \in Ranks
    BY RankFacts
  <2>2. /\ answered \in Seq(Tensor) /\ pc \in [Ranks -> Calls] /\ gen_ctx \in [Ranks -> Nat]
        /\ stream \in [Ranks -> Seq(Op)] /\ issued \in Nat /\ to_update \in BOOLEAN
    BY DEF Types
  <2> QED BY <2>1, <2>2
<1>1. PICK s, l, t, f : s = stream[0] /\ l = Launched /\ t = Taken(0) /\ f = Forwards
  OBVIOUS
<1>2. s \in Seq(Op) /\ l \in Int /\ t \in Nat /\ f \in Int
  BY <1>1, Counts0
<1>3. /\ config' = config /\ pp_size' = pp_size /\ In(0)' = In(0) /\ Out(0)' = Out(0)
      /\ sends' = sends /\ recvs' = recvs /\ received' = received /\ outputs' = outputs
  <2>1. config' = config /\ UNCHANGED gpu_vars
    BY DEF _send_object_list, SendTensors, Schedule, PrepareAndForward, SkipForward, recv_infer_out, Update
  <2>2. sends' = sends /\ recvs' = recvs /\ received' = received /\ outputs' = outputs
    BY <2>1 DEF gpu_vars
  <2> QED BY <2>1, <2>2, SameRing DEF In, Out
<1>4. /\ Sending0(l) /\ Receiving0(t) /\ Computed0(f) /\ Ordered(s)
      /\ Tagged(s, "forward", f) /\ Tagged(s, "isend", l)
      /\ (pc[0] \in {"recv_infer_out", "send", "sending"} /\ gen_ctx[0] # 0) =>
           ~ HasKind(s, "isend") /\ ~ HasKind(s, "wait_send")
      /\ (HasKind(s, "irecv") \/ HasKind(s, "wait_recv")) =>
           to_update /\ pc[0] \in {"send", "sending", "update"}
  BY <1>1 DEF Device0, Queue0
\* The stream stays as it is and no counter moves.
<1>5. ASSUME stream' = stream, Launched' = l, Taken(0)' = t, Forwards' = f,
             (pc'[0] \in {"recv_infer_out", "send", "sending"} /\ gen_ctx'[0] # 0) =>
               ~ HasKind(s, "isend") /\ ~ HasKind(s, "wait_send"),
             (HasKind(s, "irecv") \/ HasKind(s, "wait_recv")) =>
               to_update' /\ pc'[0] \in {"send", "sending", "update"}
      PROVE  Device0'
  <2>1. Sending0(l)' /\ Receiving0(t)' /\ Computed0(f)'
    BY <1>3, <1>4, <1>5 DEF Sending0, Receiving0, Computed0, Back0
  <2>2. Sending0(Launched)' /\ Receiving0(Taken(0))' /\ Computed0(Forwards)'
    BY <1>5, <2>1 DEF Sending0, Receiving0, Computed0, Back0
  <2>3. Queue0'
    BY <1>1, <1>4, <1>5 DEF Queue0
  <2> QED BY <2>2, <2>3 DEF Device0
<1>6. CASE _send_object_list(0)
  <2>1. /\ UNCHANGED loop_vars /\ gen_ctx' = gen_ctx /\ stream' = stream
        /\ pc[0] = "send" /\ pc'[0] = "sending"
    BY <1>6, <1>t DEF _send_object_list, Goto
  <2>2. issued' = issued /\ answered' = answered /\ to_update' = to_update
    BY <2>1 DEF loop_vars
  <2>3. gen_ctx[0] # 0
    BY <2>1 DEF Driving
  <2>4. Launched' = l /\ Taken(0)' = t /\ Forwards' = f
    BY <1>1, <1>t, <2>1, <2>2, <2>3 DEF Launched, Put, Unsent, Taken, Forwards
  <2> QED BY <1>4, <1>5, <2>1, <2>2, <2>4
<1>7. CASE SendTensors(0)
  <2>1. /\ UNCHANGED loop_vars /\ gen_ctx' = gen_ctx
        /\ pc[0] = "sending" /\ pc'[0] = next_call(0, "send")
        /\ stream'[0] = s \o _send_batch_tensor(gen_ctx[0])
    BY <1>1, <1>7, <1>t DEF SendTensors, Goto, Launch
  <2>2. issued' = issued /\ answered' = answered /\ to_update' = to_update
    BY <2>1 DEF loop_vars
  <2>3. gen_ctx[0] # 0 /\ gen_ctx[0] = issued
    BY <2>1 DEF Driving
  <2>4. pc'[0] = IF to_update THEN "update" ELSE "schedule"
    BY <2>1, NextCalls
  <2>5. Launched' = issued /\ l = issued - 1 /\ Taken(0)' = t /\ Forwards' = f
    BY <1>1, <1>t, <2>1, <2>2, <2>3, <2>4 DEF Launched, Put, Unsent, Taken, Forwards
  <2>6. PICK x, y : x = <<"isend", issued>> /\ y = <<"wait_send", issued>>
    OBVIOUS
  <2>7. x \in Op /\ y \in Op /\ x[1] = "isend" /\ y[1] = "wait_send" /\ x[2] = issued
    BY <1>t, <2>6 DEF Op, Kinds
  <2>8. ~ HasKind(s, "isend") /\ ~ HasKind(s, "wait_send")
    BY <1>4, <2>1, <2>3
  <2>9. stream'[0] = s \o <<x, y>>
    BY <2>1, <2>3, <2>6 DEF _send_batch_tensor
  <2>10. PICK a : a = s \o <<x, y>>
    OBVIOUS
  <2>11. /\ Ordered(a)
         /\ \A k : HasKind(a, k) <=> (HasKind(s, k) \/ k = "isend" \/ k = "wait_send")
         /\ Tagged(a, "isend", issued)
         /\ \A k, b : (Tagged(s, k, b) /\ k # "isend" /\ k # "wait_send") => Tagged(a, k, b)
    BY <1>2, <1>4, <2>7, <2>8, <2>10, OrderedPair
  <2>12. stream'[0] = a
    BY <2>9, <2>10
  <2>13. Tagged(a, "forward", f)
    BY <1>4, <2>11
  <2>14. Queue0'
    <3>1. pc'[0] \notin {"recv_infer_out", "send", "sending"}
      BY <2>4
    <3>2. (HasKind(a, "irecv") \/ HasKind(a, "wait_recv")) => to_update' /\ pc'[0] = "update"
      BY <1>4, <2>2, <2>4, <2>11
    <3> QED BY <2>5, <2>11, <2>12, <2>13, <3>1, <3>2 DEF Queue0
  <2>15. sends[0] = << >> /\ Out(0) = issued - 1
    BY <1>1, <1>4, <2>5, <2>8 DEF Sending0
  <2>16. Sending0(Launched)'
    BY <1>3, <2>5, <2>11, <2>12, <2>15 DEF Sending0
  <2>17. Receiving0(t)'
    BY <1>1, <1>3, <1>4, <2>11, <2>12 DEF Receiving0, Back0
  <2>18. Receiving0(Taken(0))'
    BY <2>5, <2>17 DEF Receiving0, Back0
  <2>19. Computed0(f)'
    BY <1>1, <1>3, <1>4, <2>11, <2>12 DEF Computed0
  <2>20. Computed0(Forwards)'
    BY <2>5, <2>19 DEF Computed0
  <2> QED BY <2>14, <2>16, <2>18, <2>20 DEF Device0
<1>8. CASE Schedule
  <2>1. PICK b \in {0, issued + 1} :
             /\ issued' = IF b = 0 THEN issued ELSE b
             /\ gen_ctx' = [gen_ctx EXCEPT ![0] = b]
             /\ Goto(0, IF b = 0 /\ ~to_update' THEN "schedule" ELSE "infer")
    BY <1>8 DEF Schedule
  <2>2. stream' = stream /\ pc[0] = "schedule" /\ answered' = answered
    BY <1>8 DEF Schedule
  <2>3. /\ pc'[0] = IF b = 0 /\ ~to_update' THEN "schedule" ELSE "infer"
        /\ gen_ctx'[0] = b
    BY <1>t, <2>1 DEF Goto
  <2>4. Launched' = l /\ Taken(0)' = t /\ Forwards' = f
    BY <1>1, <1>t, <2>1, <2>2, <2>3 DEF Launched, Put, Unsent, Taken, Forwards
  <2>5. pc'[0] \notin {"recv_infer_out", "send", "sending"}
    BY <2>3
  <2>6. ~ HasKind(s, "irecv") /\ ~ HasKind(s, "wait_recv")
    BY <1>4, <2>2
  <2> QED BY <1>5, <2>2, <2>4, <2>5, <2>6
<1>9. CASE PrepareAndForward
  <2>1. /\ UNCHANGED loop_vars /\ gen_ctx' = gen_ctx /\ s = << >> /\ gen_ctx[0] # 0
        /\ pc[0] = "infer" /\ pc'[0] = next_call(0, "forward")
        /\ stream'[0] = s \o <<<<"forward", gen_ctx[0]>>>>
    BY <1>1, <1>9, <1>t DEF PrepareAndForward, Goto, Launch, Synchronized
  <2>2. issued' = issued /\ answered' = answered /\ to_update' = to_update
    BY <2>1 DEF loop_vars
  <2>3. gen_ctx[0] = issued
    BY <2>1 DEF Driving
  <2>4. pc'[0] = IF to_update THEN "recv_infer_out" ELSE "send"
    BY <2>1, NextCalls
  <2>5. Launched' = l /\ Taken(0)' = t /\ Forwards' = issued
    BY <1>1, <1>t, <2>1, <2>2, <2>3, <2>4 DEF Launched, Put, Unsent, Taken, Forwards
  <2>6. PICK a : a = <<<<"forward", issued>>>>
    OBVIOUS
  <2>7. stream'[0] = a
    <3>1. <<"forward", issued>> \in Op
      BY <1>t DEF Op, Kinds
    <3>2. a \in Seq(Op)
      BY <2>6, <3>1
    <3>3. << >> \o a = a
      BY <3>2
    <3> QED BY <2>1, <2>3, <2>6, <3>3
  <2>8. DOMAIN a = {1} /\ a[1][1] = "forward" /\ a[1][2] = issued
    BY <2>6
  <2>9. Ordered(a) /\ Tagged(a, "forward", issued) /\ \A k : HasKind(a, k) <=> k = "forward"
    BY <2>8 DEF Ordered, Tagged, HasKind
  <2>10. Tagged(a, "isend", l)
    BY <2>8 DEF Tagged
  <2>11. ~ HasKind(s, "isend") /\ ~ HasKind(s, "wait_send") /\ ~ HasKind(s, "irecv") /\ ~ HasKind(s, "wait_recv")
    BY <2>1 DEF HasKind
  <2>12. Queue0'
    BY <2>5, <2>7, <2>9, <2>10 DEF Queue0
  <2>13. Sending0(l)'
    BY <1>1, <1>3, <1>4, <2>7, <2>9, <2>11 DEF Sending0
  <2>14. Receiving0(t)'
    BY <1>1, <1>3, <1>4, <2>7, <2>9, <2>11 DEF Receiving0, Back0
  <2>15. Computed0(Forwards)'
    BY <2>7, <2>9 DEF Computed0
  <2>16. Sending0(Launched)' /\ Receiving0(Taken(0))'
    BY <2>5, <2>13, <2>14 DEF Sending0, Receiving0, Back0
  <2> QED BY <2>12, <2>15, <2>16 DEF Device0
<1>10. CASE SkipForward
  <2>1. /\ UNCHANGED loop_vars /\ gen_ctx' = gen_ctx /\ stream' = stream /\ gen_ctx[0] = 0
        /\ pc[0] = "infer" /\ pc'[0] = next_call(0, "forward")
    BY <1>10, <1>t DEF SkipForward, Goto
  <2>2. issued' = issued /\ answered' = answered /\ to_update' = to_update
    BY <2>1 DEF loop_vars
  <2>3. to_update
    BY <2>1 DEF Driving
  <2>4. pc'[0] = "recv_infer_out"
    BY <2>1, <2>3, NextCalls
  <2>5. Launched' = l /\ Taken(0)' = t /\ Forwards' = f
    BY <1>1, <1>t, <2>1, <2>2, <2>3, <2>4 DEF Launched, Put, Unsent, Taken, Forwards
  <2>6. ~ HasKind(s, "irecv") /\ ~ HasKind(s, "wait_recv")
    BY <1>4, <2>1
  <2> QED BY <1>5, <2>1, <2>5, <2>6
<1>11. CASE recv_infer_out
  <2>0. Head(objects[prev_rank(0)]) = t + 1
    BY <1>1, <1>11, <1>t, NextObject DEF recv_infer_out
  <2>1. /\ UNCHANGED loop_vars /\ gen_ctx' = gen_ctx
        /\ pc[0] = "recv_infer_out" /\ pc'[0] = next_call(0, "recv_infer_out")
        /\ stream'[0] = s \o _recv_batch_tensor(t + 1)
    BY <1>1, <1>11, <1>t, <2>0 DEF recv_infer_out, Goto, Launch
  <2>2. issued' = issued /\ answered' = answered /\ to_update' = to_update
    BY <2>1 DEF loop_vars
  <2>3. to_update
    BY <2>1 DEF Driving
  <2>4. pc'[0] = IF gen_ctx[0] # 0 THEN "send" ELSE "update"
    BY <2>1, <2>3, NextCalls
  <2>5. Launched' = l /\ Taken(0)' = t + 1 /\ Forwards' = f
    BY <1>1, <1>t, <2>1, <2>2, <2>3, <2>4 DEF Launched, Put, Unsent, Taken, Forwards
  <2>6. PICK x, y : x = <<"irecv", t + 1>> /\ y = <<"wait_recv", t + 1>>
    OBVIOUS
  <2>7. x \in Op /\ y \in Op /\ x[1] = "irecv" /\ y[1] = "wait_recv"
    BY <1>2, <2>6 DEF Op, Kinds
  <2>8. ~ HasKind(s, "irecv") /\ ~ HasKind(s, "wait_recv")
    BY <1>4, <2>1
  <2>9. stream'[0] = s \o <<x, y>>
    BY <2>1, <2>6 DEF _recv_batch_tensor
  <2>10. PICK a : a = s \o <<x, y>>
    OBVIOUS
  <2>11. /\ Ordered(a)
         /\ \A k : HasKind(a, k) <=> (HasKind(s, k) \/ k = "irecv" \/ k = "wait_recv")
         /\ \A k, b : (Tagged(s, k, b) /\ k # "irecv" /\ k # "wait_recv") => Tagged(a, k, b)
    BY <1>2, <1>4, <2>7, <2>8, <2>10, OrderedPair
  <2>12. stream'[0] = a
    BY <2>9, <2>10
  <2>13. Tagged(a, "forward", f) /\ Tagged(a, "isend", l)
    BY <1>4, <2>11
  <2>14. Queue0'
    <3>1. gen_ctx[0] # 0 => ~ HasKind(a, "isend") /\ ~ HasKind(a, "wait_send")
      BY <1>4, <2>1, <2>11
    <3>2. to_update' /\ pc'[0] \in {"send", "update"}
      BY <2>2, <2>3, <2>4
    <3> QED BY <2>1, <2>5, <2>11, <2>12, <2>13, <3>1, <3>2 DEF Queue0
  <2>15. recvs[0] = 0 /\ In(0) = t
    BY <1>1, <1>4, <2>8 DEF Receiving0, Back0
  <2>16. PICK w : w = t + 1
    OBVIOUS
  <2>a. In(0) = w - 1
    BY <1>2, <2>15, <2>16
  <2>b. Receiving0(w)'
    BY <1>3, <2>11, <2>12, <2>15, <2>a DEF Receiving0
  <2>17. Receiving0(Taken(0))'
    BY <2>5, <2>16, <2>b DEF Receiving0, Back0
  <2>18. Sending0(l)' /\ Computed0(f)'
    BY <1>1, <1>3, <1>4, <2>11, <2>12 DEF Sending0, Computed0
  <2>19. Sending0(Launched)' /\ Computed0(Forwards)'
    BY <2>5, <2>18 DEF Sending0, Computed0
  <2> QED BY <2>14, <2>17, <2>19 DEF Device0
<1>12. CASE Update
  <2>1. /\ issued' = issued /\ gen_ctx' = gen_ctx /\ stream' = stream /\ ~ to_update' /\ s = << >>
        /\ pc[0] = "update" /\ pc'[0] = "schedule"
    BY <1>1, <1>12, <1>t DEF Update, Goto, Synchronized
  <2>2. Len(answered') = Len(answered) + 1
    <3>1. outputs[0] \in Tensor /\ received[0].out \in Tensor /\ answered \in Seq(Tensor)
      BY RankFacts DEF Types, Payload
    <3> QED BY <1>12, <3>1 DEF Update
  <2>3. to_update
    BY <2>1 DEF Driving
  <2>5. Launched' = l /\ Taken(0)' = t /\ Forwards' = f
    BY <1>1, <1>t, <2>1, <2>2, <2>3 DEF Launched, Put, Unsent, Taken, Forwards
  <2>6. ~ HasKind(s, "irecv") /\ ~ HasKind(s, "wait_recv")
    BY <2>1 DEF HasKind
  <2> QED BY <1>5, <2>1, <2>5, <2>6
<1> QED BY <1>6, <1>7, <1>8, <1>9, <1>10, <1>11, <1>12

\* What a rank's GPU that has a transfer under way holds.
LEMMA SenderHolds ==
  ASSUME Types, pp_size > 1, Driving, Workers, Device0, NEW r \in Ranks, sends[r] # << >>
  PROVE  \E b \in Nat : /\ sends[r] = <<b>> /\ Out(r) = b - 1 /\ outputs[r] = Good(r, b) /\ b >= 1
                        /\ r # 0 => Phase(r, "wait_send", b) /\ NextOn(r)[1] = "wait_send" /\ NextOn(r)[2] = b
                        /\ r = 0 => b = Launched /\ HasKind(stream[0], "wait_send")
                                    /\ ~ HasKind(stream[0], "isend")
<1>1. CASE r # 0
  <2>1. PICK k, b : k = NextOn(r)[1] /\ b = NextOn(r)[2]
    OBVIOUS
  <2>2. NextOn(r) \in Op /\ k \in Kinds /\ b \in Nat
    BY <2>1, UpcomingType
  <2>3. Phase(r, k, b)
    BY <1>1, <2>1 DEF Workers, WorkerRank
  <2>4. k = "wait_send"
    BY <2>3 DEF Phase
  <2>5. NextOn(r)[1] = "wait_send" /\ NextOn(r)[2] = b
    BY <2>1, <2>2, <2>4 DEF Op
  <2>6. sends[r] = <<b>> /\ Out(r) = b - 1 /\ outputs[r] = Good(r, b) /\ b >= 1
    BY <2>3, <2>4 DEF Phase
  <2> QED BY <1>1, <2>2, <2>3, <2>4, <2>5, <2>6
<1>2. CASE r = 0
  <2>0. sends[0] \in Seq(Nat)
    BY <1>2 DEF Types
  <2>1. /\ ~ HasKind(stream[0], "isend") /\ HasKind(stream[0], "wait_send")
        /\ sends[0] = <<Launched>> /\ Out(0) = Launched - 1
    BY <1>2 DEF Device0, Sending0
  <2>2. Launched \in Nat /\ Launched >= 1
    <3>1. Launched \in Nat
      <4>1. sends[0][1] \in Nat
        BY <2>0, <2>1
      <4> QED BY <2>1, <4>1
    <3>2. Out(0) \in Nat
      <4>1. next_rank(0) \in Ranks
        BY <1>2, RankFacts
      <4>2. received[next_rank(0)] \in Payload
        BY <4>1 DEF Types
      <4> QED BY <4>2 DEF Out, Payload
    <3> QED BY <2>1, <3>1, <3>2
  <2>3. stream[0] # << >> /\ stream[0] \in Seq(Op)
    <3>1. stream[0] \in Seq(Op)
      BY Counts0
    <3> QED BY <2>1, <3>1 DEF HasKind
  <2>4. ~ HasKind(stream[0], "forward")
    <3>1. PICK s : s = stream[0]
      OBVIOUS
    <3>2. Ordered(s) /\ s \in Seq(Op) /\ s # << >>
      BY <2>3, <3>1 DEF Device0, Queue0
    <3>3. Head(s)[1] = "wait_send" /\ (HasKind(s, "forward") => Head(s)[1] = "forward")
      BY <2>1, <3>1, <3>2, OrderedHead
    <3> QED BY <3>1, <3>3
  <2>5. Forwards = Launched
    <3>1. ~ (pc[0] \in {"recv_infer_out", "send", "sending"} /\ gen_ctx[0] # 0)
      BY <2>1 DEF Device0, Queue0
    <3>2. issued \in Nat /\ pc[0] \in Calls
      BY <1>2 DEF Types
    <3>3. pc[0] # "sending" \/ gen_ctx[0] = 0
      BY <3>1
    <3>4. CASE gen_ctx[0] # 0
      BY <3>1, <3>2, <3>4 DEF Forwards, Launched, Put, Unsent
    <3>5. CASE gen_ctx[0] = 0
      <4>1. pc[0] # "sending"
        BY <3>5 DEF Driving
      <4> QED BY <3>2, <3>5, <4>1 DEF Forwards, Launched, Put, Unsent
    <3> QED BY <3>4, <3>5
  <2>6. outputs[0] = Good(0, Launched)
    <3>1. Computed0(Forwards)
      BY DEF Device0
    <3> QED BY <2>2, <2>4, <2>5, <3>1 DEF Computed0
  <2> QED BY <1>2, <2>1, <2>2, <2>6
<1> QED BY <1>1, <1>2

\* A rank that has begun to receive waits for the batch after its last one.
LEMMA ReceiverHolds ==
  ASSUME Types, pp_size > 1, Driving, Workers, Device0, NEW r \in Ranks, recvs[r] > 0
  PROVE  \E b \in Nat : /\ recvs[r] = 1 /\ In(r) = b - 1
                        /\ r # 0 => Phase(r, "wait_recv", b) /\ NextOn(r)[1] = "wait_recv" /\ NextOn(r)[2] = b
                        /\ r = 0 => b = Taken(0) /\ HasKind(stream[0], "wait_recv")
                                    /\ ~ HasKind(stream[0], "irecv")
<1>0. recvs[r] # 0
  BY DEF Types
<1>1. CASE r # 0
  <2>1. PICK k, b : k = NextOn(r)[1] /\ b = NextOn(r)[2]
    OBVIOUS
  <2>2. NextOn(r) \in Op /\ k \in Kinds /\ b \in Nat
    BY <2>1, UpcomingType
  <2>3. Phase(r, k, b)
    BY <1>1, <2>1 DEF Workers, WorkerRank
  <2>4. k = "wait_recv"
    BY <1>0, <2>3 DEF Phase
  <2>5. NextOn(r)[1] = "wait_recv" /\ NextOn(r)[2] = b
    BY <2>1, <2>2, <2>4 DEF Op
  <2>6. recvs[r] = 1 /\ In(r) = b - 1
    BY <1>0, <2>3, <2>4 DEF Phase
  <2> QED BY <1>1, <2>2, <2>3, <2>4, <2>5, <2>6
<1>2. CASE r = 0
  <2>1. Taken(0) \in Nat
    BY Counts0
  <2>2. /\ ~ HasKind(stream[0], "irecv") /\ HasKind(stream[0], "wait_recv")
        /\ recvs[0] = 1 /\ In(0) = Taken(0) - 1
    BY <1>0, <1>2 DEF Device0, Receiving0, Back0
  <2> QED BY <1>2, <2>1, <2>2
<1> QED BY <1>1, <1>2

\* A transfer hands the next rank the output of the batch it expects.
LEMMA TransferStep ==
  ASSUME Types, pp_size > 1, Driving, Workers, Device0, NEW r \in Ranks, Transfer(r)
  PROVE  Workers' /\ Device0'
<1> USE DEF Transfer
<1>1. PICK n : n = next_rank(r)
  OBVIOUS
<1>2. /\ n \in Ranks /\ n # r /\ n = (IF r = pp_size - 1 THEN 0 ELSE r + 1) /\ r \in Nat
      /\ 0 \in Ranks /\ pp_size \in Nat
      /\ \A q \in Ranks : next_rank(q) \in Ranks /\ (next_rank(q) = n => q = r)
  <2>1. /\ n \in Ranks /\ n = (IF r = pp_size - 1 THEN 0 ELSE r + 1) /\ r \in Nat
        /\ 0 \in Ranks /\ pp_size \in Nat
    BY <1>1, RankFacts
  <2>2. \A q \in Ranks : next_rank(q) \in Ranks /\ (next_rank(q) = n => q = r)
    BY <1>1, RankFacts
  <2> QED BY <2>1, <2>2
<1>3. PICK b \in Nat : /\ sends[r] = <<b>> /\ Out(r) = b - 1 /\ outputs[r] = Good(r, b) /\ b >= 1
                       /\ r # 0 => Phase(r, "wait_send", b) /\ NextOn(r)[1] = "wait_send" /\ NextOn(r)[2] = b
                       /\ r = 0 => b = Launched /\ HasKind(stream[0], "wait_send")
                                   /\ ~ HasKind(stream[0], "isend")
  BY SenderHolds
<1>4. PICK c \in Nat : /\ recvs[n] = 1 /\ In(n) = c - 1
                       /\ n # 0 => Phase(n, "wait_recv", c) /\ NextOn(n)[1] = "wait_recv" /\ NextOn(n)[2] = c
                       /\ n = 0 => c = Taken(0) /\ HasKind(stream[0], "wait_recv")
                                   /\ ~ HasKind(stream[0], "irecv")
  BY <1>1, <1>2, ReceiverHolds
<1>5. c = b
  <2>1. Out(r) = In(n)
    BY <1>1 DEF Out, In
  <2> QED BY <1>3, <1>4, <2>1
<1>6. /\ config' = config /\ pc' = pc /\ gen_ctx' = gen_ctx /\ stream' = stream /\ outputs' = outputs
      /\ issued' = issued /\ answered' = answered /\ to_update' = to_update
  BY DEF loop_vars
<1>7. /\ Ranks' = Ranks /\ pp_size' = pp_size
      /\ \A q : next_rank(q)' = next_rank(q)
  BY <1>6, SameRing
<1>8. /\ received'[n] = [ctx |-> b, out |-> Good(r, b)]
      /\ \A q \in Ranks : q # n => received'[q] = received[q]
      /\ sends'[r] = << >> /\ \A q \in Ranks : q # r => sends'[q] = sends[q]
      /\ recvs'[n] = 0 /\ \A q \in Ranks : q # n => recvs'[q] = recvs[q]
  <2>1. received \in [Ranks -> Payload] /\ sends \in [Ranks -> Seq(Nat)] /\ recvs \in [Ranks -> Nat]
    BY DEF Types
  <2>2. Head(<<b>>) = b /\ Tail(<<b>>) = << >>
    OBVIOUS
  <2>3. received' = [received EXCEPT ![n] = [ctx |-> Head(sends[r]), out |-> outputs[r]]]
    BY <1>1
  <2>4. received'[n] = [ctx |-> b, out |-> Good(r, b)]
    BY <1>2, <1>3, <2>1, <2>2, <2>3
  <2>5. \A q \in Ranks : q # n => received'[q] = received[q]
    BY <2>1, <2>3
  <2>6. sends'[r] = << >> /\ \A q \in Ranks : q # r => sends'[q] = sends[q]
    BY <1>3, <2>1, <2>2
  <2>7. recvs' = [recvs EXCEPT ![n] = @ - 1]
    BY <1>1
  <2>8. recvs'[n] = 0 /\ \A q \in Ranks : q # n => recvs'[q] = recvs[q]
    BY <1>2, <1>4, <2>1, <2>7
  <2> QED BY <2>4, <2>5, <2>6, <2>8
<1> HIDE DEF Transfer
<1>9. \A q \in Ranks : Upcoming(q)' = Upcoming(q) /\ NextOn(q)' = NextOn(q)
  BY <1>6 DEF Upcoming, NextOn
<1>10. In(n)' = b /\ Out(r)' = b /\ received'[n].out = Good(r, b)
  BY <1>1, <1>7, <1>8 DEF In, Out
<1>11. /\ \A q \in Ranks : q # n => In(q)' = In(q)
       /\ \A q \in Ranks : q # r => Out(q)' = Out(q)
  BY <1>2, <1>7, <1>8 DEF In, Out
<1>12. ASSUME NEW q \in Ranks, q # 0 PROVE WorkerRank(q)'
  <2>0. WorkerRank(q) /\ Chained(stream'[q], Upcoming(q)')
    BY <1>6, <1>9, <1>12 DEF Workers, WorkerRank
  <2>1. CASE q = r
    <3>1. Phase(q, "wait_send", b) /\ NextOn(q)[1] = "wait_send" /\ NextOn(q)[2] = b
      BY <1>3, <1>12, <2>1
    <3>2. In(q)' = In(q) /\ Out(q)' = b /\ recvs'[q] = recvs[q] /\ sends'[q] = << >>
      BY <1>2, <1>8, <1>10, <1>11, <2>1
    <3>3. Phase(q, "wait_send", b)'
      BY <1>6, <3>1, <3>2 DEF Phase
    <3>4. Phase(q, NextOn(q)[1], NextOn(q)[2])'
      BY <1>9, <3>1, <3>3 DEF Phase
    <3> QED BY <2>0, <3>4 DEF WorkerRank
  <2>2. CASE q = n
    <3>1. Phase(q, "wait_recv", b) /\ NextOn(q)[1] = "wait_recv" /\ NextOn(q)[2] = b
      BY <1>4, <1>5, <1>12, <2>2
    <3>2. /\ In(q)' = b /\ Out(q)' = Out(q) /\ recvs'[q] = 0 /\ sends'[q] = sends[q]
          /\ received'[q].out = Good(r, b)
      BY <1>2, <1>8, <1>10, <1>11, <2>2
    <3>3. r = q - 1
      BY <1>2, <1>12, <2>2
    <3>4. Phase(q, "wait_recv", b)'
      BY <1>6, <3>1, <3>2, <3>3 DEF Phase
    <3>5. Phase(q, NextOn(q)[1], NextOn(q)[2])'
      BY <1>9, <3>1, <3>4 DEF Phase
    <3> QED BY <2>0, <3>5 DEF WorkerRank
  <2>3. CASE q # r /\ q # n
    <3>1. next_rank(q) \in Ranks /\ next_rank(q) # n
      BY <1>2, <2>3
    <3> QED BY <1>6, <1>8, <2>0, <2>3, <3>1, WorkerKept
  <2> QED BY <2>1, <2>2, <2>3
<1>13. Device0'
  <2>1. Launched' = Launched /\ Forwards' = Forwards /\ Taken(0)' = Taken(0)
    BY <1>6, Counts0Kept
  <2>2. PICK l, t, f : l = Launched /\ t = Taken(0) /\ f = Forwards
    OBVIOUS
  <2>3. Queue0'
    BY <1>6, <2>1 DEF Device0, Queue0
  <2>4. Computed0(f)'
    BY <1>6, <2>2 DEF Device0, Computed0
  <2>5. Sending0(l)'
    <3>1. CASE r = 0
      <4>1. l = b /\ HasKind(stream[0], "wait_send") /\ ~ HasKind(stream[0], "isend")
        BY <1>3, <2>2, <3>1
      <4> QED BY <1>6, <1>8, <1>10, <3>1, <4>1 DEF Sending0
    <3>2. CASE r # 0
      <4>1. sends'[0] = sends[0] /\ Out(0)' = Out(0)
        BY <1>2, <1>8, <1>11, <3>2
      <4> QED BY <1>6, <2>2, <4>1 DEF Device0, Sending0
    <3> QED BY <3>1, <3>2
  <2>6. Receiving0(t)'
    <3>1. CASE n = 0
      <4>1. t = b /\ HasKind(stream[0], "wait_recv") /\ ~ HasKind(stream[0], "irecv")
        BY <1>4, <1>5, <2>2, <3>1
      <4>2. r = pp_size - 1
        BY <1>2, <3>1
      <4>3. Back0(t)'
        BY <1>7, <1>8, <1>10, <3>1, <4>1, <4>2 DEF Back0
      <4> QED BY <1>6, <4>1, <4>3 DEF Receiving0
    <3>2. CASE n # 0
      <4>1. recvs'[0] = recvs[0] /\ In(0)' = In(0) /\ received'[0] = received[0]
        BY <1>2, <1>8, <1>11, <3>2
      <4> QED BY <1>6, <1>7, <2>2, <4>1 DEF Device0, Receiving0, Back0
    <3> QED BY <3>1, <3>2
  <2>7. Sending0(Launched)' /\ Receiving0(Taken(0))' /\ Computed0(Forwards)'
    BY <2>1, <2>2, <2>4, <2>5, <2>6 DEF Sending0, Receiving0, Computed0, Back0
  <2> QED BY <2>3, <2>7 DEF Device0
<1> QED BY <1>7, <1>12, <1>13 DEF Workers

-----------------------------------------------------------------------------
(* The inductive invariant and the theorems. *)

\* A single rank: no transfers, one batch at a time.
Solo ==
  /\ pc[0] \in {"schedule", "infer", "update"}
  /\ sends[0] = << >>
  /\ issued = Len(answered) + (IF pc[0] = "schedule" THEN 0 ELSE 1)
  /\ pc[0] # "schedule" => gen_ctx[0] = issued
  /\ stream[0] # << >> => pc[0] = "update" /\ stream[0] = <<<<"forward", issued>>>>
  /\ (pc[0] = "update" /\ stream[0] = << >>) => outputs[0] = Good(0, issued)

\* The n-th output handed to update() is that of the n-th batch, computed by
\* all ranks in order.
Answers == \A i \in DOMAIN answered : answered[i] = Good(pp_size - 1, i)

\* The inductive invariant.
RInv ==
  /\ Types
  /\ Answers
  /\ pp_size = 1 => Solo
  /\ pp_size > 1 => Threads /\ Workers /\ Device0

\* Every step of a single rank keeps it.
LEMMA SoloStep ==
  ASSUME Types, pp_size = 1, Solo, Next
  PROVE  Solo'
<1>0. Ranks = {0}
  BY RankFacts
<1>t. /\ pc \in [Ranks -> Calls] /\ gen_ctx \in [Ranks -> Nat] /\ issued \in Nat
      /\ answered \in Seq(Tensor) /\ Len(answered) \in Nat /\ stream \in [Ranks -> Seq(Op)]
      /\ outputs \in [Ranks -> Tensor] /\ sends \in [Ranks -> Seq(Nat)] /\ current_batch_idx = 0
      /\ inflight \in [Ranks -> Nat]
  <2>1. answered \in Seq(Tensor)
    BY DEF Types
  <2>2. Len(answered) \in Nat
    BY <2>1
  <2> QED BY <1>0, <2>1, <2>2 DEF Types
<1>1. PICK r \in Ranks : Thread(r) \/ Gpu(r)
  BY DEF Next
<1>2. r = 0
  BY <1>0
<1>3. CASE Schedule
  <2>1. PICK b \in {0, issued + 1} :
             /\ inflight' = [inflight EXCEPT ![current_batch_idx] = b]
             /\ issued' = IF b = 0 THEN issued ELSE b
             /\ gen_ctx' = [gen_ctx EXCEPT ![0] = b]
             /\ current_batch_idx' = (current_batch_idx + 1) % pp_size
             /\ to_update' = (inflight'[current_batch_idx'] # 0)
             /\ Goto(0, IF b = 0 /\ ~to_update' THEN "schedule" ELSE "infer")
    BY <1>3 DEF Schedule
  <2>2. answered' = answered /\ stream' = stream /\ UNCHANGED gpu_vars /\ pc[0] = "schedule"
    BY <1>3 DEF Schedule
  <2>3. current_batch_idx' = 0
    BY <1>t, <2>1
  <2>4. to_update' = (b # 0)
    BY <1>0, <1>t, <2>1, <2>3
  <2>5. pc'[0] = (IF b = 0 THEN "schedule" ELSE "infer") /\ gen_ctx'[0] = b
    BY <1>0, <1>t, <2>1, <2>4 DEF Goto
  <2>6. stream[0] = << >> /\ issued = Len(answered)
    BY <1>t, <2>2 DEF Solo
  <2>7. sends' = sends /\ outputs' = outputs
    BY <2>2 DEF gpu_vars
  <2> QED BY <1>t, <2>1, <2>2, <2>5, <2>6, <2>7 DEF Solo
<1>4. CASE PrepareAndForward
  <2>1. /\ UNCHANGED loop_vars /\ gen_ctx' = gen_ctx /\ UNCHANGED gpu_vars
        /\ stream[0] = << >> /\ pc[0] = "infer" /\ pc'[0] = next_call(0, "forward")
        /\ stream'[0] = stream[0] \o <<<<"forward", gen_ctx[0]>>>>
    BY <1>4, <1>0, <1>t DEF PrepareAndForward, Goto, Launch, Synchronized
  <2>2. pc'[0] = "update"
    BY <2>1 DEF next_call
  <2>3. issued' = issued /\ answered' = answered /\ sends' = sends
    BY <2>1 DEF loop_vars, gpu_vars
  <2>4. gen_ctx[0] = issued /\ issued = Len(answered) + 1
    BY <2>1 DEF Solo
  <2>5. stream'[0] = <<<<"forward", issued>>>>
    <3>1. <<<<"forward", issued>>>> \in Seq(Op)
      BY <1>t, OpTypes
    <3>2. << >> \o <<<<"forward", issued>>>> = <<<<"forward", issued>>>>
      BY <3>1
    <3> QED BY <2>1, <2>4, <3>2
  <2>6. stream'[0] # << >>
    BY <2>5
  <2>7. sends'[0] = << >>
    BY <2>3 DEF Solo
  <2> QED BY <2>1, <2>2, <2>3, <2>4, <2>5, <2>6, <2>7 DEF Solo
<1>5. CASE SkipForward
  <2>1. pc[0] = "infer" /\ gen_ctx[0] = 0
    BY <1>5 DEF SkipForward
  <2> QED BY <1>t, <2>1 DEF Solo
<1>6. CASE Update
  <2>1. /\ issued' = issued /\ gen_ctx' = gen_ctx /\ stream' = stream /\ stream[0] = << >>
        /\ pc[0] = "update" /\ pc'[0] = "schedule" /\ UNCHANGED gpu_vars
        /\ answered' = Append(answered, outputs[0])
    BY <1>6, <1>0, <1>t DEF Update, Goto, Synchronized
  <2>2. Len(answered') = Len(answered) + 1
    <3>1. outputs[0] \in Tensor
      BY <1>0, <1>t
    <3> QED BY <1>t, <2>1, <3>1
  <2>3. sends' = sends
    BY <2>1 DEF gpu_vars
  <2> QED BY <1>t, <2>1, <2>2, <2>3 DEF Solo
<1>7. CASE Gpu(0)
  <2>1. sends[0] = << >> /\ ~ Transfer(0)
    BY DEF Solo, Transfer
  <2>2. ASSUME NEW k, NextOp(0, k) PROVE k = "forward" /\ stream[0] = <<<<"forward", issued>>>> /\ pc[0] = "update"
    <3>1. stream[0] # << >> /\ Head(stream[0])[1] = k
      BY <2>2 DEF NextOp
    <3>2. stream[0] = <<<<"forward", issued>>>> /\ pc[0] = "update"
      BY <3>1 DEF Solo
    <3> QED BY <3>1, <3>2
  <2>3. RunForward(0)
    <3>1. RunForward(0) \/ BeginSend(0) \/ BeginRecv(0) \/ FinishWait(0)
      BY <1>7, <2>1 DEF Gpu
    <3>2. ~ NextOp(0, "isend") /\ ~ NextOp(0, "irecv") /\ ~ NextOp(0, "wait_send") /\ ~ NextOp(0, "wait_recv")
      BY <2>2
    <3> QED BY <3>1, <3>2 DEF BeginSend, BeginRecv, FinishWait
  <2>4. stream[0] = <<<<"forward", issued>>>> /\ pc[0] = "update"
    BY <2>2, <2>3 DEF RunForward
  <2>5. /\ UNCHANGED loop_vars /\ pc' = pc /\ gen_ctx' = gen_ctx /\ sends' = sends
        /\ stream'[0] = Tail(stream[0])
        /\ outputs'[0] = model_output(0, Head(stream[0])[2])
    BY <1>0, <1>t, <2>3 DEF RunForward, Advance
  <2>6. stream'[0] = << >> /\ outputs'[0] = model_output(0, issued)
    BY <2>4, <2>5
  <2>7. outputs'[0] = Good(0, issued)
    BY <2>6, Routes DEF model_output, Good
  <2>8. issued' = issued /\ answered' = answered
    BY <2>5 DEF loop_vars
  <2> QED BY <2>1, <2>4, <2>5, <2>6, <2>7, <2>8 DEF Solo
<1>8. pc[0] \notin {"send", "sending", "recv_infer_out"}
  BY DEF Solo
<1> QED BY <1>1, <1>2, <1>3, <1>4, <1>5, <1>6, <1>7, <1>8
        DEF Thread, _send_object_list, SendTensors, recv_infer_out

\* Every step of a ring of several ranks keeps what the GPUs hold.
LEMMA GpuStep ==
  ASSUME Types, Types', pp_size > 1, Threads, Workers, Device0, Next
  PROVE  Workers' /\ Device0'
<1>1. PICK r \in Ranks : Thread(r) \/ Gpu(r)
  BY DEF Next
<1>f. /\ 0 \in Ranks /\ \A q \in Ranks : next_rank(q) \in Ranks
  BY RankFacts
<1>t. /\ pc \in [Ranks -> Calls] /\ gen_ctx \in [Ranks -> Nat] /\ stream \in [Ranks -> Seq(Op)]
      /\ sends \in [Ranks -> Seq(Nat)] /\ recvs \in [Ranks -> Nat] /\ outputs \in [Ranks -> Tensor]
  BY DEF Types
<1>2. CASE Transfer(r)
  BY <1>2, TransferStep DEF Threads
<1>3. CASE RunForward(r) \/ BeginSend(r) \/ BeginRecv(r) \/ FinishWait(r)
  <2>1. /\ config' = config /\ UNCHANGED loop_vars /\ pc' = pc /\ gen_ctx' = gen_ctx
        /\ received' = received
        /\ \A q \in Ranks : q # r => /\ stream'[q] = stream[q] /\ sends'[q] = sends[q]
                                     /\ recvs'[q] = recvs[q] /\ outputs'[q] = outputs[q]
    BY <1>3, <1>t DEF RunForward, BeginSend, BeginRecv, FinishWait, Advance, gpu_vars
  <2>2. Ranks' = Ranks /\ issued' = issued /\ answered' = answered /\ to_update' = to_update
    BY <2>1, SameRing DEF loop_vars
  <2>3. ASSUME NEW q \in Ranks, q # 0 PROVE WorkerRank(q)'
    <3>1. WorkerRank(q)
      BY <2>3 DEF Workers
    <3>2. CASE q = r
      BY <1>3, <2>3, <3>1, <3>2, WorkerGpu
    <3>3. CASE q # r
      BY <2>1, <3>1, <3>3, WorkerKept
    <3> QED BY <3>2, <3>3
  <2>4. Device0'
    <3>1. CASE r = 0
      BY <1>3, <3>1, Device0Gpu
    <3>2. CASE r # 0
      BY <1>f, <2>1, <2>2, <3>2, Device0Kept
    <3> QED BY <3>1, <3>2
  <2> QED BY <2>2, <2>3, <2>4 DEF Workers
<1>4. CASE r = 0 /\ (\/ _send_object_list(0) \/ SendTensors(0) \/ Schedule \/ PrepareAndForward
                     \/ SkipForward \/ recv_infer_out \/ Update)
  <2>1. /\ config' = config /\ UNCHANGED gpu_vars
        /\ \A q \in Ranks : q # 0 => /\ stream'[q] = stream[q] /\ pc'[q] = pc[q]
                                     /\ gen_ctx'[q] = gen_ctx[q]
    <3>1. CASE _send_object_list(0)
      BY <3>1, <1>t DEF _send_object_list, Goto
    <3>2. CASE SendTensors(0)
      BY <3>2, <1>t DEF SendTensors, Goto, Launch
    <3>3. CASE Schedule
      <4>1. /\ config' = config /\ UNCHANGED gpu_vars /\ stream' = stream
            /\ \E b : gen_ctx' = [gen_ctx EXCEPT ![0] = b]
            /\ \E l : pc' = [pc EXCEPT ![0] = l]
        BY <3>3 DEF Schedule, Goto
      <4> QED BY <4>1, <1>t
    <3>4. CASE PrepareAndForward
      BY <3>4, <1>t DEF PrepareAndForward, Goto, Launch
    <3>5. CASE SkipForward
      BY <3>5, <1>t DEF SkipForward, Goto
    <3>6. CASE recv_infer_out
      BY <3>6, <1>t DEF recv_infer_out, Goto, Launch
    <3>7. CASE Update
      BY <3>7, <1>t DEF Update, Goto
    <3> QED BY <1>4, <3>1, <3>2, <3>3, <3>4, <3>5, <3>6, <3>7
  <2>2. Ranks' = Ranks /\ sends' = sends /\ recvs' = recvs /\ received' = received /\ outputs' = outputs
    BY <2>1, SameRing DEF gpu_vars
  <2>3. ASSUME NEW q \in Ranks, q # 0 PROVE WorkerRank(q)'
    <3>1. WorkerRank(q)
      BY <2>3 DEF Workers
    <3> QED BY <2>1, <2>2, <2>3, <3>1, WorkerKept
  <2>4. Device0'
    BY <1>4, Device0Thread
  <2> QED BY <2>2, <2>3, <2>4 DEF Workers
<1>5. CASE r # 0 /\ (_send_object_list(r) \/ SendTensors(r) \/ recv_gen_ctx(r))
  <2>1. /\ config' = config /\ UNCHANGED gpu_vars /\ UNCHANGED loop_vars
        /\ \A q \in Ranks : q # r => /\ stream'[q] = stream[q] /\ pc'[q] = pc[q]
                                     /\ gen_ctx'[q] = gen_ctx[q]
    BY <1>5, <1>t DEF _send_object_list, SendTensors, recv_gen_ctx, Goto, Launch
  <2>2. /\ Ranks' = Ranks /\ sends' = sends /\ recvs' = recvs /\ received' = received
        /\ outputs' = outputs /\ issued' = issued /\ answered' = answered /\ to_update' = to_update
    BY <2>1, SameRing DEF gpu_vars, loop_vars
  <2>3. ASSUME NEW q \in Ranks, q # 0 PROVE WorkerRank(q)'
    <3>1. WorkerRank(q) /\ Channels
      BY <2>3 DEF Workers, Threads
    <3>2. CASE q = r
      BY <1>5, <2>3, <3>1, <3>2, WorkerThread
    <3>3. CASE q # r
      BY <2>1, <2>2, <3>1, <3>3, WorkerKept
    <3> QED BY <3>2, <3>3
  <2>4. Device0'
    BY <1>5, <1>f, <2>1, <2>2, Device0Kept
  <2> QED BY <2>2, <2>3, <2>4 DEF Workers
<1> QED BY <1>1, <1>2, <1>3, <1>4, <1>5 DEF Thread, Gpu

\* update() copies the output from a GPU that has finished.
LEMMA AnswersStep ==
  ASSUME RInv, Next
  PROVE  Answers'
<1>t. /\ Types /\ answered \in Seq(Tensor) /\ 0 \in Ranks /\ pp_size \in Nat /\ pp_size > 0
      /\ Len(answered) \in Nat /\ DOMAIN answered = 1 .. Len(answered)
  <2>1. Types
    BY DEF RInv
  <2>2. answered \in Seq(Tensor)
    BY <2>1 DEF Types
  <2> QED BY <2>1, <2>2, RankFacts
<1>0. config' = config
  BY DEF Next, Thread, Gpu, _send_object_list, SendTensors, Schedule, PrepareAndForward, SkipForward,
         recv_infer_out, Update, recv_gen_ctx, RunForward, BeginSend, BeginRecv, FinishWait, Advance,
         Transfer
<1>1. CASE answered' = answered
  BY <1>0, <1>1, SameRing DEF RInv, Answers
<1>2. CASE answered' # answered
  <2>1. Update
    BY <1>2 DEF Next, Thread, Gpu, _send_object_list, SendTensors, Schedule, PrepareAndForward,
         SkipForward, recv_infer_out, recv_gen_ctx, RunForward, BeginSend, BeginRecv, FinishWait,
         Advance, Transfer, loop_vars
  <2>2. /\ pc[0] = "update" /\ stream[0] = << >>
        /\ answered' = Append(answered, IF pp_size = 1 THEN outputs[0] ELSE received[0].out)
    BY <2>1 DEF Update, Synchronized
  <2>3. (IF pp_size = 1 THEN outputs[0] ELSE received[0].out) = Good(pp_size - 1, Len(answered) + 1)
    <3>1. CASE pp_size = 1
      <4>1. outputs[0] = Good(0, issued) /\ issued = Len(answered) + 1
        BY <2>2, <3>1 DEF RInv, Solo
      <4> QED BY <3>1, <4>1
    <3>2. CASE pp_size > 1
      <4>1. Driving /\ Device0
        BY <3>2 DEF RInv, Threads
      <4>2. to_update
        BY <2>2, <4>1 DEF Driving
      <4>3. Taken(0) = Len(answered) + 1
        BY <2>2, <4>2 DEF Taken
      <4>4. ~ HasKind(stream[0], "irecv") /\ ~ HasKind(stream[0], "wait_recv")
        BY <2>2 DEF HasKind
      <4>5. Back0(Taken(0))
        BY <4>1, <4>4 DEF Device0, Receiving0
      <4>6. Taken(0) > 0
        BY <1>t, <4>3
      <4> QED BY <3>2, <4>3, <4>5, <4>6 DEF Back0
    <3> QED BY <1>t, <3>1, <3>2
  <2>4. PICK x : x = (IF pp_size = 1 THEN outputs[0] ELSE received[0].out)
    OBVIOUS
  <2>5. x \in Tensor
    <3>1. outputs[0] \in Tensor /\ received[0] \in Payload
      BY <1>t DEF Types
    <3> QED BY <2>4, <3>1 DEF Payload
  <2>6. PICK a : a = Append(answered, x)
    OBVIOUS
  <2>7. /\ DOMAIN a = 1 .. (Len(answered) + 1)
        /\ \A i \in 1 .. Len(answered) : a[i] = answered[i]
        /\ a[Len(answered) + 1] = x
    BY <1>t, <2>5, <2>6, AppendProperties
  <2>8. \A i \in DOMAIN a : a[i] = Good(pp_size - 1, i)
    <3> SUFFICES ASSUME NEW i \in DOMAIN a PROVE a[i] = Good(pp_size - 1, i)
      OBVIOUS
    <3>1. CASE i = Len(answered) + 1
      BY <2>3, <2>4, <2>7, <3>1
    <3>2. CASE i \in 1 .. Len(answered)
      BY <1>t, <2>7, <3>2 DEF RInv, Answers
    <3> QED BY <1>t, <2>7, <3>1, <3>2
  <2>9. answered' = a /\ pp_size' = pp_size
    BY <1>0, <2>2, <2>4, <2>6, SameRing
  <2> QED BY <2>8, <2>9 DEF Answers
<1> QED BY <1>1, <1>2

\* The inductive invariant holds initially.
LEMMA RingInit == Init => RInv
<1> SUFFICES ASSUME Init PROVE RInv
  OBVIOUS
<1>1. Types
  BY TypeInit
<1>2. 0 \in Ranks /\ pp_size \in Nat /\ pp_size > 0 /\ \A r \in Ranks : next_rank(r) \in Ranks
  BY <1>1, RankFacts
<1>3. /\ issued = 0 /\ answered = << >> /\ to_update = FALSE
      /\ pc = [r \in Ranks |-> IF r = 0 THEN "schedule" ELSE "recv_gen_ctx"]
      /\ gen_ctx = [r \in Ranks |-> 0] /\ stream = [r \in Ranks |-> << >>]
      /\ sends = [r \in Ranks |-> << >>] /\ recvs = [r \in Ranks |-> 0]
      /\ received = [r \in Ranks |-> [ctx |-> 0, out |-> NoTensor]]
  BY DEF Init
<1>4. Len(answered) = 0 /\ pc[0] = "schedule" /\ gen_ctx[0] = 0 /\ stream[0] = << >>
      /\ DOMAIN answered = {}
  BY <1>2, <1>3
<1>5. Answers
  BY <1>4 DEF Answers
<1>6. Solo
  BY <1>2, <1>3, <1>4 DEF Solo
<1>7. ASSUME pp_size > 1 PROVE Threads /\ Workers /\ Device0
  <2>1. Threads
    BY <1>7, ThreadInit
  <2>2. \A r \in Ranks : In(r) = 0 /\ Out(r) = 0
    BY <1>2, <1>3 DEF In, Out
  <2>3. ASSUME NEW r \in Ranks, r # 0 PROVE WorkerRank(r)
    <3>1. Upcoming(r) = <<"irecv", 1>> /\ stream[r] = << >>
      BY <1>3, <2>3 DEF Upcoming
    <3>2. NextOn(r)[1] = "irecv" /\ NextOn(r)[2] = 1
      BY <3>1 DEF NextOn, First
    <3>3. Phase(r, "irecv", 1)
      BY <1>3, <2>2 DEF Phase
    <3>4. Phase(r, NextOn(r)[1], NextOn(r)[2])
      BY <3>2, <3>3
    <3> QED BY <3>1, <3>4 DEF WorkerRank, Chained
  <2>4. Device0
    <3>1. Launched = 0 /\ Taken(0) = 0 /\ Forwards = 0
      <4>1. Unsent = 0
        BY <1>4 DEF Unsent
      <4>2. Put(0) = 0
        BY <1>3, <4>1 DEF Put
      <4>3. Launched = 0
        BY <1>4, <4>2 DEF Launched
      <4>4. Taken(0) = 0
        BY <1>3, <1>4 DEF Taken
      <4>5. Forwards = 0
        <5>1. issued = 0 /\ gen_ctx[0] = 0
          BY <1>3, <1>4
        <5> QED BY <5>1 DEF Forwards
      <4> QED BY <4>3, <4>4, <4>5
    <3>2. \A k : ~ HasKind(stream[0], k)
      BY <1>4 DEF HasKind
    <3>3. Queue0
      BY <1>4, <3>2 DEF Queue0, Ordered, Tagged
    <3>4. Sending0(0) /\ Receiving0(0) /\ Computed0(0)
      BY <1>2, <1>3, <2>2, <3>2 DEF Sending0, Receiving0, Back0, Computed0
    <3> QED BY <3>1, <3>3, <3>4 DEF Device0
  <2> QED BY <2>1, <2>3, <2>4 DEF Workers
<1> QED BY <1>1, <1>5, <1>6, <1>7 DEF RInv

\* Every step keeps the inductive invariant.
LEMMA RingStep == RInv /\ [Next]_vars => RInv'
<1> SUFFICES ASSUME RInv, [Next]_vars PROVE RInv'
  OBVIOUS
<1>1. Types /\ Types'
  BY TypeStep DEF RInv
<1>2. pp_size \in Nat /\ pp_size > 0
  BY <1>1, RankFacts
<1>3. config' = config /\ pp_size' = pp_size /\ Ranks' = Ranks
  <2>1. config' = config
    BY DEF Next, Thread, Gpu, _send_object_list, SendTensors, Schedule, PrepareAndForward, SkipForward,
           recv_infer_out, Update, recv_gen_ctx, RunForward, BeginSend, BeginRecv, FinishWait, Advance,
           Transfer, vars
  <2> QED BY <2>1, SameRing
<1>4. CASE Next
  <2>1. Answers'
    BY <1>4, AnswersStep
  <2>2. CASE pp_size = 1
    <3>1. Solo'
      BY <1>1, <1>4, <2>2, SoloStep DEF RInv
    <3>2. ~ (pp_size' > 1)
      BY <1>3, <2>2
    <3> QED BY <1>1, <2>1, <3>1, <3>2 DEF RInv
  <2>3. CASE pp_size > 1
    <3>1. Threads /\ Workers /\ Device0
      BY <2>3 DEF RInv
    <3>2. Threads'
      BY <1>1, <2>3, <3>1, ThreadStep
    <3>3. Workers' /\ Device0'
      BY <1>1, <1>4, <2>3, <3>1, GpuStep
    <3>4. pp_size' # 1
      BY <1>2, <1>3, <2>3
    <3> QED BY <1>1, <2>1, <3>2, <3>3, <3>4 DEF RInv
  <2> QED BY <1>2, <2>2, <2>3
<1>5. CASE UNCHANGED vars
  <2>1. /\ inflight' = inflight /\ current_batch_idx' = current_batch_idx
        /\ issued' = issued /\ answered' = answered /\ to_update' = to_update /\ pc' = pc
        /\ gen_ctx' = gen_ctx /\ objects' = objects /\ stream' = stream /\ sends' = sends
        /\ recvs' = recvs /\ received' = received /\ outputs' = outputs
    BY <1>5 DEF vars, loop_vars, gpu_vars
  <2>2. Answers'
    BY <1>3, <2>1 DEF RInv, Answers
  <2>3. Solo => Solo'
    BY <2>1 DEF Solo
  <2>4. ASSUME pp_size > 1 PROVE Threads' /\ Workers' /\ Device0'
    <3>0. Threads /\ Workers /\ Device0
      BY <2>4 DEF RInv
    <3>1. Threads'
      BY <1>1, <2>4, <3>0, ThreadStep
    <3>2. ASSUME NEW q \in Ranks, q # 0 PROVE WorkerRank(q)'
      <4>1. WorkerRank(q)
        BY <3>0, <3>2 DEF Workers
      <4> QED BY <1>3, <2>1, <4>1, WorkerKept
    <3>3. Device0'
      BY <1>1, <1>3, <2>1, <3>0, Device0Kept
    <3> QED BY <1>3, <3>1, <3>2, <3>3 DEF Workers
  <2> QED BY <1>1, <1>3, <2>2, <2>3, <2>4 DEF RInv
<1> QED BY <1>4, <1>5

\* The inductive invariant holds in every state.
LEMMA RingInvariant == Spec => []RInv
<1>1. Init => RInv
  BY RingInit
<1>2. RInv /\ [Next]_vars => RInv'
  BY RingStep
<1> QED BY <1>1, <1>2, PTL DEF Spec

\* Blocking sends and receives round the ring never leave every rank waiting
\* for another one, for any number of ranks and either kind of send: infer()
\* receives the oldest output before it sends its own batch on.
THEOREM NeverAllWait == Spec => []NoCyclicWait
<1>1. RInv => NoCyclicWait
  <2> SUFFICES ASSUME RInv, ~ NoCyclicWait PROVE FALSE
    OBVIOUS
  <2>1. Types /\ \A r \in Ranks : Waits(r)
    BY DEF RInv, NoCyclicWait
  <2>2. 0 \in Ranks /\ pp_size \in Nat /\ pp_size > 0
    BY <2>1, RankFacts
  <2>3. CASE pp_size = 1
    <3>1. pc[0] \in {"schedule", "infer", "update"}
      BY <2>3 DEF RInv, Solo
    <3>2. Waits(0)
      BY <2>1, <2>2
    <3> QED BY <3>1, <3>2 DEF Waits
  <2>4. CASE pp_size > 1
    <3>1. Threads
      BY <2>4 DEF RInv
    <3> QED BY <2>1, <2>4, <3>1, NoRingOfWaits
  <2> QED BY <2>2, <2>3, <2>4
<1> QED BY <1>1, RingInvariant, PTL

\* The only step that changes an output is a forward, and no transfer of that
\* rank is under way when it runs.
LEMMA ReplaysAreSafe ==
  ASSUME RInv, Next, NEW r \in Ranks, outputs'[r] # outputs[r]
  PROVE  sends[r] = << >>
<1>0. Types /\ 0 \in Ranks /\ pp_size \in Nat /\ pp_size > 0
  BY RankFacts DEF RInv
<1>1. RunForward(r)
  <2>1. PICK q \in Ranks : Thread(q) \/ Gpu(q)
    BY DEF Next
  <2>2. RunForward(q)
    BY <2>1 DEF Thread, Gpu, _send_object_list, SendTensors, Schedule, PrepareAndForward, SkipForward,
           recv_infer_out, Update, recv_gen_ctx, BeginSend, BeginRecv, FinishWait, Transfer, gpu_vars
  <2>3. q = r
    BY <1>0, <2>2 DEF RunForward, Types
  <2> QED BY <2>2, <2>3
<1>2. stream[r] # << >> /\ Head(stream[r])[1] = "forward" /\ stream[r] \in Seq(Op)
  BY <1>0, <1>1 DEF RunForward, NextOp, Types
<1>3. CASE pp_size = 1
  <2>1. r = 0
    BY <1>0, <1>3, RankFacts
  <2> QED BY <1>3, <2>1 DEF RInv, Solo
<1>4. CASE pp_size > 1 /\ r # 0
  <2>1. WorkerRank(r)
    BY <1>4 DEF RInv, Workers
  <2>2. NextOn(r)[1] = "forward"
    BY <1>2 DEF NextOn, First
  <2> QED BY <2>1, <2>2 DEF WorkerRank, Phase
<1>5. CASE pp_size > 1 /\ r = 0
  <2>1. Device0
    BY <1>5 DEF RInv
  <2>2. Ordered(stream[r])
    BY <1>5, <2>1 DEF Device0, Queue0
  <2>3. (HasKind(stream[r], "wait_send") /\ ~ HasKind(stream[r], "isend")) => Head(stream[r])[1] = "wait_send"
    BY <1>2, <2>2, OrderedHead
  <2>4. HasKind(stream[0], "isend") \/ ~ HasKind(stream[0], "wait_send")
    BY <1>2, <1>5, <2>3
  <2> QED BY <1>5, <2>1, <2>4 DEF Device0, Sending0
<1> QED BY <1>0, <1>3, <1>4, <1>5

\* A replay of a CUDA graph never overwrites the output of the previous batch
\* while a transfer may still read it: wait() makes the stream wait.
THEOREM OutputsAreKept == Spec => OutputKeptUntilSent
<1>1. RInv /\ [Next]_vars => [\A r \in Ranks : outputs'[r] # outputs[r] => sends[r] = << >>]_vars
  BY ReplaysAreSafe
<1> QED BY <1>1, RingInvariant, PTL DEF Spec, OutputKeptUntilSent

\* Seen from the scheduler, the answers are the batches 1, 2, 3, ...
LEMMA AnsweredInOrder ==
  ASSUME RInv, ExactSplits = Configs
  PROVE  answered_batches = [i \in 1 .. Len(answered) |-> i]
<1>1. Types /\ pp_size \in Nat /\ pp_size > 0
  BY RankFacts DEF RInv
<1>2. config \in ExactSplits /\ answered \in Seq(Tensor)
  BY <1>1 DEF Types
<1>3. Route(pp_size - 1) = WholeRoute(config)
  <2>1. pp_size - 1 + 1 = pp_size
    BY <1>1
  <2> QED BY <2>1 DEF Route, WholeRoute, pp_size
<1>4. \A i \in DOMAIN answered : answered[i].hidden = WholeRoute(config) /\ answered[i].batch = i
  BY <1>3 DEF RInv, Answers, Good
<1>5. DOMAIN answered = 1 .. Len(answered)
  BY <1>2
<1> QED BY <1>2, <1>4, <1>5 DEF answered_batches

\* One batch more than is in flight still has a slot.
LEMMA RoomForBatch ==
  ASSUME RInv, Schedule
  PROVE  issued - Len(answered) < pp_size
<1>1. Types /\ pp_size \in Nat /\ pp_size > 0 /\ pc[0] = "schedule"
  BY RankFacts DEF RInv, Schedule
<1>2. issued \in Nat /\ Len(answered) \in Nat /\ inflight \in [Ranks -> Nat]
  <2>1. answered \in Seq(Tensor) /\ issued \in Nat /\ inflight \in [Ranks -> Nat]
    BY <1>1 DEF Types
  <2> QED BY <2>1
<1>3. CASE pp_size = 1
  BY <1>1, <1>2, <1>3 DEF RInv, Solo
<1>4. CASE pp_size > 1
  <2>1. InSlots
    BY <1>4 DEF RInv, Threads
  <2>2. CASE Len(answered) < issued
    <3>1. Len(answered) + 1 \in (Len(answered) + 1) .. issued
      BY <1>2, <2>2
    <3>2. PICK k \in Ranks : Pending(k) /\ inflight[k] = Len(answered) + 1
      BY <2>1, <3>1 DEF InSlots
    <3>3. issued - inflight[k] <= pp_size - 1 - Turn(k)
      BY <2>1, <3>2 DEF InSlots
    <3>4. Turn(k) \in Nat /\ Turn(k) # 0
      BY <1>1, <3>2, TurnFacts DEF Pending
    <3> QED BY <1>1, <1>2, <3>2, <3>3, <3>4
  <2> QED BY <1>1, <1>2, <1>4, <2>2
<1> QED BY <1>1, <1>3, <1>4

\* Every step of the ring is a step of the pipe, or none.
LEMMA PipeStep ==
  ASSUME RInv, RInv', [Next]_vars, ExactSplits = Configs
  PROVE  [pipe!Next]_(pipe!vars)
<1>1. /\ answered_batches = [i \in 1 .. Len(answered) |-> i]
      /\ Types /\ pp_size \in Nat
  BY AnsweredInOrder, RankFacts DEF RInv
<1>2. answered_batches' = [i \in 1 .. Len(answered') |-> i]
  <2>1. Types' /\ pp_size' \in Nat /\ pp_size' > 0
    <3>1. Types'
      BY DEF RInv
    <3>2. config' \in Configs
      BY <3>1 DEF Types
    <3> QED BY <3>1, <3>2, RingAssumption DEF pp_size
  <2>2. config' \in ExactSplits /\ answered' \in Seq(Tensor)
    BY <2>1 DEF Types
  <2>3. Route(pp_size' - 1) = WholeRoute(config')
    <3>1. PICK p \in Nat : p = pp_size'
      BY <2>1
    <3>2. p - 1 + 1 = p
      OBVIOUS
    <3>3. Route(p - 1) = [i \in 1 .. p |-> i - 1]
      BY <3>2 DEF Route
    <3>4. WholeRoute(config') = [i \in 1 .. p |-> i - 1]
      BY <3>1 DEF WholeRoute, pp_size
    <3> QED BY <3>1, <3>3, <3>4
  <2>4. \A i \in DOMAIN answered' : answered'[i].hidden = WholeRoute(config') /\ answered'[i].batch = i
    BY <2>3 DEF RInv, Answers, Good
  <2>5. DOMAIN answered' = 1 .. Len(answered')
    BY <2>2
  <2> QED BY <2>2, <2>4, <2>5 DEF answered_batches
<1>3. answered \in Seq(Tensor) /\ Len(answered) \in Nat /\ issued \in Nat
  <2>1. answered \in Seq(Tensor) /\ issued \in Nat
    BY <1>1 DEF Types
  <2> QED BY <2>1
<1>4. Len(answered_batches) = Len(answered)
  BY <1>1, <1>3
<1>5. CASE answered' = answered /\ issued' = issued /\ config' = config
  <2>1. pp_size' = pp_size /\ answered_batches' = answered_batches
    BY <1>1, <1>2, <1>5 DEF pp_size
  <2> QED BY <1>5, <2>1 DEF pipe!vars
<1>6. CASE Schedule
  <2>1. issued - Len(answered) < pp_size
    BY <1>6, RoomForBatch
  <2>2. answered' = answered /\ config' = config /\ (issued' = issued \/ issued' = issued + 1)
    BY <1>6 DEF Schedule
  <2>3. pp_size' = pp_size /\ answered_batches' = answered_batches
    BY <1>1, <1>2, <2>2 DEF pp_size
  <2>4. CASE issued' = issued
    BY <2>3, <2>4 DEF pipe!vars
  <2>5. CASE issued' = issued + 1
    <3>1. pipe!Issue
      BY <1>4, <2>1, <2>3, <2>5 DEF pipe!Issue
    <3> QED BY <3>1 DEF pipe!Next
  <2> QED BY <2>2, <2>4, <2>5
<1>7. CASE Update
  <2>1. /\ issued' = issued /\ config' = config /\ pc[0] = "update"
    BY <1>7 DEF Update
  <2>2. Len(answered') = Len(answered) + 1
    <3>1. outputs[0] \in Tensor /\ received[0].out \in Tensor
      BY <1>1, RankFacts DEF Types, Payload
    <3> QED BY <1>3, <1>7, <3>1 DEF Update
  <2>3. Len(answered) < issued
    <3>1. CASE pp_size = 1
      BY <1>3, <2>1, <3>1 DEF RInv, Solo
    <3>2. CASE pp_size > 1
      <4>1. InSlots /\ Driving
        BY <3>2 DEF RInv, Threads
      <4>2. to_update
        BY <2>1, <4>1 DEF Driving
      <4> QED BY <1>1, <4>1, <4>2, OldestSlot
    <3>3. pp_size > 0
      BY <1>1, RankFacts
    <3> QED BY <1>1, <3>1, <3>2, <3>3
  <2>4. PICK n \in Nat : n = Len(answered)
    BY <1>3
  <2>5. answered_batches = [i \in 1 .. n |-> i] /\ answered_batches' = [i \in 1 .. (n + 1) |-> i]
    BY <1>1, <1>2, <2>2, <2>4
  <2>6. Append([i \in 1 .. n |-> i], n + 1) = [i \in 1 .. (n + 1) |-> i]
    OBVIOUS
  <2>7. answered_batches' = Append(answered_batches, Len(answered_batches) + 1)
    BY <1>4, <2>4, <2>5, <2>6
  <2>8. pipe!Answer
    BY <1>4, <2>1, <2>3, <2>7 DEF pipe!Answer, pp_size
  <2> QED BY <2>8 DEF pipe!Next
<1>8. Schedule \/ Update \/ (answered' = answered /\ issued' = issued /\ config' = config)
  BY DEF Next, Thread, Gpu, _send_object_list, SendTensors, PrepareAndForward, SkipForward,
         recv_infer_out, recv_gen_ctx, RunForward, BeginSend, BeginRecv, FinishWait, Advance,
         Transfer, loop_vars, vars
<1> QED BY <1>5, <1>6, <1>7, <1>8

\* The ring is the FIFO that Scheduler and DriverWorker rely on: outputs come
\* back in the order of the batches, each computed by all ranks in order, with
\* never more than pp_size batches in flight.  ExactSplits = Configs says that the
\* splits of the layers add up to the whole model; that every batch is eventually
\* answered is not part of it.
THEOREM RingIsPipe ==
  ASSUME ExactSplits = Configs
  PROVE  Spec => pipe!Init /\ [][pipe!Next]_(pipe!vars)
<1>1. Init => pipe!Init
  <2> SUFFICES ASSUME Init PROVE pipe!Init
    OBVIOUS
  <2>1. pp_size \in Nat \ {0}
    BY RingAssumption DEF Init, pp_size
  <2>2. issued = 0 /\ answered = << >>
    BY DEF Init
  <2>3. answered_batches = << >>
    BY <2>2 DEF answered_batches
  <2> QED BY <2>1, <2>2, <2>3 DEF pipe!Init
<1>2. RInv /\ RInv' /\ [Next]_vars => [pipe!Next]_(pipe!vars)
  BY PipeStep
<1> QED BY <1>1, <1>2, RingInvariant, PTL DEF Spec

=============================================================================
