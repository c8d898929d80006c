---------------------------- MODULE WorkerProcs ----------------------------
(***************************************************************************)
(* WorkerProcManager (vexact/worker/worker_proc_manager.py): the processes *)
(* of the ranks, the pipe on which each reports READY or FAILED, the pipe  *)
(* whose closing tells it that its parent is gone, and the shutdown.       *)
(***************************************************************************)
EXTENDS Integers, FiniteSets, ControlChannel

CONSTANT MaxFaults   \* bound: how many processes fail, die or are killed

ASSUME WorkerProcsAssumption == MaxFaults \in Nat

VARIABLES
  parent,      \* starting, waiting, up, closing, collecting, closed or killed
  rank_at,     \* the rank the parent's loop is at
  proc,        \* none, init, serving or exited
  ready_pipe,  \* empty, READY, FAILED or EOF
  death_open,  \* whether the write end of the death pipes is open
  faults

proc_vars == <<parent, rank_at, proc, ready_pipe, death_open, faults>>

ProcsInit ==
  /\ parent = "starting"
  /\ rank_at = 0
  /\ proc = [r \in Workers |-> "none"]
  /\ ready_pipe = [r \in Workers |-> "empty"]
  /\ death_open = TRUE
  /\ faults = 0

\* All processes are started before any is waited for.
StartProc ==
  /\ parent = "starting"
  /\ proc' = [proc EXCEPT ![rank_at] = "init"]
  /\ rank_at' = (rank_at + 1) % WorldSize
  /\ parent' = IF rank_at = WorldSize - 1 THEN "waiting" ELSE "starting"
  /\ UNCHANGED <<ready_pipe, death_open, faults>>

Report(r, status) ==
  ready_pipe' = [ready_pipe EXCEPT ![r] = IF parent = "killed" THEN @ ELSE status]

\* init_process_group returns when every rank has joined.  A report to a parent
\* that is gone fails, and the proxy stops.
ProxyStarted(r) ==
  /\ proc[r] = "init"
  /\ \A q \in Workers : proc[q] \in {"init", "serving"}
  /\ proc' = [proc EXCEPT ![r] = IF parent = "killed" THEN "exited" ELSE "serving"]
  /\ Report(r, "READY")
  /\ UNCHANGED <<parent, rank_at, death_open, faults>>

\* The constructor of the proxy raises.
ProxyRaises(r) ==
  /\ proc[r] = "init"
  /\ faults < MaxFaults
  /\ faults' = faults + 1
  /\ proc' = [proc EXCEPT ![r] = "exited"]
  /\ Report(r, "FAILED")
  /\ UNCHANGED <<parent, rank_at, death_open>>

\* A rank that waits in init_process_group for one that is gone times out.
ProxyTimesOut(r) ==
  /\ proc[r] = "init"
  /\ \E q \in Workers : proc[q] = "exited" \/ (proc[q] = "none" /\ parent = "killed")
  /\ proc' = [proc EXCEPT ![r] = "exited"]
  /\ Report(r, "FAILED")
  /\ UNCHANGED <<parent, rank_at, death_open, faults>>

\* The process dies without a word; its end of the pipe closes.
ProcDies(r) ==
  /\ proc[r] = "init"
  /\ faults < MaxFaults
  /\ faults' = faults + 1
  /\ proc' = [proc EXCEPT ![r] = "exited"]
  /\ Report(r, "EOF")
  /\ UNCHANGED <<parent, rank_at, death_open>>

\* The parent reads the reports in the order of the ranks.  After FAILED it
\* closes and raises; after EOF recv() itself raises, and the processes are left
\* to the finalizer.
AwaitReady ==
  /\ parent = "waiting"
  /\ ready_pipe[rank_at] # "empty"
  /\ CASE ready_pipe[rank_at] = "READY" ->
            /\ parent' = IF rank_at = WorldSize - 1 THEN "up" ELSE "waiting"
            /\ rank_at' = (rank_at + 1) % WorldSize
       [] ready_pipe[rank_at] = "FAILED" -> parent' = "closing" /\ rank_at' = 0
       [] ready_pipe[rank_at] = "EOF" -> parent' = "collecting" /\ rank_at' = 0
  /\ ready_pipe' = [ready_pipe EXCEPT ![rank_at] = "empty"]
  /\ UNCHANGED <<proc, death_open, faults>>

\* weakref.finalize calls _shutdown_procs when the manager is collected.
Finalize ==
  /\ parent = "collecting"
  /\ parent' = "closing"
  /\ UNCHANGED <<rank_at, proc, ready_pipe, death_open, faults>>

begin_close ==
  /\ parent = "up"
  /\ parent' = "closing"
  /\ rank_at' = 0
  /\ UNCHANGED <<proc, ready_pipe, death_open, faults>>

\* _shutdown_procs: the death pipes first ...
CloseDeathPipes ==
  /\ parent = "closing"
  /\ death_open
  /\ death_open' = FALSE
  /\ UNCHANGED <<parent, rank_at, proc, ready_pipe, faults>>

\* ... then join, terminate and kill, whichever it takes.  SIGTERM is handled
\* like a closed death pipe, so a process still in its constructor needs kill.
JoinOrKill ==
  /\ parent = "closing"
  /\ ~death_open
  /\ proc' = [proc EXCEPT ![rank_at] = "exited"]
  /\ rank_at' = (rank_at + 1) % WorldSize
  /\ parent' = IF rank_at = WorldSize - 1 THEN "closed" ELSE "closing"
  /\ UNCHANGED <<ready_pipe, death_open, faults>>

\* monitor_parent sees the end of its death pipe; the proxy is stopped.
StopServing(r) ==
  /\ proc[r] = "serving"
  /\ ~death_open
  /\ proc' = [proc EXCEPT ![r] = "exited"]
  /\ UNCHANGED <<parent, rank_at, ready_pipe, death_open, faults>>

\* Mutant: the workers are forked and hold the write ends of their siblings.
ParentKilledForked ==
  /\ parent \notin {"closed", "killed"}
  /\ faults < MaxFaults
  /\ faults' = faults + 1
  /\ parent' = "killed"
  /\ UNCHANGED <<rank_at, proc, ready_pipe, death_open>>

\* The parent is killed: the operating system closes its pipes.
ParentKilled ==
  /\ parent \notin {"closed", "killed"}
  /\ faults < MaxFaults
  /\ faults' = faults + 1
  /\ parent' = "killed"
  /\ death_open' = FALSE
  /\ UNCHANGED <<rank_at, proc, ready_pipe>>

\* Steps that are taken by somebody or other if nothing else happens.
ProcSteps ==
  \/ StartProc \/ AwaitReady \/ Finalize \/ CloseDeathPipes \/ JoinOrKill
  \/ \E r \in Workers : ProxyStarted(r) \/ ProxyTimesOut(r) \/ StopServing(r)

ProcFaults == ParentKilled \/ \E r \in Workers : ProxyRaises(r) \/ ProcDies(r)

=============================================================================
