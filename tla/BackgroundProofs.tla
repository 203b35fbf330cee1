-------------------------- MODULE BackgroundProofs --------------------------
(***************************************************************************)
(* Proofs about the two components that work off rows in the background,   *)
(* PlatformTasks and EmailCampaigns, each for itself and for any values of *)
(* its constants.                                                          *)
(*                                                                         *)
(* Platform tasks: type correctness, the invariants of execution, and that *)
(* a settled task stays as it is.                                          *)
(*                                                                         *)
(* Mail campaigns: a campaign's mail reaches an address once, and never    *)
(* one that was barred before the campaign listed its recipients.  A claim *)
(* makes its rows 'sending', and no statement but those of the run that    *)
(* claimed them touches such rows: runs have their rows to themselves      *)
(* (OneEach), and what a run knows of them stays so until it writes        *)
(* (RunOK).  Rows that are to be claimed were never mailed, or a doubt     *)
(* about it is on record, and attempts are left (RowOK).                   *)
(***************************************************************************)
EXTENDS PlatformTasks, EmailCampaigns, TLAPS


Row == [status : Status, attempts : Nat, due : BOOLEAN]
FreeWorker == [at : {"idle"}, task : {NoTask}, attempt : {0}]
BusyWorker == [at : Busy, task : Task, attempt : Nat]

LEMMA InitTypeOK == Init => TypeOK
  BY DEF Init, TypeOK, Status, Terminal, Runnable, Free, NoTransition

\* A worker that is not idle has a task.
LEMMA BusyOK ==
  ASSUME TypeOK, NEW w \in Worker, worker[w].at # "idle"
  PROVE  worker[w] \in BusyWorker /\ worker[w].task \in Task
  BY DEF TypeOK, BusyWorker

LEMMA LeaveOK ==
  ASSUME TypeOK, NEW w \in Worker, Leave(w)
  PROVE  worker' \in [Worker -> FreeWorker \cup BusyWorker]
  BY DEF TypeOK, Leave, Free, FreeWorker, BusyWorker

LEMMA GotoOK ==
  ASSUME TypeOK, NEW w \in Worker, worker[w].at # "idle", NEW label \in Busy, Goto(w, label)
  PROVE  worker' \in [Worker -> FreeWorker \cup BusyWorker]
  <1>1. [worker[w] EXCEPT !.at = label] \in BusyWorker
    BY BusyOK DEF BusyWorker
  <1> QED
    BY <1>1 DEF TypeOK, Goto, FreeWorker, BusyWorker

LEMMA ClaimOK ==
  ASSUME TypeOK, NEW w \in Worker, NEW t \in Task, Claim(w, t)
  PROVE  task' \in [Task -> Row] /\ worker' \in [Worker -> FreeWorker \cup BusyWorker]
  <1>1. task[t].attempts + 1 \in Nat
    BY DEF TypeOK
  <1>2. [task[t] EXCEPT !.status = "running", !.attempts = @ + 1] \in Row
    BY <1>1 DEF TypeOK, Row, Status
  <1>3. task' = [task EXCEPT ![t] = [task[t] EXCEPT !.status = "running", !.attempts = @ + 1]]
    BY DEF Claim, TypeOK
  <1>4. [at |-> "claimed", task |-> t, attempt |-> task[t].attempts + 1] \in BusyWorker
    BY <1>1 DEF BusyWorker, Busy
  <1> QED
    BY <1>2, <1>3, <1>4 DEF Claim, TypeOK, Row, FreeWorker, BusyWorker

LEMMA TaskSteps ==
  ASSUME TypeOK, NEW t \in Task, Create(t) \/ FinishCreate(t) \/ RetryDue(t)
  PROVE  TypeOK'
  <1>1. task' \in [Task -> Row]
    <2>1. CASE Create(t)
      BY <2>1 DEF TypeOK, Row, Create, Status, Runnable
    <2>2. CASE FinishCreate(t)
      BY <2>2 DEF TypeOK, Row, FinishCreate
    <2>3. CASE RetryDue(t)
      BY <2>3 DEF TypeOK, Row, RetryDue
    <2> QED
      BY <2>1, <2>2, <2>3
  <1>2. creating' \subseteq Task /\ jobs' \subseteq Task
    BY DEF TypeOK, Create, FinishCreate, RetryDue
  <1> QED
    BY <1>1, <1>2 DEF TypeOK, Row, Create, FinishCreate, RetryDue

LEMMA PollTypeOK ==
  ASSUME TypeOK, NEW w \in Worker, Poll(w) \/ Consume(w)
  PROVE  TypeOK'
  <1>1. ASSUME NEW t \in Task, Claim(w, t)
        PROVE  /\ task' \in [Task -> Row]
               /\ worker' \in [Worker -> FreeWorker \cup BusyWorker]
    BY <1>1, ClaimOK
  <1>2. /\ task' \in [Task -> Row]
        /\ worker' \in [Worker -> FreeWorker \cup BusyWorker]
    BY <1>1 DEF Poll, Consume, TypeOK, Row, FreeWorker, BusyWorker
  <1>3. jobs' \subseteq Task
    BY DEF Poll, Consume, TypeOK
  <1> QED
    BY <1>2, <1>3 DEF Poll, Consume, TypeOK, Row, FreeWorker, BusyWorker

LEMMA ExecuteTypeOK ==
  ASSUME TypeOK, NEW w \in Worker, Execute(w) \/ Die(w)
  PROVE  TypeOK'
  <1> DEFINE t == worker[w].task
  <1>1. worker[w].at # "idle" /\ t \in Task
    BY BusyOK DEF Execute, Start, Handle, Succeed, RecordSuccess, Fail, Die
  <1>2. worker' \in [Worker -> FreeWorker \cup BusyWorker]
    <2>1. Leave(w) \/ \E label \in Busy : Goto(w, label)
      BY DEF Execute, Start, Handle, Succeed, RecordSuccess, Fail, Die, Busy
    <2> QED
      BY <1>1, <2>1, LeaveOK, GotoOK
  <1>3. task' \in [Task -> Row]
    <2>1. CASE Succeed(w) /\ task' = [task EXCEPT ![t].status = "succeeded"]
      BY <2>1, <1>1 DEF TypeOK, Row, Status, Terminal
    <2>2. CASE Fail(w)
      BY <2>2, <1>1 DEF Fail, TypeOK, Row, Status, Terminal, Runnable
    <2>3. CASE UNCHANGED task
      BY <2>3 DEF TypeOK, Row
    <2> QED
      BY <2>1, <2>2, <2>3 DEF Execute, Start, Handle, Succeed, RecordSuccess, Die
  <1>4. /\ lost' \subseteq Task /\ returned' \subseteq Task
        /\ UNCHANGED <<creating, jobs, operator, forced>>
    BY <1>1 DEF Execute, Start, Handle, Succeed, RecordSuccess, Fail, Die, TypeOK
  <1> QED
    BY <1>2, <1>3, <1>4 DEF TypeOK, Row, FreeWorker, BusyWorker

LEMMA OperatorTypeOK ==
  ASSUME TypeOK, NEW o \in Operator,
         \/ \E t \in Task, status \in OperatorStatus : BeginTransition(o, t, status)
         \/ WriteTransition(o)
  PROVE  TypeOK'
  <1>1. CASE \E t \in Task, status \in OperatorStatus : BeginTransition(o, t, status)
    BY <1>1 DEF TypeOK, BeginTransition
  <1>2. CASE WriteTransition(o)
    <2>1. operator[o].task \in Task /\ operator[o].status \in Status
      BY <1>2, OperatorStatusAssumption DEF WriteTransition, TypeOK
    <2>2. task' \in [Task -> Row] /\ forced' \subseteq Task
      BY <1>2, <2>1 DEF WriteTransition, TypeOK, Row
    <2>3. operator' \in [Operator -> [task : {NoTask}, status : {"absent"}]
                              \cup [task : Task, status : OperatorStatus]]
      BY <1>2 DEF WriteTransition, TypeOK, NoTransition
    <2> QED
      BY <1>2, <2>2, <2>3 DEF TypeOK, WriteTransition, Row
  <1> QED
    BY <1>1, <1>2

LEMMA NextTypeOK == TypeOK /\ [Next]_vars => TypeOK'
  <1> SUFFICES ASSUME TypeOK, [Next]_vars
               PROVE  TypeOK'
    OBVIOUS
  <1>1. CASE UNCHANGED vars
    BY <1>1 DEF vars, TypeOK
  <1> QED
    BY <1>1, TaskSteps, PollTypeOK, ExecuteTypeOK, OperatorTypeOK DEF Next, Worker

\* Every reachable state is well typed.
THEOREM TypeCorrect == Spec => []TypeOK
  BY InitTypeOK, NextTypeOK, PTL DEF Spec

-----------------------------------------------------------------------------
(* The invariant of execution.                                             *)

\* What the invariant says of one task.
TaskInv(t) ==
    /\ task[t].status = "absent" => task[t].attempts = 0 /\ \A w \in Worker : ~Holds(w, t)
    /\ t \notin forced =>
         /\ task[t].attempts <= MaxAttempts[t]
         /\ task[t].status \in Runnable => task[t].attempts < MaxAttempts[t]
         /\ \A w \in Worker : Holds(w, t) =>
              /\ task[t].status \notin Runnable
              /\ worker[w].attempt = task[t].attempts
              /\ \A v \in Worker : Holds(v, t) => v = w
              /\ worker[w].at = "recorded" => task[t].status # "running"
         /\ task[t].status = "running" /\ t \notin lost => \E w \in Worker : Holds(w, t)
         /\ task[t].status = "succeeded" => t \in returned
         /\ t \in Unsupported => t \notin returned

WorkerInv(w) ==
    /\ worker[w].at \in {"returned", "recorded"} => worker[w].task \in returned
    /\ worker[w].at \in {"handler", "returned", "recorded"} => worker[w].task \notin Unsupported

LEMMA Split ==
  ASSUME TypeOK
  PROVE  IInv <=> (\A t \in Task : TaskInv(t)) /\ (\A w \in Worker : WorkerInv(w))
  <1>1. \A w \in Worker : worker[w].at = "recorded" => worker[w].task \in Task
    BY DEF TypeOK
  <1> QED
    BY <1>1 DEF IInv, OneExecution, AttemptsBounded, RunningIsHeld, SucceededReturned,
                Prefixes, TaskInv, WorkerInv, Holds

LEMMA SplitNext ==
  ASSUME TypeOK'
  PROVE  IInv' <=> (\A t \in Task : TaskInv(t)') /\ (\A w \in Worker : WorkerInv(w)')
  <1>1. \A w \in Worker : worker'[w].at = "recorded" => worker'[w].task \in Task
    BY DEF TypeOK
  <1> QED
    BY <1>1 DEF IInv, OneExecution, AttemptsBounded, RunningIsHeld, SucceededReturned,
                Prefixes, TaskInv, WorkerInv, Holds

SameHold(w, t) ==
    /\ Holds(w, t)' <=> Holds(w, t)
    /\ Holds(w, t) => /\ worker'[w].attempt = worker[w].attempt
                      /\ worker'[w].at = "recorded" => worker[w].at = "recorded"

\* A task whose row and workers a step leaves alone.
LEMMA SameTask ==
  ASSUME NEW t \in Task, TaskInv(t),
         task'[t].status = task[t].status, task'[t].attempts = task[t].attempts,
         \A w \in Worker : SameHold(w, t),
         lost \subseteq lost', forced \subseteq forced', returned \subseteq returned',
         t \in returned' => t \in returned \/ t \notin Unsupported
  PROVE  TaskInv(t)'
  BY DEF TaskInv, SameHold

LEMMA InitIInv == Init => IInv
  BY MaxAttemptsAssumption
  DEF Init, IInv, OneExecution, AttemptsBounded, RunningIsHeld, SucceededReturned, Prefixes,
      Holds, Free, Runnable

LEMMA ClaimIInv ==
  ASSUME TypeOK, IInv, TypeOK', NEW w \in Worker, NEW t \in Task, worker[w].at = "idle",
         Claimable(t), Claim(w, t), UNCHANGED <<lost, forced, returned>>
  PROVE  IInv'
  <1>1. /\ task'[t].status = "running" /\ task'[t].attempts = task[t].attempts + 1
        /\ \A u \in Task : u # t => task'[u] = task[u]
    BY DEF Claim, TypeOK
  <1>2. /\ worker'[w] = [at |-> "claimed", task |-> t, attempt |-> task[t].attempts + 1]
        /\ \A v \in Worker : v # w => worker'[v] = worker[v]
    BY DEF Claim, TypeOK
  <1>3. TaskInv(t)'
    <2>1. t \notin forced => \A v \in Worker : ~Holds(v, t)
      BY Split DEF TaskInv, Claimable
    <2>2. t \notin forced => \A v \in Worker : Holds(v, t)' <=> v = w
      BY <1>2, <2>1 DEF Holds
    <2>3. t \notin forced => task[t].attempts + 1 <= MaxAttempts[t]
      BY Split, MaxAttemptsAssumption DEF TaskInv, Claimable, TypeOK
    <2>4. t \in Unsupported /\ t \notin forced => t \notin returned
      BY Split DEF TaskInv
    <2> QED
      BY <1>1, <1>2, <2>2, <2>3, <2>4 DEF TaskInv, Runnable
  <1>4. ASSUME NEW u \in Task, u # t
        PROVE  TaskInv(u)'
    <2>1. \A v \in Worker : SameHold(v, u)
      BY <1>2, <1>4 DEF Holds, SameHold
    <2>2. TaskInv(u)
      BY Split
    <2>3. task'[u] = task[u]
      BY <1>1, <1>4
    <2> QED
      BY <2>1, <2>2, <2>3, SameTask
  <1>5. \A v \in Worker : WorkerInv(v)'
    BY <1>2, Split DEF WorkerInv
  <1> QED
    BY <1>3, <1>4, <1>5, SplitNext

LEMMA TaskStepsIInv ==
  ASSUME TypeOK, IInv, TypeOK', NEW t \in Task, Create(t) \/ FinishCreate(t) \/ RetryDue(t)
  PROVE  IInv'
  <1>1. UNCHANGED <<worker, lost, forced, returned>>
    BY DEF Create, FinishCreate, RetryDue
  <1>2. \A w \in Worker : WorkerInv(w)'
    BY <1>1, Split DEF WorkerInv
  <1>3. ASSUME NEW u \in Task
        PROVE  TaskInv(u)'
    <2>0. TaskInv(u) /\ \A w \in Worker : SameHold(w, u)
      BY <1>1, Split DEF Holds, SameHold
    <2>1. CASE task'[u].status = task[u].status /\ task'[u].attempts = task[u].attempts
      BY <1>1, <2>0, <2>1, SameTask
    <2>2. CASE task[u].status = "absent" /\ task'[u].status = "queued"
               /\ task'[u].attempts = task[u].attempts
      BY <1>1, <2>0, <2>2, MaxAttemptsAssumption DEF TaskInv, Runnable, SameHold
    <2> QED
      BY <2>1, <2>2 DEF Create, FinishCreate, RetryDue, TypeOK
  <1> QED
    BY <1>2, <1>3, SplitNext

\* A worker gives up its task: it dies, or cannot record what happened.
LEMMA LosesIInv ==
  ASSUME TypeOK, IInv, TypeOK', NEW w \in Worker, worker[w].at # "idle", Leave(w),
         lost' = lost \cup {worker[w].task}, UNCHANGED <<task, forced, returned>>
  PROVE  IInv'
  <1>1. worker'[w] = Free /\ \A v \in Worker : v # w => worker'[v] = worker[v]
    BY DEF Leave, TypeOK
  <1>2. \A v \in Worker : WorkerInv(v)'
    BY <1>1, Split DEF WorkerInv, Free
  <1>3. ASSUME NEW u \in Task
        PROVE  TaskInv(u)'
    <2>1. TaskInv(u)
      BY Split
    <2>2. \A v \in Worker : /\ Holds(v, u)' => Holds(v, u)
                            /\ v # w => (Holds(v, u)' <=> Holds(v, u))
                            /\ Holds(v, u)' => worker'[v] = worker[v]
      BY <1>1 DEF Holds, Free
    <2>3. u \notin lost' => u \notin lost /\ ~Holds(w, u)
      BY DEF Holds
    <2> QED
      BY <2>1, <2>2, <2>3 DEF TaskInv
  <1> QED
    BY <1>2, <1>3, SplitNext

\* A worker goes on to another statement.
LEMMA MovesIInv ==
  ASSUME TypeOK, IInv, TypeOK', NEW w \in Worker, worker[w].at # "idle", NEW label \in Busy \ {"recorded"},
         Goto(w, label), UNCHANGED <<task, lost, forced>>,
         returned' = returned \/
           (returned' = returned \cup {worker[w].task} /\ worker[w].task \notin Unsupported),
         label = "returned" => worker[w].task \in returned',
         label \in {"handler", "returned"} => worker[w].task \notin Unsupported
  PROVE  IInv'
  <1>1. /\ worker'[w].at = label /\ worker'[w].task = worker[w].task
        /\ worker'[w].attempt = worker[w].attempt
        /\ \A v \in Worker : v # w => worker'[v] = worker[v]
    BY BusyOK DEF Goto, TypeOK, BusyWorker
  <1>2. label # "idle"
    BY DEF Busy
  <1>3. \A v \in Worker : WorkerInv(v)'
    BY <1>1, Split DEF WorkerInv
  <1>4. ASSUME NEW u \in Task
        PROVE  TaskInv(u)'
    <2>1. TaskInv(u)
      BY Split
    <2>2. \A v \in Worker : SameHold(v, u)
      BY <1>1, <1>2 DEF Holds, SameHold
    <2> QED
      BY <2>1, <2>2, SameTask
  <1> QED
    BY <1>3, <1>4, SplitNext

LEMMA SucceedIInv ==
  ASSUME TypeOK, IInv, TypeOK', NEW w \in Worker, worker[w].at = "returned", Goto(w, "recorded"),
         task' = [task EXCEPT ![worker[w].task].status = "succeeded"],
         UNCHANGED <<lost, forced, returned>>
  PROVE  IInv'
  <1> DEFINE t == worker[w].task
  <1>1. /\ worker'[w].at = "recorded" /\ worker'[w].task = t
        /\ worker'[w].attempt = worker[w].attempt
        /\ \A v \in Worker : v # w => worker'[v] = worker[v]
    BY BusyOK DEF Goto, TypeOK, BusyWorker
  <1>2. t \in Task /\ t \in returned /\ t \notin Unsupported
    BY BusyOK, Split DEF WorkerInv
  <1>3. /\ task'[t].status = "succeeded" /\ task'[t].attempts = task[t].attempts
        /\ \A u \in Task : u # t => task'[u] = task[u]
    BY <1>2 DEF TypeOK
  <1>4. \A v \in Worker : WorkerInv(v)'
    BY <1>1, <1>2, Split DEF WorkerInv
  <1>5. ASSUME NEW u \in Task
        PROVE  TaskInv(u)'
    <2>1. TaskInv(u)
      BY Split
    <2>2. \A v \in Worker : /\ Holds(v, u)' <=> Holds(v, u)
                            /\ Holds(v, u) => worker'[v].attempt = worker[v].attempt
      BY <1>1 DEF Holds
    <2>3. CASE u # t
      <3>1. \A v \in Worker : SameHold(v, u)
        BY <1>1, <2>2, <2>3 DEF Holds, SameHold
      <3> QED
        BY <1>3, <2>1, <2>3, <3>1, SameTask
    <2>4. CASE u = t
      BY <1>2, <1>3, <2>1, <2>2, <2>4 DEF TaskInv, Runnable
    <2> QED
      BY <2>3, <2>4
  <1> QED
    BY <1>4, <1>5, SplitNext

LEMMA FailIInv ==
  ASSUME TypeOK, IInv, TypeOK', NEW w \in Worker, Fail(w)
  PROVE  IInv'
  <1>0. PICK t \in Task : t = worker[w].task
    BY BusyOK DEF Fail
  <1> DEFINE retry == t \notin Unsupported /\ worker[w].attempt < MaxAttempts[t]
  <1>1. worker[w].at # "idle" /\ Holds(w, t) /\ Leave(w) /\ UNCHANGED <<forced, returned>>
    BY <1>0 DEF Fail, Holds
  <1>2. CASE lost' = lost \cup {t} /\ UNCHANGED task
    BY <1>0, <1>1, <1>2, LosesIInv
  <1>3. CASE /\ task' = [task EXCEPT ![t].status = IF retry THEN "retrying" ELSE "failed",
                                     ![t].due = ~retry]
             /\ UNCHANGED lost
    <2>1. worker'[w] = Free /\ \A v \in Worker : v # w => worker'[v] = worker[v]
      BY <1>1 DEF Leave, TypeOK
    <2>2. /\ task'[t].status = IF retry THEN "retrying" ELSE "failed"
          /\ task'[t].attempts = task[t].attempts
          /\ \A u \in Task : u # t => task'[u] = task[u]
      BY <1>1, <1>3 DEF TypeOK
    <2>3. \A v \in Worker : WorkerInv(v)'
      BY <1>1, <2>1, Split DEF WorkerInv, Free
    <2>4. TaskInv(t)'
      <3>1. TaskInv(t)
        BY <1>1, Split
      <3>2. t \notin forced => \A v \in Worker : ~Holds(v, t)'
        BY <1>1, <2>1, <3>1 DEF TaskInv, Holds, Free
      <3>3. t \notin forced /\ retry => task[t].attempts < MaxAttempts[t]
        BY <1>1, <3>1 DEF TaskInv
      <3> HIDE DEF retry
      <3> QED
        BY <1>1, <1>3, <2>2, <3>1, <3>2, <3>3 DEF TaskInv, Runnable
    <2>5. ASSUME NEW u \in Task, u # t
          PROVE  TaskInv(u)'
      <3>1. \A v \in Worker : SameHold(v, u)
        BY <1>1, <2>1, <2>5 DEF Holds, SameHold, Free
      <3>2. TaskInv(u) /\ task'[u] = task[u]
        BY <2>2, <2>5, Split
      <3> QED
        BY <1>1, <1>3, <3>1, <3>2, SameTask
    <2> QED
      BY <2>3, <2>4, <2>5, SplitNext
  <1> QED
    BY <1>0, <1>1, <1>2, <1>3 DEF Fail

LEMMA OperatorIInv ==
  ASSUME TypeOK, IInv, TypeOK', NEW o \in Operator, WriteTransition(o)
  PROVE  IInv'
  <1> DEFINE t == operator[o].task
             status == operator[o].status
  <1>1. t \in Task /\ status \in OperatorStatus /\ status # "absent"
    BY OperatorStatusAssumption DEF WriteTransition, TypeOK
  <1>2. /\ task'[t].status = status /\ task'[t].attempts = task[t].attempts
        /\ \A u \in Task : u # t => task'[u] = task[u]
        /\ UNCHANGED <<worker, lost, returned>>
        /\ forced' = IF status = "cancelled" THEN forced ELSE forced \cup {t}
    BY <1>1 DEF WriteTransition, TypeOK
  <1> HIDE DEF t, status
  <1>3. \A w \in Worker : WorkerInv(w)'
    BY <1>2, Split DEF WorkerInv
  <1>4. ASSUME NEW u \in Task
        PROVE  TaskInv(u)'
    <2>1. TaskInv(u) /\ \A w \in Worker : SameHold(w, u)
      BY <1>2, Split DEF Holds, SameHold
    <2>2. CASE u # t
      BY <1>2, <2>1, <2>2, SameTask
    <2>3. CASE u = t /\ status = "cancelled"
      BY <1>2, <2>1, <2>3 DEF TaskInv, Runnable, SameHold
    <2>4. CASE u = t /\ status # "cancelled"
      BY <1>1, <1>2, <2>1, <2>4 DEF TaskInv, SameHold
    <2> QED
      BY <2>2, <2>3, <2>4
  <1> QED
    BY <1>3, <1>4, SplitNext

LEMMA ExecuteIInv ==
  ASSUME TypeOK, IInv, TypeOK', NEW w \in Worker, Execute(w) \/ Die(w)
  PROVE  IInv'
  <1>1. worker[w].at # "idle" /\ WorkerInv(w)
    BY Split DEF Execute, Start, Handle, Succeed, RecordSuccess, Fail, Die
  <1>2. CASE Start(w)
    <2>1. CASE Goto(w, IF worker[w].task \in Unsupported THEN "failing" ELSE "handler")
               /\ UNCHANGED lost
      BY <1>1, <1>2, <2>1, MovesIInv DEF Start, Busy
    <2>2. CASE Leave(w) /\ lost' = lost \cup {worker[w].task}
      BY <1>1, <1>2, <2>2, LosesIInv DEF Start
    <2> QED
      BY <1>2, <2>1, <2>2 DEF Start
  <1>3. CASE Handle(w)
    BY <1>1, <1>3, MovesIInv DEF Handle, Busy, WorkerInv
  <1>4. CASE Succeed(w)
    <2>1. CASE Goto(w, "recorded") /\ task' = [task EXCEPT ![worker[w].task].status = "succeeded"]
      BY <1>4, <2>1, SucceedIInv DEF Succeed
    <2>2. CASE Goto(w, "failing") /\ UNCHANGED task
      BY <1>1, <1>4, <2>2, MovesIInv DEF Succeed, Busy
    <2> QED
      BY <1>4, <2>1, <2>2 DEF Succeed
  <1>5. CASE RecordSuccess(w)
    <2>1. CASE Goto(w, "failing")
      BY <1>1, <1>5, <2>1, MovesIInv DEF RecordSuccess, Busy
    <2>2. CASE Leave(w)
      <3>1. worker'[w] = Free /\ \A v \in Worker : v # w => worker'[v] = worker[v]
        BY <2>2 DEF Leave, TypeOK
      <3>2. UNCHANGED <<task, returned, lost, forced>> /\ worker[w].at = "recorded"
        BY <1>5 DEF RecordSuccess
      <3>3. \A v \in Worker : WorkerInv(v)'
        BY <3>1, <3>2, Split DEF WorkerInv, Free
      <3>4. ASSUME NEW u \in Task
            PROVE  TaskInv(u)'
        <4>1. TaskInv(u)
          BY Split
        <4>2. \A v \in Worker : /\ Holds(v, u)' => Holds(v, u) /\ worker'[v] = worker[v]
                                /\ Holds(v, u) /\ v # w => Holds(v, u)'
          BY <3>1 DEF Holds, Free
        <4>3. Holds(w, u) /\ u \notin forced => task[u].status # "running"
          BY <3>2, <4>1 DEF TaskInv
        <4> QED
          BY <3>2, <4>1, <4>2, <4>3 DEF TaskInv
      <3> QED
        BY <3>3, <3>4, SplitNext
    <2> QED
      BY <1>5, <2>1, <2>2 DEF RecordSuccess
  <1>6. CASE Die(w)
    BY <1>1, <1>6, LosesIInv DEF Die
  <1> QED
    BY <1>2, <1>3, <1>4, <1>5, <1>6, FailIInv DEF Execute

LEMMA NextIInv == TypeOK /\ TypeOK' /\ IInv /\ [Next]_vars => IInv'
  <1> SUFFICES ASSUME TypeOK, TypeOK', IInv, [Next]_vars
               PROVE  IInv'
    OBVIOUS
  <1>1. ASSUME NEW w \in Worker, Poll(w) \/ Consume(w)
        PROVE  IInv'
    <2>1. ASSUME NEW t \in Task, worker[w].at = "idle", Claimable(t), Claim(w, t),
                 UNCHANGED <<lost, forced, returned>>
          PROVE  IInv'
      BY <2>1, ClaimIInv
    <2>2. ASSUME UNCHANGED <<task, worker, lost, forced, returned>>
          PROVE  IInv'
      BY <2>2 DEF IInv, OneExecution, AttemptsBounded, RunningIsHeld, SucceededReturned,
                  Prefixes, Holds
    <2> QED
      BY <1>1, <2>1, <2>2 DEF Poll, Consume, TypeOK
  <1>2. ASSUME UNCHANGED <<task, worker, lost, forced, returned>>
        PROVE  IInv'
    BY <1>2 DEF IInv, OneExecution, AttemptsBounded, RunningIsHeld, SucceededReturned,
                Prefixes, Holds
  <1>3. ASSUME NEW o \in Operator, NEW t \in Task, NEW status \in OperatorStatus,
               BeginTransition(o, t, status)
        PROVE  IInv'
    BY <1>2, <1>3 DEF BeginTransition
  <1>4. CASE UNCHANGED vars
    BY <1>2, <1>4 DEF vars
  <1> QED
    BY <1>1, <1>3, <1>4, TaskStepsIInv, ExecuteIInv, OperatorIInv DEF Next, Worker

LEMMA ExecutionInvariant == Spec => []IInv
  BY TypeCorrect, InitIInv, NextIInv, PTL DEF Spec

\* A task is executed by one worker at a time, unless an operator put it back.
THEOREM ExecutedByOne == Spec => []OneExecution
  BY ExecutionInvariant, PTL DEF IInv

\* No task is run more often than max_attempts allows.
THEOREM AttemptsAreBounded == Spec => []AttemptsBounded
  BY ExecutionInvariant, PTL DEF IInv

\* A running task has a worker, unless a worker lost it.
THEOREM RunningHasWorker == Spec => []RunningIsHeld
  BY ExecutionInvariant, PTL DEF IInv

\* A success has a result behind it.
THEOREM SuccessHasResult == Spec => []SucceededReturned
  BY ExecutionInvariant, PTL DEF IInv

-----------------------------------------------------------------------------
(* Settled tasks                                                           *)

SettledStep ==
    \A t \in Task : Settled(t) =>
        task'[t].status = task[t].status /\ task'[t].attempts = task[t].attempts

LEMMA NextSettled == TypeOK /\ [Next]_vars => SettledStep
  <1> SUFFICES ASSUME TypeOK, [Next]_vars, NEW t \in Task, Settled(t)
               PROVE  task'[t].status = task[t].status /\ task'[t].attempts = task[t].attempts
    BY DEF SettledStep
  <1>1. task[t].status \notin Runnable \cup {"absent"} /\ \A w \in Worker : ~Holds(w, t)
    BY DEF Settled, Terminal, Runnable
  <1>2. ASSUME NEW u \in Task, Create(u) \/ FinishCreate(u) \/ RetryDue(u)
        PROVE  task'[t].status = task[t].status /\ task'[t].attempts = task[t].attempts
    BY <1>1, <1>2 DEF Create, FinishCreate, RetryDue, TypeOK
  <1>3. ASSUME NEW w \in Worker, Poll(w) \/ Consume(w)
        PROVE  task'[t] = task[t]
    BY <1>1, <1>3 DEF Poll, Consume, Claimable, Claim, TypeOK
  <1>4. ASSUME NEW w \in Worker, Execute(w) \/ Die(w)
        PROVE  task'[t] = task[t]
    <2>1. worker[w].task # t
      BY <1>1, <1>4 DEF Holds, Execute, Start, Handle, Succeed, RecordSuccess, Fail, Die
    <2> QED
      BY <1>4, <2>1, BusyOK
      DEF Execute, Start, Handle, Succeed, RecordSuccess, Fail, Die, TypeOK
  <1>5. ASSUME NEW o \in Operator, WriteTransition(o)
        PROVE  task'[t] = task[t]
    <2>1. operator[o].task # t
      BY DEF Settled
    <2> QED
      BY <1>5, <2>1 DEF WriteTransition, TypeOK
  <1> QED
    BY <1>2, <1>3, <1>4, <1>5 DEF Next, Worker, BeginTransition, vars

\* A terminal task that no worker and no operator has in hand stays as it is.
THEOREM SettledTasksStay == Spec => SettledStays
  <1>1. TypeOK /\ [Next]_vars => [SettledStep]_vars
    BY NextSettled
  <1> QED
    BY <1>1, TypeCorrect, PTL DEF Spec, SettledStays, SettledStep


-----------------------------------------------------------------------------
(* Mail campaigns: a run and its recipients                                *)


Handling == {"skip", "mark", "send", "record", "suppress", "failure"}

\* The recipients a run has to itself.
Taken(p) ==
    IF run[p].at = "idle" THEN {}
    ELSE run[p].batch \cup (IF run[p].at \in Handling THEN {run[p].item} ELSE {})

OneEach == \A p, q \in Process : p # q => Taken(p) \cap Taken(q) = {}

Unmailed(r) ==
    /\ recipient[r].status = "sending"
    /\ accepted[r] < recipient[r].attempts
    /\ r \notin doubted => accepted[r] = 0

ItemOK(p) ==
    /\ recipient[run[p].item].status \in {"sending", "bounced"}
    /\ run[p].at \in {"skip", "mark", "send"} => Unmailed(run[p].item)
    /\ run[p].at = "record" => run[p].outcome \in {"delivered", "bounced"}
    /\ \/ run[p].at \in {"suppress", "failure"}
       \/ run[p].at = "record" /\ run[p].outcome # "delivered"
       => (run[p].item \notin doubted => accepted[run[p].item] = 0)

RunOK(p) ==
    /\ run[p].at = "idle" => run[p].batch = {}
    /\ run[p].at \in Handling => run[p].item \notin run[p].batch /\ ItemOK(p)
    /\ \A r \in run[p].batch : Unmailed(r)

RowOK(r) ==
    /\ accepted[r] <= recipient[r].attempts
    /\ recipient[r].status \in {"none", "pending"} => recipient[r].attempts = 0
    /\ recipient[r].status = "retry" => recipient[r].attempts < EmailMaxAttempts
    /\ r \notin doubted => /\ accepted[r] <= 1
                           /\ recipient[r].status = "retry" => accepted[r] = 0
    /\ r \in barred => /\ recipient[r].status \in {"none", "skipped"}
                       /\ r[2] \in suppressed
                       /\ accepted[r] = 0

MailIInv ==
    /\ MailTypeOK
    /\ OneEach
    /\ \A p \in Process : RunOK(p)
    /\ \A r \in Recipient : RowOK(r)

-----------------------------------------------------------------------------
(* The constants, and the initial state                                    *)

RunType == [at : {"idle", "read", "skip", "mark", "send", "record", "suppress", "failure",
                  "count", "refresh"},
            batch : SUBSET Recipient, item : Recipient,
            outcome : {"delivered", "bounced", "retryable", "final"}]
RequestType == [at : {"idle", "schedule", "skip", "count", "refresh", "suppress", "leave"},
                campaign : Campaign, email : Email]
RowType == [status : {"none"} \cup Outstanding \cup Ended, attempts : 0 .. EmailMaxAttempts,
            due : BOOLEAN]
CampaignType == [status : {"draft", "completed", "cancelled"} \cup Active, early : BOOLEAN]

LEMMA Nothing ==
  /\ NoRun \in RunType /\ NoRun.at = "idle" /\ NoRun.batch = {}
  /\ NoRequest \in RequestType /\ NoRequest.at = "idle"
  <1>1. PICK c \in Campaign, e \in Email : TRUE
    BY PeopleAssumption
  <1>2. <<c, e>> \in Recipient
    BY <1>1 DEF Recipient
  <1>3. (CHOOSE r \in Recipient : TRUE) \in Recipient
    BY <1>2
  <1>4. (CHOOSE x \in Campaign : TRUE) \in Campaign /\ (CHOOSE x \in Email : TRUE) \in Email
    BY <1>1
  <1> QED
    BY <1>3, <1>4 DEF NoRun, NoRequest, RunType, RequestType

LEMMA MailInitIInv == MailInit => MailIInv
  <1> SUFFICES ASSUME MailInit PROVE MailIInv
    OBVIOUS
  <1>1. run \in [Process -> RunType] /\ request \in [Request -> RequestType]
    BY Nothing DEF MailInit
  <1>2. campaign \in [Campaign -> CampaignType] /\ recipient \in [Recipient -> RowType]
    BY AttemptsAssumption DEF MailInit, CampaignType, RowType
  <1>3. MailTypeOK
    BY <1>1, <1>2, BoundAssumption
    DEF MailInit, MailTypeOK, RunType, RequestType, RowType, CampaignType
  <1>4. \A p \in Process : run[p].at = "idle" /\ run[p].batch = {}
    BY Nothing DEF MailInit
  <1>5. \A p \in Process : Taken(p) = {}
    BY <1>4 DEF Taken
  <1>6. OneEach
    BY <1>5 DEF OneEach
  <1>7. \A p \in Process : RunOK(p)
    BY <1>4, <1>5 DEF RunOK, Handling
  <1>8. \A r \in Recipient : RowOK(r)
    BY AttemptsAssumption DEF MailInit, RowOK
  <1> QED
    BY <1>3, <1>6, <1>7, <1>8 DEF MailIInv

-----------------------------------------------------------------------------
(* Steps that leave runs and rows alone                                    *)

\* Requests that only touch campaigns, contacts and themselves, and time.
LEMMA QuietKeeps ==
  ASSUME MailIInv, MailTypeOK',
         UNCHANGED <<recipient, suppressed, barred, run, accepted, doubted>>
  PROVE  MailIInv'
  <1>1. \A p \in Process : Taken(p)' = Taken(p)
    BY DEF Taken
  <1>2. OneEach'
    BY <1>1 DEF MailIInv, OneEach
  <1>3. \A p \in Process : RunOK(p)'
    BY <1>1 DEF MailIInv, RunOK, ItemOK, Unmailed
  <1>4. \A r \in Recipient : RowOK(r)'
    BY DEF MailIInv, RowOK
  <1> QED
    BY <1>2, <1>3, <1>4 DEF MailIInv

LEMMA Types ==
  ASSUME MailTypeOK
  PROVE  /\ campaign \in [Campaign -> CampaignType] /\ recipient \in [Recipient -> RowType]
         /\ contact \in [Email -> {"none", "subscribed", "unsubscribed", "bounced", "suppressed"}]
         /\ run \in [Process -> RunType] /\ request \in [Request -> RequestType]
         /\ accepted \in [Recipient -> Nat]
         /\ suppressed \subseteq Email /\ barred \subseteq Recipient
         /\ doubted \subseteq Recipient /\ stranded \subseteq Recipient /\ hasty \subseteq Campaign
         /\ requests \in 0 .. MaxRequests /\ faults \in 0 .. MaxFaults
  BY DEF MailTypeOK, CampaignType, RowType, RunType, RequestType

LEMMA Typing ==
  ASSUME campaign' \in [Campaign -> CampaignType], recipient' \in [Recipient -> RowType],
         contact' \in [Email -> {"none", "subscribed", "unsubscribed", "bounced", "suppressed"}],
         run' \in [Process -> RunType], request' \in [Request -> RequestType],
         accepted' \in [Recipient -> Nat],
         suppressed' \subseteq Email, barred' \subseteq Recipient,
         doubted' \subseteq Recipient, stranded' \subseteq Recipient, hasty' \subseteq Campaign,
         requests' \in 0 .. MaxRequests, faults' \in 0 .. MaxFaults
  PROVE  MailTypeOK'
  BY DEF MailTypeOK, CampaignType, RowType, RunType, RequestType

-----------------------------------------------------------------------------
(* Requests                                                                *)

LEMMA BeginsTyped ==
  ASSUME MailTypeOK, NEW a, Begins(a)
  PROVE  requests' \in 0 .. MaxRequests
  BY BoundAssumption DEF MailTypeOK, Begins

LEMMA DoneTyped ==
  ASSUME MailTypeOK, NEW a \in Request, Done(a)
  PROVE  request' \in [Request -> RequestType]
  BY Types, Nothing DEF Done

LEMMA LabelTyped ==
  ASSUME MailTypeOK, NEW a \in Request,
         NEW label \in {"idle", "schedule", "skip", "count", "refresh", "suppress", "leave"},
         NEW c \in Campaign, NEW e \in Email
  PROVE  /\ [request EXCEPT ![a].at = label] \in [Request -> RequestType]
         /\ [request EXCEPT ![a] = [NoRequest EXCEPT !.at = label, !.campaign = c]]
              \in [Request -> RequestType]
         /\ [request EXCEPT ![a] = [NoRequest EXCEPT !.at = label, !.email = e]]
              \in [Request -> RequestType]
  <1>1. \A x \in RequestType :
          /\ [x EXCEPT !.at = label] \in RequestType
          /\ [x EXCEPT !.at = label, !.campaign = c] \in RequestType
          /\ [x EXCEPT !.at = label, !.email = e] \in RequestType
    BY DEF RequestType
  <1> QED
    BY <1>1, Types, Nothing

LEMMA StatusTyped ==
  ASSUME MailTypeOK, NEW c \in Campaign, NEW status \in {"draft", "completed", "cancelled"} \cup Active
  PROVE  /\ [campaign EXCEPT ![c].status = status] \in [Campaign -> CampaignType]
         /\ \A early \in BOOLEAN : [campaign EXCEPT ![c] = [status |-> status, early |-> early]]
                                   \in [Campaign -> CampaignType]
         /\ [campaign EXCEPT ![c].early = FALSE] \in [Campaign -> CampaignType]
  <1>1. \A x \in CampaignType : [x EXCEPT !.status = status] \in CampaignType
                               /\ [x EXCEPT !.early = FALSE] \in CampaignType
    BY DEF CampaignType
  <1>2. \A early \in BOOLEAN : [status |-> status, early |-> early] \in CampaignType
    BY DEF CampaignType
  <1> QED
    BY <1>1, <1>2, Types

LEMMA CompleteTyped ==
  ASSUME MailTypeOK, NEW c \in Campaign, Complete(c)
  PROVE  campaign' \in [Campaign -> CampaignType] /\ hasty' \subseteq Campaign
  BY StatusTyped, Types DEF Complete

LEMMA RowEdit ==
  ASSUME NEW x \in RowType, NEW s \in {"none"} \cup Outstanding \cup Ended
  PROVE  /\ [x EXCEPT !.status = s] \in RowType
         /\ [x EXCEPT !.status = s].status = s
         /\ [x EXCEPT !.status = s].attempts = x.attempts
  BY DEF RowType

\* A request lists recipients, or skips them, that no run has.
Lists(F) ==
    /\ F \subseteq Recipient
    /\ \A r \in F : recipient[r].status \in {"none", "pending"}
    /\ \A r \in Recipient : r \notin F => recipient'[r] = recipient[r]
    /\ \A r \in F : /\ recipient'[r].attempts = recipient[r].attempts
                    /\ recipient'[r].status \in {"pending", "skipped"}
                    /\ recipient'[r].status = "pending" => r[2] \notin suppressed

LEMMA ListKeeps ==
  ASSUME MailIInv, MailTypeOK', NEW F, Lists(F),
         UNCHANGED <<suppressed, barred, run, accepted, doubted>>
  PROVE  MailIInv'
  <1>1. \A p \in Process : Taken(p)' = Taken(p)
    BY DEF Taken
  <1>2. OneEach'
    BY <1>1 DEF MailIInv, OneEach
  <1>3. ASSUME NEW p \in Process PROVE RunOK(p)'
    <2>1. run[p].batch \subseteq Recipient /\ run[p].item \in Recipient
      BY Types DEF MailIInv, RunType
    <2>2. RunOK(p)
      BY DEF MailIInv
    <2>3. \A r \in run[p].batch : Unmailed(r)'
      BY <2>1, <2>2 DEF RunOK, Unmailed, Lists
    <2>4. CASE run[p].at \in Handling
      <3>1. recipient'[run[p].item] = recipient[run[p].item]
        BY <2>1, <2>2, <2>4 DEF RunOK, ItemOK, Lists
      <3> QED
        BY <2>2, <2>3, <2>4, <3>1 DEF RunOK, ItemOK, Unmailed
    <2>5. CASE run[p].at \notin Handling
      BY <2>2, <2>3, <2>5 DEF RunOK
    <2> QED
      BY <2>4, <2>5
  <1>4. ASSUME NEW r \in Recipient PROVE RowOK(r)'
    <2>1. RowOK(r) /\ accepted[r] \in Nat
      BY Types DEF MailIInv
    <2>2. CASE r \in F
      <3>1. recipient[r].attempts = 0 /\ accepted[r] = 0
        BY <2>1, <2>2 DEF RowOK, Lists
      <3>2. /\ recipient'[r].attempts = 0
            /\ recipient'[r].status \in {"pending", "skipped"}
            /\ recipient'[r].status = "pending" => r[2] \notin suppressed
        BY <2>2, <3>1 DEF Lists
      <3>3. accepted'[r] = 0
        BY <3>1
      <3>4. r \in barred' => /\ recipient'[r].status = "skipped"
                            /\ r[2] \in suppressed'
        BY <2>1, <3>2 DEF RowOK
      <3> QED
        BY <3>2, <3>3, <3>4 DEF RowOK
    <2>3. CASE r \notin F
      BY <2>1, <2>3 DEF RowOK, Lists
    <2> QED
      BY <2>2, <2>3
  <1> QED
    BY <1>2, <1>3, <1>4 DEF MailIInv

LEMMA ScheduleKeeps ==
  ASSUME MailIInv, NEW a \in Request, NEW c \in Campaign, Schedule(a, c)
  PROVE  MailIInv'
  <1>0. MailTypeOK
    BY DEF MailIInv
  <1> DEFINE F == {r \in Recipient : /\ r[1] = c /\ recipient[r].status = "none"
                                    /\ contact[r[2]] = "subscribed"}
  <1>1. \A r \in Recipient : recipient'[r] =
          IF r \in F
          THEN [recipient[r] EXCEPT !.status = IF r[2] \in suppressed THEN "skipped" ELSE "pending"]
          ELSE recipient[r]
    BY DEF Schedule
  <1>2. ASSUME NEW r \in F
        PROVE  /\ recipient'[r] \in RowType
               /\ recipient'[r].attempts = recipient[r].attempts
               /\ recipient'[r].status \in {"pending", "skipped"}
               /\ recipient'[r].status = "pending" => r[2] \notin suppressed
    <2> DEFINE s == IF r[2] \in suppressed THEN "skipped" ELSE "pending"
    <2>1. r \in Recipient /\ recipient[r] \in RowType
      BY <1>0, Types
    <2>2. s \in {"pending", "skipped"} /\ (s = "pending" => r[2] \notin suppressed)
      OBVIOUS
    <2>3. recipient'[r] = [recipient[r] EXCEPT !.status = s]
      BY <1>1, <2>1
    <2> HIDE DEF s
    <2> QED
      BY <2>1, <2>2, <2>3, RowEdit DEF Outstanding, Ended
  <1>3. recipient' \in [Recipient -> RowType]
    BY <1>0, <1>1, <1>2, Types DEF Schedule
  <1>4. MailTypeOK'
    BY <1>0, <1>3, Types, Typing, BeginsTyped, LabelTyped, PeopleAssumption
    DEF Schedule, people, history
  <1>5. Lists(F)
    BY <1>1, <1>2 DEF Lists
  <1>6. UNCHANGED <<suppressed, barred, run, accepted, doubted>>
    BY DEF Schedule, people, history
  <1> HIDE DEF F
  <1> QED
    BY <1>4, <1>5, <1>6, ListKeeps

LEMMA SkipPendingKeeps ==
  ASSUME MailIInv, NEW a \in Request, SkipPending(a)
  PROVE  MailIInv'
  <1>0. MailTypeOK
    BY DEF MailIInv
  <1> DEFINE F == {r \in Recipient : r[1] = request[a].campaign /\ recipient[r].status = "pending"}
  <1>1. \A r \in Recipient : recipient'[r] =
          IF r \in F THEN [recipient[r] EXCEPT !.status = "skipped"] ELSE recipient[r]
    BY DEF SkipPending
  <1>2. ASSUME NEW r \in F
        PROVE  /\ recipient'[r] \in RowType
               /\ recipient'[r].attempts = recipient[r].attempts
               /\ recipient'[r].status \in {"pending", "skipped"}
               /\ recipient'[r].status = "pending" => r[2] \notin suppressed
    <2>1. r \in Recipient /\ recipient[r] \in RowType
      BY <1>0, Types
    <2>2. recipient'[r] = [recipient[r] EXCEPT !.status = "skipped"]
      BY <1>1, <2>1
    <2>3. recipient'[r] \in RowType /\ recipient'[r].attempts = recipient[r].attempts
      BY <2>1, <2>2, RowEdit DEF Ended
    <2>4. recipient'[r].status = "skipped"
      BY <2>1, <2>2, RowEdit DEF Ended
    <2> QED
      BY <2>3, <2>4
  <1>3. recipient' \in [Recipient -> RowType]
    BY <1>0, <1>1, <1>2, Types DEF SkipPending
  <1>4. MailTypeOK'
    BY <1>0, <1>3, Types, Typing, LabelTyped, PeopleAssumption
    DEF SkipPending, Continues, people, history
  <1>5. Lists(F)
    BY <1>1, <1>2 DEF Lists
  <1>6. UNCHANGED <<suppressed, barred, run, accepted, doubted>>
    BY DEF SkipPending, people, history
  <1> HIDE DEF F
  <1> QED
    BY <1>4, <1>5, <1>6, ListKeeps

\* Who joins the list of the barred has not been mailed.
LEMMA SuppressKeeps ==
  ASSUME MailIInv, MailTypeOK', NEW e \in Email, Suppress(e),
         UNCHANGED <<recipient, accepted, doubted>>, OneEach', \A p \in Process : RunOK(p)'
  PROVE  MailIInv'
  <1>1. ASSUME NEW r \in Recipient PROVE RowOK(r)'
    <2>1. RowOK(r) /\ accepted[r] \in Nat /\ recipient[r] \in RowType
      BY Types DEF MailIInv
    <2>2. CASE r \in barred' /\ r \notin barred
      <3>1. r \in Campaign \X {e} /\ recipient[r].status = "none"
        BY <2>2 DEF Suppress
      <3>2. r[2] \in suppressed'
        BY <3>1 DEF Suppress
      <3>3. recipient[r].attempts = 0 /\ accepted[r] = 0
        BY <2>1, <3>1 DEF RowOK
      <3> QED
        BY <2>1, <3>1, <3>2, <3>3 DEF RowOK
    <2>3. CASE r \notin barred' \/ r \in barred
      BY <2>1, <2>3 DEF RowOK, Suppress
    <2> QED
      BY <2>2, <2>3
  <1> QED
    BY <1>1 DEF MailIInv

LEMMA SuppressTyped ==
  ASSUME MailTypeOK, NEW e \in Email, Suppress(e)
  PROVE  suppressed' \subseteq Email /\ barred' \subseteq Recipient
  BY Types DEF Suppress, Recipient

LEMMA RunsStay ==
  ASSUME MailIInv, UNCHANGED <<recipient, run, accepted, doubted>>
  PROVE  OneEach' /\ \A p \in Process : RunOK(p)'
  <1>1. \A p \in Process : Taken(p)' = Taken(p)
    BY DEF Taken
  <1> QED
    BY <1>1 DEF MailIInv, OneEach, RunOK, ItemOK, Unmailed

LEMMA SuppressingKeeps ==
  ASSUME MailIInv, NEW a \in Request, NEW e \in Email, SuppressContact(a) \/ Unsubscribe(a, e)
  PROVE  MailIInv'
  <1>0. MailTypeOK
    BY DEF MailIInv
  <1>1. CASE SuppressContact(a)
    <2>1. request[a].email \in Email /\ Suppress(request[a].email)
      BY <1>0, <1>1, Types DEF SuppressContact, RequestType
    <2>2. MailTypeOK'
      BY <1>0, <1>1, <2>1, Types, Typing, SuppressTyped, DoneTyped
      DEF SuppressContact, Continues, rows, history
    <2> QED
      BY <1>1, <2>1, <2>2, RunsStay, SuppressKeeps DEF SuppressContact, rows, history
  <1>2. CASE Unsubscribe(a, e)
    <2>1. MailTypeOK'
      BY <1>0, <1>2, Types, Typing, SuppressTyped, BeginsTyped, LabelTyped, PeopleAssumption
      DEF Unsubscribe, rows, history
    <2> QED
      BY <1>2, <2>1, RunsStay, SuppressKeeps DEF Unsubscribe, rows, history
  <1> QED
    BY <1>1, <1>2

LEMMA OtherRequestsKeep ==
  ASSUME MailIInv, NEW a \in Request,
         \/ SetScheduled(a) \/ CountCancelled(a) \/ RefreshCancelled(a) \/ LeaveList(a)
         \/ RequestFails(a)
         \/ \E c \in Campaign : Cancel(a, c)
         \/ \E e \in Email :
              \/ Import(a, e)
              \/ \E status \in {"subscribed", "unsubscribed", "bounced", "suppressed"} :
                   UpdateContact(a, e, status)
  PROVE  MailIInv'
  <1>0. MailTypeOK /\ request[a].campaign \in Campaign /\ request[a].email \in Email
    BY Types DEF MailIInv, RequestType
  <1>1. CASE SetScheduled(a)
    <2>1. campaign' \in [Campaign -> CampaignType]
      <3>1. PICK early \in BOOLEAN :
              campaign' = [campaign EXCEPT ![request[a].campaign] =
                             [status |-> "scheduled", early |-> early]]
        BY <1>1 DEF SetScheduled
      <3>2. "scheduled" \in {"draft", "completed", "cancelled"} \cup Active
        BY DEF Active
      <3>3. \A e \in BOOLEAN :
              [campaign EXCEPT ![request[a].campaign] = [status |-> "scheduled", early |-> e]]
                \in [Campaign -> CampaignType]
        BY <1>0, <3>2, StatusTyped
      <3> QED
        BY <3>1, <3>3
    <2>2. MailTypeOK'
      BY <1>0, <1>1, <2>1, Types, Typing, DoneTyped
      DEF SetScheduled, Continues, people, history
    <2> QED
      BY <1>1, <2>2, QuietKeeps DEF SetScheduled, people, history
  <1>2. CASE CountCancelled(a)
    <2>1. request' \in [Request -> RequestType]
      <3>1. CASE Open(request[a].campaign)
        BY <1>0, <1>2, <3>1, DoneTyped DEF CountCancelled
      <3>2. CASE ~Open(request[a].campaign)
        <4>1. request' = [request EXCEPT ![a].at = "refresh"]
          BY <1>2, <3>2 DEF CountCancelled
        <4> QED
          BY <1>0, <4>1, LabelTyped
      <3> QED
        BY <3>1, <3>2
    <2>2. MailTypeOK'
      BY <1>0, <1>2, <2>1, Types, Typing DEF CountCancelled, Continues, rows, people, history
    <2> QED
      BY <1>2, <2>2, QuietKeeps DEF CountCancelled, rows, people, history
  <1>3. CASE RefreshCancelled(a)
    <2>1. MailTypeOK'
      BY <1>0, <1>3, Types, Typing, DoneTyped, CompleteTyped
      DEF RefreshCancelled, Continues, people
    <2> QED
      BY <1>3, <2>1, QuietKeeps DEF RefreshCancelled, people
  <1>4. CASE LeaveList(a)
    <2>1. contact' \in [Email -> {"none", "subscribed", "unsubscribed", "bounced", "suppressed"}]
      BY <1>0, <1>4, Types DEF LeaveList
    <2>2. MailTypeOK'
      BY <1>0, <1>4, <2>1, Types, Typing, DoneTyped DEF LeaveList, Continues, rows, history
    <2> QED
      BY <1>4, <2>2, QuietKeeps DEF LeaveList, rows, history
  <1>5. CASE RequestFails(a)
    <2>1. faults' \in 0 .. MaxFaults
      BY <1>0, <1>5, Types, BoundAssumption DEF RequestFails, Fault
    <2>2. MailTypeOK'
      BY <1>0, <1>5, <2>1, Types, Typing, DoneTyped DEF RequestFails, rows, people, history
    <2> QED
      BY <1>5, <2>2, QuietKeeps DEF RequestFails, rows, people, history
  <1>6. ASSUME NEW c \in Campaign, Cancel(a, c) PROVE MailIInv'
    <2>1. campaign' \in [Campaign -> CampaignType]
      BY <1>0, <1>6, StatusTyped, Types DEF Cancel
    <2>2. MailTypeOK'
      BY <1>0, <1>6, <2>1, Types, Typing, BeginsTyped, LabelTyped, PeopleAssumption
      DEF Cancel, people, history
    <2> QED
      BY <1>6, <2>2, QuietKeeps DEF Cancel, people, history
  <1>7. ASSUME NEW e \in Email, Import(a, e) PROVE MailIInv'
    <2>1. contact' \in [Email -> {"none", "subscribed", "unsubscribed", "bounced", "suppressed"}]
      BY <1>0, <1>7, Types DEF Import
    <2>2. MailTypeOK'
      BY <1>0, <1>7, <2>1, Types, Typing, BeginsTyped DEF Import, rows, history
    <2> QED
      BY <1>7, <2>2, QuietKeeps DEF Import, rows, history
  <1>8. ASSUME NEW e \in Email,
               NEW status \in {"subscribed", "unsubscribed", "bounced", "suppressed"},
               UpdateContact(a, e, status)
        PROVE  MailIInv'
    <2>1. contact' \in [Email -> {"none", "subscribed", "unsubscribed", "bounced", "suppressed"}]
      BY <1>0, <1>8, Types DEF UpdateContact
    <2>2. request' \in [Request -> RequestType]
      BY <1>0, <1>8, Types, LabelTyped, PeopleAssumption DEF UpdateContact
    <2>3. MailTypeOK'
      BY <1>0, <1>8, <2>1, <2>2, Types, Typing, BeginsTyped DEF UpdateContact, rows, history
    <2> QED
      BY <1>8, <2>3, QuietKeeps DEF UpdateContact, rows, history
  <1> QED
    BY <1>1, <1>2, <1>3, <1>4, <1>5, <1>6, <1>7, <1>8

-----------------------------------------------------------------------------
(* The clock                                                               *)

LEMMA ClockKeeps ==
  ASSUME MailIInv, (\E c \in Campaign : Arrive(c)) \/ (\E r \in Recipient : RetryComes(r))
  PROVE  MailIInv'
  <1>0. MailTypeOK
    BY DEF MailIInv
  <1>1. ASSUME NEW c \in Campaign, Arrive(c) PROVE MailIInv'
    <2>1. campaign' \in [Campaign -> CampaignType]
      BY <1>0, <1>1, StatusTyped DEF Arrive, Active
    <2>2. MailTypeOK'
      BY <1>0, <1>1, <2>1, Types, Typing DEF Arrive, people, history
    <2> QED
      BY <1>1, <2>2, QuietKeeps DEF Arrive, people, history
  <1>2. ASSUME NEW r \in Recipient, RetryComes(r) PROVE MailIInv'
    <2>1. \A x \in RowType : /\ [x EXCEPT !.due = TRUE] \in RowType
                            /\ [x EXCEPT !.due = TRUE].status = x.status
                            /\ [x EXCEPT !.due = TRUE].attempts = x.attempts
      BY DEF RowType
    <2>2. recipient' \in [Recipient -> RowType]
      BY <1>0, <1>2, <2>1, Types DEF RetryComes
    <2>3. \A x \in Recipient : /\ recipient'[x].status = recipient[x].status
                              /\ recipient'[x].attempts = recipient[x].attempts
      BY <1>0, <1>2, <2>1, Types DEF RetryComes
    <2>4. UNCHANGED <<suppressed, barred, run, accepted, doubted>>
      BY <1>2 DEF RetryComes, people, history
    <2>5. MailTypeOK'
      BY <1>0, <1>2, <2>2, Types, Typing DEF RetryComes, people, history
    <2>6. OneEach'
      BY <2>4 DEF MailIInv, OneEach, Taken
    <2>7. \A p \in Process : run[p].batch \subseteq Recipient /\ run[p].item \in Recipient
      BY <1>0, Types DEF RunType
    <2>8. \A p \in Process : RunOK(p)'
      BY <2>3, <2>4, <2>7 DEF MailIInv, RunOK, ItemOK, Unmailed
    <2>9. \A x \in Recipient : RowOK(x)'
      BY <2>3, <2>4 DEF MailIInv, RowOK
    <2> QED
      BY <2>5, <2>6, <2>8, <2>9 DEF MailIInv
  <1> QED
    BY <1>1, <1>2

-----------------------------------------------------------------------------
(* Steps of a run                                                          *)

\* Other runs, and the recipients that are not this one's.
Others(p) ==
    /\ \A q \in Process : q # p => run'[q] = run[q]
    /\ \A r \in Recipient : r \notin Taken(p) =>
         /\ recipient'[r] = recipient[r] /\ accepted'[r] = accepted[r]
         /\ r \in doubted' <=> r \in doubted

LEMMA RunsKeep ==
  ASSUME MailIInv, NEW p \in Process, Others(p), Taken(p)' \subseteq Taken(p), RunOK(p)'
  PROVE  OneEach' /\ \A q \in Process : RunOK(q)'
  <1>1. \A q \in Process : run[q].batch \subseteq Recipient /\ run[q].item \in Recipient
    BY Types DEF MailIInv, RunType
  <1>2. \A q \in Process : q # p => Taken(q)' = Taken(q)
    BY DEF Others, Taken
  <1>3. OneEach'
    BY <1>2 DEF MailIInv, OneEach
  <1>4. ASSUME NEW q \in Process, q # p PROVE RunOK(q)'
    <2>1. RunOK(q) /\ run'[q] = run[q] /\ Taken(q) \cap Taken(p) = {}
      BY <1>4 DEF MailIInv, Others, OneEach
    <2>2. \A r \in run[q].batch : r \notin Taken(p)
      <3>1. CASE run[q].at = "idle"
        BY <2>1, <3>1 DEF RunOK
      <3>2. CASE run[q].at # "idle"
        BY <2>1, <3>2 DEF Taken
      <3> QED
        BY <3>1, <3>2
    <2>3. \A r \in run[q].batch : Unmailed(r)'
      BY <1>1, <2>1, <2>2 DEF RunOK, Unmailed, Others
    <2>4. CASE run[q].at \in Handling
      <3>1. run[q].item \notin Taken(p)
        BY <2>1, <2>4 DEF Taken, Handling
      <3>2. /\ recipient'[run[q].item] = recipient[run[q].item]
            /\ accepted'[run[q].item] = accepted[run[q].item]
            /\ run[q].item \in doubted' <=> run[q].item \in doubted
        BY <1>1, <3>1 DEF Others
      <3> QED
        BY <2>1, <2>3, <2>4, <3>2 DEF RunOK, ItemOK, Unmailed
    <2>5. CASE run[q].at \notin Handling
      BY <2>1, <2>3, <2>5 DEF RunOK
    <2> QED
      BY <2>4, <2>5
  <1> QED
    BY <1>3, <1>4

LEMMA OwnKeeps ==
  ASSUME MailIInv, MailTypeOK', NEW p \in Process, Others(p), Taken(p)' \subseteq Taken(p), RunOK(p)',
         \A r \in Taken(p) : RowOK(r)', UNCHANGED <<suppressed, barred>>
  PROVE  MailIInv'
  <1>1. ASSUME NEW r \in Recipient, r \notin Taken(p) PROVE RowOK(r)'
    BY <1>1 DEF MailIInv, RowOK, Others
  <1> QED
    BY <1>1, RunsKeep DEF MailIInv

LEMMA GotoTyped ==
  ASSUME MailTypeOK, NEW p \in Process, NEW label \in
           {"idle", "read", "skip", "mark", "send", "record", "suppress", "failure", "count", "refresh"},
         MailGoto(p, label)
  PROVE  /\ run' \in [Process -> RunType]
         /\ run'[p].at = label /\ run'[p].batch = run[p].batch
         /\ run'[p].item = run[p].item /\ run'[p].outcome = run[p].outcome
         /\ \A q \in Process : q # p => run'[q] = run[q]
  <1>1. \A x \in RunType : /\ [x EXCEPT !.at = label] \in RunType
                          /\ [x EXCEPT !.at = label].at = label
                          /\ [x EXCEPT !.at = label].batch = x.batch
                          /\ [x EXCEPT !.at = label].item = x.item
                          /\ [x EXCEPT !.at = label].outcome = x.outcome
    BY DEF RunType
  <1> QED
    BY <1>1, Types DEF MailGoto

LEMMA OutcomeTyped ==
  ASSUME MailTypeOK, NEW p \in Process, NEW label \in {"record", "failure"},
         NEW why \in {"delivered", "bounced", "retryable", "final"},
         run' = [run EXCEPT ![p].at = label, ![p].outcome = why]
  PROVE  /\ run' \in [Process -> RunType]
         /\ run'[p].at = label /\ run'[p].batch = run[p].batch
         /\ run'[p].item = run[p].item /\ run'[p].outcome = why
         /\ \A q \in Process : q # p => run'[q] = run[q]
  <1>1. \A x \in RunType : /\ [x EXCEPT !.at = label, !.outcome = why] \in RunType
                          /\ [x EXCEPT !.at = label, !.outcome = why].at = label
                          /\ [x EXCEPT !.at = label, !.outcome = why].batch = x.batch
                          /\ [x EXCEPT !.at = label, !.outcome = why].item = x.item
                          /\ [x EXCEPT !.at = label, !.outcome = why].outcome = why
    BY DEF RunType
  <1>2. run[p] \in RunType /\ run \in [Process -> RunType]
    BY Types
  <1>3. run'[p] = [run[p] EXCEPT !.at = label, !.outcome = why]
    BY <1>2
  <1>4. \A q \in Process : q # p => run'[q] = run[q]
    BY <1>2
  <1>5. run' \in [Process -> RunType]
    BY <1>1, <1>2, <1>3, <1>4
  <1> QED
    BY <1>1, <1>2, <1>3, <1>4, <1>5

LEMMA NextItemTyped ==
  ASSUME MailTypeOK, NEW p \in Process, NextItem(p)
  PROVE  /\ run' \in [Process -> RunType]
         /\ run'[p].at \in {"idle", "read"} /\ run'[p].batch = run[p].batch
         /\ run'[p].at = "idle" => run'[p].batch = {}
         /\ \A q \in Process : q # p => run'[q] = run[q]
  <1>0. run[p] \in RunType
    BY Types
  <1>1. CASE run[p].batch = {}
    <2>1. run' = [run EXCEPT ![p] = NoRun]
      BY <1>1, Types DEF NextItem
    <2> QED
      BY <1>1, <2>1, Types, Nothing
  <1>2. CASE run[p].batch # {}
    <2>1. run' = [run EXCEPT ![p] = [run[p] EXCEPT !.at = "read"]]
      BY <1>2, Types DEF NextItem
    <2>2. /\ [run[p] EXCEPT !.at = "read"] \in RunType
          /\ [run[p] EXCEPT !.at = "read"].at = "read"
          /\ [run[p] EXCEPT !.at = "read"].batch = run[p].batch
      BY <1>0 DEF RunType
    <2> QED
      BY <2>1, <2>2, Types
  <1> QED
    BY <1>1, <1>2

\* A statement about the recipient in hand changes nothing of the others.
InHand(p) ==
    /\ \A q \in Process : q # p => run'[q] = run[q]
    /\ run'[p].batch = run[p].batch
    /\ run'[p].at = "idle" => run'[p].batch = {}
    /\ \A r \in Recipient : r # run[p].item =>
         /\ recipient'[r] = recipient[r] /\ accepted'[r] = accepted[r]
         /\ r \in doubted' <=> r \in doubted

LEMMA InHandRuns ==
  ASSUME MailIInv, NEW p \in Process, run[p].at \in Handling, InHand(p),
         run'[p].at \in Handling => run'[p].item = run[p].item /\ ItemOK(p)'
  PROVE  /\ Others(p) /\ Taken(p)' \subseteq Taken(p) /\ RunOK(p)'
         /\ Taken(p) = run[p].batch \cup {run[p].item}
  <1>1. run[p].batch \subseteq Recipient /\ run[p].item \in Recipient
    BY Types DEF MailIInv, RunType
  <1>2. Taken(p) = run[p].batch \cup {run[p].item}
    BY DEF Taken, Handling
  <1>3. Others(p)
    BY <1>2 DEF Others, InHand
  <1>4. Taken(p)' \subseteq Taken(p)
    BY <1>2 DEF Taken, InHand
  <1>5. RunOK(p) /\ run[p].item \notin run[p].batch
    BY DEF MailIInv, RunOK
  <1>6. \A r \in run[p].batch : Unmailed(r)'
    BY <1>1, <1>5 DEF RunOK, Unmailed, InHand
  <1>7. RunOK(p)'
    BY <1>5, <1>6 DEF RunOK, InHand
  <1> QED
    BY <1>2, <1>3, <1>4, <1>7

LEMMA InHandKeeps ==
  ASSUME MailIInv, MailTypeOK', NEW p \in Process, run[p].at \in Handling, InHand(p),
         run'[p].at \in Handling => run'[p].item = run[p].item /\ ItemOK(p)',
         \A r \in Recipient : r = run[p].item => RowOK(r)', UNCHANGED <<suppressed, barred>>
  PROVE  MailIInv'
  <1>1. run[p].batch \subseteq Recipient /\ run[p].item \in Recipient
    BY Types DEF MailIInv, RunType
  <1>2. /\ Others(p) /\ Taken(p)' \subseteq Taken(p) /\ RunOK(p)'
        /\ Taken(p) = run[p].batch \cup {run[p].item}
    BY InHandRuns
  <1>3. ASSUME NEW r \in run[p].batch PROVE RowOK(r)'
    <2>1. r # run[p].item /\ RowOK(r)
      BY <1>1 DEF MailIInv, RunOK
    <2> QED
      BY <1>1, <2>1 DEF RowOK, InHand
  <1>4. \A r \in Taken(p) : RowOK(r)'
    BY <1>1, <1>2, <1>3
  <1> QED
    BY <1>2, <1>4, OwnKeeps

LEMMA Hand ==
  ASSUME MailIInv, NEW p \in Process, run[p].at \in Handling
  PROVE  /\ run[p].item \in Recipient /\ run[p].batch \subseteq Recipient
         /\ run[p].item \notin run[p].batch
         /\ ItemOK(p) /\ RowOK(run[p].item)
         /\ recipient[run[p].item] \in RowType /\ accepted[run[p].item] \in Nat
         /\ run[p].item \notin barred
  <1>1. run[p].item \in Recipient /\ run[p].batch \subseteq Recipient
    BY Types DEF MailIInv, RunType
  <1>2. RunOK(p) /\ RowOK(run[p].item)
    BY <1>1 DEF MailIInv
  <1>3. recipient[run[p].item].status \in {"sending", "bounced"}
    BY <1>2 DEF RunOK, ItemOK
  <1>4. run[p].item \notin barred
    BY <1>2, <1>3 DEF RowOK
  <1> QED
    BY <1>1, <1>2, <1>4, Types DEF MailIInv, RunOK

\* A row gets a new status.
LEMMA SetStatus ==
  ASSUME MailTypeOK, NEW x \in Recipient, NEW s \in {"none"} \cup Outstanding \cup Ended,
         recipient' = [recipient EXCEPT ![x].status = s]
  PROVE  /\ recipient' \in [Recipient -> RowType]
         /\ recipient'[x].status = s /\ recipient'[x].attempts = recipient[x].attempts
         /\ \A r \in Recipient : r # x => recipient'[r] = recipient[r]
  BY RowEdit, Types

LEMMA ReadStatusKeeps ==
  ASSUME MailIInv, NEW p \in Process, ReadStatus(p)
  PROVE  MailIInv'
  <1>0. MailTypeOK /\ RunOK(p) /\ run[p] \in RunType
    BY Types DEF MailIInv
  <1>1. PICK r \in run[p].batch :
          run' = [run EXCEPT ![p].item = r, ![p].batch = @ \ {r},
                       ![p].at = IF campaign[r[1]].status \in Active THEN "mark" ELSE "skip"]
    BY DEF ReadStatus
  <1> DEFINE w == [at |-> IF campaign[r[1]].status \in Active THEN "mark" ELSE "skip",
                   batch |-> run[p].batch \ {r}, item |-> r, outcome |-> run[p].outcome]
  <1>2. r \in Recipient
    BY <1>0, <1>1 DEF RunType
  <1>3. w \in RunType
    BY <1>0, <1>2 DEF RunType
  <1>4. run'[p] = w /\ \A q \in Process : q # p => run'[q] = run[q]
    BY <1>0, <1>1, Types DEF RunType
  <1>5. run' \in [Process -> RunType]
    BY <1>0, <1>1, <1>3, <1>4, Types
  <1>6. MailTypeOK'
    BY <1>0, <1>5, Types, Typing DEF ReadStatus, rows, history, Still, people
  <1>7. /\ run'[p].at \in {"mark", "skip"} /\ run'[p].item = r
        /\ run'[p].batch = run[p].batch \ {r}
    BY <1>4
  <1>8. UNCHANGED <<recipient, accepted, doubted, suppressed, barred>>
    BY DEF ReadStatus, rows, history, Still, people
  <1> HIDE DEF w
  <1>9. Taken(p) = run[p].batch
    BY DEF Taken, Handling, ReadStatus, At
  <1>10. Taken(p)' \subseteq Taken(p)
    BY <1>7, <1>9 DEF Taken, Handling
  <1>11. Others(p)
    BY <1>4, <1>8 DEF Others
  <1>12. \A x \in run[p].batch : Unmailed(x)'
    BY <1>0, <1>8 DEF RunOK, Unmailed
  <1>13. ItemOK(p)'
    BY <1>7, <1>12 DEF ItemOK, Unmailed
  <1>14. RunOK(p)'
    BY <1>7, <1>12, <1>13 DEF RunOK
  <1>15. \A x \in Taken(p) : RowOK(x)'
    BY <1>0, <1>8, <1>9 DEF MailIInv, RowOK, RunType
  <1> QED
    BY <1>6, <1>8, <1>10, <1>11, <1>14, <1>15, OwnKeeps

LEMMA SkipKeeps ==
  ASSUME MailIInv, NEW p \in Process, Skip(p)
  PROVE  MailIInv'
  <1>0. MailTypeOK /\ run[p].at \in Handling /\ run[p].at = "skip"
    BY DEF MailIInv, Skip, At, Handling
  <1>1. recipient[run[p].item].status = "sending"
    BY <1>0, Hand DEF ItemOK, Unmailed
  <1>2. recipient' = [recipient EXCEPT ![run[p].item].status = "skipped"]
    BY <1>1 DEF Skip
  <1>3. /\ recipient' \in [Recipient -> RowType]
        /\ recipient'[run[p].item].status = "skipped"
        /\ recipient'[run[p].item].attempts = recipient[run[p].item].attempts
        /\ \A r \in Recipient : r # run[p].item => recipient'[r] = recipient[r]
    BY <1>0, <1>2, Hand, SetStatus DEF Ended
  <1>4. NextItem(p) /\ UNCHANGED <<campaign, accepted, doubted, stranded, hasty>>
        /\ UNCHANGED <<contact, suppressed, barred, request, requests, faults>>
    BY DEF Skip, history, Still, people
  <1>5. /\ run' \in [Process -> RunType]
        /\ run'[p].at \in {"idle", "read"} /\ run'[p].batch = run[p].batch
        /\ run'[p].at = "idle" => run'[p].batch = {}
        /\ \A q \in Process : q # p => run'[q] = run[q]
    BY <1>0, <1>4, NextItemTyped
  <1>6. MailTypeOK'
    BY <1>0, <1>3, <1>4, <1>5, Types, Typing
  <1>7. InHand(p)
    BY <1>3, <1>4, <1>5 DEF InHand
  <1>8. \A r \in Recipient : r = run[p].item => RowOK(r)'
    BY <1>0, <1>3, <1>4, Hand DEF RowOK
  <1>9. run'[p].at \notin Handling
    BY <1>5 DEF Handling
  <1> QED
    BY <1>0, <1>4, <1>6, <1>7, <1>8, <1>9, InHandKeeps

LEMMA MarkKeeps ==
  ASSUME MailIInv, NEW p \in Process, Mark(p)
  PROVE  MailIInv'
  <1>0. MailTypeOK /\ run[p].at \in Handling /\ run[p].at = "mark"
    BY DEF MailIInv, Mark, At, Handling
  <1>1. /\ run' \in [Process -> RunType]
        /\ run'[p].at = "send" /\ run'[p].batch = run[p].batch
        /\ run'[p].item = run[p].item
        /\ \A q \in Process : q # p => run'[q] = run[q]
    BY <1>0, GotoTyped DEF Mark
  <1>2. campaign' \in [Campaign -> CampaignType]
    <2>1. run[p].item[1] \in Campaign
      BY <1>0, Hand DEF Recipient
    <2> QED
      BY <1>0, <2>1, StatusTyped DEF Mark, Active
  <1>3. UNCHANGED <<recipient, accepted, doubted, stranded, hasty>>
        /\ UNCHANGED <<contact, suppressed, barred, request, requests, faults>>
    BY DEF Mark, history, Still, people
  <1>4. MailTypeOK'
    BY <1>0, <1>1, <1>2, <1>3, Types, Typing
  <1>5. InHand(p)
    BY <1>1, <1>3 DEF InHand
  <1>6. ItemOK(p)'
    BY <1>0, <1>1, <1>3, Hand DEF ItemOK, Unmailed
  <1>7. \A r \in Recipient : r = run[p].item => RowOK(r)'
    BY <1>0, <1>3, Hand DEF RowOK
  <1> QED
    BY <1>0, <1>1, <1>3, <1>4, <1>5, <1>6, <1>7, InHandKeeps

\* The mail is out, by an answer that is recorded or by one that got lost.
LEMMA MailedKeeps ==
  ASSUME MailIInv, MailTypeOK', NEW p \in Process, run[p].at = "send",
         \/ run'[p].at = "record" /\ run'[p].outcome = "delivered" /\ UNCHANGED doubted
         \/ run'[p].at = "failure" /\ doubted' = doubted \cup {run[p].item},
         run'[p].batch = run[p].batch, run'[p].item = run[p].item,
         \A q \in Process : q # p => run'[q] = run[q],
         accepted' = [accepted EXCEPT ![run[p].item] = @ + 1],
         UNCHANGED <<recipient, suppressed, barred>>
  PROVE  MailIInv'
  <1>0. run[p].at \in Handling
    BY DEF Handling
  <1>1. run[p].item \in Recipient
    BY <1>0, Hand
  <1>2. Unmailed(run[p].item)
    BY <1>0, Hand DEF ItemOK
  <1>3. /\ accepted'[run[p].item] = accepted[run[p].item] + 1
        /\ \A r \in Recipient : r # run[p].item => accepted'[r] = accepted[r]
    BY <1>1, Types DEF MailIInv
  <1>4. InHand(p)
    BY <1>3 DEF InHand
  <1>5. ItemOK(p)'
    BY <1>2 DEF ItemOK, Unmailed
  <1>6. \A r \in Recipient : r = run[p].item => RowOK(r)'
    <2>1. /\ recipient[run[p].item] \in RowType /\ accepted[run[p].item] \in Nat
          /\ run[p].item \notin barred /\ RowOK(run[p].item)
      BY <1>0, Hand
    <2>2. accepted'[run[p].item] <= recipient[run[p].item].attempts
      BY <1>2, <1>3, <2>1 DEF Unmailed, RowType
    <2>3. run[p].item \notin doubted' => accepted'[run[p].item] = 1
      BY <1>2, <1>3 DEF Unmailed
    <2> QED
      BY <1>2, <2>1, <2>2, <2>3 DEF RowOK, Unmailed
  <1> QED
    BY <1>0, <1>4, <1>5, <1>6, InHandKeeps

LEMMA AcceptTyped ==
  ASSUME MailTypeOK, NEW r \in Recipient
  PROVE  [accepted EXCEPT ![r] = @ + 1] \in [Recipient -> Nat]
  BY Types

\* The run goes on with its recipient and nothing is written.
LEMMA HandStaysKeeps ==
  ASSUME MailIInv, MailTypeOK', NEW p \in Process, run[p].at \in Handling,
         run'[p].batch = run[p].batch, run'[p].item = run[p].item,
         \/ run'[p].at = "record" /\ run'[p].outcome = "bounced"
         \/ run'[p].at = "failure",
         \A q \in Process : q # p => run'[q] = run[q],
         doubted' = doubted \/ doubted' = doubted \cup {run[p].item},
         run[p].item \notin doubted' => accepted[run[p].item] = 0,
         UNCHANGED <<recipient, accepted, suppressed, barred>>
  PROVE  MailIInv'
  <1>1. InHand(p)
    BY DEF InHand
  <1>2. ItemOK(p)'
    BY Hand DEF ItemOK
  <1>3. \A r \in Recipient : r = run[p].item => RowOK(r)'
    BY Hand DEF RowOK
  <1> QED
    BY <1>1, <1>2, <1>3, InHandKeeps

LEMMA DispatchKeeps ==
  ASSUME MailIInv, NEW p \in Process, Dispatch(p)
  PROVE  MailIInv'
  <1>0. MailTypeOK /\ run[p].at = "send" /\ run[p].at \in Handling
    BY DEF MailIInv, Dispatch, At, Handling
  <1>1. UNCHANGED <<campaign, recipient, doubted, stranded, hasty>>
        /\ UNCHANGED <<contact, suppressed, barred, request, requests, faults>>
    BY DEF Dispatch, rows, history, Still, people
  <1>2. CASE /\ run' = [run EXCEPT ![p].at = "record", ![p].outcome = "delivered"]
             /\ accepted' = [accepted EXCEPT ![run[p].item] = @ + 1]
    <2>1. /\ run' \in [Process -> RunType]
          /\ run'[p].at = "record" /\ run'[p].batch = run[p].batch
          /\ run'[p].item = run[p].item /\ run'[p].outcome = "delivered"
          /\ \A q \in Process : q # p => run'[q] = run[q]
      BY <1>0, <1>2, OutcomeTyped
    <2>2. accepted' \in [Recipient -> Nat]
      BY <1>0, <1>2, Hand, AcceptTyped
    <2>3. MailTypeOK'
      BY <1>0, <1>1, <2>1, <2>2, Types, Typing
    <2> QED
      BY <1>0, <1>1, <1>2, <2>1, <2>3, MailedKeeps
  <1>3. ASSUME NEW label \in {"record", "failure"}, NEW why \in {"bounced", "retryable", "final"},
               label = "record" => why = "bounced",
               run' = [run EXCEPT ![p].at = label, ![p].outcome = why],
               UNCHANGED accepted
        PROVE  MailIInv'
    <2>1. /\ run' \in [Process -> RunType]
          /\ run'[p].at = label /\ run'[p].batch = run[p].batch
          /\ run'[p].item = run[p].item /\ run'[p].outcome = why
          /\ \A q \in Process : q # p => run'[q] = run[q]
      BY <1>0, <1>3, OutcomeTyped
    <2>2. MailTypeOK'
      BY <1>0, <1>1, <1>3, <2>1, Types, Typing
    <2>3. run[p].item \notin doubted' => accepted[run[p].item] = 0
      BY <1>0, <1>1, Hand DEF ItemOK, Unmailed
    <2> QED
      BY <1>0, <1>1, <1>3, <2>1, <2>2, <2>3, HandStaysKeeps
  <1> QED
    BY <1>2, <1>3 DEF Dispatch

LEMMA RecordKeeps ==
  ASSUME MailIInv, NEW p \in Process, Record(p)
  PROVE  MailIInv'
  <1>0. MailTypeOK /\ run[p].at = "record" /\ run[p].at \in Handling
    BY DEF MailIInv, Record, At, Handling
  <1> DEFINE to == IF run[p].outcome = "bounced" THEN "suppress" ELSE "count"
  <1>1. UNCHANGED <<campaign, accepted, doubted, stranded, hasty>>
        /\ UNCHANGED <<contact, suppressed, barred, request, requests, faults>>
    BY DEF Record, history, Still, people
  <1>2. MailGoto(p, to) /\ to \in {"suppress", "count"}
    BY DEF Record
  <1>3. to = "suppress" => run[p].outcome = "bounced"
    OBVIOUS
  <1>4. recipient' = [recipient EXCEPT ![run[p].item].status = run[p].outcome]
    BY DEF Record
  <1> HIDE DEF to
  <1>5. /\ run' \in [Process -> RunType]
        /\ run'[p].at = to /\ run'[p].batch = run[p].batch
        /\ run'[p].item = run[p].item
        /\ \A q \in Process : q # p => run'[q] = run[q]
    BY <1>0, <1>2, GotoTyped
  <1>6. run[p].outcome \in {"delivered", "bounced"}
    BY <1>0, Hand DEF ItemOK
  <1>7. /\ recipient' \in [Recipient -> RowType]
        /\ recipient'[run[p].item].status = run[p].outcome
        /\ recipient'[run[p].item].attempts = recipient[run[p].item].attempts
        /\ \A r \in Recipient : r # run[p].item => recipient'[r] = recipient[r]
    BY <1>0, <1>4, <1>6, Hand, SetStatus DEF Ended
  <1>8. MailTypeOK'
    BY <1>0, <1>1, <1>5, <1>7, Types, Typing
  <1>9. InHand(p)
    BY <1>1, <1>2, <1>5, <1>7 DEF InHand
  <1>10. run'[p].at \in Handling => run'[p].item = run[p].item /\ ItemOK(p)'
    <2>1. CASE to = "count"
      BY <1>5, <2>1 DEF Handling
    <2>2. CASE to = "suppress"
      <3>1. recipient'[run'[p].item].status = "bounced"
        BY <1>3, <1>5, <1>7, <2>2
      <3>2. run[p].item \notin doubted => accepted[run[p].item] = 0
        BY <1>0, <1>3, <2>2, Hand DEF ItemOK
      <3> QED
        BY <1>1, <1>5, <2>2, <3>1, <3>2 DEF ItemOK
    <2> QED
      BY <1>2, <2>1, <2>2
  <1>11. \A r \in Recipient : r = run[p].item => RowOK(r)'
    BY <1>0, <1>1, <1>6, <1>7, Hand DEF RowOK
  <1> QED
    BY <1>0, <1>1, <1>8, <1>9, <1>10, <1>11, InHandKeeps

LEMMA FailureKeeps ==
  ASSUME MailIInv, NEW p \in Process, Failure(p)
  PROVE  MailIInv'
  <1>0. MailTypeOK /\ run[p].at = "failure" /\ run[p].at \in Handling
    BY DEF MailIInv, Failure, At, Handling
  <1>1. UNCHANGED <<campaign, accepted, doubted, stranded, hasty>>
        /\ UNCHANGED <<contact, suppressed, barred, request, requests, faults>>
    BY DEF Failure, history, Still, people
  <1>2. /\ run' \in [Process -> RunType]
        /\ run'[p].at = "count" /\ run'[p].batch = run[p].batch
        /\ \A q \in Process : q # p => run'[q] = run[q]
    BY <1>0, GotoTyped DEF Failure
  <1>3. run[p].item \in Recipient /\ recipient[run[p].item] \in RowType
    BY <1>0, Hand
  <1>4. /\ recipient' \in [Recipient -> RowType]
        /\ recipient'[run[p].item].attempts = recipient[run[p].item].attempts
        /\ \/ recipient'[run[p].item].status = "failed"
           \/ /\ recipient'[run[p].item].status = "retry"
              /\ recipient[run[p].item].attempts < EmailMaxAttempts
        /\ \A r \in Recipient : r # run[p].item => recipient'[r] = recipient[r]
    <2>1. CASE /\ recipient[run[p].item].attempts < EmailMaxAttempts
               /\ recipient' = [recipient EXCEPT ![run[p].item].status = "retry",
                                               ![run[p].item].due = FALSE]
      <3>1. \A x \in RowType : LET y == [x EXCEPT !.status = "retry", !.due = FALSE] IN
              y \in RowType /\ y.status = "retry" /\ y.attempts = x.attempts
        BY DEF RowType, Outstanding
      <3>2. recipient'[run[p].item]
              = [recipient[run[p].item] EXCEPT !.status = "retry", !.due = FALSE]
        BY <1>0, <1>3, <2>1, Types
      <3>3. \A r \in Recipient : r # run[p].item => recipient'[r] = recipient[r]
        BY <1>0, <1>3, <2>1, Types
      <3>4. recipient' \in [Recipient -> RowType]
        BY <1>0, <1>3, <2>1, <3>1, <3>2, <3>3, Types
      <3> QED
        BY <1>3, <2>1, <3>1, <3>2, <3>3, <3>4
    <2>2. CASE recipient' = [recipient EXCEPT ![run[p].item].status = "failed"]
      BY <1>0, <1>3, <2>2, SetStatus DEF Ended
    <2> QED
      BY <2>1, <2>2 DEF Failure
  <1>5. MailTypeOK'
    BY <1>0, <1>1, <1>2, <1>4, Types, Typing
  <1>6. InHand(p)
    BY <1>1, <1>2, <1>4 DEF InHand
  <1>7. run'[p].at \notin Handling
    BY <1>2 DEF Handling
  <1>8. \A r \in Recipient : r = run[p].item => RowOK(r)'
    <2>1. /\ run[p].item \notin doubted => accepted[run[p].item] = 0
          /\ run[p].item \notin barred /\ RowOK(run[p].item)
      BY <1>0, Hand DEF ItemOK
    <2> QED
      BY <1>1, <1>4, <2>1 DEF RowOK
  <1> QED
    BY <1>0, <1>1, <1>5, <1>6, <1>7, <1>8, InHandKeeps

LEMMA SuppressBouncedKeeps ==
  ASSUME MailIInv, NEW p \in Process, SuppressBounced(p)
  PROVE  MailIInv'
  <1>0. MailTypeOK /\ run[p].at \in Handling
    BY DEF MailIInv, SuppressBounced, At, Handling
  <1>1. /\ run' \in [Process -> RunType]
        /\ run'[p].at = "count" /\ run'[p].batch = run[p].batch
        /\ \A q \in Process : q # p => run'[q] = run[q]
    BY <1>0, GotoTyped DEF SuppressBounced
  <1>2. UNCHANGED <<campaign, recipient, accepted, doubted, stranded, hasty>>
        /\ UNCHANGED <<contact, request, requests, faults>>
    BY DEF SuppressBounced, rows, history
  <1>3. run[p].item[2] \in Email /\ Suppress(run[p].item[2])
    BY <1>0, Hand DEF SuppressBounced, Recipient
  <1>4. MailTypeOK'
    BY <1>0, <1>1, <1>2, <1>3, Types, Typing, SuppressTyped
  <1>5. InHand(p)
    BY <1>1, <1>2 DEF InHand
  <1>6. run'[p].at \notin Handling
    BY <1>1 DEF Handling
  <1>7. Others(p) /\ Taken(p)' \subseteq Taken(p) /\ RunOK(p)'
    BY <1>0, <1>5, <1>6, InHandRuns
  <1>8. OneEach' /\ \A q \in Process : RunOK(q)'
    BY <1>7, RunsKeep
  <1> QED
    BY <1>2, <1>3, <1>4, <1>8, SuppressKeeps

\* Between two recipients, and when a run breaks off.
LEMMA BetweenKeeps ==
  ASSUME MailIInv, MailTypeOK', NEW p \in Process,
         run'[p].at \in {"idle", "read", "refresh"},
         run'[p].batch \subseteq run[p].batch,
         run'[p].at = "idle" => run'[p].batch = {},
         run[p].at # "idle",
         \A q \in Process : q # p => run'[q] = run[q],
         UNCHANGED <<recipient, accepted, doubted, suppressed, barred>>
  PROVE  MailIInv'
  <1>0. run[p].batch \subseteq Recipient /\ run[p].item \in Recipient /\ RunOK(p)
    BY Types DEF MailIInv, RunType
  <1>1. Others(p)
    BY DEF Others
  <1>2. Taken(p)' \subseteq Taken(p)
    BY DEF Taken, Handling
  <1>3. RunOK(p)'
    BY <1>0 DEF RunOK, Unmailed, Handling
  <1>4. \A r \in Taken(p) : RowOK(r)'
    BY <1>0 DEF MailIInv, Taken, RowOK
  <1> QED
    BY <1>1, <1>2, <1>3, <1>4, OwnKeeps

LEMMA CountKeeps ==
  ASSUME MailIInv, NEW p \in Process, Count(p)
  PROVE  MailIInv'
  <1>0. MailTypeOK /\ run[p].at # "idle"
    BY DEF MailIInv, Count, At
  <1>1. UNCHANGED <<campaign, recipient, accepted, doubted, stranded, hasty>>
        /\ UNCHANGED <<contact, suppressed, barred, request, requests, faults>>
    BY DEF Count, rows, history, Still, people
  <1>2. /\ run' \in [Process -> RunType]
        /\ run'[p].at \in {"idle", "read", "refresh"} /\ run'[p].batch = run[p].batch
        /\ run'[p].at = "idle" => run'[p].batch = {}
        /\ \A q \in Process : q # p => run'[q] = run[q]
    <2>1. CASE NextItem(p)
      BY <1>0, <2>1, NextItemTyped
    <2>2. CASE MailGoto(p, "refresh")
      BY <1>0, <2>2, GotoTyped
    <2> QED
      BY <2>1, <2>2 DEF Count
  <1>3. MailTypeOK'
    BY <1>0, <1>1, <1>2, Types, Typing
  <1> QED
    BY <1>0, <1>1, <1>2, <1>3, BetweenKeeps

LEMMA RefreshKeeps ==
  ASSUME MailIInv, NEW p \in Process, Refresh(p)
  PROVE  MailIInv'
  <1>0. MailTypeOK /\ run[p].at # "idle" /\ run[p].item[1] \in Campaign
    BY Types DEF MailIInv, Refresh, At, RunType, Recipient
  <1>1. UNCHANGED <<recipient, accepted, doubted, stranded>>
        /\ UNCHANGED <<contact, suppressed, barred, request, requests, faults>>
    BY DEF Refresh, Still, people
  <1>2. /\ run' \in [Process -> RunType]
        /\ run'[p].at \in {"idle", "read"} /\ run'[p].batch = run[p].batch
        /\ run'[p].at = "idle" => run'[p].batch = {}
        /\ \A q \in Process : q # p => run'[q] = run[q]
    BY <1>0, NextItemTyped DEF Refresh
  <1>3. campaign' \in [Campaign -> CampaignType] /\ hasty' \subseteq Campaign
    BY <1>0, CompleteTyped DEF Refresh
  <1>4. MailTypeOK'
    BY <1>0, <1>1, <1>2, <1>3, Types, Typing
  <1> QED
    BY <1>0, <1>1, <1>2, <1>4, BetweenKeeps

\* What is due is nobody's, was not mailed, and has attempts left.
LEMMA DueFacts ==
  ASSUME MailIInv, NEW r \in Due
  PROVE  /\ r \in Recipient /\ \A q \in Process : r \notin Taken(q)
         /\ recipient[r].attempts \in 0 .. EmailMaxAttempts - 1 /\ accepted[r] \in Nat
         /\ accepted[r] <= recipient[r].attempts
         /\ r \notin doubted => accepted[r] = 0
         /\ r \notin barred
  <1>1. r \in Recipient /\ recipient[r].status \in {"pending", "retry"}
    BY DEF Due
  <1>2. RowOK(r) /\ recipient[r] \in RowType /\ accepted[r] \in Nat
    BY <1>1, Types DEF MailIInv
  <1>3. recipient[r].attempts \in 0 .. EmailMaxAttempts /\ accepted[r] <= recipient[r].attempts
    BY <1>2 DEF RowType, RowOK
  <1>4. recipient[r].attempts < EmailMaxAttempts
    <2>1. CASE recipient[r].status = "pending"
      BY <1>2, <2>1, AttemptsAssumption DEF RowOK
    <2>2. CASE recipient[r].status = "retry"
      BY <1>2, <2>2 DEF RowOK
    <2> QED
      BY <1>1, <2>1, <2>2
  <1>5. r \notin doubted => accepted[r] = 0
    <2>1. CASE recipient[r].status = "pending"
      <3>1. recipient[r].attempts = 0
        BY <1>2, <2>1 DEF RowOK
      <3> QED
        BY <1>2, <1>3, <3>1
    <2>2. CASE recipient[r].status = "retry"
      BY <1>2, <2>2 DEF RowOK
    <2> QED
      BY <1>1, <2>1, <2>2
  <1>6. ASSUME NEW q \in Process PROVE r \notin Taken(q)
    <2>1. RunOK(q)
      BY DEF MailIInv
    <2>2. r \notin run[q].batch
      BY <1>1, <2>1 DEF RunOK, Unmailed
    <2>3. run[q].at \in Handling => r # run[q].item
      BY <1>1, <2>1 DEF RunOK, ItemOK
    <2> QED
      BY <2>2, <2>3 DEF Taken
  <1>7. r \notin barred
    BY <1>1, <1>2 DEF RowOK
  <1> QED
    BY <1>1, <1>2, <1>3, <1>4, <1>5, <1>6, <1>7, AttemptsAssumption

LEMMA ClaimKeeps ==
  ASSUME MailIInv, NEW p \in Process, ClaimDue(p)
  PROVE  MailIInv'
  <1>0. MailTypeOK
    BY DEF MailIInv
  <1>1. PICK batch \in SUBSET Due :
          /\ recipient' = [r \in Recipient |-> IF r \in batch THEN Claimed(r) ELSE recipient[r]]
          /\ run' = [run EXCEPT ![p] = [NoRun EXCEPT !.at = "read", !.batch = batch]]
    BY DEF ClaimDue
  <1>2. UNCHANGED <<campaign, accepted, doubted, stranded, hasty>>
        /\ UNCHANGED <<contact, suppressed, barred, request, requests, faults>>
    BY DEF ClaimDue, history, Still, people
  <1>3. batch \subseteq Recipient
    BY <1>1 DEF Due
  <1>4. /\ run' \in [Process -> RunType] /\ run'[p].at = "read"
        /\ run'[p].batch = batch
        /\ \A q \in Process : q # p => run'[q] = run[q]
    <2>1. LET x == [NoRun EXCEPT !.at = "read", !.batch = batch] IN
            x \in RunType /\ x.at = "read" /\ x.batch = batch
      BY <1>3, Nothing DEF RunType
    <2> QED
      BY <1>0, <1>1, <2>1, Types
  <1>5. \A r \in batch : /\ recipient'[r] \in RowType
                        /\ recipient'[r].status = "sending"
                        /\ recipient'[r].attempts = recipient[r].attempts + 1
    <2> SUFFICES ASSUME NEW r \in batch
                 PROVE  /\ recipient'[r] \in RowType
                        /\ recipient'[r].status = "sending"
                        /\ recipient'[r].attempts = recipient[r].attempts + 1
      OBVIOUS
    <2>1. recipient'[r] = [status |-> "sending", attempts |-> recipient[r].attempts + 1, due |-> TRUE]
      BY <1>1, <1>3 DEF Claimed
    <2>2. recipient[r].attempts + 1 \in 0 .. EmailMaxAttempts
      BY <1>1, DueFacts, AttemptsAssumption
    <2> QED
      BY <2>1, <2>2 DEF RowType, Outstanding
  <1>6. \A r \in Recipient : r \notin batch => recipient'[r] = recipient[r]
    BY <1>1
  <1>7. recipient' \in [Recipient -> RowType]
    BY <1>0, <1>1, <1>5, <1>6, Types
  <1>8. MailTypeOK'
    BY <1>0, <1>2, <1>4, <1>7, Types, Typing
  <1>9. Taken(p)' = batch
    BY <1>4 DEF Taken, Handling
  <1>10. \A q \in Process : Taken(q) \cap batch = {}
    BY <1>1, DueFacts
  <1>11. \A q \in Process : q # p => Taken(q)' = Taken(q)
    BY <1>4 DEF Taken
  <1>12. OneEach'
    BY <1>9, <1>10, <1>11 DEF MailIInv, OneEach
  <1>13. RunOK(p)'
    <2>1. \A r \in batch : Unmailed(r)'
      <3> SUFFICES ASSUME NEW r \in batch PROVE Unmailed(r)'
        OBVIOUS
      <3>1. /\ recipient[r].attempts \in 0 .. EmailMaxAttempts - 1 /\ accepted[r] \in Nat
            /\ accepted[r] <= recipient[r].attempts
            /\ r \notin doubted => accepted[r] = 0
        BY <1>1, DueFacts
      <3>2. accepted'[r] < recipient'[r].attempts
        BY <1>2, <1>5, <3>1, AttemptsAssumption
      <3> QED
        BY <1>2, <1>5, <3>1, <3>2 DEF Unmailed
    <2> QED
      BY <1>4, <2>1 DEF RunOK, Handling
  <1>14. ASSUME NEW q \in Process, q # p PROVE RunOK(q)'
    <2>1. RunOK(q) /\ run'[q] = run[q]
      BY <1>4, <1>14 DEF MailIInv
    <2>2. run[q].batch \subseteq Recipient /\ run[q].item \in Recipient
      BY <1>0, Types DEF RunType
    <2>3. \A r \in run[q].batch : r \notin batch
      BY <1>1, <2>1 DEF RunOK, Unmailed, Due
    <2>4. \A r \in run[q].batch : Unmailed(r)'
      BY <1>2, <1>6, <2>1, <2>2, <2>3 DEF RunOK, Unmailed
    <2>5. CASE run[q].at \in Handling
      <3>1. run[q].item \notin batch
        BY <1>10, <2>5 DEF Taken, Handling
      <3> QED
        BY <1>2, <1>6, <2>1, <2>2, <2>4, <2>5, <3>1 DEF RunOK, ItemOK, Unmailed
    <2>6. CASE run[q].at \notin Handling
      BY <2>1, <2>4, <2>6 DEF RunOK
    <2> QED
      BY <2>5, <2>6
  <1>15. ASSUME NEW r \in Recipient PROVE RowOK(r)'
    <2>1. CASE r \in batch
      <3>1. /\ recipient[r].attempts \in 0 .. EmailMaxAttempts - 1 /\ accepted[r] \in Nat
            /\ accepted[r] <= recipient[r].attempts
            /\ r \notin doubted => accepted[r] = 0
            /\ r \notin barred
        BY <1>1, <2>1, DueFacts
      <3>2. accepted'[r] <= recipient'[r].attempts
        BY <1>2, <1>5, <2>1, <3>1, AttemptsAssumption
      <3> QED
        BY <1>2, <1>5, <2>1, <3>1, <3>2 DEF RowOK
    <2>2. CASE r \notin batch
      BY <1>2, <1>6, <2>2 DEF MailIInv, RowOK
    <2> QED
      BY <2>1, <2>2
  <1> QED
    BY <1>8, <1>12, <1>13, <1>14, <1>15 DEF MailIInv

-----------------------------------------------------------------------------
(* Failures                                                                *)

LEMMA FaultTyped ==
  ASSUME MailTypeOK, Fault
  PROVE  faults' \in 0 .. MaxFaults
  BY BoundAssumption, Types DEF Fault

LEMMA MistakeKeeps ==
  ASSUME MailIInv, NEW p \in Process, AnswerLost(p) \/ RecordFails(p)
  PROVE  MailIInv'
  <1>0. /\ MailTypeOK /\ run[p].at \in Handling /\ Mistake(p) /\ Fault
        /\ run[p].item \in Recipient
    BY Types DEF MailIInv, AnswerLost, RecordFails, At, Handling, RunType
  <1>1. PICK why \in {"retryable", "final"} :
          run' = [run EXCEPT ![p].at = "failure", ![p].outcome = why]
    BY <1>0 DEF Mistake
  <1>2. /\ run' \in [Process -> RunType]
        /\ run'[p].at = "failure" /\ run'[p].batch = run[p].batch
        /\ run'[p].item = run[p].item
        /\ \A q \in Process : q # p => run'[q] = run[q]
    BY <1>0, <1>1, OutcomeTyped
  <1>3. /\ doubted' = doubted \cup {run[p].item}
        /\ UNCHANGED <<campaign, recipient, stranded, hasty, contact, suppressed, barred, request, requests>>
    BY <1>0 DEF Mistake, Quiet, rows, people
  <1>4. doubted' \subseteq Recipient /\ faults' \in 0 .. MaxFaults
    BY <1>0, <1>3, Types, FaultTyped
  <1>5. CASE AnswerLost(p)
    <2>1. accepted' = [accepted EXCEPT ![run[p].item] = @ + 1] /\ run[p].at = "send"
      BY <1>5 DEF AnswerLost, At
    <2>2. accepted' \in [Recipient -> Nat]
      BY <1>0, <2>1, AcceptTyped
    <2>3. MailTypeOK'
      BY <1>0, <1>2, <1>3, <1>4, <2>2, Types, Typing
    <2> QED
      BY <1>2, <1>3, <2>1, <2>3, MailedKeeps
  <1>6. CASE RecordFails(p)
    <2>1. UNCHANGED accepted
      BY <1>6 DEF RecordFails
    <2>2. MailTypeOK'
      BY <1>0, <1>2, <1>3, <1>4, <2>1, Types, Typing
    <2>3. run[p].item \in doubted'
      BY <1>3
    <2> QED
      BY <1>0, <1>2, <1>3, <2>1, <2>2, <2>3, HandStaysKeeps
  <1> QED
    BY <1>5, <1>6

LEMMA BreakOffKeeps ==
  ASSUME MailIInv, NEW p \in Process, BreakOff(p)
  PROVE  MailIInv'
  <1>0. MailTypeOK /\ run[p].at # "idle" /\ faults' \in 0 .. MaxFaults
    BY FaultTyped DEF MailIInv, BreakOff, At
  <1>1. UNCHANGED <<campaign, recipient, accepted, doubted, hasty, contact, suppressed, barred, request, requests>>
    BY DEF BreakOff, Quiet, rows, people
  <1>2. /\ run' \in [Process -> RunType]
        /\ run'[p].at = "idle" /\ run'[p].batch = {}
        /\ \A q \in Process : q # p => run'[q] = run[q]
    BY <1>0, Nothing, Types DEF BreakOff
  <1>3. stranded' \subseteq Recipient
    BY <1>0, Types DEF BreakOff, Claims, RunType
  <1>4. MailTypeOK'
    BY <1>0, <1>1, <1>2, <1>3, Types, Typing
  <1> QED
    BY <1>0, <1>1, <1>2, <1>4, BetweenKeeps

-----------------------------------------------------------------------------
(* The theorems                                                            *)

LEMMA MailStepIInv == MailIInv /\ [MailNext]_mailVars => MailIInv'
  <1> SUFFICES ASSUME MailIInv, [MailNext]_mailVars PROVE MailIInv'
    OBVIOUS
  <1>1. CASE UNCHANGED mailVars
    <2>1. UNCHANGED <<campaign, recipient, contact, suppressed, barred, run, request>>
          /\ UNCHANGED <<accepted, doubted, stranded, hasty, requests, faults>>
      BY <1>1 DEF mailVars, rows, people, history
    <2>2. MailTypeOK'
      BY <2>1, Types, Typing DEF MailIInv
    <2> QED
      BY <2>1, <2>2, QuietKeeps
  <1>2. ASSUME NEW p \in Process, RunStep(p) PROVE MailIInv'
    BY <1>2, ClaimKeeps, ReadStatusKeeps, SkipKeeps, MarkKeeps, DispatchKeeps, RecordKeeps,
       SuppressBouncedKeeps, FailureKeeps, CountKeeps, RefreshKeeps DEF RunStep
  <1>3. ASSUME NEW p \in Process, AnswerLost(p) \/ RecordFails(p) \/ BreakOff(p) PROVE MailIInv'
    BY <1>3, MistakeKeeps, BreakOffKeeps
  <1>4. ASSUME NEW a \in Request, RequestStep(a) \/ RequestFails(a) PROVE MailIInv'
    <2>1. PICK e \in Email : TRUE
      BY PeopleAssumption
    <2> QED
      BY <1>4, <2>1, OtherRequestsKeep, SkipPendingKeeps, SuppressingKeeps DEF RequestStep
  <1>5. ASSUME NEW a \in Request, NEW c \in Campaign, Schedule(a, c) \/ Cancel(a, c) PROVE MailIInv'
    BY <1>5, ScheduleKeeps, OtherRequestsKeep
  <1>6. ASSUME NEW a \in Request, NEW e \in Email,
               \/ Import(a, e) \/ Unsubscribe(a, e)
               \/ \E status \in {"subscribed", "unsubscribed", "bounced", "suppressed"} :
                    UpdateContact(a, e, status)
        PROVE  MailIInv'
    BY <1>6, OtherRequestsKeep, SuppressingKeeps
  <1>7. CASE (\E c \in Campaign : Arrive(c)) \/ (\E r \in Recipient : RetryComes(r))
    BY <1>7, ClockKeeps
  <1> QED
    BY <1>1, <1>2, <1>3, <1>4, <1>5, <1>6, <1>7 DEF MailNext

\* The inductive invariant holds in every reachable state.
THEOREM InvariantHolds == MailSpec => []MailIInv
  BY MailInitIInv, MailStepIInv, PTL DEF MailSpec

\* Every reachable state of the campaigns is well typed.
THEOREM CampaignsTyped == MailSpec => []MailTypeOK
  <1>1. MailIInv => MailTypeOK
    BY DEF MailIInv
  <1> QED BY <1>1, InvariantHolds, PTL

\* However many processes claim, and whatever is scheduled, cancelled and
\* lost, a campaign's mail reaches an address once, or, when it is in doubt,
\* no more often than there are attempts.
THEOREM MailsAreSingle == MailSpec => []MailedOnce
  <1>1. MailIInv => MailedOnce
    <2> SUFFICES ASSUME MailIInv, NEW r \in Recipient
                 PROVE  accepted[r] <= IF r \in doubted THEN EmailMaxAttempts ELSE 1
      BY DEF MailedOnce
    <2>1. RowOK(r) /\ recipient[r] \in RowType /\ accepted[r] \in Nat
      BY Types DEF MailIInv
    <2>2. accepted[r] <= recipient[r].attempts /\ recipient[r].attempts \in 0 .. EmailMaxAttempts
      BY <2>1 DEF RowOK, RowType
    <2>3. r \notin doubted => accepted[r] <= 1
      BY <2>1 DEF RowOK
    <2> QED
      BY <2>1, <2>2, <2>3, AttemptsAssumption
  <1> QED BY <1>1, InvariantHolds, PTL

\* No import, change or new schedule brings a barred address back.
THEOREM BarredAreSpared == MailSpec => []BarredIsSpared
  <1>1. MailIInv => BarredIsSpared
    BY Types DEF MailIInv, RowOK, BarredIsSpared
  <1> QED BY <1>1, InvariantHolds, PTL
=============================================================================
