---------------------------- MODULE PlatformTasks ----------------------------
(***************************************************************************)
(* The platform task runtime (modules/platform-tasks): tasks are rows of   *)
(* Postgres; createTask inserts one and offers its id to a BullMQ queue;   *)
(* workers claim tasks either from that queue or by polling the table, run *)
(* the registered handler and write the outcome; operators move tasks by   *)
(* hand through the admin API.                                             *)
(*                                                                         *)
(* Each SQL statement on platform_tasks is a step.  An append to the event *)
(* or log table is part of the step before or after it: it may throw       *)
(* (seq is MAX + 1 under a unique index), and what a throw leads to is     *)
(* kept.                                                                   *)
(***************************************************************************)
EXTENDS Naturals, FiniteSets

CONSTANTS
    Task,            \* idempotency keys of the tasks that may be created
    Priority,        \* platform_tasks.priority
    MaxAttempts,     \* platform_tasks.max_attempts, 1 by default
    Unsupported,     \* tasks whose module.action has no registered handler
    Poller,          \* worker loops that poll the table (one per gateway)
    Consumer,        \* BullMQ worker slots
    Operator,        \* admin requests that transition a task
    OperatorStatus,  \* statuses operators ask for
    NoTask,
    MaxForcedAttempts  \* bound: operators leave a task alone once it has run
                       \* this often

ASSUME NoTaskAssumption == NoTask \notin Task
ASSUME MaxAttemptsAssumption == MaxAttempts \in [Task -> Nat \ {0}]
ASSUME PriorityAssumption == Priority \in [Task -> Nat]
ASSUME UnsupportedAssumption == Unsupported \subseteq Task

VARIABLES
    task,            \* the row: status, attempts, and whether it is due
    creating,        \* tasks inserted whose createTask has not returned yet
    jobs,            \* job ids in the BullMQ queue (jobId = task.id)
    worker,          \* what each worker executes and where it is
    operator,        \* per operator, the transition between its read and write
    returned,        \* history: tasks whose handler has returned a result
    lost,            \* history: tasks whose worker died or gave up half-way
    forced           \* history: tasks an operator moved other than to cancel

vars == <<task, creating, jobs, worker, operator, returned, lost, forced>>

Terminal == {"succeeded", "failed", "cancelled", "expired"}
Runnable == {"queued", "retrying"}
Status == Terminal \cup Runnable \cup {"running", "absent"}

ASSUME OperatorStatusAssumption == OperatorStatus \subseteq Status \ {"absent"}

Worker == Poller \cup Consumer
Busy == {"claimed", "handler", "returned", "recorded", "failing"}

TypeOK ==
    /\ task \in [Task -> [status : Status, attempts : Nat, due : BOOLEAN]]
    /\ creating \subseteq Task
    /\ jobs \subseteq Task
    /\ worker \in [Worker -> [at : {"idle"}, task : {NoTask}, attempt : {0}]
                        \cup [at : Busy, task : Task, attempt : Nat]]
    /\ operator \in [Operator -> [task : {NoTask}, status : {"absent"}]
                            \cup [task : Task, status : OperatorStatus]]
    /\ returned \subseteq Task
    /\ lost \subseteq Task
    /\ forced \subseteq Task

Free == [at |-> "idle", task |-> NoTask, attempt |-> 0]
NoTransition == [task |-> NoTask, status |-> "absent"]

Init ==
    /\ task = [t \in Task |-> [status |-> "absent", attempts |-> 0, due |-> TRUE]]
    /\ creating = {} /\ jobs = {}
    /\ worker = [w \in Worker |-> Free]
    /\ operator = [o \in Operator |-> NoTransition]
    /\ returned = {} /\ lost = {} /\ forced = {}

-----------------------------------------------------------------------------
(* createTask                                                              *)

\* INSERT ... ON CONFLICT DO UPDATE without a change: a key used before is
\* answered with the task it has.
Create(t) ==
    /\ IF task[t].status = "absent"
       THEN /\ task' = [task EXCEPT ![t].status = "queued"]
            /\ creating' = creating \cup {t}
       ELSE UNCHANGED <<task, creating>>
    /\ UNCHANGED <<jobs, worker, operator, returned, lost, forced>>

\* task.created is recorded and the queue takes the job; when the event
\* cannot be written, the request or its process dies, or Redis is down, the
\* task is left to the pollers.
FinishCreate(t) ==
    /\ t \in creating
    /\ creating' = creating \ {t}
    /\ jobs' \in {jobs, jobs \cup {t}}
    /\ UNCHANGED <<task, worker, operator, returned, lost, forced>>

-----------------------------------------------------------------------------
(* Claiming                                                                *)

Claimable(t) == task[t].status \in Runnable /\ task[t].due

Claim(w, t) ==
    /\ task' = [task EXCEPT ![t].status = "running", ![t].attempts = @ + 1]
    /\ worker' = [worker EXCEPT ![w] = [at |-> "claimed", task |-> t,
                                        attempt |-> task[t].attempts + 1]]

\* A poll that leaves retries to the queue.
PollQueuedOnly(w) ==
    /\ worker[w].at = "idle"
    /\ \E t \in Task : task[t].status = "queued" /\ Claim(w, t)
    /\ UNCHANGED <<creating, jobs, operator, returned, lost, forced>>

\* claimNextRunnableTask: one UPDATE of the runnable row of the highest
\* priority that no other statement has locked.
Poll(w) ==
    /\ worker[w].at = "idle"
    /\ \E t \in Task :
         /\ Claimable(t)
         /\ \A u \in Task : Claimable(u) => Priority[u] <= Priority[t]
         /\ Claim(w, t)
    /\ UNCHANGED <<creating, jobs, operator, returned, lost, forced>>

\* A consumer that trusts the queue to deliver each job once.
ConsumeUnchecked(w) ==
    /\ worker[w].at = "idle"
    /\ \E t \in jobs :
         /\ jobs' \in {jobs, jobs \ {t}}
         /\ Claim(w, t)
    /\ UNCHANGED <<creating, operator, returned, lost, forced>>

\* BullMQ hands out a job at least once: one whose consumer died or stalled
\* comes again.  claimTaskById refuses a task that is not runnable or due,
\* and the job is then done.
Consume(w) ==
    /\ worker[w].at = "idle"
    /\ \E t \in jobs :
         /\ jobs' \in {jobs, jobs \ {t}}
         /\ IF Claimable(t) THEN Claim(w, t) ELSE UNCHANGED <<task, worker>>
    /\ UNCHANGED <<creating, operator, returned, lost, forced>>

\* now() reaches next_retry_at.
RetryDue(t) ==
    /\ ~task[t].due
    /\ task' = [task EXCEPT ![t].due = TRUE]
    /\ UNCHANGED <<creating, jobs, worker, operator, returned, lost, forced>>

-----------------------------------------------------------------------------
(* executeClaimedTask                                                      *)

Goto(w, label) == worker' = [worker EXCEPT ![w].at = label]

Leave(w) == worker' = [worker EXCEPT ![w] = Free]

\* task.running is appended outside the try block: a throw leaves the task
\* running.
Start(w) ==
    /\ worker[w].at = "claimed"
    /\ \/ /\ Goto(w, IF worker[w].task \in Unsupported THEN "failing" ELSE "handler")
          /\ UNCHANGED lost
       \/ /\ Leave(w)
          /\ lost' = lost \cup {worker[w].task}
    /\ UNCHANGED <<task, creating, jobs, operator, returned, forced>>

\* The handler, with its log line and its progress updates.
Handle(w) ==
    /\ worker[w].at = "handler"
    /\ \/ /\ Goto(w, "returned")
          /\ returned' = returned \cup {worker[w].task}
       \/ /\ Goto(w, "failing")
          /\ UNCHANGED returned
    /\ UNCHANGED <<task, creating, jobs, operator, lost, forced>>

\* The row is written whatever its status has become.
Succeed(w) ==
    /\ worker[w].at = "returned"
    /\ \/ /\ task' = [task EXCEPT ![worker[w].task].status = "succeeded"]
          /\ Goto(w, "recorded")
       \/ /\ Goto(w, "failing")
          /\ UNCHANGED task
    /\ UNCHANGED <<creating, jobs, operator, returned, lost, forced>>

\* The event after it is inside the try block: a throw makes the success a
\* failure.
RecordSuccess(w) ==
    /\ worker[w].at = "recorded"
    /\ Leave(w) \/ Goto(w, "failing")
    /\ UNCHANGED <<task, creating, jobs, operator, returned, lost, forced>>

\* The off-by-one: retry until the attempts exceed the maximum.
FailOnceMore(w) ==
    LET t == worker[w].task
        retry == t \notin Unsupported /\ worker[w].attempt <= MaxAttempts[t]
    IN  /\ worker[w].at = "failing"
        /\ task' = [task EXCEPT ![t].status = IF retry THEN "retrying" ELSE "failed",
                                ![t].due = ~retry]
        /\ Leave(w)
        /\ UNCHANGED <<creating, jobs, operator, returned, lost, forced>>

\* A failure that keeps the lease and goes on to the admin notification.
FailKeepingTask(w) ==
    LET t == worker[w].task
        retry == t \notin Unsupported /\ worker[w].attempt < MaxAttempts[t]
    IN  /\ worker[w].at = "failing"
        /\ task' = [task EXCEPT ![t].status = IF retry THEN "retrying" ELSE "running",
                                ![t].due = ~retry]
        /\ Leave(w)
        /\ UNCHANGED <<creating, jobs, operator, returned, lost, forced>>

\* finishTaskFailure, by the attempt the claim returned.  When its UPDATE
\* throws the task stays as it is.
Fail(w) ==
    LET t == worker[w].task
        retry == t \notin Unsupported /\ worker[w].attempt < MaxAttempts[t]
    IN  /\ worker[w].at = "failing"
        /\ \/ /\ task' = [task EXCEPT ![t].status = IF retry THEN "retrying" ELSE "failed",
                                      ![t].due = ~retry]
              /\ UNCHANGED lost
           \/ /\ lost' = lost \cup {t}
              /\ UNCHANGED task
        /\ Leave(w)
        /\ UNCHANGED <<creating, jobs, operator, returned, forced>>

\* The process stops.  Nothing releases a task it was running.
Die(w) ==
    /\ worker[w].at # "idle"
    /\ lost' = lost \cup {worker[w].task}
    /\ Leave(w)
    /\ UNCHANGED <<task, creating, jobs, operator, returned, forced>>

-----------------------------------------------------------------------------
(* transitionTask, cancelTask                                              *)

BeginTransition(o, t, status) ==
    /\ operator[o] = NoTransition
    /\ task[t].status \notin Terminal \cup {"absent"}
    /\ task[t].attempts < MaxForcedAttempts
    /\ operator' = [operator EXCEPT ![o] = [task |-> t, status |-> status]]
    /\ UNCHANGED <<task, creating, jobs, worker, returned, lost, forced>>

\* The UPDATE names the row by its id alone; next_retry_at is whatever the
\* request says, or NULL.
WriteTransition(o) ==
    LET t == operator[o].task
        status == operator[o].status
    IN  /\ t # NoTask
        /\ \E due \in BOOLEAN :
             task' = [task EXCEPT ![t].status = status, ![t].due = due]
        /\ forced' = IF status = "cancelled" THEN forced ELSE forced \cup {t}
        /\ operator' = [operator EXCEPT ![o] = NoTransition]
        /\ UNCHANGED <<creating, jobs, worker, returned, lost>>

-----------------------------------------------------------------------------

Execute(w) == Start(w) \/ Handle(w) \/ Succeed(w) \/ RecordSuccess(w) \/ Fail(w)

Next ==
    \/ \E t \in Task : Create(t) \/ FinishCreate(t) \/ RetryDue(t)
    \/ \E w \in Poller : Poll(w)
    \/ \E w \in Consumer : Consume(w)
    \/ \E w \in Worker : Execute(w) \/ Die(w)
    \/ \E o \in Operator, t \in Task, status \in OperatorStatus :
         BeginTransition(o, t, status)
    \/ \E o \in Operator : WriteTransition(o)

Spec == Init /\ [][Next]_vars

\* The poll is a cron job, time passes, and a handler that was called comes
\* back: nothing is assumed of the queue, of operators, or of createTask.
Fairness ==
    /\ \A w \in Poller : WF_vars(Poll(w)) /\ WF_vars(Execute(w))
    /\ \A w \in Consumer : WF_vars(Execute(w))
    /\ \A t \in Task : WF_vars(RetryDue(t))

FairSpec == Spec /\ Fairness

-----------------------------------------------------------------------------
(* Properties                                                              *)

Holds(w, t) == worker[w].at # "idle" /\ worker[w].task = t

\* A task is executed by one worker at a time, and while it is no claim can
\* take it, though jobs come twice, workers die, and a task is cancelled
\* while it runs: as long as no operator puts it back.
OneExecution ==
    \A t \in Task \ forced :
        \A w \in Worker :
            Holds(w, t) => /\ task[t].status \notin Runnable
                           /\ \A v \in Worker : Holds(v, t) => v = w

\* max_attempts is respected although the claims never look at it: a task
\* that has used its attempts is never runnable again.
AttemptsBounded ==
    \A t \in Task \ forced :
        /\ task[t].attempts <= MaxAttempts[t]
        /\ task[t].status \in Runnable => task[t].attempts < MaxAttempts[t]
        /\ \A w \in Worker : Holds(w, t) => worker[w].attempt = task[t].attempts

\* A running task has a worker, unless one lost it: there is no lease by
\* which such a task would be taken up again.
RunningIsHeld ==
    \A t \in Task \ (forced \cup lost) :
        task[t].status = "running" => \E w \in Worker : Holds(w, t)

\* A task that has succeeded has a handler's result, and one without a
\* handler never does.
SucceededReturned ==
    \A t \in Task \ forced :
        /\ task[t].status = "succeeded" => t \in returned
        /\ t \in Unsupported => t \notin returned

\* A task that was not created is blank; a worker that is about to record a
\* success has a result of a registered handler.
Prefixes ==
    /\ \A t \in Task : task[t].status = "absent" =>
         task[t].attempts = 0 /\ \A w \in Worker : ~Holds(w, t)
    /\ \A w \in Worker :
         /\ worker[w].at \in {"returned", "recorded"} => worker[w].task \in returned
         /\ worker[w].at \in {"handler", "returned", "recorded"} =>
              worker[w].task \notin Unsupported
         /\ worker[w].at = "recorded" /\ worker[w].task \notin forced =>
              task[worker[w].task].status # "running"

\* The inductive invariant behind the four.
IInv == /\ OneExecution /\ AttemptsBounded /\ RunningIsHeld /\ SucceededReturned
        /\ Prefixes

\* When no worker holds a terminal task and no operator has read it before,
\* nothing changes it any more.
Settled(t) ==
    /\ task[t].status \in Terminal
    /\ \A w \in Worker : ~Holds(w, t)
    /\ \A o \in Operator : operator[o].task # t

SettledStays ==
    [][\A t \in Task : Settled(t) =>
         task'[t].status = task[t].status /\ task'[t].attempts = task[t].attempts]_vars

\* Every task that is created comes to a terminal status and stays there,
\* whatever becomes of its queue job, unless a worker lost it.
EveryTaskEnds ==
    \A t \in Task :
        [](task[t].status # "absent" =>
             <>[](task[t].status \in Terminal \/ t \in lost \cup forced))

\* transitionTask refuses a terminal task ('terminal task cannot
\* transition'): a terminal status is final.
TerminalIsFinal ==
    [][\A t \in Task : task[t].status \in Terminal => task'[t].status = task[t].status]_vars
=============================================================================
