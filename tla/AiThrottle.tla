---------------------------- MODULE AiThrottle ----------------------------
(***************************************************************************)
(* The concurrency limits and the cooldown of the AI gateway               *)
(* (ai-gateway-throttle.service.ts): every upstream call takes a slot of   *)
(* its source and of its user there, and gives both back.  The counters    *)
(* are the process's own or Redis's; health is always the process's.       *)
(*                                                                         *)
(* The limits per API key and per account, the rate windows and            *)
(* throttle_fail_open are off, as they are by default.                     *)
(***************************************************************************)
EXTENDS Integers

CONSTANTS
    Source,          \* source, model and capability: the limits' unit
    User,
    SourceLimit,     \* max_source_concurrency; 0 switches the limit off
    UserLimit,       \* max_user_concurrency; 0 switches the limit off
    FailureThreshold \* cooldown_failure_threshold

ASSUME LimitsAssumption ==
    SourceLimit \in Nat /\ UserLimit \in Nat /\ FailureThreshold \in Nat \ {0}

VARIABLES
    redis,           \* redis_limits_enabled
    active,          \* the counters of the source and of its users
    health           \* failures in a row, and whether the source cools down

throttle == <<redis, active, health>>

NoneActive == [source |-> [s \in Source |-> 0], user |-> [s \in Source |-> [u \in User |-> 0]]]
Healthy == [failures |-> 0, cooling |-> FALSE]

ThrottleTypeOK ==
    /\ redis \in BOOLEAN
    /\ active \in [source : [Source -> Nat], user : [Source -> [User -> Nat]]]
    /\ health \in [Source -> [failures : 0 .. FailureThreshold, cooling : BOOLEAN]]

ThrottleInit ==
    /\ redis \in BOOLEAN
    /\ active = NoneActive
    /\ health = [s \in Source |-> Healthy]

-----------------------------------------------------------------------------

Free(count, limit) == limit = 0 \/ count < limit

Count(count, limit) == IF limit = 0 THEN count ELSE count + 1

Drop(count) == IF count = 0 THEN 0 ELSE count - 1

Granted(s, u) ==
    /\ ~health[s].cooling
    /\ Free(active.source[s], SourceLimit)
    /\ Free(active.user[s][u], UserLimit)

Take(s, u) ==
    active' = [active EXCEPT !.source[s] = Count(@, SourceLimit),
                             !.user[s][u] = Count(@, UserLimit)]

\* The source's slot is there but the user's is not.
UserFull(s, u) ==
    /\ ~health[s].cooling
    /\ Free(active.source[s], SourceLimit)
    /\ ~Free(active.user[s][u], UserLimit)

\* acquireMemory takes the counters one after the other and throws at the
\* first that is full; the Redis script checks all of them first.
Refuse(s, u) ==
    /\ ~Granted(s, u)
    /\ IF UserFull(s, u) /\ ~redis
       THEN active' = [active EXCEPT !.source[s] = Count(@, SourceLimit)]
       ELSE UNCHANGED active

Release(s, u) ==
    active' = [active EXCEPT !.source[s] = Drop(@), !.user[s][u] = Drop(@)]

RecordSuccess(s) == health' = [health EXCEPT ![s] = Healthy]

\* A failure that counts: the threshold starts a cooldown, and the count
\* stays where it is when the cooldown is over.
RecordFailure(s) ==
    LET n == health[s].failures + 1 IN
    health' = [health EXCEPT
                 ![s] = [failures |-> IF n > FailureThreshold THEN FailureThreshold ELSE n,
                         cooling |-> @.cooling \/ n >= FailureThreshold]]

CooledDown(s) ==
    /\ health[s].cooling
    /\ health' = [health EXCEPT ![s].cooling = FALSE]
    /\ UNCHANGED <<redis, active>>

\* Ten minutes after the last slot was taken Redis forgets the counter,
\* whatever still runs.
Expire(s) ==
    /\ redis /\ active.source[s] > 0
    /\ active' = [active EXCEPT !.source[s] = 0, !.user[s] = [u \in User |-> 0]]
    /\ UNCHANGED <<redis, health>>

\* What a restart of the process leaves.
Restart ==
    /\ active' = IF redis THEN active ELSE NoneActive
    /\ health' = [s \in Source |-> Healthy]
    /\ UNCHANGED redis
=============================================================================
