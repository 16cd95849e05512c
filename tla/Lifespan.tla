------------------------------ MODULE Lifespan ------------------------------
(***************************************************************************)
(* The life of the application's instances: the database has to answer,    *)
(* Redis and the queue may not; the cleanup jobs run once before the first *)
(* request and then periodically, each under a lock that all instances and *)
(* the sweep an administrator starts share; shutdown stops the tasks and   *)
(* closes the connections in an order.  Calls of Redis fail with their     *)
(* effect or without, locks expire, processes die.                         *)
(***************************************************************************)
EXTENDS Naturals, Sequences, FiniteSets

CONSTANTS
    Instances,
    Jobs,         \* the jobs of _cleanup_jobs, in their order
    Sweep,        \* the place in Jobs of the one that requests start as well
    Attempts,     \* DB_INIT_MAX_ATTEMPTS
    None,
    MaxPasses,    \* bound: passes, flushes and inline tasks of an instance
    MaxFaults     \* bound: failures, expiries under a running job, cancellations, crashes

VARIABLES
    at,           \* at[i]: where lifespan of i is
    tries,        \* tries[i]: attempts of init_database
    open,         \* open[i]: the connections there are: "db", "redis", "queue"
    pass,         \* pass[p]: a pass over the jobs, p = <<i, "periodic">> or <<i, "sweep">>
    passes,       \* passes[i]: passes, flushes and inline tasks begun
    busy,         \* busy[i]: "flush", "inline", "listener": tasks at work, and
                  \* "cancelled", what is left of an inline publish told to end
    lock,         \* lock[k]: whose token the key of job k holds, None or Lost
    outlived,     \* history: passes whose lock expired under the job they run
    faults

vars == <<at, tries, open, pass, passes, busy, lock, outlived, faults>>

Passes == Instances \X {"periodic", "sweep"}
Fault == faults < MaxFaults /\ faults' = faults + 1
Goto(i, to) == at' = [at EXCEPT ![i] = to]
Begin(n) == [at |-> "lock", n |-> n, token |-> FALSE, last |-> FALSE]
Over == [at |-> "over", n |-> 1, token |-> FALSE, last |-> FALSE]
Set(p, v) == pass' = [pass EXCEPT ![p] = v]
Periodic(i) == <<i, "periodic">>
Lost == <<None, None>>     \* a token nobody knows

(* lifespan, up to the first request.                                      *)
init_database(i) ==
    /\ at[i] = "connecting"
    /\ \/ /\ open' = [open EXCEPT ![i] = {"db"}] /\ Goto(i, "opening") /\ UNCHANGED <<tries, faults>>
       \/ /\ Fault /\ tries' = [tries EXCEPT ![i] = @ + 1] /\ UNCHANGED open
          /\ IF tries[i] + 1 >= Attempts THEN Goto(i, "down") ELSE UNCHANGED at
    /\ UNCHANGED <<pass, passes, busy, lock, outlived>>

(* init_redis and init_queue leave None behind when they fail.             *)
init_redis == {{"redis"}, {}}
init_queue == {{"queue"}, {}}

init_redis_and_queue(i) ==
    /\ at[i] = "opening"
    /\ \E redis \in init_redis, queue \in init_queue :
          /\ open' = [open EXCEPT ![i] = @ \cup redis \cup queue]
          /\ IF {} \in {redis, queue} THEN Fault ELSE UNCHANGED faults
    /\ Goto(i, "first pass") /\ Set(Periodic(i), Begin(1))
    /\ passes' = [passes EXCEPT ![i] = 1]
    /\ UNCHANGED <<tries, busy, lock, outlived>>

(* The tasks: periodic cleanup, the flush of the view buffer if there is   *)
(* Redis, and the listener, which makes connections of its own.            *)
create_tasks(i) ==
    /\ at[i] = "first pass" /\ pass[Periodic(i)] = Over
    /\ Goto(i, "up")
    /\ busy' = [busy EXCEPT ![i] = {"listener"}]
    /\ UNCHANGED <<tries, open, pass, passes, lock, outlived, faults>>
-----------------------------------------------------------------------------
(* run_jobs_once for pass p: each job under its lock.  A job whose lock is *)
(* held is skipped; without Redis, or when it fails, the job runs unlocked.*)
(* A key that was set though the call failed has a token nobody knows.     *)
Key(p) == pass[p].n
next_job(p) ==
    IF pass[p].last \/ p[2] = "sweep" \/ pass[p].n = Len(Jobs) THEN Over ELSE Begin(pass[p].n + 1)
set_nx(k, holder) == IF lock[k] = None THEN [lock EXCEPT ![k] = holder] ELSE lock

try_acquire_job_lock(p) ==
    LET running(token) == [pass[p] EXCEPT !.at = "run", !.token = token] IN
    /\ pass[p].at = "lock"
    /\ \/ /\ "redis" \in open[p[1]] /\ lock' = set_nx(Key(p), p) /\ UNCHANGED faults
          /\ Set(p, IF lock[Key(p)] = None THEN running(TRUE) ELSE next_job(p))
       \/ "redis" \notin open[p[1]] /\ Set(p, running(FALSE)) /\ UNCHANGED <<lock, faults>>
       \/ "redis" \in open[p[1]] /\ Fault /\ lock' \in {lock, set_nx(Key(p), Lost)} /\ Set(p, running(FALSE))
    /\ UNCHANGED <<at, tries, open, passes, busy, outlived>>

(* job.run ends, with a result or an exception.                            *)
run_ends(p) ==
    /\ pass[p].at = "run"
    /\ Set(p, IF pass[p].token THEN [pass[p] EXCEPT !.at = "release"] ELSE next_job(p))
    /\ outlived' = outlived \ {p}
    /\ UNCHANGED <<at, tries, open, passes, busy, lock, faults>>

\* Mutated: DEL without comparing the token.
deleted(p) == [lock EXCEPT ![Key(p)] = None]

released(p) == IF lock[Key(p)] = p THEN [lock EXCEPT ![Key(p)] = None] ELSE lock

release_lock(p) ==
    /\ pass[p].at = "release"
    /\ \/ lock' = released(p) /\ UNCHANGED faults
       \/ Fault /\ lock' \in {lock, released(p)}
    /\ Set(p, next_job(p))
    /\ UNCHANGED <<at, tries, open, passes, busy, outlived>>

(* run_periodic begins another pass until stop_event is set.               *)
run_periodic(i) ==
    /\ at[i] = "up" /\ pass[Periodic(i)] = Over /\ passes[i] < MaxPasses
    /\ Set(Periodic(i), Begin(1))
    /\ passes' = [passes EXCEPT ![i] = @ + 1]
    /\ UNCHANGED <<at, tries, open, busy, lock, outlived, faults>>

(* The request of an administrator: the same job under the same key.       *)
sweep_unused_images_detached(i) ==
    /\ at[i] = "up" /\ pass[<<i, "sweep">>] = Over /\ passes[i] < MaxPasses
    /\ Set(<<i, "sweep">>, Begin(Sweep))
    /\ passes' = [passes EXCEPT ![i] = @ + 1]
    /\ UNCHANGED <<at, tries, open, busy, lock, outlived, faults>>

lock_expires(k) ==
    /\ lock[k] # None
    /\ lock' = [lock EXCEPT ![k] = None]
    /\ LET under == {p \in Passes : lock[k] = p /\ pass[p].at = "run" /\ pass[p].token /\ Key(p) = k} IN
       /\ outlived' = outlived \cup under
       /\ IF under = {} THEN UNCHANGED faults ELSE Fault
    /\ UNCHANGED <<at, tries, open, pass, passes, busy>>

(* A flush of the view buffer, or a publish to SNS from the application:   *)
(* work on Redis and the database that the clock or requests start.        *)
work_starts(i) ==
    /\ at[i] = "up" /\ passes[i] < MaxPasses
    /\ \E w \in {"flush", "inline"} : /\ w = "flush" => "redis" \in open[i]
                                     /\ busy' = [busy EXCEPT ![i] = @ \cup {w}]
    /\ passes' = [passes EXCEPT ![i] = @ + 1]
    /\ UNCHANGED <<at, tries, open, pass, lock, outlived, faults>>

work_ends(i) ==
    /\ \E w \in busy[i] \ {"listener"} : busy' = [busy EXCEPT ![i] = @ \ {w}]
    /\ UNCHANGED <<at, tries, open, pass, passes, lock, outlived, faults>>
-----------------------------------------------------------------------------
(* lifespan after the last request: each task is waited for, and cancelled *)
(* when that takes too long; then the connections go, the database last.   *)
(* The flush and the listener are awaited after the cancellation, the      *)
(* inline publishes are not.                                               *)
Shutdown == <<"cleanup", "flush", "listener", "inline", "queue", "redis", "db">>
After(i) == LET n == CHOOSE k \in DOMAIN Shutdown : Shutdown[k] = at[i]
            IN IF n = Len(Shutdown) THEN "down" ELSE Shutdown[n + 1]

stop_event_set(i) ==
    /\ at[i] = "up" /\ pass[<<i, "sweep">>] = Over
    /\ Goto(i, Shutdown[1])
    /\ UNCHANGED <<tries, open, pass, passes, busy, lock, outlived, faults>>

stop_cleanup(i) ==
    /\ at[i] = "cleanup" /\ pass[Periodic(i)] = Over
    /\ Goto(i, After(i))
    /\ UNCHANGED <<tries, open, pass, passes, busy, lock, outlived, faults>>

(* The cancellation reaches the await the pass is at; a job's finally still*)
(* releases the lock.                                                      *)
cancel_cleanup(i) ==
    LET p == Periodic(i) IN
    /\ at[i] = "cleanup" /\ ~pass[p].last /\ Fault
    /\ \/ pass[p].at = "lock" /\ Set(p, Over) /\ outlived' = outlived
          /\ lock' \in {lock} \cup (IF "redis" \in open[i] THEN {set_nx(Key(p), Lost)} ELSE {})
       \/ /\ pass[p].at = "run" /\ outlived' = outlived \ {p} /\ UNCHANGED lock
          /\ Set(p, IF pass[p].token THEN [pass[p] EXCEPT !.at = "release", !.last = TRUE] ELSE Over)
       \/ pass[p].at = "release" /\ Set(p, Over) /\ lock' \in {lock, released(p)} /\ UNCHANGED outlived
    /\ UNCHANGED <<at, tries, open, passes, busy>>

stop_task(i) ==
    /\ at[i] \in {"flush", "listener"}
    /\ busy' = [busy EXCEPT ![i] = @ \ {at[i]}]
    /\ IF at[i] \in busy[i] \ {"listener"} THEN Fault ELSE UNCHANGED faults
    /\ Goto(i, After(i))
    /\ UNCHANGED <<tries, open, pass, passes, lock, outlived>>

(* The cancelled task is at an await, which raises: it calls Redis no more.*)
(* The thread of its publish goes on by itself, also past the last close.  *)
drain_sns_inline_tasks(i) ==
    /\ at[i] = "inline"
    /\ \/ "inline" \notin busy[i] /\ UNCHANGED <<busy, faults>>
       \/ /\ "inline" \in busy[i] /\ Fault
          /\ busy' = [busy EXCEPT ![i] = (@ \ {"inline"}) \cup {"cancelled"}]
    /\ Goto(i, After(i))
    /\ UNCHANGED <<tries, open, pass, passes, lock, outlived>>

Closes(i, connection) ==
    /\ at[i] = connection
    /\ open' = [open EXCEPT ![i] = @ \ {connection}]
    /\ Goto(i, After(i))
    /\ UNCHANGED <<tries, pass, passes, busy, lock, outlived, faults>>

close_queue(i) == Closes(i, "queue")
close_redis(i) == Closes(i, "redis")
close_database(i) == Closes(i, "db")

(* The process dies; the locks it had are left to expire.                  *)
crash(i) ==
    /\ at[i] # "down" /\ Fault
    /\ Goto(i, "down")
    /\ open' = [open EXCEPT ![i] = {}] /\ busy' = [busy EXCEPT ![i] = {}]
    /\ pass' = [p \in Passes |-> IF p[1] = i THEN Over ELSE pass[p]]
    /\ outlived' = {p \in outlived : p[1] # i}
    /\ UNCHANGED <<tries, passes, lock>>

Init == /\ at = [i \in Instances |-> "connecting"] /\ tries = [i \in Instances |-> 0]
        /\ open = [i \in Instances |-> {}] /\ pass = [p \in Passes |-> Over]
        /\ passes = [i \in Instances |-> 0] /\ busy = [i \in Instances |-> {}]
        /\ lock = [k \in DOMAIN Jobs |-> None] /\ outlived = {} /\ faults = 0

Next ==
    \/ \E i \in Instances :
          \/ init_database(i) \/ init_redis_and_queue(i) \/ create_tasks(i) \/ run_periodic(i)
          \/ sweep_unused_images_detached(i) \/ work_starts(i) \/ work_ends(i) \/ stop_event_set(i) \/ stop_cleanup(i)
          \/ cancel_cleanup(i) \/ stop_task(i) \/ drain_sns_inline_tasks(i) \/ close_queue(i) \/ close_redis(i)
          \/ close_database(i) \/ crash(i)
    \/ \E p \in Passes : try_acquire_job_lock(p) \/ run_ends(p) \/ release_lock(p)
    \/ \E k \in DOMAIN Jobs : lock_expires(k)

Spec == Init /\ [][Next]_vars
-----------------------------------------------------------------------------
(* Types: an instance that serves requests has a database.                 *)
TypeOK == /\ \A i \in Instances : open[i] \subseteq {"db", "redis", "queue"} /\ tries[i] \in 0 .. Attempts
          /\ \A i \in Instances : at[i] = "up" => "db" \in open[i]
          /\ \A k \in DOMAIN Jobs : lock[k] \in Passes \cup {None, Lost}
          /\ faults \in 0 .. MaxFaults

(* Of the passes that run a job under its lock, on any instance and from   *)
(* the periodic runner or a request, there is one at a time, unless the    *)
(* lock expired under the job; no job runs on a connection that shutdown   *)
(* has closed, and once the first is being closed neither flush nor        *)
(* listener is at work, and of the inline publishes at most one that has   *)
(* been cancelled, whose thread needs none of them (run_jobs_once,         *)
(* sweep_unused_images_detached, release_lock, lifespan).                  *)
JobsRunProtected ==
    /\ \A k \in DOMAIN Jobs :
          Cardinality({p \in Passes \ outlived : pass[p].at = "run" /\ pass[p].token /\ Key(p) = k}) <= 1
    /\ \A p \in Passes : pass[p] # Over =>
          "db" \in open[p[1]] /\ (pass[p].token => "redis" \in open[p[1]])
    /\ \A i \in Instances : at[i] \in {"queue", "redis", "db", "down"} => busy[i] \subseteq {"cancelled"}
=============================================================================
