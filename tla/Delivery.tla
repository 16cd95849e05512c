------------------------------ MODULE Delivery ------------------------------
(***************************************************************************)
(* Offline delivery of notifications through SNS.  After the commit the    *)
(* application enqueues a job for the arq worker, or publishes from a task *)
(* of its own when there is no queue or the enqueue fails; both go through *)
(* deliver_once with the same idempotency key.  Calls of the queue, of     *)
(* Redis and of SNS may fail with their effect or without; processes crash;*)
(* the application shuts down.                                             *)
(***************************************************************************)
EXTENDS Naturals, FiniteSets

CONSTANTS
    Notes,       \* notifications
    Slots,       \* places for tasks, of the worker or of the application
    MaxJobs,     \* WorkerSettings.max_jobs
    MaxTries,    \* WorkerSettings.max_tries
    MaxFaults    \* bound: calls that fail, crashes, expiries

VARIABLES
    event,       \* event[n]: "none", "committed", or "dispatched"
    row,         \* row[n]: the notification row exists
    queue,       \* queue[n]: tries of the job of n that is enqueued, MaxTries + 1 for none
    task,        \* task[s]: a delivery under way, or Free
    marks,       \* sns:delivered keys in Redis
    published,   \* published[n]: messages SNS has taken
    has_queue,   \* init_queue succeeded
    app,         \* "up", "draining" or "down"
    faults,
    excused,     \* history: reasons for a second message of n
    dropped      \* history: reasons for no message of n

vars == <<event, row, queue, task, marks, published, has_queue, app, faults, excused, dropped>>

Free == [kind |-> "free", n |-> CHOOSE n \in Notes : TRUE, at |-> "free", try |-> 0]
NoJob == MaxTries + 1
Inline(s) == task[s].kind = "inline"
Jobs == {s \in Slots : task[s].kind = "job"}
Others(s, n) == {q \in Slots \ {s} : task[q] # Free /\ task[q].n = n}
Fault == faults < MaxFaults /\ faults' = faults + 1
Goto(s, at) == task' = [task EXCEPT ![s].at = at]
End(s) == task' = [task EXCEPT ![s] = Free]
Excuse(n, why) == excused' = excused \cup {<<n, why>>}
Drop(n, why) == dropped' = dropped \cup {<<n, why>>}

commit(n) == /\ event[n] = "none" /\ app = "up"
             /\ event' = [event EXCEPT ![n] = "committed"]
             /\ row' = [row EXCEPT ![n] = TRUE]
             /\ UNCHANGED <<queue, task, marks, published, has_queue, app, faults, excused, dropped>>

(* _dispatch_sns_publish: enqueue_job; on an error, or without a queue, a  *)
(* task in this process.  The job may be in the queue although the call    *)
(* failed.                                                                 *)
_schedule_sns_publish(s, n) ==
    task[s] = Free /\ task' = [task EXCEPT ![s] = [kind |-> "inline", n |-> n, at |-> "check", try |-> 1]]

_dispatch_sns_publish(n) ==
    /\ event[n] = "committed" /\ app # "down"
    /\ event' = [event EXCEPT ![n] = "dispatched"]
    /\ \/ has_queue /\ queue' = [queue EXCEPT ![n] = 1] /\ UNCHANGED <<task, faults>>
       \/ ~has_queue /\ UNCHANGED <<queue, faults>> /\ \E s \in Slots : _schedule_sns_publish(s, n)
       \/ /\ has_queue /\ Fault
          /\ queue' \in {queue, [queue EXCEPT ![n] = 1]}
          /\ \E s \in Slots : _schedule_sns_publish(s, n)
    /\ UNCHANGED <<row, marks, published, has_queue, app, excused, dropped>>

(* The worker takes a job; the row is read again, and a row that is gone   *)
(* ends the job for good.                                                  *)
start_job(s) ==
    \E n \in Notes :
        /\ queue[n] # NoJob /\ task[s] = Free /\ Cardinality(Jobs) < MaxJobs
        /\ task' = [task EXCEPT ![s] = [kind |-> "job", n |-> n, at |-> "load", try |-> queue[n]]]
        /\ queue' = [queue EXCEPT ![n] = NoJob]
        /\ UNCHANGED <<event, row, marks, published, has_queue, app, faults, excused, dropped>>

(* deliver_notification_sns: an exception becomes a Retry until max_tries; *)
(* the task of the application only logs it.                               *)
retries(s) == ~Inline(s) /\ task[s].try < MaxTries
Failed(s) ==
    LET n == task[s].n IN
    /\ End(s)
    /\ IF retries(s)
       THEN queue' = [queue EXCEPT ![n] = task[s].try + 1] /\ UNCHANGED dropped
       ELSE Drop(n, IF Inline(s) THEN "inline failed" ELSE "tries used up") /\ UNCHANGED queue

_load_notification(s) ==
    LET n == task[s].n IN
    /\ task[s].at = "load"
    /\ \/ row[n] /\ Goto(s, "check") /\ UNCHANGED <<queue, faults, dropped>>
       \/ ~row[n] /\ End(s) /\ Drop(n, "row gone") /\ UNCHANGED <<queue, faults>>
       \/ Fault /\ Failed(s)
    /\ UNCHANGED <<event, row, marks, published, has_queue, app, excused>>

\* Mutated: nobody looks for the mark.
check_nothing(s) ==
    /\ task[s].at = "check" /\ Goto(s, "publish")
    /\ UNCHANGED <<event, row, queue, marks, published, has_queue, app, faults, excused, dropped>>

\* Mutated: the mark is set before the message is published.
mark_first(s) ==
    LET n == task[s].n IN
    /\ task[s].at = "check"
    /\ \/ n \in marks /\ End(s) /\ UNCHANGED marks
       \/ n \notin marks /\ Goto(s, "publish") /\ marks' = marks \cup {n}
    /\ UNCHANGED <<event, row, queue, published, has_queue, app, faults, excused, dropped>>

(* deliver_once: look for the mark, publish, and mark only then.           *)
check_delivered(s) ==
    LET n == task[s].n IN
    /\ task[s].at = "check"
    /\ \/ n \in marks /\ End(s) /\ UNCHANGED <<faults, excused>>
       \/ /\ n \notin marks /\ Goto(s, "publish") /\ UNCHANGED faults
          /\ IF \E q \in Others(s, n) : task[q].at \in {"publish", "mark"}
             THEN Excuse(n, "overlap") ELSE UNCHANGED excused
       \/ Fault /\ Goto(s, "publish") /\ Excuse(n, "mark not read")
    /\ UNCHANGED <<event, row, queue, marks, published, has_queue, app, dropped>>

publish_sns(s) ==
    LET n == task[s].n
        sent == [published EXCEPT ![n] = @ + 1]
    IN  /\ task[s].at = "publish"
        /\ \/ published' = sent /\ Goto(s, "mark") /\ UNCHANGED <<queue, faults, dropped, excused>>
           \/ Fault /\ Failed(s) /\ UNCHANGED <<published, excused>>
           \/ Fault /\ Failed(s) /\ published' = sent /\ Excuse(n, "answer lost")
        /\ UNCHANGED <<event, row, marks, has_queue, app>>

mark_delivered(s) ==
    LET n == task[s].n IN
    /\ task[s].at = "mark" /\ End(s)
    /\ \/ marks' = marks \cup {n} /\ UNCHANGED <<faults, excused>>
       \/ Fault /\ Excuse(n, "mark not set") /\ UNCHANGED marks
    /\ UNCHANGED <<event, row, queue, published, has_queue, app, dropped>>
-----------------------------------------------------------------------------
(* The mark outlives WORKER_IDEMPOTENCY_TTL_SECONDS; purge_old or the purge*)
(* of the recipient deletes the row; the worker dies, and the job it had is*)
(* run again; the application dies with its tasks.                         *)
mark_expires(n) ==
    /\ n \in marks /\ Fault
    /\ marks' = marks \ {n} /\ Excuse(n, "mark expired")
    /\ UNCHANGED <<event, row, queue, task, published, has_queue, app, dropped>>

purge_old(n) ==
    /\ row[n] /\ row' = [row EXCEPT ![n] = FALSE]
    /\ UNCHANGED <<event, queue, task, marks, published, has_queue, app, faults, excused, dropped>>

worker_crash(s) ==
    LET n == task[s].n IN
    /\ s \in Jobs /\ Fault /\ Failed(s)
    /\ IF task[s].at = "mark" THEN Excuse(n, "crash") ELSE UNCHANGED excused
    /\ UNCHANGED <<event, row, marks, published, has_queue, app>>

Cut(why) == excused \cup {<<task[s].n, why>> : s \in {q \in Slots : Inline(q) /\ task[q].at = "mark"}}
Lost == {n \in Notes : event[n] = "committed"} \cup {task[s].n : s \in {q \in Slots : Inline(q)}}
app_crash ==
    /\ app # "down" /\ Fault /\ app' = "down"
    /\ task' = [s \in Slots |-> IF Inline(s) THEN Free ELSE task[s]]
    /\ dropped' = dropped \cup {<<n, "crash">> : n \in Lost}
    /\ excused' = Cut("crash")
    /\ event' = [n \in Notes |-> IF event[n] = "committed" THEN "dispatched" ELSE event[n]]
    /\ UNCHANGED <<row, queue, marks, published, has_queue>>

(* lifespan's end: requests finish, drain_sns_inline_tasks waits for the   *)
(* tasks and cancels those that take too long.  The thread of a publish    *)
(* goes on without its task: for the marks and the messages that is the    *)
(* same as a task cancelled after its publish and before its mark.         *)
shutdown == /\ app = "up" /\ app' = "draining"
            /\ UNCHANGED <<event, row, queue, task, marks, published, has_queue, faults, excused, dropped>>

drain_sns_inline_tasks ==
    /\ app = "draining" /\ \A n \in Notes : event[n] # "committed"
    /\ app' = "down"
    /\ LET late == {s \in Slots : Inline(s)} IN
       /\ late # {} => Fault
       /\ late = {} => UNCHANGED faults
       /\ task' = [s \in Slots |-> IF s \in late THEN Free ELSE task[s]]
       /\ dropped' = dropped \cup {<<task[s].n, "cancelled">> : s \in late}
       /\ excused' = Cut("cancelled")
    /\ UNCHANGED <<event, row, queue, marks, published, has_queue>>

Init == /\ event = [n \in Notes |-> "none"] /\ row = [n \in Notes |-> FALSE]
        /\ queue = [n \in Notes |-> NoJob] /\ task = [s \in Slots |-> Free]
        /\ marks = {} /\ published = [n \in Notes |-> 0] /\ has_queue \in BOOLEAN
        /\ app = "up" /\ faults = 0 /\ excused = {} /\ dropped = {}

Runs(s) == _load_notification(s) \/ check_delivered(s) \/ publish_sns(s) \/ mark_delivered(s)
Progress == (\E n \in Notes : _dispatch_sns_publish(n)) \/ (\E s \in Slots : Runs(s) \/ start_job(s))
Next == \/ Progress
        \/ \E n \in Notes : commit(n) \/ mark_expires(n) \/ purge_old(n)
        \/ \E s \in Slots : worker_crash(s)
        \/ app_crash \/ shutdown \/ drain_sns_inline_tasks

Spec == Init /\ [][Next]_vars
FairSpec == Spec /\ WF_vars(Progress)
-----------------------------------------------------------------------------
(* Types: a job has tries left, and the worker runs at most max_jobs.      *)
TypeOK == /\ \A n \in Notes : queue[n] \in 1 .. NoJob
          /\ \A s \in Slots : task[s].try \in 0 .. MaxTries
          /\ marks \subseteq Notes /\ faults \in 0 .. MaxFaults
          /\ Cardinality(Jobs) <= MaxJobs

(* A second message is sent only when the mark could not be read, set or   *)
(* kept, an answer was lost, a process died between publishing and marking *)
(* or two deliveries of the same notification ran at the same time.  An    *)
(* enqueue that failed after the fact, with its task in the application,   *)
(* is not by itself enough.                                                *)
DuplicatesAreExcused == \A n \in Notes : published[n] > 1 => \E e \in excused : e[1] = n

Settled(n) == published[n] > 0 \/ \E d \in dropped : d[1] = n

(* Every notification that is committed is published, or given up for a    *)
(* reason the code states: its row is gone, the tries are used up, or the  *)
(* application's own task failed, was cancelled at shutdown or died with   *)
(* it.  No retry mistakes an attempt that failed for a delivery            *)
(* (deliver_once marks only after publishing).                             *)
EventuallyDelivered == \A n \in Notes : event[n] = "committed" ~> Settled(n)
=============================================================================
