--------------------------- MODULE DeliveryProofs ---------------------------
(***************************************************************************)
(* Delivery through SNS for any number of notifications, tasks, tries and  *)
(* faults: without one of the named causes nothing is sent twice.          *)
(***************************************************************************)
EXTENDS Delivery, TLAPS

(* Leaves are tried with Zenon, those with arithmetic then with SMT.       *)
USE ZenonT(4), SMTT(30), SMTT(40), ZenonT(60)

(* What is assumed of the constants.                                       *)
Sound == Notes # {} /\ MaxTries \in Nat

Places == {"free", "load", "check", "publish", "mark"}
Tasks == [kind : {"free", "inline", "job"}, n : Notes, at : Places, try : Nat]

Typed == /\ task \in [Slots -> Tasks] /\ queue \in [Notes -> Nat]
         /\ published \in [Notes -> Nat] /\ marks \subseteq Notes

Sending == {"publish", "mark"}
Sends(x, n) == x.n = n /\ x.at \in Sending
Excused(E, n) == \E e \in E : e[1] = n

(* Of a notification that is not excused one delivery at a time is past    *)
(* the look at the mark; before its message none was sent, and after its   *)
(* message the mark is set, or that delivery is about to set it.           *)
(* DuplicatesAreExcused alone does not say who may still publish.          *)
Once(n) ==
    Excused(excused, n) \/
        /\ published[n] \in {0, 1}
        /\ \A s, q \in Slots : Sends(task[s], n) /\ Sends(task[q], n) => s = q
        /\ \A s \in Slots : task[s].n = n /\ task[s].at = "publish" => published[n] = 0
        /\ published[n] = 1 => n \in marks \/ \E s \in Slots : task[s].n = n /\ task[s].at = "mark"

SendInv == Typed /\ \A n \in Notes : Once(n)
-----------------------------------------------------------------------------
\* A slot without a task.
LEMMA FreeTyped == ASSUME Sound PROVE Free \in Tasks /\ Free.at = "free"
BY DEF Sound, Free, Tasks, Places

\* How a step moves the task of a slot.
LEMMA PutMoves ==
  ASSUME Typed, NEW s \in Slots, NEW x \in Tasks, task' = [task EXCEPT ![s] = x]
  PROVE  task' \in [Slots -> Tasks] /\ task'[s] = x /\ \A q \in Slots \ {s} : task'[q] = task[q]
BY DEF Typed

\* The end of a task.
LEMMA EndMoves ==
  ASSUME Sound, Typed, NEW s \in Slots, End(s)
  PROVE  task' \in [Slots -> Tasks] /\ task'[s].at = "free" /\ \A q \in Slots \ {s} : task'[q] = task[q]
BY FreeTyped, PutMoves DEF End

\* The next call of a task.
LEMMA GotoMoves ==
  ASSUME Typed, NEW s \in Slots, NEW at \in Places, Goto(s, at)
  PROVE  /\ task' \in [Slots -> Tasks] /\ task'[s].at = at /\ task'[s].n = task[s].n
         /\ \A q \in Slots \ {s} : task'[q] = task[q]
<1>1. task[s] \in Tasks BY DEF Typed
<1> DEFINE x == [task[s] EXCEPT !.at = at]
<1>2. x \in Tasks /\ x.at = at /\ x.n = task[s].n BY <1>1 DEF Tasks
<1>3. task' = [task EXCEPT ![s] = x] BY DEF Goto
<1> HIDE DEF x
<1> QED BY <1>2, <1>3, PutMoves

\* A step that sends no message, or is excused for it, and lets nobody past
\* the look at the mark.
LEMMA Calm ==
  ASSUME SendInv, Typed', excused \subseteq excused',
         \A n \in Notes : \/ Excused(excused', n)
                          \/ published'[n] = published[n] /\ (n \in marks => n \in marks'),
         \A s \in Slots : \/ task'[s] = task[s]
                          \/ /\ task'[s].at \notin Sending
                             /\ task[s].at = "mark" => Excused(excused', task[s].n) \/ task[s].n \in marks'
  PROVE  SendInv'
<1> SUFFICES ASSUME NEW n \in Notes, ~Excused(excused', n) PROVE Once(n)'
  BY DEF SendInv, Once
<1>1. ~Excused(excused, n) BY DEF Excused
<1>2. published'[n] = published[n] /\ (n \in marks => n \in marks') OBVIOUS
<1>3. \A s \in Slots : task'[s].at \in Sending => task'[s] = task[s] OBVIOUS
<1>4. \A s \in Slots : task[s].n = n /\ task[s].at = "mark" => n \in marks' \/ task'[s] = task[s] OBVIOUS
<1>5. Once(n) BY DEF SendInv
<1>6. published'[n] \in {0, 1} BY <1>1, <1>2, <1>5 DEF Once
<1>7. \A s, q \in Slots : Sends(task'[s], n) /\ Sends(task'[q], n) => s = q
  BY <1>1, <1>3, <1>5 DEF Once, Sends
<1>8. \A s \in Slots : task'[s].n = n /\ task'[s].at = "publish" => published'[n] = 0
  BY <1>1, <1>2, <1>3, <1>5 DEF Once, Sending
<1>9. published'[n] = 1 => n \in marks' \/ \E s \in Slots : task'[s].n = n /\ task'[s].at = "mark"
  BY <1>1, <1>2, <1>4, <1>5 DEF Once
<1> QED BY <1>6, <1>7, <1>8, <1>9 DEF Once

\* A cause that is noted.
LEMMA ExcuseNotes ==
  ASSUME NEW n, NEW why, Excuse(n, why)
  PROVE  Excused(excused', n) /\ excused \subseteq excused'
<1>1. <<n, why>> \in excused' /\ excused \subseteq excused' BY DEF Excuse
<1>2. <<n, why>>[1] = n OBVIOUS
<1> QED BY <1>1, <1>2 DEF Excused

\* A delivery that fails is retried or given up.
LEMMA FailedMoves ==
  ASSUME Sound, Typed, NEW s \in Slots, Failed(s)
  PROVE  /\ task' \in [Slots -> Tasks] /\ task'[s].at = "free" /\ \A q \in Slots \ {s} : task'[q] = task[q]
         /\ queue' \in [Notes -> Nat]
<1>1. End(s) BY DEF Failed
<1>2. task[s] \in Tasks BY DEF Typed
<1>3. task[s].n \in Notes /\ task[s].try + 1 \in Nat BY <1>2 DEF Tasks
<1>4. queue' \in [Notes -> Nat] BY <1>3 DEF Failed, Typed
<1> QED BY <1>1, <1>4, EndMoves
-----------------------------------------------------------------------------
\* Events, the queue and the start of deliveries.
LEMMA DispatchKeeps ==
  ASSUME Sound, SendInv,
         \/ \E n \in Notes : commit(n) \/ _dispatch_sns_publish(n) \/ purge_old(n)
         \/ \E s \in Slots : start_job(s)
         \/ shutdown
  PROVE  SendInv'
<1>0. Typed BY DEF SendInv
<1>1. CASE (\E n \in Notes : commit(n) \/ purge_old(n)) \/ shutdown
  <2>1. UNCHANGED <<task, queue, published, marks, excused>> BY <1>1 DEF commit, purge_old, shutdown
  <2>2. Typed' BY <1>0, <2>1 DEF Typed
  <2> QED BY <2>1, <2>2, Calm
<1>2. ASSUME NEW s \in Slots, NEW x \in Tasks, task' = [task EXCEPT ![s] = x], task[s] = Free,
             x.at \notin Sending, queue' \in [Notes -> Nat], UNCHANGED <<published, marks, excused>>
      PROVE  SendInv'
  <2>1. task' \in [Slots -> Tasks] /\ task'[s] = x /\ \A q \in Slots \ {s} : task'[q] = task[q]
    BY <1>0, <1>2, PutMoves
  <2>2. Typed' BY <1>0, <1>2, <2>1 DEF Typed
  <2>3. task[s].at # "mark" BY <1>2, FreeTyped
  <2> QED BY <1>2, <2>1, <2>2, <2>3, Calm
<1>3. ASSUME NEW n \in Notes, _dispatch_sns_publish(n) PROVE SendInv'
  <2>1. UNCHANGED <<published, marks, excused>> /\ queue' \in [Notes -> Nat]
    BY <1>0, <1>3 DEF _dispatch_sns_publish, Typed
  <2>2. CASE UNCHANGED task
    <3>1. Typed' BY <1>0, <2>1, <2>2 DEF Typed
    <3> QED BY <2>1, <2>2, <3>1, Calm
  <2>3. ASSUME NEW s \in Slots, _schedule_sns_publish(s, n) PROVE SendInv'
    <3> DEFINE x == [kind |-> "inline", n |-> n, at |-> "check", try |-> 1]
    <3>1. x \in Tasks /\ x.at \notin Sending BY DEF Tasks, Places, Sending
    <3>2. task[s] = Free /\ task' = [task EXCEPT ![s] = x] BY <2>3 DEF _schedule_sns_publish
    <3> QED BY <1>2, <2>1, <3>1, <3>2
  <2> QED BY <1>3, <2>2, <2>3 DEF _dispatch_sns_publish
<1>4. ASSUME NEW s \in Slots, start_job(s) PROVE SendInv'
  <2>1. PICK n \in Notes : /\ task[s] = Free
                           /\ task' = [task EXCEPT ![s] = [kind |-> "job", n |-> n, at |-> "load", try |-> queue[n]]]
                           /\ queue' = [queue EXCEPT ![n] = NoJob]
                           /\ UNCHANGED <<published, marks, excused>>
    BY <1>4 DEF start_job
  <2>2. PICK k \in Nat : k = queue[n] BY <1>0 DEF Typed
  <2> DEFINE x == [kind |-> "job", n |-> n, at |-> "load", try |-> k]
  <2>3. x \in Tasks /\ x.at \notin Sending BY DEF Tasks, Places, Sending
  <2>4. queue' \in [Notes -> Nat] BY <1>0, <2>1 DEF Typed, NoJob, Sound
  <2>5. task' = [task EXCEPT ![s] = x] BY <2>1, <2>2
  <2> QED BY <1>2, <2>1, <2>3, <2>4, <2>5
<1> QED BY <1>1, <1>3, <1>4

\* The row is read again.
LEMMA LoadKeeps == ASSUME Sound, SendInv, NEW s \in Slots, _load_notification(s) PROVE SendInv'
<1>0. Typed BY DEF SendInv
<1>1. task[s].at = "load" /\ UNCHANGED <<published, marks, excused>> BY DEF _load_notification
<1>2. ASSUME task' \in [Slots -> Tasks], queue' \in [Notes -> Nat], task'[s].at \in {"check", "free"},
             \A q \in Slots \ {s} : task'[q] = task[q]
      PROVE  SendInv'
  <2>1. Typed' BY <1>0, <1>1, <1>2 DEF Typed
  <2> QED BY <1>1, <1>2, <2>1, Calm DEF Sending
<1>3. CASE Failed(s) BY <1>0, <1>2, <1>3, FailedMoves
<1>4. CASE End(s) /\ UNCHANGED queue BY <1>0, <1>2, <1>4, EndMoves DEF Typed
<1>5. CASE Goto(s, "check") /\ UNCHANGED queue
  <2>1. PICK at \in Places : at = "check" BY DEF Places
  <2>2. Goto(s, at) BY <1>5, <2>1
  <2> QED BY <1>0, <1>2, <1>5, <2>1, <2>2, GotoMoves DEF Typed
<1> QED BY <1>3, <1>4, <1>5 DEF _load_notification

\* The look at the mark: who passes it without an excuse is alone and first.
LEMMA CheckKeeps == ASSUME Sound, SendInv, NEW s \in Slots, check_delivered(s) PROVE SendInv'
<1>0. Typed /\ task[s] \in Tasks BY DEF SendInv, Typed
<1>1. /\ task[s].at = "check" /\ UNCHANGED <<published, marks, queue>> /\ excused \subseteq excused'
      /\ task[s].n \in Notes
  BY <1>0 DEF check_delivered, Excuse, Tasks
<1>2. CASE End(s)
  <2>1. task' \in [Slots -> Tasks] /\ task'[s].at = "free" /\ \A q \in Slots \ {s} : task'[q] = task[q]
    BY <1>0, <1>2, EndMoves
  <2>2. Typed' BY <1>0, <1>1, <2>1 DEF Typed
  <2> QED BY <1>1, <2>1, <2>2, Calm DEF Sending
<1>3. CASE Goto(s, "publish")
  <2>1. PICK at \in Places : at = "publish" BY DEF Places
  <2>2. Goto(s, at) BY <1>3, <2>1
  <2>3. /\ task' \in [Slots -> Tasks] /\ task'[s].at = "publish" /\ task'[s].n = task[s].n
        /\ \A q \in Slots \ {s} : task'[q] = task[q]
    BY <1>0, <2>1, <2>2, GotoMoves
  <2>4. Typed' BY <1>0, <1>1, <2>3 DEF Typed
  <2>5. \/ Excused(excused', task[s].n)
        \/ /\ task[s].n \notin marks
           /\ \A q \in Slots \ {s} : ~(task[q].n = task[s].n /\ task[q].at \in Sending)
    <3>1. CASE Excuse(task[s].n, "mark not read") BY <3>1, ExcuseNotes
    <3>2. CASE Excuse(task[s].n, "overlap") BY <3>2, ExcuseNotes
    <3>3. CASE /\ task[s].n \notin marks
               /\ ~\E q \in Others(s, task[s].n) : task[q].at \in {"publish", "mark"}
      <4>1. \A q \in Slots \ {s} : task[q].at \in Sending => task[q] # Free BY FreeTyped DEF Sending
      <4> QED BY <3>3, <4>1 DEF Others, Sending
    <3>4. task[s].at = "check" /\ ~(End(s) /\ Goto(s, "publish"))
      BY <1>1, <2>3, FreeTyped, EndMoves, <1>0
    <3> QED BY <1>3, <3>1, <3>2, <3>3, <3>4 DEF check_delivered
  <2>6. ASSUME NEW n \in Notes PROVE Once(n)'
    <3>1. Once(n) BY DEF SendInv
    <3>2. CASE Excused(excused', n) BY <3>2 DEF Once
    <3>3. CASE ~Excused(excused', n) /\ n # task[s].n
      <4>1. ~Excused(excused, n) BY <1>1, <3>3 DEF Excused
      <4>2. \A q \in Slots : task'[q].n = n => q # s /\ task'[q] = task[q] BY <2>3, <3>3
      <4>3. \A q \in Slots : task[q].n = n => task'[q] = task[q] BY <2>3, <3>3
      <4> QED BY <1>1, <3>1, <4>1, <4>2, <4>3 DEF Once, Sends
    <3>4. CASE ~Excused(excused', n) /\ n = task[s].n
      <4>1. ~Excused(excused, n) BY <1>1, <3>4 DEF Excused
      <4>2. n \notin marks /\ \A q \in Slots : ~(task[q].n = n /\ task[q].at \in Sending)
        BY <1>1, <2>5, <3>4 DEF Sending
      <4>3. published[n] = 0 BY <3>1, <4>1, <4>2 DEF Once, Sending
      <4>4. \A q \in Slots : task'[q].n = n /\ task'[q].at \in Sending => q = s BY <2>3, <4>2
      <4>6. published'[n] = 0 BY <1>1, <4>3
      <4>7. \A r, q \in Slots : Sends(task'[r], n) /\ Sends(task'[q], n) => r = q
        BY <4>4 DEF Sends
      <4> QED BY <4>6, <4>7 DEF Once
    <3> QED BY <3>2, <3>3, <3>4
  <2> QED BY <2>4, <2>6 DEF SendInv
<1> QED BY <1>2, <1>3 DEF check_delivered

\* The message: the one delivery of an unexcused notification sends the one.
LEMMA PublishKeeps == ASSUME Sound, SendInv, NEW s \in Slots, publish_sns(s) PROVE SendInv'
<1>0. Typed /\ task[s] \in Tasks BY DEF SendInv, Typed
<1>1. task[s].at = "publish" /\ UNCHANGED marks /\ task[s].n \in Notes
  BY <1>0 DEF publish_sns, Tasks
<1>2. PICK m \in Notes : m = task[s].n BY <1>1
<1>3. PICK k \in Nat : k = published[m] BY <1>0 DEF Typed
<1>4. k + 1 \in Nat BY <1>3
<1> DEFINE sent == [published EXCEPT ![m] = k + 1]
<1>5. sent \in [Notes -> Nat] /\ sent[m] = k + 1 /\ \A n \in Notes \ {m} : sent[n] = published[n]
  BY <1>0, <1>4 DEF Typed
<1>6. \/ published' = sent /\ Goto(s, "mark") /\ UNCHANGED <<queue, excused>>
      \/ Failed(s) /\ UNCHANGED <<published, excused>>
      \/ Failed(s) /\ published' = sent /\ Excuse(m, "answer lost")
  BY <1>2, <1>3 DEF publish_sns
<1> HIDE DEF sent
<1>7. CASE Failed(s) /\ UNCHANGED <<published, excused>>
  <2>1. /\ task' \in [Slots -> Tasks] /\ task'[s].at = "free" /\ \A q \in Slots \ {s} : task'[q] = task[q]
        /\ queue' \in [Notes -> Nat]
    BY <1>0, <1>7, FailedMoves
  <2>2. Typed' BY <1>0, <1>1, <1>7, <2>1 DEF Typed
  <2> QED BY <1>1, <1>7, <2>1, <2>2, Calm DEF Sending
<1>8. CASE Failed(s) /\ published' = sent /\ Excuse(m, "answer lost")
  <2>1. /\ task' \in [Slots -> Tasks] /\ task'[s].at = "free" /\ \A q \in Slots \ {s} : task'[q] = task[q]
        /\ queue' \in [Notes -> Nat]
    BY <1>0, <1>8, FailedMoves
  <2>2. Typed' BY <1>0, <1>1, <1>5, <1>8, <2>1 DEF Typed
  <2>3. Excused(excused', m) /\ excused \subseteq excused' BY <1>8, ExcuseNotes
  <2> QED BY <1>1, <1>5, <1>8, <2>1, <2>2, <2>3, Calm DEF Sending
<1>9. CASE published' = sent /\ Goto(s, "mark") /\ UNCHANGED <<queue, excused>>
  <2>1. PICK at \in Places : at = "mark" BY DEF Places
  <2>2. Goto(s, at) BY <1>9, <2>1
  <2>3. /\ task' \in [Slots -> Tasks] /\ task'[s].at = "mark" /\ task'[s].n = m
        /\ \A q \in Slots \ {s} : task'[q] = task[q]
    BY <1>0, <1>2, <2>1, <2>2, GotoMoves
  <2>4. Typed' BY <1>0, <1>1, <1>5, <1>9, <2>3 DEF Typed
  <2>5. ASSUME NEW n \in Notes PROVE Once(n)'
    <3>1. Once(n) BY DEF SendInv
    <3>2. CASE Excused(excused, n) BY <1>9, <3>2 DEF Once
    <3>3. CASE ~Excused(excused, n) /\ n # m
      <4>1. \A q \in Slots : task'[q].n = n => task'[q] = task[q] BY <2>3, <3>3
      <4>2. \A q \in Slots : task[q].n = n => task'[q] = task[q] BY <1>2, <2>3, <3>3
      <4>3. published'[n] = published[n] BY <1>5, <1>9, <3>3
      <4> QED BY <1>1, <3>1, <3>3, <4>1, <4>2, <4>3 DEF Once, Sends
    <3>4. CASE ~Excused(excused, n) /\ n = m
      <4>1. \A q \in Slots : Sends(task[q], n) => q = s
        BY <1>1, <1>2, <3>1, <3>4 DEF Once, Sends, Sending
      <4>2. \A q \in Slots : Sends(task'[q], n) => q = s BY <2>3, <4>1 DEF Sends
      <4>3. k = 0 BY <1>1, <1>2, <1>3, <3>1, <3>4 DEF Once
      <4>4. published'[n] = 1 BY <1>5, <1>9, <3>4, <4>3
      <4>5. \A q \in Slots : ~(task'[q].n = n /\ task'[q].at = "publish")
        BY <2>3, <4>2 DEF Sends, Sending
      <4>6. task'[s].n = n /\ task'[s].at = "mark" BY <2>3, <3>4
      <4>7. \A r, q \in Slots : Sends(task'[r], n) /\ Sends(task'[q], n) => r = q BY <4>2
      <4> QED BY <4>4, <4>5, <4>6, <4>7 DEF Once
    <3> QED BY <3>2, <3>3, <3>4
  <2> QED BY <2>4, <2>5 DEF SendInv
<1> QED BY <1>6, <1>7, <1>8, <1>9

\* The mark after the message.
LEMMA MarkKeeps ==
  ASSUME Sound, SendInv,
         (\E s \in Slots : mark_delivered(s)) \/ (\E n \in Notes : mark_expires(n))
  PROVE  SendInv'
<1>0. Typed BY DEF SendInv
<1>1. ASSUME NEW s \in Slots, mark_delivered(s) PROVE SendInv'
  <2>1. End(s) /\ UNCHANGED <<queue, published>> BY <1>1 DEF mark_delivered
  <2>2. task' \in [Slots -> Tasks] /\ task'[s].at = "free" /\ \A q \in Slots \ {s} : task'[q] = task[q]
    BY <1>0, <2>1, EndMoves
  <2>3. task[s].n \in Notes
    <3>1. task[s] \in Tasks BY <1>0 DEF Typed
    <3> QED BY <3>1 DEF Tasks
  <2>4. /\ marks \subseteq marks' /\ marks' \subseteq Notes /\ excused \subseteq excused'
        /\ Excused(excused', task[s].n) \/ task[s].n \in marks'
    <3>1. CASE marks' = marks \cup {task[s].n} /\ UNCHANGED excused
      BY <1>0, <2>3, <3>1 DEF Typed
    <3>2. CASE Excuse(task[s].n, "mark not set") /\ UNCHANGED marks
      <4>1. Excused(excused', task[s].n) /\ excused \subseteq excused' BY <3>2, ExcuseNotes
      <4> QED BY <1>0, <3>2, <4>1 DEF Typed
    <3> QED BY <1>1, <3>1, <3>2 DEF mark_delivered
  <2>5. Typed' BY <1>0, <2>1, <2>2, <2>4 DEF Typed
  <2> QED BY <2>1, <2>2, <2>4, <2>5, Calm DEF Sending
<1>2. ASSUME NEW n \in Notes, mark_expires(n) PROVE SendInv'
  <2>1. UNCHANGED <<task, queue, published>> /\ marks' = marks \ {n} BY <1>2 DEF mark_expires
  <2>2. Excuse(n, "mark expired") BY <1>2 DEF mark_expires
  <2>3. Excused(excused', n) /\ excused \subseteq excused' BY <2>2, ExcuseNotes
  <2>4. Typed' BY <1>0, <2>1 DEF Typed
  <2> QED BY <2>1, <2>3, <2>4, Calm
<1> QED BY <1>1, <1>2

\* Processes that die or end: what was about to be marked is excused.
LEMMA CrashKeeps ==
  ASSUME Sound, SendInv, (\E s \in Slots : worker_crash(s)) \/ app_crash \/ drain_sns_inline_tasks
  PROVE  SendInv'
<1>0. Typed BY DEF SendInv
<1>1. ASSUME NEW s \in Slots, worker_crash(s) PROVE SendInv'
  <2>1. Failed(s) /\ UNCHANGED <<marks, published>> BY <1>1 DEF worker_crash
  <2>2. /\ task' \in [Slots -> Tasks] /\ task'[s].at = "free" /\ \A q \in Slots \ {s} : task'[q] = task[q]
        /\ queue' \in [Notes -> Nat]
    BY <1>0, <2>1, FailedMoves
  <2>3. Typed' BY <1>0, <2>1, <2>2 DEF Typed
  <2>4. excused \subseteq excused' /\ (task[s].at = "mark" => Excused(excused', task[s].n))
    <3>1. CASE task[s].at = "mark"
      <4>1. Excuse(task[s].n, "crash") BY <1>1, <3>1 DEF worker_crash
      <4> QED BY <4>1, ExcuseNotes
    <3>2. CASE task[s].at # "mark" BY <1>1, <3>2 DEF worker_crash
    <3> QED BY <3>1, <3>2
  <2> QED BY <2>1, <2>2, <2>3, <2>4, Calm DEF Sending
<1>2. ASSUME NEW why, excused' = Cut(why), UNCHANGED <<queue, marks, published>>,
             task' = [s \in Slots |-> IF Inline(s) THEN Free ELSE task[s]]
      PROVE  SendInv'
  <2>1. excused \subseteq excused' BY <1>2 DEF Cut
  <2>2. task' \in [Slots -> Tasks] BY <1>0, <1>2, FreeTyped DEF Typed
  <2>3. Typed' BY <1>0, <1>2, <2>2 DEF Typed
  <2>4. ASSUME NEW s \in Slots, Inline(s), task[s].at = "mark" PROVE Excused(excused', task[s].n)
    <3>1. <<task[s].n, why>> \in excused' BY <1>2, <2>4 DEF Cut
    <3>2. <<task[s].n, why>>[1] = task[s].n OBVIOUS
    <3> QED BY <3>1, <3>2 DEF Excused
  <2>5. \A s \in Slots : task'[s] = task[s] \/ (Inline(s) /\ task'[s] = Free) BY <1>2
  <2>6. Free.at \notin Sending BY FreeTyped DEF Sending
  <2> QED BY <1>2, <2>1, <2>3, <2>4, <2>5, <2>6, Calm
<1>3. CASE app_crash BY <1>2, <1>3 DEF app_crash
<1>4. CASE drain_sns_inline_tasks
  <2>1. task' = [s \in Slots |-> IF Inline(s) THEN Free ELSE task[s]]
    BY <1>4 DEF drain_sns_inline_tasks
  <2>2. excused' = Cut("cancelled") /\ UNCHANGED <<queue, marks, published>>
    BY <1>4 DEF drain_sns_inline_tasks
  <2> QED BY <1>2, <2>1, <2>2
<1> QED BY <1>1, <1>3, <1>4
-----------------------------------------------------------------------------
(* deliver_once sends a second message of a notification only for one of   *)
(* the causes the model names, whatever fails, dies, expires or overlaps.  *)
THEOREM DuplicatesHaveACause == ASSUME Sound PROVE Spec => []DuplicatesAreExcused
<1>1. Init => SendInv
  <2> SUFFICES ASSUME Init PROVE SendInv OBVIOUS
  <2>1. Typed BY FreeTyped DEF Init, Typed, NoJob, Sound
  <2>2. \A s \in Slots : task[s].at = "free" BY FreeTyped DEF Init
  <2>3. \A n \in Notes : published[n] = 0 BY DEF Init
  <2> QED BY <2>1, <2>2, <2>3 DEF SendInv, Once, Sends, Sending
<1>2. SendInv /\ [Next]_vars => SendInv'
  <2> SUFFICES ASSUME SendInv, [Next]_vars PROVE SendInv' OBVIOUS
  <2>1. CASE \/ \E n \in Notes : commit(n) \/ _dispatch_sns_publish(n) \/ purge_old(n)
             \/ \E s \in Slots : start_job(s)
             \/ shutdown
    BY <2>1, DispatchKeeps
  <2>2. CASE \E s \in Slots : Runs(s)
    <3>1. CASE \E s \in Slots : mark_delivered(s) BY <3>1, MarkKeeps
    <3> QED BY <2>2, <3>1, LoadKeeps, CheckKeeps, PublishKeeps DEF Runs
  <2>3. CASE \E n \in Notes : mark_expires(n) BY <2>3, MarkKeeps
  <2>4. CASE (\E s \in Slots : worker_crash(s)) \/ app_crash \/ drain_sns_inline_tasks
    BY <2>4, CrashKeeps
  <2>5. CASE UNCHANGED vars
    <3>1. UNCHANGED <<task, queue, published, marks, excused>> BY <2>5 DEF vars
    <3>2. Typed' BY <3>1 DEF SendInv, Typed
    <3> QED BY <3>1, <3>2, Calm
  <2> QED BY <2>1, <2>2, <2>3, <2>4, <2>5 DEF Next, Progress
<1>3. SendInv => DuplicatesAreExcused
  <2> SUFFICES ASSUME SendInv, NEW n \in Notes, published[n] > 1 PROVE \E e \in excused : e[1] = n
    BY DEF DuplicatesAreExcused
  <2>1. published[n] \notin {0, 1} OBVIOUS
  <2> QED BY <2>1 DEF SendInv, Once, Excused
<1> QED BY <1>1, <1>2, <1>3, PTL DEF Spec
=============================================================================
