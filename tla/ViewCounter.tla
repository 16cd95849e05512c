---------------------------- MODULE ViewCounter ----------------------------
(***************************************************************************)
(* View counting: get_post_detail and _track_view buffer views in a Redis  *)
(* hash, flush_view_counts_to_db moves them to the posts table under a     *)
(* Redis lock (app/domain/posts/services/post_service.py).  Every Redis    *)
(* command and every database transaction is one step; flushers of several *)
(* instances overlap when the lock expires under its holder.               *)
(*                                                                         *)
(* A fault is a command that raises.  Its effect may have been applied all *)
(* the same (a reply lost to a socket timeout, a COMMIT whose answer never *)
(* arrived).  `excused' records which of the two ways of miscounting the   *)
(* faults so far can explain, so that the properties say exactly which     *)
(* faults the code absorbs.                                                *)
(***************************************************************************)
EXTENDS Naturals, FiniteSets

CONSTANTS
    Requests,    \* GET /posts/{id} requests
    Posts,
    PostOf,      \* the post each request reads
    ViewerOf,    \* its viewer_key
    Flushers,    \* instances running _view_buffer_flush_loop
    NoFlusher,
    MaxFaults

ASSUME RequestAssumption ==
    IsFiniteSet(Requests) /\ PostOf \in [Requests -> Posts] /\ DOMAIN ViewerOf = Requests
ASSUME FlusherAssumption ==
    IsFiniteSet(Flushers) /\ NoFlusher \notin Flushers /\ MaxFaults \in Nat

VARIABLES
    rpc, shown,          \* request: place, view_count of its response
    seen,                \* dedup keys <<viewer, post>>
    buffer,              \* views:{v}:buffer
    db,                  \* posts.view_count
    fpc, drain,          \* flusher: place, drained views it still answers for
    lock,
    views,               \* views admitted so far
    faults, excused

requestVars == <<rpc, shown, seen, views>>
flushVars == <<fpc, drain, lock>>
vars == <<rpc, shown, seen, buffer, db, fpc, drain, lock, views, faults, excused>>

Bound == (Cardinality(Requests) + 1) * (2 + MaxFaults)

Nothing == [p \in Posts |-> 0]

Keys == {<<ViewerOf[r], PostOf[r]>> : r \in Requests}

TypeOK ==
    /\ rpc \in [Requests -> {"start", "read", "fresh", "duplicate", "direct", "done"}]
    /\ shown \in [Requests -> 0..Bound]
    /\ seen \subseteq Keys
    /\ buffer \in [Posts -> 0..Bound] /\ db \in [Posts -> 0..Bound]
    /\ fpc \in [Flushers -> {"idle", "locked", "drained", "committed", "merging", "release"}]
    /\ drain \in [Flushers -> [Posts -> 0..Bound]]
    /\ lock \in Flushers \cup {NoFlusher}
    /\ views \in [Posts -> 0..Bound]
    /\ faults \in 0..MaxFaults
    /\ excused \subseteq {"lost", "twice"}
    /\ \A f \in Flushers : drain[f] # Nothing => fpc[f] \in {"drained", "merging"}

\* Redis outlives the instances: it may hold dedup keys and a buffered view.
Init ==
    /\ rpc = [r \in Requests |-> "start"]
    /\ shown = [r \in Requests |-> 0]
    /\ seen \in SUBSET Keys /\ db = Nothing
    /\ buffer \in [Posts -> 0..1] /\ views = buffer
    /\ fpc = [f \in Flushers |-> "idle"]
    /\ drain = [f \in Flushers |-> Nothing]
    /\ lock = NoFlusher
    /\ faults = 0 /\ excused = {}

NoFault == UNCHANGED <<faults, excused>>

Fault(kinds) ==
    /\ faults < MaxFaults
    /\ faults' = faults + 1
    /\ excused' = excused \cup kinds

Go(r, place) == rpc' = [rpc EXCEPT ![r] = place]
Admit(p) == views' = [views EXCEPT ![p] = @ + 1]
Answer(r, n) == shown' = [shown EXCEPT ![r] = @ + n]

-----------------------------------------------------------------------------
(* A request *)

\* The row is read first, from a replica that may lag.
ReadPost(r) ==
    /\ rpc[r] = "start"
    /\ \E n \in 0..db[PostOf[r]] : shown' = [shown EXCEPT ![r] = n]
    /\ Go(r, "read")
    /\ UNCHANGED <<seen, views, buffer, db, flushVars>> /\ NoFault

\* SET NX of the dedup key admits the view or finds it a repetition.
Dedup(r) ==
    LET key == <<ViewerOf[r], PostOf[r]>> IN
    /\ rpc[r] = "read"
    /\ IF key \in seen
       THEN Go(r, "duplicate") /\ UNCHANGED <<seen, views>>
       ELSE Go(r, "fresh") /\ seen' = seen \cup {key} /\ Admit(PostOf[r])
    /\ UNCHANGED <<shown, buffer, db, flushVars>> /\ NoFault

\* HINCRBY, whose reply is the pending count of the answer.
BufferView(r) ==
    /\ rpc[r] = "fresh"
    /\ buffer' = [buffer EXCEPT ![PostOf[r]] = @ + 1]
    /\ Answer(r, buffer'[PostOf[r]])
    /\ Go(r, "done")
    /\ UNCHANGED <<seen, views, db, flushVars>> /\ NoFault

\* Mutated: a repetition is shown as one more view.
ShowRepetition(r) ==
    /\ rpc[r] = "duplicate"
    /\ Answer(r, buffer[PostOf[r]] + 1)
    /\ Go(r, "done")
    /\ UNCHANGED <<seen, views, buffer, db, flushVars>> /\ NoFault

ReadPending(r) ==
    /\ rpc[r] = "duplicate"
    /\ Answer(r, buffer[PostOf[r]])
    /\ Go(r, "done")
    /\ UNCHANGED <<seen, views, buffer, db, flushVars>> /\ NoFault

\* Fail-open: any Redis error sends the view to the database instead.  An
\* HINCRBY that was applied, or a repetition, is then counted once too often.
TrackViewFails(r) ==
    LET p == PostOf[r] key == <<ViewerOf[r], p>> IN
    /\ \/ /\ rpc[r] = "read"
          /\ seen' \in {seen, seen \cup {key}} /\ Admit(p)
          /\ UNCHANGED buffer /\ Fault({})
       \/ /\ rpc[r] = "fresh"
          /\ \/ UNCHANGED buffer /\ Fault({})
             \/ buffer' = [buffer EXCEPT ![p] = @ + 1] /\ Fault({"twice"})
          /\ UNCHANGED <<seen, views>>
       \/ /\ rpc[r] = "duplicate"
          /\ UNCHANGED <<seen, views, buffer>> /\ Fault({"twice"})
    /\ Go(r, "direct")
    /\ UNCHANGED <<shown, db, flushVars>>

DirectIncrement(r) ==
    /\ rpc[r] = "direct"
    /\ db' = [db EXCEPT ![PostOf[r]] = @ + 1]
    /\ Answer(r, 1)
    /\ Go(r, "done")
    /\ UNCHANGED <<seen, views, buffer, flushVars>> /\ NoFault

\* The request is cancelled, or its database fallback fails too, perhaps
\* after the COMMIT took effect.
RequestDies(r) ==
    LET p == PostOf[r] IN
    /\ \/ rpc[r] = "fresh" /\ UNCHANGED db
       \/ rpc[r] = "direct" /\ db' \in {db, [db EXCEPT ![p] = @ + 1]}
    /\ Fault({"lost"})
    /\ Go(r, "done")
    /\ UNCHANGED <<shown, seen, views, buffer, flushVars>>

DedupExpires(key) ==
    /\ key \in seen
    /\ seen' = seen \ {key}
    /\ UNCHANGED <<rpc, shown, views, buffer, db, flushVars>> /\ NoFault

-----------------------------------------------------------------------------
(* flush_view_counts_to_db *)

Step(f, place) == fpc' = [fpc EXCEPT ![f] = place]

\* SET NX; a flusher that finds the lock taken skips this round.
TryAcquireLock(f) ==
    /\ fpc[f] = "idle" /\ lock = NoFlusher
    /\ lock' = f
    /\ Step(f, "locked")
    /\ UNCHANGED <<requestVars, buffer, db, drain>> /\ NoFault

\* The SET raises: the round is skipped, the lock perhaps left to its TTL.
AcquireFails(f) ==
    /\ fpc[f] = "idle"
    /\ Fault({})
    /\ lock' \in {lock, IF lock = NoFlusher THEN f ELSE lock}
    /\ UNCHANGED <<requestVars, buffer, db, fpc, drain>>

\* Mutated: the buffer is copied to the drain key, not renamed.
CopyBuffer(f) ==
    /\ fpc[f] = "locked"
    /\ drain' = [drain EXCEPT ![f] = buffer]
    /\ Step(f, IF buffer = Nothing THEN "release" ELSE "drained")
    /\ UNCHANGED <<requestVars, buffer, db, lock>> /\ NoFault

\* rename_if_exists: the buffer becomes this round's drain hash.
RenameBuffer(f) ==
    /\ fpc[f] = "locked"
    /\ drain' = [drain EXCEPT ![f] = buffer]
    /\ buffer' = Nothing
    /\ Step(f, IF buffer = Nothing THEN "release" ELSE "drained")
    /\ UNCHANGED <<requestVars, db, lock>> /\ NoFault

\* The rename raises, applied or not; either way the drain hash is re-merged.
RenameFails(f) ==
    /\ fpc[f] = "locked"
    /\ Fault({})
    /\ \/ drain' = [drain EXCEPT ![f] = buffer] /\ buffer' = Nothing
       \/ drain' = [drain EXCEPT ![f] = Nothing] /\ UNCHANGED buffer
    /\ Step(f, "merging")
    /\ UNCHANGED <<requestVars, db, lock>>

Forget(f) == drain' = [drain EXCEPT ![f] = Nothing]

AddDrained(f) == db' = [p \in Posts |-> db[p] + drain[f][p]]

\* Mutated: the round goes on answering for views it has committed.
CommitKeepsDrain(f) ==
    /\ fpc[f] = "drained"
    /\ AddDrained(f)
    /\ Step(f, "committed")
    /\ UNCHANGED <<requestVars, buffer, drain, lock>> /\ NoFault

\* HGETALL and the transaction that adds every field.
FlushCommits(f) ==
    /\ fpc[f] = "drained"
    /\ AddDrained(f)
    /\ Forget(f)
    /\ Step(f, "committed")
    /\ UNCHANGED <<requestVars, buffer, lock>> /\ NoFault

\* Mutated: the failure is logged and the drain hash forgotten.
FlushGivesUp(f) ==
    /\ fpc[f] = "drained"
    /\ Fault({})
    /\ Forget(f)
    /\ Step(f, "release")
    /\ UNCHANGED <<requestVars, buffer, db, lock>>

\* HGETALL or the transaction raises and the drain hash is re-merged.  When
\* only the answer to COMMIT was lost the views are in the table already.
FlushFails(f) ==
    /\ fpc[f] = "drained"
    /\ \/ UNCHANGED db /\ Fault({})
       \/ AddDrained(f) /\ Fault({"twice"})
    /\ Step(f, "merging")
    /\ UNCHANGED <<requestVars, buffer, drain, lock>>

\* merge_hash_into: one HINCRBY per field, then DEL.
MergeField(f, p) ==
    /\ fpc[f] = "merging" /\ drain[f][p] > 0
    /\ buffer' = [buffer EXCEPT ![p] = @ + drain[f][p]]
    /\ drain' = [drain EXCEPT ![f][p] = 0]
    /\ UNCHANGED <<requestVars, db, fpc, lock>> /\ NoFault

Loss(f) == IF drain[f] = Nothing THEN {} ELSE {"lost"}

\* A command of the merge raises: the fields not yet merged stay in a hash
\* that nobody reads again.
MergeFails(f) ==
    /\ fpc[f] = "merging"
    /\ Fault(Loss(f))
    /\ \/ UNCHANGED buffer
       \/ \E p \in Posts : buffer' = [buffer EXCEPT ![p] = @ + drain[f][p]]
    /\ Forget(f)
    /\ Step(f, "release")
    /\ UNCHANGED <<requestVars, db, lock>>

\* DEL of the drain hash: best effort after the commit, the merge's last
\* command otherwise.
DeleteDrain(f) ==
    /\ fpc[f] = "committed" \/ (fpc[f] = "merging" /\ drain[f] = Nothing)
    /\ Step(f, "release")
    /\ UNCHANGED <<requestVars, buffer, db, drain, lock>> /\ NoFault

\* The finally block: compare-and-delete, which swallows its errors.
ReleaseLock(f) ==
    /\ fpc[f] = "release"
    /\ \/ lock' = (IF lock = f THEN NoFlusher ELSE lock) /\ NoFault
       \/ UNCHANGED lock /\ Fault({})
    /\ Step(f, "idle")
    /\ UNCHANGED <<requestVars, buffer, db, drain>>

\* The instance dies, or shutdown cancels the flush after 30s.
FlusherDies(f) ==
    /\ fpc[f] # "idle"
    /\ Fault(Loss(f))
    /\ Forget(f)
    /\ Step(f, "idle")
    /\ UNCHANGED <<requestVars, buffer, db, lock>>

\* Mutated: the lock has no TTL.
LockStays ==
    /\ lock # NoFlusher /\ FALSE
    /\ UNCHANGED vars

\* The TTL runs out, perhaps under a slow holder.
LockExpires ==
    /\ lock # NoFlusher
    /\ lock' = NoFlusher
    /\ UNCHANGED <<requestVars, buffer, db, fpc, drain>> /\ NoFault

-----------------------------------------------------------------------------
RequestNext(r) ==
    \/ ReadPost(r) \/ Dedup(r) \/ BufferView(r) \/ ReadPending(r)
    \/ TrackViewFails(r) \/ DirectIncrement(r) \/ RequestDies(r)

FlushNext(f) ==
    \/ TryAcquireLock(f) \/ AcquireFails(f) \/ RenameBuffer(f) \/ RenameFails(f)
    \/ FlushCommits(f) \/ FlushFails(f) \/ MergeFails(f) \/ DeleteDrain(f)
    \/ ReleaseLock(f) \/ FlusherDies(f)
    \/ \E p \in Posts : MergeField(f, p)

Next ==
    \/ \E r \in Requests : RequestNext(r)
    \/ \E key \in Keys : DedupExpires(key)
    \/ \E f \in Flushers : FlushNext(f)
    \/ LockExpires

Spec == Init /\ [][Next]_vars

\* The loop of every instance keeps ticking, a round goes on to its end, and
\* the TTL runs out.  A flusher can start a round infinitely often whenever
\* the lock is free infinitely often; that it is free at one of its ticks is
\* the strong part.
FlushProceeds(f) ==
    \/ RenameBuffer(f) \/ FlushCommits(f) \/ DeleteDrain(f) \/ ReleaseLock(f)
    \/ \E p \in Posts : MergeField(f, p)

FairSpec ==
    /\ Spec
    /\ WF_vars(LockExpires)
    /\ \A f \in Flushers : SF_vars(TryAcquireLock(f)) /\ WF_vars(FlushProceeds(f))

-----------------------------------------------------------------------------
(* Properties *)

\* Views of p between the buffer and the table, numbered by the flusher that
\* answers for them.
InFlight(p) == Cardinality(UNION {{f} \X (1..drain[f][p]) : f \in Flushers})

\* Admitted views that have not been counted anywhere yet.
Pending(p) ==
    Cardinality({r \in Requests : PostOf[r] = p /\ rpc[r] \in {"fresh", "direct"}})

\* No admitted view is lost: overlapping flushers, lock expiry, a rename or a
\* transaction that raises, a lost COMMIT answer and the fallback to the
\* database all keep it.  Only a dead process, or a second error that hits the
\* re-merge itself, can lose one.
NoViewLost ==
    "lost" \notin excused =>
        \A p \in Posts : db[p] + buffer[p] + InFlight(p) + Pending(p) >= views[p]

\* No view is counted twice, whatever dies and however rounds overlap, unless
\* a reply was lost for a command that had been applied (HINCRBY, COMMIT), or
\* Redis failed on a repetition: the re-merge of flush_view_counts_to_db.
NoViewTwice ==
    "twice" \notin excused =>
        \A p \in Posts : db[p] + buffer[p] + InFlight(p) <= views[p]

\* The count shown, the row read first and the buffer read later, never runs
\* ahead of the views admitted, even when a flush moves the buffer to the
\* table in between (get_post_detail).
ShownNeverAhead ==
    "twice" \notin excused => \A r \in Requests : shown[r] <= views[PostOf[r]]

\* Buffered views reach the table: whatever died with the lock, the buffer is
\* emptied again.
BufferIsFlushed == \A p \in Posts : buffer[p] > 0 ~> buffer[p] = 0

=============================================================================
