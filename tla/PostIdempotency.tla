-------------------------- MODULE PostIdempotency --------------------------
(***************************************************************************)
(* Concurrent POST /posts requests that carry the same X-Idempotency-Key   *)
(* of the same user (app/domain/posts/idempotency.py and create_post of    *)
(* app/domain/posts/router.py), over the Redis lock of app/infra/lock.py.  *)
(* Each Redis command and the database commit is one step.  A lock token   *)
(* is random, so the request that owns it stands for it.                   *)
(***************************************************************************)
EXTENDS Naturals, FiniteSets

CONSTANTS
    Requests,   \* the requests with this key
    NoRequest,
    MaxFaults   \* bound on Redis errors, dead requests and lock expiries

ASSUME NoRequestAssumption == NoRequest \notin Requests
ASSUME MaxFaultsAssumption == MaxFaults \in Nat

VARIABLES
    pc,      \* where each request is
    todo,    \* Redis commands its after-hook has still to finish
    lock,    \* value of the lock key: the holder's token
    result,  \* value of the result key: whose response is stored
    posts,   \* requests whose post is committed
    faults

vars == <<pc, todo, lock, result, posts, faults>>

TypeOK ==
    /\ pc \in [Requests -> {"start", "missed", "creating", "finishing", "answered",
                            "replayed", "conflict", "dead"}]
    /\ todo \in [Requests -> SUBSET {"store", "release"}]
    /\ lock \in Requests \cup {NoRequest}
    /\ result \in Requests \cup {NoRequest}
    /\ posts \subseteq Requests
    /\ faults \in 0..MaxFaults
    /\ \A r \in Requests : todo[r] # {} => pc[r] = "finishing"

Init ==
    /\ pc = [r \in Requests |-> "start"]
    /\ todo = [r \in Requests |-> {}]
    /\ lock = NoRequest
    /\ result = NoRequest
    /\ posts = {}
    /\ faults = 0

Fault == faults < MaxFaults /\ faults' = faults + 1

-----------------------------------------------------------------------------
(* post_create_idempotency_before *)

\* GET of the result key: a hit replays the stored response.
GetResult(r) ==
    /\ pc[r] = "start"
    /\ pc' = [pc EXCEPT ![r] = IF result # NoRequest THEN "replayed" ELSE "missed"]
    /\ UNCHANGED <<todo, lock, result, posts, faults>>

\* Mutated: plain SET, without NX.
OverwriteLock(r) ==
    /\ pc[r] = "missed"
    /\ pc' = [pc EXCEPT ![r] = "creating"]
    /\ lock' = r
    /\ UNCHANGED <<todo, result, posts, faults>>

\* SET NX of the lock key: taken goes on, held is a 409.
TryAcquireLock(r) ==
    /\ pc[r] = "missed"
    /\ IF lock = NoRequest
       THEN lock' = r /\ pc' = [pc EXCEPT ![r] = "creating"]
       ELSE pc' = [pc EXCEPT ![r] = "conflict"] /\ UNCHANGED lock
    /\ UNCHANGED <<todo, result, posts, faults>>

\* A Redis error fails open; a SET whose reply was lost may have applied.
RedisFailsOpen(r) ==
    /\ Fault
    /\ \/ pc[r] = "start" /\ UNCHANGED lock
       \/ pc[r] = "missed" /\ lock' \in {lock, IF lock = NoRequest THEN r ELSE lock}
    /\ pc' = [pc EXCEPT ![r] = "creating"]
    /\ UNCHANGED <<todo, result, posts>>

-----------------------------------------------------------------------------
(* create_post and the after-hooks *)

\* The post commits; its result and the lock are then written in parallel.
CreatePost(r) ==
    /\ pc[r] = "creating"
    /\ posts' = posts \cup {r}
    /\ pc' = [pc EXCEPT ![r] = "finishing"]
    /\ todo' = [todo EXCEPT ![r] = {"store", "release"}]
    /\ UNCHANGED <<lock, result, faults>>

\* A rejected or failed creation only releases the lock, also when the post
\* was committed and just the answer to COMMIT was lost.
CreateFails(r) ==
    /\ pc[r] = "creating"
    /\ \/ UNCHANGED <<posts, faults>>
       \/ posts' = posts \cup {r} /\ Fault
    /\ pc' = [pc EXCEPT ![r] = "finishing"]
    /\ todo' = [todo EXCEPT ![r] = {"release"}]
    /\ UNCHANGED <<lock, result>>

Finish(r, command) ==
    /\ command \in todo[r]
    /\ todo' = [todo EXCEPT ![r] = @ \ {command}]
    /\ pc' = [pc EXCEPT ![r] = IF todo'[r] = {} THEN "answered" ELSE @]

StoreSuccessResult(r) ==
    /\ Finish(r, "store")
    /\ result' = r
    /\ UNCHANGED <<lock, posts, faults>>

\* Mutated: DEL without comparing the token.
ReleaseAnyLock(r) ==
    /\ Finish(r, "release")
    /\ lock' = NoRequest
    /\ UNCHANGED <<result, posts, faults>>

\* Compare-and-delete: frees the key only while it holds this token.
ReleaseIfHeld(r) ==
    /\ Finish(r, "release")
    /\ lock' = IF lock = r THEN NoRequest ELSE lock
    /\ UNCHANGED <<result, posts, faults>>

\* Both hooks swallow Redis errors.
HookFails(r, command) ==
    /\ Fault
    /\ Finish(r, command)
    /\ UNCHANGED <<lock, result, posts>>

\* Mutated: a cancelled request leaves its hooks running.
DiesLeavingHooks(r) ==
    /\ Fault
    /\ pc[r] \in {"start", "missed", "creating", "finishing"}
    /\ pc' = [pc EXCEPT ![r] = "dead"]
    /\ UNCHANGED <<todo, lock, result, posts>>

\* Cancelled or crashed: neither hook runs to its end.
Dies(r) ==
    /\ Fault
    /\ pc[r] \in {"start", "missed", "creating", "finishing"}
    /\ pc' = [pc EXCEPT ![r] = "dead"]
    /\ todo' = [todo EXCEPT ![r] = {}]
    /\ UNCHANGED <<lock, result, posts>>

\* Mutated: the lock is set without a TTL.
NeverExpires ==
    /\ lock # NoRequest /\ FALSE
    /\ UNCHANGED vars

\* The TTL runs out.  While the holder still works this is a fault (a
\* creation slower than 120s); after it, the safety net.
LockExpires ==
    /\ lock # NoRequest
    /\ IF pc[lock] \in {"creating", "finishing"} THEN Fault ELSE UNCHANGED faults
    /\ lock' = NoRequest
    /\ UNCHANGED <<pc, todo, result, posts>>

-----------------------------------------------------------------------------
RequestNext(r) ==
    \/ GetResult(r) \/ TryAcquireLock(r) \/ RedisFailsOpen(r)
    \/ CreatePost(r) \/ CreateFails(r) \/ StoreSuccessResult(r) \/ ReleaseIfHeld(r)
    \/ \E command \in {"store", "release"} : HookFails(r, command)
    \/ Dies(r)

Next == LockExpires \/ \E r \in Requests : RequestNext(r)

Spec == Init /\ [][Next]_vars

\* Requests run to an answer or die; a TTL that nobody cuts short runs out.
RequestProceeds(r) ==
    \/ GetResult(r) \/ TryAcquireLock(r) \/ CreatePost(r) \/ CreateFails(r)
    \/ StoreSuccessResult(r) \/ ReleaseIfHeld(r)

FairSpec ==
    /\ Spec
    /\ WF_vars(LockExpires)
    /\ \A r \in Requests : WF_vars(RequestProceeds(r))

-----------------------------------------------------------------------------
(* Properties *)

\* Creations of one key that overlap are at most one more than the faults
\* met so far: each Redis error that fails open, each lock that expires under
\* its holder admits one extra request, and nothing else does.
CreatorsBounded ==
    Cardinality({r \in Requests : pc[r] = "creating"}) <= 1 + faults

\* A request that ends late leaves the next request's lock alone: only the
\* holder's own command, or the TTL, takes the key away from its holder
\* (RELEASE_LOCK_LUA).
OnlyHolderReleases ==
    [][\A r \in Requests : lock = r /\ lock' # r =>
          \/ "release" \in todo[r] /\ "release" \notin todo'[r]
          \/ lock' = NoRequest /\ UNCHANGED <<pc, todo>>]_vars

\* A key never answers 409 for ever: whatever dies, the lock comes free.
LockComesFree == \A r \in Requests : lock = r ~> lock # r

\* Retries and double clicks with one key create one post (ADR 0008).
AtMostOnePost == Cardinality(posts) <= 1

=============================================================================
