------------------------ MODULE PostIdempotencyProofs ------------------------
(***************************************************************************)
(* Proofs about PostIdempotency, for any set of requests with one key and  *)
(* any number of faults.                                                   *)
(***************************************************************************)
EXTENDS PostIdempotency, FiniteSetTheorems, TLAPS

(* Leaves are tried with Zenon, those with arithmetic then with SMT.       *)
USE ZenonT(4), SMTT(30), SMTT(40), ZenonT(60)

USE NoRequestAssumption, MaxFaultsAssumption

States == {"start", "missed", "creating", "finishing", "answered", "replayed", "conflict", "dead"}

(* The types, with the places named once.                                  *)
Typed ==
    /\ pc \in [Requests -> States]
    /\ todo \in [Requests -> SUBSET {"store", "release"}]
    /\ lock \in Requests \cup {NoRequest}
    /\ result \in Requests \cup {NoRequest}
    /\ posts \subseteq Requests
    /\ faults \in 0..MaxFaults
    /\ \A r \in Requests : todo[r] # {} => pc[r] = "finishing"

(* The creations under way that do not hold the lock.  Each of them came   *)
(* with a fault: the lock was not asked for, its answer was lost, or it    *)
(* expired.  CreatorsBounded alone does not say so and is not inductive:   *)
(* it would let a request take the lock with 1 + faults creating already.  *)
Outsiders == {r \in Requests : pc[r] = "creating" /\ lock # r}

IndInv == Typed /\ IsFiniteSet(Outsiders) /\ Cardinality(Outsiders) <= faults

\* A step that adds nobody to those outside the lock.
LEMMA NoNewcomer ==
  ASSUME IndInv, Typed', Outsiders' \subseteq Outsiders, faults' >= faults
  PROVE  IndInv'
<1>1. IsFiniteSet(Outsiders') /\ Cardinality(Outsiders') <= Cardinality(Outsiders)
  BY FS_Subset DEF IndInv
<1>2. Cardinality(Outsiders) \in Nat /\ Cardinality(Outsiders') \in Nat
  BY <1>1, FS_CardinalityType DEF IndInv
<1> QED BY <1>1, <1>2 DEF IndInv, Typed

\* One element more is at most one more.
LEMMA OneMore ==
  ASSUME NEW S, NEW x, IsFiniteSet(S)
  PROVE  IsFiniteSet(S \cup {x}) /\ Cardinality(S \cup {x}) <= Cardinality(S) + 1
<1>1. Cardinality(S) \in Nat BY FS_CardinalityType
<1>2. /\ IsFiniteSet(S \cup {x})
      /\ Cardinality(S \cup {x}) = IF x \in S THEN Cardinality(S) ELSE Cardinality(S) + 1
  BY FS_AddElement
<1> QED BY <1>1, <1>2

\* A step that puts one request outside the lock costs a fault.
LEMMA NewcomerIsAFault ==
  ASSUME IndInv, Typed', NEW r, Outsiders' \subseteq Outsiders \cup {r}, faults' = faults + 1
  PROVE  IndInv'
<1>1. /\ IsFiniteSet(Outsiders \cup {r})
      /\ Cardinality(Outsiders \cup {r}) <= Cardinality(Outsiders) + 1
  BY OneMore DEF IndInv
<1>2. IsFiniteSet(Outsiders') /\ Cardinality(Outsiders') <= Cardinality(Outsiders \cup {r})
  BY <1>1, FS_Subset
<1>3. /\ Cardinality(Outsiders) \in Nat /\ Cardinality(Outsiders') \in Nat
      /\ Cardinality(Outsiders \cup {r}) \in Nat
  BY <1>1, <1>2, FS_CardinalityType DEF IndInv
<1> QED BY <1>1, <1>2, <1>3 DEF IndInv, Typed

\* The types hold at the start.
LEMMA TypedInit == ASSUME Init PROVE Typed
BY DEF Init, Typed, States

\* Every step keeps the types.
LEMMA TypedStep == ASSUME Typed, [Next]_vars PROVE Typed'
<1> USE DEF Typed, States
<1>1. CASE UNCHANGED vars BY <1>1 DEF vars
<1>2. CASE LockExpires BY <1>2 DEF LockExpires, Fault
<1>3. ASSUME NEW r \in Requests, RequestNext(r) PROVE Typed'
  <2>1. CASE GetResult(r) BY <2>1 DEF GetResult
  <2>2. CASE TryAcquireLock(r) BY <2>2 DEF TryAcquireLock
  <2>3. CASE RedisFailsOpen(r) BY <2>3 DEF RedisFailsOpen, Fault
  <2>4. CASE CreatePost(r) BY <2>4 DEF CreatePost
  <2>5. CASE CreateFails(r) BY <2>5 DEF CreateFails, Fault
  <2>6. CASE StoreSuccessResult(r) BY <2>6 DEF StoreSuccessResult, Finish
  <2>7. CASE ReleaseIfHeld(r) BY <2>7 DEF ReleaseIfHeld, Finish
  <2>8. ASSUME NEW command \in {"store", "release"}, HookFails(r, command) PROVE Typed'
    BY <2>8 DEF HookFails, Finish, Fault
  <2>9. CASE Dies(r) BY <2>9 DEF Dies, Fault
  <2> QED BY <1>3, <2>1, <2>2, <2>3, <2>4, <2>5, <2>6, <2>7, <2>8, <2>9 DEF RequestNext
<1> QED BY <1>1, <1>2, <1>3 DEF Next

\* Every step keeps the bound on the creations outside the lock.
LEMMA IndStep == ASSUME IndInv, [Next]_vars PROVE IndInv'
<1>0. Typed /\ Typed' BY TypedStep DEF IndInv
<1> USE DEF Typed, States
<1>1. CASE UNCHANGED vars BY <1>0, <1>1, NoNewcomer DEF vars, Outsiders
<1>2. CASE LockExpires
  <2>1. CASE pc[lock] \in {"creating", "finishing"}
    <3>1. Outsiders' \subseteq Outsiders \cup {lock} /\ faults' = faults + 1
      BY <1>0, <1>2, <2>1 DEF LockExpires, Fault, Outsiders
    <3> QED BY <1>0, <3>1, NewcomerIsAFault
  <2>2. CASE pc[lock] \notin {"creating", "finishing"}
    <3>1. Outsiders' \subseteq Outsiders /\ faults' = faults
      BY <1>0, <1>2, <2>2 DEF LockExpires, Outsiders
    <3> QED BY <1>0, <3>1, NoNewcomer
  <2> QED BY <2>1, <2>2
<1>3. ASSUME NEW r \in Requests, RequestNext(r) PROVE IndInv'
  <2>1. CASE RedisFailsOpen(r)
    <3>1. Outsiders' \subseteq Outsiders \cup {r} /\ faults' = faults + 1
      BY <1>0, <2>1 DEF RedisFailsOpen, Fault, Outsiders
    <3> QED BY <1>0, <3>1, NewcomerIsAFault
  <2>2. CASE TryAcquireLock(r)
    <3>1. Outsiders' \subseteq Outsiders /\ faults' = faults
      BY <1>0, <2>2 DEF TryAcquireLock, Outsiders
    <3> QED BY <1>0, <3>1, NoNewcomer
  <2>3. CASE GetResult(r) \/ CreatePost(r)
    <3>1. Outsiders' \subseteq Outsiders /\ faults' = faults
      BY <1>0, <2>3 DEF GetResult, CreatePost, Outsiders
    <3> QED BY <1>0, <3>1, NoNewcomer
  <2>4. CASE CreateFails(r) \/ Dies(r)
    <3>1. Outsiders' \subseteq Outsiders /\ faults' >= faults
      BY <1>0, <2>4 DEF CreateFails, Dies, Fault, Outsiders
    <3> QED BY <1>0, <3>1, NoNewcomer
  <2>5. CASE StoreSuccessResult(r)
    <3>1. Outsiders' \subseteq Outsiders /\ faults' = faults
      BY <1>0, <2>5 DEF StoreSuccessResult, Finish, Outsiders
    <3> QED BY <1>0, <3>1, NoNewcomer
  <2>6. CASE ReleaseIfHeld(r)
    <3>1. pc[r] = "finishing" BY <1>0, <2>6 DEF ReleaseIfHeld, Finish
    <3>2. Outsiders' \subseteq Outsiders /\ faults' = faults
      BY <1>0, <2>6, <3>1 DEF ReleaseIfHeld, Finish, Outsiders
    <3> QED BY <1>0, <3>2, NoNewcomer
  <2>7. ASSUME NEW command \in {"store", "release"}, HookFails(r, command) PROVE IndInv'
    <3>1. Outsiders' \subseteq Outsiders /\ faults' >= faults
      BY <1>0, <2>7 DEF HookFails, Finish, Fault, Outsiders
    <3> QED BY <1>0, <3>1, NoNewcomer
  <2> QED BY <1>3, <2>1, <2>2, <2>3, <2>4, <2>5, <2>6, <2>7 DEF RequestNext
<1> QED BY <1>1, <1>2, <1>3 DEF Next

\* The bound holds from the start: nobody is creating.
LEMMA IndInit == ASSUME Init PROVE IndInv
<1>1. Outsiders = {} BY DEF Init, Outsiders
<1>2. Typed BY TypedInit
<1>3. faults = 0 BY DEF Init
<1> QED BY <1>1, <1>2, <1>3, FS_EmptySet DEF IndInv

\* Whoever creates holds the lock or is one of the outsiders.
LEMMA BoundFollows == ASSUME IndInv PROVE CreatorsBounded
<1> DEFINE creators == {r \in Requests : pc[r] = "creating"}
<1>1. creators \subseteq Outsiders \cup {lock} BY DEF Outsiders
<1>2. /\ IsFiniteSet(Outsiders \cup {lock})
      /\ Cardinality(Outsiders \cup {lock}) <= Cardinality(Outsiders) + 1
  BY OneMore DEF IndInv
<1>3. IsFiniteSet(creators) /\ Cardinality(creators) <= Cardinality(Outsiders \cup {lock})
  BY <1>1, <1>2, FS_Subset
<1>4. /\ Cardinality(Outsiders) \in Nat /\ Cardinality(creators) \in Nat
      /\ Cardinality(Outsiders \cup {lock}) \in Nat
  BY <1>2, <1>3, FS_CardinalityType DEF IndInv
<1>5. Cardinality(creators) <= 1 + faults
  BY <1>2, <1>3, <1>4 DEF IndInv, Typed
<1> QED BY <1>5 DEF CreatorsBounded

\* The creations of one key that overlap are at most one more than the
\* faults met so far, for any number of requests: the SET NX of
\* post_create_idempotency_before admits one, each fail-open or expiry under
\* the holder one more.
THEOREM CreationsAreBounded == Spec => []CreatorsBounded
<1>1. Init => IndInv BY IndInit
<1>2. IndInv /\ [Next]_vars => IndInv' BY IndStep
<1>3. IndInv => CreatorsBounded BY BoundFollows
<1> QED BY <1>1, <1>2, <1>3, PTL DEF Spec

\* The hooks of a request are pending only while it finishes, whichever of
\* them fails and wherever the request is cancelled, and every variable stays
\* in its type (post_create_idempotency_after_success, _after_failure).
THEOREM HooksBelongToFinishing == Spec => []TypeOK
<1>1. Init => Typed BY TypedInit
<1>2. Typed /\ [Next]_vars => Typed' BY TypedStep
<1>3. Typed => TypeOK BY DEF Typed, States, TypeOK
<1> QED BY <1>1, <1>2, <1>3, PTL DEF Spec

\* What a step may do to the lock of r.
ReleaseStep ==
    \A r \in Requests : lock = r /\ lock' # r =>
        \/ "release" \in todo[r] /\ "release" \notin todo'[r]
        \/ lock' = NoRequest /\ UNCHANGED <<pc, todo>>

\* The holder's own compare-and-delete or the TTL takes the key away, and
\* nothing else does.
LEMMA LockStep == ASSUME Typed, [Next]_vars PROVE ReleaseStep
<1> USE DEF Typed, ReleaseStep
<1>1. CASE UNCHANGED vars BY <1>1 DEF vars
<1>2. CASE LockExpires BY <1>2 DEF LockExpires
<1>3. ASSUME NEW q \in Requests, RequestNext(q) PROVE ReleaseStep
  <2>1. CASE ReleaseIfHeld(q) BY <2>1 DEF ReleaseIfHeld, Finish
  <2>2. CASE TryAcquireLock(q) BY <2>2 DEF TryAcquireLock
  <2>3. CASE RedisFailsOpen(q) BY <2>3 DEF RedisFailsOpen
  <2>4. CASE \/ GetResult(q) \/ CreatePost(q) \/ CreateFails(q) \/ StoreSuccessResult(q) \/ Dies(q)
             \/ \E command \in {"store", "release"} : HookFails(q, command)
    BY <2>4 DEF GetResult, CreatePost, CreateFails, StoreSuccessResult, Dies, HookFails
  <2> QED BY <1>3, <2>1, <2>2, <2>3, <2>4 DEF RequestNext
<1> QED BY <1>1, <1>2, <1>3 DEF Next

\* A request that ends late never frees the lock of the next one
\* (RELEASE_LOCK_LUA), for any number of requests.
THEOREM LateReleaseIsHarmless == Spec => OnlyHolderReleases
<1>1. Init => Typed BY TypedInit
<1>2. Typed /\ [Next]_vars => Typed' BY TypedStep
<1>3. Typed /\ [Next]_vars =>
        [\A r \in Requests : lock = r /\ lock' # r =>
            \/ "release" \in todo[r] /\ "release" \notin todo'[r]
            \/ lock' = NoRequest /\ UNCHANGED <<pc, todo>>]_vars
  BY LockStep DEF ReleaseStep
<1> QED BY <1>1, <1>2, <1>3, PTL DEF Spec, OnlyHolderReleases
=============================================================================
