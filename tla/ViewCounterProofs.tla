------------------------- MODULE ViewCounterProofs -------------------------
(***************************************************************************)
(* The safety properties of ViewCounter for any finite sets of requests    *)
(* and flushers, any posts and any number of faults.                       *)
(***************************************************************************)
EXTENDS ViewCounter, FiniteSetTheorems, TLAPS

(* Leaves are tried with Zenon, those with arithmetic then with SMT.       *)
USE ZenonT(4), SMTT(30), SMTT(40), ZenonT(60)

Places == {"start", "read", "fresh", "duplicate", "direct", "done"}
Rounds == {"idle", "locked", "drained", "committed", "merging", "release"}

(* The types without their bounds, and whose drain hash may hold views.    *)
Typed ==
    /\ rpc \in [Requests -> Places]
    /\ shown \in [Requests -> Nat]
    /\ seen \subseteq Keys
    /\ buffer \in [Posts -> Nat] /\ db \in [Posts -> Nat] /\ views \in [Posts -> Nat]
    /\ fpc \in [Flushers -> Rounds]
    /\ drain \in [Flushers -> [Posts -> Nat]]
    /\ lock \in Flushers \cup {NoFlusher}
    /\ faults \in 0..MaxFaults
    /\ excused \subseteq {"lost", "twice"}
    /\ \A f \in Flushers : drain[f] # Nothing => fpc[f] \in {"drained", "merging"}

-----------------------------------------------------------------------------
(* Counting *)

(* What a request r at place x adds to the count of the places Q in S.     *)
Unit(r, S, x, Q) == IF r \in S /\ x \in Q THEN 1 ELSE 0

(* The requests of S at one of the places Q, when pc tells their places.   *)
Standing(pc, S, Q) == {r \in S : pc[r] \in Q}
Readers(p) == {r \in Requests : PostOf[r] = p}

(* The views that the drain hashes d hold for p.                           *)
Carried(d, p) == UNION {{f} \X (1..d[f][p]) : f \in Flushers}

Moved(pc, qc, r, x) == qc = [pc EXCEPT ![r] = x]

(* A request that moves from a place to another leaves the count of the    *)
(* first and enters that of the second.                                    *)
LEMMA StandingMoves ==
  ASSUME NEW pc \in [Requests -> Places], NEW qc \in [Requests -> Places],
         NEW r \in Requests, NEW x \in Places, Moved(pc, qc, r, x),
         NEW S \in SUBSET Requests, NEW Q \in SUBSET Places
  PROVE  /\ Cardinality(Standing(pc, S, Q)) \in Nat
         /\ Cardinality(Standing(qc, S, Q)) \in Nat
         /\ Cardinality(Standing(qc, S, Q)) + Unit(r, S, pc[r], Q)
              = Cardinality(Standing(pc, S, Q)) + Unit(r, S, x, Q)
<1> DEFINE Rest == Standing(pc, S, Q) \ {r}
<1>1. IsFiniteSet(Standing(pc, S, Q)) /\ IsFiniteSet(Standing(qc, S, Q)) /\ IsFiniteSet(Rest)
  <2>1. /\ Standing(pc, S, Q) \in SUBSET Requests
        /\ Standing(qc, S, Q) \in SUBSET Requests
        /\ Rest \in SUBSET Requests
    BY DEF Standing
  <2> QED BY <2>1, RequestAssumption, FS_Subset
<1>2. /\ Cardinality(Standing(pc, S, Q)) \in Nat
      /\ Cardinality(Standing(qc, S, Q)) \in Nat
      /\ Cardinality(Rest) \in Nat
  BY <1>1, FS_CardinalityType
<1>3. Cardinality(Rest \cup {r}) = Cardinality(Rest) + 1
  BY <1>1, FS_AddElement
<1>4. Standing(pc, S, Q) = IF r \in S /\ pc[r] \in Q THEN Rest \cup {r} ELSE Rest
  BY DEF Standing
<1>5. Standing(qc, S, Q) = IF r \in S /\ x \in Q THEN Rest \cup {r} ELSE Rest
  BY DEF Standing, Moved
<1> HIDE DEF Rest
<1>6. Cardinality(Standing(pc, S, Q)) = Cardinality(Rest) + Unit(r, S, pc[r], Q)
  <2>1. CASE r \in S /\ pc[r] \in Q BY <2>1, <1>2, <1>3, <1>4 DEF Unit
  <2>2. CASE ~(r \in S /\ pc[r] \in Q) BY <2>2, <1>2, <1>4 DEF Unit
  <2> QED BY <2>1, <2>2
<1>7. Cardinality(Standing(qc, S, Q)) = Cardinality(Rest) + Unit(r, S, x, Q)
  <2>1. CASE r \in S /\ x \in Q BY <2>1, <1>2, <1>3, <1>5 DEF Unit
  <2>2. CASE ~(r \in S /\ x \in Q) BY <2>2, <1>2, <1>5 DEF Unit
  <2> QED BY <2>1, <2>2
<1>8. Unit(r, S, pc[r], Q) \in Nat /\ Unit(r, S, x, Q) \in Nat
  BY DEF Unit
<1> QED BY <1>2, <1>6, <1>7, <1>8

(* n views of one flusher are n pairs.                                     *)
LEMMA OneFlusher ==
  ASSUME NEW f, NEW n \in Nat
  PROVE  IsFiniteSet({f} \X (1..n)) /\ Cardinality({f} \X (1..n)) = n
<1>1. IsFiniteSet(1..n) /\ Cardinality(1..n) = n
  BY FS_Interval
<1>2. IsFiniteSet({f}) /\ Cardinality({f}) = 1
  BY FS_Singleton
<1>3. /\ IsFiniteSet({f} \X (1..n))
      /\ Cardinality({f} \X (1..n)) = Cardinality({f}) * Cardinality(1..n)
  BY <1>1, <1>2, FS_Product
<1> QED BY <1>1, <1>2, <1>3

(* Finitely many flushers carry finitely many views.                       *)
LEMMA CarriedFinite ==
  ASSUME NEW d \in [Flushers -> [Posts -> Nat]], NEW p \in Posts, NEW G \in SUBSET Flushers
  PROVE  IsFiniteSet(UNION {{f} \X (1..d[f][p]) : f \in G})
<1> DEFINE Parts == {{f} \X (1..d[f][p]) : f \in G}
           part == [f \in G |-> {f} \X (1..d[f][p])]
<1>1. IsFiniteSet(G) BY FlusherAssumption, FS_Subset
<1>2. part \in Surjection(G, Parts)
  BY DEF Surjection
<1>3. IsFiniteSet(Parts)
  BY <1>1, <1>2, FS_Surjection
<1>4. \A T \in Parts : IsFiniteSet(T)
  <2> SUFFICES ASSUME NEW f \in G PROVE IsFiniteSet({f} \X (1..d[f][p]))
    OBVIOUS
  <2>1. d[f][p] \in Nat OBVIOUS
  <2> QED BY <2>1, OneFlusher
<1> HIDE DEF Parts
<1>5. IsFiniteSet(UNION Parts) BY <1>3, <1>4, FS_UNION
<1> QED BY <1>5 DEF Parts

(* What one flusher carries apart.                                         *)
LEMMA CarriedApart ==
  ASSUME NEW d \in [Flushers -> [Posts -> Nat]], NEW p \in Posts, NEW f \in Flushers
  PROVE  LET Rest == UNION {{g} \X (1..d[g][p]) : g \in Flushers \ {f}}
         IN  /\ Cardinality(Rest) \in Nat
             /\ Cardinality(Carried(d, p)) = Cardinality(Rest) + d[f][p]
<1> DEFINE Rest == UNION {{g} \X (1..d[g][p]) : g \in Flushers \ {f}}
           Mine == {f} \X (1..d[f][p])
<1>0. d[f][p] \in Nat OBVIOUS
<1>1. IsFiniteSet(Mine) /\ Cardinality(Mine) = d[f][p]
  BY <1>0, OneFlusher
<1>2. IsFiniteSet(Rest)
  BY CarriedFinite
<1>3. Carried(d, p) = Rest \cup Mine
  BY DEF Carried
<1>4. Rest \cap Mine = {}
  OBVIOUS
<1> HIDE DEF Rest, Mine
<1>5. Cardinality(Rest \cup Mine) = Cardinality(Rest) + Cardinality(Mine) - Cardinality(Rest \cap Mine)
  BY <1>1, <1>2, FS_Union
<1>6. Cardinality(Rest) \in Nat BY <1>2, FS_CardinalityType
<1>7. Cardinality(Rest \cap Mine) = 0 BY <1>4, FS_EmptySet
<1>8. Cardinality(Carried(d, p)) = Cardinality(Rest) + d[f][p]
  BY <1>0, <1>1, <1>3, <1>5, <1>6, <1>7
<1> QED BY <1>6, <1>8 DEF Rest

(* A change of what one flusher carries changes the total by as much.      *)
LEMMA CarriedMoves ==
  ASSUME NEW d \in [Flushers -> [Posts -> Nat]], NEW e \in [Flushers -> [Posts -> Nat]],
         NEW f \in Flushers, \A g \in Flushers \ {f} : e[g] = d[g], NEW p \in Posts
  PROVE  /\ Cardinality(Carried(d, p)) \in Nat /\ Cardinality(Carried(e, p)) \in Nat
         /\ d[f][p] <= Cardinality(Carried(d, p))
         /\ Cardinality(Carried(e, p)) + d[f][p] = Cardinality(Carried(d, p)) + e[f][p]
<1> DEFINE Rest(c) == UNION {{g} \X (1..c[g][p]) : g \in Flushers \ {f}}
<1>1. d[f][p] \in Nat /\ e[f][p] \in Nat OBVIOUS
<1>2. /\ Cardinality(Rest(d)) \in Nat
      /\ Cardinality(Carried(d, p)) = Cardinality(Rest(d)) + d[f][p]
  BY CarriedApart
<1>3. /\ Cardinality(Rest(e)) \in Nat
      /\ Cardinality(Carried(e, p)) = Cardinality(Rest(e)) + e[f][p]
  BY CarriedApart
<1>4. Rest(d) = Rest(e) OBVIOUS
<1> HIDE DEF Rest
<1> QED BY <1>1, <1>2, <1>3, <1>4

-----------------------------------------------------------------------------
(* The inductive invariant *)

(* The places from which a request may still be admitted, still reach the  *)
(* buffer, still be counted anywhere; and those of an admitted view that   *)
(* has not been counted yet.                                               *)
Unadmitted == {"start", "read"}
Unbuffered == {"start", "read", "fresh"}
Uncounted == {"start", "read", "fresh", "duplicate", "direct"}
Waiting == {"fresh", "direct"}

Left(Q) == Cardinality(Standing(rpc, Requests, Q))

K == Cardinality(Requests) + 1
Budget(n) == K * (1 + n)

Counted(p) == db[p] + buffer[p] + InFlight(p) + Pending(p)

(* Every admitted view is in exactly one place, up to what is excused.     *)
Tally(p) ==
    /\ "lost" \notin excused => Counted(p) >= views[p]
    /\ "twice" \notin excused => Counted(p) <= views[p]

(* What the requests that are left may still add stays within the bounds:  *)
(* each fault adds at most one view, or one drain hash, once more.         *)
Spare(p) ==
    /\ views[p] + Left(Unadmitted) <= K
    /\ buffer[p] + InFlight(p) + Left(Unbuffered) <= K
    /\ db[p] + buffer[p] + InFlight(p) + Left(Uncounted) <= Budget(faults)

(* A response under way shows at most the row, one that is sent at most    *)
(* the views admitted.                                                     *)
Honest(r) ==
    /\ rpc[r] # "done" => shown[r] <= db[PostOf[r]]
    /\ "twice" \notin excused => shown[r] <= views[PostOf[r]]
    /\ shown[r] <= Bound

Inv ==
    /\ Typed
    /\ \A p \in Posts : Tally(p) /\ Spare(p)
    /\ \A r \in Requests : Honest(r)

(* K, the number of requests and one more, is what a fault may add.        *)
LEMMA KType == K \in Nat \ {0}
BY RequestAssumption, FS_CardinalityType DEF K

(* One more fault widens the budget by K.                                  *)
LEMMA BudgetGrows ==
  ASSUME NEW n \in Nat
  PROVE  Budget(n) \in Nat /\ Budget(n + 1) = Budget(n) + K
<1> PICK k \in Nat : k = K BY KType
<1>1. k * (1 + n) \in Nat /\ k * (1 + (n + 1)) = k * (1 + n) + k OBVIOUS
<1> QED BY <1>1 DEF Budget

(* The budget of the faults there were stays below the bound of TypeOK.    *)
LEMMA BudgetBound ==
  ASSUME NEW n \in 0..MaxFaults
  PROVE  /\ Budget(n) + K <= Bound /\ Bound \in Nat
         /\ K <= Budget(n)
<1> PICK k \in Nat : k = K BY KType
<1> PICK m \in Nat : m = MaxFaults BY FlusherAssumption
<1>1. n \in Nat /\ n <= m OBVIOUS
<1>2. k * (2 + m) = k * (1 + n) + k + k * (m - n) /\ m - n \in Nat /\ k * (1 + n) = k + k * n
  BY <1>1
<1>3. k * (m - n) \in Nat /\ k * (1 + n) \in Nat /\ k * n \in Nat BY <1>2, <1>1
<1>4. Bound = k * (2 + m) BY DEF Bound, K
<1> QED BY <1>1, <1>2, <1>3, <1>4 DEF Budget

(* The counts are numbers.                                                 *)
Numeric(p) ==
    /\ InFlight(p) \in Nat /\ Pending(p) \in Nat
    /\ Left(Unadmitted) \in Nat /\ Left(Unbuffered) \in Nat /\ Left(Uncounted) \in Nat
    /\ db[p] \in Nat /\ buffer[p] \in Nat /\ views[p] \in Nat
    /\ Budget(faults) \in Nat /\ K \in Nat /\ faults \in Nat

LEMMA Numbers ==
  ASSUME Typed, NEW p \in Posts
  PROVE  Numeric(p)
<1>1. IsFiniteSet(UNION {{f} \X (1..drain[f][p]) : f \in Flushers})
  BY CarriedFinite DEF Typed
<1>2. \A S \in SUBSET Requests : Cardinality(S) \in Nat
  BY RequestAssumption, FS_Subset, FS_CardinalityType
<1>3. Pending(p) \in Nat BY <1>2 DEF Pending
<1>4. \A Q : Left(Q) \in Nat BY <1>2 DEF Left, Standing
<1>5. InFlight(p) \in Nat BY <1>1, FS_CardinalityType DEF InFlight
<1>6. faults \in Nat BY DEF Typed
<1> QED BY <1>3, <1>4, <1>5, <1>6, BudgetGrows, KType DEF Typed, Numeric

(* The counts are naturals after a step as well.                           *)
LEMMA NumbersNext ==
  ASSUME Typed', NEW p \in Posts
  PROVE  Numeric(p)'
<1>1. (Typed => Numeric(p))' BY Numbers, PTL
<1> QED BY <1>1

(* A request that moves changes the counts by one at most.                 *)
LEMMA GoCounts ==
  ASSUME Typed, NEW r \in Requests, NEW x \in Places, Go(r, x)
  PROVE  /\ \A p \in Posts :
              Pending(p)' + Unit(r, Readers(p), rpc[r], Waiting)
                = Pending(p) + Unit(r, Readers(p), x, Waiting)
         /\ \A Q \in SUBSET Places :
              Left(Q)' + Unit(r, Requests, rpc[r], Q) = Left(Q) + Unit(r, Requests, x, Q)
<1>1. rpc \in [Requests -> Places] BY DEF Typed
<1>2. rpc' \in [Requests -> Places] /\ rpc' = [rpc EXCEPT ![r] = x] BY <1>1 DEF Go
<1>3. \A S \in SUBSET Requests, Q \in SUBSET Places :
        Cardinality(Standing(rpc', S, Q)) + Unit(r, S, rpc[r], Q)
          = Cardinality(Standing(rpc, S, Q)) + Unit(r, S, x, Q)
  <2>1. PICK pc \in [Requests -> Places], qc \in [Requests -> Places] : pc = rpc /\ qc = rpc'
    BY <1>1, <1>2
  <2>2. Moved(pc, qc, r, x) BY <2>1, <1>2 DEF Moved
  <2>3. \A S \in SUBSET Requests, Q \in SUBSET Places :
          Cardinality(Standing(qc, S, Q)) + Unit(r, S, pc[r], Q)
            = Cardinality(Standing(pc, S, Q)) + Unit(r, S, x, Q)
    <3> SUFFICES ASSUME NEW S \in SUBSET Requests, NEW Q \in SUBSET Places
                 PROVE  Cardinality(Standing(qc, S, Q)) + Unit(r, S, pc[r], Q)
                          = Cardinality(Standing(pc, S, Q)) + Unit(r, S, x, Q)
      OBVIOUS
    <3> QED BY <2>2, StandingMoves
  <2> QED BY <2>1, <2>3
<1>4. ASSUME NEW p \in Posts
      PROVE  Pending(p)' + Unit(r, Readers(p), rpc[r], Waiting)
               = Pending(p) + Unit(r, Readers(p), x, Waiting)
  <2>1. Readers(p) \in SUBSET Requests /\ Waiting \in SUBSET Places
    BY DEF Readers, Waiting, Places
  <2>2. /\ {q \in Requests : PostOf[q] = p /\ rpc[q] \in Waiting} = Standing(rpc, Readers(p), Waiting)
        /\ {q \in Requests : PostOf[q] = p /\ rpc'[q] \in Waiting} = Standing(rpc', Readers(p), Waiting)
    BY DEF Standing, Readers
  <2>3. /\ Pending(p) = Cardinality(Standing(rpc, Readers(p), Waiting))
        /\ Pending(p)' = Cardinality(Standing(rpc', Readers(p), Waiting))
    BY <2>2 DEF Pending, Waiting
  <2> QED BY <1>3, <2>1, <2>3
<1>5. ASSUME NEW Q \in SUBSET Places
      PROVE  Left(Q)' + Unit(r, Requests, rpc[r], Q) = Left(Q) + Unit(r, Requests, x, Q)
  BY <1>3 DEF Left
<1> QED BY <1>4, <1>5

(* A flusher that takes or drops views changes what is in flight by as     *)
(* much.                                                                   *)
LEMMA DrainCounts ==
  ASSUME Typed, Typed', NEW f \in Flushers, \A g \in Flushers \ {f} : drain'[g] = drain[g],
         NEW p \in Posts
  PROVE  /\ InFlight(p)' + drain[f][p] = InFlight(p) + drain'[f][p]
         /\ drain[f][p] <= InFlight(p)
         /\ drain[f][p] \in Nat /\ drain'[f][p] \in Nat
<1>1. drain \in [Flushers -> [Posts -> Nat]] /\ drain' \in [Flushers -> [Posts -> Nat]]
  BY DEF Typed
<1>2. InFlight(p) = Cardinality(Carried(drain, p)) BY DEF InFlight, Carried
<1>3. InFlight(p)' = Cardinality(Carried(drain', p)) BY DEF InFlight, Carried
<1>4. /\ drain[f][p] <= Cardinality(Carried(drain, p))
      /\ Cardinality(Carried(drain', p)) + drain[f][p] = Cardinality(Carried(drain, p)) + drain'[f][p]
  <2>a. PICK d \in [Flushers -> [Posts -> Nat]] : d = drain BY <1>1
  <2>b. PICK e \in [Flushers -> [Posts -> Nat]] : e = drain' BY <1>1
  <2>1. \A g \in Flushers \ {f} : e[g] = d[g] BY <2>a, <2>b
  <2>2. /\ d[f][p] <= Cardinality(Carried(d, p))
        /\ Cardinality(Carried(e, p)) + d[f][p] = Cardinality(Carried(d, p)) + e[f][p]
    BY <2>1, CarriedMoves
  <2> QED BY <2>2, <2>a, <2>b
<1> QED BY <1>1, <1>2, <1>3, <1>4

(* Requests that stay leave their counts alone, flushers that keep their   *)
(* hashes what is in flight.                                               *)
LEMMA Still ==
  /\ UNCHANGED rpc => (\A p \in Posts : Pending(p)' = Pending(p)) /\ (\A Q : Left(Q)' = Left(Q))
  /\ UNCHANGED drain => \A p \in Posts : InFlight(p)' = InFlight(p)
BY DEF Pending, Left, Standing, InFlight

-----------------------------------------------------------------------------
(* Every step keeps the types. *)

(* A fault is counted and only adds to what is excused.                    *)
LEMMA FaultTypes ==
  ASSUME Typed, NEW kinds \in SUBSET {"lost", "twice"}, Fault(kinds)
  PROVE  /\ faults' \in 0..MaxFaults /\ faults' = faults + 1
         /\ excused' \subseteq {"lost", "twice"}
         /\ excused \subseteq excused' /\ kinds \subseteq excused'
BY FlusherAssumption DEF Typed, Fault

(* Every step of a request keeps the types.                                *)
LEMMA RequestTypes ==
  ASSUME Typed, NEW r \in Requests, RequestNext(r)
  PROVE  Typed'
<1> USE DEF Typed, Places, flushVars, NoFault, Go, Answer
<1>0. PostOf[r] \in Posts BY RequestAssumption
<1>1. CASE ReadPost(r) BY <1>0, <1>1 DEF ReadPost
<1>2. CASE Dedup(r)
  <2>1. <<ViewerOf[r], PostOf[r]>> \in Keys BY DEF Keys
  <2>2. rpc' \in [Requests -> Places] BY <1>2 DEF Dedup
  <2>3. seen' \subseteq Keys BY <1>2, <2>1 DEF Dedup
  <2>4. views' = views \/ Admit(PostOf[r]) BY <1>2 DEF Dedup
  <2>5. views' \in [Posts -> Nat] BY <1>0, <2>4 DEF Admit
  <2> QED BY <1>2, <2>2, <2>3, <2>5 DEF Dedup
<1>3. CASE BufferView(r) BY <1>0, <1>3 DEF BufferView
<1>4. CASE ReadPending(r) BY <1>0, <1>4 DEF ReadPending
<1>5. CASE TrackViewFails(r)
  <2>1. <<ViewerOf[r], PostOf[r]>> \in Keys BY DEF Keys
  <2>2. \E kinds \in SUBSET {"lost", "twice"} : Fault(kinds)
    BY <1>5 DEF TrackViewFails
  <2>3. /\ seen' \in {seen, seen \cup {<<ViewerOf[r], PostOf[r]>>}}
        /\ views' = views \/ Admit(PostOf[r])
        /\ buffer' = buffer \/ buffer' = [buffer EXCEPT ![PostOf[r]] = @ + 1]
    BY <1>5 DEF TrackViewFails
  <2>5. seen' \subseteq Keys BY <2>1, <2>3
  <2>6. views' \in [Posts -> Nat] BY <1>0, <2>3 DEF Admit
  <2>7. buffer' \in [Posts -> Nat] BY <1>0, <2>3
  <2>4. faults' \in 0..MaxFaults /\ excused' \subseteq {"lost", "twice"}
    BY <2>2, FaultTypes
  <2> QED BY <1>5, <2>4, <2>5, <2>6, <2>7 DEF TrackViewFails
<1>6. CASE DirectIncrement(r) BY <1>0, <1>6 DEF DirectIncrement
<1>7. CASE RequestDies(r) BY <1>0, FlusherAssumption, <1>7 DEF RequestDies, Fault
<1> QED BY <1>1, <1>2, <1>3, <1>4, <1>5, <1>6, <1>7 DEF RequestNext

(* Every step of a flush round keeps the types, and a drain hash is emptied*)
(* before the round goes on without it.                                    *)
LEMMA FlushTypes ==
  ASSUME Typed, NEW f \in Flushers, FlushNext(f)
  PROVE  Typed'
<1> USE DEF Typed, Rounds, requestVars, NoFault, Step, Forget, Loss, Fault
<1>0. Nothing \in [Posts -> Nat] BY DEF Nothing
<1>1. CASE TryAcquireLock(f) BY <1>1 DEF TryAcquireLock
<1>2. CASE AcquireFails(f) BY FlusherAssumption, <1>2 DEF AcquireFails
<1>3. CASE RenameBuffer(f) BY <1>0, <1>3 DEF RenameBuffer
<1>4. CASE RenameFails(f)
  <2>1. buffer' \in [Posts -> Nat] /\ drain' \in [Flushers -> [Posts -> Nat]]
    BY <1>0, <1>4 DEF RenameFails
  <2>2. \A g \in Flushers : drain'[g] # Nothing => fpc'[g] \in {"drained", "merging"}
    BY <1>4 DEF RenameFails
  <2> QED BY FlusherAssumption, <1>4, <2>1, <2>2 DEF RenameFails
<1>5. CASE FlushCommits(f) BY <1>0, <1>5 DEF FlushCommits, AddDrained
<1>6. CASE FlushFails(f)
  <2>1. db' \in [Posts -> Nat] BY <1>6 DEF FlushFails, AddDrained
  <2>2. \E kinds \in SUBSET {"lost", "twice"} : Fault(kinds) BY <1>6 DEF FlushFails
  <2>3. faults' \in 0..MaxFaults /\ excused' \subseteq {"lost", "twice"} BY <2>2, FaultTypes
  <2> QED BY <1>6, <2>1, <2>3 DEF FlushFails
<1>7. CASE MergeFails(f)
  <2>1. buffer' \in [Posts -> Nat] BY <1>7 DEF MergeFails
  <2>2. faults' \in 0..MaxFaults /\ excused' \subseteq {"lost", "twice"}
    BY FlusherAssumption, <1>7 DEF MergeFails
  <2> QED BY <1>0, <1>7, <2>1, <2>2 DEF MergeFails
<1>8. CASE DeleteDrain(f) BY <1>8 DEF DeleteDrain
<1>9. CASE ReleaseLock(f)
  <2>1. lock' \in Flushers \cup {NoFlusher} BY <1>9 DEF ReleaseLock
  <2>2. faults' \in 0..MaxFaults /\ excused' \subseteq {"lost", "twice"}
    <3>1. CASE NoFault BY <3>1
    <3>2. CASE Fault({}) BY <3>2, FaultTypes
    <3> QED BY <1>9, <3>1, <3>2 DEF ReleaseLock
  <2>3. fpc' \in [Flushers -> Rounds] BY <1>9 DEF ReleaseLock
  <2>4. drain[f] = Nothing BY <1>9 DEF ReleaseLock
  <2> QED BY <1>9, <2>1, <2>2, <2>3, <2>4 DEF ReleaseLock
<1>10. CASE FlusherDies(f) BY FlusherAssumption, <1>0, <1>10 DEF FlusherDies
<1>11. ASSUME NEW p \in Posts, MergeField(f, p) PROVE Typed'
  BY <1>11 DEF MergeField
<1> QED BY <1>1, <1>2, <1>3, <1>4, <1>5, <1>6, <1>7, <1>8, <1>9, <1>10, <1>11 DEF FlushNext

(* The types are kept by every step.                                       *)
LEMMA TypesStep == Typed /\ [Next]_vars => Typed'
<1> SUFFICES ASSUME Typed, [Next]_vars PROVE Typed' OBVIOUS
<1>1. ASSUME NEW key \in Keys, DedupExpires(key) PROVE Typed'
  BY <1>1 DEF DedupExpires, Typed, flushVars, NoFault
<1>2. CASE LockExpires BY <1>2 DEF LockExpires, Typed, requestVars, NoFault
<1>3. CASE UNCHANGED vars BY <1>3 DEF vars, Typed
<1> QED BY <1>1, <1>2, <1>3, RequestTypes, FlushTypes DEF Next

-----------------------------------------------------------------------------
(* Every step keeps the tally and the spare room. *)

(* A step whose entries in the ledger of p balance, or are excused, and    *)
(* which uses no more room than it gives back, or is a fault.              *)
Settled(p) ==
    /\ excused \subseteq excused'
    /\ "lost" \in excused' \/ Counted(p)' + views[p] >= Counted(p) + views'[p]
    /\ "twice" \in excused' \/ Counted(p)' + views[p] <= Counted(p) + views'[p]
Fitting(p) ==
    /\ views'[p] + Left(Unadmitted)' <= views[p] + Left(Unadmitted)
    /\ buffer'[p] + InFlight(p)' + Left(Unbuffered)' <= buffer[p] + InFlight(p) + Left(Unbuffered)
    /\ \/ db'[p] + buffer'[p] + InFlight(p)' + Left(Uncounted)'
             <= db[p] + buffer[p] + InFlight(p) + Left(Uncounted)
       \/ /\ faults' = faults + 1
          /\ db'[p] + buffer'[p] + InFlight(p)' + Left(Uncounted)'
               <= db[p] + buffer[p] + InFlight(p) + Left(Uncounted) + K
    /\ faults' \in {faults, faults + 1}

(* The counts after a step that balances.                                  *)
LEMMA Ledger ==
  ASSUME Typed, Typed', NEW p \in Posts, Tally(p), Spare(p), Settled(p), Fitting(p)
  PROVE  Tally(p)' /\ Spare(p)'
<1>1. Numeric(p) BY Numbers
<1>2. Numeric(p)' BY NumbersNext
<1>3. Counted(p) \in Nat /\ Counted(p)' \in Nat
  BY <1>1, <1>2 DEF Counted, Numeric
<1>4. Tally(p)'
  BY <1>1, <1>2, <1>3 DEF Tally, Settled, Numeric
<1>5. Budget(faults') \in Nat /\ Budget(faults') >= Budget(faults)
      /\ (faults' = faults + 1 => Budget(faults') = Budget(faults) + K)
  BY <1>1, BudgetGrows DEF Fitting, Numeric
<1>6. views'[p] + Left(Unadmitted)' <= K
  BY <1>1, <1>2 DEF Spare, Fitting, Numeric
<1>7. buffer'[p] + InFlight(p)' + Left(Unbuffered)' <= K
  BY <1>1, <1>2 DEF Spare, Fitting, Numeric
<1>8. db'[p] + buffer'[p] + InFlight(p)' + Left(Uncounted)' <= Budget(faults')
  BY <1>1, <1>2, <1>5 DEF Spare, Fitting, Numeric
<1>9. Spare(p)' BY <1>6, <1>7, <1>8 DEF Spare
<1> QED BY <1>4, <1>9

(* What a view of r adds to the counts of p.                               *)
Of(r, p) == IF PostOf[r] = p THEN 1 ELSE 0

(* How a move of r to x changes the counts of p.                           *)
Recount(r, x, p) ==
    /\ \A Q \in {Unadmitted, Unbuffered, Uncounted} :
          /\ rpc[r] \in Q /\ x \notin Q => Left(Q)' = Left(Q) - 1
          /\ (rpc[r] \in Q <=> x \in Q) => Left(Q)' = Left(Q)
    /\ rpc[r] \in Waiting /\ x \notin Waiting => Pending(p)' = Pending(p) - Of(r, p)
    /\ rpc[r] \notin Waiting /\ x \in Waiting => Pending(p)' = Pending(p) + Of(r, p)
    /\ (rpc[r] \in Waiting <=> x \in Waiting) => Pending(p)' = Pending(p)

(* How the counts change when a request goes from one place to another.    *)
LEMMA GoRecounts ==
  ASSUME Typed, Typed', NEW r \in Requests, NEW x \in Places, Go(r, x), NEW p \in Posts
  PROVE  Recount(r, x, p)
<1>1. ASSUME NEW Q \in {Unadmitted, Unbuffered, Uncounted}
      PROVE  /\ rpc[r] \in Q /\ x \notin Q => Left(Q)' = Left(Q) - 1
             /\ (rpc[r] \in Q <=> x \in Q) => Left(Q)' = Left(Q)
  <2>1. Q \in SUBSET Places BY DEF Unadmitted, Unbuffered, Uncounted, Places
  <2>2. Left(Q)' + Unit(r, Requests, rpc[r], Q) = Left(Q) + Unit(r, Requests, x, Q)
    BY <2>1, GoCounts
  <2>3. Left(Q) \in Nat BY Numbers DEF Numeric
  <2>4. Left(Q)' \in Nat BY NumbersNext DEF Numeric
  <2>5. CASE rpc[r] \in Q /\ x \notin Q
    <3>1. Unit(r, Requests, rpc[r], Q) = 1 /\ Unit(r, Requests, x, Q) = 0 BY <2>5 DEF Unit
    <3>2. Left(Q)' = Left(Q) - 1 BY <2>2, <2>3, <2>4, <3>1
    <3> QED BY <3>2, <2>5
  <2>6. CASE rpc[r] \in Q <=> x \in Q
    <3>1. Unit(r, Requests, rpc[r], Q) = Unit(r, Requests, x, Q)
          /\ Unit(r, Requests, x, Q) \in Nat
      BY <2>6 DEF Unit
    <3>2. Left(Q)' = Left(Q) BY <2>2, <2>3, <2>4, <3>1
    <3> QED BY <3>2, <2>6
  <2> QED BY <2>5, <2>6
<1>2. Pending(p)' + Unit(r, Readers(p), rpc[r], Waiting)
        = Pending(p) + Unit(r, Readers(p), x, Waiting)
  BY GoCounts
<1>3. Pending(p) \in Nat /\ Pending(p)' \in Nat BY Numbers, NumbersNext DEF Numeric
<1>4. \A y : Unit(r, Readers(p), y, Waiting) = IF y \in Waiting THEN Of(r, p) ELSE 0
  BY DEF Unit, Readers, Of
<1>5. Of(r, p) \in Nat BY DEF Of
<1>6. CASE rpc[r] \in Waiting /\ x \notin Waiting
  <2>1. Unit(r, Readers(p), rpc[r], Waiting) = Of(r, p) /\ Unit(r, Readers(p), x, Waiting) = 0
    BY <1>4, <1>6
  <2>2. Pending(p)' = Pending(p) - Of(r, p) BY <1>2, <1>3, <1>5, <2>1
  <2> QED BY <1>1, <1>6, <2>2 DEF Recount
<1>7. CASE rpc[r] \notin Waiting /\ x \in Waiting
  <2>1. Unit(r, Readers(p), rpc[r], Waiting) = 0 /\ Unit(r, Readers(p), x, Waiting) = Of(r, p)
    BY <1>4, <1>7
  <2>2. Pending(p)' = Pending(p) + Of(r, p) BY <1>2, <1>3, <1>5, <2>1
  <2> QED BY <1>1, <1>7, <2>2 DEF Recount
<1>8. CASE rpc[r] \in Waiting <=> x \in Waiting
  <2>1. Unit(r, Readers(p), rpc[r], Waiting) = Unit(r, Readers(p), x, Waiting)
        /\ Unit(r, Readers(p), x, Waiting) \in Nat
    BY <1>8 DEF Unit
  <2>2. Pending(p)' = Pending(p) BY <1>2, <1>3, <2>1
  <2> QED BY <1>1, <1>8, <2>2 DEF Recount
<1> QED BY <1>6, <1>7, <1>8

(* Reading the post counts nothing.                                        *)
LEMMA ReadPostCounts ==
  ASSUME Typed, Typed', NEW p \in Posts, Tally(p), Spare(p), NEW r \in Requests, ReadPost(r)
  PROVE  Tally(p)' /\ Spare(p)'
<1>a. Numeric(p) BY Numbers
<1>b. UNCHANGED drain => InFlight(p)' = InFlight(p) BY Still
<1>d. \A x \in Places : Go(r, x) => Recount(r, x, p) BY GoRecounts
<1>1. Recount(r, "read", p) BY <1>d DEF ReadPost, Places
<1>2. rpc[r] = "start" /\ UNCHANGED <<views, buffer, db, drain, faults, excused>>
  BY DEF ReadPost, NoFault, flushVars
<1>3. /\ Pending(p)' = Pending(p) /\ Left(Unadmitted)' = Left(Unadmitted)
      /\ Left(Unbuffered)' = Left(Unbuffered) /\ Left(Uncounted)' = Left(Uncounted)
  BY <1>1, <1>2 DEF Recount, Unadmitted, Unbuffered, Uncounted, Waiting
<1>y. Settled(p) BY <1>a, <1>b, <1>2, <1>3 DEF Counted, Settled, Numeric
<1>z. Fitting(p) BY <1>a, <1>b, <1>2, <1>3 DEF Fitting, Numeric
<1> QED BY <1>y, <1>z, Ledger

(* Redis admits the view, or knows it already.                             *)
LEMMA DedupCounts ==
  ASSUME Typed, Typed', NEW p \in Posts, Tally(p), Spare(p), NEW r \in Requests, Dedup(r)
  PROVE  Tally(p)' /\ Spare(p)'
<1>a. Numeric(p) BY Numbers
<1>b. UNCHANGED drain => InFlight(p)' = InFlight(p) BY Still
<1>c. K >= 1 /\ PostOf[r] \in Posts BY RequestAssumption, KType
<1>d. \A x \in Places : Go(r, x) => Recount(r, x, p) BY GoRecounts
<1>e. PICK o \in Int : o = Of(r, p) BY DEF Of
<1>f. o \in {0, 1} BY <1>e DEF Of
<1>1. rpc[r] = "read" /\ UNCHANGED <<buffer, db, drain, faults, excused>>
  BY DEF Dedup, NoFault, flushVars
<1>2. CASE Go(r, "duplicate") /\ UNCHANGED views
  <2>1. Recount(r, "duplicate", p) BY <1>2, <1>d DEF Places
  <2>2. /\ Pending(p)' = Pending(p) /\ Left(Unadmitted)' = Left(Unadmitted) - 1
        /\ Left(Unbuffered)' = Left(Unbuffered) - 1 /\ Left(Uncounted)' = Left(Uncounted)
    BY <1>e, <1>1, <2>1 DEF Recount, Unadmitted, Unbuffered, Uncounted, Waiting
  <2>y. Settled(p) BY <1>a, <1>f, <1>b, <1>1, <1>2, <2>2 DEF Counted, Settled, Numeric
  <2>z. Fitting(p) BY <1>a, <1>f, <1>b, <1>1, <1>2, <2>2 DEF Fitting, Numeric
  <2> QED BY <2>y, <2>z, Ledger
<1>3. CASE Go(r, "fresh") /\ Admit(PostOf[r])
  <2>1. Recount(r, "fresh", p) BY <1>3, <1>d DEF Places
  <2>2. /\ Pending(p)' = Pending(p) + o
        /\ Left(Unadmitted)' = Left(Unadmitted) - 1
        /\ Left(Unbuffered)' = Left(Unbuffered) /\ Left(Uncounted)' = Left(Uncounted)
    BY <1>e, <1>1, <2>1 DEF Recount, Unadmitted, Unbuffered, Uncounted, Waiting
  <2>3. views'[p] = views[p] + o
    BY <1>a, <1>e, <1>c, <1>3 DEF Of, Admit, Typed
  <2>y. Settled(p) BY <1>a, <1>f, <1>b, <1>1, <2>2, <2>3 DEF Counted, Settled, Numeric
  <2>z. Fitting(p) BY <1>a, <1>f, <1>b, <1>1, <2>2, <2>3 DEF Fitting, Numeric
  <2> QED BY <2>y, <2>z, Ledger
<1> QED BY <1>2, <1>3 DEF Dedup

(* An admitted view goes into the buffer.                                  *)
LEMMA BufferViewCounts ==
  ASSUME Typed, Typed', NEW p \in Posts, Tally(p), Spare(p), NEW r \in Requests, BufferView(r)
  PROVE  Tally(p)' /\ Spare(p)'
<1>a. Numeric(p) BY Numbers
<1>b. UNCHANGED drain => InFlight(p)' = InFlight(p) BY Still
<1>c. K >= 1 /\ PostOf[r] \in Posts BY RequestAssumption, KType
<1>d. \A x \in Places : Go(r, x) => Recount(r, x, p) BY GoRecounts
<1>e. PICK o \in Int : o = Of(r, p) BY DEF Of
<1>f. o \in {0, 1} BY <1>e DEF Of
<1>1. Recount(r, "done", p) BY <1>d DEF BufferView, Places
<1>2. rpc[r] = "fresh" /\ UNCHANGED <<views, db, drain, faults, excused>>
  BY DEF BufferView, NoFault, flushVars
<1>3. /\ Left(Unadmitted)' = Left(Unadmitted)
      /\ Left(Unbuffered)' = Left(Unbuffered) - 1 /\ Left(Uncounted)' = Left(Uncounted) - 1
      /\ Pending(p)' = Pending(p) - o
  BY <1>e, <1>1, <1>2 DEF Recount, Unadmitted, Unbuffered, Uncounted, Waiting
<1>4. buffer'[p] = buffer[p] + o
  BY <1>a, <1>e, <1>c DEF Of, BufferView, Typed
<1>y. Settled(p) BY <1>a, <1>f, <1>b, <1>2, <1>3, <1>4 DEF Counted, Settled, Numeric
<1>z. Fitting(p) BY <1>a, <1>f, <1>b, <1>2, <1>3, <1>4 DEF Fitting, Numeric
<1> QED BY <1>y, <1>z, Ledger

(* A repetition counts nothing.                                            *)
LEMMA ReadPendingCounts ==
  ASSUME Typed, Typed', NEW p \in Posts, Tally(p), Spare(p), NEW r \in Requests, ReadPending(r)
  PROVE  Tally(p)' /\ Spare(p)'
<1>a. Numeric(p) BY Numbers
<1>b. UNCHANGED drain => InFlight(p)' = InFlight(p) BY Still
<1>d. \A x \in Places : Go(r, x) => Recount(r, x, p) BY GoRecounts
<1>1. Recount(r, "done", p) BY <1>d DEF ReadPending, Places
<1>2. rpc[r] = "duplicate" /\ UNCHANGED <<views, buffer, db, drain, faults, excused>>
  BY DEF ReadPending, NoFault, flushVars
<1>3. /\ Pending(p)' = Pending(p) /\ Left(Unadmitted)' = Left(Unadmitted)
      /\ Left(Unbuffered)' = Left(Unbuffered) /\ Left(Uncounted)' = Left(Uncounted) - 1
  BY <1>1, <1>2 DEF Recount, Unadmitted, Unbuffered, Uncounted, Waiting
<1>y. Settled(p) BY <1>a, <1>b, <1>2, <1>3 DEF Counted, Settled, Numeric
<1>z. Fitting(p) BY <1>a, <1>b, <1>2, <1>3 DEF Fitting, Numeric
<1> QED BY <1>y, <1>z, Ledger

(* A failure of Redis sends the view to the table, excused if it may have  *)
(* been counted.                                                           *)
LEMMA TrackViewFailsCounts ==
  ASSUME Typed, Typed', NEW p \in Posts, Tally(p), Spare(p), NEW r \in Requests, TrackViewFails(r)
  PROVE  Tally(p)' /\ Spare(p)'
<1>a. Numeric(p) BY Numbers
<1>b. UNCHANGED drain => InFlight(p)' = InFlight(p) BY Still
<1>c. K >= 1 /\ PostOf[r] \in Posts BY RequestAssumption, KType
<1>d. \A x \in Places : Go(r, x) => Recount(r, x, p) BY GoRecounts
<1>e. PICK o \in Int : o = Of(r, p) BY DEF Of
<1>f. o \in {0, 1} BY <1>e DEF Of
<1>1. Recount(r, "direct", p) BY <1>d DEF TrackViewFails, Places
<1>2. UNCHANGED <<db, drain>> BY DEF TrackViewFails, flushVars
<1>3. faults' = faults + 1 /\ excused \subseteq excused' BY DEF TrackViewFails, Fault
<1>4. CASE rpc[r] = "read" /\ Admit(PostOf[r]) /\ UNCHANGED buffer
  <2>1. /\ Left(Unadmitted)' = Left(Unadmitted) - 1
        /\ Left(Unbuffered)' = Left(Unbuffered) - 1 /\ Left(Uncounted)' = Left(Uncounted)
        /\ Pending(p)' = Pending(p) + o
    BY <1>e, <1>1, <1>4 DEF Recount, Unadmitted, Unbuffered, Uncounted, Waiting
  <2>2. views'[p] = views[p] + o
    BY <1>a, <1>e, <1>c, <1>4 DEF Of, Admit, Typed
  <2>y. Settled(p) BY <1>a, <1>f, <1>b, <1>2, <1>3, <1>4, <2>1, <2>2 DEF Counted, Settled, Numeric
  <2>z. Fitting(p) BY <1>a, <1>f, <1>b, <1>2, <1>3, <1>4, <2>1, <2>2 DEF Fitting, Numeric
  <2> QED BY <2>y, <2>z, Ledger
<1>5. CASE rpc[r] = "fresh" /\ UNCHANGED <<views, buffer>>
  <2>1. /\ Pending(p)' = Pending(p) /\ Left(Unadmitted)' = Left(Unadmitted)
        /\ Left(Unbuffered)' = Left(Unbuffered) - 1 /\ Left(Uncounted)' = Left(Uncounted)
    BY <1>e, <1>1, <1>5 DEF Recount, Unadmitted, Unbuffered, Uncounted, Waiting
  <2>y. Settled(p) BY <1>a, <1>f, <1>b, <1>2, <1>3, <1>5, <2>1 DEF Counted, Settled, Numeric
  <2>z. Fitting(p) BY <1>a, <1>f, <1>b, <1>2, <1>3, <1>5, <2>1 DEF Fitting, Numeric
  <2> QED BY <2>y, <2>z, Ledger
<1>6. CASE /\ rpc[r] = "fresh" /\ UNCHANGED views /\ "twice" \in excused'
           /\ buffer' = [buffer EXCEPT ![PostOf[r]] = @ + 1]
  <2>1. /\ Pending(p)' = Pending(p) /\ Left(Unadmitted)' = Left(Unadmitted)
        /\ Left(Unbuffered)' = Left(Unbuffered) - 1 /\ Left(Uncounted)' = Left(Uncounted)
    BY <1>e, <1>1, <1>6 DEF Recount, Unadmitted, Unbuffered, Uncounted, Waiting
  <2>2. buffer'[p] = buffer[p] + o
    BY <1>a, <1>c, <1>e, <1>6 DEF Of, Typed
  <2>y. Settled(p) BY <1>a, <1>f, <1>b, <1>c, <1>2, <1>3, <1>6, <2>1, <2>2 DEF Counted, Settled, Numeric
  <2>z. Fitting(p) BY <1>a, <1>f, <1>b, <1>c, <1>2, <1>3, <1>6, <2>1, <2>2 DEF Fitting, Numeric
  <2> QED BY <2>y, <2>z, Ledger
<1>7. CASE rpc[r] = "duplicate" /\ UNCHANGED <<views, buffer>> /\ "twice" \in excused'
  <2>1. /\ Left(Unadmitted)' = Left(Unadmitted)
        /\ Left(Unbuffered)' = Left(Unbuffered) /\ Left(Uncounted)' = Left(Uncounted)
        /\ Pending(p)' = Pending(p) + o
    BY <1>e, <1>1, <1>7 DEF Recount, Unadmitted, Unbuffered, Uncounted, Waiting
  <2>y. Settled(p) BY <1>a, <1>f, <1>b, <1>2, <1>3, <1>7, <2>1 DEF Counted, Settled, Numeric
  <2>z. Fitting(p) BY <1>a, <1>f, <1>b, <1>2, <1>3, <1>7, <2>1 DEF Fitting, Numeric
  <2> QED BY <2>y, <2>z, Ledger
<1> QED BY <1>4, <1>5, <1>6, <1>7 DEF TrackViewFails, Fault

(* A view that Redis did not take goes into the table.                     *)
LEMMA DirectIncrementCounts ==
  ASSUME Typed, Typed', NEW p \in Posts, Tally(p), Spare(p), NEW r \in Requests, DirectIncrement(r)
  PROVE  Tally(p)' /\ Spare(p)'
<1>a. Numeric(p) BY Numbers
<1>b. UNCHANGED drain => InFlight(p)' = InFlight(p) BY Still
<1>c. K >= 1 /\ PostOf[r] \in Posts BY RequestAssumption, KType
<1>d. \A x \in Places : Go(r, x) => Recount(r, x, p) BY GoRecounts
<1>e. PICK o \in Int : o = Of(r, p) BY DEF Of
<1>f. o \in {0, 1} BY <1>e DEF Of
<1>1. Recount(r, "done", p) BY <1>d DEF DirectIncrement, Places
<1>2. rpc[r] = "direct" /\ UNCHANGED <<views, buffer, drain, faults, excused>>
  BY DEF DirectIncrement, NoFault, flushVars
<1>3. /\ Left(Unadmitted)' = Left(Unadmitted)
      /\ Left(Unbuffered)' = Left(Unbuffered) /\ Left(Uncounted)' = Left(Uncounted) - 1
      /\ Pending(p)' = Pending(p) - o
  BY <1>e, <1>1, <1>2 DEF Recount, Unadmitted, Unbuffered, Uncounted, Waiting
<1>4. db'[p] = db[p] + o
  BY <1>a, <1>e, <1>c DEF Of, DirectIncrement, Typed
<1>y. Settled(p) BY <1>a, <1>f, <1>b, <1>2, <1>3, <1>4 DEF Counted, Settled, Numeric
<1>z. Fitting(p) BY <1>a, <1>f, <1>b, <1>2, <1>3, <1>4 DEF Fitting, Numeric
<1> QED BY <1>y, <1>z, Ledger

(* A request that dies loses at most its own view.                         *)
LEMMA RequestDiesCounts ==
  ASSUME Typed, Typed', NEW p \in Posts, Tally(p), Spare(p), NEW r \in Requests, RequestDies(r)
  PROVE  Tally(p)' /\ Spare(p)'
<1>a. Numeric(p) BY Numbers
<1>b. UNCHANGED drain => InFlight(p)' = InFlight(p) BY Still
<1>c. K >= 1 /\ PostOf[r] \in Posts BY RequestAssumption, KType
<1>d. \A x \in Places : Go(r, x) => Recount(r, x, p) BY GoRecounts
<1>e. PICK o \in Int : o = Of(r, p) BY DEF Of
<1>f. o \in {0, 1} BY <1>e DEF Of
<1>1. Recount(r, "done", p) BY <1>d DEF RequestDies, Places
<1>2. /\ UNCHANGED <<views, buffer, drain>>
      /\ faults' = faults + 1 /\ excused \subseteq excused' /\ "lost" \in excused'
  BY DEF RequestDies, Fault, flushVars
<1>3. rpc[r] \in {"fresh", "direct"} BY DEF RequestDies
<1>4. /\ Left(Unadmitted)' = Left(Unadmitted)
      /\ Left(Unbuffered)' \in {Left(Unbuffered), Left(Unbuffered) - 1}
      /\ Left(Uncounted)' = Left(Uncounted) - 1
      /\ Pending(p)' = Pending(p) - o
  BY <1>e, <1>1, <1>3 DEF Recount, Unadmitted, Unbuffered, Uncounted, Waiting
<1>5. \/ db'[p] = db[p]
      \/ db'[p] = db[p] + o
  BY <1>a, <1>e, <1>c DEF Of, RequestDies, Typed
<1>6. Left(Unbuffered)' \in Nat BY NumbersNext DEF Numeric
<1>7. CASE db'[p] = db[p]
  <2>y. Settled(p) BY <1>a, <1>f, <1>b, <1>2, <1>4, <1>7 DEF Counted, Settled, Numeric
  <2>z. Fitting(p) BY <1>a, <1>b, <1>2, <1>4, <1>7, <1>6 DEF Fitting, Numeric
  <2> QED BY <2>y, <2>z, Ledger
<1>8. CASE db'[p] = db[p] + o
  <2>y. Settled(p) BY <1>a, <1>f, <1>b, <1>2, <1>4, <1>8 DEF Counted, Settled, Numeric
  <2>z. Fitting(p) BY <1>a, <1>f, <1>b, <1>2, <1>4, <1>8, <1>6 DEF Fitting, Numeric
  <2> QED BY <2>y, <2>z, Ledger
<1> QED BY <1>5, <1>7, <1>8

(* Every step of a request moves a view from one count to the next, or is a*)
(* fault that excuses the difference.                                      *)
LEMMA RequestCounts ==
  ASSUME Typed, Typed', NEW p \in Posts, Tally(p), Spare(p), NEW r \in Requests, RequestNext(r)
  PROVE  Tally(p)' /\ Spare(p)'
BY ReadPostCounts, DedupCounts, BufferViewCounts, ReadPendingCounts,
   TrackViewFailsCounts, DirectIncrementCounts, RequestDiesCounts DEF RequestNext

(* A step of a round that touches no counter.                              *)
LEMMA QuietCounts ==
  ASSUME Typed, Typed', NEW p \in Posts, Tally(p), Spare(p), NEW f \in Flushers,
         UNCHANGED <<requestVars, buffer, db, drain>>,
         NoFault \/ \E kinds : Fault(kinds)
  PROVE  Tally(p)' /\ Spare(p)'
<1>a. Numeric(p) BY Numbers
<1>c. UNCHANGED requestVars =>
        /\ views' = views /\ Pending(p)' = Pending(p)
        /\ Left(Unadmitted)' = Left(Unadmitted)
        /\ Left(Unbuffered)' = Left(Unbuffered) /\ Left(Uncounted)' = Left(Uncounted)
  BY Still DEF requestVars
<1>d. UNCHANGED drain => InFlight(p)' = InFlight(p) BY Still
<1>h. NoFault => faults' = faults /\ excused' = excused BY DEF NoFault
<1>i. \A kinds : Fault(kinds) => /\ faults' = faults + 1 /\ excused \subseteq excused'
                                 /\ kinds \subseteq excused'
  BY DEF Fault
<1>1. faults' \in {faults, faults + 1} /\ excused \subseteq excused' BY <1>h, <1>i
<1>y. Settled(p) BY <1>a, <1>c, <1>d, <1>1 DEF Counted, Settled, Numeric
<1>z. Fitting(p) BY <1>a, <1>c, <1>d, <1>1 DEF Fitting, Numeric
<1> QED BY <1>y, <1>z, Ledger

(* The buffer becomes the drain hash.                                      *)
LEMMA TakeCounts ==
  ASSUME Typed, Typed', NEW p \in Posts, Tally(p), Spare(p), NEW f \in Flushers,
         fpc[f] = "locked", UNCHANGED <<requestVars, db>>,
         drain' = [drain EXCEPT ![f] = buffer], buffer' = Nothing,
         faults' \in {faults, faults + 1}, excused \subseteq excused'
  PROVE  Tally(p)' /\ Spare(p)'
<1>a. Numeric(p) BY Numbers
<1>b. InFlight(p)' \in Nat BY NumbersNext DEF Numeric
<1>c. UNCHANGED requestVars =>
        /\ views' = views /\ Pending(p)' = Pending(p)
        /\ Left(Unadmitted)' = Left(Unadmitted)
        /\ Left(Unbuffered)' = Left(Unbuffered) /\ Left(Uncounted)' = Left(Uncounted)
  BY Still DEF requestVars
<1>e. (\A g \in Flushers \ {f} : drain'[g] = drain[g]) =>
        /\ InFlight(p)' + drain[f][p] = InFlight(p) + drain'[f][p]
        /\ drain[f][p] <= InFlight(p)
        /\ drain[f][p] \in Nat /\ drain'[f][p] \in Nat
  BY DrainCounts
<1>f. Nothing[p] = 0 BY DEF Nothing
<1>g. drain \in [Flushers -> [Posts -> Nat]] /\ drain[f] \in [Posts -> Nat] BY DEF Typed
<1>1. drain[f][p] = 0 BY <1>f DEF Typed
<1>2. (\A g \in Flushers \ {f} : drain'[g] = drain[g]) /\ drain'[f][p] = buffer[p]
  BY <1>g
<1>3. buffer'[p] = 0 BY <1>f
<1>4. InFlight(p)' = InFlight(p) + buffer[p] BY <1>a, <1>b, <1>e, <1>1, <1>2
<1>y. Settled(p) BY <1>a, <1>b, <1>c, <1>3, <1>4 DEF Counted, Settled, Numeric
<1>z. Fitting(p) BY <1>a, <1>b, <1>c, <1>3, <1>4 DEF Fitting, Numeric
<1> QED BY <1>y, <1>z, Ledger

(* The committed hash is in the table.                                     *)
LEMMA FlushCommitsCounts ==
  ASSUME Typed, Typed', NEW p \in Posts, Tally(p), Spare(p), NEW f \in Flushers,
         FlushCommits(f)
  PROVE  Tally(p)' /\ Spare(p)'
<1>a. Numeric(p) BY Numbers
<1>b. InFlight(p)' \in Nat BY NumbersNext DEF Numeric
<1>c. UNCHANGED requestVars =>
        /\ views' = views /\ Pending(p)' = Pending(p)
        /\ Left(Unadmitted)' = Left(Unadmitted)
        /\ Left(Unbuffered)' = Left(Unbuffered) /\ Left(Uncounted)' = Left(Uncounted)
  BY Still DEF requestVars
<1>e. (\A g \in Flushers \ {f} : drain'[g] = drain[g]) =>
        /\ InFlight(p)' + drain[f][p] = InFlight(p) + drain'[f][p]
        /\ drain[f][p] <= InFlight(p)
        /\ drain[f][p] \in Nat /\ drain'[f][p] \in Nat
  BY DrainCounts
<1>f. Nothing[p] = 0 BY DEF Nothing
<1>g. drain \in [Flushers -> [Posts -> Nat]] /\ drain[f] \in [Posts -> Nat] BY DEF Typed
<1>1. /\ \A g \in Flushers \ {f} : drain'[g] = drain[g]
      /\ drain'[f][p] = 0
  BY <1>f, <1>g DEF FlushCommits, Forget
<1>2. db'[p] = db[p] + drain[f][p] BY DEF FlushCommits, AddDrained
<1>3. UNCHANGED <<requestVars, buffer, faults, excused>> BY DEF FlushCommits, NoFault
<1>y. Settled(p) BY <1>a, <1>b, <1>c, <1>e, <1>1, <1>2, <1>3 DEF Counted, Settled, Numeric
<1>z. Fitting(p) BY <1>a, <1>b, <1>c, <1>e, <1>1, <1>2, <1>3 DEF Fitting, Numeric
<1> QED BY <1>y, <1>z, Ledger

(* A commit that fails changes nothing, or was applied and is counted once *)
(* more.                                                                   *)
LEMMA FlushFailsCounts ==
  ASSUME Typed, Typed', NEW p \in Posts, Tally(p), Spare(p), NEW f \in Flushers,
         FlushFails(f)
  PROVE  Tally(p)' /\ Spare(p)'
<1>a. Numeric(p) BY Numbers
<1>c. UNCHANGED requestVars =>
        /\ views' = views /\ Pending(p)' = Pending(p)
        /\ Left(Unadmitted)' = Left(Unadmitted)
        /\ Left(Unbuffered)' = Left(Unbuffered) /\ Left(Uncounted)' = Left(Uncounted)
  BY Still DEF requestVars
<1>d. UNCHANGED drain => InFlight(p)' = InFlight(p) BY Still
<1>e. (\A g \in Flushers \ {f} : drain'[g] = drain[g]) =>
        /\ InFlight(p)' + drain[f][p] = InFlight(p) + drain'[f][p]
        /\ drain[f][p] <= InFlight(p)
        /\ drain[f][p] \in Nat /\ drain'[f][p] \in Nat
  BY DrainCounts
<1>i. \A kinds : Fault(kinds) => /\ faults' = faults + 1 /\ excused \subseteq excused'
                                 /\ kinds \subseteq excused'
  BY DEF Fault
<1>1. UNCHANGED <<requestVars, buffer, drain>> BY DEF FlushFails
<1>2. CASE UNCHANGED db /\ Fault({}) BY QuietCounts, <1>1, <1>2
<1>3. CASE AddDrained(f) /\ Fault({"twice"})
  <2>1. db'[p] = db[p] + drain[f][p] BY <1>3 DEF AddDrained
  <2>2. drain[f][p] \in Nat /\ drain[f][p] <= InFlight(p) BY <1>e, <1>1
  <2>3. faults' = faults + 1 /\ excused \subseteq excused' /\ "twice" \in excused'
    BY <1>i, <1>3
  <2>4. InFlight(p) <= K BY <1>a DEF Spare, Numeric
  <2>y. Settled(p) BY <1>a, <1>c, <1>d, <1>1, <2>1, <2>2, <2>3, <2>4 DEF Counted, Settled, Numeric
  <2>z. Fitting(p) BY <1>a, <1>c, <1>d, <1>1, <2>1, <2>2, <2>3, <2>4 DEF Fitting, Numeric
  <2> QED BY <2>y, <2>z, Ledger
<1> QED BY <1>2, <1>3 DEF FlushFails

(* A hash nobody answers for any more is lost, unless its views went back. *)
LEMMA ForgetCounts ==
  ASSUME Typed, Typed', NEW p \in Posts, Tally(p), Spare(p), NEW f \in Flushers,
         UNCHANGED <<requestVars, db>>, Forget(f), Fault(Loss(f)),
         buffer'[p] \in {buffer[p], buffer[p] + drain[f][p]}
  PROVE  Tally(p)' /\ Spare(p)'
<1>a. Numeric(p) BY Numbers
<1>b. InFlight(p)' \in Nat BY NumbersNext DEF Numeric
<1>c. UNCHANGED requestVars =>
        /\ views' = views /\ Pending(p)' = Pending(p)
        /\ Left(Unadmitted)' = Left(Unadmitted)
        /\ Left(Unbuffered)' = Left(Unbuffered) /\ Left(Uncounted)' = Left(Uncounted)
  BY Still DEF requestVars
<1>e. (\A g \in Flushers \ {f} : drain'[g] = drain[g]) =>
        /\ InFlight(p)' + drain[f][p] = InFlight(p) + drain'[f][p]
        /\ drain[f][p] <= InFlight(p)
        /\ drain[f][p] \in Nat /\ drain'[f][p] \in Nat
  BY DrainCounts
<1>f. Nothing[p] = 0 BY DEF Nothing
<1>g. drain \in [Flushers -> [Posts -> Nat]] /\ drain[f] \in [Posts -> Nat] BY DEF Typed
<1>i. \A kinds : Fault(kinds) => /\ faults' = faults + 1 /\ excused \subseteq excused'
                                 /\ kinds \subseteq excused'
  BY DEF Fault
<1>1. /\ \A g \in Flushers \ {f} : drain'[g] = drain[g]
      /\ drain'[f][p] = 0
  BY <1>f, <1>g DEF Forget
<1>2. InFlight(p)' + drain[f][p] = InFlight(p) /\ drain[f][p] \in Nat
  <2>1. /\ InFlight(p)' + drain[f][p] = InFlight(p) + drain'[f][p]
        /\ drain[f][p] \in Nat
    BY <1>e, <1>1
  <2> QED BY <1>a, <1>1, <2>1 DEF Numeric
<1>3. faults' = faults + 1 /\ excused \subseteq excused' BY <1>i
<1>4. "lost" \in excused' \/ drain[f][p] = 0 BY <1>f, <1>i DEF Loss
<1>y. Settled(p) BY <1>a, <1>b, <1>c, <1>2, <1>3, <1>4 DEF Counted, Settled, Numeric
<1>z. Fitting(p) BY <1>a, <1>b, <1>c, <1>2, <1>3, <1>4 DEF Fitting, Numeric
<1> QED BY <1>y, <1>z, Ledger

(* A field that is merged back moves from the hash to the buffer.          *)
LEMMA MergeFieldCounts ==
  ASSUME Typed, Typed', NEW p \in Posts, Tally(p), Spare(p), NEW f \in Flushers,
         NEW q \in Posts, MergeField(f, q)
  PROVE  Tally(p)' /\ Spare(p)'
<1>a. Numeric(p) BY Numbers
<1>b. InFlight(p)' \in Nat BY NumbersNext DEF Numeric
<1>c. UNCHANGED requestVars =>
        /\ views' = views /\ Pending(p)' = Pending(p)
        /\ Left(Unadmitted)' = Left(Unadmitted)
        /\ Left(Unbuffered)' = Left(Unbuffered) /\ Left(Uncounted)' = Left(Uncounted)
  BY Still DEF requestVars
<1>e. (\A g \in Flushers \ {f} : drain'[g] = drain[g]) =>
        /\ InFlight(p)' + drain[f][p] = InFlight(p) + drain'[f][p]
        /\ drain[f][p] <= InFlight(p)
        /\ drain[f][p] \in Nat /\ drain'[f][p] \in Nat
  BY DrainCounts
<1>g. drain \in [Flushers -> [Posts -> Nat]] /\ drain[f] \in [Posts -> Nat] BY DEF Typed
<1>1. /\ \A g \in Flushers \ {f} : drain'[g] = drain[g]
      /\ drain'[f][p] = IF p = q THEN 0 ELSE drain[f][p]
  BY <1>g DEF MergeField
<1>2. buffer'[p] = IF p = q THEN buffer[p] + drain[f][p] ELSE buffer[p]
  BY DEF MergeField, Typed
<1>3. UNCHANGED <<requestVars, db, faults, excused>> BY DEF MergeField, NoFault
<1>y. Settled(p) BY <1>a, <1>b, <1>c, <1>e, <1>1, <1>2, <1>3 DEF Counted, Settled, Numeric
<1>z. Fitting(p) BY <1>a, <1>b, <1>c, <1>e, <1>1, <1>2, <1>3 DEF Fitting, Numeric
<1> QED BY <1>y, <1>z, Ledger

(* Every step of a flush round moves views between the buffer, the drain   *)
(* hash and the table, or is a fault that excuses the difference.          *)
LEMMA FlushCounts ==
  ASSUME Typed, Typed', NEW p \in Posts, Tally(p), Spare(p), NEW f \in Flushers, FlushNext(f)
  PROVE  Tally(p)' /\ Spare(p)'
<1>g. drain \in [Flushers -> [Posts -> Nat]] /\ drain[f] \in [Posts -> Nat] BY DEF Typed
<1>h. NoFault => faults' = faults /\ excused' = excused BY DEF NoFault
<1>i. \A kinds : Fault(kinds) => /\ faults' = faults + 1 /\ excused \subseteq excused'
                                 /\ kinds \subseteq excused'
  BY DEF Fault
<1>2. CASE TryAcquireLock(f) \/ AcquireFails(f) \/ DeleteDrain(f) \/ ReleaseLock(f)
  <2>1. UNCHANGED <<requestVars, buffer, db, drain>>
    BY <1>2 DEF TryAcquireLock, AcquireFails, DeleteDrain, ReleaseLock
  <2>2. NoFault \/ \E kinds : Fault(kinds)
    BY <1>2 DEF TryAcquireLock, AcquireFails, DeleteDrain, ReleaseLock
  <2> QED BY QuietCounts, <2>1, <2>2
<1>4. CASE RenameBuffer(f) BY TakeCounts, <1>4, <1>h DEF RenameBuffer
<1>5. CASE RenameFails(f)
  <2>1. CASE drain' = [drain EXCEPT ![f] = buffer] /\ buffer' = Nothing
    BY TakeCounts, <1>5, <1>i, <2>1 DEF RenameFails
  <2>2. CASE drain' = [drain EXCEPT ![f] = Nothing] /\ UNCHANGED buffer
    <3>1. drain[f] = Nothing BY <1>5 DEF RenameFails, Typed
    <3>2. drain' = drain BY <2>2, <3>1, <1>g
    <3> QED BY QuietCounts, <1>5, <2>2, <3>2 DEF RenameFails
  <2> QED BY <1>5, <2>1, <2>2 DEF RenameFails
<1>9. CASE MergeFails(f)
  <2>1. buffer'[p] \in {buffer[p], buffer[p] + drain[f][p]}
    BY <1>9 DEF MergeFails, Typed
  <2> QED BY ForgetCounts, <1>9, <2>1 DEF MergeFails
<1>10. CASE FlusherDies(f) BY ForgetCounts, <1>10 DEF FlusherDies
<1> QED
  BY <1>2, <1>4, <1>5, FlushCommitsCounts, FlushFailsCounts, <1>9, <1>10, MergeFieldCounts
     DEF FlushNext

(* The ledger of a post balances after every step.                         *)
LEMMA CountsStep ==
  ASSUME Typed, Typed', NEW p \in Posts, Tally(p), Spare(p), [Next]_vars
  PROVE  Tally(p)' /\ Spare(p)'
<1>1. ASSUME UNCHANGED <<rpc, views, buffer, db, drain, faults, excused>>
      PROVE  Tally(p)' /\ Spare(p)'
  BY <1>1, Still DEF Tally, Spare, Counted
<1>2. ASSUME NEW key \in Keys, DedupExpires(key) PROVE Tally(p)' /\ Spare(p)'
  BY <1>1, <1>2 DEF DedupExpires, flushVars, NoFault
<1>3. CASE LockExpires BY <1>1, <1>3 DEF LockExpires, requestVars, NoFault
<1>4. CASE UNCHANGED vars BY <1>1, <1>4 DEF vars
<1> QED BY <1>2, <1>3, <1>4, RequestCounts, FlushCounts DEF Next

-----------------------------------------------------------------------------
(* Every step keeps what is shown honest. *)

(* A response that adds up the row and the buffer as they now are.         *)
LEMMA HonestSum ==
  ASSUME Typed', NEW r \in Requests, Tally(PostOf[r])', Spare(PostOf[r])',
         shown'[r] <= db'[PostOf[r]] + buffer'[PostOf[r]],
         rpc'[r] = "done" \/ shown'[r] <= db'[PostOf[r]]
  PROVE  Honest(r)'
<1> PICK p \in Posts : p = PostOf[r] BY RequestAssumption
<1>1. /\ InFlight(p)' \in Nat /\ Pending(p)' \in Nat /\ Left(Uncounted)' \in Nat
      /\ db'[p] \in Nat /\ buffer'[p] \in Nat /\ views'[p] \in Nat
  BY NumbersNext DEF Numeric
<1>2. shown'[r] \in Nat BY DEF Typed
<1>3. "twice" \notin excused' => shown'[r] <= views'[p]
  BY <1>1, <1>2 DEF Tally, Counted
<1>4. shown'[r] <= Bound
  <2>1. faults' \in 0..MaxFaults BY DEF Typed
  <2>2. Budget(faults') + K <= Bound /\ Bound \in Nat BY <2>1, BudgetBound
  <2>3. Budget(faults') \in Nat /\ K \in Nat BY <2>1, BudgetGrows, KType
  <2>4. db'[p] + buffer'[p] + InFlight(p)' + Left(Uncounted)' <= Budget(faults')
    BY DEF Spare, Budget, K
  <2> QED BY <1>1, <1>2, <2>2, <2>3, <2>4
<1> QED BY <1>3, <1>4 DEF Honest, Bound

(* A response that does not change while the counters grow.                *)
LEMMA HonestStays ==
  ASSUME Typed, Typed', NEW r \in Requests, Honest(r), shown'[r] = shown[r],
         rpc'[r] = "done" \/ rpc[r] # "done",
         db'[PostOf[r]] >= db[PostOf[r]], views'[PostOf[r]] >= views[PostOf[r]],
         excused \subseteq excused'
  PROVE  Honest(r)'
<1>1. /\ shown[r] \in Nat /\ PostOf[r] \in Posts
      /\ db[PostOf[r]] \in Nat /\ views[PostOf[r]] \in Nat
      /\ db'[PostOf[r]] \in Nat /\ views'[PostOf[r]] \in Nat
  BY RequestAssumption DEF Typed
<1> QED BY <1>1 DEF Honest, Bound

(* The row and the views admitted only grow, and excuses stand.            *)
LEMMA Growing ==
  ASSUME Typed, Typed', [Next]_vars, NEW p \in Posts
  PROVE  db'[p] >= db[p] /\ views'[p] >= views[p] /\ excused \subseteq excused'
<1>0. db[p] \in Nat /\ views[p] \in Nat /\ db \in [Posts -> Nat] /\ views \in [Posts -> Nat]
  BY DEF Typed
<1>1. excused \subseteq excused'
  BY DEF Next, vars, RequestNext, FlushNext, ReadPost, Dedup, BufferView, ReadPending,
         TrackViewFails, DirectIncrement, RequestDies, DedupExpires, TryAcquireLock,
         AcquireFails, RenameBuffer, RenameFails, FlushCommits, FlushFails, MergeFails,
         DeleteDrain, ReleaseLock, FlusherDies, MergeField, LockExpires, NoFault, Fault
<1>2. \/ UNCHANGED views
      \/ \E r \in Requests : Admit(PostOf[r])
  BY DEF Next, vars, requestVars, RequestNext, FlushNext, ReadPost, Dedup, BufferView,
         ReadPending, TrackViewFails, DirectIncrement, RequestDies, DedupExpires,
         TryAcquireLock, AcquireFails, RenameBuffer, RenameFails, FlushCommits, FlushFails,
         MergeFails, DeleteDrain, ReleaseLock, FlusherDies, MergeField, LockExpires
<1>3. \/ UNCHANGED db
      \/ \E r \in Requests : db' = [db EXCEPT ![PostOf[r]] = @ + 1]
      \/ \E f \in Flushers : AddDrained(f)
  BY DEF Next, vars, RequestNext, FlushNext, ReadPost, Dedup, BufferView,
         ReadPending, TrackViewFails, DirectIncrement, RequestDies, DedupExpires,
         TryAcquireLock, AcquireFails, RenameBuffer, RenameFails, FlushCommits, FlushFails,
         MergeFails, DeleteDrain, ReleaseLock, FlusherDies, MergeField, LockExpires
<1>4. views'[p] >= views[p] BY <1>0, <1>2 DEF Admit
<1>5. db'[p] >= db[p]
  <2>1. ASSUME NEW f \in Flushers, AddDrained(f) PROVE db'[p] >= db[p]
    <3>1. drain[f][p] \in Nat /\ db'[p] = db[p] + drain[f][p] BY <2>1 DEF AddDrained, Typed
    <3> QED BY <1>0, <3>1
  <2>2. ASSUME NEW r \in Requests, db' = [db EXCEPT ![PostOf[r]] = @ + 1] PROVE db'[p] >= db[p]
    BY <1>0, <2>2
  <2> QED BY <1>0, <1>3, <2>1, <2>2
<1> QED BY <1>1, <1>4, <1>5

(* A step of one request leaves the count shown to another no further ahead*)
(* than it was.                                                            *)
LEMMA RequestHonest ==
  ASSUME Typed, Typed', \A p \in Posts : Tally(p)' /\ Spare(p)', \A r \in Requests : Honest(r),
         [Next]_vars, NEW r \in Requests, RequestNext(r), NEW q \in Requests
  PROVE  Honest(q)'
<1>a. PostOf[r] \in Posts /\ PostOf[q] \in Posts BY RequestAssumption
<1>b. /\ db'[PostOf[q]] >= db[PostOf[q]] /\ views'[PostOf[q]] >= views[PostOf[q]]
      /\ excused \subseteq excused'
  BY <1>a, Growing
<1>c. /\ shown[r] \in Nat /\ db[PostOf[r]] \in Nat /\ buffer[PostOf[r]] \in Nat
      /\ rpc \in [Requests -> Places] /\ shown \in [Requests -> Nat]
      /\ buffer \in [Posts -> Nat] /\ db \in [Posts -> Nat]
  BY <1>a DEF Typed
<1>d. Tally(PostOf[r])' /\ Spare(PostOf[r])' BY <1>a
<1>1. ASSUME q # r PROVE Honest(q)'
  <2>1. shown'[q] = shown[q] /\ rpc'[q] = rpc[q]
    BY <1>1, <1>c DEF RequestNext, ReadPost, Dedup, BufferView, ReadPending, TrackViewFails,
                      DirectIncrement, RequestDies, Go, Answer
  <2> QED BY <1>b, <2>1, HonestStays
<1>2. CASE ReadPost(r)
  <2>1. PICK n \in 0..db[PostOf[r]] : shown' = [shown EXCEPT ![r] = n] BY <1>2 DEF ReadPost
  <2>2. n \in Nat /\ n <= db[PostOf[r]] /\ shown'[r] = n BY <2>1, <1>c
  <2>3. UNCHANGED <<db, buffer>> BY <1>2 DEF ReadPost
  <2>4. shown'[r] <= db'[PostOf[r]] + buffer'[PostOf[r]] /\ shown'[r] <= db'[PostOf[r]]
    BY <1>c, <2>2, <2>3
  <2>5. Honest(r)' BY <1>d, <2>4, HonestSum
  <2> QED BY <1>1, <2>5
<1>3. CASE Dedup(r) \/ TrackViewFails(r) \/ RequestDies(r)
  <2>1. shown'[r] = shown[r] BY <1>3 DEF Dedup, TrackViewFails, RequestDies
  <2>2. rpc[r] # "done" BY <1>3 DEF Dedup, TrackViewFails, RequestDies
  <2>3. q = r => Honest(q)' BY <1>b, <2>1, <2>2, HonestStays
  <2> QED BY <1>1, <2>3
<1>4. CASE BufferView(r)
  <2>1. /\ buffer'[PostOf[r]] = buffer[PostOf[r]] + 1 /\ UNCHANGED db
        /\ shown'[r] = shown[r] + buffer'[PostOf[r]] /\ rpc'[r] = "done" /\ rpc[r] = "fresh"
    BY <1>4, <1>a, <1>c DEF BufferView, Answer, Go
  <2>2. shown[r] <= db[PostOf[r]] BY <2>1 DEF Honest
  <2>3. shown'[r] <= db'[PostOf[r]] + buffer'[PostOf[r]] BY <1>c, <2>1, <2>2
  <2>4. Honest(r)' BY <1>d, <2>1, <2>3, HonestSum
  <2> QED BY <1>1, <2>4
<1>5. CASE ReadPending(r)
  <2>1. /\ UNCHANGED <<db, buffer>> /\ rpc'[r] = "done" /\ rpc[r] = "duplicate"
        /\ shown'[r] = shown[r] + buffer[PostOf[r]]
    BY <1>5, <1>a, <1>c DEF ReadPending, Answer, Go
  <2>2. shown[r] <= db[PostOf[r]] BY <2>1 DEF Honest
  <2>3. shown'[r] <= db'[PostOf[r]] + buffer'[PostOf[r]] BY <1>c, <2>1, <2>2
  <2>4. Honest(r)' BY <1>d, <2>1, <2>3, HonestSum
  <2> QED BY <1>1, <2>4
<1>6. CASE DirectIncrement(r)
  <2>1. /\ db'[PostOf[r]] = db[PostOf[r]] + 1 /\ UNCHANGED buffer
        /\ shown'[r] = shown[r] + 1 /\ rpc'[r] = "done" /\ rpc[r] = "direct"
    BY <1>6, <1>a, <1>c DEF DirectIncrement, Answer, Go
  <2>2. shown[r] <= db[PostOf[r]] BY <2>1 DEF Honest
  <2>3. shown'[r] <= db'[PostOf[r]] + buffer'[PostOf[r]] BY <1>c, <2>1, <2>2
  <2>4. Honest(r)' BY <1>d, <2>1, <2>3, HonestSum
  <2> QED BY <1>1, <2>4
<1> QED BY <1>2, <1>3, <1>4, <1>5, <1>6 DEF RequestNext

(* No step makes a count that was shown too high.                          *)
LEMMA HonestStep ==
  ASSUME Typed, Typed', \A p \in Posts : Tally(p)' /\ Spare(p)', \A r \in Requests : Honest(r),
         [Next]_vars, NEW q \in Requests
  PROVE  Honest(q)'
<1>1. ASSUME UNCHANGED <<rpc, shown>> PROVE Honest(q)'
  <2>1. PostOf[q] \in Posts BY RequestAssumption
  <2>2. /\ db'[PostOf[q]] >= db[PostOf[q]] /\ views'[PostOf[q]] >= views[PostOf[q]]
        /\ excused \subseteq excused'
    BY <2>1, Growing
  <2> QED BY <1>1, <2>2, HonestStays
<1>2. ASSUME NEW f \in Flushers, FlushNext(f) PROVE UNCHANGED <<rpc, shown>>
  BY <1>2 DEF FlushNext, requestVars, TryAcquireLock, AcquireFails, RenameBuffer, RenameFails,
              FlushCommits, FlushFails, MergeFails, DeleteDrain, ReleaseLock, FlusherDies,
              MergeField
<1>3. ASSUME NEW key \in Keys, DedupExpires(key) PROVE UNCHANGED <<rpc, shown>>
  BY <1>3 DEF DedupExpires
<1>4. LockExpires => UNCHANGED <<rpc, shown>> BY DEF LockExpires, requestVars
<1>5. UNCHANGED vars => UNCHANGED <<rpc, shown>> BY DEF vars
<1> QED BY <1>1, <1>2, <1>3, <1>4, <1>5, RequestHonest DEF Next

-----------------------------------------------------------------------------
(* The invariant holds when nothing was read yet.                          *)
LEMMA InitInv == Init => Inv
<1> SUFFICES ASSUME Init PROVE Inv OBVIOUS
<1> USE DEF Init
<1>0. Nothing \in [Posts -> Nat] /\ \A p \in Posts : Nothing[p] = 0 BY DEF Nothing
<1>1. Typed BY RequestAssumption, FlusherAssumption, <1>0 DEF Typed, Places, Rounds
<1>2. ASSUME NEW p \in Posts PROVE Tally(p) /\ Spare(p)
  <2>1. InFlight(p) = 0
    <3>1. \A f \in Flushers : {f} \X (1..drain[f][p]) = {} BY <1>0, <1>2
    <3>2. UNION {{f} \X (1..drain[f][p]) : f \in Flushers} = {} BY <3>1
    <3> QED BY <3>2, FS_EmptySet DEF InFlight
  <2>2. Pending(p) = 0
    <3>1. {r \in Requests : PostOf[r] = p /\ rpc[r] \in {"fresh", "direct"}} = {} OBVIOUS
    <3> QED BY <3>1, FS_EmptySet DEF Pending
  <2>3. /\ Left(Unadmitted) = Cardinality(Requests) /\ Left(Unbuffered) = Cardinality(Requests)
        /\ Left(Uncounted) = Cardinality(Requests)
    BY DEF Left, Standing, Unadmitted, Unbuffered, Uncounted
  <2>4. db[p] = 0 /\ views[p] = buffer[p] /\ buffer[p] \in 0..1 BY <1>0, <1>2
  <2>5. Cardinality(Requests) \in Nat BY RequestAssumption, FS_CardinalityType
  <2>6. K <= Budget(faults) /\ Budget(faults) \in Nat BY FlusherAssumption, BudgetBound, BudgetGrows
  <2> QED BY <2>1, <2>2, <2>3, <2>4, <2>5, <2>6 DEF Tally, Spare, Counted, K
<1>3. ASSUME NEW r \in Requests PROVE Honest(r)
  <2>1. PostOf[r] \in Posts BY RequestAssumption, <1>3
  <2>2. /\ shown[r] = 0 /\ db[PostOf[r]] \in Nat /\ views[PostOf[r]] \in Nat
    BY <1>1, <1>3, <2>1 DEF Typed
  <2>3. Bound \in Nat BY FlusherAssumption, BudgetBound
  <2> QED BY <2>2, <2>3 DEF Honest
<1> QED BY <1>1, <1>2, <1>3 DEF Inv

(* Every step keeps the invariant.                                         *)
LEMMA NextInv == Inv /\ [Next]_vars => Inv'
<1> SUFFICES ASSUME Inv, [Next]_vars PROVE Inv' OBVIOUS
<1>1. Typed /\ Typed' BY TypesStep DEF Inv
<1>2. \A p \in Posts : Tally(p)' /\ Spare(p)' BY <1>1, CountsStep DEF Inv
<1>3. \A r \in Requests : Honest(r) BY DEF Inv
<1>4. \A r \in Requests : Honest(r)' BY <1>1, <1>2, <1>3, HonestStep
<1> QED BY <1>1, <1>2, <1>4 DEF Inv

(* The ledger of every post balances in every state, whatever the requests *)
(* and the flush rounds do: what was admitted is in the table, in the      *)
(* buffer, in a drain hash or still to be counted, up to what a fault      *)
(* excuses (_track_view, flush_view_counts_to_db).                         *)
THEOREM Invariance == Spec => []Inv
BY InitInv, NextInv, PTL DEF Spec

(* However rounds overlap and whatever fails, a view that was admitted is  *)
(* in the table, in the buffer, in a drain hash that is still answered for *)
(* or about to be counted, unless the process that held it died or the     *)
(* re-merge itself failed (flush_view_counts_to_db, _track_view).          *)
THEOREM ViewsAreKept == Spec => []NoViewLost
<1>1. Inv => NoViewLost BY DEF Inv, Tally, Counted, NoViewLost
<1> QED BY <1>1, Invariance, PTL

(* No view is counted twice unless the reply of an applied command was     *)
(* lost or Redis failed on a repetition.                                   *)
THEOREM ViewsCountOnce == Spec => []NoViewTwice
<1>1. Inv => NoViewTwice
  <2> SUFFICES ASSUME Inv, "twice" \notin excused, NEW p \in Posts
               PROVE  db[p] + buffer[p] + InFlight(p) <= views[p]
    BY DEF NoViewTwice
  <2>1. /\ InFlight(p) \in Nat /\ Pending(p) \in Nat
        /\ db[p] \in Nat /\ buffer[p] \in Nat /\ views[p] \in Nat
    BY Numbers DEF Inv, Numeric
  <2> QED BY <2>1 DEF Inv, Tally, Counted
<1> QED BY <1>1, Invariance, PTL

(* get_post_detail never shows more views than were admitted, although it  *)
(* adds a row read before a flush to a buffer read after it.               *)
THEOREM ShownIsHonest == Spec => []ShownNeverAhead
<1>1. Inv => ShownNeverAhead BY DEF Inv, Honest, ShownNeverAhead
<1> QED BY <1>1, Invariance, PTL

(* No counter exceeds Bound: each fault lets one view, or the views of one *)
(* drain hash, be counted once more and nothing else does.                 *)
THEOREM CountersAreBounded == Spec => []TypeOK
<1>1. Inv => TypeOK
  <2> SUFFICES ASSUME Inv PROVE TypeOK OBVIOUS
  <2>1. Typed BY DEF Inv
  <2>2. Bound \in Nat BY FlusherAssumption, BudgetBound
  <2>3. ASSUME NEW p \in Posts
        PROVE  /\ buffer[p] \in 0..Bound /\ db[p] \in 0..Bound /\ views[p] \in 0..Bound
               /\ \A f \in Flushers : drain[f][p] \in 0..Bound
    <3>1. Numeric(p) BY <2>1, <2>3, Numbers
    <3>2. Budget(faults) + K <= Bound BY <2>1, BudgetBound DEF Typed
    <3>3. Spare(p) BY <2>3 DEF Inv
    <3>4. ASSUME NEW f \in Flushers PROVE drain[f][p] \in Nat /\ drain[f][p] <= InFlight(p)
      <4>1. PICK d \in [Flushers -> [Posts -> Nat]] : d = drain BY <2>1 DEF Typed
      <4>2. d[f][p] <= Cardinality(Carried(d, p)) BY <2>3, <3>4, CarriedMoves
      <4>3. InFlight(p) = Cardinality(Carried(d, p)) BY <4>1 DEF InFlight, Carried
      <4> QED BY <2>3, <3>4, <4>1, <4>2, <4>3
    <3> QED BY <2>2, <3>1, <3>2, <3>3, <3>4 DEF Spare, Numeric
  <2>4. ASSUME NEW r \in Requests PROVE shown[r] \in 0..Bound
    BY <2>1, <2>2, <2>4 DEF Inv, Honest, Typed
  <2>5. /\ shown \in [Requests -> 0..Bound] /\ buffer \in [Posts -> 0..Bound]
        /\ db \in [Posts -> 0..Bound] /\ views \in [Posts -> 0..Bound]
    BY <2>1, <2>3, <2>4 DEF Typed
  <2>6. drain \in [Flushers -> [Posts -> 0..Bound]] BY <2>1, <2>3 DEF Typed
  <2> QED BY <2>1, <2>5, <2>6 DEF Typed, TypeOK, Places, Rounds
<1> QED BY <1>1, Invariance, PTL

=============================================================================
