-------------------------- MODULE CacheAsideProofs --------------------------
(***************************************************************************)
(* FreshEnough for any number of readers, any TTL and any time a load may  *)
(* take.                                                                   *)
(***************************************************************************)
EXTENDS CacheAside, TLAPS

(* Leaves are tried with Zenon, those with arithmetic then with SMT.       *)
USE ZenonT(4), SMTT(30), SMTT(40), ZenonT(60)

(* What is assumed of the constants.                                       *)
Sound == /\ Ttl \in Nat /\ LoadMax \in Nat /\ MaxTime \in Nat /\ MaxVersion \in Nat \ {0}
         /\ LockTtl \in Nat /\ None \notin Nat

Versions == 1 .. MaxVersion
Places == {"get", "lock", "wait", "load", "locked load", "setex", "release", "done", "failed", "dead"}
Reading == [at : Places, val : Nat \cup {None}, since : Nat, waited : Nat]

Typed ==
    /\ now \in Nat /\ current \in Versions /\ superseded \in [Versions -> Nat]
    /\ entry \in [val : Nat \cup {None}, ends : Nat]
    /\ reader \in [Readers -> Reading]

(* The data: nothing has replaced the current version or a later one.      *)
DataInv == now <= MaxTime /\ \A v \in Versions : v >= current => superseded[v] = MaxTime + 1

Seen(v) == v \in Versions /\ v <= current

(* The entry: it ends no later than one TTL and one load after its version *)
(* was replaced.  FreshEnough is not inductive without it: a hit copies    *)
(* the entry whatever its age.                                             *)
EntryInv ==
    entry.val # None =>
        /\ now <= entry.ends /\ entry.ends <= now + Ttl
        /\ entry.val # 0 => Seen(entry.val) /\ superseded[entry.val] + Ttl + LoadMax >= entry.ends

(* A reader: between its query and its answer lies at most one load.       *)
LoadInv(r) ==
    LET x == reader[r] IN
    x.at \in {"setex", "release"} =>
        /\ x.since <= now /\ now <= x.since + LoadMax
        /\ x.at = "setex" => x.val # None
        /\ x.val # None => Seen(x.val) /\ superseded[x.val] >= x.since
DoneInv(r) ==
    LET x == reader[r] IN
    x.at = "done" => /\ Seen(x.val) /\ x.since <= now
                     /\ superseded[x.val] + Ttl + LoadMax >= x.since
ReaderInv == \A r \in Readers : LoadInv(r) /\ DoneInv(r)

CacheInv == Typed /\ DataInv /\ EntryInv /\ ReaderInv

\* What Goto does to the readers.
LEMMA GotoMoves ==
  ASSUME Typed, NEW r \in Readers, NEW at \in Places, Goto(r, at)
  PROVE  /\ reader' \in [Readers -> Reading] /\ \A q \in Readers \ {r} : reader'[q] = reader[q]
         /\ reader'[r].at = at /\ reader'[r].val = reader[r].val /\ reader'[r].since = reader[r].since
<1>1. reader[r] \in Reading BY DEF Typed
<1>2. [reader[r] EXCEPT !.at = at] \in Reading BY <1>1 DEF Reading
<1> QED BY <1>1, <1>2 DEF Goto, Typed, Reading

\* What Hold does to the readers.
LEMMA HoldMoves ==
  ASSUME Typed, NEW r \in Readers, NEW at \in Places, NEW v \in Nat \cup {None}, Hold(r, at, v)
  PROVE  /\ reader' \in [Readers -> Reading] /\ \A q \in Readers \ {r} : reader'[q] = reader[q]
         /\ reader'[r].at = at /\ reader'[r].val = v /\ reader'[r].since = now
<1> DEFINE x == [at |-> at, val |-> v, since |-> now, waited |-> 0]
<1>1. x \in Reading /\ x.at = at /\ x.val = v /\ x.since = now BY DEF Typed, Reading
<1>2. reader' = [reader EXCEPT ![r] = x] /\ reader \in [Readers -> Reading] BY DEF Hold, Typed
<1> HIDE DEF x
<1>3. reader' \in [Readers -> Reading] /\ reader'[r] = x /\ \A q \in Readers \ {r} : reader'[q] = reader[q]
  BY <1>1, <1>2
<1> QED BY <1>1, <1>3

\* A step that only moves reader r, to a place where it has nothing to show.
LEMMA MoveKeeps ==
  ASSUME CacheInv, NEW r \in Readers, UNCHANGED <<now, current, superseded, entry>>,
         reader' \in [Readers -> Reading], \A q \in Readers \ {r} : reader'[q] = reader[q],
         reader'[r].at \notin {"setex", "release", "done"}
  PROVE  CacheInv'
<1>1. Typed' /\ DataInv' /\ EntryInv'
  BY DEF CacheInv, Typed, DataInv, EntryInv, Seen
<1>2. ReaderInv'
  BY DEF CacheInv, ReaderInv, LoadInv, DoneInv, Seen
<1> QED BY <1>1, <1>2 DEF CacheInv

\* A step in which reader r gets a version that is fresh enough now.
LEMMA AnswerKeeps ==
  ASSUME Sound, CacheInv, NEW r \in Readers, NEW v \in Versions, Answer(r, v), v <= current,
         UNCHANGED <<now, current, superseded, entry>>, superseded[v] + Ttl + LoadMax >= now
  PROVE  CacheInv'
<1>0. Typed /\ v \in Nat BY DEF CacheInv, Versions, Sound
<1>1. /\ reader' \in [Readers -> Reading] /\ \A q \in Readers \ {r} : reader'[q] = reader[q]
      /\ reader'[r].at = "done" /\ reader'[r].val = v /\ reader'[r].since = now
  BY <1>0, HoldMoves DEF Answer, Places
<1>2. Typed' /\ DataInv' /\ EntryInv'
  BY <1>1 DEF CacheInv, Typed, DataInv, EntryInv, Seen
<1>3. ASSUME NEW q \in Readers PROVE LoadInv(q)' /\ DoneInv(q)'
  <2>1. CASE q = r BY <1>1, <2>1 DEF LoadInv, DoneInv, Seen, CacheInv, Typed
  <2>2. CASE q # r BY <1>1, <2>2 DEF CacheInv, ReaderInv, LoadInv, DoneInv, Seen
  <2> QED BY <2>1, <2>2
<1> QED BY <1>2, <1>3 DEF CacheInv, ReaderInv

\* The cached entry, as long as it is there, may be answered with.
LEMMA HitIsFresh ==
  ASSUME Sound, CacheInv, cached # None, decode(cached) # None
  PROVE  cached \in Versions /\ cached <= current /\ superseded[cached] + Ttl + LoadMax >= now
<1>1. entry.val # None /\ entry.val # 0 BY DEF cached, decode
<1>2. Seen(entry.val) /\ superseded[entry.val] \in Nat /\ entry.ends \in Nat /\ now \in Nat
  BY <1>1 DEF CacheInv, EntryInv, Typed, Seen
<1> QED BY <1>1, <1>2 DEF CacheInv, EntryInv, cached, Seen, Sound

\* So may what a query sees.
LEMMA CurrentIsFresh ==
  ASSUME Sound, CacheInv
  PROVE  current \in Versions /\ superseded[current] = MaxTime + 1 /\ superseded[current] >= now
BY DEF Sound, CacheInv, Typed, DataInv, Versions

\* The steps of a reader.
LEMMA StepsKeep ==
  ASSUME Sound, CacheInv, NEW r \in Readers, Steps(r) PROVE CacheInv'
<1>0. Typed BY DEF CacheInv
<1>1. CASE get(r)
  <2>1. CASE cached # None /\ decode(cached) # None /\ Answer(r, cached)
    BY <1>1, <2>1, HitIsFresh, AnswerKeeps DEF get
  <2>2. CASE Goto(r, "lock") \/ Goto(r, "load")
    <3>1. /\ reader' \in [Readers -> Reading] /\ \A q \in Readers \ {r} : reader'[q] = reader[q]
          /\ reader'[r].at \in {"lock", "load"}
      BY <1>0, <2>2, GotoMoves DEF Places
    <3> QED BY <1>1, <3>1, MoveKeeps DEF get
  <2> QED BY <1>1, <2>1, <2>2 DEF get
<1>2. CASE try_acquire_lock(r)
  <2>1. /\ reader' \in [Readers -> Reading] /\ \A q \in Readers \ {r} : reader'[q] = reader[q]
        /\ reader'[r].at \in {"locked load", "wait", "load"}
    BY <1>0, <1>2, GotoMoves DEF try_acquire_lock, Places
  <2> QED BY <1>2, <2>1, MoveKeeps DEF try_acquire_lock
<1>3. CASE wait(r)
  <2>1. CASE cached # None /\ decode(cached) # None /\ Answer(r, cached)
    BY <1>3, <2>1, HitIsFresh, AnswerKeeps DEF wait
  <2>2. CASE Goto(r, "load")
    <3>1. /\ reader' \in [Readers -> Reading] /\ \A q \in Readers \ {r} : reader'[q] = reader[q]
          /\ reader'[r].at = "load"
      BY <1>0, <2>2, GotoMoves DEF Places
    <3> QED BY <1>3, <3>1, MoveKeeps DEF wait
  <2>3. CASE reader' = [reader EXCEPT ![r].waited = @ + 1,
                          ![r].at = IF waited_out(reader[r].waited) THEN "load" ELSE "wait"]
    <3>1. PICK at \in {"load", "wait"} : at = IF waited_out(reader[r].waited) THEN "load" ELSE "wait"
      OBVIOUS
    <3>2. reader[r] \in Reading /\ reader[r].waited + 1 \in Nat BY <1>0 DEF Typed, Reading
    <3>3. [reader[r] EXCEPT !.waited = @ + 1, !.at = at] \in Reading
      BY <3>2 DEF Reading, Places
    <3>4. /\ reader' \in [Readers -> Reading] /\ \A q \in Readers \ {r} : reader'[q] = reader[q]
          /\ reader'[r].at \in {"wait", "load"}
      BY <1>0, <2>3, <3>1, <3>2, <3>3 DEF Typed, Reading
    <3> QED BY <1>3, <3>4, MoveKeeps DEF wait
  <2> QED BY <1>3, <2>1, <2>2, <2>3 DEF wait
<1>4. CASE load(r)
  <2>1. superseded[current] + Ttl + LoadMax >= now /\ current <= current
    BY <1>0, CurrentIsFresh DEF Sound, Typed, Versions
  <2>2. CASE Answer(r, current)
    BY <1>4, <2>1, <2>2, CurrentIsFresh, AnswerKeeps DEF load
  <2>3. CASE Goto(r, "failed")
    <3>1. /\ reader' \in [Readers -> Reading] /\ \A q \in Readers \ {r} : reader'[q] = reader[q]
          /\ reader'[r].at = "failed"
      BY <1>0, <2>3, GotoMoves DEF Places
    <3> QED BY <1>4, <3>1, MoveKeeps DEF load
  <2> QED BY <1>4, <2>2, <2>3 DEF load
<1>5. CASE locked_load(r)
  <2>0. current \in Nat BY <1>0 DEF Typed, Versions, Sound
  <2>1. /\ reader' \in [Readers -> Reading] /\ \A q \in Readers \ {r} : reader'[q] = reader[q]
        /\ reader'[r].since = now
        /\ \/ reader'[r].val = current /\ reader'[r].at = "setex"
           \/ reader'[r].val = None /\ reader'[r].at = "release"
        /\ UNCHANGED <<now, current, superseded, entry>>
    BY <1>0, <1>5, <2>0, HoldMoves DEF locked_load, Places
  <2>2. Typed' /\ DataInv' /\ EntryInv'
    BY <2>1 DEF CacheInv, Typed, DataInv, EntryInv, Seen
  <2>3. ASSUME NEW q \in Readers PROVE LoadInv(q)' /\ DoneInv(q)'
    <3>1. CASE q = r
      BY <1>0, <2>1, <3>1, CurrentIsFresh DEF LoadInv, DoneInv, Seen, Typed, Sound, Versions
    <3>2. CASE q # r BY <2>1, <3>2 DEF CacheInv, ReaderInv, LoadInv, DoneInv, Seen
    <3> QED BY <3>1, <3>2
  <2> QED BY <2>2, <2>3 DEF CacheInv, ReaderInv
<1>6. CASE setex(r)
  <2> DEFINE x == reader[r]
  <2>1. /\ x.val # None /\ Seen(x.val) /\ superseded[x.val] >= x.since
        /\ x.since <= now /\ now <= x.since + LoadMax
    BY <1>6 DEF setex, CacheInv, ReaderInv, LoadInv
  <2>2. x.since \in Nat /\ superseded[x.val] \in Nat /\ now \in Nat /\ x.val \in Nat
    BY <1>0, <2>1 DEF Typed, Reading, Seen, Versions
  <2>3. /\ reader' \in [Readers -> Reading] /\ \A q \in Readers \ {r} : reader'[q] = reader[q]
        /\ reader'[r].at = "release" /\ reader'[r].val = x.val /\ reader'[r].since = x.since
        /\ UNCHANGED <<now, current, superseded>>
    BY <1>0, <1>6, GotoMoves DEF setex, Places
  <2>4. entry' = entry \/ entry' = [val |-> x.val, ends |-> now + Ttl]
    BY <1>6 DEF setex, write
  <2>5. Typed'
    BY <1>0, <2>2, <2>3, <2>4 DEF Typed, Sound
  <2>6. DataInv' BY <2>3 DEF CacheInv, DataInv
  <2>7. EntryInv'
    BY <2>1, <2>2, <2>3, <2>4 DEF CacheInv, EntryInv, Seen, Sound
  <2>8. ReaderInv'
    <3> SUFFICES ASSUME NEW q \in Readers PROVE LoadInv(q)' /\ DoneInv(q)'
      BY DEF ReaderInv
    <3>1. CASE q = r BY <2>1, <2>3, <3>1 DEF LoadInv, DoneInv, Seen
    <3>2. CASE q # r BY <2>3, <3>2 DEF CacheInv, ReaderInv, LoadInv, DoneInv, Seen
    <3> QED BY <3>1, <3>2
  <2> QED BY <2>5, <2>6, <2>7, <2>8 DEF CacheInv
<1>7. CASE release_lock(r)
  <2>1. CASE reader[r].val = None
    <3>1. /\ reader' \in [Readers -> Reading] /\ \A q \in Readers \ {r} : reader'[q] = reader[q]
          /\ reader'[r].at = "failed"
      BY <1>0, <1>7, <2>1, GotoMoves DEF release_lock, Places
    <3> QED BY <1>7, <3>1, MoveKeeps DEF release_lock
  <2>2. CASE reader[r].val # None
    <3> DEFINE x == reader[r]
    <3>1. /\ Seen(x.val) /\ superseded[x.val] >= x.since /\ now <= x.since + LoadMax
      BY <1>7, <2>2 DEF release_lock, CacheInv, ReaderInv, LoadInv
    <3>2. x.since \in Nat /\ superseded[x.val] \in Nat /\ now \in Nat
      BY <1>0, <3>1 DEF Typed, Reading, Seen
    <3>3. superseded[x.val] + Ttl + LoadMax >= now
      BY <3>1, <3>2 DEF Sound
    <3> QED BY <1>7, <2>2, <3>1, <3>3, AnswerKeeps DEF release_lock, Seen
  <2> QED BY <2>1, <2>2
<1> QED BY <1>1, <1>2, <1>3, <1>4, <1>5, <1>6, <1>7 DEF Steps

\* A change of the data is no earlier than anything read or cached.
LEMMA ChangeKeeps == ASSUME Sound, CacheInv, change PROVE CacheInv'
<1>0. Typed /\ current < MaxVersion /\ UNCHANGED <<now, entry, reader>> BY DEF change, CacheInv
<1>1. /\ current' = current + 1 /\ current' \in Versions
      /\ superseded' \in [Versions -> Nat] /\ superseded'[current] = now
      /\ \A v \in Versions \ {current} : superseded'[v] = superseded[v]
  BY <1>0 DEF change, Typed, Versions, Sound
<1>2. Typed' BY <1>0, <1>1 DEF Typed
<1>3. DataInv' BY <1>0, <1>1 DEF CacheInv, DataInv, Typed, Versions
<1>4. EntryInv'
  <2>1. CASE entry.val = current
    BY <1>0, <1>1, <2>1 DEF CacheInv, EntryInv, Seen, Typed, Sound, Versions
  <2>2. CASE entry.val # current
    <3>1. Seen(entry.val) => Seen(entry.val)' /\ superseded'[entry.val] = superseded[entry.val]
      BY <1>0, <1>1, <2>2 DEF Seen, Typed, Versions, Sound
    <3> QED BY <1>0, <3>1 DEF CacheInv, EntryInv
  <2> QED BY <2>1, <2>2
<1>5. ASSUME NEW q \in Readers PROVE LoadInv(q)' /\ DoneInv(q)'
  <2>0. reader[q] \in Reading /\ LoadInv(q) /\ DoneInv(q) BY <1>0 DEF CacheInv, ReaderInv, Typed
  <2>1. CASE reader[q].val = current
    <3>1. /\ current \in Versions /\ current <= current' /\ superseded'[current] = now
          /\ UNCHANGED <<reader, now>> /\ now \in Nat /\ reader[q].since \in Nat
      BY <1>0, <1>1, <2>0 DEF Typed, Versions, Sound, Reading
    <3>2. LoadInv(q)' BY <2>0, <2>1, <3>1 DEF LoadInv, Seen
    <3>3. DoneInv(q)' BY <2>0, <2>1, <3>1 DEF DoneInv, Seen, Sound
    <3> QED BY <3>2, <3>3
  <2>2. CASE reader[q].val # current
    <3>1. UNCHANGED <<reader, now>> BY <1>0
    <3>2. current \in Nat /\ \A v \in Versions : v \in Nat BY <1>0 DEF Typed, Versions
    <3>3. Seen(reader[q].val) => Seen(reader[q].val)'
      <4>1. \A v \in Versions : v <= current => v <= current' BY <1>1, <3>2
      <4>2. reader'[q].val = reader[q].val BY <3>1
      <4> QED BY <4>1, <4>2 DEF Seen
    <3>4. Seen(reader[q].val) => superseded'[reader[q].val] = superseded[reader[q].val]
      BY <1>1, <2>2 DEF Seen
    <3> QED BY <2>0, <3>1, <3>3, <3>4 DEF LoadInv, DoneInv
  <2> QED BY <2>1, <2>2
<1> QED BY <1>2, <1>3, <1>4, <1>5 DEF CacheInv, ReaderInv

\* The clock waits for a load that takes its longest, and ends the entry in
\* time.
LEMMA TickKeeps == ASSUME Sound, CacheInv, Tick PROVE CacheInv'
<1>0. Typed BY DEF CacheInv
<1>1. /\ now' = now + 1 /\ now < MaxTime /\ UNCHANGED <<current, superseded, reader>>
      /\ entry' = IF entry.ends <= now' THEN NoEntry ELSE entry
      /\ \A r \in Readers : reader[r].at \in {"setex", "release"} => now < reader[r].since + LoadMax
  BY DEF Tick
<1>2. Typed' BY <1>0, <1>1 DEF Typed, NoEntry
<1>3. DataInv' BY <1>0, <1>1 DEF CacheInv, DataInv, Typed, Sound
<1>4. EntryInv' BY <1>0, <1>1 DEF CacheInv, EntryInv, NoEntry, Typed, Sound, Seen
<1>5. ReaderInv'
  BY <1>0, <1>1 DEF CacheInv, ReaderInv, LoadInv, DoneInv, Seen, Typed, Reading, Sound
<1> QED BY <1>2, <1>3, <1>4, <1>5 DEF CacheInv

\* Every step keeps the invariant.
LEMMA CacheNext == ASSUME Sound, CacheInv, [Next]_vars PROVE CacheInv'
<1>0. Typed BY DEF CacheInv
<1>1. CASE UNCHANGED vars
  BY <1>1 DEF vars, CacheInv, Typed, DataInv, EntryInv, ReaderInv, LoadInv, DoneInv, Seen
<1>2. ASSUME NEW r \in Readers, Steps(r) PROVE CacheInv'
  BY <1>2, StepsKeep
<1>3. ASSUME NEW r \in Readers, again(r) \/ die(r) PROVE CacheInv'
  <2>0. /\ Fresh \in Reading /\ Fresh.at = "get"
        /\ [Fresh EXCEPT !.at = "dead"] \in Reading /\ [Fresh EXCEPT !.at = "dead"].at = "dead"
    BY DEF Fresh, Reading, Places
  <2>1. /\ reader' \in [Readers -> Reading] /\ \A q \in Readers \ {r} : reader'[q] = reader[q]
        /\ reader'[r].at \in {"get", "dead"}
    BY <1>0, <1>3, <2>0 DEF again, die, Typed
  <2> QED BY <1>3, <2>1, MoveKeeps DEF again, die
<1>4. CASE change BY <1>4, ChangeKeeps
<1>5. CASE Tick BY <1>5, TickKeeps
<1> QED BY <1>1, <1>2, <1>3, <1>4, <1>5 DEF Next

\* It holds at the start, also with an entry of another schema left behind.
LEMMA CacheInit == ASSUME Sound, Init PROVE CacheInv
<1>1. Typed
  BY DEF Init, Sound, Typed, Versions, NoEntry, Fresh, Reading, Places
<1>2. DataInv BY DEF Init, Sound, DataInv, Versions
<1>3. EntryInv BY DEF Init, Sound, EntryInv, NoEntry
<1>4. ReaderInv BY DEF Init, ReaderInv, LoadInv, DoneInv, Fresh
<1> QED BY <1>1, <1>2, <1>3, <1>4 DEF CacheInv

\* An answer of get_or_compute_json is never older than one TTL and one load,
\* for any number of readers, losses of the lock and failures of Redis.
THEOREM AnswersAreFresh == ASSUME Sound PROVE Spec => []FreshEnough
<1>1. Init => CacheInv BY CacheInit
<1>2. CacheInv /\ [Next]_vars => CacheInv' BY CacheNext
<1>3. CacheInv => FreshEnough BY DEF CacheInv, ReaderInv, DoneInv, FreshEnough
<1> QED BY <1>1, <1>2, <1>3, PTL DEF Spec
=============================================================================
