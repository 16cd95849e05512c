--------------------------- MODULE LifespanProofs ---------------------------
(***************************************************************************)
(* How the cleanup jobs and the connections of the application's instances *)
(* go together, for any number of instances, jobs and faults.              *)
(***************************************************************************)
EXTENDS Lifespan, FiniteSetTheorems, TLAPS

(* Leaves are tried with Zenon, those with arithmetic then with SMT.       *)
USE ZenonT(4), SMTT(30), SMTT(40), ZenonT(60)

(* What is assumed of the constants: there is a job, the one that requests *)
(* start is among them, and None and Lost are nobody's token.              *)
Sound ==
    /\ Len(Jobs) \in Nat \ {0} /\ DOMAIN Jobs = 1 .. Len(Jobs) /\ Sweep \in DOMAIN Jobs
    /\ None \notin Passes /\ Lost \notin Passes
    /\ Attempts \in Nat \ {0} /\ MaxFaults \in Nat

Places == {"connecting", "opening", "first pass", "up", "cleanup", "flush", "listener", "inline",
           "queue", "redis", "db", "down"}
Steps == {"lock", "run", "release", "over"}
Records == [at : Steps, n : DOMAIN Jobs, token : BOOLEAN, last : BOOLEAN]

Typed ==
    /\ at \in [Instances -> Places]
    /\ tries \in [Instances -> Nat]
    /\ open \in [Instances -> SUBSET {"db", "redis", "queue"}]
    /\ pass \in [Passes -> Records]
    /\ busy \in [Instances -> SUBSET {"flush", "inline", "listener", "cancelled"}]
    /\ lock \in [DOMAIN Jobs -> Passes \cup {None, Lost}]
    /\ outlived \subseteq Passes
    /\ faults \in 0 .. MaxFaults

(* Where lifespan of an instance is while a pass of this kind is under way *)
(* and while a task of each kind is at work; where there is a database.    *)
During(kind) == IF kind = "sweep" THEN {"up"} ELSE {"first pass", "up", "cleanup"}
Until(w) == CASE w = "flush" -> {"up", "cleanup", "flush"}
              [] w = "listener" -> {"up", "cleanup", "flush", "listener"}
              [] w = "inline" -> {"up", "cleanup", "flush", "listener", "inline"}
              [] OTHER -> {"queue", "redis", "db", "down"}
Connected == Places \ {"connecting", "down"}

LifeInv ==
    \A i \in Instances :
        /\ at[i] \in Connected => "db" \in open[i]
        /\ at[i] = "connecting" => tries[i] < Attempts
        /\ tries[i] <= Attempts
        /\ \A w \in busy[i] : at[i] \in Until(w)

PassInv ==
    \A p \in Passes :
        /\ pass[p] # Over => at[p[1]] \in During(p[2])
        /\ pass[p].token => "redis" \in open[p[1]]

(* The lock of a job that runs under it has the token of the pass that     *)
(* runs it, until it expires.                                              *)
HeldInv ==
    \A p \in Passes \ outlived : pass[p].at = "run" /\ pass[p].token => lock[Key(p)] = p

Inv == Typed /\ LifeInv /\ PassInv /\ HeldInv

-----------------------------------------------------------------------------
(* A pass is an instance and a kind.                                       *)
LEMMA PassesAre ==
  /\ \A p \in Passes : p[1] \in Instances /\ p[2] \in {"periodic", "sweep"} /\ p = <<p[1], p[2]>>
  /\ \A i \in Instances : /\ <<i, "sweep">> \in Passes /\ Periodic(i) \in Passes
                          /\ <<i, "sweep">>[1] = i /\ <<i, "sweep">>[2] = "sweep"
                          /\ Periodic(i)[1] = i /\ Periodic(i)[2] = "periodic"
BY DEF Passes, Periodic

(* A pass that is over, or only begins, has no token.                      *)
LEMMA RecordsAre ==
  ASSUME Sound
  PROVE  /\ Over \in Records /\ Over.at = "over" /\ ~Over.token
         /\ \A n \in DOMAIN Jobs : Begin(n) \in Records /\ Begin(n).at = "lock" /\ ~Begin(n).token
BY DEF Sound, Records, Over, Begin, Steps

(* The order of the shutdown, place by place.                              *)
LEMMA AfterIs ==
  ASSUME NEW i \in Instances
  PROVE  /\ at[i] = "cleanup" => After(i) = "flush"
         /\ at[i] = "flush" => After(i) = "listener"
         /\ at[i] = "listener" => After(i) = "inline"
         /\ at[i] = "inline" => After(i) = "queue"
         /\ at[i] = "queue" => After(i) = "redis"
         /\ at[i] = "redis" => After(i) = "db"
         /\ at[i] = "db" => After(i) = "down"
BY DEF After, Shutdown

(* The next job of a pass is one of the jobs, and not yet locked.          *)
LEMMA next_jobType ==
  ASSUME Sound, Typed, NEW p \in Passes
  PROVE  next_job(p) \in Records /\ next_job(p).at \in {"lock", "over"} /\ ~next_job(p).token
<1>1. pass[p] \in Records BY DEF Typed
<1>2. pass[p].n \in DOMAIN Jobs BY <1>1 DEF Records
<1>3. CASE pass[p].last \/ p[2] = "sweep" \/ pass[p].n = Len(Jobs)
  BY <1>3, RecordsAre DEF next_job
<1>4. CASE ~(pass[p].last \/ p[2] = "sweep" \/ pass[p].n = Len(Jobs))
  <2>1. pass[p].n + 1 \in DOMAIN Jobs BY <1>2, <1>4 DEF Sound
  <2> QED BY <2>1, <1>4, RecordsAre DEF next_job
<1> QED BY <1>3, <1>4

-----------------------------------------------------------------------------
(* A step of one pass p, of an instance where passes of its kind may be    *)
(* under way, keeps what is known of the instances and the passes.         *)
LEMMA PassMoves ==
  ASSUME Sound, Typed, LifeInv, PassInv,
         NEW p \in Passes, NEW v \in Records, Set(p, v),
         v # Over => at[p[1]] \in During(p[2]),
         v.token => "redis" \in open[p[1]],
         UNCHANGED <<at, tries, open, busy>>
  PROVE  LifeInv' /\ PassInv' /\ pass' \in [Passes -> Records]
<1>1. pass' \in [Passes -> Records] BY DEF Typed, Set
<1>2. LifeInv' BY DEF LifeInv
<1>3. PassInv'
  <2> SUFFICES ASSUME NEW q \in Passes
               PROVE  /\ pass'[q] # Over => at[q[1]] \in During(q[2])
                      /\ pass'[q].token => "redis" \in open[q[1]]
    BY DEF PassInv
  <2>1. CASE q = p
    <3>1. pass'[q] = v BY <2>1 DEF Set, Typed
    <3> QED BY <3>1, <2>1
  <2>2. CASE q # p
    <3>1. pass'[q] = pass[q] BY <2>2 DEF Set, Typed
    <3> QED BY <3>1 DEF PassInv
  <2> QED BY <2>1, <2>2
<1> QED BY <1>1, <1>2, <1>3

(* A step of an instance keeps what is known of the passes, if passes that *)
(* are under way may be so where it goes, and Redis is left to their       *)
(* tokens.                                                                 *)
LEMMA LifeMoves ==
  ASSUME Sound, Typed, PassInv, NEW i \in Instances,
         NEW a \in Places, at' = [at EXCEPT ![i] = a],
         NEW o \in SUBSET {"db", "redis", "queue"}, open' = [open EXCEPT ![i] = o],
         \A p \in Passes : p[1] = i /\ pass[p] # Over => a \in During(p[2]) /\ open[i] \subseteq o,
         UNCHANGED pass
  PROVE  PassInv'
<1> SUFFICES ASSUME NEW q \in Passes
             PROVE  /\ pass[q] # Over => at'[q[1]] \in During(q[2])
                    /\ pass[q].token => "redis" \in open'[q[1]]
  BY DEF PassInv
<1>1. q[1] \in Instances BY PassesAre
<1>2. CASE q[1] = i
  <2>1. at'[q[1]] = a /\ open'[q[1]] = o BY <1>1, <1>2 DEF Typed
  <2>2. pass[q].token => pass[q] # Over BY RecordsAre
  <2>3. pass[q].token => "redis" \in open[i] BY <1>2 DEF PassInv
  <2> QED BY <2>1, <2>2, <2>3, <1>2
<1>3. CASE q[1] # i
  <2>1. at'[q[1]] = at[q[1]] /\ open'[q[1]] = open[q[1]] BY <1>1, <1>3 DEF Typed
  <2> QED BY <2>1 DEF PassInv
<1> QED BY <1>2, <1>3

Goes(i, a, t, o, b) ==
    /\ at' = [at EXCEPT ![i] = a] /\ tries' = [tries EXCEPT ![i] = t]
    /\ open' = [open EXCEPT ![i] = o] /\ busy' = [busy EXCEPT ![i] = b]

Good(a, t, o, b) ==
    /\ a \in Connected => "db" \in o
    /\ a = "connecting" => t < Attempts
    /\ t <= Attempts
    /\ \A w \in b : a \in Until(w)

(* Every step of an instance is a step for which the facts about that      *)
(* instance have to be seen; the others stay as they were.                 *)
LEMMA OneInstance ==
  ASSUME Typed, LifeInv, NEW i \in Instances,
         NEW a \in Places, NEW t \in Nat,
         NEW o \in SUBSET {"db", "redis", "queue"}, NEW b \in SUBSET {"flush", "inline", "listener", "cancelled"},
         Goes(i, a, t, o, b), Good(a, t, o, b)
  PROVE  /\ LifeInv'
         /\ at' \in [Instances -> Places] /\ tries' \in [Instances -> Nat]
         /\ open' \in [Instances -> SUBSET {"db", "redis", "queue"}]
         /\ busy' \in [Instances -> SUBSET {"flush", "inline", "listener", "cancelled"}]
<1>1. /\ at' \in [Instances -> Places] /\ tries' \in [Instances -> Nat]
      /\ open' \in [Instances -> SUBSET {"db", "redis", "queue"}]
      /\ busy' \in [Instances -> SUBSET {"flush", "inline", "listener", "cancelled"}]
  BY DEF Typed, Goes
<1>2. LifeInv'
  <2> SUFFICES ASSUME NEW j \in Instances
               PROVE  /\ at'[j] \in Connected => "db" \in open'[j]
                      /\ at'[j] = "connecting" => tries'[j] < Attempts
                      /\ tries'[j] <= Attempts
                      /\ \A w \in busy'[j] : at'[j] \in Until(w)
    BY DEF LifeInv
  <2>1. CASE j = i
    <3>1. at'[j] = a /\ tries'[j] = t /\ open'[j] = o /\ busy'[j] = b BY <2>1 DEF Typed, Goes
    <3> QED BY <3>1 DEF Good
  <2>2. CASE j # i
    <3>1. at'[j] = at[j] /\ tries'[j] = tries[j] /\ open'[j] = open[j] /\ busy'[j] = busy[j]
      BY <2>2 DEF Typed, Goes
    <3> QED BY <3>1 DEF LifeInv
  <2> QED BY <2>1, <2>2
<1> QED BY <1>1, <1>2

(* A step of pass p keeps every lock that another pass runs under: it only *)
(* takes a free lock, and frees one that has its own token.                *)
LEMMA HeldMoves ==
  ASSUME Sound, Typed, HeldInv,
         NEW p \in Passes, NEW v \in Records, Set(p, v),
         outlived \ {p} \subseteq outlived',
         v.at = "run" /\ v.token => lock'[v.n] = p,
         \A q \in Passes \ {p}, k \in DOMAIN Jobs : lock[k] = q => lock'[k] = q
  PROVE  HeldInv'
<1> SUFFICES ASSUME NEW q \in Passes, q \notin outlived', pass'[q].at = "run", pass'[q].token
             PROVE  lock'[pass'[q].n] = q
  BY DEF HeldInv, Key
<1>1. CASE q = p
  <2>1. pass'[q] = v BY <1>1 DEF Set, Typed
  <2> QED BY <2>1, <1>1
<1>2. CASE q # p
  <2>1. pass'[q] = pass[q] BY <1>2 DEF Set, Typed
  <2>2. q \notin outlived BY <1>2
  <2>3. lock[pass[q].n] = q BY <2>1, <2>2 DEF HeldInv, Key
  <2>4. pass[q] \in Records BY DEF Typed
  <2>5. pass[q].n \in DOMAIN Jobs BY <2>4 DEF Records
  <2> QED BY <2>1, <2>3, <2>5, <1>2
<1> QED BY <1>1, <1>2

(* SET NX keeps every token there is, and a release every token but its own.*)
LEMMA LocksAre ==
  ASSUME Sound, Typed, NEW p \in Passes, NEW h \in Passes \cup {None, Lost}
  PROVE  /\ Key(p) \in DOMAIN Jobs
         /\ set_nx(Key(p), h) \in [DOMAIN Jobs -> Passes \cup {None, Lost}]
         /\ lock[Key(p)] = None => set_nx(Key(p), h)[Key(p)] = h
         /\ \A q \in Passes, k \in DOMAIN Jobs : lock[k] = q => set_nx(Key(p), h)[k] = q
         /\ released(p) \in [DOMAIN Jobs -> Passes \cup {None, Lost}]
         /\ \A q \in Passes \ {p}, k \in DOMAIN Jobs : lock[k] = q => released(p)[k] = q
<1>1. pass[p] \in Records BY DEF Typed
<1>2. Key(p) \in DOMAIN Jobs BY <1>1 DEF Records, Key
<1>3. /\ set_nx(Key(p), h) \in [DOMAIN Jobs -> Passes \cup {None, Lost}]
      /\ lock[Key(p)] = None => set_nx(Key(p), h)[Key(p)] = h
      /\ \A q \in Passes, k \in DOMAIN Jobs : lock[k] = q => set_nx(Key(p), h)[k] = q
  BY <1>2 DEF Typed, set_nx, Sound
<1>4. /\ released(p) \in [DOMAIN Jobs -> Passes \cup {None, Lost}]
      /\ \A q \in Passes \ {p}, k \in DOMAIN Jobs : lock[k] = q => released(p)[k] = q
  BY <1>2 DEF Typed, released
<1> QED BY <1>2, <1>3, <1>4

(* The record of a pass after a step of it.                                *)
LEMMA Running ==
  ASSUME Typed, NEW p \in Passes, NEW b \in BOOLEAN
  PROVE  LET v == [pass[p] EXCEPT !.at = "run", !.token = b]
         IN  v \in Records /\ v.at = "run" /\ v.n = Key(p) /\ v.token = b
<1>1. pass[p] \in Records BY DEF Typed
<1> QED BY <1>1 DEF Records, Steps, Key

(* The record of a pass whose job has ended or was cancelled.              *)
LEMMA Releasing ==
  ASSUME Typed, NEW p \in Passes
  PROVE  /\ LET v == [pass[p] EXCEPT !.at = "release"]
             IN  v \in Records /\ v.at = "release" /\ v.token = pass[p].token
         /\ LET v == [pass[p] EXCEPT !.at = "release", !.last = TRUE]
             IN  v \in Records /\ v.at = "release" /\ v.token = pass[p].token
<1>1. pass[p] \in Records BY DEF Typed
<1> QED BY <1>1 DEF Records, Steps

-----------------------------------------------------------------------------
(* What a step of a pass that is under way amounts to.                     *)
LEMMA PassStep ==
  ASSUME Sound, Inv, NEW p \in Passes, pass[p].at # "over", NEW v \in Records, Set(p, v),
         v.token => pass[p].token \/ "redis" \in open[p[1]],
         lock' \in [DOMAIN Jobs -> Passes \cup {None, Lost}],
         outlived' \in {outlived, outlived \ {p}},
         faults' \in 0 .. MaxFaults,
         v.at = "run" /\ v.token => lock'[v.n] = p,
         \A q \in Passes \ {p}, k \in DOMAIN Jobs : lock[k] = q => lock'[k] = q,
         UNCHANGED <<at, tries, open, busy>>
  PROVE  Inv'
<1>1. pass[p] # Over BY RecordsAre
<1>2. at[p[1]] \in During(p[2]) /\ (v.token => "redis" \in open[p[1]])
  BY <1>1 DEF Inv, PassInv
<1>3. LifeInv' /\ PassInv' /\ pass' \in [Passes -> Records]
  BY <1>2, PassMoves DEF Inv
<1>4. HeldInv' BY HeldMoves DEF Inv
<1>5. Typed' BY <1>3 DEF Inv, Typed
<1> QED BY <1>3, <1>4, <1>5 DEF Inv

(* try_acquire_job_lock keeps the invariant: a token is written only to a  *)
(* free key.                                                               *)
LEMMA AcquireStep ==
  ASSUME Sound, Inv, NEW p \in Passes, try_acquire_job_lock(p) PROVE Inv'
<1> USE DEF Inv
<1>1. pass[p].at # "over" BY DEF try_acquire_job_lock
<1>2. p \in Passes \cup {None, Lost} /\ Lost \in Passes \cup {None, Lost} /\ p # None
  BY DEF Sound
<1>3. UNCHANGED <<at, tries, open, busy, outlived>> BY DEF try_acquire_job_lock
<1>4. faults' \in 0 .. MaxFaults BY DEF try_acquire_job_lock, Fault, Typed, Sound
<1>5. CASE /\ "redis" \in open[p[1]] /\ lock' = set_nx(Key(p), p) /\ lock[Key(p)] = None
           /\ Set(p, [pass[p] EXCEPT !.at = "run", !.token = TRUE])
  <2> DEFINE v == [pass[p] EXCEPT !.at = "run", !.token = TRUE]
  <2>1. v \in Records /\ v.at = "run" /\ v.n = Key(p) BY Running
  <2>2. /\ lock' \in [DOMAIN Jobs -> Passes \cup {None, Lost}] /\ lock'[v.n] = p
        /\ \A q \in Passes \ {p}, k \in DOMAIN Jobs : lock[k] = q => lock'[k] = q
    BY <1>2, <1>5, <2>1, LocksAre
  <2>3. Set(p, v) BY <1>5
  <2> HIDE DEF v, Inv
  <2> QED BY <2>1, <2>2, <2>3, <1>1, <1>3, <1>4, <1>5, PassStep
<1>6. CASE lock' = set_nx(Key(p), p) /\ lock[Key(p)] # None /\ Set(p, next_job(p))
  <2>1. lock' = lock BY <1>6 DEF set_nx
  <2>2. next_job(p) \in Records /\ next_job(p).at # "run" /\ ~next_job(p).token BY next_jobType
  <2>3. lock' \in [DOMAIN Jobs -> Passes \cup {None, Lost}] BY <2>1 DEF Typed
  <2> HIDE DEF Inv
  <2> QED BY <2>1, <2>2, <2>3, <1>1, <1>3, <1>4, <1>6, PassStep
<1>7. CASE /\ Set(p, [pass[p] EXCEPT !.at = "run", !.token = FALSE])
           /\ lock' \in {lock, set_nx(Key(p), Lost)}
  <2> DEFINE v == [pass[p] EXCEPT !.at = "run", !.token = FALSE]
  <2>1. v \in Records /\ ~v.token BY Running
  <2>2. /\ lock' \in [DOMAIN Jobs -> Passes \cup {None, Lost}]
        /\ \A q \in Passes \ {p}, k \in DOMAIN Jobs : lock[k] = q => lock'[k] = q
    BY <1>2, <1>7, LocksAre DEF Typed
  <2>3. Set(p, v) BY <1>7
  <2> HIDE DEF v, Inv
  <2> QED BY <2>1, <2>2, <2>3, <1>1, <1>3, <1>4, PassStep
<1> QED BY <1>5, <1>6, <1>7 DEF try_acquire_job_lock

(* The end of a job keeps the invariant.                                   *)
LEMMA RunEndsStep ==
  ASSUME Sound, Inv, NEW p \in Passes, run_ends(p) PROVE Inv'
<1>1. /\ pass[p].at # "over" /\ outlived' = outlived \ {p}
      /\ UNCHANGED <<at, tries, open, busy, lock, faults>>
  BY DEF run_ends
<1>2. /\ lock' \in [DOMAIN Jobs -> Passes \cup {None, Lost}] /\ faults' \in 0 .. MaxFaults
      /\ \A q \in Passes \ {p}, k \in DOMAIN Jobs : lock[k] = q => lock'[k] = q
  BY <1>1 DEF Inv, Typed
<1>3. CASE pass[p].token
  <2> DEFINE v == [pass[p] EXCEPT !.at = "release"]
  <2>1. v \in Records /\ v.at # "run" BY Releasing DEF Inv
  <2>2. Set(p, v) BY <1>3 DEF run_ends
  <2> HIDE DEF v
  <2> QED BY <2>1, <2>2, <1>1, <1>2, <1>3, PassStep
<1>4. CASE ~pass[p].token
  <2>1. Set(p, next_job(p)) BY <1>4 DEF run_ends
  <2>2. next_job(p) \in Records /\ next_job(p).at # "run" /\ ~next_job(p).token
    BY next_jobType DEF Inv
  <2> QED BY <2>1, <2>2, <1>1, <1>2, PassStep
<1> QED BY <1>3, <1>4

(* release_lock keeps the invariant: the token is compared.                *)
LEMMA ReleaseStep ==
  ASSUME Sound, Inv, NEW p \in Passes, release_lock(p) PROVE Inv'
<1>1. /\ pass[p].at # "over" /\ lock' \in {lock, released(p)} /\ Set(p, next_job(p))
      /\ UNCHANGED <<at, tries, open, busy, outlived>>
  BY DEF release_lock
<1>2. next_job(p) \in Records /\ next_job(p).at # "run" /\ ~next_job(p).token
  BY next_jobType DEF Inv
<1>3. p \in Passes \cup {None, Lost} OBVIOUS
<1>4. /\ lock' \in [DOMAIN Jobs -> Passes \cup {None, Lost}]
      /\ \A q \in Passes \ {p}, k \in DOMAIN Jobs : lock[k] = q => lock'[k] = q
  BY <1>1, <1>3, LocksAre DEF Inv, Typed
<1>5. faults' \in 0 .. MaxFaults BY DEF release_lock, Fault, Inv, Typed, Sound
<1> QED BY <1>1, <1>2, <1>4, <1>5, PassStep

(* A cancellation at any await of the pass keeps the invariant.            *)
LEMMA CancelStep ==
  ASSUME Sound, Inv, NEW i \in Instances, cancel_cleanup(i) PROVE Inv'
<1> DEFINE p == Periodic(i)
<1>1. p \in Passes /\ p[1] = i BY PassesAre
<1>2. /\ UNCHANGED <<at, tries, open, busy>> /\ pass[p].at # "over"
      /\ faults' \in 0 .. MaxFaults
  BY DEF cancel_cleanup, Fault, Inv, Typed, Sound
<1>3. Lost \in Passes \cup {None, Lost} OBVIOUS
<1>4. lock' \in {lock, set_nx(Key(p), Lost), released(p)} BY DEF cancel_cleanup
<1>5. /\ lock' \in [DOMAIN Jobs -> Passes \cup {None, Lost}]
      /\ \A q \in Passes \ {p}, k \in DOMAIN Jobs : lock[k] = q => lock'[k] = q
  <2>1. lock \in [DOMAIN Jobs -> Passes \cup {None, Lost}] BY DEF Inv, Typed
  <2> HIDE DEF p
  <2> QED BY <1>1, <1>3, <1>4, <2>1, LocksAre DEF Inv
<1>6. outlived' \in {outlived, outlived \ {p}} BY DEF cancel_cleanup
<1>7. CASE Set(p, Over)
  <2>1. Over \in Records /\ Over.at # "run" /\ ~Over.token BY RecordsAre
  <2> HIDE DEF p
  <2> QED BY <2>1, <1>1, <1>2, <1>5, <1>6, <1>7, PassStep
<1>8. CASE pass[p].token /\ Set(p, [pass[p] EXCEPT !.at = "release", !.last = TRUE])
  <2> DEFINE v == [pass[p] EXCEPT !.at = "release", !.last = TRUE]
  <2> HIDE DEF p
  <2>1. v \in Records /\ v.at # "run" BY <1>1, Releasing DEF Inv
  <2>2. Set(p, v) BY <1>8
  <2> HIDE DEF v
  <2> QED BY <2>1, <2>2, <1>1, <1>2, <1>5, <1>6, <1>8, PassStep
<1> QED BY <1>7, <1>8 DEF cancel_cleanup

(* A lock that expires under the job it protects is remembered.            *)
LEMMA ExpireStep ==
  ASSUME Sound, Inv, NEW k \in DOMAIN Jobs, lock_expires(k) PROVE Inv'
<1>1. UNCHANGED <<at, tries, open, pass, busy>> /\ lock' = [lock EXCEPT ![k] = None]
  BY DEF lock_expires
<1>2. faults' \in 0 .. MaxFaults BY DEF lock_expires, Fault, Inv, Typed, Sound
<1>3. outlived' \subseteq Passes /\ outlived \subseteq outlived' BY DEF lock_expires, Inv, Typed
<1>4. Typed' BY <1>1, <1>2, <1>3 DEF Inv, Typed
<1>5. LifeInv' /\ PassInv' BY <1>1 DEF Inv, LifeInv, PassInv
<1>6. HeldInv'
  <2> SUFFICES ASSUME NEW q \in Passes, q \notin outlived', pass[q].at = "run", pass[q].token
               PROVE  lock'[Key(q)] = q
    BY <1>1 DEF HeldInv, Key
  <2>1. lock[Key(q)] = q BY <1>3 DEF Inv, HeldInv
  <2>2. Key(q) # k BY <2>1 DEF lock_expires
  <2>3. pass[q] \in Records BY DEF Inv, Typed
  <2>4. Key(q) \in DOMAIN Jobs BY <2>3 DEF Records, Key
  <2> QED BY <1>1, <2>1, <2>2, <2>4 DEF Inv, Typed
<1> QED BY <1>4, <1>5, <1>6 DEF Inv

(* The death of a process keeps the invariant: its locks are left behind.  *)
LEMMA CrashStep ==
  ASSUME Sound, Inv, NEW i \in Instances, crash(i) PROVE Inv'
<1>1. faults' \in 0 .. MaxFaults BY DEF crash, Fault, Inv, Typed, Sound
<1>2. /\ LifeInv'
      /\ at' \in [Instances -> Places] /\ tries' \in [Instances -> Nat]
      /\ open' \in [Instances -> SUBSET {"db", "redis", "queue"}]
      /\ busy' \in [Instances -> SUBSET {"flush", "inline", "listener", "cancelled"}]
  <2>1. tries[i] \in Nat /\ tries[i] <= Attempts BY DEF Inv, Typed, LifeInv
  <2>2. Goes(i, "down", tries[i], {}, {}) BY DEF Goes, crash, Goto, Inv, Typed
  <2>3. "down" \in Places /\ "down" \notin Connected /\ "down" # "connecting" BY DEF Places, Connected
  <2>4. {} \in SUBSET {"db", "redis", "queue"} /\ {} \in SUBSET {"flush", "inline", "listener", "cancelled"} OBVIOUS
  <2>5. Good("down", tries[i], {}, {}) BY <2>1, <2>3 DEF Good
  <2>6. Typed /\ LifeInv BY DEF Inv
  <2> QED BY <2>1, <2>2, <2>3, <2>4, <2>5, <2>6, OneInstance
<1>3. /\ pass' \in [Passes -> Records]
      /\ \A p \in Passes : pass'[p] = IF p[1] = i THEN Over ELSE pass[p]
  BY RecordsAre DEF crash, Inv, Typed
<1>4. Typed' BY <1>1, <1>2, <1>3 DEF crash, Inv, Typed
<1>5. PassInv'
  <2> SUFFICES ASSUME NEW q \in Passes
               PROVE  /\ pass'[q] # Over => at'[q[1]] \in During(q[2])
                      /\ pass'[q].token => "redis" \in open'[q[1]]
    BY DEF PassInv
  <2>1. CASE q[1] = i BY <2>1, <1>3, RecordsAre
  <2>2. CASE q[1] # i
    <3>1. pass'[q] = pass[q] BY <2>2, <1>3
    <3>2. at'[q[1]] = at[q[1]] /\ open'[q[1]] = open[q[1]]
      BY <2>2, PassesAre DEF crash, Goto, Inv, Typed
    <3> QED BY <3>1, <3>2 DEF Inv, PassInv
  <2> QED BY <2>1, <2>2
<1>6. HeldInv'
  <2> SUFFICES ASSUME NEW q \in Passes, q \notin outlived', pass'[q].at = "run", pass'[q].token
               PROVE  lock[pass'[q].n] = q
    BY DEF HeldInv, Key, crash
  <2>1. q[1] # i BY <1>3, RecordsAre
  <2>2. pass'[q] = pass[q] /\ q \notin outlived BY <2>1, <1>3 DEF crash
  <2> QED BY <2>2 DEF Inv, HeldInv, Key
<1> QED BY <1>2, <1>4, <1>5, <1>6 DEF Inv

-----------------------------------------------------------------------------
(* A pass begins: nothing of it is locked yet.                             *)
LEMMA BeginStep ==
  ASSUME Sound, Inv, NEW p \in Passes, NEW n \in DOMAIN Jobs, Set(p, Begin(n)),
         at[p[1]] \in During(p[2]),
         UNCHANGED <<at, tries, open, busy, lock, outlived, faults>>
  PROVE  Inv'
<1>1. Begin(n) \in Records /\ Begin(n).at # "run" /\ ~Begin(n).token BY RecordsAre
<1>2. LifeInv' /\ PassInv' /\ pass' \in [Passes -> Records]
  BY <1>1, PassMoves DEF Inv
<1>3. HeldInv' BY <1>1, HeldMoves DEF Inv
<1>4. Typed' BY <1>2 DEF Inv, Typed
<1> QED BY <1>2, <1>3, <1>4 DEF Inv

(* run_periodic and the sweep of a request keep the invariant.             *)
LEMMA PassesBegin ==
  ASSUME Sound, Inv, NEW i \in Instances, run_periodic(i) \/ sweep_unused_images_detached(i)
  PROVE  Inv'
<1>1. 1 \in DOMAIN Jobs /\ Sweep \in DOMAIN Jobs BY DEF Sound
<1>2. CASE run_periodic(i)
  <2> DEFINE p == Periodic(i)
  <2>1. p \in Passes /\ at[p[1]] \in During(p[2]) /\ Set(p, Begin(1))
    BY <1>2, PassesAre DEF run_periodic, During
  <2>2. UNCHANGED <<at, tries, open, busy, lock, outlived, faults>> BY <1>2 DEF run_periodic
  <2> HIDE DEF p
  <2> QED BY <2>1, <2>2, <1>1, BeginStep
<1>3. CASE sweep_unused_images_detached(i)
  <2> DEFINE p == <<i, "sweep">>
  <2>1. p \in Passes /\ at[p[1]] \in During(p[2]) /\ Set(p, Begin(Sweep))
    BY <1>3, PassesAre DEF sweep_unused_images_detached, During
  <2>2. UNCHANGED <<at, tries, open, busy, lock, outlived, faults>>
    BY <1>3 DEF sweep_unused_images_detached
  <2> HIDE DEF p
  <2> QED BY <2>1, <2>2, <1>1, BeginStep
<1> QED BY <1>2, <1>3

(* The first pass begins on what init_redis and init_queue have left.      *)
LEMMA OpeningStep ==
  ASSUME Sound, Inv, NEW i \in Instances, init_redis_and_queue(i) PROVE Inv'
<1> DEFINE p == Periodic(i)
<1>1. PICK redis \in init_redis, queue \in init_queue :
         open' = [open EXCEPT ![i] = open[i] \cup redis \cup queue]
  BY DEF init_redis_and_queue
<1>2. redis \cup queue \subseteq {"redis", "queue"} BY DEF init_redis, init_queue
<1>3. /\ at[i] = "opening" /\ at' = [at EXCEPT ![i] = "first pass"] /\ Set(p, Begin(1))
      /\ UNCHANGED <<tries, busy, lock, outlived>>
  BY DEF init_redis_and_queue, Goto
<1>4. faults' \in 0 .. MaxFaults
  <2>1. UNCHANGED faults \/ Fault BY DEF init_redis_and_queue
  <2> QED BY <2>1 DEF Fault, Inv, Typed, Sound
<1>5. 1 \in DOMAIN Jobs /\ p \in Passes
  <2>1. 1 \in DOMAIN Jobs BY DEF Sound
  <2> QED BY <2>1, PassesAre
<1>6. Begin(1) \in Records /\ Begin(1).at # "run" /\ ~Begin(1).token BY <1>5, RecordsAre
<1>7. HeldInv' BY <1>3, <1>5, <1>6, HeldMoves DEF Inv
<1>8. /\ LifeInv'
      /\ at' \in [Instances -> Places] /\ tries' \in [Instances -> Nat]
      /\ open' \in [Instances -> SUBSET {"db", "redis", "queue"}]
      /\ busy' \in [Instances -> SUBSET {"flush", "inline", "listener", "cancelled"}]
  <2>1. /\ tries[i] \in Nat /\ tries[i] <= Attempts /\ "db" \in open[i] /\ open[i] \subseteq {"db", "redis", "queue"}
        /\ busy[i] = {}
    BY <1>3 DEF Inv, Typed, LifeInv, Connected, Until, Places
  <2>2. Goes(i, "first pass", tries[i], open[i] \cup redis \cup queue, {})
    BY <1>1, <1>3, <2>1 DEF Inv, Typed, Goes
  <2>3. "first pass" \in Places /\ {} \in SUBSET {"flush", "inline", "listener", "cancelled"} BY DEF Places
  <2>4. open[i] \cup redis \cup queue \in SUBSET {"db", "redis", "queue"} BY <2>1, <1>2
  <2>5. Good("first pass", tries[i], open[i] \cup redis \cup queue, {})
    BY <2>1 DEF Good
  <2>6. Typed /\ LifeInv BY DEF Inv
  <2> QED BY <2>1, <2>2, <2>3, <2>4, <2>5, <2>6, OneInstance
<1>9. pass' \in [Passes -> Records] BY <1>3, <1>5, <1>6 DEF Inv, Typed, Set
<1>10. PassInv'
  <2> SUFFICES ASSUME NEW q \in Passes
               PROVE  /\ pass'[q] # Over => at'[q[1]] \in During(q[2])
                      /\ pass'[q].token => "redis" \in open'[q[1]]
    BY DEF PassInv
  <2>0. q[1] \in Instances BY PassesAre
  <2>1. CASE q = p
    <3>1. pass'[q] = Begin(1) BY <2>1, <1>3 DEF Set, Inv, Typed
    <3>2. at'[q[1]] \in During(q[2])
      BY <2>1, <1>3, PassesAre DEF Inv, Typed, During
    <3> QED BY <3>1, <3>2, <1>6
  <2>2. CASE q # p /\ q[1] = i
    <3>1. pass'[q] = pass[q] BY <2>2, <1>3 DEF Set, Inv, Typed
    <3>2. pass[q] = Over BY <2>2, <1>3 DEF Inv, PassInv, During
    <3> QED BY <3>1, <3>2, RecordsAre
  <2>3. CASE q # p /\ q[1] # i
    <3>1. pass'[q] = pass[q] BY <2>3, <1>3 DEF Set, Inv, Typed
    <3>2. at'[q[1]] = at[q[1]] /\ open'[q[1]] = open[q[1]]
      BY <2>3, <2>0, <1>1, <1>3 DEF Inv, Typed
    <3> QED BY <3>1, <3>2 DEF Inv, PassInv
  <2> QED BY <2>1, <2>2, <2>3
<1>11. Typed' BY <1>3, <1>4, <1>8, <1>9 DEF Inv, Typed
<1> QED BY <1>7, <1>8, <1>10, <1>11 DEF Inv

(* A step of an instance that leaves the passes and the locks alone.       *)
LEMMA InstanceStep ==
  ASSUME Sound, Inv, NEW i \in Instances,
         NEW a \in Places, NEW t \in Nat,
         NEW o \in SUBSET {"db", "redis", "queue"}, NEW b \in SUBSET {"flush", "inline", "listener", "cancelled"},
         Goes(i, a, t, o, b), Good(a, t, o, b),
         \A p \in Passes : p[1] = i /\ pass[p] # Over => a \in During(p[2]) /\ open[i] \subseteq o,
         UNCHANGED <<pass, lock, outlived>>, faults' \in 0 .. MaxFaults
  PROVE  Inv'
<1>1. Typed /\ LifeInv /\ PassInv /\ HeldInv BY DEF Inv
<1>2. /\ LifeInv'
      /\ at' \in [Instances -> Places] /\ tries' \in [Instances -> Nat]
      /\ open' \in [Instances -> SUBSET {"db", "redis", "queue"}]
      /\ busy' \in [Instances -> SUBSET {"flush", "inline", "listener", "cancelled"}]
  BY <1>1, OneInstance
<1>3. PassInv'
  <2>1. at' = [at EXCEPT ![i] = a] /\ open' = [open EXCEPT ![i] = o] BY DEF Goes
  <2> QED BY <1>1, <2>1, LifeMoves
<1>4. HeldInv' BY <1>1 DEF HeldInv, Key
<1>5. Typed' BY <1>1, <1>2 DEF Typed
<1> QED BY <1>2, <1>3, <1>4, <1>5 DEF Inv

(* What is known of one instance and its passes.                           *)
LEMMA Here ==
  ASSUME Sound, Inv, NEW i \in Instances
  PROVE  /\ at[i] \in Places /\ tries[i] \in Nat /\ open[i] \in SUBSET {"db", "redis", "queue"}
         /\ busy[i] \in SUBSET {"flush", "inline", "listener", "cancelled"}
         /\ Good(at[i], tries[i], open[i], busy[i])
         /\ \A p \in Passes : p[1] = i /\ pass[p] # Over => at[i] \in During(p[2])
         /\ \A p \in Passes : p[1] = i => p = Periodic(i) \/ p = <<i, "sweep">>
         /\ Periodic(i)[2] = "periodic" /\ <<i, "sweep">>[2] = "sweep"
         /\ faults \in 0 .. MaxFaults
<1>1. /\ at[i] \in Places /\ tries[i] \in Nat /\ open[i] \in SUBSET {"db", "redis", "queue"}
      /\ busy[i] \in SUBSET {"flush", "inline", "listener", "cancelled"} /\ faults \in 0 .. MaxFaults
  BY DEF Inv, Typed
<1>2. Good(at[i], tries[i], open[i], busy[i]) BY DEF Inv, LifeInv, Good
<1>3. \A p \in Passes : p[1] = i /\ pass[p] # Over => at[i] \in During(p[2]) BY DEF Inv, PassInv
<1>4. \A p \in Passes : p[1] = i => p = Periodic(i) \/ p = <<i, "sweep">> BY DEF Passes, Periodic
<1> QED BY <1>1, <1>2, <1>3, <1>4, PassesAre

(* init_database keeps the invariant, whether it connects or gives up.     *)
LEMMA ConnectStep ==
  ASSUME Sound, Inv, NEW i \in Instances, init_database(i) PROVE Inv'
<1>1. /\ UNCHANGED <<pass, lock, outlived, busy>> /\ at[i] = "connecting"
  BY DEF init_database
<1>2. \A p \in Passes : ~(p[1] = i /\ pass[p] # Over) BY <1>1, Here DEF During
<1>3. busy[i] = {} /\ tries[i] \in Nat /\ tries[i] < Attempts
  BY <1>1, Here DEF Good, Until
<1>4. {} \in SUBSET {"flush", "inline", "listener", "cancelled"} /\ {"db"} \in SUBSET {"db", "redis", "queue"} OBVIOUS
<1>5. CASE open' = [open EXCEPT ![i] = {"db"}] /\ Goto(i, "opening") /\ UNCHANGED <<tries, faults>>
  <2>1. Goes(i, "opening", tries[i], {"db"}, {}) BY <1>1, <1>3, <1>5 DEF Goes, Goto, Inv, Typed
  <2>2. Good("opening", tries[i], {"db"}, {}) BY <1>3 DEF Good, Sound
  <2>3. "opening" \in Places BY DEF Places
  <2>4. faults' \in 0 .. MaxFaults BY <1>5, Here
  <2> QED BY <1>1, <1>2, <1>3, <1>4, <2>1, <2>2, <2>3, <2>4, InstanceStep
<1>6. CASE /\ Fault /\ tries' = [tries EXCEPT ![i] = tries[i] + 1] /\ UNCHANGED open
           /\ IF tries[i] + 1 >= Attempts THEN Goto(i, "down") ELSE UNCHANGED at
  <2> DEFINE a == IF tries[i] + 1 >= Attempts THEN "down" ELSE "connecting"
             t == tries[i] + 1
  <2>1. Goes(i, a, t, open[i], {}) BY <1>1, <1>3, <1>6 DEF Goes, Goto, Inv, Typed
  <2>2. Good(a, t, open[i], {}) BY <1>3 DEF Good, Sound, Connected
  <2>3. a \in Places /\ t \in Nat BY <1>3 DEF Places
  <2>4. faults' \in 0 .. MaxFaults BY <1>6, Here DEF Fault, Sound
  <2>5. open[i] \in SUBSET {"db", "redis", "queue"} BY Here
  <2> HIDE DEF a, t
  <2> QED BY <1>1, <1>2, <1>4, <2>1, <2>2, <2>3, <2>4, <2>5, InstanceStep
<1> QED BY <1>5, <1>6 DEF init_database

(* The steps that leave the connections as they are.                       *)
LEMMA TaskSteps ==
  ASSUME Sound, Inv, NEW i \in Instances,
         create_tasks(i) \/ work_starts(i) \/ work_ends(i) \/ stop_event_set(i) \/ stop_cleanup(i)
  PROVE  Inv'
<1>1. /\ UNCHANGED <<tries, open, pass, lock, outlived>> /\ faults' \in 0 .. MaxFaults
  BY Here DEF create_tasks, work_starts, work_ends, stop_event_set, stop_cleanup
<1>2. ASSUME NEW a \in Places, NEW b \in SUBSET {"flush", "inline", "listener", "cancelled"},
             at' = [at EXCEPT ![i] = a], busy' = [busy EXCEPT ![i] = b],
             a \in Connected => at[i] \in Connected, a # "connecting", \A w \in b : a \in Until(w),
             \A p \in Passes : p[1] = i /\ pass[p] # Over => a \in During(p[2])
      PROVE  Inv'
  <2>1. tries' = [tries EXCEPT ![i] = tries[i]] /\ open' = [open EXCEPT ![i] = open[i]]
    BY <1>1 DEF Inv, Typed
  <2>2. Goes(i, a, tries[i], open[i], b) BY <1>2, <2>1 DEF Goes
  <2>3. Good(a, tries[i], open[i], b) BY <1>2, Here DEF Good
  <2>4. tries[i] \in Nat /\ open[i] \in SUBSET {"db", "redis", "queue"} BY Here
  <2> QED BY <1>1, <1>2, <2>2, <2>3, <2>4, InstanceStep
<1>3. at = [at EXCEPT ![i] = at[i]] /\ busy = [busy EXCEPT ![i] = busy[i]] BY DEF Inv, Typed
<1>4. CASE create_tasks(i)
  <2>1. /\ at[i] = "first pass" /\ at' = [at EXCEPT ![i] = "up"]
        /\ busy' = [busy EXCEPT ![i] = {"listener"}]
    BY <1>4 DEF create_tasks, Goto
  <2>2. /\ "up" \in Places /\ at[i] \in Connected
        /\ \A w \in {"listener"} : "up" \in Until(w)
    BY <2>1 DEF Places, Connected, Until
  <2>3. \A p \in Passes : p[1] = i /\ pass[p] # Over => "up" \in During(p[2]) BY DEF During
  <2>4. {"listener"} \in SUBSET {"flush", "inline", "listener", "cancelled"} OBVIOUS
  <2> QED BY <1>2, <2>1, <2>2, <2>3, <2>4
<1>5. CASE work_starts(i)
  <2>1. PICK w \in {"flush", "inline"} : busy' = [busy EXCEPT ![i] = busy[i] \cup {w}]
    BY <1>5 DEF work_starts
  <2> DEFINE b == busy[i] \cup {w}
  <2>2. at[i] = "up" /\ at' = [at EXCEPT ![i] = at[i]] BY <1>3, <1>5 DEF work_starts
  <2>3. b \in SUBSET {"flush", "inline", "listener", "cancelled"} BY Here
  <2>4. at[i] \in Places /\ at[i] \in Connected BY <2>2 DEF Places, Connected
  <2>5. \A x \in b : at[i] \in Until(x)
    <3>1. \A x \in busy[i] : at[i] \in Until(x) BY Here DEF Good
    <3>2. at[i] \in Until(w) BY <2>2 DEF Until
    <3> QED BY <3>1, <3>2
  <2>6. \A p \in Passes : p[1] = i /\ pass[p] # Over => at[i] \in During(p[2]) BY Here
  <2> HIDE DEF b
  <2> QED BY <1>2, <2>1, <2>2, <2>3, <2>4, <2>5, <2>6 DEF b
<1>6. CASE work_ends(i)
  <2>1. PICK w \in busy[i] : busy' = [busy EXCEPT ![i] = busy[i] \ {w}]
    BY <1>6 DEF work_ends
  <2> DEFINE b == busy[i] \ {w}
  <2>2. at' = [at EXCEPT ![i] = at[i]] BY <1>3, <1>6 DEF work_ends
  <2>3. b \in SUBSET {"flush", "inline", "listener", "cancelled"} BY Here
  <2>4. \A x \in busy[i] : at[i] \in Until(x) BY Here DEF Good
  <2>5. at[i] \in Places /\ at[i] # "connecting"
    BY <2>1, <2>4, Here DEF Until
  <2>6. \A p \in Passes : p[1] = i /\ pass[p] # Over => at[i] \in During(p[2]) BY Here
  <2> QED BY <1>2, <2>1, <2>2, <2>3, <2>4, <2>5, <2>6
<1>7. CASE stop_event_set(i)
  <2>1. /\ at[i] = "up" /\ at' = [at EXCEPT ![i] = "cleanup"] /\ pass[<<i, "sweep">>] = Over
        /\ busy' = [busy EXCEPT ![i] = busy[i]]
    BY <1>3, <1>7 DEF stop_event_set, Goto, Shutdown
  <2>2. "cleanup" \in Places /\ at[i] \in Connected /\ "cleanup" # "connecting"
    BY <2>1 DEF Places, Connected
  <2>3. busy[i] \in SUBSET {"flush", "inline", "listener", "cancelled"} BY Here
  <2>4. \A w \in busy[i] : "cleanup" \in Until(w)
    <3>1. \A w \in busy[i] : at[i] \in Until(w) BY Here DEF Good
    <3> QED BY <2>1, <2>3, <3>1 DEF Until
  <2>5. \A p \in Passes : p[1] = i /\ pass[p] # Over => "cleanup" \in During(p[2])
    BY <2>1, Here DEF During
  <2> QED BY <1>2, <2>1, <2>2, <2>3, <2>4, <2>5
<1>8. CASE stop_cleanup(i)
  <2>1. /\ at[i] = "cleanup" /\ at' = [at EXCEPT ![i] = "flush"] /\ pass[Periodic(i)] = Over
        /\ busy' = [busy EXCEPT ![i] = busy[i]]
    BY <1>3, <1>8, AfterIs DEF stop_cleanup, Goto
  <2>2. "flush" \in Places /\ at[i] \in Connected /\ "flush" # "connecting"
    BY <2>1 DEF Places, Connected
  <2>3. busy[i] \in SUBSET {"flush", "inline", "listener", "cancelled"} BY Here
  <2>4. \A w \in busy[i] : "flush" \in Until(w)
    <3>1. \A w \in busy[i] : at[i] \in Until(w) BY Here DEF Good
    <3> QED BY <2>1, <2>3, <3>1 DEF Until
  <2>5. \A p \in Passes : p[1] = i /\ pass[p] # Over => "flush" \in During(p[2])
    BY <2>1, Here DEF During
  <2> QED BY <1>2, <2>1, <2>2, <2>3, <2>4, <2>5
<1> QED BY <1>4, <1>5, <1>6, <1>7, <1>8

(* No pass is under way once the cleanup task has been waited for.         *)
LEMMA StopSteps ==
  ASSUME Sound, Inv, NEW i \in Instances,
         stop_task(i) \/ drain_sns_inline_tasks(i) \/ close_queue(i) \/ close_redis(i)
           \/ close_database(i)
  PROVE  Inv'
<1>1. at[i] \in {"flush", "listener", "inline", "queue", "redis", "db"}
  BY DEF stop_task, drain_sns_inline_tasks, close_queue, close_redis, close_database, Closes
<1>2. \A p \in Passes : ~(p[1] = i /\ pass[p] # Over) BY <1>1, Here DEF During
<1>3. UNCHANGED <<tries, pass, lock, outlived>> /\ at' = [at EXCEPT ![i] = After(i)]
  BY DEF stop_task, drain_sns_inline_tasks, close_queue, close_redis, close_database, Closes, Goto
<1>4. faults' \in 0 .. MaxFaults
  <2>1. Fault \/ UNCHANGED faults
    BY DEF stop_task, drain_sns_inline_tasks, close_queue, close_redis, close_database, Closes
  <2> QED BY <2>1, Here DEF Fault, Sound
<1>5. tries[i] \in Nat /\ tries' = [tries EXCEPT ![i] = tries[i]]
  BY <1>3, Here DEF Inv, Typed
<1>6. tries[i] <= Attempts /\ "db" \in open[i] /\ \A w \in busy[i] : at[i] \in Until(w)
  BY <1>1, Here DEF Good, Connected, Places
<1>7. /\ open[i] \in SUBSET {"db", "redis", "queue"} /\ busy[i] \in SUBSET {"flush", "inline", "listener", "cancelled"}
      /\ open = [open EXCEPT ![i] = open[i]] /\ busy = [busy EXCEPT ![i] = busy[i]]
  BY Here DEF Inv, Typed
<1>8. CASE stop_task(i)
  <2> DEFINE b == busy[i] \ {at[i]}
  <2>1. Goes(i, After(i), tries[i], open[i], b)
    BY <1>3, <1>5, <1>7, <1>8 DEF Goes, stop_task
  <2>2. at[i] \in {"flush", "listener"} BY <1>8 DEF stop_task
  <2>3. After(i) \in {"listener", "inline"} BY <2>2, AfterIs
  <2>4. \A w \in b : After(i) \in Until(w)
    <3>1. CASE at[i] = "flush" BY <3>1, <1>6, <1>7, AfterIs DEF Until
    <3>2. CASE at[i] = "listener" BY <3>2, <1>6, <1>7, AfterIs DEF Until
    <3> QED BY <2>2, <3>1, <3>2
  <2>5. Good(After(i), tries[i], open[i], b) BY <1>6, <2>3, <2>4 DEF Good
  <2>6. After(i) \in Places /\ b \in SUBSET {"flush", "inline", "listener", "cancelled"}
    BY <2>3, <1>7 DEF Places
  <2> HIDE DEF b
  <2> QED BY <1>2, <1>3, <1>4, <1>5, <1>7, <2>1, <2>5, <2>6, InstanceStep
<1>10. CASE drain_sns_inline_tasks(i)
  <2>1. at[i] = "inline" /\ After(i) = "queue" /\ UNCHANGED open
    BY <1>10, AfterIs DEF drain_sns_inline_tasks
  <2>2. busy[i] \subseteq {"inline"} BY <1>6, <1>7, <2>1 DEF Until
  <2>3. PICK b \in SUBSET {"cancelled"} : busy' = [busy EXCEPT ![i] = b]
    <3>1. CASE "inline" \notin busy[i]
      <4>1. busy[i] = {} /\ UNCHANGED busy BY <1>10, <2>2, <3>1 DEF drain_sns_inline_tasks
      <4> QED BY <4>1, <1>7
    <3>2. CASE "inline" \in busy[i]
      <4>1. busy' = [busy EXCEPT ![i] = (busy[i] \ {"inline"}) \cup {"cancelled"}]
        BY <1>10, <3>2 DEF drain_sns_inline_tasks
      <4>2. (busy[i] \ {"inline"}) \cup {"cancelled"} = {"cancelled"} BY <2>2
      <4> QED BY <4>1, <4>2
    <3> QED BY <3>1, <3>2
  <2>4. Goes(i, After(i), tries[i], open[i], b) BY <1>3, <1>5, <1>7, <2>1, <2>3 DEF Goes
  <2>5. \A w \in b : After(i) \in Until(w) BY <2>1 DEF Until
  <2>6. Good(After(i), tries[i], open[i], b) BY <1>6, <2>1, <2>5 DEF Good
  <2>7. After(i) \in Places /\ b \in SUBSET {"flush", "inline", "listener", "cancelled"}
    BY <2>1 DEF Places
  <2> QED BY <1>2, <1>3, <1>4, <1>5, <1>7, <2>4, <2>6, <2>7, InstanceStep
<1>9. CASE close_queue(i) \/ close_redis(i) \/ close_database(i)
  <2> DEFINE o == open[i] \ {at[i]}
  <2>1. /\ at[i] \in {"queue", "redis", "db"} /\ open' = [open EXCEPT ![i] = o] /\ UNCHANGED busy
    BY <1>9 DEF close_queue, close_redis, close_database, Closes
  <2>2. busy[i] \subseteq {"cancelled"} BY <1>6, <1>7, <2>1 DEF Until
  <2>3. Goes(i, After(i), tries[i], o, busy[i])
    BY <1>3, <1>5, <1>7, <2>1 DEF Goes
  <2>4. After(i) \in {"redis", "db", "down"} /\ (After(i) = "down" <=> at[i] = "db") BY <2>1, AfterIs
  <2>5. \A w \in busy[i] : After(i) \in Until(w) BY <2>2, <2>4 DEF Until
  <2>6. Good(After(i), tries[i], o, busy[i]) BY <1>6, <2>1, <2>4, <2>5 DEF Good, Connected
  <2>7. After(i) \in Places /\ o \in SUBSET {"db", "redis", "queue"} BY <2>4, <1>7 DEF Places
  <2> HIDE DEF o
  <2> QED BY <1>2, <1>3, <1>4, <1>5, <1>7, <2>3, <2>6, <2>7, InstanceStep
<1> QED BY <1>8, <1>9, <1>10

-----------------------------------------------------------------------------
(* The invariant holds before the first instance starts.                   *)
LEMMA InitInv == Sound /\ Init => Inv
<1> SUFFICES ASSUME Sound, Init PROVE Inv OBVIOUS
<1>1. Typed BY RecordsAre DEF Init, Typed, Places, Sound
<1>2. LifeInv BY DEF Init, LifeInv, Connected, Sound
<1>3. PassInv BY RecordsAre DEF Init, PassInv
<1>4. HeldInv BY RecordsAre DEF Init, HeldInv
<1> QED BY <1>1, <1>2, <1>3, <1>4 DEF Inv

(* Every step keeps the invariant.                                         *)
LEMMA NextInv == Sound /\ Inv /\ [Next]_vars => Inv'
<1> SUFFICES ASSUME Sound, Inv, [Next]_vars PROVE Inv' OBVIOUS
<1>1. ASSUME NEW i \in Instances, init_database(i) PROVE Inv' BY <1>1, ConnectStep
<1>2. ASSUME NEW i \in Instances, init_redis_and_queue(i) PROVE Inv' BY <1>2, OpeningStep
<1>3. ASSUME NEW i \in Instances,
             \/ create_tasks(i) \/ work_starts(i) \/ work_ends(i) \/ stop_event_set(i)
             \/ stop_cleanup(i)
      PROVE  Inv'
  BY <1>3, TaskSteps
<1>4. ASSUME NEW i \in Instances, run_periodic(i) \/ sweep_unused_images_detached(i) PROVE Inv'
  BY <1>4, PassesBegin
<1>5. ASSUME NEW i \in Instances, cancel_cleanup(i) PROVE Inv' BY <1>5, CancelStep
<1>6. ASSUME NEW i \in Instances,
             stop_task(i) \/ drain_sns_inline_tasks(i) \/ close_queue(i) \/ close_redis(i)
           \/ close_database(i)
      PROVE  Inv'
  BY <1>6, StopSteps
<1>7. ASSUME NEW i \in Instances, crash(i) PROVE Inv' BY <1>7, CrashStep
<1>8. ASSUME NEW p \in Passes, try_acquire_job_lock(p) PROVE Inv' BY <1>8, AcquireStep
<1>9. ASSUME NEW p \in Passes, run_ends(p) PROVE Inv' BY <1>9, RunEndsStep
<1>10. ASSUME NEW p \in Passes, release_lock(p) PROVE Inv' BY <1>10, ReleaseStep
<1>11. ASSUME NEW k \in DOMAIN Jobs, lock_expires(k) PROVE Inv'
  BY <1>11, ExpireStep
<1>12. CASE UNCHANGED vars
  BY <1>12 DEF vars, Inv, Typed, LifeInv, PassInv, HeldInv, Key
<1> QED BY <1>1, <1>2, <1>3, <1>4, <1>5, <1>6, <1>7, <1>8, <1>9, <1>10, <1>11, <1>12 DEF Next

(* The property follows from the invariant: the passes that run a job under*)
(* its lock are all the one whose token the lock has.                      *)
LEMMA Protected == Sound /\ Inv => JobsRunProtected
<1> SUFFICES ASSUME Sound, Inv PROVE JobsRunProtected OBVIOUS
<1>1. ASSUME NEW k \in DOMAIN Jobs
      PROVE  Cardinality({p \in Passes \ outlived : pass[p].at = "run" /\ pass[p].token /\ Key(p) = k}) <= 1
  <2> DEFINE S == {p \in Passes \ outlived : pass[p].at = "run" /\ pass[p].token /\ Key(p) = k}
  <2>1. S \subseteq {lock[k]} BY DEF Inv, HeldInv
  <2>2. IsFiniteSet({lock[k]}) /\ Cardinality({lock[k]}) = 1 BY FS_Singleton
  <2> HIDE DEF S
  <2>3. Cardinality(S) \in Nat /\ Cardinality(S) <= Cardinality({lock[k]})
    BY <2>1, <2>2, FS_Subset, FS_CardinalityType
  <2>4. Cardinality(S) <= 1 BY <2>2, <2>3
  <2> QED BY <2>4 DEF S
<1>2. ASSUME NEW p \in Passes, pass[p] # Over
      PROVE  "db" \in open[p[1]] /\ (pass[p].token => "redis" \in open[p[1]])
  <2>1. p[1] \in Instances BY PassesAre
  <2>2. at[p[1]] \in During(p[2]) BY <1>2 DEF Inv, PassInv
  <2>3. at[p[1]] \in Connected BY <2>2 DEF During, Connected, Places
  <2> QED BY <2>1, <2>3 DEF Inv, LifeInv, PassInv
<1>3. ASSUME NEW i \in Instances, at[i] \in {"queue", "redis", "db", "down"}
      PROVE  busy[i] \subseteq {"cancelled"}
  <2>1. \A w \in busy[i] : at[i] \in Until(w) BY Here DEF Good
  <2> QED BY <2>1, <1>3, Here DEF Until
<1> QED BY <1>1, <1>2, <1>3 DEF JobsRunProtected

(* For any instances, jobs, attempts and faults, JobsRunProtected holds:   *)
(* try_acquire_job_lock and the comparison of tokens in release_lock keep  *)
(* every job to one holder of its lock, and lifespan closes a connection   *)
(* only when nothing that uses it is left.                                 *)
THEOREM JobsAreProtected == ASSUME Sound PROVE Spec => []JobsRunProtected
<1>1. Init => Inv BY InitInv
<1>2. Inv /\ [Next]_vars => Inv' BY NextInv
<1>3. Inv => JobsRunProtected BY Protected
<1> QED BY <1>1, <1>2, <1>3, PTL DEF Spec

(* An instance that serves requests has a database, init_database gives up *)
(* after its attempts, and a key has a token that somebody wrote.          *)
THEOREM ServingHasDatabase == ASSUME Sound PROVE Spec => []TypeOK
<1>1. Init => Inv BY InitInv
<1>2. Inv /\ [Next]_vars => Inv' BY NextInv
<1>3. Inv => TypeOK
  <2> SUFFICES ASSUME Inv PROVE TypeOK OBVIOUS
  <2>1. ASSUME NEW i \in Instances
        PROVE  /\ open[i] \subseteq {"db", "redis", "queue"} /\ tries[i] \in 0 .. Attempts
               /\ at[i] = "up" => "db" \in open[i]
    <3>1. tries[i] \in Nat /\ open[i] \in SUBSET {"db", "redis", "queue"} BY Here
    <3>2. tries[i] <= Attempts /\ (at[i] = "up" => "db" \in open[i])
      BY Here DEF Good, Connected, Places
    <3> QED BY <3>1, <3>2 DEF Sound
  <2> QED BY <2>1 DEF TypeOK, Inv, Typed
<1> QED BY <1>1, <1>2, <1>3, PTL DEF Spec
=============================================================================
