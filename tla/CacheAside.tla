----------------------------- MODULE CacheAside -----------------------------
(***************************************************************************)
(* get_or_compute_json: a JSON value cached in Redis and recomputed under a*)
(* lock.  Readers run in any number of processes; what the loader computes *)
(* changes under them; every call of Redis may fail, with its effect or    *)
(* without; a reader may die at any await.                                 *)
(***************************************************************************)
EXTENDS Naturals

CONSTANTS
    Readers,
    Ttl,          \* ttl_seconds of the entry
    LockTtl,      \* _LOCK_TTL_SECONDS
    Waits,        \* _WAIT_MAX_SECONDS / _WAIT_INTERVAL_SECONDS
    LoadMax,      \* bound: ticks from the loader's query to the end of the call
    MaxVersion,   \* bound: changes of the data
    MaxTime,      \* bound: ticks
    None

VARIABLES
    now,
    current,      \* the version of the data a query would see
    superseded,   \* superseded[v]: when version v stopped being current
    entry,        \* the cached text: a version, or "unreadable", until .ends
    lock,         \* the lock key: its holder's token, until .ends
    reader        \* reader[r]: the statement r is at, its value and since when, its waits

vars == <<now, current, superseded, entry, lock, reader>>

Fresh == [at |-> "get", val |-> 0, since |-> 0, waited |-> 0]
NoEntry == [val |-> None, ends |-> 0]
NoLock == [token |-> None, ends |-> 0]
cached == entry.val
decode(val) == IF val = 0 THEN None ELSE val      \* 0: a schema mismatch, a miss
Goto(r, at) == reader' = [reader EXCEPT ![r].at = at]
Hold(r, at, v) == reader' = [reader EXCEPT ![r] = [at |-> at, val |-> v, since |-> now, waited |-> 0]]
Answer(r, v) == Hold(r, "done", v)

(* A hit is returned, a miss goes for the lock, an error loads without it. *)
get(r) ==
    /\ reader[r].at = "get"
    /\ \/ cached # None /\ decode(cached) # None /\ Answer(r, cached)
       \/ (cached = None \/ decode(cached) = None) /\ Goto(r, "lock")
       \/ Goto(r, "load")
    /\ UNCHANGED <<now, current, superseded, entry, lock>>

(* SET NX EX: taken, held by another, or an error, after which the key may *)
(* be set all the same.                                                    *)
lock_free == lock = NoLock
acquired(r) == [token |-> r, ends |-> now + LockTtl]

try_acquire_lock(r) ==
    /\ reader[r].at = "lock"
    /\ \/ lock_free /\ lock' = acquired(r) /\ Goto(r, "locked load")
       \/ ~lock_free /\ Goto(r, "wait") /\ UNCHANGED lock
       \/ Goto(r, "load") /\ lock' \in {lock} \cup (IF lock_free THEN {acquired(r)} ELSE {})
    /\ UNCHANGED <<now, current, superseded, entry>>

\* Mutated: one look too many.
waited_longer(n) == n >= Waits

(* A waiter looks again every interval, and loads by itself when the time  *)
(* is up or Redis fails.                                                   *)
waited_out(n) == n + 1 >= Waits

\* Mutated: the lock holder is trusted to fill the cache.
wait_for_entry(r) ==
    /\ reader[r].at = "wait"
    /\ cached # None /\ decode(cached) # None /\ Answer(r, cached)
    /\ UNCHANGED <<now, current, superseded, entry, lock>>

wait(r) ==
    LET hit == cached # None /\ decode(cached) # None IN
    /\ reader[r].at = "wait"
    /\ \/ hit /\ Answer(r, cached)
       \/ ~hit /\ reader' = [reader EXCEPT ![r].waited = @ + 1,
                                           ![r].at = IF waited_out(reader[r].waited) THEN "load" ELSE "wait"]
       \/ Goto(r, "load")
    /\ UNCHANGED <<now, current, superseded, entry, lock>>

(* The loader without the lock: the value is returned and not cached, or   *)
(* its error is the request's.                                             *)
load(r) ==
    /\ reader[r].at = "load"
    /\ Answer(r, current) \/ Goto(r, "failed")
    /\ UNCHANGED <<now, current, superseded, entry, lock>>

(* The loader under the lock, which may raise; the lock is released either *)
(* way.                                                                    *)
locked_load(r) ==
    /\ reader[r].at = "locked load"
    /\ Hold(r, "setex", current) \/ Hold(r, "release", None)
    /\ UNCHANGED <<now, current, superseded, entry, lock>>

\* Mutated: SET without a TTL.
write_for_good(v) == [val |-> v, ends |-> MaxTime + 1]

write(v) == [val |-> v, ends |-> now + Ttl]
setex(r) ==
    /\ reader[r].at = "setex"
    /\ entry' \in {entry, write(reader[r].val)}
    /\ Goto(r, "release")
    /\ UNCHANGED <<now, current, superseded, lock>>

release_lock(r) ==
    /\ reader[r].at = "release"
    /\ lock' \in {lock} \cup (IF lock.token = r THEN {NoLock} ELSE {})
    /\ IF reader[r].val = None THEN Goto(r, "failed") ELSE Answer(r, reader[r].val)
    /\ UNCHANGED <<now, current, superseded, entry>>

(* The next request of the same client, the death of its process, a write  *)
(* to the data, and the clock, which ends the keys whose time is up.       *)
again(r) == /\ reader[r].at \in {"done", "failed", "dead"}
            /\ reader' = [reader EXCEPT ![r] = Fresh]
            /\ UNCHANGED <<now, current, superseded, entry, lock>>
die(r) == /\ reader[r].at \notin {"done", "failed", "dead"}
          /\ reader' = [reader EXCEPT ![r] = [Fresh EXCEPT !.at = "dead"]]
          /\ UNCHANGED <<now, current, superseded, entry, lock>>
change == /\ current < MaxVersion
          /\ current' = current + 1
          /\ superseded' = [superseded EXCEPT ![current] = now]
          /\ UNCHANGED <<now, entry, lock, reader>>
Tick == /\ now < MaxTime
        /\ \A r \in Readers : reader[r].at \in {"setex", "release"} => now < reader[r].since + LoadMax
        /\ now' = now + 1
        /\ entry' = IF entry.ends <= now' THEN NoEntry ELSE entry
        /\ lock' = IF lock.ends <= now' THEN NoLock ELSE lock
        /\ UNCHANGED <<current, superseded, reader>>

(* An earlier release may have left an entry of another schema behind.     *)
Init == /\ now = 0 /\ current = 1 /\ superseded = [v \in 1 .. MaxVersion |-> MaxTime + 1]
        /\ entry \in {NoEntry, [val |-> 0, ends |-> Ttl]}
        /\ lock = NoLock
        /\ reader = [r \in Readers |-> Fresh]

Steps(r) == get(r) \/ try_acquire_lock(r) \/ wait(r) \/ load(r) \/ locked_load(r) \/ setex(r)
            \/ release_lock(r)
Next == (\E r \in Readers : Steps(r) \/ again(r) \/ die(r)) \/ change \/ Tick

Spec == Init /\ [][Next]_vars
FairSpec == Spec /\ \A r \in Readers : WF_vars(Steps(r))
-----------------------------------------------------------------------------
(* Types: what is cached is a version there has been, or unreadable text.  *)
TypeOK == /\ now \in 0 .. MaxTime /\ current \in 1 .. MaxVersion
          /\ entry.val \in {None} \cup 0 .. current
          /\ lock.token \in Readers \cup {None}
          /\ \A r \in Readers : reader[r].waited <= Waits

(* An answer is never older than one life of the entry and one load: the   *)
(* version returned was current that recently, also when a slow holder of  *)
(* an expired lock overwrites what a faster reader has cached since.       *)
FreshEnough ==
    \A r \in Readers :
        reader[r].at = "done" => superseded[reader[r].val] + Ttl + LoadMax >= reader[r].since

Asks(r) == reader[r].at = "get"
Ends(r) == reader[r].at \in {"done", "failed", "dead"}

(* Every reader that lives gets an answer or the loader's error, even when *)
(* the holder of the lock died and left it to expire.                      *)
ReadersAnswer == \A r \in Readers : Asks(r) ~> Ends(r)
=============================================================================
