----------------------------- MODULE RateLimit -----------------------------
(***************************************************************************)
(* Fixed-window rate limits: the counters in Redis that all instances      *)
(* share, the bounded in-memory windows an instance falls back to when     *)
(* Redis fails, the path policies of the HTTP middleware, and the          *)
(* suppression gate of a chat socket.  Time is in ticks; every call of     *)
(* Redis may succeed, fail, or be applied with its reply lost.             *)
(***************************************************************************)
EXTENDS Naturals, FiniteSets, Functions, FiniteSetsExt

CONSTANTS
    Instances,    \* application processes
    Clients,      \* remote addresses, and the users behind them
    Traffic,      \* the mixes of request kinds a behaviour may be made of
    Window,       \* window_sec
    Limit,        \* max_count
    MaxKeys,      \* _MEMORY_MAX_KEYS
    CloseAt,      \* _REJECT_CLOSE_THRESHOLD
    MaxTime,      \* bound: ticks
    MaxChecks     \* bound: requests and messages received

VARIABLES
    now,
    shared,       \* Redis: key -> [count, ends]
    memory,       \* memory[i]: _memory_store of instance i, same shape
    gate,         \* gate[c]: the chat socket of client c and its LocalRejectionGate
    admitted,     \* history: the requests let through, nth of their key, store and tick
    forgotten,    \* history: <<key, store>> evicted before the window ended
    checks,
    traffic       \* the request kinds of this behaviour

vars == <<now, shared, memory, gate, admitted, forgotten, checks, traffic>>

Stores == {"redis"} \cup Instances
Outcomes == {"reply", "error", "reply lost"}
Closed == [open |-> FALSE, at |-> "none", blocked_until |-> 0, rejections |-> 0]

(* The policy of a path: the first that matches, with the global one last; *)
(* only the global one lets requests pass when Redis fails.                *)
resolve_policy(path) == IF path \in {"login", "signup_upload"} THEN path ELSE "global"
fail_open(policy) == policy = "global"

(* INCR, with EXPIRE when it created the key; the memory window is the same*)
(* arithmetic on an instance's own table.                                  *)
running(w, k) == k \in DOMAIN w /\ now < w[k].ends
\* Mutated: the new count is not stored.
count_once(w, k) == IF running(w, k) THEN w[k] ELSE [count |-> 1, ends |-> now + Window]

count(w, k) == IF running(w, k)
               THEN [w[k] EXCEPT !.count = @ + 1]
               ELSE [count |-> 1, ends |-> now + Window]
Put(w, k) == [j \in DOMAIN w \cup {k} |-> IF j = k THEN count(w, k) ELSE w[j]]

\* Mutated: a full table is left to grow.
grow(m) == {m}

(* A full table first drops the windows that are over, then the ones that  *)
(* end soonest until there is room.                                        *)
memory_evict_if_needed(m) ==
    IF Cardinality(DOMAIN m) < MaxKeys THEN {m}
    ELSE LET fresh == {k \in DOMAIN m : m[k].ends >= now}
             room == Min({MaxKeys - 1, Cardinality(fresh)})
         IN  {Restrict(m, K) : K \in {S \in kSubset(room, fresh) :
                 \A k \in S, j \in fresh \ S : m[k].ends >= m[j].ends}}

LetThrough(k, store) == {e \in admitted : e.key = k /\ e.store = store}
Admit(k, store, allowed) ==
    LET nth == Cardinality({e \in LetThrough(k, store) : e.tick = now}) + 1 IN
    admitted' = IF allowed
                THEN admitted \cup {[key |-> k, store |-> store, tick |-> now, nth |-> nth]}
                ELSE admitted

(* check_fixed_window at instance i: allowed, with the Retry-After value.  *)
redis_applied(k, outcome) == shared' = IF outcome = "error" THEN shared ELSE Put(shared, k)

check_redis_fixed_window(i, k, allowed, retry_after) ==
    /\ redis_applied(k, "reply")
    /\ allowed = (count(shared, k).count <= Limit)
    /\ retry_after = count(shared, k).ends - now
    /\ Admit(k, "redis", allowed)
    /\ UNCHANGED <<memory, forgotten>>

check_memory_fixed_window(i, k, outcome, allowed, retry_after) ==
    \E m \in memory_evict_if_needed(memory[i]) :
        /\ redis_applied(k, outcome)
        /\ memory' = [memory EXCEPT ![i] = Put(m, k)]
        /\ forgotten' = forgotten \cup {<<j, i>> : j \in {d \in DOMAIN memory[i] \ DOMAIN m :
                                                            running(memory[i], d)}}
        /\ allowed = (count(m, k).count <= Limit)
        /\ retry_after = count(m, k).ends - now
        /\ Admit(k, i, allowed)

check_fixed_window(i, k, open, allowed, retry_after) ==
    \E outcome \in Outcomes :
        \/ /\ outcome = "reply"
           /\ check_redis_fixed_window(i, k, allowed, retry_after)
        \/ /\ outcome # "reply" /\ open
           /\ redis_applied(k, outcome) /\ allowed
           /\ UNCHANGED <<memory, admitted, forgotten>>
        \/ /\ outcome # "reply" /\ ~open
           /\ check_memory_fixed_window(i, k, outcome, allowed, retry_after)

Verdicts == BOOLEAN \X (0 .. Window)

(* RateLimitMiddleware: one check per request, by remote address.          *)
http_request(i) ==
    \E c \in Clients, path \in traffic \ {"chat"}, v \in Verdicts :
        LET policy == resolve_policy(path) IN
        /\ checks < MaxChecks /\ checks' = checks + 1
        /\ check_fixed_window(i, <<policy, c>>, fail_open(policy), v[1], v[2])
        /\ UNCHANGED <<now, gate, traffic>>

(* presign_image_upload: the user's own limit, once the middleware has let *)
(* the request through.                                                    *)
presign_image_upload(i) ==
    \E c \in Clients, v \in Verdicts :
        /\ "presign" \in traffic
        /\ checks < MaxChecks /\ checks' = checks + 1
        /\ check_fixed_window(i, <<"media_presign", c>>, FALSE, v[1], v[2])
        /\ UNCHANGED <<now, gate, traffic>>

ws_connect(i) ==
    \E c \in Clients :
        /\ "chat" \in traffic /\ ~gate[c].open
        /\ gate' = [gate EXCEPT ![c] = [open |-> TRUE, at |-> i, blocked_until |-> 0, rejections |-> 0]]
        /\ UNCHANGED <<now, shared, memory, admitted, forgotten, checks, traffic>>

(* LocalRejectionGate.check for a message of an open socket: inside the    *)
(* suppression window it is rejected without a look at the counters;       *)
(* CloseAt rejections in a row close the socket.                           *)
rejected(g) == IF g.rejections + 1 >= CloseAt THEN Closed ELSE [g EXCEPT !.rejections = @ + 1]

suppress(c) ==
    /\ gate[c].open /\ now < gate[c].blocked_until
    /\ checks < MaxChecks /\ checks' = checks + 1
    /\ gate' = [gate EXCEPT ![c] = rejected(@)]
    /\ UNCHANGED <<now, shared, memory, admitted, forgotten, traffic>>

block_until(g, retry_after) ==
    [g EXCEPT !.blocked_until = Max({@, now + Max({retry_after, 1})})]

check(c) ==
    /\ gate[c].open /\ now >= gate[c].blocked_until
    /\ checks < MaxChecks /\ checks' = checks + 1
    /\ \E v \in Verdicts :
        /\ check_fixed_window(gate[c].at, <<"chat", c>>, FALSE, v[1], v[2])
        /\ gate' = [gate EXCEPT ![c] = IF v[1] THEN [@ EXCEPT !.rejections = 0]
                                       ELSE rejected(block_until(@, v[2]))]
    /\ UNCHANGED <<now, traffic>>

Tick == /\ now < MaxTime /\ now' = now + 1
        /\ UNCHANGED <<shared, memory, gate, admitted, forgotten, checks, traffic>>

Init == /\ now = 0 /\ shared = <<>> /\ memory = [i \in Instances |-> <<>>]
        /\ gate = [c \in Clients |-> Closed]
        /\ admitted = {} /\ forgotten = {} /\ checks = 0 /\ traffic \in Traffic

Next == \/ \E i \in Instances : http_request(i) \/ presign_image_upload(i) \/ ws_connect(i)
        \/ \E c \in Clients : suppress(c) \/ check(c)
        \/ Tick
Spec == Init /\ [][Next]_vars
-----------------------------------------------------------------------------
(* Type invariant.  The in-memory table never outgrows _MEMORY_MAX_KEYS.   *)
TypeOK == /\ now \in 0 .. MaxTime /\ checks \in 0 .. MaxChecks
          /\ \A i \in Instances : Cardinality(DOMAIN memory[i]) <= MaxKeys
          /\ \A c \in Clients : gate[c].rejections < CloseAt

Within(k, store, t) == {e \in LetThrough(k, store) : e.tick \in t .. t + Window - 1}

(* However requests are spread over windows, a store lets at most twice the*)
(* limit of one key through in any interval of one window's length, unless *)
(* the key was evicted from a full table.  That is what a fixed window     *)
(* promises, with replies lost and Redis coming and going.                 *)
BurstBounded ==
    \A d \in admitted : \/ <<d.key, d.store>> \in forgotten
                        \/ Cardinality(Within(d.key, d.store, d.tick)) <= 2 * Limit
=============================================================================
