------------------------------ MODULE Realtime ------------------------------
(***************************************************************************)
(* Real-time fan-out: chat frames to WebSockets and notifications to SSE   *)
(* streams.  The instance that commits a message hands it to its own       *)
(* sockets and publishes an envelope; the listener of every other instance *)
(* hands the envelope to the sockets there.  Clients come, stall and leave;*)
(* Redis calls fail; a subscription errs, or dies in silence.              *)
(***************************************************************************)
EXTENDS Naturals, FiniteSets, Sequences, SequencesExt

CONSTANTS
    Instances,
    Sockets,
    Place,          \* Place[s]: [kind: "ws" or "sse", user, inst]
    Messages,
    Post,           \* Post[m]: [kind, inst, targets]: the fan-out of m
    Scenarios,      \* sets of sockets and messages, one of which takes part
    Cap,            \* REALTIME_MAX_CONNECTIONS_PER_USER
    QueueMax,       \* _QUEUE_MAX_SIZE
    WatchdogIdle,   \* _WATCHDOG_IDLE_SEC
    WatchdogPong,   \* _WATCHDOG_PONG_SEC
    MaxFaults       \* bound: stalls, errors and silent deaths

VARIABLES
    handler,        \* handler[s]: where the endpoint of s is
    client,         \* client[s]: "connected", "stalled" or "gone"
    registry,       \* _by_user of the managers of all instances, as one set of sockets
    queue,          \* queue[s]: the asyncio.Queue of an SSE stream
    got,            \* got[s]: what was written to s
    fan,            \* fan[m]: the fan-out of m at its origin
    inbox,          \* inbox[i]: envelopes the subscription of i has to read
    listener,       \* listener[i]: run_user_fanout_listener
    faults,
    expected,       \* history: expected[m]: sockets of its targets at the commit
    excused         \* history: <<m, where>>: m may be missed there; <<s, "close">>

vars == <<handler, client, registry, queue, got, fan, inbox, listener, faults, expected, excused>>

At(i, kind, u) == {s \in registry : Place[s] = [kind |-> kind, user |-> u, inst |-> i]}
Bucket(s) == {q \in registry : Place[q] = Place[s]}
Fault == faults < MaxFaults /\ faults' = faults + 1

-----------------------------------------------------------------------------
(* The endpoints.                                                          *)

has_room(s) == Cardinality(Bucket(s)) < Cap

(* ConnectionManager.connect after accept(); a refused socket is closed.   *)
connect(s) ==
    /\ Place[s].kind = "ws" /\ handler[s] = "new"
    /\ \/ /\ has_room(s)
          /\ registry' = registry \cup {s}
          /\ handler' = [handler EXCEPT ![s] = "receiving"]
          /\ UNCHANGED client
       \/ /\ ~has_room(s)
          /\ handler' = [handler EXCEPT ![s] = "done"]
          /\ client' = [client EXCEPT ![s] = "gone"]
          /\ UNCHANGED registry
    /\ UNCHANGED <<queue, got, fan, inbox, listener, faults, expected, excused>>

(* ensure_sse_capacity: 429 before the stream starts, nothing registered.  *)
ensure_sse_capacity(s) ==
    /\ Place[s].kind = "sse" /\ handler[s] = "new"
    /\ handler' = [handler EXCEPT ![s] = IF has_room(s) THEN "checked" ELSE "done"]
    /\ UNCHANGED <<client, registry, queue, got, fan, inbox, listener, faults, expected, excused>>

\* Mutated: the earlier look at the capacity is trusted.
register_unchecked(s) ==
    /\ handler[s] = "checked"
    /\ \/ /\ client[s] # "gone"
          /\ registry' = registry \cup {s}
          /\ handler' = [handler EXCEPT ![s] = "receiving"]
       \/ /\ client[s] = "gone"
          /\ handler' = [handler EXCEPT ![s] = "done"]
          /\ UNCHANGED registry
    /\ UNCHANGED <<client, queue, got, fan, inbox, listener, faults, expected, excused>>

(* sse_subscribe: register looks again, and ends the stream in silence.  A *)
(* request that is aborted first never starts the generator.               *)
register(s) ==
    /\ handler[s] = "checked"
    /\ \/ /\ client[s] # "gone" /\ has_room(s)
          /\ registry' = registry \cup {s}
          /\ handler' = [handler EXCEPT ![s] = "receiving"]
       \/ /\ client[s] = "gone" \/ ~has_room(s)
          /\ handler' = [handler EXCEPT ![s] = "done"]
          /\ UNCHANGED registry
    /\ UNCHANGED <<client, queue, got, fan, inbox, listener, faults, expected, excused>>

(* sse_subscribe, one event: queue.get and the yield.                      *)
sse_subscribe(s) ==
    /\ handler[s] = "receiving" /\ queue[s] # <<>> /\ client[s] = "connected"
    /\ got' = [got EXCEPT ![s] = Append(@, Head(queue[s]))]
    /\ queue' = [queue EXCEPT ![s] = Tail(@)]
    /\ UNCHANGED <<handler, client, registry, fan, inbox, listener, faults, expected, excused>>

(* The finally of both endpoints: disconnect, unregister.                  *)
unregister(s) ==
    /\ handler[s] = "receiving" /\ client[s] = "gone"
    /\ handler' = [handler EXCEPT ![s] = "done"]
    /\ registry' = registry \ {s}
    /\ UNCHANGED <<client, queue, got, fan, inbox, listener, faults, expected, excused>>

leave(s) ==
    /\ handler[s] # "new" /\ client[s] # "gone"
    /\ client' = [client EXCEPT ![s] = "gone"]
    /\ UNCHANGED <<handler, registry, queue, got, fan, inbox, listener, faults, expected, excused>>

(* A client whose receive buffer is full: writes to it hang until they     *)
(* time out, or go through once it reads again.                            *)
stall(s) ==
    /\ handler[s] = "receiving" /\ client[s] \in {"connected", "stalled"}
    /\ \/ client[s] = "connected" /\ Fault /\ client' = [client EXCEPT ![s] = "stalled"]
       \/ client[s] = "stalled" /\ client' = [client EXCEPT ![s] = "connected"] /\ UNCHANGED faults
    /\ UNCHANGED <<handler, registry, queue, got, fan, inbox, listener, expected, excused>>

-----------------------------------------------------------------------------
(* Handing a message to the sockets of one instance.                       *)

(* SseFanoutManager.deliver: no await between the queues; a full queue     *)
(* drops the event.                                                        *)
deliver(m, i, u) ==
    LET to == At(i, "sse", u)
        full == {s \in to : Len(queue[s]) >= QueueMax}
    IN /\ queue' = [s \in Sockets |-> IF s \in to \ full THEN Append(queue[s], m) ELSE queue[s]]
       /\ excused' = excused \cup {<<m, s>> : s \in full}

(* _send_one, the write: a client that is there gets it, a stalled or a    *)
(* closed one is dropped.                                                  *)
written(s) == client[s] = "connected" /\ handler[s] = "receiving"
sent(m, s) == got' = IF written(s) THEN [got EXCEPT ![s] = Append(@, m)] ELSE got

(* _drop: the registration goes first, then the socket is closed; a close  *)
(* that hangs is cut off.                                                  *)
_drop_close(s) ==
    \/ client' = [client EXCEPT ![s] = "gone"] /\ UNCHANGED <<excused, faults>>
    \/ /\ client[s] = "stalled" /\ Fault
       /\ excused' = excused \cup {<<s, "close">>}
       /\ UNCHANGED client

(* A fan-out: users whose sockets are to be looked up, sockets to write to,*)
(* sockets to close, and whether the envelope is to be published.          *)
NoFan == [users |-> <<>>, sends |-> {}, drops |-> {}, publish |-> FALSE]
Idle(f) == f.sends = {} /\ f.drops = {}

send_personal_message(f, i, u) ==
    [f EXCEPT !.users = SelectSeq(@, LAMBDA v : v # u), !.sends = @ \cup At(i, "ws", u)]
_send_one(f, s) == [f EXCEPT !.sends = @ \ {s}, !.drops = IF written(s) THEN @ ELSE @ \cup {s}]
dropped(f, s) == IF written(s) THEN registry ELSE registry \ {s}

-----------------------------------------------------------------------------
(* The origin.                                                             *)

(* The commit of the message or of the notification that is fanned out.    *)
commit(m) ==
    /\ fan[m] = NoFan /\ expected[m] = {"none"}
    /\ fan' = [fan EXCEPT ![m] = [NoFan EXCEPT !.users = Post[m].targets, !.publish = TRUE]]
    /\ expected' = [expected EXCEPT ![m] =
                       {s \in registry : Place[s].kind = Post[m].kind /\ Place[s].user \in Range(Post[m].targets)}]
    /\ UNCHANGED <<handler, client, registry, queue, got, inbox, listener, faults, excused>>

(* _fanout_dm: the local sockets of each target and the publish, all at    *)
(* the same time.                                                          *)
_fanout_dm(m) ==
    /\ Post[m].kind = "ws"
    /\ \E u \in Range(fan[m].users) :
           fan' = [fan EXCEPT ![m] = send_personal_message(@, Post[m].inst, u)]
    /\ UNCHANGED <<handler, client, registry, queue, got, inbox, listener, faults, expected, excused>>

(* publish_after_commit: the local streams first, then the publish.        *)
publish_after_commit(m) ==
    /\ Post[m].kind = "sse" /\ fan[m].users # <<>>
    /\ deliver(m, Post[m].inst, Head(fan[m].users))
    /\ fan' = [fan EXCEPT ![m].users = Tail(@)]
    /\ UNCHANGED <<handler, client, registry, got, inbox, listener, faults, expected>>

(* publish_user_envelope: Redis hands the envelope to the subscriptions    *)
(* there are; an error may come after that.                                *)
subscribed(i) == listener[i].at = "up" /\ ~listener[i].dead

publish_user_envelope(m) ==
    LET unheard == {<<m, i>> : i \in {j \in Instances : ~subscribed(j)}} IN
    /\ fan[m].publish /\ (Post[m].kind = "sse" => fan[m].users = <<>>)
    /\ fan' = [fan EXCEPT ![m].publish = FALSE]
    /\ \/ /\ inbox' = [i \in Instances |-> IF subscribed(i) THEN Append(inbox[i], m) ELSE inbox[i]]
          /\ excused' = excused \cup unheard
          /\ UNCHANGED faults
       \/ /\ Fault /\ excused' = excused \cup {<<m, i>> : i \in Instances}
          /\ UNCHANGED inbox
    /\ UNCHANGED <<handler, client, registry, queue, got, listener, expected>>

origin_send(m, s) ==
    /\ s \in fan[m].sends
    /\ sent(m, s)
    /\ fan' = [fan EXCEPT ![m] = _send_one(@, s)]
    /\ registry' = dropped(fan[m], s)
    /\ UNCHANGED <<handler, client, queue, inbox, listener, faults, expected, excused>>

origin_drop(m, s) ==
    /\ s \in fan[m].drops
    /\ fan' = [fan EXCEPT ![m].drops = @ \ {s}]
    /\ _drop_close(s)
    /\ UNCHANGED <<handler, registry, queue, got, inbox, listener, expected>>

-----------------------------------------------------------------------------
(* The listener of an instance.                                            *)

Asleep == [at |-> "sleep", dead |-> FALSE, idle |-> 0, pinged |-> FALSE, m |-> "none", job |-> NoFan]
Busy(i) == listener[i].job # NoFan
With(l, job) == [l EXCEPT !.job = job, !.m = IF job = NoFan THEN "none" ELSE @]
Missed(i) == {<<m, i>> : m \in Range(inbox[i])}

(* The connection is gone with an error: what was not read is lost.        *)
disconnected(i) ==
    /\ listener' = [listener EXCEPT ![i] = Asleep]
    /\ inbox' = [inbox EXCEPT ![i] = <<>>]
    /\ excused' = excused \cup Missed(i)

(* ping and subscribe after the backoff, whose length is the scheduler's.  *)
run_user_fanout_listener(i) ==
    /\ listener[i].at = "sleep"
    /\ \/ listener' = [listener EXCEPT ![i].at = "up"] /\ UNCHANGED faults
       \/ Fault /\ UNCHANGED listener
    /\ UNCHANGED <<handler, client, registry, queue, got, fan, inbox, expected, excused>>

(* A poll that times out: after a silence the listener pings on this       *)
(* connection, and raises when that brings nothing.                        *)
quiet_too_long(l) == ~l.pinged /\ l.idle + 1 > WatchdogIdle
no_pong(l) == l.pinged /\ l.idle + 1 > WatchdogPong

\* Mutated: the watchdog pings and does not mind the silence.
ping_and_wait(i) ==
    /\ listener[i].at = "up" /\ ~Busy(i) /\ inbox[i] = <<>>
    /\ listener' = [listener EXCEPT ![i].pinged = TRUE]
    /\ UNCHANGED <<handler, client, registry, queue, got, fan, inbox, faults, expected, excused>>

poll_timeout(i) ==
    LET l == listener[i] IN
       /\ l.at = "up" /\ ~Busy(i) /\ inbox[i] = <<>>
       /\ \/ /\ ~no_pong(l)
             /\ listener' = [listener EXCEPT ![i].pinged = @ \/ quiet_too_long(l),
                                             ![i].idle = IF quiet_too_long(l) THEN 0 ELSE @ + 1]
             /\ UNCHANGED <<inbox, excused>>
          \/ no_pong(l) /\ disconnected(i)
       /\ UNCHANGED <<handler, client, registry, queue, got, fan, faults, expected>>

pong(i) ==
    /\ subscribed(i) /\ ~Busy(i) /\ listener[i].pinged
    /\ listener' = [listener EXCEPT ![i].idle = 0, ![i].pinged = FALSE]
    /\ UNCHANGED <<handler, client, registry, queue, got, fan, inbox, faults, expected, excused>>

\* Mutated: the origin of an envelope is not looked at.
never_own(m, i) == FALSE

(* _dispatch_message: the instance's own envelopes are skipped.            *)
own(m, i) == Post[m].inst = i

_dispatch_message(i) ==
    LET m == Head(inbox[i]) IN
    /\ listener[i].at = "up" /\ ~Busy(i) /\ inbox[i] # <<>>
    /\ inbox' = [inbox EXCEPT ![i] = Tail(@)]
    /\ listener' = [listener EXCEPT ![i].idle = 0, ![i].pinged = FALSE,
                                    ![i].m = IF own(m, i) THEN @ ELSE m,
                                    ![i].job.users = IF own(m, i) THEN <<>> ELSE Post[m].targets]
    /\ UNCHANGED <<handler, client, registry, queue, got, fan, faults, expected, excused>>

(* The handler of the channel, for one target after the other.             *)
handle(i) ==
    LET l == listener[i]
        u == Head(l.job.users)
    IN /\ Busy(i) /\ Idle(l.job)
       /\ \/ /\ Post[l.m].kind = "ws"
             /\ listener' = [listener EXCEPT ![i] = With(@, send_personal_message(@.job, i, u))]
             /\ UNCHANGED <<queue, excused>>
          \/ /\ Post[l.m].kind = "sse"
             /\ deliver(l.m, i, u)
             /\ listener' = [listener EXCEPT ![i] = With(@, [@.job EXCEPT !.users = Tail(@)])]
       /\ UNCHANGED <<handler, client, registry, got, fan, inbox, faults, expected>>

listener_send(i, s) ==
    /\ s \in listener[i].job.sends
    /\ sent(listener[i].m, s)
    /\ listener' = [listener EXCEPT ![i] = With(@, _send_one(@.job, s))]
    /\ registry' = dropped(listener[i].job, s)
    /\ UNCHANGED <<handler, client, queue, fan, inbox, faults, expected, excused>>

listener_drop(i, s) ==
    /\ s \in listener[i].job.drops
    /\ listener' = [listener EXCEPT ![i] = With(@, [@.job EXCEPT !.drops = @ \ {s}])]
    /\ _drop_close(s)
    /\ UNCHANGED <<handler, registry, queue, got, fan, inbox, expected>>

(* The connection errs between two messages, or goes silent: what had not  *)
(* arrived never does.                                                     *)
connection_error(i) ==
    /\ listener[i].at = "up" /\ ~Busy(i) /\ Fault
    /\ disconnected(i)
    /\ UNCHANGED <<handler, client, registry, queue, got, fan, expected>>

connection_dies(i) ==
    /\ subscribed(i) /\ Fault
    /\ listener' = [listener EXCEPT ![i].dead = TRUE]
    /\ \E k \in 0 .. Len(inbox[i]) :
           /\ inbox' = [inbox EXCEPT ![i] = SubSeq(@, 1, k)]
           /\ excused' = excused \cup {<<inbox[i][j], i>> : j \in k + 1 .. Len(inbox[i])}
    /\ UNCHANGED <<handler, client, registry, queue, got, fan, expected>>

-----------------------------------------------------------------------------
Init ==
    /\ \E part \in Scenarios :
           /\ handler = [s \in Sockets |-> IF s \in part THEN "new" ELSE "done"]
           /\ client = [s \in Sockets |-> IF s \in part THEN "connected" ELSE "gone"]
           /\ expected = [m \in Messages |-> IF m \in part THEN {"none"} ELSE {}]
    /\ registry = {}
    /\ queue = [s \in Sockets |-> <<>>]
    /\ got = [s \in Sockets |-> <<>>]
    /\ fan = [m \in Messages |-> NoFan]
    /\ inbox = [i \in Instances |-> <<>>]
    /\ listener = [i \in Instances |-> [Asleep EXCEPT !.at = "up"]]
    /\ faults = 0
    /\ excused = {}

Listening(i) == \/ run_user_fanout_listener(i) \/ poll_timeout(i) \/ pong(i) \/ _dispatch_message(i) \/ handle(i)
                \/ \E s \in Sockets : listener_send(i, s) \/ listener_drop(i, s)
Fanning(m) == \/ _fanout_dm(m) \/ publish_after_commit(m) \/ publish_user_envelope(m)
              \/ \E s \in Sockets : origin_send(m, s) \/ origin_drop(m, s)
Serving(s) == connect(s) \/ ensure_sse_capacity(s) \/ register(s) \/ sse_subscribe(s) \/ unregister(s)

Next ==
    \/ \E s \in Sockets : Serving(s) \/ leave(s) \/ stall(s)
    \/ \E m \in Messages : commit(m) \/ Fanning(m)
    \/ \E i \in Instances : Listening(i) \/ connection_error(i) \/ connection_dies(i)

Spec == Init /\ [][Next]_vars

(* Every task of the event loop runs, and a reader that stalled is not     *)
(* waited for.                                                             *)
FairSpec == /\ Spec
            /\ \A i \in Instances : WF_vars(Listening(i))
            /\ \A m \in Messages : WF_vars(Fanning(m))

-----------------------------------------------------------------------------
(* The variables stay within their types: the sockets of the registries    *)
(* and of the fan-outs are sockets, queues stay within their size.         *)
TypeOK ==
    /\ handler \in [Sockets -> {"new", "checked", "receiving", "done"}]
    /\ client \in [Sockets -> {"connected", "stalled", "gone"}]
    /\ registry \subseteq Sockets
    /\ \A s \in Sockets : Len(queue[s]) <= QueueMax /\ Range(queue[s]) \cup Range(got[s]) \subseteq Messages
    /\ \A m \in Messages : fan[m].sends \cup fan[m].drops \subseteq Sockets
    /\ \A i \in Instances : /\ listener[i].at \in {"sleep", "up"}
                             /\ listener[i].idle \in 0 .. WatchdogIdle + WatchdogPong
    /\ faults \in 0 .. MaxFaults

Reached(m, s) == Len(SelectSeq(got[s] \o queue[s], LAMBDA x : x = m))
Over(m) == /\ expected[m] # {"none"} /\ fan[m] = NoFan
           /\ \A i \in Instances : m \notin Range(inbox[i]) /\ ~(Busy(i) /\ listener[i].m = m)

(* A message reaches a socket at most once, over its own instance or over  *)
(* Redis; and when its fan-out is over it has reached every socket its     *)
(* targets had open at the commit, unless the socket went, its queue was   *)
(* full, or the envelope never got to that instance (_fanout_dm,           *)
(* publish_after_commit, the origin check of _dispatch_message).           *)
ReachedOnce ==
    \A m \in Messages, s \in Sockets :
        /\ Reached(m, s) <= 1
        /\ (Over(m) /\ s \in expected[m] /\ s \in registry) =>
              \/ Reached(m, s) = 1
              \/ <<m, s>> \in excused
              \/ Place[s].inst # Post[m].inst /\ <<m, Place[s].inst>> \in excused

(* A user never holds more than Cap slots of a kind on an instance, however*)
(* checks and registrations interleave; a slot never outlives the endpoint *)
(* that has it; and no WebSocket stays open without one, for its client    *)
(* would go on sending and hear nothing more: one that lost its place is   *)
(* being closed, unless that close itself hung (connect, register, the     *)
(* finally blocks, _drop).  The cap is exact: the docstring of has_capacity*)
(* has two connections that passed it together exceed the cap slightly,    *)
(* but register checks again under the lock and turns the second away.     *)
RegistryIsTrue ==
    /\ \A s \in registry : Cardinality(Bucket(s)) <= Cap /\ handler[s] = "receiving"
    /\ \A s \in Sockets :
        (handler[s] = "receiving" /\ client[s] # "gone" /\ s \notin registry) =>
            \/ <<s, "close">> \in excused
            \/ \E m \in Messages : s \in fan[m].drops
            \/ \E i \in Instances : s \in listener[i].job.drops

(* A listener always comes back: after an error, a refused connection, or  *)
(* a connection that died without a word, the instance is subscribed again *)
(* (run_user_fanout_listener, the watchdog of _listen_once).               *)
ListenerReturns == \A i \in Instances : []<>subscribed(i)
=============================================================================
