----------------------------- MODULE MCProgress -----------------------------
(***************************************************************************)
(* Instances for TLC of the components whose promise is that something     *)
(* happens in the end, checked side by side like the parts of MCServices:  *)
(* `part' chooses one, and v1 .. v11 are its variables.                    *)
(***************************************************************************)
EXTENDS Naturals, Sequences, FiniteSets

CONSTANTS NoOne   \* a model value

VARIABLES part, v1, v2, v3, v4, v5, v6, v7, v8, v9, v10, v11
vars == <<part, v1, v2, v3, v4, v5, v6, v7, v8, v9, v10, v11>>

Readers == {"r1", "r2"}
K == INSTANCE CacheAside WITH
        Readers <- Readers, Ttl <- 1, LockTtl <- 1, Waits <- 2, LoadMax <- 1, MaxVersion <- 2, MaxTime <- 3,
        None <- NoOne, now <- v1, current <- v2, superseded <- v3, entry <- v4, lock <- v5, reader <- v6

Notes == {"n1"}
Slots == {"s1", "s2"}
N == INSTANCE Delivery WITH
        Notes <- Notes, Slots <- Slots, MaxJobs <- 1, MaxTries <- 2, MaxFaults <- 3,
        event <- v1, row <- v2, queue <- v3, task <- v4, marks <- v5, published <- v6, has_queue <- v7,
        app <- v8, faults <- v9, excused <- v10, dropped <- v11

(* A WebSocket on the instance that a direct message has to be sent to.    *)
Place == [b2 |-> [kind |-> "ws", user |-> "b", inst |-> "i2"]]
Post == [dm |-> [kind |-> "ws", inst |-> "i1", targets |-> <<"b">>]]
Present == {{"b2", "dm"}}
Processes == {"i1", "i2"}
Sockets == {"b2"}
Messages == {"dm"}
R == INSTANCE Realtime WITH
        Instances <- Processes, Sockets <- Sockets, Messages <- Messages, Place <- Place, Post <- Post,
        Scenarios <- Present, Cap <- 1, QueueMax <- 1, WatchdogIdle <- 0, WatchdogPong <- 1, MaxFaults <- 1,
        handler <- v1, client <- v2, registry <- v3, queue <- v4, got <- v5, fan <- v6, inbox <- v7,
        listener <- v8, faults <- v9, expected <- v10, excused <- v11

Init == \/ /\ part = "cache" /\ K!Init
           /\ v7 = 0 /\ v8 = 0 /\ v9 = 0 /\ v10 = 0 /\ v11 = 0
        \/ part = "delivery" /\ N!Init
        \/ part = "realtime" /\ R!Init

InCache(A) == part = "cache" /\ A /\ UNCHANGED <<part, v7, v8, v9, v10, v11>>
InDelivery(A) == part = "delivery" /\ A /\ UNCHANGED part
InRealtime(A) == part = "realtime" /\ A /\ UNCHANGED part

Next == InCache(K!Next) \/ InDelivery(N!Next) \/ InRealtime(R!Next)

(* Every task that can take its next step takes it; crashes, failures and  *)
(* clients are under no obligation.                                        *)
Spec == /\ Init /\ [][Next]_vars
        /\ \A r \in Readers : WF_vars(InCache(K!Steps(r)))
        /\ WF_vars(InDelivery(N!Progress))
        /\ \A i \in Processes : WF_vars(InRealtime(R!Listening(i)))
        /\ \A m \in Messages : WF_vars(InRealtime(R!Fanning(m)))
-----------------------------------------------------------------------------
(* Every part keeps its types.                                             *)
TypeOK == /\ part = "cache" => K!TypeOK
          /\ part = "delivery" => N!TypeOK
          /\ part = "realtime" => R!TypeOK

(* An answer from the cache is at most one TTL and one load old.           *)
FreshEnough == part = "cache" => K!FreshEnough
(* A notification is sent twice only for a cause that the code accepts.    *)
DuplicatesAreExcused == part = "delivery" => N!DuplicatesAreExcused
(* Every reader that lives gets an answer, whoever held the lock.          *)
ReadersAnswer ==
    \A r \in Readers : (part = "cache" /\ K!Asks(r)) ~> (part = "cache" /\ K!Ends(r))
(* Every notification that is committed is published or given up.          *)
EventuallyDelivered ==
    \A n \in Notes : (part = "delivery" /\ v1[n] = "committed") ~> (part = "delivery" /\ N!Settled(n))
(* Every instance is subscribed again after whatever broke its connection. *)
ListenerReturns == \A i \in Processes : []<>(part = "realtime" => R!subscribed(i))
=============================================================================
