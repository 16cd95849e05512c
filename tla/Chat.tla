-------------------------------- MODULE Chat --------------------------------
(***************************************************************************)
(* Direct messages.  A socket sends in a transaction of its own: the checks*)
(* on the peer, the room unless this socket has it cached, the message.    *)
(* Users block each other, withdraw and are purged meanwhile.  A client    *)
(* that reconnects reads on from the last message it has, page by page.    *)
(* db is what is committed; tx[s] holds what the transaction of s adds.    *)
(***************************************************************************)
EXTENDS Integers, FiniteSets, Sequences, SequencesExt

CONSTANTS
    Users,          \* a set of integers: ids are ordered
    Sockets, Owner, \* Owner[s]: the user of the socket, or of the REST request
    Peers,          \* Peers[s]: whom s writes to, one after the other
    Rest,           \* the elements of Sockets that are requests to open a room
    Reader,         \* the user whose client reads on
    CacheMax,       \* room_cache_max
    Limit,          \* the page size of the reader
    Scenarios,      \* sets of user actions, one of which may happen
    MaxChanges      \* bound: blocks, withdrawals, purges, failures

None == 0

VARIABLES
    db,             \* [users, blocks, rooms, messages]
    tx,             \* tx[s]: [at, peer, room, made, held, key]
    room_cache,     \* room_cache[s]: <<peer, room>> pairs, the oldest first
    todo,           \* todo[s]: the peers s has still to write to
    clock,          \* the next id: UUIDv7 and created_at grow together
    changes,
    scenario,
    reader,         \* a client that reads on: [at, from, cursor, seen, room]
    marking,        \* marking[u]: a request of u to mark a room read: [at, room, rows], and
                    \* as history the keys its UPDATE found in the room (there)
    late            \* history: keys committed after a later key was

vars == <<db, tx, room_cache, todo, clock, changes, scenario, reader, marking, late>>

NoTx == [at |-> "idle", peer |-> None, room |-> None, made |-> FALSE, held |-> FALSE, key |-> None,
         blocked |-> FALSE]
Active(u) == db.users[u] = "active"
Change(what) == what \in scenario /\ changes < MaxChanges /\ changes' = changes + 1

normalize_dm_user_ids(a, b) == IF a < b THEN <<a, b>> ELSE <<b, a>>
pair(s) == normalize_dm_user_ids(Owner[s], tx[s].peer)
Room(p) == {r \in db.rooms : r.pair = p}
Member(u, r) == u \in {r.pair[1], r.pair[2]}

-----------------------------------------------------------------------------
(* Sending.                                                                *)

get_status_and_block_between(a, b) ==
    [status |-> db.users[b], blocked |-> {<<a, b>>, <<b, a>>} \cap db.blocks # {}]

(* Nobody writes to themself, to who is not there, or across a block.      *)
assert_can_dm(s, p) ==
    LET peer == get_status_and_block_between(Owner[s], p) IN
    p # Owner[s] /\ peer.status = "active" /\ ~peer.blocked

cached(s, p) == LET hits == {k \in DOMAIN room_cache[s] : room_cache[s][k][1] = p} IN
                IF hits = {} THEN None ELSE room_cache[s][CHOOSE k \in hits : TRUE][2]

(* receive_text and the checks; a refusal is answered with an error frame. *)
(* A socket was authenticated when it was opened, a request is every time. *)
receive(s) ==
    LET p == Head(todo[s]) IN
    /\ tx[s].at = "idle" /\ todo[s] # <<>> /\ (s \in Rest => Active(Owner[s]))
    /\ todo' = [todo EXCEPT ![s] = Tail(@)]
    /\ tx' = IF assert_can_dm(s, p)
             THEN [tx EXCEPT ![s] = [NoTx EXCEPT !.at = IF cached(s, p) = None THEN "room" ELSE "message",
                                                 !.peer = p, !.room = cached(s, p),
                                                 !.blocked = get_status_and_block_between(Owner[s], p).blocked]]
             ELSE tx
    /\ UNCHANGED <<db, room_cache, clock, changes, scenario, reader, marking, late>>

(* INSERT ... ON CONFLICT DO UPDATE: waits for an insertion of the same    *)
(* pair, and locks the users' rows and the room's until the end.           *)
Inserting(p) == {q \in Sockets : tx[q].made /\ pair(q) = p}

_upsert_room(s) ==
    /\ tx[s].at = "room" /\ Inserting(pair(s)) = {}
    /\ \A u \in {Owner[s], tx[s].peer} : db.users[u] # "purged"
    /\ \/ \E r \in Room(pair(s)) :
              /\ tx' = [tx EXCEPT ![s].at = "message", ![s].room = r.id, ![s].held = TRUE]
              /\ UNCHANGED clock
       \/ /\ Room(pair(s)) = {}
          /\ tx' = [tx EXCEPT ![s].at = "message", ![s].room = clock, ![s].made = TRUE, ![s].held = TRUE]
          /\ clock' = clock + 1
    /\ UNCHANGED <<db, room_cache, todo, changes, scenario, reader, marking, late>>

(* The flush of the message: its key is taken here, and its room must be   *)
(* there.  A request that only opens a room has none.                      *)
flush(s) ==
    /\ tx[s].at = "message" /\ s \notin Rest
    /\ tx[s].made \/ \E r \in db.rooms : r.id = tx[s].room
    /\ tx' = [tx EXCEPT ![s].at = "commit", ![s].held = TRUE, ![s].key = clock]
    /\ clock' = clock + 1
    /\ UNCHANGED <<db, room_cache, todo, changes, scenario, reader, marking, late>>

(* What the socket keeps after a commit, at most CacheMax rooms.           *)
remember(cache, p, r) ==
    LET all == Append(cache, <<p, r>>) IN
    IF Len(all) > CacheMax THEN SubSeq(all, Len(all) - CacheMax + 1, Len(all)) ELSE all

commit(s) ==
    LET t == tx[s] IN
    /\ t.at = "commit" \/ (t.at = "message" /\ s \in Rest)
    /\ db' = [db EXCEPT !.rooms = IF t.made THEN @ \cup {[id |-> t.room, pair |-> pair(s)]} ELSE @,
                        !.messages = IF s \in Rest THEN @
                                     ELSE @ \cup {[key |-> t.key, room |-> t.room, sender |-> Owner[s],
                                                   is_read |-> FALSE, blocked |-> t.blocked]}]
    /\ room_cache' = IF s \in Rest \/ cached(s, t.peer) # None THEN room_cache
                     ELSE [room_cache EXCEPT ![s] = remember(@, t.peer, t.room)]
    /\ late' = IF \E m \in db.messages : m.room = t.room /\ m.key > t.key THEN late \cup {t.key} ELSE late
    /\ tx' = [tx EXCEPT ![s] = NoTx]
    /\ UNCHANGED <<todo, clock, changes, scenario, reader, marking>>

\* Mutated: the room is remembered as soon as it is upserted.
kept_uncommitted(s) ==
    IF tx[s].room = None THEN room_cache[s] ELSE remember(room_cache[s], tx[s].peer, tx[s].room)

(* Any statement fails, the foreign keys among them: the socket goes on    *)
(* with what it had cached.                                                *)
kept(s) == room_cache[s]

rollback(s) ==
    /\ tx[s].at # "idle"
    /\ \/ Change("fail")
       \/ /\ tx[s].at = "message" /\ ~tx[s].made /\ ~(\E r \in db.rooms : r.id = tx[s].room)
          /\ UNCHANGED changes
       \/ /\ tx[s].at = "room" /\ "purged" \in {db.users[Owner[s]], db.users[tx[s].peer]}
          /\ UNCHANGED changes
    /\ tx' = [tx EXCEPT ![s] = NoTx]
    /\ room_cache' = [room_cache EXCEPT ![s] = kept(s)]
    /\ UNCHANGED <<db, todo, clock, scenario, reader, marking, late>>

-----------------------------------------------------------------------------
(* Users.                                                                  *)

toggle_block_user(a, b) ==
    /\ Change("block") /\ a # b /\ Active(a) /\ Active(b)
    /\ db' = [db EXCEPT !.blocks = IF <<a, b>> \in @ THEN @ \ {<<a, b>>} ELSE @ \cup {<<a, b>>}]
    /\ UNCHANGED <<tx, room_cache, todo, clock, scenario, reader, marking, late>>

delete_user(u) ==
    /\ Change("withdraw") /\ Active(u)
    /\ db' = [db EXCEPT !.users[u] = "withdrawn"]
    /\ UNCHANGED <<tx, room_cache, todo, clock, scenario, reader, marking, late>>

(* ON DELETE CASCADE: the rooms of the user and their messages.  The purge *)
(* waits for transactions that hold the user's row, a room of theirs or    *)
(* messages in it.                                                         *)
Holds(s, u) == tx[s].held /\ u \in {Owner[s], tx[s].peer}

purge_users_by_ids(u) ==
    LET gone == {r \in db.rooms : Member(u, r)} IN
    /\ Change("withdraw") /\ db.users[u] = "withdrawn"
    /\ \A s \in Sockets : ~Holds(s, u)
    /\ \A v \in Users : marking[v].rows = {} \/ \A r \in gone : marking[v].room # r.id
    /\ db' = [users |-> [db.users EXCEPT ![u] = "purged"],
              blocks |-> {p \in db.blocks : u \notin {p[1], p[2]}},
              rooms |-> db.rooms \ gone,
              messages |-> {m \in db.messages : \A r \in gone : m.room # r.id}]
    /\ UNCHANGED <<tx, room_cache, todo, clock, scenario, reader, marking, late>>

-----------------------------------------------------------------------------
(* Reading.                                                                *)

split_page(rows, size) == [items |-> SubSeq(rows, 1, IF Len(rows) < size THEN Len(rows) ELSE size),
                           has_more |-> Len(rows) > size]

Ordered(msgs, ascending) ==
    SetToSortSeq(msgs, LAMBDA m, n : IF ascending THEN m.key < n.key ELSE m.key > n.key)

\* Mutated: both directions take the newest rows.
list_newest(room, cursor, direction) ==
    LET beyond == {m \in db.messages : m.room = room /\ IF direction = "after" THEN m.key > cursor
                                                        ELSE cursor = None \/ m.key < cursor}
    IN split_page(Ordered(beyond, FALSE), Limit)

(* list_room_messages: limit + 1 rows next to the cursor, in the direction *)
(* read; the answer is always the newest first.                            *)
list_room_messages(room, cursor, direction) ==
    LET ascending == direction = "after"
        beyond == {m \in db.messages : m.room = room /\ IF ascending THEN m.key > cursor
                                                        ELSE cursor = None \/ m.key < cursor}
        page == split_page(Ordered(beyond, ascending), Limit)
    IN [page EXCEPT !.items = IF ascending THEN Reverse(@) ELSE @]

_room_membership_guard(u, room) == \E r \in db.rooms : r.id = room /\ Member(u, r)

(* The client opens a room at its newest page, goes away, and reads on     *)
(* from the newest message it has: the next cursor is items[0].            *)
open_room ==
    /\ "read" \in scenario /\ reader.at = "away" /\ Active(Reader)
    /\ \E r \in db.rooms :
          LET page == list_room_messages(r.id, None, "before") IN
          /\ _room_membership_guard(Reader, r.id) /\ page.items # <<>>
          /\ reader' = [at |-> "open", room |-> r.id, from |-> Last(page.items).key, cursor |-> page.items[1].key,
                        seen |-> {m.key : m \in Range(page.items)}]
    /\ UNCHANGED <<db, tx, room_cache, todo, clock, changes, scenario, marking, late>>

next_cursor(page, cursor) == IF page.items = <<>> THEN cursor ELSE page.items[1].key

resync ==
    LET page == list_room_messages(reader.room, reader.cursor, "after") IN
    /\ reader.at \in {"open", "more"} /\ Active(Reader) /\ _room_membership_guard(Reader, reader.room)
    /\ reader' = [reader EXCEPT !.at = IF page.has_more THEN "more" ELSE "open",
                                !.cursor = next_cursor(page, @),
                                !.seen = @ \cup {m.key : m \in Range(page.items)}]
    /\ UNCHANGED <<db, tx, room_cache, todo, clock, changes, scenario, marking, late>>

(* mark_room_read: the guard, then an UPDATE of what the other side has    *)
(* sent, then the COMMIT.  The UPDATE finds what is committed when it runs.*)
NoMark == [at |-> "idle", room |-> None, rows |-> {}, there |-> {}]
In(r) == {m \in db.messages : m.room = r}
to_mark(u, room) == {m.key : m \in {x \in In(room) : x.sender # u /\ ~x.is_read}}

mark_room_read(u) ==
    /\ "mark" \in scenario /\ Active(u) /\ marking[u].at = "idle"
    /\ \E r \in db.rooms :
          /\ _room_membership_guard(u, r.id)
          /\ marking' = [marking EXCEPT ![u] = [NoMark EXCEPT !.at = "update", !.room = r.id]]
    /\ UNCHANGED <<db, tx, room_cache, todo, clock, changes, scenario, reader, late>>

mark_update(u) ==
    LET room == marking[u].room IN
    /\ marking[u].at = "update"
    /\ marking' = [marking EXCEPT ![u].at = "commit", ![u].rows = to_mark(u, room),
                                  ![u].there = {m.key : m \in In(room)}]
    /\ UNCHANGED <<db, tx, room_cache, todo, clock, changes, scenario, reader, late>>

\* Mutated: everything up to the newest of them becomes read.
marked_up_to(u, m) == m.room = marking[u].room /\ \E k \in marking[u].rows : m.key <= k

marked(u, m) == m.key \in marking[u].rows

mark_commit(u) ==
    /\ marking[u].at = "commit"
    /\ db' = [db EXCEPT !.messages = {[m EXCEPT !.is_read = @ \/ marked(u, m)] : m \in @}]
    /\ marking' = [marking EXCEPT ![u] = NoMark]
    /\ UNCHANGED <<tx, room_cache, todo, clock, changes, scenario, reader, late>>

(* Whom a room is shown with, in the inbox and at its top.                 *)
_PeerJoin(u, r) == IF r.pair[1] = u THEN r.pair[2] ELSE r.pair[1]
get_room_peer_info(u, room) == {_PeerJoin(u, r) : r \in {x \in db.rooms : x.id = room /\ Member(u, x)}}

(* list_recent_rooms: rooms that have a message, the latest first, at most *)
(* limit, each with what the user has not read.  The join on the peer's row*)
(* drops no room: the foreign key keeps the row.                           *)
latest(room) == CHOOSE m \in room : \A n \in room : n.key <= m.key

first(limit, rows) == SubSeq(rows, 1, IF limit < Len(rows) THEN limit ELSE Len(rows))

list_recent_rooms(u, limit) ==
    first(limit, SetToSortSeq(
                 {[room |-> r.id, peer |-> _PeerJoin(u, r), last |-> latest(In(r.id)).key,
                   unread |-> Cardinality({m \in In(r.id) : ~m.is_read /\ m.sender # u})] :
                     r \in {x \in db.rooms : Member(u, x) /\ In(x.id) # {}}},
                 LAMBDA x, y : x.last > y.last))

-----------------------------------------------------------------------------
Away == [at |-> "away", room |-> None, from |-> None, cursor |-> None, seen |-> {}]

Init ==
    /\ db = [users |-> [u \in Users |-> "active"], blocks |-> {}, rooms |-> {}, messages |-> {}]
    /\ tx = [s \in Sockets |-> NoTx]
    /\ room_cache = [s \in Sockets |-> <<>>]
    /\ todo = Peers
    /\ clock = 1
    /\ changes = 0
    /\ scenario \in Scenarios
    /\ reader = Away
    /\ marking = [u \in Users |-> NoMark]
    /\ late = {}

Send(s) == receive(s) \/ _upsert_room(s) \/ flush(s) \/ commit(s) \/ rollback(s)

Next ==
    \/ \E s \in Sockets : Send(s)
    \/ \E u \in Users : delete_user(u) \/ purge_users_by_ids(u)
    \/ \E u \in Users : mark_room_read(u) \/ mark_update(u) \/ mark_commit(u)
    \/ \E a, b \in Users : toggle_block_user(a, b)
    \/ open_room \/ resync

Spec == Init /\ [][Next]_vars

-----------------------------------------------------------------------------
(* Rooms and messages have the shape the tables give them: the pair in     *)
(* order, a message in a room that is there.                               *)
TypeOK ==
    /\ db.users \in [Users -> {"active", "withdrawn", "purged"}]
    /\ \A r \in db.rooms : r.pair[1] < r.pair[2]
    /\ \A m \in db.messages : \E r \in db.rooms : r.id = m.room /\ Member(m.sender, r)
    /\ \A s \in Sockets : Len(room_cache[s]) <= CacheMax
    /\ changes \in 0 .. MaxChanges

(* A room a socket has cached is the room of that pair for as long as both *)
(* users' rows are there, so no later message fails on its foreign key     *)
(* (room_cache is written after the commit only), and shows at its top the *)
(* peer it was cached for; a pair has one room; and a cached room carries  *)
(* no message across a block (assert_can_dm on every send).                *)
RoomCacheIsSafe ==
    /\ \A r, q \in db.rooms : r.pair = q.pair => r = q
    /\ \A s \in Sockets : \A k \in DOMAIN room_cache[s] :
          LET p == normalize_dm_user_ids(Owner[s], room_cache[s][k][1]) IN
          \/ /\ [id |-> room_cache[s][k][2], pair |-> p] \in db.rooms
             /\ get_room_peer_info(Owner[s], room_cache[s][k][2]) = {room_cache[s][k][1]}
          \/ "purged" \in {db.users[p[1]], db.users[p[2]]}
    /\ \A m \in db.messages : ~m.blocked

(* A client that read on until has_more was false has every message up to  *)
(* its cursor, however many arrived meanwhile, but for those whose commit  *)
(* came after that of a later key (list_room_messages, direction after).   *)
ResyncHasNoHoles ==
    reader.at = "open" =>
        \A m \in db.messages :
            m.room = reader.room /\ m.key >= reader.from /\ m.key <= reader.cursor => m.key \in reader.seen \cup late

Unread(u, r) == FoldLeft(LAMBDA n, x : IF x.room = r.id THEN n + x.unread ELSE n, 0,
                         list_recent_rooms(u, Cardinality(db.rooms)))

(* What the inbox shows as unread goes down only for the member whose own  *)
(* mark_room_read commits, and then to what the other has sent since its   *)
(* UPDATE ran: a message that commits meanwhile, even one with an older    *)
(* key, stays unread, and the other's count is left alone.                 *)
ReadingStep ==
    \A r \in db.rooms \cap db'.rooms : \A a, b \in {r.pair[1], r.pair[2]} :
        (a # b /\ db'.messages # db.messages /\ Unread(a, r)' < Unread(a, r)) =>
            /\ marking[a].at = "commit" /\ marking[a].room = r.id
            /\ Unread(a, r)' = Cardinality({m \in In(r.id) : m.sender = b /\ m.key \notin marking[a].there})
            /\ Unread(b, r)' >= Unread(b, r)
ReadingIsOnesOwn == [][ReadingStep]_vars
=============================================================================
