--------------------------- MODULE MediaLifecycle ---------------------------
(***************************************************************************)
(* The life of an image: upload confirmation, attachment to profiles and   *)
(* posts, soft deletion, the three collection passes, signup claims and    *)
(* the purge of withdrawn users (app/domain/media, with the transactions   *)
(* of app/domain/users, posts and auth that touch `images').               *)
(*                                                                         *)
(* Every request or job is a PostgreSQL READ COMMITTED transaction.  A row *)
(* lock is held from the statement that takes it to the end of its         *)
(* transaction, so who holds which lock is read off the program counters   *)
(* (ShareLocked, ExclusivelyLocked) rather than kept in a variable.        *)
(* Writes become visible in the step that commits them; storage calls take *)
(* effect at once and survive a rollback.                                  *)
(***************************************************************************)
EXTENDS Integers, FiniteSets

CONSTANTS
    Images,        \* image ids, ordered like the UUIDv7 primary key
    SignupImages,  \* those uploaded before signup (uploader_id NULL)
    Users, Posts,  \* the holders of references: profiles (and dogs), posts
    Attachers,     \* concurrent requests that attach an image
    Sweepers,      \* concurrent runs of the cleanup jobs
    BatchSize,     \* MEDIA_CLEANUP_BATCH_SIZE
    Poison,        \* images whose storage delete never succeeds
    MaxFaults,     \* bound on job crashes and transient storage errors
    NoUser, NoImage

ASSUME ImagesAssumption == Images \subseteq Nat \ {0}
ASSUME SubsetAssumption == SignupImages \subseteq Images /\ Poison \subseteq Images
ASSUME BoundsAssumption == BatchSize \in Nat \ {0} /\ MaxFaults \in Nat
ASSUME NullAssumption ==
    NoUser \notin Users /\ NoImage \notin Images /\ Users \cap Posts = {}

VARIABLES
    st,        \* the row: "unborn", "marked" (deleted_at set), "live", "gone"
    owner,     \* uploader_id
    age,       \* created_at: 0 fresh, 1 older than the token TTL, 2 over 24h
    graced,    \* marked rows whose deleted_at is older than the grace period
    object,    \* images whose permanent S3 object exists
    refs,      \* committed references <<holder, image>>
    up,        \* confirm request of each image
    token,     \* images with a usable signup token in Redis
    deleting,  \* images marked by an uncommitted soft delete
    att,       \* image share-locked by each attaching transaction
    user,      \* account state
    claim,     \* image a signup has read from its token
    pc, pass, cursor,      \* cleanup loop: place, query, last_id
    page, rest, wiped,     \* rows fetched, still to delete, deleted in storage
    faults

uploadVars == <<up, token>>
requestVars == <<deleting, att, claim>>
sweepVars == <<pc, pass, cursor, page, rest, wiped>>
rowVars == <<st, owner, age, graced>>
vars == <<st, owner, age, graced, object, refs, up, token, deleting, att,
          user, claim, pc, pass, cursor, page, rest, wiped, faults>>

Holders == Users \cup Posts
Uploading == {"locked", "promoted"}

TypeOK ==
    /\ st \in [Images -> {"unborn", "marked", "live", "gone"}]
    /\ owner \in [Images -> Users \cup {NoUser}]
    /\ age \in [Images -> 0..2]
    /\ graced \subseteq Images
    /\ object \subseteq Images
    /\ refs \subseteq Holders \X Images
    /\ up \in [Images -> {"none", "reserved", "locked", "promoted", "ended"}]
    /\ token \subseteq Images
    /\ deleting \subseteq Images
    /\ att \in [Attachers -> Images \cup {NoImage}]
    /\ user \in [Users -> {"new", "active", "withdrawn", "purged"}]
    /\ claim \in [Users -> Images \cup {NoImage}]
    /\ pc \in [Sweepers -> {"idle", "fetch", "scan", "wipe"}]
    /\ pass \in [Sweepers -> {"abandoned", "reclaim", "signup"}]
    /\ cursor \in [Sweepers -> Images \cup {0}]
    /\ page \in [Sweepers -> SUBSET Images]
    /\ rest \in [Sweepers -> SUBSET Images]
    /\ wiped \in [Sweepers -> SUBSET Images]
    /\ faults \in 0..MaxFaults

Init ==
    /\ st = [i \in Images |-> "unborn"]
    /\ owner = [i \in Images |-> NoUser]
    /\ age = [i \in Images |-> 0]
    /\ graced = {} /\ object = {} /\ refs = {}
    /\ up = [i \in Images |-> "none"]
    /\ token = {} /\ deleting = {}
    /\ att = [a \in Attachers |-> NoImage]
    /\ user = [u \in Users |-> "new"]
    /\ claim = [u \in Users |-> NoImage]
    /\ pc = [s \in Sweepers |-> "idle"]
    /\ pass = [s \in Sweepers |-> "abandoned"]
    /\ cursor = [s \in Sweepers |-> 0]
    /\ page = [s \in Sweepers |-> {}]
    /\ rest = [s \in Sweepers |-> {}]
    /\ wiped = [s \in Sweepers |-> {}]
    /\ faults = 0

-----------------------------------------------------------------------------
(* Row locks *)

\* FOR SHARE, taken by assert_images_attachable.
ShareLocked(i) == \E a \in Attachers : att[a] = i

\* FOR UPDATE of a confirm or of a cleanup page, or a soft delete's UPDATE.
ExclusivelyLocked(i) ==
    \/ up[i] \in Uploading
    \/ i \in deleting
    \/ \E s \in Sweepers : pc[s] = "wipe" /\ i \in page[s]

RowLocked(i) == ShareLocked(i) \/ ExclusivelyLocked(i)

Unreferenced(i) == \A h \in Holders : <<h, i>> \notin refs

WithoutHolder(h) == {r \in refs : r[1] # h}

WithoutImages(S) == {r \in refs : r[2] \notin S}

-----------------------------------------------------------------------------
(* Upload confirmation: _reserved_upload *)

\* First transaction: the reserved row, deleted_at already set.
CreateReservedImage(i) ==
    /\ up[i] = "none"
    /\ \E u \in Users \cup {NoUser} :
          /\ IF i \in SignupImages THEN u = NoUser
             ELSE u \in Users /\ user[u] = "active"
          /\ owner' = [owner EXCEPT ![i] = u]
    /\ st' = [st EXCEPT ![i] = "marked"]
    /\ up' = [up EXCEPT ![i] = "reserved"]
    /\ UNCHANGED <<age, graced, object, refs, token, requestVars, user, sweepVars, faults>>

\* Second transaction: SELECT ... FOR UPDATE waits for the row's lock, then
\* either holds the reserved row or finds that a sweeper took it (500).
LockReservedImage(i) ==
    /\ up[i] = "reserved"
    /\ ~RowLocked(i)
    /\ up' = [up EXCEPT ![i] = IF st[i] = "marked" THEN "locked" ELSE "ended"]
    /\ UNCHANGED <<rowVars, object, refs, token, requestVars, user, sweepVars, faults>>

\* The conditional copy of the pending object, inside the second transaction.
PromotePendingObject(i) ==
    /\ up[i] = "locked"
    /\ object' = object \cup {i}
    /\ up' = [up EXCEPT ![i] = "promoted"]
    /\ UNCHANGED <<rowVars, refs, token, requestVars, user, sweepVars, faults>>

\* Mutated: confirms a row whose object was never promoted.
ConfirmUnpromoted(i) ==
    /\ up[i] \in Uploading
    /\ st' = [st EXCEPT ![i] = "live"]
    /\ token' = IF i \in SignupImages THEN token \cup {i} ELSE token
    /\ up' = [up EXCEPT ![i] = "ended"]
    /\ UNCHANGED <<owner, age, graced, object, refs, requestVars, user, sweepVars, faults>>

\* The body (a signup upload issues its token; a failure there is an abort),
\* then deleted_at is cleared and the transaction commits.
ConfirmReservedImage(i) ==
    /\ up[i] = "promoted"
    /\ st' = [st EXCEPT ![i] = "live"]
    /\ token' = IF i \in SignupImages THEN token \cup {i} ELSE token
    /\ up' = [up EXCEPT ![i] = "ended"]
    /\ UNCHANGED <<owner, age, graced, object, refs, requestVars, user, sweepVars, faults>>

\* Any exception, cancellation or crash before the commit rolls back to the
\* reserved row.  A copy that was under way may or may not have happened.
UploadAborts(i) ==
    /\ up[i] \in {"reserved"} \cup Uploading
    /\ object' \in IF up[i] = "locked" THEN {object, object \cup {i}} ELSE {object}
    /\ up' = [up EXCEPT ![i] = "ended"]
    /\ UNCHANGED <<rowVars, refs, token, requestVars, user, sweepVars, faults>>

-----------------------------------------------------------------------------
(* Attachment: update_user_profile, upsert_dog_profile, create/update_post *)

\* Mutated: FOR KEY SHARE, which a soft delete's UPDATE does not conflict with.
AttachUnderKeyShare(a, i) ==
    /\ att[a] = NoImage
    /\ \A s \in Sweepers : pc[s] = "wipe" => i \notin page[s]
    /\ st[i] = "live"
    /\ att' = [att EXCEPT ![a] = i]
    /\ UNCHANGED <<rowVars, object, refs, uploadVars, deleting, claim, user, sweepVars, faults>>

\* SELECT ... FOR SHARE of a live row; a marked or missing row is a 400.
AssertImagesAttachable(a, i) ==
    /\ att[a] = NoImage
    /\ ~ExclusivelyLocked(i)
    /\ st[i] = "live"
    /\ att' = [att EXCEPT ![a] = i]
    /\ UNCHANGED <<rowVars, object, refs, uploadVars, deleting, claim, user, sweepVars, faults>>

\* The reference is written and the transaction commits.  A profile holds
\* one image; post_images.image_id is unique across posts.
AttachCommits(a, h) ==
    /\ att[a] # NoImage
    /\ IF h \in Users THEN user[h] = "active"
       ELSE \A p \in Posts \ {h} : <<p, att[a]>> \notin refs
    /\ refs' = WithoutHolder(h) \cup {<<h, att[a]>>}
    /\ att' = [att EXCEPT ![a] = NoImage]
    /\ UNCHANGED <<rowVars, object, uploadVars, deleting, claim, user, sweepVars, faults>>

AttachAborts(a) ==
    /\ att[a] # NoImage
    /\ att' = [att EXCEPT ![a] = NoImage]
    /\ UNCHANGED <<rowVars, object, refs, uploadVars, deleting, claim, user, sweepVars, faults>>

\* The holder lets go: profile image cleared, post deleted or edited.
ReleaseReferences(h) ==
    /\ \E i \in Images : <<h, i>> \in refs
    /\ refs' = WithoutHolder(h)
    /\ UNCHANGED <<rowVars, object, uploadVars, requestVars, user, sweepVars, faults>>

-----------------------------------------------------------------------------
(* Soft deletion by the owner: soft_delete_image_if_owned *)

\* First statement: UPDATE waits for share and exclusive holders, then
\* rechecks owner and deleted_at on the current row.
SoftDeleteMarks(i) ==
    /\ ~RowLocked(i)
    /\ st[i] = "live"
    /\ owner[i] \in Users /\ user[owner[i]] = "active"
    /\ deleting' = deleting \cup {i}
    /\ UNCHANGED <<rowVars, object, refs, uploadVars, att, claim, user, sweepVars, faults>>

\* Second statement, on a new snapshot, detaches every reference; commit.
SoftDeleteCommits(i) ==
    /\ i \in deleting
    /\ st' = [st EXCEPT ![i] = "marked"]
    /\ graced' = graced \ {i}
    /\ refs' = WithoutImages({i})
    /\ deleting' = deleting \ {i}
    /\ UNCHANGED <<owner, age, object, uploadVars, att, claim, user, sweepVars, faults>>

SoftDeleteAborts(i) ==
    /\ i \in deleting
    /\ deleting' = deleting \ {i}
    /\ UNCHANGED <<rowVars, object, refs, uploadVars, att, claim, user, sweepVars, faults>>

-----------------------------------------------------------------------------
(* Accounts: signup with or without a token, withdrawal, purge *)

SignupPlain(u) ==
    /\ user[u] = "new" /\ claim[u] = NoImage
    /\ user' = [user EXCEPT ![u] = "active"]
    /\ UNCHANGED <<rowVars, object, refs, uploadVars, requestVars, sweepVars, faults>>

\* GET of the token; two signups may both read it before either DEL.
VerifyUploadToken(u, i) ==
    /\ user[u] = "new" /\ claim[u] = NoImage
    /\ i \in token
    /\ claim' = [claim EXCEPT ![u] = i]
    /\ UNCHANGED <<rowVars, object, refs, uploadVars, deleting, att, user, sweepVars, faults>>

\* Mutated: the claim's UPDATE forgets `uploader_id IS NULL'.
SignupClaimsAny(u) ==
    LET i == claim[u] IN
    /\ i # NoImage
    /\ ~RowLocked(i)
    /\ st[i] = "live"
    /\ token' = token \ {i}
    /\ owner' = [owner EXCEPT ![i] = u]
    /\ refs' = refs \cup {<<u, i>>}
    /\ user' = [user EXCEPT ![u] = "active"]
    /\ claim' = [claim EXCEPT ![u] = NoImage]
    /\ UNCHANGED <<st, age, graced, object, up, deleting, att, sweepVars, faults>>

\* DEL of the token, then one transaction: the user with its profile image
\* and claim_image_ownership, which wants a live row without uploader.
SignupClaims(u) ==
    LET i == claim[u] IN
    /\ i # NoImage
    /\ ~RowLocked(i)
    /\ st[i] = "live" /\ owner[i] = NoUser
    /\ token' = token \ {i}
    /\ owner' = [owner EXCEPT ![i] = u]
    /\ refs' = refs \cup {<<u, i>>}
    /\ user' = [user EXCEPT ![u] = "active"]
    /\ claim' = [claim EXCEPT ![u] = NoImage]
    /\ UNCHANGED <<st, age, graced, object, up, deleting, att, sweepVars, faults>>

\* The signup fails (row gone or taken, duplicate nickname, Redis error on
\* the DEL): rolled back, the token usually already spent.
SignupRejected(u) ==
    /\ claim[u] # NoImage
    /\ token' \in {token, token \ {claim[u]}}
    /\ claim' = [claim EXCEPT ![u] = NoImage]
    /\ UNCHANGED <<rowVars, object, refs, up, deleting, att, user, sweepVars, faults>>

\* Withdrawal keeps the row but clears the profile image.
DeleteUser(u) ==
    /\ user[u] = "active"
    /\ user' = [user EXCEPT ![u] = "withdrawn"]
    /\ refs' = WithoutHolder(u)
    /\ UNCHANGED <<rowVars, object, uploadVars, requestVars, sweepVars, faults>>

\* Hard delete 30 days later: ON DELETE SET NULL on images.uploader_id waits
\* for the rows' locks; the user's posts and their images stay.
PurgeUser(u) ==
    /\ user[u] = "withdrawn"
    /\ \A i \in Images : owner[i] = u =>
          ~RowLocked(i) /\ up[i] = "ended" /\ (st[i] # "gone" => age[i] = 2)
    /\ user' = [user EXCEPT ![u] = "purged"]
    /\ owner' = [i \in Images |-> IF owner[i] = u THEN NoUser ELSE owner[i]]
    /\ UNCHANGED <<st, age, graced, object, refs, uploadVars, requestVars, sweepVars, faults>>

-----------------------------------------------------------------------------
(* Time.  A token outlives the row's first hour but not its first day. *)

RowAges(i) ==
    /\ st[i] \in {"marked", "live"}
    /\ age[i] < 2
    /\ age[i] = 1 => i \notin token /\ \A u \in Users : claim[u] # i
    /\ age' = [age EXCEPT ![i] = @ + 1]
    /\ UNCHANGED <<st, owner, graced, object, refs, uploadVars, requestVars, user, sweepVars, faults>>

GraceEnds(i) ==
    /\ st[i] = "marked" /\ i \notin graced
    /\ graced' = graced \cup {i}
    /\ UNCHANGED <<st, owner, age, object, refs, uploadVars, requestVars, user, sweepVars, faults>>

TokenExpires(i) ==
    /\ i \in token /\ age[i] >= 1
    /\ token' = token \ {i}
    /\ UNCHANGED <<rowVars, object, refs, up, requestVars, user, sweepVars, faults>>

-----------------------------------------------------------------------------
(* Cleanup jobs: _keyset_cleanup over the three queries *)

\* The part of each query's WHERE that reads the images row itself.
RowSelected(q, i) ==
    \/ q = "abandoned" /\ st[i] = "live" /\ age[i] = 2
    \/ q = "reclaim" /\ st[i] = "marked" /\ i \in graced
    \/ q = "signup" /\ st[i] = "live" /\ owner[i] = NoUser /\ age[i] >= 1

\* get_expired_signup_images has no anti-join on the references.
Selected(q, i) == RowSelected(q, i) /\ (q # "signup" => Unreferenced(i))

\* sweep_unused_images starts with the abandoned pass; the signup cleanup is
\* a job of its own.  The job lock fails open, so runs may overlap.
StartCleanup(s, q) ==
    /\ pc[s] = "idle"
    /\ pc' = [pc EXCEPT ![s] = "fetch"]
    /\ pass' = [pass EXCEPT ![s] = q]
    /\ cursor' = [cursor EXCEPT ![s] = 0]
    /\ UNCHANGED <<rowVars, object, refs, uploadVars, requestVars, user, page, rest, wiped, faults>>

\* The page query takes its snapshot: the anti-join sees references
\* committed by now, and no later ones.
FetchSnapshot(s) ==
    /\ pc[s] = "fetch"
    /\ pc' = [pc EXCEPT ![s] = "scan"]
    /\ page' = [page EXCEPT ![s] =
                  {i \in Images : i > cursor[s] /\ Selected(pass[s], i)}]
    /\ UNCHANGED <<rowVars, object, refs, uploadVars, requestVars, user,
                   pass, cursor, rest, wiped, faults>>

\* The loop of this pass is over; the sweep goes on to its second pass.
PassEnds(s) ==
    /\ pc' = [pc EXCEPT ![s] = IF pass[s] = "abandoned" THEN "fetch" ELSE "idle"]
    /\ pass' = [pass EXCEPT ![s] = IF @ = "abandoned" THEN "reclaim" ELSE @]
    /\ cursor' = [cursor EXCEPT ![s] = 0]

FirstN(S) == {i \in S : Cardinality({j \in S : j < i}) < BatchSize}

\* Mutated: rows changed since the snapshot are not looked at again.
LockableUnchecked(s) == {i \in page[s] : st[i] # "gone" /\ ~RowLocked(i)}

\* Mutated: the page is read without locks.
LockableIgnoringLocks(s) == {i \in page[s] : RowSelected(pass[s], i)}

\* FOR UPDATE SKIP LOCKED: locked rows are passed over; a row that changed
\* since the snapshot is rechecked against its own columns only.
Lockable(s) == {i \in page[s] : RowSelected(pass[s], i) /\ ~RowLocked(i)}

FetchLocks(s) ==
    LET rows == FirstN(Lockable(s)) IN
    /\ pc[s] = "scan"
    /\ \/ /\ rows = {}
          /\ PassEnds(s)
          /\ page' = [page EXCEPT ![s] = {}]
          /\ UNCHANGED rest
       \/ /\ \E last \in rows :
                /\ \A i \in rows : i <= last
                /\ cursor' = [cursor EXCEPT ![s] = last]
          /\ pc' = [pc EXCEPT ![s] = "wipe"]
          /\ page' = [page EXCEPT ![s] = rows]
          /\ rest' = [rest EXCEPT ![s] = rows]
          /\ UNCHANGED pass
    /\ UNCHANGED <<rowVars, object, refs, uploadVars, requestVars, user, wiped, faults>>

\* Rows of the batch are taken in id order.
IsNext(s, i) == pc[s] = "wipe" /\ i \in rest[s] /\ \A j \in rest[s] : i <= j

StorageDeletes(s, i) ==
    /\ IsNext(s, i)
    /\ i \notin Poison
    /\ object' = object \ {i}
    /\ rest' = [rest EXCEPT ![s] = @ \ {i}]
    /\ wiped' = [wiped EXCEPT ![s] = @ \cup {i}]
    /\ UNCHANGED <<rowVars, refs, uploadVars, requestVars, user, pc, pass, cursor, page, faults>>

\* The call raises; on a transient error the object may be gone regardless.
StorageDeleteFails(s, i) ==
    /\ IsNext(s, i)
    /\ \/ i \in Poison /\ UNCHANGED <<object, faults>>
       \/ /\ faults < MaxFaults
          /\ faults' = faults + 1
          /\ object' \in {object, object \ {i}}
    /\ rest' = [rest EXCEPT ![s] = @ \ {i}]
    /\ UNCHANGED <<rowVars, refs, uploadVars, requestVars, user, pc, pass, cursor, page, wiped>>

\* Mutated: rows whose storage delete failed are removed as well.
BatchDropsAll(s) ==
    /\ pc[s] = "wipe" /\ rest[s] = {}
    /\ st' = [i \in Images |-> IF i \in page[s] THEN "gone" ELSE st[i]]
    /\ refs' = WithoutImages(page[s])
    /\ IF Cardinality(page[s]) < BatchSize THEN PassEnds(s)
       ELSE pc' = [pc EXCEPT ![s] = "fetch"] /\ UNCHANGED <<pass, cursor>>
    /\ page' = [page EXCEPT ![s] = {}]
    /\ wiped' = [wiped EXCEPT ![s] = {}]
    /\ UNCHANGED <<owner, age, graced, object, uploadVars, requestVars, user, rest, faults>>

\* Mutated: the loop gives up after a batch with a failed storage delete.
BatchStopsOnFailure(s) ==
    /\ pc[s] = "wipe" /\ rest[s] = {}
    /\ st' = [i \in Images |-> IF i \in wiped[s] THEN "gone" ELSE st[i]]
    /\ refs' = WithoutImages(wiped[s])
    /\ IF Cardinality(wiped[s]) < BatchSize THEN PassEnds(s)
       ELSE pc' = [pc EXCEPT ![s] = "fetch"] /\ UNCHANGED <<pass, cursor>>
    /\ page' = [page EXCEPT ![s] = {}]
    /\ wiped' = [wiped EXCEPT ![s] = {}]
    /\ UNCHANGED <<owner, age, graced, object, uploadVars, requestVars, user, rest, faults>>

\* delete_images_by_ids of the successes (the foreign keys cascade), commit.
BatchCommits(s) ==
    /\ pc[s] = "wipe" /\ rest[s] = {}
    /\ st' = [i \in Images |-> IF i \in wiped[s] THEN "gone" ELSE st[i]]
    /\ refs' = WithoutImages(wiped[s])
    /\ IF Cardinality(page[s]) < BatchSize THEN PassEnds(s)
       ELSE pc' = [pc EXCEPT ![s] = "fetch"] /\ UNCHANGED <<pass, cursor>>
    /\ page' = [page EXCEPT ![s] = {}]
    /\ wiped' = [wiped EXCEPT ![s] = {}]
    /\ UNCHANGED <<owner, age, graced, object, uploadVars, requestVars, user, rest, faults>>

\* The job dies or its transaction fails: rows stay, storage deletes do not
\* come back, the next run starts over.
CleanupAborts(s) ==
    /\ pc[s] # "idle"
    /\ faults < MaxFaults
    /\ faults' = faults + 1
    /\ pc' = [pc EXCEPT ![s] = "idle"]
    /\ page' = [page EXCEPT ![s] = {}]
    /\ rest' = [rest EXCEPT ![s] = {}]
    /\ wiped' = [wiped EXCEPT ![s] = {}]
    /\ UNCHANGED <<rowVars, object, refs, uploadVars, requestVars, user, pass, cursor>>

-----------------------------------------------------------------------------
UploadNext(i) ==
    \/ CreateReservedImage(i) \/ LockReservedImage(i) \/ PromotePendingObject(i)
    \/ ConfirmReservedImage(i) \/ UploadAborts(i)

SoftDeleteNext(i) == SoftDeleteMarks(i) \/ SoftDeleteCommits(i) \/ SoftDeleteAborts(i)

TimeNext(i) == RowAges(i) \/ GraceEnds(i) \/ TokenExpires(i)

AttachNext(a) ==
    \/ \E i \in Images : AssertImagesAttachable(a, i)
    \/ \E h \in Holders : AttachCommits(a, h)
    \/ AttachAborts(a)

AccountNext(u) ==
    \/ SignupPlain(u) \/ SignupClaims(u) \/ SignupRejected(u)
    \/ DeleteUser(u) \/ PurgeUser(u)
    \/ \E i \in Images : VerifyUploadToken(u, i)

SweepNext(s) ==
    \/ \E q \in {"abandoned", "signup"} : StartCleanup(s, q)
    \/ FetchSnapshot(s) \/ FetchLocks(s) \/ BatchCommits(s) \/ CleanupAborts(s)
    \/ \E i \in Images : StorageDeletes(s, i) \/ StorageDeleteFails(s, i)

Next ==
    \/ \E i \in Images : UploadNext(i) \/ SoftDeleteNext(i) \/ TimeNext(i)
    \/ \E a \in Attachers : AttachNext(a)
    \/ \E h \in Holders : ReleaseReferences(h)
    \/ \E u \in Users : AccountNext(u)
    \/ \E s \in Sweepers : SweepNext(s)

Spec == Init /\ [][Next]_vars

-----------------------------------------------------------------------------
(* Properties *)

\* Every stored object has a row that the sweeper can find it by: no
\* interleaving of confirm, rollback and collection leaves an object behind
\* without one (_reserved_upload, _keyset_cleanup; ADR 0019).
ObjectHasRow == \A i \in object : st[i] \in {"marked", "live"}

\* What a profile or a post points to is a confirmed image that is not
\* waiting for collection: the FOR SHARE of assert_images_attachable and the
\* two-statement soft delete never leave a reference to a marked row, which
\* the anti-join would keep from ever being collected.
ReferencedIsLive == \A h \in Holders, i \in Images : <<h, i>> \in refs => st[i] = "live"

\* A confirmed image is not collected in its first 24 hours (its first token
\* lifetime when it has no uploader), even by a sweeper that chose the row
\* while it was still a reservation past its grace (get_*_images, SKIP LOCKED).
FreshImageSurvives ==
    [][\A i \in Images : st[i] = "live" /\ st'[i] = "gone" =>
          age[i] = 2 \/ (owner[i] = NoUser /\ age[i] >= 1)]_vars

\* A signup image goes to one account: signups that both read the token
\* before its DEL cannot both claim it (verify_upload_token,
\* claim_image_ownership); only the owner's purge clears the uploader.
OwnershipIsStable ==
    [][\A i \in Images, u \in Users : owner[i] = u =>
          owner'[i] = u \/ (owner'[i] = NoUser /\ user'[u] = "purged")]_vars

\* The subsystem keeps the image contract: object written after the row and
\* under a marked row, published only when stored, erased before the row.
Contract == INSTANCE ImageContract WITH row <- st, stored <- object
ImplementsContract == Contract!ContractSpec

\* What the holders of a row lock guarantee each other.  With the two
\* invariants above these parts are inductive.
BirthInv == \A i \in Images : up[i] = "none" <=> st[i] = "unborn"

UploadInv ==
    \A i \in Images :
        /\ up[i] \in Uploading => st[i] = "marked"
        /\ up[i] = "promoted" => i \in object

DeletingInv == \A i \in deleting : st[i] = "live" /\ up[i] \notin Uploading

AttachInv ==
    \A a \in Attachers, i \in Images : att[a] = i =>
        st[i] = "live" /\ ~ExclusivelyLocked(i)

PageInv ==
    \A s \in Sweepers, i \in Images : pc[s] = "wipe" /\ i \in page[s] =>
        /\ st[i] \in {"marked", "live"}
        /\ up[i] \notin Uploading /\ i \notin deleting
        /\ \A t \in Sweepers : pc[t] = "wipe" /\ i \in page[t] => t = s

BatchInv ==
    \A s \in Sweepers :
        /\ rest[s] \subseteq page[s] /\ wiped[s] \subseteq page[s]
        /\ wiped[s] \cap (rest[s] \cup object) = {}
        /\ pc[s] # "wipe" => rest[s] = {} /\ wiped[s] = {}

LockInv ==
    BirthInv /\ UploadInv /\ DeletingInv /\ AttachInv /\ PageInv /\ BatchInv

IndInv == TypeOK /\ ObjectHasRow /\ ReferencedIsLive /\ LockInv

\* The abandoned pass collects only what nothing points to: "locked while
\* deleting, the two actors cannot overlap" (_keyset_cleanup).
SweepSparesAttached ==
    \A s \in Sweepers : pc[s] = "wipe" /\ pass[s] = "abandoned" =>
        \A i \in page[s] : Unreferenced(i)

\* The signup cleanup collects temporary signup images; it leaves alone an
\* image that an account uploaded and a post shows.
SignupCleanupSparesPosts ==
    \A s \in Sweepers : pc[s] = "wipe" /\ pass[s] = "signup" =>
        \A i \in page[s] \ SignupImages : \A p \in Posts : <<p, i>> \notin refs

-----------------------------------------------------------------------------
(* Liveness *)

\* A request under way goes on to its commit or its rollback (server and
\* database timeouts); the grace period passes; the scheduler keeps starting
\* the sweep, and a run goes on until it ends or dies.  Crashes and transient
\* storage errors are finitely many (MaxFaults); poisoned images never heal.
UploadProceeds(i) ==
    \/ LockReservedImage(i) \/ PromotePendingObject(i)
    \/ ConfirmReservedImage(i) \/ UploadAborts(i)

SweepProceeds(s) ==
    \/ FetchSnapshot(s) \/ FetchLocks(s) \/ BatchCommits(s)
    \/ \E i \in Images : StorageDeletes(s, i) \/ StorageDeleteFails(s, i)

Fairness ==
    /\ \A i \in Images :
          /\ WF_vars(UploadProceeds(i))
          /\ WF_vars(SoftDeleteCommits(i) \/ SoftDeleteAborts(i))
          /\ WF_vars(GraceEnds(i))
    /\ \A s \in Sweepers :
          /\ SF_vars(StartCleanup(s, "abandoned"))
          /\ WF_vars(SweepProceeds(s))

FairSpec == Spec /\ Fairness

\* A marked row, deleted by its owner or left by a failed upload, ends up
\* confirmed or collected: a crash of the job, skipped locked rows and an
\* image in front that storage refuses to delete only delay it.
MarkedIsCollected ==
    \A i \in Images \ Poison : st[i] = "marked" ~> st[i] \in {"live", "gone"}

=============================================================================
