------------------------ MODULE MediaLifecycleProofs ------------------------
(***************************************************************************)
(* Proofs about MediaLifecycle, for any set of images, users, requests and *)
(* cleanup runs.  IndInv is inductive; the invariants and the refinement   *)
(* of ImageContract follow from it.                                        *)
(***************************************************************************)
EXTENDS MediaLifecycle, TLAPS

(* Leaves are tried with Zenon, those with arithmetic then with SMT.       *)
USE ZenonT(4), SMTT(30), SMTT(40), ZenonT(60)

USE ImagesAssumption, SubsetAssumption, BoundsAssumption, NullAssumption

\* The initial state satisfies the inductive invariant.
LEMMA InitIndInv == Init => IndInv
<1> SUFFICES ASSUME Init PROVE IndInv OBVIOUS
<1>1. TypeOK BY DEF Init, TypeOK
<1>2. ObjectHasRow BY DEF Init, ObjectHasRow
<1>3. ReferencedIsLive BY DEF Init, ReferencedIsLive
<1>4. LockInv
  BY DEF Init, LockInv, BirthInv, UploadInv, DeletingInv, AttachInv, PageInv, BatchInv,
         Uploading, ExclusivelyLocked
<1> QED BY <1>1, <1>2, <1>3, <1>4 DEF IndInv

\* Every step preserves the type invariant.
LEMMA TypeStep == TypeOK /\ [Next]_vars => TypeOK'
<1> SUFFICES ASSUME TypeOK, [Next]_vars PROVE TypeOK' OBVIOUS
<1> USE DEF TypeOK, uploadVars, requestVars, sweepVars, rowVars, Holders
<1>1. CASE UNCHANGED vars BY <1>1 DEF vars
<1>2. ASSUME NEW i \in Images, UploadNext(i) PROVE TypeOK'
  <2>1. CASE CreateReservedImage(i) BY <2>1 DEF CreateReservedImage
  <2>2. CASE LockReservedImage(i) BY <2>2 DEF LockReservedImage
  <2>3. CASE PromotePendingObject(i) BY <2>3 DEF PromotePendingObject
  <2>4. CASE ConfirmReservedImage(i) BY <2>4 DEF ConfirmReservedImage
  <2>5. CASE UploadAborts(i) BY <2>5 DEF UploadAborts, Uploading
  <2> QED BY <1>2, <2>1, <2>2, <2>3, <2>4, <2>5 DEF UploadNext
<1>3. ASSUME NEW i \in Images, SoftDeleteNext(i) PROVE TypeOK'
  <2>1. CASE SoftDeleteMarks(i) BY <2>1 DEF SoftDeleteMarks
  <2>2. CASE SoftDeleteCommits(i) BY <2>2 DEF SoftDeleteCommits, WithoutImages
  <2>3. CASE SoftDeleteAborts(i) BY <2>3 DEF SoftDeleteAborts
  <2> QED BY <1>3, <2>1, <2>2, <2>3 DEF SoftDeleteNext
<1>4. ASSUME NEW i \in Images, TimeNext(i) PROVE TypeOK'
  <2>1. CASE RowAges(i) BY <2>1 DEF RowAges
  <2>2. CASE GraceEnds(i) BY <2>2 DEF GraceEnds
  <2>3. CASE TokenExpires(i) BY <2>3 DEF TokenExpires
  <2> QED BY <1>4, <2>1, <2>2, <2>3 DEF TimeNext
<1>5. ASSUME NEW a \in Attachers, AttachNext(a) PROVE TypeOK'
  <2>1. ASSUME NEW i \in Images, AssertImagesAttachable(a, i) PROVE TypeOK'
    BY <2>1 DEF AssertImagesAttachable
  <2>2. ASSUME NEW h \in Holders, AttachCommits(a, h) PROVE TypeOK'
    BY <2>2 DEF AttachCommits, WithoutHolder
  <2>3. CASE AttachAborts(a) BY <2>3 DEF AttachAborts
  <2> QED BY <1>5, <2>1, <2>2, <2>3 DEF AttachNext
<1>6. ASSUME NEW h \in Holders, ReleaseReferences(h) PROVE TypeOK'
  BY <1>6 DEF ReleaseReferences, WithoutHolder
<1>7. ASSUME NEW u \in Users, AccountNext(u) PROVE TypeOK'
  <2>1. CASE SignupPlain(u) BY <2>1 DEF SignupPlain
  <2>2. CASE SignupClaims(u)
    <3>1. claim[u] \in Images BY <2>2 DEF SignupClaims
    <3>2. /\ owner' = [owner EXCEPT ![claim[u]] = u]
          /\ refs' = refs \cup {<<u, claim[u]>>}
          /\ token' = token \ {claim[u]}
      BY <2>2 DEF SignupClaims
    <3>3. owner' \in [Images -> Users \cup {NoUser}] BY <3>1, <3>2
    <3>4. <<u, claim[u]>> \in Holders \X Images BY <3>1
    <3>5. refs' \subseteq Holders \X Images BY <3>2, <3>4
    <3>6. token' \subseteq Images BY <3>2
    <3> QED BY <2>2, <3>3, <3>5, <3>6 DEF SignupClaims
  <2>3. CASE SignupRejected(u) BY <2>3 DEF SignupRejected
  <2>4. CASE DeleteUser(u) BY <2>4 DEF DeleteUser, WithoutHolder
  <2>5. CASE PurgeUser(u) BY <2>5 DEF PurgeUser
  <2>6. ASSUME NEW i \in Images, VerifyUploadToken(u, i) PROVE TypeOK'
    BY <2>6 DEF VerifyUploadToken
  <2> QED BY <1>7, <2>1, <2>2, <2>3, <2>4, <2>5, <2>6 DEF AccountNext
<1>8. ASSUME NEW s \in Sweepers, SweepNext(s) PROVE TypeOK'
  <2>1. ASSUME NEW q \in {"abandoned", "signup"}, StartCleanup(s, q) PROVE TypeOK'
    BY <2>1 DEF StartCleanup
  <2>2. CASE FetchSnapshot(s) BY <2>2 DEF FetchSnapshot
  <2>3. CASE FetchLocks(s)
    <3> DEFINE rows == FirstN(Lockable(s))
    <3>1. rows \subseteq Images BY DEF FirstN, Lockable
    <3>2. CASE /\ rows = {}
               /\ PassEnds(s)
               /\ page' = [page EXCEPT ![s] = {}]
               /\ UNCHANGED rest
      BY <2>3, <3>2 DEF FetchLocks, PassEnds
    <3>3. CASE /\ \E last \in rows : cursor' = [cursor EXCEPT ![s] = last]
               /\ pc' = [pc EXCEPT ![s] = "wipe"]
               /\ page' = [page EXCEPT ![s] = rows]
               /\ rest' = [rest EXCEPT ![s] = rows]
               /\ UNCHANGED pass
      <4> HIDE DEF rows
      <4>1. PICK last \in Images : cursor' = [cursor EXCEPT ![s] = last]
        BY <3>1, <3>3
      <4> QED BY <2>3, <3>1, <3>3, <4>1 DEF FetchLocks
    <3> QED BY <2>3, <3>2, <3>3 DEF FetchLocks
  <2>4. CASE BatchCommits(s)
    <3>1. st' \in [Images -> {"unborn", "marked", "live", "gone"}]
      BY <2>4 DEF BatchCommits
    <3>2. refs' \subseteq Holders \X Images BY <2>4 DEF BatchCommits, WithoutImages
    <3>3. /\ pc' \in [Sweepers -> {"idle", "fetch", "scan", "wipe"}]
          /\ pass' \in [Sweepers -> {"abandoned", "reclaim", "signup"}]
          /\ cursor' \in [Sweepers -> Images \cup {0}]
      <4>1. CASE PassEnds(s) BY <4>1 DEF PassEnds
      <4>2. CASE pc' = [pc EXCEPT ![s] = "fetch"] /\ UNCHANGED <<pass, cursor>> BY <4>2
      <4> QED BY <2>4, <4>1, <4>2 DEF BatchCommits
    <3>4. page' \in [Sweepers -> SUBSET Images] /\ wiped' \in [Sweepers -> SUBSET Images]
      BY <2>4 DEF BatchCommits
    <3> QED BY <2>4, <3>1, <3>2, <3>3, <3>4 DEF BatchCommits
  <2>5. CASE CleanupAborts(s) BY <2>5 DEF CleanupAborts
  <2>6. ASSUME NEW i \in Images, StorageDeletes(s, i) PROVE TypeOK'
    BY <2>6 DEF StorageDeletes
  <2>7. ASSUME NEW i \in Images, StorageDeleteFails(s, i) PROVE TypeOK'
    <3>1. object' \subseteq Images /\ faults' \in 0..MaxFaults
      <4>1. CASE UNCHANGED <<object, faults>> BY <4>1
      <4>2. CASE /\ faults < MaxFaults
                 /\ faults' = faults + 1
                 /\ object' \in {object, object \ {i}}
        BY <4>2
      <4> QED BY <2>7, <4>1, <4>2 DEF StorageDeleteFails
    <3> QED BY <2>7, <3>1 DEF StorageDeleteFails
  <2> QED BY <1>8, <2>1, <2>2, <2>3, <2>4, <2>5, <2>6, <2>7 DEF SweepNext
<1> QED BY <1>1, <1>2, <1>3, <1>4, <1>5, <1>6, <1>7, <1>8 DEF Next

\* The types of the variables that the invariant reads.
CoreTypes ==
    /\ st \in [Images -> {"unborn", "marked", "live", "gone"}]
    /\ up \in [Images -> {"none", "reserved", "locked", "promoted", "ended"}]
    /\ object \subseteq Images /\ deleting \subseteq Images
    /\ refs \subseteq Holders \X Images
    /\ att \in [Attachers -> Images \cup {NoImage}]
    /\ claim \in [Users -> Images \cup {NoImage}]
    /\ pc \in [Sweepers -> {"idle", "fetch", "scan", "wipe"}]
    /\ page \in [Sweepers -> SUBSET Images]
    /\ rest \in [Sweepers -> SUBSET Images]
    /\ wiped \in [Sweepers -> SUBSET Images]

\* What the proofs of the single actions take from the invariant.
LEMMA IndInvParts ==
  ASSUME IndInv
  PROVE  /\ CoreTypes /\ ObjectHasRow /\ ReferencedIsLive /\ BirthInv /\ UploadInv
         /\ DeletingInv /\ AttachInv /\ PageInv /\ BatchInv
BY DEF IndInv, LockInv, TypeOK, CoreTypes

\* How they are put together again.
LEMMA IndInvWhole ==
  ASSUME TypeOK', ObjectHasRow', ReferencedIsLive', BirthInv', UploadInv',
         DeletingInv', AttachInv', PageInv', BatchInv'
  PROVE  IndInv'
BY DEF IndInv, LockInv

\* Steps that leave rows, objects and locks alone, and at most drop
\* references, preserve the invariant.
LEMMA FrameStep ==
  ASSUME IndInv, TypeOK', refs' \subseteq refs,
         UNCHANGED <<st, object, up, deleting, att, pc, page, rest, wiped>>
  PROVE  IndInv'
<1> USE DEF IndInv, LockInv, Uploading
<1>1. ObjectHasRow' /\ ReferencedIsLive' /\ BirthInv' /\ UploadInv' /\ DeletingInv'
  BY DEF ObjectHasRow, ReferencedIsLive, BirthInv, UploadInv, DeletingInv
<1>2. AttachInv' /\ PageInv' /\ BatchInv'
  BY DEF AttachInv, ExclusivelyLocked, PageInv, BatchInv
<1> QED BY <1>1, <1>2

\* Reserving touches an unborn row, which nothing refers to or locks.
LEMMA CreateReservedImageStep ==
  ASSUME IndInv, TypeOK', NEW i \in Images, CreateReservedImage(i)
  PROVE  IndInv'
<1> USE IndInvParts DEF CoreTypes, Uploading, Holders, uploadVars, requestVars,
           sweepVars, rowVars, CreateReservedImage
<1>1. BatchInv'
  BY DEF BatchInv
<1>2. ObjectHasRow' BY DEF ObjectHasRow
<1>3. ReferencedIsLive' BY DEF ReferencedIsLive, BirthInv
<1>4. BirthInv' BY DEF BirthInv
<1>5. UploadInv' BY DEF UploadInv
<1>6. DeletingInv' BY DEF DeletingInv, BirthInv
<1>7. AttachInv' BY DEF AttachInv, BirthInv, ExclusivelyLocked
<1>8. PageInv' BY DEF PageInv
<1> HIDE IndInvParts
<1> QED BY <1>1, <1>2, <1>3, <1>4, <1>5, <1>6, <1>7, <1>8, IndInvWhole

\* The FOR UPDATE of a confirm excludes every other holder of the row.
LEMMA LockReservedImageStep ==
  ASSUME IndInv, TypeOK', NEW i \in Images, LockReservedImage(i)
  PROVE  IndInv'
<1> USE IndInvParts DEF CoreTypes, Uploading, Holders, uploadVars, requestVars,
           sweepVars, rowVars, LockReservedImage
<1>1. ObjectHasRow' /\ ReferencedIsLive' /\ BatchInv'
  BY DEF ObjectHasRow, ReferencedIsLive, BatchInv
<1>2. BirthInv' BY DEF BirthInv
<1>3. UploadInv' BY DEF UploadInv
<1>4. DeletingInv' BY DEF DeletingInv, RowLocked, ExclusivelyLocked
<1>5. AttachInv' BY DEF AttachInv, RowLocked, ShareLocked, ExclusivelyLocked
<1>6. PageInv' BY DEF PageInv, RowLocked, ExclusivelyLocked
<1> HIDE IndInvParts
<1> QED BY <1>1, <1>2, <1>3, <1>4, <1>5, <1>6, IndInvWhole

\* The copy is made under the lock of a marked row, which no page holds.
LEMMA PromotePendingObjectStep ==
  ASSUME IndInv, TypeOK', NEW i \in Images, PromotePendingObject(i)
  PROVE  IndInv'
<1> USE IndInvParts DEF CoreTypes, Uploading, Holders, uploadVars, requestVars,
           sweepVars, rowVars, PromotePendingObject
<1>1. ReferencedIsLive'
  BY DEF ReferencedIsLive
<1>2. ObjectHasRow' BY DEF ObjectHasRow, UploadInv
<1>3. BirthInv' BY DEF BirthInv
<1>4. UploadInv' BY DEF UploadInv
<1>5. DeletingInv' BY DEF DeletingInv
<1>6. AttachInv' BY DEF AttachInv, ExclusivelyLocked
<1>7. PageInv' BY DEF PageInv
<1>8. BatchInv' BY DEF BatchInv, PageInv
<1> HIDE IndInvParts
<1> QED BY <1>1, <1>2, <1>3, <1>4, <1>5, <1>6, <1>7, <1>8, IndInvWhole

\* The confirm publishes a row that it holds and whose object exists.
LEMMA ConfirmReservedImageStep ==
  ASSUME IndInv, TypeOK', NEW i \in Images, ConfirmReservedImage(i)
  PROVE  IndInv'
<1> USE IndInvParts DEF CoreTypes, Uploading, Holders, uploadVars, requestVars,
           sweepVars, rowVars, ConfirmReservedImage
<1>1. BatchInv'
  BY DEF BatchInv
<1>2. ObjectHasRow' BY DEF ObjectHasRow
<1>3. ReferencedIsLive' BY DEF ReferencedIsLive
<1>4. BirthInv' BY DEF BirthInv
<1>5. UploadInv' BY DEF UploadInv
<1>6. DeletingInv' BY DEF DeletingInv
<1>7. AttachInv' BY DEF AttachInv, ExclusivelyLocked
<1>8. PageInv' BY DEF PageInv
<1> HIDE IndInvParts
<1> QED BY <1>1, <1>2, <1>3, <1>4, <1>5, <1>6, <1>7, <1>8, IndInvWhole

\* A rolled back confirm leaves at most an object under the marked row.
LEMMA UploadAbortsStep ==
  ASSUME IndInv, TypeOK', NEW i \in Images, UploadAborts(i)
  PROVE  IndInv'
<1> USE IndInvParts DEF CoreTypes, Uploading, Holders, uploadVars, requestVars,
           sweepVars, rowVars, UploadAborts
<1>1. ReferencedIsLive'
  BY DEF ReferencedIsLive
<1>2. ObjectHasRow' BY DEF ObjectHasRow, UploadInv
<1>3. BirthInv' BY DEF BirthInv
<1>4. UploadInv' BY DEF UploadInv
<1>5. DeletingInv' BY DEF DeletingInv
<1>6. AttachInv' BY DEF AttachInv, ExclusivelyLocked
<1>7. PageInv' BY DEF PageInv
<1>8. BatchInv' BY DEF BatchInv, PageInv
<1> HIDE IndInvParts
<1> QED BY <1>1, <1>2, <1>3, <1>4, <1>5, <1>6, <1>7, <1>8, IndInvWhole

\* The soft delete takes a row nobody else holds.
LEMMA SoftDeleteMarksStep ==
  ASSUME IndInv, TypeOK', NEW i \in Images, SoftDeleteMarks(i)
  PROVE  IndInv'
<1> USE IndInvParts DEF CoreTypes, Uploading, Holders, uploadVars, requestVars,
           sweepVars, rowVars, SoftDeleteMarks
<1>1. /\ ObjectHasRow' /\ ReferencedIsLive' /\ BirthInv' /\ UploadInv'
      /\ BatchInv'
  BY DEF ObjectHasRow, ReferencedIsLive, BirthInv, UploadInv, BatchInv
<1>2. DeletingInv' BY DEF DeletingInv, RowLocked, ExclusivelyLocked
<1>3. AttachInv' BY DEF AttachInv, RowLocked, ShareLocked, ExclusivelyLocked
<1>4. PageInv' BY DEF PageInv, RowLocked, ExclusivelyLocked
<1> HIDE IndInvParts
<1> QED BY <1>1, <1>2, <1>3, <1>4, IndInvWhole

\* Its commit marks the row and detaches it; no attaching request holds it.
LEMMA SoftDeleteCommitsStep ==
  ASSUME IndInv, TypeOK', NEW i \in Images, SoftDeleteCommits(i)
  PROVE  IndInv'
<1> USE IndInvParts DEF CoreTypes, Uploading, Holders, uploadVars, requestVars,
           sweepVars, rowVars, SoftDeleteCommits
<1>1. BatchInv'
  BY DEF BatchInv
<1>2. ObjectHasRow' BY DEF ObjectHasRow
<1>3. ReferencedIsLive' BY DEF ReferencedIsLive, WithoutImages
<1>4. BirthInv' BY DEF BirthInv, DeletingInv
<1>5. UploadInv' BY DEF UploadInv
<1>6. DeletingInv' BY DEF DeletingInv
<1>7. AttachInv' BY DEF AttachInv, ExclusivelyLocked
<1>8. PageInv' BY DEF PageInv
<1> HIDE IndInvParts
<1> QED BY <1>1, <1>2, <1>3, <1>4, <1>5, <1>6, <1>7, <1>8, IndInvWhole

\* Its rollback only gives the lock back.
LEMMA SoftDeleteAbortsStep ==
  ASSUME IndInv, TypeOK', NEW i \in Images, SoftDeleteAborts(i)
  PROVE  IndInv'
<1> USE IndInvParts DEF CoreTypes, Uploading, Holders, uploadVars, requestVars,
           sweepVars, rowVars, SoftDeleteAborts
<1>1. /\ ObjectHasRow' /\ ReferencedIsLive' /\ BirthInv' /\ UploadInv'
      /\ BatchInv'
  BY DEF ObjectHasRow, ReferencedIsLive, BirthInv, UploadInv, BatchInv
<1>2. DeletingInv' BY DEF DeletingInv
<1>3. AttachInv' BY DEF AttachInv, ExclusivelyLocked
<1>4. PageInv' BY DEF PageInv
<1> HIDE IndInvParts
<1> QED BY <1>1, <1>2, <1>3, <1>4, IndInvWhole

\* FOR SHARE of a live row that nobody holds exclusively.
LEMMA AssertImagesAttachableStep ==
  ASSUME IndInv, TypeOK', NEW a \in Attachers, NEW i \in Images, AssertImagesAttachable(a, i)
  PROVE  IndInv'
<1> USE IndInvParts DEF CoreTypes, Uploading, Holders, uploadVars, requestVars,
           sweepVars, rowVars, AssertImagesAttachable
<1>1. /\ ObjectHasRow' /\ ReferencedIsLive' /\ BirthInv' /\ UploadInv'
      /\ DeletingInv' /\ PageInv' /\ BatchInv'
  BY DEF ObjectHasRow, ReferencedIsLive, BirthInv, UploadInv, DeletingInv, PageInv,
         BatchInv
<1>2. AttachInv' BY DEF AttachInv, ExclusivelyLocked
<1> HIDE IndInvParts
<1> QED BY <1>1, <1>2, IndInvWhole

\* The reference is written to a row that the share lock kept live.
LEMMA AttachCommitsStep ==
  ASSUME IndInv, TypeOK', NEW a \in Attachers, NEW h \in Holders, AttachCommits(a, h)
  PROVE  IndInv'
<1> USE IndInvParts DEF CoreTypes, Uploading, Holders, uploadVars, requestVars,
           sweepVars, rowVars, AttachCommits
<1>1. /\ ObjectHasRow' /\ BirthInv' /\ UploadInv' /\ DeletingInv'
      /\ PageInv' /\ BatchInv'
  BY DEF ObjectHasRow, BirthInv, UploadInv, DeletingInv, PageInv, BatchInv
<1>2. ReferencedIsLive' BY DEF ReferencedIsLive, AttachInv, WithoutHolder
<1>3. AttachInv' BY DEF AttachInv, ExclusivelyLocked
<1> HIDE IndInvParts
<1> QED BY <1>1, <1>2, <1>3, IndInvWhole

\* A rejected attachment only gives the lock back.
LEMMA AttachAbortsStep ==
  ASSUME IndInv, TypeOK', NEW a \in Attachers, AttachAborts(a)
  PROVE  IndInv'
<1> USE IndInvParts DEF CoreTypes, Uploading, Holders, uploadVars, requestVars,
           sweepVars, rowVars, AttachAborts
<1>1. /\ ObjectHasRow' /\ ReferencedIsLive' /\ BirthInv' /\ UploadInv'
      /\ DeletingInv' /\ PageInv' /\ BatchInv'
  BY DEF ObjectHasRow, ReferencedIsLive, BirthInv, UploadInv, DeletingInv, PageInv,
         BatchInv
<1>2. AttachInv' BY DEF AttachInv, ExclusivelyLocked
<1> HIDE IndInvParts
<1> QED BY <1>1, <1>2, IndInvWhole

\* A signup refers to the live row that it claims.
LEMMA SignupClaimsStep ==
  ASSUME IndInv, TypeOK', NEW u \in Users, SignupClaims(u)
  PROVE  IndInv'
<1> USE IndInvParts DEF CoreTypes, Uploading, Holders, uploadVars, requestVars,
           sweepVars, rowVars, SignupClaims
<1>1. /\ ObjectHasRow' /\ BirthInv' /\ UploadInv' /\ DeletingInv'
      /\ AttachInv' /\ PageInv' /\ BatchInv'
  BY DEF ObjectHasRow, BirthInv, UploadInv, DeletingInv, AttachInv, PageInv, BatchInv,
         ExclusivelyLocked
<1>2. ReferencedIsLive' BY DEF ReferencedIsLive
<1> HIDE IndInvParts
<1> QED BY <1>1, <1>2, IndInvWhole

\* A run that starts holds nothing.
LEMMA StartCleanupStep ==
  ASSUME IndInv, TypeOK', NEW s \in Sweepers, NEW q \in {"abandoned", "signup"}, StartCleanup(s, q)
  PROVE  IndInv'
<1> USE IndInvParts DEF CoreTypes, Uploading, Holders, uploadVars, requestVars,
           sweepVars, rowVars, StartCleanup
<1>1. /\ ObjectHasRow' /\ ReferencedIsLive' /\ BirthInv' /\ UploadInv'
      /\ DeletingInv'
  BY DEF ObjectHasRow, ReferencedIsLive, BirthInv, UploadInv, DeletingInv
<1>2. AttachInv' BY DEF AttachInv, ExclusivelyLocked
<1>3. PageInv' BY DEF PageInv
<1>4. BatchInv' BY DEF BatchInv
<1> HIDE IndInvParts
<1> QED BY <1>1, <1>2, <1>3, <1>4, IndInvWhole

\* The rows of a snapshot are not locked yet.
LEMMA FetchSnapshotStep ==
  ASSUME IndInv, TypeOK', NEW s \in Sweepers, FetchSnapshot(s)
  PROVE  IndInv'
<1> USE IndInvParts DEF CoreTypes, Uploading, Holders, uploadVars, requestVars,
           sweepVars, rowVars, FetchSnapshot
<1>1. /\ ObjectHasRow' /\ ReferencedIsLive' /\ BirthInv' /\ UploadInv'
      /\ DeletingInv'
  BY DEF ObjectHasRow, ReferencedIsLive, BirthInv, UploadInv, DeletingInv
<1>2. AttachInv' BY DEF AttachInv, ExclusivelyLocked
<1>3. PageInv' BY DEF PageInv
<1>4. BatchInv' BY DEF BatchInv
<1> HIDE IndInvParts
<1> QED BY <1>1, <1>2, <1>3, <1>4, IndInvWhole

\* SKIP LOCKED: the rows of the new page are rows that nobody holds.
LEMMA FetchLocksStep ==
  ASSUME IndInv, TypeOK', NEW s \in Sweepers, FetchLocks(s)
  PROVE  IndInv'
<1> USE IndInvParts DEF CoreTypes, Uploading, uploadVars, requestVars, rowVars
<1> DEFINE rows == FirstN(Lockable(s))
<1>1. \A i \in rows :
         i \in Images /\ ~RowLocked(i) /\ st[i] \in {"marked", "live"}
  BY DEF FirstN, Lockable, RowSelected
<1>2. /\ \/ /\ pc'[s] # "wipe" /\ page' = [page EXCEPT ![s] = {}]
            /\ UNCHANGED rest
         \/ /\ pc'[s] = "wipe" /\ page' = [page EXCEPT ![s] = rows]
            /\ rest' = [rest EXCEPT ![s] = rows]
      /\ \A t \in Sweepers \ {s} : pc'[t] = pc[t]
  <2> HIDE DEF rows
  <2>1. \/ /\ PassEnds(s) /\ page' = [page EXCEPT ![s] = {}] /\ UNCHANGED rest
        \/ /\ pc' = [pc EXCEPT ![s] = "wipe"] /\ page' = [page EXCEPT ![s] = rows]
           /\ rest' = [rest EXCEPT ![s] = rows]
    BY DEF FetchLocks, rows
  <2> QED BY <2>1 DEF PassEnds
<1>3. /\ pc[s] = "scan"
      /\ UNCHANGED <<rowVars, object, refs, up, deleting, att, wiped>>
  BY DEF FetchLocks
<1> HIDE DEF rows
<1>4. ObjectHasRow' /\ ReferencedIsLive' /\ BirthInv' /\ UploadInv' /\ DeletingInv'
  BY <1>3 DEF ObjectHasRow, ReferencedIsLive, Holders, BirthInv, UploadInv, DeletingInv
<1>5. AttachInv' BY <1>1, <1>2, <1>3 DEF AttachInv, RowLocked, ShareLocked, ExclusivelyLocked
<1>6. PageInv' BY <1>1, <1>2, <1>3 DEF PageInv, RowLocked, ExclusivelyLocked
<1>7. BatchInv' BY <1>2, <1>3 DEF BatchInv
<1> HIDE IndInvParts
<1> QED BY <1>4, <1>5, <1>6, <1>7, IndInvWhole

\* A storage delete is made for a row of the page, which no confirm holds.
LEMMA StorageDeletesStep ==
  ASSUME IndInv, TypeOK', NEW s \in Sweepers, NEW i \in Images, StorageDeletes(s, i)
  PROVE  IndInv'
<1> USE IndInvParts DEF CoreTypes, Uploading, Holders, uploadVars, requestVars,
           sweepVars, rowVars, StorageDeletes
<1>1. /\ ReferencedIsLive' /\ BirthInv' /\ DeletingInv' /\ AttachInv'
      /\ PageInv'
  BY DEF ReferencedIsLive, BirthInv, DeletingInv, AttachInv, PageInv, ExclusivelyLocked
<1>2. ObjectHasRow' BY DEF ObjectHasRow
<1>3. UploadInv' BY DEF UploadInv, PageInv, BatchInv, IsNext
<1>4. BatchInv' BY DEF BatchInv, IsNext
<1> HIDE IndInvParts
<1> QED BY <1>1, <1>2, <1>3, <1>4, IndInvWhole

\* So is one that fails.
LEMMA StorageDeleteFailsStep ==
  ASSUME IndInv, TypeOK', NEW s \in Sweepers, NEW i \in Images, StorageDeleteFails(s, i)
  PROVE  IndInv'
<1> USE IndInvParts DEF CoreTypes, Uploading, Holders, uploadVars, requestVars,
           sweepVars, rowVars, StorageDeleteFails
<1>1. /\ ReferencedIsLive' /\ BirthInv' /\ DeletingInv' /\ AttachInv'
      /\ PageInv'
  BY DEF ReferencedIsLive, BirthInv, DeletingInv, AttachInv, PageInv, ExclusivelyLocked
<1>2. ObjectHasRow' BY DEF ObjectHasRow
<1>3. UploadInv' BY DEF UploadInv, PageInv, BatchInv, IsNext
<1>4. BatchInv' BY DEF BatchInv, IsNext
<1> HIDE IndInvParts
<1> QED BY <1>1, <1>2, <1>3, <1>4, IndInvWhole

\* The rows that go are held by this run alone and their objects are gone.
LEMMA BatchCommitsStep ==
  ASSUME IndInv, TypeOK', NEW s \in Sweepers, BatchCommits(s)
  PROVE  IndInv'
<1> USE IndInvParts DEF CoreTypes, Uploading, Holders, uploadVars, requestVars,
           sweepVars, rowVars, BatchCommits
<1>1. ObjectHasRow' BY DEF ObjectHasRow, BatchInv
<1>2. ReferencedIsLive' BY DEF ReferencedIsLive, WithoutImages
<1>3. BirthInv' BY DEF BirthInv, PageInv, BatchInv
<1>4. UploadInv' BY DEF UploadInv, PageInv, BatchInv
<1>5. DeletingInv' BY DEF DeletingInv, PageInv, BatchInv
<1>6. AttachInv' BY DEF AttachInv, BatchInv, ExclusivelyLocked, PassEnds
<1>7. PageInv' BY DEF PageInv, BatchInv, PassEnds
<1>8. BatchInv' BY DEF BatchInv, PassEnds
<1> HIDE IndInvParts
<1> QED BY <1>1, <1>2, <1>3, <1>4, <1>5, <1>6, <1>7, <1>8, IndInvWhole

\* A dead run gives its locks back.
LEMMA CleanupAbortsStep ==
  ASSUME IndInv, TypeOK', NEW s \in Sweepers, CleanupAborts(s)
  PROVE  IndInv'
<1> USE IndInvParts DEF CoreTypes, Uploading, Holders, uploadVars, requestVars,
           sweepVars, rowVars, CleanupAborts
<1>1. /\ ObjectHasRow' /\ ReferencedIsLive' /\ BirthInv' /\ UploadInv'
      /\ DeletingInv'
  BY DEF ObjectHasRow, ReferencedIsLive, BirthInv, UploadInv, DeletingInv
<1>2. AttachInv' BY DEF AttachInv, ExclusivelyLocked
<1>3. PageInv' BY DEF PageInv
<1>4. BatchInv' BY DEF BatchInv
<1> HIDE IndInvParts
<1> QED BY <1>1, <1>2, <1>3, <1>4, IndInvWhole

\* Every step preserves the inductive invariant.
LEMMA StepIndInv == IndInv /\ [Next]_vars => IndInv'
<1> SUFFICES ASSUME IndInv, [Next]_vars PROVE IndInv' OBVIOUS
<1>0. TypeOK' BY TypeStep DEF IndInv
<1>1. CASE UNCHANGED vars BY <1>0, <1>1, FrameStep DEF vars
<1>2. ASSUME NEW i \in Images, UploadNext(i) PROVE IndInv'
  BY <1>0, <1>2, CreateReservedImageStep, LockReservedImageStep,
     PromotePendingObjectStep, ConfirmReservedImageStep, UploadAbortsStep DEF UploadNext
<1>3. ASSUME NEW i \in Images, SoftDeleteNext(i) PROVE IndInv'
  BY <1>0, <1>3, SoftDeleteMarksStep, SoftDeleteCommitsStep, SoftDeleteAbortsStep
     DEF SoftDeleteNext
<1>4. ASSUME NEW i \in Images, TimeNext(i) PROVE IndInv'
  <2>1. UNCHANGED <<st, object, refs, up, deleting, att, pc, page, rest, wiped>>
    BY <1>4 DEF TimeNext, RowAges, GraceEnds, TokenExpires, rowVars, uploadVars,
                requestVars, sweepVars
  <2> QED BY <1>0, <2>1, FrameStep
<1>5. ASSUME NEW a \in Attachers, AttachNext(a) PROVE IndInv'
  BY <1>0, <1>5, AssertImagesAttachableStep, AttachCommitsStep, AttachAbortsStep
     DEF AttachNext
<1>6. ASSUME NEW h \in Holders, ReleaseReferences(h) PROVE IndInv'
  BY <1>0, <1>6, FrameStep DEF ReleaseReferences, WithoutHolder, rowVars, uploadVars,
                               requestVars, sweepVars
<1>7. ASSUME NEW u \in Users, AccountNext(u) PROVE IndInv'
  <2>1. CASE SignupClaims(u) BY <1>0, <2>1, SignupClaimsStep
  <2>2. CASE ~SignupClaims(u)
    <3>1. /\ refs' \subseteq refs
          /\ UNCHANGED <<st, object, up, deleting, att, pc, page, rest, wiped>>
      BY <1>7, <2>2 DEF AccountNext, SignupPlain, SignupRejected, DeleteUser, PurgeUser,
         VerifyUploadToken, WithoutHolder, rowVars, uploadVars, requestVars, sweepVars
    <3> QED BY <1>0, <3>1, FrameStep
  <2> QED BY <2>1, <2>2
<1>8. ASSUME NEW s \in Sweepers, SweepNext(s) PROVE IndInv'
  BY <1>0, <1>8, StartCleanupStep, FetchSnapshotStep, FetchLocksStep, BatchCommitsStep,
     CleanupAbortsStep, StorageDeletesStep, StorageDeleteFailsStep DEF SweepNext
<1> QED BY <1>1, <1>2, <1>3, <1>4, <1>5, <1>6, <1>7, <1>8 DEF Next

\* The inductive invariant, with it the types and the exclusion that row
\* locks give confirms, soft deletes, attachments and cleanup pages, holds in
\* every reachable state.
THEOREM LockingIsSound == Spec => []IndInv
<1>1. Init => IndInv BY InitIndInv
<1>2. IndInv /\ [Next]_vars => IndInv' BY StepIndInv
<1> QED BY <1>1, <1>2, PTL DEF Spec

\* No stored object is ever without a row (_reserved_upload reserves before
\* the copy, _keyset_cleanup deletes the object before the row).
THEOREM ObjectsHaveRows == Spec => []ObjectHasRow
<1>1. IndInv => ObjectHasRow BY DEF IndInv
<1> QED BY <1>1, LockingIsSound, PTL

\* No profile or post ever points to an image marked for collection or gone
\* (assert_images_attachable against soft_delete_image_if_owned).
THEOREM ReferencesAreLive == Spec => []ReferencedIsLive
<1>1. IndInv => ReferencedIsLive BY DEF IndInv
<1> QED BY <1>1, LockingIsSound, PTL

\* Each step on rows and objects is a step of the contract or leaves both.
LEMMA ContractStep ==
  IndInv /\ [Next]_vars => [Contract!ContractNext]_(Contract!contractVars)
<1> SUFFICES ASSUME IndInv, [Next]_vars, ~UNCHANGED <<st, object>>
             PROVE  Contract!ContractNext
  BY DEF Contract!contractVars
<1>0. /\ st \in [Images -> {"unborn", "marked", "live", "gone"}]
      /\ up \in [Images -> {"none", "reserved", "locked", "promoted", "ended"}]
      /\ object \subseteq Images /\ deleting \subseteq Images
      /\ page \in [Sweepers -> SUBSET Images]
      /\ BirthInv /\ UploadInv /\ DeletingInv /\ PageInv /\ BatchInv
  BY DEF IndInv, LockInv, TypeOK
<1>1. ASSUME NEW i \in Images, UploadNext(i) PROVE Contract!ContractNext
  <2>1. CASE CreateReservedImage(i)
    <3>1. Contract!ReserveRow(i)
      BY <1>0, <2>1 DEF CreateReservedImage, BirthInv, Contract!ReserveRow
    <3> QED BY <3>1 DEF Contract!ContractNext
  <2>2. CASE PromotePendingObject(i)
    <3>1. Contract!StoreObject(i)
      BY <1>0, <2>2 DEF PromotePendingObject, UploadInv, Uploading, rowVars,
                        Contract!StoreObject
    <3> QED BY <3>1 DEF Contract!ContractNext
  <2>3. CASE ConfirmReservedImage(i)
    <3>1. Contract!Publish(i)
      BY <1>0, <2>3 DEF ConfirmReservedImage, UploadInv, Uploading, Contract!Publish
    <3> QED BY <3>1 DEF Contract!ContractNext
  <2>4. CASE UploadAborts(i)
    <3>1. Contract!StoreObject(i)
      BY <1>0, <2>4 DEF UploadAborts, UploadInv, Uploading, rowVars, Contract!StoreObject
    <3> QED BY <3>1 DEF Contract!ContractNext
  <2>5. CASE LockReservedImage(i) BY <2>5 DEF LockReservedImage, rowVars
  <2> QED BY <1>1, <2>1, <2>2, <2>3, <2>4, <2>5 DEF UploadNext
<1>2. ASSUME NEW i \in Images, SoftDeleteNext(i) PROVE Contract!ContractNext
  <2>1. CASE SoftDeleteCommits(i)
    <3>1. Contract!Retract(i)
      BY <1>0, <2>1 DEF SoftDeleteCommits, DeletingInv, Contract!Retract
    <3> QED BY <3>1 DEF Contract!ContractNext
  <2>2. CASE SoftDeleteMarks(i) BY <2>2 DEF SoftDeleteMarks, rowVars
  <2>3. CASE SoftDeleteAborts(i) BY <2>3 DEF SoftDeleteAborts, rowVars
  <2> QED BY <1>2, <2>1, <2>2, <2>3 DEF SoftDeleteNext
<1>3. ASSUME NEW s \in Sweepers, SweepNext(s) PROVE Contract!ContractNext
  <2>1. CASE BatchCommits(s)
    <3>1. wiped[s] \subseteq page[s] /\ wiped[s] \cap object = {}
      BY <1>0 DEF BatchInv
    <3>w. pc[s] = "wipe" BY <2>1 DEF BatchCommits
    <3>2. \A i \in wiped[s] : i \in Images /\ st[i] \in {"marked", "live"} /\ i \notin object
      BY <1>0, <3>1, <3>w DEF PageInv
    <3>3. /\ st' = [i \in Images |-> IF i \in wiped[s] THEN "gone" ELSE st[i]]
          /\ UNCHANGED object
      BY <2>1 DEF BatchCommits
    <3>4. Contract!DropRows(wiped[s]) BY <3>2, <3>3 DEF Contract!DropRows
    <3>5. wiped[s] \in SUBSET Images BY <3>2
    <3> QED BY <3>4, <3>5 DEF Contract!ContractNext
  <2>2. ASSUME NEW i \in Images, StorageDeletes(s, i) \/ StorageDeleteFails(s, i)
        PROVE  Contract!ContractNext
    <3>1. pc[s] = "wipe" /\ i \in rest[s]
      BY <2>2 DEF StorageDeletes, StorageDeleteFails, IsNext
    <3>2. st[i] \in {"marked", "live"} BY <1>0, <3>1 DEF BatchInv, PageInv
    <3>3. UNCHANGED st /\ object' \in {object, object \ {i}}
      BY <2>2 DEF StorageDeletes, StorageDeleteFails, rowVars
    <3>4. Contract!EraseObject(i) BY <3>2, <3>3 DEF Contract!EraseObject
    <3> QED BY <3>4 DEF Contract!ContractNext
  <2>3. ASSUME NEW q \in {"abandoned", "signup"}, StartCleanup(s, q)
        PROVE  Contract!ContractNext
    BY <2>3 DEF StartCleanup, rowVars
  <2>4. CASE FetchSnapshot(s) BY <2>4 DEF FetchSnapshot, rowVars
  <2>5. CASE FetchLocks(s) BY <2>5 DEF FetchLocks, rowVars
  <2>6. CASE CleanupAborts(s) BY <2>6 DEF CleanupAborts, rowVars
  <2> QED BY <1>3, <2>1, <2>2, <2>3, <2>4, <2>5, <2>6 DEF SweepNext
<1>4. ASSUME NEW i \in Images, TimeNext(i) PROVE Contract!ContractNext
  BY <1>4 DEF TimeNext, RowAges, GraceEnds, TokenExpires, rowVars
<1>5. ASSUME NEW a \in Attachers, AttachNext(a) PROVE Contract!ContractNext
  BY <1>5 DEF AttachNext, AssertImagesAttachable, AttachCommits, AttachAborts, rowVars
<1>6. ASSUME NEW h \in Holders, ReleaseReferences(h) PROVE Contract!ContractNext
  BY <1>6 DEF ReleaseReferences, rowVars
<1>7. ASSUME NEW u \in Users, AccountNext(u) PROVE Contract!ContractNext
  <2>1. CASE SignupPlain(u) BY <2>1 DEF SignupPlain, rowVars
  <2>2. CASE SignupClaims(u) BY <2>2 DEF SignupClaims
  <2>3. CASE SignupRejected(u) BY <2>3 DEF SignupRejected, rowVars
  <2>4. CASE DeleteUser(u) BY <2>4 DEF DeleteUser, rowVars
  <2>5. CASE PurgeUser(u) BY <2>5 DEF PurgeUser
  <2>6. ASSUME NEW i \in Images, VerifyUploadToken(u, i) PROVE Contract!ContractNext
    BY <2>6 DEF VerifyUploadToken, rowVars
  <2> QED BY <1>7, <2>1, <2>2, <2>3, <2>4, <2>5, <2>6 DEF AccountNext
<1>8. CASE UNCHANGED vars BY <1>8 DEF vars
<1> QED BY <1>1, <1>2, <1>3, <1>4, <1>5, <1>6, <1>7, <1>8 DEF Next

\* The whole subsystem implements the image contract of ADR 0019: the object
\* is stored after its row and under a marked one, published only when
\* stored, and erased before its row goes.
THEOREM LifecycleImplementsContract == Spec => ImplementsContract
<1>1. Init => Contract!ContractInit BY DEF Init, Contract!ContractInit
<1>2. IndInv /\ [Next]_vars => [Contract!ContractNext]_(Contract!contractVars)
  BY ContractStep
<1> QED BY <1>1, <1>2, LockingIsSound, PTL
       DEF Spec, ImplementsContract, Contract!ContractSpec

-----------------------------------------------------------------------------
(***************************************************************************)
(* The two action properties of MediaLifecycle: what a collection and a    *)
(* change of uploader may not do.  Both rest on IndInv and on what a row   *)
(* lock preserves of the row's own columns while a sweeper holds it.       *)
(***************************************************************************)

\* Old enough to be collected while confirmed.
Aged(i) == age[i] = 2 \/ (owner[i] = NoUser /\ age[i] >= 1)

\* A confirmed row that a cleanup page holds was old enough when it was
\* locked, and still is.
AgedInv == \A s \in Sweepers, i \in Images :
              pc[s] = "wipe" /\ i \in page[s] /\ st[i] = "live" => Aged(i)

UnbornInv == \A i \in Images : st[i] = "unborn" => owner[i] = NoUser

HistoryInv == IndInv /\ AgedInv /\ UnbornInv

\* What a step may do to an uploader.
OwnerStep == \A i \in Images, u \in Users : owner[i] = u =>
                owner'[i] = u \/ (owner'[i] = NoUser /\ user'[u] = "purged")

\* Which confirmed rows a step may collect.
CollectStep == \A i \in Images : st[i] = "live" /\ st'[i] = "gone" => Aged(i)

History == AgedInv' /\ UnbornInv' /\ OwnerStep /\ CollectStep

\* Steps that leave the row's columns alone and hand no page to a sweeper.
LEMMA QuietStep ==
  ASSUME HistoryInv, UNCHANGED <<st, owner, age>>,
         \A s \in Sweepers : pc'[s] = "wipe" => pc[s] = "wipe" /\ page'[s] \subseteq page[s]
  PROVE  History
<1>1. TypeOK BY DEF HistoryInv, IndInv
<1>2. AgedInv' BY DEF HistoryInv, AgedInv, Aged
<1>3. UnbornInv' /\ OwnerStep BY DEF HistoryInv, UnbornInv, OwnerStep
<1>4. CollectStep BY DEF CollectStep
<1> QED BY <1>2, <1>3, <1>4 DEF History

\* Steps of the upload, of which only the confirmation publishes a row: it
\* holds the row's lock, so no page does.
LEMMA UploadHistory ==
  ASSUME HistoryInv, NEW i \in Images, UploadNext(i) PROVE History
<1>0. TypeOK /\ BirthInv /\ UploadInv /\ PageInv
  BY IndInvParts DEF HistoryInv, IndInv
<1>1. CASE CreateReservedImage(i)
  <2>0. st[i] = "unborn" /\ owner[i] = NoUser
    BY <1>0, <1>1 DEF CreateReservedImage, BirthInv, HistoryInv, UnbornInv
  <2>1. /\ \A j \in Images \ {i} : st'[j] = st[j] /\ owner'[j] = owner[j]
        /\ st'[i] = "marked" /\ UNCHANGED <<age, pc, page>>
    BY <1>0, <1>1 DEF CreateReservedImage, TypeOK, sweepVars
  <2>2. AgedInv' BY <2>1 DEF HistoryInv, AgedInv, Aged
  <2>3. UnbornInv' BY <2>1 DEF HistoryInv, UnbornInv
  <2>4. OwnerStep BY <2>0, <2>1 DEF OwnerStep
  <2>5. CollectStep BY <2>1 DEF CollectStep
  <2> QED BY <2>2, <2>3, <2>4, <2>5 DEF History
<1>2. CASE ConfirmReservedImage(i)
  <2>0. \A s \in Sweepers : pc[s] = "wipe" => i \notin page[s]
    BY <1>0, <1>2 DEF ConfirmReservedImage, PageInv, Uploading
  <2>1. /\ \A j \in Images \ {i} : st'[j] = st[j]
        /\ st'[i] = "live" /\ UNCHANGED <<owner, age, pc, page>>
    BY <1>0, <1>2 DEF ConfirmReservedImage, TypeOK, sweepVars
  <2>2. AgedInv' BY <2>0, <2>1 DEF HistoryInv, AgedInv, Aged
  <2>3. UnbornInv' /\ OwnerStep BY <2>1 DEF HistoryInv, UnbornInv, OwnerStep
  <2>4. CollectStep BY <2>1 DEF CollectStep
  <2> QED BY <2>2, <2>3, <2>4 DEF History
<1>3. CASE LockReservedImage(i) \/ PromotePendingObject(i) \/ UploadAborts(i)
  <2>1. UNCHANGED <<st, owner, age, pc, page>>
    BY <1>3 DEF LockReservedImage, PromotePendingObject, UploadAborts, rowVars, sweepVars
  <2> QED BY <2>1, QuietStep
<1> QED BY <1>1, <1>2, <1>3 DEF UploadNext

\* A soft delete marks; it neither collects nor publishes.
LEMMA SoftDeleteHistory ==
  ASSUME HistoryInv, NEW i \in Images, SoftDeleteNext(i) PROVE History
<1>0. TypeOK BY DEF HistoryInv, IndInv
<1>1. CASE SoftDeleteCommits(i)
  <2>1. /\ \A j \in Images \ {i} : st'[j] = st[j]
        /\ st'[i] = "marked" /\ UNCHANGED <<owner, age, pc, page>>
    BY <1>0, <1>1 DEF SoftDeleteCommits, TypeOK, sweepVars
  <2>2. AgedInv' BY <2>1 DEF HistoryInv, AgedInv, Aged
  <2>3. UnbornInv' /\ OwnerStep BY <2>1 DEF HistoryInv, UnbornInv, OwnerStep
  <2>4. CollectStep BY <2>1 DEF CollectStep
  <2> QED BY <2>2, <2>3, <2>4 DEF History
<1>2. CASE SoftDeleteMarks(i) \/ SoftDeleteAborts(i)
  <2>1. UNCHANGED <<st, owner, age, pc, page>>
    BY <1>2 DEF SoftDeleteMarks, SoftDeleteAborts, rowVars, sweepVars
  <2> QED BY <2>1, QuietStep
<1> QED BY <1>1, <1>2 DEF SoftDeleteNext

\* Rows only grow older.
LEMMA TimeHistory ==
  ASSUME HistoryInv, NEW i \in Images, TimeNext(i) PROVE History
<1>0. TypeOK BY DEF HistoryInv, IndInv
<1>1. CASE RowAges(i)
  <2>1. /\ \A j \in Images : age'[j] = age[j] \/ (age[j] < 2 /\ age'[j] = age[j] + 1)
        /\ UNCHANGED <<st, owner, pc, page>>
    BY <1>0, <1>1 DEF RowAges, TypeOK, sweepVars
  <2>2. \A j \in Images : Aged(j) => Aged(j)' BY <1>0, <2>1 DEF Aged, TypeOK
  <2>3. AgedInv' BY <2>1, <2>2 DEF HistoryInv, AgedInv
  <2>4. UnbornInv' /\ OwnerStep BY <2>1 DEF HistoryInv, UnbornInv, OwnerStep
  <2>5. CollectStep BY <2>1 DEF CollectStep
  <2> QED BY <2>3, <2>4, <2>5 DEF History
<1>2. CASE GraceEnds(i) \/ TokenExpires(i)
  <2>1. UNCHANGED <<st, owner, age, pc, page>>
    BY <1>2 DEF GraceEnds, TokenExpires, rowVars, sweepVars
  <2> QED BY <2>1, QuietStep
<1> QED BY <1>1, <1>2 DEF TimeNext

\* Accounts: a claim takes a row without uploader that no page holds; a
\* purge clears the uploader, which makes no row younger.
LEMMA AccountHistory ==
  ASSUME HistoryInv, NEW u \in Users, AccountNext(u) PROVE History
<1>0. TypeOK /\ UnbornInv /\ AgedInv BY DEF HistoryInv, IndInv
<1>1. CASE SignupClaims(u)
  <2> DEFINE i == claim[u]
  <2>0. i \in Images /\ owner[i] = NoUser /\ st[i] = "live"
    BY <1>0, <1>1 DEF SignupClaims, TypeOK
  <2>1. \A s \in Sweepers : pc[s] = "wipe" => i \notin page[s]
    BY <1>1 DEF SignupClaims, RowLocked, ExclusivelyLocked
  <2>2. /\ \A j \in Images \ {i} : owner'[j] = owner[j]
        /\ UNCHANGED <<st, age, pc, page>>
    BY <1>0, <1>1 DEF SignupClaims, TypeOK, sweepVars
  <2> HIDE DEF i
  <2>3. AgedInv' BY <1>0, <2>1, <2>2 DEF AgedInv, Aged
  <2>4. UnbornInv' BY <1>0, <2>0, <2>2 DEF UnbornInv
  <2>5. OwnerStep BY <2>0, <2>2 DEF OwnerStep
  <2>6. CollectStep BY <2>2 DEF CollectStep
  <2> QED BY <2>3, <2>4, <2>5, <2>6 DEF History
<1>2. CASE PurgeUser(u)
  <2>1. /\ \A j \in Images : owner'[j] = IF owner[j] = u THEN NoUser ELSE owner[j]
        /\ user'[u] = "purged" /\ UNCHANGED <<st, age, pc, page>>
    BY <1>0, <1>2 DEF PurgeUser, TypeOK, sweepVars
  <2>2. AgedInv' BY <1>0, <2>1 DEF AgedInv, Aged
  <2>3. UnbornInv' BY <1>0, <2>1 DEF UnbornInv
  <2>4. OwnerStep BY <2>1 DEF OwnerStep
  <2>5. CollectStep BY <2>1 DEF CollectStep
  <2> QED BY <2>2, <2>3, <2>4, <2>5 DEF History
<1>3. CASE \/ SignupPlain(u) \/ SignupRejected(u) \/ DeleteUser(u)
           \/ \E i \in Images : VerifyUploadToken(u, i)
  <2>1. UNCHANGED <<st, owner, age, pc, page>>
    BY <1>3 DEF SignupPlain, SignupRejected, DeleteUser, VerifyUploadToken, rowVars, sweepVars
  <2> QED BY <2>1, QuietStep
<1> QED BY <1>1, <1>2, <1>3 DEF AccountNext

\* Cleanup: a page holds the rows its query selects on their own columns at
\* the lock, so a confirmed row in it is old enough; a batch collects rows
\* of its page only.
LEMMA SweepHistory ==
  ASSUME HistoryInv, NEW s \in Sweepers, SweepNext(s) PROVE History
<1>0. TypeOK /\ UnbornInv /\ AgedInv /\ BatchInv
  BY IndInvParts DEF HistoryInv, IndInv
<1>1. CASE FetchLocks(s)
  <2> DEFINE rows == FirstN(Lockable(s))
  <2>1. UNCHANGED <<st, owner, age>>
    BY <1>1 DEF FetchLocks, rowVars
  <2>2. \A i \in rows : i \in Images /\ RowSelected(pass[s], i)
    BY <1>0 DEF FirstN, Lockable, TypeOK
  <2>3. \A i \in rows : st[i] = "live" => Aged(i)
    BY <2>2 DEF RowSelected, Aged
  <2>4. /\ \A t \in Sweepers \ {s} : pc'[t] = pc[t] /\ page'[t] = page[t]
        /\ page'[s] \in {{}, rows}
    <3>1. \E x : pc' = [pc EXCEPT ![s] = x]
      BY <1>1 DEF FetchLocks, PassEnds
    <3>2. \E x \in {{}, rows} : page' = [page EXCEPT ![s] = x]
      BY <1>1 DEF FetchLocks
    <3> QED BY <1>0, <3>1, <3>2 DEF TypeOK
  <2> HIDE DEF rows
  <2>5. AgedInv' BY <1>0, <2>1, <2>3, <2>4 DEF AgedInv, Aged
  <2>6. UnbornInv' /\ OwnerStep BY <1>0, <2>1 DEF UnbornInv, OwnerStep
  <2>7. CollectStep BY <2>1 DEF CollectStep
  <2> QED BY <2>5, <2>6, <2>7 DEF History
<1>2. CASE BatchCommits(s)
  <2>1. /\ \A j \in Images : st'[j] = IF j \in wiped[s] THEN "gone" ELSE st[j]
        /\ \A t \in Sweepers \ {s} : pc'[t] = pc[t] /\ page'[t] = page[t]
        /\ page'[s] = {} /\ pc[s] = "wipe" /\ UNCHANGED <<owner, age>>
    BY <1>0, <1>2 DEF BatchCommits, PassEnds, TypeOK
  <2>2. wiped[s] \subseteq page[s] BY <1>0 DEF BatchInv
  <2>3. AgedInv' BY <1>0, <2>1 DEF AgedInv, Aged
  <2>4. UnbornInv' /\ OwnerStep BY <1>0, <2>1 DEF UnbornInv, OwnerStep
  <2>5. CollectStep BY <1>0, <2>1, <2>2 DEF CollectStep, AgedInv
  <2> QED BY <2>3, <2>4, <2>5 DEF History
<1>3. CASE \/ \E q \in {"abandoned", "signup"} : StartCleanup(s, q)
           \/ FetchSnapshot(s) \/ CleanupAborts(s)
           \/ \E i \in Images : StorageDeletes(s, i) \/ StorageDeleteFails(s, i)
  <2>1. UNCHANGED <<st, owner, age>>
    BY <1>3 DEF StartCleanup, FetchSnapshot, CleanupAborts, StorageDeletes, StorageDeleteFails, rowVars
  <2>2. \A t \in Sweepers : pc'[t] = "wipe" => pc[t] = "wipe" /\ page'[t] \subseteq page[t]
    <3>1. CASE \E q \in {"abandoned", "signup"} : StartCleanup(s, q)
      BY <1>0, <3>1 DEF StartCleanup, TypeOK
    <3>2. CASE FetchSnapshot(s) BY <1>0, <3>2 DEF FetchSnapshot, TypeOK
    <3>3. CASE CleanupAborts(s) BY <1>0, <3>3 DEF CleanupAborts, TypeOK
    <3>4. CASE \E i \in Images : StorageDeletes(s, i) \/ StorageDeleteFails(s, i)
      BY <3>4 DEF StorageDeletes, StorageDeleteFails
    <3> QED BY <1>3, <3>1, <3>2, <3>3, <3>4
  <2> QED BY <2>1, <2>2, QuietStep
<1> QED BY <1>1, <1>2, <1>3 DEF SweepNext

\* Every step keeps the two facts and respects both action properties.
LEMMA StepHistory == HistoryInv /\ [Next]_vars => HistoryInv' /\ OwnerStep /\ CollectStep
<1> SUFFICES ASSUME HistoryInv, [Next]_vars PROVE HistoryInv' /\ OwnerStep /\ CollectStep
  OBVIOUS
<1>1. IndInv' BY StepIndInv DEF HistoryInv
<1>2. ASSUME NEW i \in Images, UploadNext(i) \/ SoftDeleteNext(i) \/ TimeNext(i) PROVE History
  BY <1>2, UploadHistory, SoftDeleteHistory, TimeHistory
<1>3. ASSUME NEW a \in Attachers, AttachNext(a) PROVE History
  <2>1. UNCHANGED <<st, owner, age, pc, page>>
    BY <1>3 DEF AttachNext, AssertImagesAttachable, AttachCommits, AttachAborts, rowVars, sweepVars
  <2> QED BY <2>1, QuietStep
<1>4. ASSUME NEW h \in Holders, ReleaseReferences(h) PROVE History
  <2>1. UNCHANGED <<st, owner, age, pc, page>>
    BY <1>4 DEF ReleaseReferences, rowVars, sweepVars
  <2> QED BY <2>1, QuietStep
<1>5. ASSUME NEW u \in Users, AccountNext(u) PROVE History
  BY <1>5, AccountHistory
<1>6. ASSUME NEW s \in Sweepers, SweepNext(s) PROVE History
  BY <1>6, SweepHistory
<1>7. History
  <2>1. CASE UNCHANGED vars
    <3>1. UNCHANGED <<st, owner, age, pc, page>> BY <2>1 DEF vars
    <3> QED BY <3>1, QuietStep
  <2>2. CASE Next BY <2>2, <1>2, <1>3, <1>4, <1>5, <1>6 DEF Next
  <2> QED BY <2>1, <2>2
<1> QED BY <1>1, <1>7 DEF History, HistoryInv

\* The facts hold throughout.
LEMMA AlwaysHistory == Spec => []HistoryInv
<1>1. Init => HistoryInv
  BY InitIndInv DEF Init, HistoryInv, AgedInv, UnbornInv
<1>2. HistoryInv /\ [Next]_vars => HistoryInv' BY StepHistory
<1> QED BY <1>1, <1>2, PTL DEF Spec

\* A confirmed image is collected only when it is a day old, or has no
\* uploader and outlived its token: a sweeper that selected the row while it
\* was a reservation cannot take it once it is confirmed (SKIP LOCKED and the
\* recheck of the locked row in get_*_images).
THEOREM FreshImagesSurvive == Spec => FreshImageSurvives
<1>1. HistoryInv /\ [Next]_vars =>
        [\A i \in Images : st[i] = "live" /\ st'[i] = "gone" =>
            age[i] = 2 \/ (owner[i] = NoUser /\ age[i] >= 1)]_vars
  BY StepHistory DEF CollectStep, Aged
<1> QED BY <1>1, AlwaysHistory, PTL DEF Spec, FreshImageSurvives

\* However many signups read the same token, one account gets the image, and
\* only that account's purge takes it away (claim_image_ownership's `WHERE
\* uploader_id IS NULL', ON DELETE SET NULL).
THEOREM OwnershipIsKept == Spec => OwnershipIsStable
<1>1. HistoryInv /\ [Next]_vars =>
        [\A i \in Images, u \in Users : owner[i] = u =>
            owner'[i] = u \/ (owner'[i] = NoUser /\ user'[u] = "purged")]_vars
  BY StepHistory DEF OwnerStep
<1> QED BY <1>1, AlwaysHistory, PTL DEF Spec, OwnershipIsStable
=============================================================================
