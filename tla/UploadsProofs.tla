---------------------------- MODULE UploadsProofs ----------------------------
(***************************************************************************)
(* Proofs about Uploads, for any reconcilers, deadlines, leases and        *)
(* delays, and any number of attempts, callers, stalls and faults.         *)
(***************************************************************************)
EXTENDS Uploads, TLAPS

\* The upload has left the client's hands, and no credential for its key is live.
Sealed == upload.state \notin {"none", "pending"} /\ upload.credential = 0

\* A row that is finished is not leased.
Finished == \A id \in WorkId :
    ~work[id].open => work[id].holder = NoOne /\ work[id].left = 0

\* The work of each state.  Nothing of an upload exists before it is initiated.  Verification
\* sleeps while a client may write, wakes up no earlier than the last credential ends, and
\* gives way to the scan.  The delete of the staging object begins with the rejection and
\* carries the upload's name.  A published object has no delete.
Stages ==
    LET state == upload.state IN
    /\ state = "none" => /\ upload.credential = 0
                         /\ objects = [k \in Key |-> "none"] /\ listed = {}
    /\ state = "pending" => /\ work["verify"].open /\ work["verify"].at = Dormant
                            /\ work["verify"].holder = NoOne
    /\ state \notin {"pending", "quarantined"} => ~work["verify"].open
    /\ state # "quarantined" => ~work["scan"].open
    /\ state = "quarantined" => (work["scan"].open <=> ~work["verify"].open)
    /\ state = "quarantined" /\ work["verify"].open => work["verify"].at >= upload.credential
    /\ work["scan"].open => upload.credential = 0
    /\ state \in {"none", "pending", "quarantined"} => ~work["deleteStaging"].open
    /\ state = "rejected" => work["deleteStaging"].open /\ work["deleteStaging"].referenced
    /\ state = "available" => ~work["deletePublished"].open

\* Where a reconciler stands.  To verify and to scan it waited for the credentials; what it
\* is about to copy is what was scanned; while it may delete the publication under its
\* lease, the row says so.
TaskOK(w) ==
    LET me == worker[w] IN
    /\ me.pc # "idle" /\ me.item \in {"verify", "scan"} => Sealed
    /\ me.pc \in {"claimed", "copy"} => me.item = "scan"
    /\ me.pc = "reject" => me.item \in {"verify", "scan"}
    /\ me.pc = "copy" => objects["staging"] # "other"
    /\ me.pc = "effect" /\ me.item = "deletePublished" /\ me.lease > 0 =>
          /\ work["deletePublished"].open /\ work["deletePublished"].holder = w
          /\ work["deletePublished"].left = me.lease

\* Until it is published, what a scan has copied is there, or it went without a record, or
\* its delete was recorded.
CopyOK(w) ==
    /\ upload.state = "quarantined" /\ worker[w].pc = "ok" /\ worker[w].item = "scan"
    /\ ~worker[w].overtaken
    => objects["published"] = "declared" \/ deletion # "none"

Tasks == \A w \in Worker : TaskOK(w) /\ CopyOK(w)

\* A copy that was given up is one of what was scanned.
Strays == "copy" \in stray => Sealed /\ objects["staging"] # "other"

\* The inductive invariant.
Inv ==
    /\ TypeOK /\ Finished /\ Stages
    /\ Tasks /\ Strays
    /\ PublishedIsScanned /\ OnlyUnfencedDeletesLoseBytes

-----------------------------------------------------------------------------
(* The statements on the work rows.                                        *)

LEMMA Constants ==
    /\ NoOne \notin Worker
    /\ Credential \in Nat /\ PendingTtl \in Nat /\ PendingTtl >= Credential
    /\ Lease \in Nat \ {0}
    /\ RetryDelay \in Nat \ {0} /\ Grace \in Nat
    /\ MaxAttempts \in Nat \ {0}
  BY UploadsAssumption

\* A row keeps everything but its readiness and its attempts.
Kept(old, new) ==
    /\ new.open = old.open /\ new.referenced = old.referenced /\ new.holder = old.holder
    /\ new.left = old.left

Clear(row) == row.holder = NoOne /\ row.left = 0

\* The row id is there, as it was or new, and no other row is touched.
Ensured(rows, new, id, referenced) ==
    /\ new \in [WorkId -> WorkRow]
    /\ \A i \in WorkId : i # id => new[i] = rows[i]
    /\ new[id].open = TRUE
    /\ rows[id].open => Kept(rows[id], new[id])
    /\ ~rows[id].open => new[id].referenced = referenced /\ Clear(new[id])

LEMMA NoWorkIsRow == NoWork \in WorkRow /\ NoWork.open = FALSE /\ Clear(NoWork)
  BY Constants DEF NoWork, WorkRow, Clear

\* insert_work leaves an unfinished row alone.
LEMMA InsertEnsures ==
    ASSUME NEW rows \in [WorkId -> WorkRow], NEW id \in WorkId, NEW r \in BOOLEAN, NEW at \in Int
    PROVE  /\ Ensured(rows, Insert(rows, id, r, at), id, r)
           /\ rows[id].open => Insert(rows, id, r, at) = rows
           /\ ~rows[id].open => Insert(rows, id, r, at)[id].at = at
  <1> DEFINE row == [NoWork EXCEPT !.open = TRUE, !.referenced = r, !.at = at]
  <1>1. /\ row \in WorkRow
        /\ row.open = TRUE
        /\ row.referenced = r
        /\ row.at = at
        /\ Clear(row)
    BY NoWorkIsRow, Zenon DEF NoWork, WorkRow, Clear
  <1>2. CASE rows[id].open
    BY <1>2, Zenon DEF Insert, Ensured, Kept, WorkRow
  <1>3. CASE ~rows[id].open
    <2> HIDE DEF row
    <2>1. Insert(rows, id, r, at) = [rows EXCEPT ![id] = row]
      BY <1>3 DEF Insert, row
    <2> QED
      BY <1>1, <1>3, <2>1 DEF Ensured
  <1> QED
    BY <1>2, <1>3, Zenon

\* A row that is put off.
LEMMA RefreshKeeps ==
    ASSUME NEW row \in WorkRow, NEW at \in Int
    PROVE  Refresh(row, at) \in WorkRow /\ Kept(row, Refresh(row, at))
  <1> DEFINE new == Refresh(row, at)
  <1>1. new \in WorkRow
    <2> DEFINE a == Larger(row.at, at)
               n == IF row.left > 0 THEN row.attempts ELSE 0
    <2>1. a \in Int
      BY DEF WorkRow, Larger
    <2>2. n \in 0..MaxAttempts
      BY Constants DEF WorkRow
    <2>3. new = [row EXCEPT !.at = a, !.attempts = n]
      BY Zenon DEF Refresh
    <2> HIDE DEF a, n, new
    <2> QED
      BY <2>1, <2>2, <2>3, Zenon DEF WorkRow
  <1>2. /\ new.open = row.open
        /\ new.referenced = row.referenced
        /\ new.holder = row.holder
        /\ new.left = row.left
    BY DEF Refresh, WorkRow
  <1> QED
    BY <1>1, <1>2, Zenon DEF Kept

LEMMA DelayKeeps ==
    ASSUME NEW row \in WorkRow, NEW at \in Int
    PROVE  LET new == PutOff(row, at)
           IN  new \in WorkRow /\ Kept(row, new) /\ new.at >= at
  BY DEF PutOff, WorkRow, Kept, Larger

\* An ensured row may be put off.
LEMMA EnsuredThenKept ==
    ASSUME NEW rows \in [WorkId -> WorkRow], NEW mid, NEW id \in WorkId, NEW r,
           NEW row \in WorkRow, Ensured(rows, mid, id, r), Kept(mid[id], row)
    PROVE  Ensured(rows, [mid EXCEPT ![id] = row], id, r)
  BY DEF Ensured, Kept, Clear

LEMMA ReferencedDelete ==
    ASSUME NEW rows \in [WorkId -> WorkRow], upload.credential \in Int
    PROVE  Ensured(rows, EnsureReferencedDelete(rows), "deleteStaging", TRUE)
  <1> DEFINE id == "deleteStaging"
             mid == Insert(rows, id, TRUE, 0)
             row == Refresh(mid[id], upload.credential)
  <1>1. id \in WorkId /\ Ensured(rows, mid, id, TRUE)
    <2>1. id \in WorkId /\ 0 \in Int /\ TRUE \in BOOLEAN
      BY DEF WorkId
    <2> QED
      BY <2>1, InsertEnsures, Zenon
  <1>2. row \in WorkRow /\ Kept(mid[id], row)
    BY <1>1, RefreshKeeps, Zenon DEF Ensured
  <1>3. EnsureReferencedDelete(rows) = [mid EXCEPT ![id] = row] \/ EnsureReferencedDelete(rows) = mid
    BY Zenon DEF EnsureReferencedDelete
  <1> HIDE DEF mid, row
  <1>4. Ensured(rows, [mid EXCEPT ![id] = row], id, TRUE)
    BY <1>1, <1>2, EnsuredThenKept, Zenon
  <1> QED
    BY <1>1, <1>3, <1>4, Zenon

LEMMA OrphanDelete ==
    ASSUME NEW rows \in [WorkId -> WorkRow], NEW k \in Key
    PROVE  Ensured(rows, EnsureOrphanDelete(rows, k), DeleteOf(k), FALSE)
  <1> DEFINE id == DeleteOf(k)
             mid == Insert(rows, id, FALSE, 0)
             row == Refresh(mid[id], 0)
  <1>1. id \in WorkId
    BY DEF WorkId, DeleteOf
  <1> HIDE DEF id
  <1>2. Ensured(rows, mid, id, FALSE)
    <2>1. 0 \in Int /\ FALSE \in BOOLEAN
      OBVIOUS
    <2> QED
      BY <1>1, <2>1, InsertEnsures, Zenon
  <1>3. row \in WorkRow /\ Kept(mid[id], row)
    <2>1. mid[id] \in WorkRow
      BY <1>1, <1>2, Zenon DEF Ensured
    <2>2. 0 \in Int
      OBVIOUS
    <2> QED
      BY <2>1, <2>2, RefreshKeeps, Zenon
  <1>4. EnsureOrphanDelete(rows, k) = [mid EXCEPT ![id] = row]
    BY Zenon DEF EnsureOrphanDelete, id
  <1> HIDE DEF mid, row
  <1>5. Ensured(rows, [mid EXCEPT ![id] = row], id, FALSE)
    BY <1>1, <1>2, <1>3, EnsuredThenKept, Zenon
  <1> QED
    BY <1>4, <1>5, Zenon DEF id

LEMMA FinishEnds ==
    ASSUME NEW rows \in [WorkId -> WorkRow], NEW ids
    PROVE  /\ Finish(rows, ids) \in [WorkId -> WorkRow]
           /\ \A i \in WorkId : i \in ids => Finish(rows, ids)[i] = NoWork
           /\ \A i \in WorkId : i \notin ids => Finish(rows, ids)[i] = rows[i]
  BY NoWorkIsRow, Zenon DEF Finish

-----------------------------------------------------------------------------
(* What steps have in common.                                              *)

States == {"none", "pending", "quarantined", "available", "rejected", "deleted"}

\* The upload row changes state.
LEMMA ToMoves ==
    ASSUME TypeOK, NEW s \in States
    PROVE  /\ To(s) \in UploadRow
           /\ To(s).state = s
           /\ To(s).credential = upload.credential
  <1>1. 0 \in 0..PendingTtl /\ FALSE \in BOOLEAN /\ upload \in UploadRow
    BY Constants DEF TypeOK
  <1>2. To(s) \in UploadRow
    BY <1>1, Zenon DEF UploadRow, To, States
  <1> QED
    BY <1>1, <1>2 DEF UploadRow, To

\* A reconciler that does not move stays where it may be.
LEMMA TaskKept ==
    ASSUME NEW v \in Worker, TaskOK(v),
           worker[v].lease \in Nat, work["deletePublished"].left \in Nat,
           worker'[v].pc = worker[v].pc, worker'[v].item = worker[v].item,
           worker'[v].lease = worker[v].lease,
           Sealed => Sealed',
           Sealed /\ objects'["staging"] = "other" => objects["staging"] = "other",
           work["deletePublished"].open /\ work["deletePublished"].holder = v
             /\ work["deletePublished"].left > 0
           => /\ work'["deletePublished"].open /\ work'["deletePublished"].holder = v
              /\ work'["deletePublished"].left = work["deletePublished"].left
    PROVE  TaskOK(v)'
  BY DEF TaskOK

LEMMA CopyKept ==
    ASSUME NEW v \in Worker, TaskOK(v), CopyOK(v),
           worker'[v].pc = worker[v].pc, worker'[v].item = worker[v].item,
           worker[v].overtaken => worker'[v].overtaken,
           upload'.state = "quarantined" => upload.state \in {"pending", "quarantined"},
           objects["published"] = "declared" \/ deletion # "none"
           => \/ objects'["published"] = "declared" \/ deletion' # "none"
              \/ worker[v].item = "scan" /\ worker[v].pc = "ok" => worker'[v].overtaken
    PROVE  CopyOK(v)'
  BY Zenon DEF TaskOK, CopyOK, Sealed

\* A step that changes no object and moves no reconciler.
LEMMA RowsStep ==
    ASSUME Inv, TypeOK', Finished', Stages',
           UNCHANGED <<worker, objects, stray, history>>,
           upload'.state = "quarantined" => upload.state \in {"pending", "quarantined"},
           upload'.state = "available" => upload.state = "available",
           Sealed => Sealed',
           work["deletePublished"].open => Kept(work["deletePublished"], work'["deletePublished"])
    PROVE  Inv'
  <1>1. ASSUME NEW v \in Worker PROVE TaskOK(v)'
    <2>1. TaskOK(v) /\ worker[v].lease \in Nat /\ work["deletePublished"].left \in Nat
      BY Constants DEF Inv, Tasks, TypeOK, WorkerState, WorkRow, WorkId
    <2> QED
      BY <2>1, TaskKept, Zenon DEF Kept
  <1>2. ASSUME NEW v \in Worker PROVE CopyOK(v)'
    <2>1. TaskOK(v) /\ CopyOK(v)
      BY Zenon DEF Inv, Tasks
    <2> QED
      BY <2>1, CopyKept, Zenon DEF history
  <1>3. PublishedIsScanned' /\ OnlyUnfencedDeletesLoseBytes' /\ Strays'
    BY DEF Inv, PublishedIsScanned, OnlyUnfencedDeletesLoseBytes, Strays, history
  <1> QED
    BY <1>1, <1>2, <1>3, Zenon DEF Inv, Tasks

\* reject_expired_pending_locked.
LEMMA ExpiredRows ==
    ASSUME Inv, upload.state = "pending"
    PROVE  /\ ExpiredWork \in [WorkId -> WorkRow]
           /\ ExpiredWork["verify"] = NoWork
           /\ ExpiredWork["scan"] = work["scan"]
           /\ ExpiredWork["deletePublished"] = work["deletePublished"]
           /\ ExpiredWork["deleteStaging"].open = TRUE
           /\ ExpiredWork["deleteStaging"].referenced = TRUE
           /\ Clear(ExpiredWork["deleteStaging"])
  <1> DEFINE mid == Finish(work, {"verify"})
  <1>1. work \in [WorkId -> WorkRow] /\ ~work["deleteStaging"].open
    BY Zenon DEF Inv, TypeOK, Stages
  <1>2. /\ mid \in [WorkId -> WorkRow] /\ mid["verify"] = NoWork
        /\ mid["scan"] = work["scan"] /\ mid["deletePublished"] = work["deletePublished"]
        /\ mid["deleteStaging"] = work["deleteStaging"]
    BY <1>1, FinishEnds DEF WorkId
  <1>3. upload.credential \in Int
    BY Constants DEF Inv, TypeOK, UploadRow
  <1> HIDE DEF mid
  <1>4. Ensured(mid, EnsureReferencedDelete(mid), "deleteStaging", TRUE)
    BY <1>2, <1>3, ReferencedDelete, Zenon
  <1> QED
    BY <1>1, <1>2, <1>4, Zenon DEF ExpiredWork, Ensured, WorkId, mid

\* The expiry of a pending upload leaves it rejected, with the delete of its object.
LEMMA RejectExpiredSteps ==
    ASSUME Inv, Expired, RejectExpired
    PROVE  /\ upload' \in UploadRow /\ work' \in [WorkId -> WorkRow]
           /\ upload'.state = "rejected"
           /\ Finished' /\ Stages' /\ ~Sealed
           /\ work'["deletePublished"] = work["deletePublished"]
  <1>1. upload.state = "pending" /\ TypeOK /\ "rejected" \in States
    BY DEF Expired, Inv, States
  <1>2. upload' = To("rejected") /\ work' = ExpiredWork
    BY DEF RejectExpired
  <1>3. /\ upload' \in UploadRow /\ upload'.state = "rejected"
        /\ upload'.credential = upload.credential
    BY <1>1, <1>2, ToMoves
  <1>4. /\ work' \in [WorkId -> WorkRow]
        /\ work'["verify"] = NoWork
        /\ work'["scan"] = work["scan"]
        /\ work'["deletePublished"] = work["deletePublished"]
        /\ work'["deleteStaging"].open = TRUE
        /\ work'["deleteStaging"].referenced = TRUE
        /\ Clear(work'["deleteStaging"])
    BY <1>1, <1>2, ExpiredRows, Zenon
  <1>5. Finished'
    <2> SUFFICES ASSUME NEW id \in WorkId, ~work'[id].open
                 PROVE  work'[id].holder = NoOne /\ work'[id].left = 0
      BY DEF Finished
    <2> QED
      BY <1>4, NoWorkIsRow DEF Inv, Finished, WorkId, Clear
  <1>6. Stages'
    BY <1>1, <1>3, <1>4, NoWorkIsRow, Zenon DEF Inv, Stages
  <1> QED
    BY <1>1, <1>3, <1>4, <1>5, <1>6, Zenon DEF Sealed

-----------------------------------------------------------------------------
(* The callers.                                                            *)

LEMMA InitKeeps == Init => Inv
  <1> SUFFICES ASSUME Init PROVE Inv
    OBVIOUS
  <1>1. upload \in UploadRow /\ upload.state = "none" /\ upload.credential = 0
    BY Constants DEF Init, UploadRow
  <1>2. Resting \in WorkerState /\ Resting.pc = "idle"
    BY Constants DEF Resting, WorkerState, WorkId
  <1>3. work \in [WorkId -> WorkRow] /\ \A id \in WorkId : work[id] = NoWork
    BY NoWorkIsRow, Zenon DEF Init
  <1>4. worker \in [Worker -> WorkerState] /\ \A w \in Worker : worker[w].pc = "idle"
    BY <1>2, Zenon DEF Init
  <1>5. TypeOK
    <2>1. 0 \in 0..Grace
      BY Constants
    <2> QED
      BY <1>1, <1>3, <1>4, <2>1, Zenon DEF TypeOK, Init
  <1>6. Finished /\ Stages
    BY <1>1, <1>3, NoWorkIsRow, Zenon DEF Finished, Stages, Clear, WorkId, Init
  <1>7. Tasks
    BY <1>4, Zenon DEF Tasks, TaskOK, CopyOK
  <1>8. PublishedIsScanned /\ OnlyUnfencedDeletesLoseBytes /\ Strays
    BY <1>1, Zenon DEF PublishedIsScanned, OnlyUnfencedDeletesLoseBytes, Strays, Init, Key
  <1> QED
    BY <1>5, <1>6, <1>7, <1>8 DEF Inv

\* A call that finds the upload expired.
LEMMA ExpiryStep ==
    ASSUME Inv, Expired, RejectExpired, UNCHANGED <<store, calls, worker, stray, history>>
    PROVE  Inv'
  <1>1. /\ upload' \in UploadRow /\ work' \in [WorkId -> WorkRow]
        /\ upload'.state = "rejected"
        /\ Finished' /\ Stages' /\ ~Sealed
        /\ work'["deletePublished"] = work["deletePublished"]
    BY RejectExpiredSteps
  <1>2. TypeOK'
    BY <1>1, Zenon DEF Inv, TypeOK, store, history
  <1> QED
    BY <1>1, <1>2, RowsStep, Zenon DEF Kept, store, history

LEMMA InitiateKeeps ==
    ASSUME Inv, Initiate
    PROVE  Inv'
  <1>1. UNCHANGED <<store, calls, worker, stray, history>>
    BY DEF Initiate
  <1>2. CASE Expired /\ RejectExpired
    BY <1>1, <1>2, ExpiryStep, Zenon
  <1>3. CASE /\ upload.state = "none" \/ Pending
             /\ upload' = [upload EXCEPT !.state = "pending", !.pending = PendingTtl]
             /\ work' = Insert(work, "verify", TRUE, Dormant)
    <2>1. /\ upload' \in UploadRow /\ upload'.state = "pending"
          /\ upload'.credential = upload.credential
          /\ upload.state \in {"none", "pending"}
      <3>1. upload \in UploadRow /\ PendingTtl \in 0..PendingTtl
        BY Constants DEF Inv, TypeOK
      <3>2. upload' \in UploadRow
        BY <1>3, <3>1, Zenon DEF UploadRow
      <3> QED
        BY <1>3, <3>1, <3>2 DEF UploadRow, Pending
    <2>2. "verify" \in WorkId /\ Dormant \in Int /\ TRUE \in BOOLEAN /\ work \in [WorkId -> WorkRow]
      BY DEF WorkId, Dormant, Inv, TypeOK
    <2>3. /\ Ensured(work, work', "verify", TRUE)
          /\ work["verify"].open => work' = work
          /\ ~work["verify"].open => work'["verify"].at = Dormant
      <3> DEFINE new == Insert(work, "verify", TRUE, Dormant)
      <3>1. /\ Ensured(work, new, "verify", TRUE)
            /\ work["verify"].open => new = work
            /\ ~work["verify"].open => new["verify"].at = Dormant
        BY <2>2, InsertEnsures, Zenon
      <3>2. work' = new
        BY <1>3
      <3> HIDE DEF new
      <3> QED
        BY <3>1, <3>2, Zenon
    <2>4. /\ work' \in [WorkId -> WorkRow]
          /\ work'["scan"] = work["scan"] /\ work'["deleteStaging"] = work["deleteStaging"]
          /\ work'["deletePublished"] = work["deletePublished"]
          /\ work'["verify"].open
          /\ ~work["verify"].open => Clear(work'["verify"])
      BY <2>3, Zenon DEF Ensured, WorkId
    <2>5. TypeOK'
      BY <1>1, <1>3, <2>1, <2>4, Zenon DEF Inv, TypeOK, store, history
    <2>6. Finished'
      BY <2>4 DEF Inv, Finished, WorkId
    <2>7. Stages'
      BY <2>1, <2>3, <2>4, Zenon DEF Inv, Stages, Clear
    <2> QED
      BY <1>1, <2>1, <2>4, <2>5, <2>6, <2>7, RowsStep, Zenon DEF Kept, Sealed, store, history
  <1> QED
    BY <1>2, <1>3, Zenon DEF Initiate

LEMMA PersistCredentialKeeps ==
    ASSUME Inv, PersistCredential
    PROVE  Inv'
  <1>1. UNCHANGED <<work, store, calls, worker, stray, history>>
    BY DEF PersistCredential
  <1>2. upload' \in UploadRow /\ upload'.state = upload.state /\ upload.state = "pending"
    <2> DEFINE c == Larger(upload.credential, Credential)
               p == Larger(upload.pending, PendingTtl)
    <2>1. c \in 0..Credential /\ p \in 0..PendingTtl /\ upload \in UploadRow
      BY Constants DEF Inv, TypeOK, UploadRow, Larger
    <2>2. upload' = [upload EXCEPT !.credential = c, !.pending = p] /\ Pending
      BY DEF PersistCredential
    <2> HIDE DEF c, p
    <2> QED
      BY <2>1, <2>2, Zenon DEF UploadRow, Pending
  <1>3. TypeOK'
    BY <1>1, <1>2, Zenon DEF Inv, TypeOK, store, history
  <1>4. Finished' /\ Stages'
    BY <1>1, <1>2, Zenon DEF Inv, Finished, Stages, store, history
  <1> QED
    BY <1>1, <1>2, <1>3, <1>4, RowsStep, Zenon DEF Kept, Sealed, store, history

\* A write of the staging object.
LEMMA WriteSteps ==
    ASSUME Inv, NEW bytes \in {"declared", "other"}, Write("staging", bytes),
           upload.state # "none", bytes = "other" => ~Sealed,
           UNCHANGED <<upload, work, worker, stray, history>>,
           calls' \subseteq {"present", "written"}
    PROVE  Inv'
  <1>1. objects' \in [Key -> {"none", "declared", "other"}] /\ fresh' \in [Key -> 0..Grace]
    <2>1. (IF "staging" \in listed THEN 0 ELSE Grace) \in 0..Grace
      BY Constants
    <2> QED
      BY <2>1, Zenon DEF Inv, TypeOK, Write
  <1>2. /\ objects'["published"] = objects["published"] /\ objects'["staging"] = bytes
        /\ listed' = listed
    BY Zenon DEF Inv, TypeOK, Write, Key
  <1>3. TypeOK'
    BY <1>1, <1>2 DEF Inv, TypeOK, history
  <1>4. Finished' /\ Stages'
    BY Zenon DEF Inv, Finished, Stages
  <1>5. ASSUME NEW v \in Worker PROVE TaskOK(v)' /\ CopyOK(v)'
    <2>1. TaskOK(v) /\ CopyOK(v)
      BY DEF Inv, Tasks
    <2> QED
      BY <1>2, <2>1 DEF TaskOK, CopyOK, Sealed, history
  <1>6. PublishedIsScanned' /\ OnlyUnfencedDeletesLoseBytes' /\ Strays'
    BY <1>2 DEF Inv, PublishedIsScanned, OnlyUnfencedDeletesLoseBytes, Strays, Sealed, history
  <1> QED
    BY <1>3, <1>4, <1>5, <1>6, Zenon DEF Inv, Tasks

LEMMA WritesKeep ==
    ASSUME Inv, DirectWrite \/ PutProxied
    PROVE  Inv'
  <1>1. CASE DirectWrite
    <2>1. PICK bytes \in {"declared", "other"} : Write("staging", bytes)
      BY <1>1 DEF DirectWrite
    <2>2. upload.state # "none" /\ ~Sealed
      BY <1>1, Constants DEF DirectWrite, Inv, Stages, Sealed, TypeOK, UploadRow
    <2> QED
      BY <1>1, <2>1, <2>2, WriteSteps, Zenon DEF DirectWrite, Inv, TypeOK
  <1>2. CASE PutProxied
    <2>1. calls' \subseteq {"present", "written"}
      BY <1>2 DEF PutProxied, Inv, TypeOK
    <2> QED
      BY <1>2, <2>1, WriteSteps, Zenon DEF PutProxied
  <1> QED
    BY <1>1, <1>2

\* A step that only ensures the delete of an object that the state does not want.
LEMMA EnsureSteps ==
    ASSUME Inv, NEW id \in {"deleteStaging", "deletePublished"}, NEW r \in BOOLEAN,
           Ensured(work, work', id, r), UNCHANGED <<upload, store, calls, worker, stray, history>>,
           id = "deleteStaging" => upload.state \notin {"none", "pending", "quarantined"},
           id = "deletePublished" => upload.state # "available"
    PROVE  Inv'
  <1>1. /\ work' \in [WorkId -> WorkRow]
        /\ \A i \in WorkId : i # id => work'[i] = work[i]
        /\ work'[id].open = TRUE
        /\ work[id].open => Kept(work[id], work'[id])
    BY Zenon DEF Ensured
  <1>2. TypeOK'
    BY <1>1, Zenon DEF Inv, TypeOK, store, history
  <1>3. Finished'
    BY <1>1, Zenon DEF Inv, Finished
  <1>4. Stages'
    BY <1>1, Zenon DEF Inv, Stages, Kept, WorkId, store, history
  <1>5. work["deletePublished"].open => Kept(work["deletePublished"], work'["deletePublished"])
    BY <1>1, Zenon DEF Kept, WorkId
  <1> QED
    BY <1>2, <1>3, <1>4, <1>5, RowsStep, Zenon DEF Sealed, store, history

LEMMA FenceProxiedWriteKeeps ==
    ASSUME Inv, FenceProxiedWrite
    PROVE  Inv'
  <1>1. UNCHANGED <<store, calls, worker, stray, history>>
    BY Zenon DEF FenceProxiedWrite
  <1>2. work \in [WorkId -> WorkRow] /\ upload.credential \in Int /\ "staging" \in Key
    BY Constants DEF Inv, TypeOK, UploadRow, Key
  <1>3. CASE Expired /\ RejectExpired
    BY <1>1, <1>3, ExpiryStep
  <1>5. CASE /\ upload.state = "available" /\ UNCHANGED upload
             /\ work' = EnsureOrphanDelete(work, "staging")
    <2>1. Ensured(work, EnsureOrphanDelete(work, "staging"), DeleteOf("staging"), FALSE)
      BY <1>2, OrphanDelete, Zenon
    <2>2. Ensured(work, work', "deleteStaging", FALSE)
      BY <1>5, <2>1, Zenon DEF DeleteOf
    <2> QED
      BY <1>1, <1>5, <2>2, EnsureSteps, Zenon
  <1>6. CASE /\ upload.state \in {"rejected", "deleted"} /\ UNCHANGED upload
             /\ work' = EnsureReferencedDelete(work)
    <2>1. Ensured(work, work', "deleteStaging", TRUE)
      BY <1>2, <1>6, ReferencedDelete, Zenon
    <2> QED
      BY <1>1, <1>6, <2>1, EnsureSteps, Zenon
  <1> QED
    BY <1>3, <1>5, <1>6 DEF FenceProxiedWrite

LEMMA CompleteReadsKeeps ==
    ASSUME Inv, CompleteReads
    PROVE  Inv'
  <1>1. /\ UNCHANGED <<upload, work, store, worker, stray, history>>
        /\ calls' \subseteq {"present", "written"}
    BY DEF CompleteReads, Inv, TypeOK
  <1>2. TypeOK'
    BY <1>1, Zenon DEF Inv, TypeOK, store, history
  <1>3. Finished' /\ Stages'
    BY <1>1, Zenon DEF Inv, Finished, Stages, store
  <1> QED
    BY <1>1, <1>2, <1>3, RowsStep, Zenon DEF Kept, Sealed, store

LEMMA StatusKeeps ==
    ASSUME Inv, Status
    PROVE  Inv'
  BY ExpiryStep, Zenon DEF Status, Inv, TypeOK, history

\* activate_verification.
LEMMA ActivateVerificationKeeps ==
    ASSUME Inv, ActivateVerification
    PROVE  Inv'
  <1>1. /\ UNCHANGED <<store, calls, worker, stray, history>>
    BY Zenon DEF ActivateVerification
  <1>2. CASE Expired /\ RejectExpired
    BY <1>1, <1>2, ExpiryStep, Zenon
  <1>4. CASE /\ Pending \/ upload.state = "quarantined"
             /\ upload' = IF Pending THEN To("quarantined") ELSE upload
             /\ work' = [work EXCEPT !["verify"] = IF @.open THEN PutOff(@, upload.credential) ELSE @]
    <2>1. TypeOK /\ "quarantined" \in States /\ upload.state \in {"pending", "quarantined"}
      BY <1>4, Zenon DEF Inv, States, Pending
    <2>2. /\ upload' \in UploadRow /\ upload'.state = "quarantined"
          /\ upload'.credential = upload.credential
      BY <1>4, <2>1, ToMoves, Zenon DEF TypeOK, Pending
    <2>3. work["verify"] \in WorkRow /\ upload.credential \in Int
      BY <2>1, Constants DEF TypeOK, UploadRow, WorkId
    <2> DEFINE row == PutOff(work["verify"], upload.credential)
    <2>4. /\ row \in WorkRow /\ Kept(work["verify"], row)
          /\ row.at >= upload.credential
      BY <2>3, DelayKeeps, Zenon
    <2>5. /\ work' \in [WorkId -> WorkRow]
          /\ \A i \in WorkId : i # "verify" => work'[i] = work[i]
          /\ work["verify"].open => work'["verify"] = row
          /\ ~work["verify"].open => work'["verify"] = work["verify"]
      <3> DEFINE new == IF work["verify"].open THEN row ELSE work["verify"]
      <3>1. work' = [work EXCEPT !["verify"] = new]
        BY <1>4, Zenon
      <3>2. /\ new \in WorkRow
            /\ work["verify"].open => new = row
            /\ ~work["verify"].open => new = work["verify"]
        BY <2>3, <2>4, Zenon
      <3>3. work \in [WorkId -> WorkRow] /\ "verify" \in WorkId
        BY <2>1, Zenon DEF TypeOK, WorkId
      <3> HIDE DEF new, row
      <3> QED
        BY <3>1, <3>2, <3>3, Zenon
    <2> HIDE DEF row
    <2>6. TypeOK'
      BY <1>1, <2>1, <2>2, <2>5, Zenon DEF TypeOK, store, history
    <2>7. Finished'
      BY <2>4, <2>5 DEF Inv, Finished, Kept
    <2>8. Stages'
      BY <2>1, <2>2, <2>4, <2>5, Zenon DEF Inv, Stages, Kept, WorkId
    <2> QED
      BY <1>1, <2>1, <2>2, <2>5, <2>6, <2>7, <2>8, RowsStep, Zenon DEF Kept, Sealed, WorkId, store, history
  <1> QED
    BY <1>2, <1>4, Zenon DEF ActivateVerification

\* reject_pending.
LEMMA RejectPendingKeeps ==
    ASSUME Inv, RejectPending
    PROVE  Inv'
  <1> DEFINE id == "deleteStaging"
             inserted == Insert(work, id, TRUE, 0)
             row == PutOff(inserted[id], upload.credential)
             delayed == [inserted EXCEPT ![id] = IF @.referenced THEN PutOff(@, upload.credential) ELSE @]
             ended == {i \in {"verify"} : work[i].holder = NoOne}
  <1>1. /\ UNCHANGED <<store, calls, worker, stray, history>>
        /\ upload.state \in {"pending", "rejected"}
        /\ upload' = To("rejected")
        /\ work' = Finish(delayed, ended)
    BY Zenon DEF RejectPending
  <1>2. /\ TypeOK /\ work \in [WorkId -> WorkRow] /\ upload.credential \in Int
        /\ id \in WorkId /\ 0 \in Int /\ TRUE \in BOOLEAN /\ "rejected" \in States
    BY Constants DEF Inv, TypeOK, UploadRow, WorkId, States
  <1> QED
    <2>1. /\ upload' \in UploadRow /\ upload'.state = "rejected"
          /\ upload'.credential = upload.credential
          /\ upload.state \in {"pending", "rejected"}
      BY <1>1, <1>2, ToMoves, Zenon DEF TypeOK
    <2>2. Ensured(work, inserted, id, TRUE)
      BY <1>2, InsertEnsures, Zenon
    <2>3. inserted[id] \in WorkRow
      BY <1>2, <2>2, Zenon DEF Ensured
    <2>4. row \in WorkRow /\ Kept(inserted[id], row)
      BY <1>2, <2>3, DelayKeeps, Zenon
    <2>5. Ensured(work, delayed, id, TRUE)
      <3>1. delayed = [inserted EXCEPT ![id] = row] \/ delayed = [inserted EXCEPT ![id] = inserted[id]]
        BY Zenon
      <3>2. Kept(inserted[id], inserted[id])
        BY DEF Kept
      <3> HIDE DEF inserted, row, delayed, id
      <3>3. Ensured(work, [inserted EXCEPT ![id] = row], id, TRUE)
        BY <1>2, <2>2, <2>4, EnsuredThenKept, Zenon
      <3>4. Ensured(work, [inserted EXCEPT ![id] = inserted[id]], id, TRUE)
        BY <1>2, <2>2, <2>3, <3>2, EnsuredThenKept, Zenon
      <3> QED
        BY <3>1, <3>3, <3>4, Zenon
    <2> HIDE DEF inserted, row, delayed, ended
    <2>6. delayed \in [WorkId -> WorkRow] /\ work' = Finish(delayed, ended)
      BY <1>1, <2>5, Zenon DEF Ensured
    <2>7. /\ work' \in [WorkId -> WorkRow]
          /\ work'["scan"] = work["scan"] /\ work'["deletePublished"] = work["deletePublished"]
          /\ work'[id] = delayed[id]
          /\ work'["verify"] = IF work["verify"].holder = NoOne THEN NoWork ELSE work["verify"]
      <3>1. \A i \in WorkId : i \in ended <=> i = "verify" /\ work["verify"].holder = NoOne
        BY DEF ended
      <3>2. delayed["scan"] = work["scan"] /\ delayed["deletePublished"] = work["deletePublished"]
            /\ delayed["verify"] = work["verify"]
        BY <2>5, Zenon DEF Ensured, WorkId
      <3>3. /\ work' \in [WorkId -> WorkRow]
            /\ \A i \in WorkId : i \in ended => work'[i] = NoWork
            /\ \A i \in WorkId : i \notin ended => work'[i] = delayed[i]
        BY <2>6, FinishEnds
      <3> QED
        BY <3>1, <3>2, <3>3, Zenon DEF WorkId
    <2>8. delayed[id].open /\ delayed[id].referenced
      BY <2>1, <2>5, Zenon DEF Ensured, Kept, Inv, Stages
    <2>9. ~work'["verify"].open
      BY <2>1, <2>7, NoWorkIsRow, Zenon DEF Inv, Stages
    <2>10. TypeOK'
      BY <1>1, <1>2, <2>1, <2>7, Zenon DEF TypeOK, store, history
    <2>11. Finished'
      BY <2>7, <2>8, NoWorkIsRow DEF Inv, Finished, WorkId, Clear
    <2>12. Stages'
      BY <2>1, <2>7, <2>8, <2>9, Zenon DEF Inv, Stages
    <2> QED
      BY <1>1, <2>1, <2>7, <2>10, <2>11, <2>12, RowsStep, Zenon DEF Kept, Sealed, store, history

\* abandon.
LEMMA AbandonKeeps ==
    ASSUME Inv, Abandon
    PROVE  Inv'
  <1> DEFINE live == {"verify", "scan"}
             until == Larger(work["verify"].left, work["scan"].left)
             finished == Finish(work, live)
             referenced == EnsureReferencedDelete(finished)
             ensured == EnsureOrphanDelete(referenced, "published")
  <1>1. /\ UNCHANGED <<store, calls, worker, stray, history>>
        /\ upload.state \in {"pending", "quarantined", "rejected", "deleted"}
        /\ upload' = IF upload.state \in {"rejected", "deleted"} THEN upload
                     ELSE [To("rejected") EXCEPT !.abandoned = TRUE]
        /\ work' = [i \in WorkId |->
                        IF i \in live THEN ensured[i]
                        ELSE PutOff(ensured[i], until)]
    BY DEF Abandon
  <1>2. /\ TypeOK /\ work \in [WorkId -> WorkRow] /\ upload.credential \in Int
        /\ "rejected" \in States /\ "published" \in Key /\ DeleteOf("published") = "deletePublished"
    BY Constants DEF Inv, TypeOK, UploadRow, States, Key, DeleteOf
  <1>3. until \in Int
    BY <1>2, Constants DEF WorkRow, WorkId, Larger
  <1>5. /\ upload' \in UploadRow /\ upload'.credential = upload.credential
        /\ upload'.state = IF upload.state = "deleted" THEN "deleted" ELSE "rejected"
    <2>1. /\ To("rejected") \in UploadRow /\ To("rejected").state = "rejected"
          /\ To("rejected").credential = upload.credential
      BY <1>2, ToMoves, Zenon
    <2> DEFINE new == [To("rejected") EXCEPT !.abandoned = TRUE]
    <2>2. new \in UploadRow /\ new.state = "rejected" /\ new.credential = upload.credential
      BY <2>1, Zenon DEF UploadRow
    <2> HIDE DEF new
    <2> QED
      BY <1>1, <1>2, <2>2 DEF TypeOK, new
  <1>6. /\ finished \in [WorkId -> WorkRow]
        /\ finished["verify"] = NoWork /\ finished["scan"] = NoWork
        /\ finished["deleteStaging"] = work["deleteStaging"]
        /\ finished["deletePublished"] = work["deletePublished"]
    BY <1>2, FinishEnds DEF WorkId
  <1> HIDE DEF finished
  <1>7. Ensured(finished, referenced, "deleteStaging", TRUE)
    BY <1>2, <1>6, ReferencedDelete, Zenon
  <1> HIDE DEF referenced
  <1>8. Ensured(referenced, ensured, "deletePublished", FALSE)
    <2>1. referenced \in [WorkId -> WorkRow]
      BY <1>7, Zenon DEF Ensured
    <2> QED
      BY <1>2, <2>1, OrphanDelete, Zenon
  <1> HIDE DEF ensured, until
  <1>9. /\ ensured \in [WorkId -> WorkRow]
        /\ ensured["verify"] = NoWork /\ ensured["scan"] = NoWork
        /\ ensured["deleteStaging"] = referenced["deleteStaging"]
        /\ referenced["deletePublished"] = work["deletePublished"]
    BY <1>6, <1>7, <1>8, Zenon DEF Ensured, WorkId
  <1>10. /\ work' \in [WorkId -> WorkRow]
         /\ work'["verify"] = NoWork /\ work'["scan"] = NoWork
         /\ Kept(ensured["deleteStaging"], work'["deleteStaging"])
         /\ Kept(ensured["deletePublished"], work'["deletePublished"])
    <2> DEFINE new(i) == PutOff(ensured[i], until)
    <2>1. ASSUME NEW i \in WorkId PROVE new(i) \in WorkRow /\ Kept(ensured[i], new(i))
      BY <1>3, <1>9, DelayKeeps, Zenon
    <2>2. work' = [i \in WorkId |-> IF i \in live THEN ensured[i] ELSE new(i)]
      BY <1>1
    <2> HIDE DEF new
    <2>3. \A i \in WorkId : work'[i] = IF i \in live THEN ensured[i] ELSE new(i)
      BY <2>2, Zenon
    <2>4. work' \in [WorkId -> WorkRow]
      BY <1>9, <2>1, <2>2, Zenon
    <2> QED
      BY <1>9, <2>1, <2>3, <2>4, Zenon DEF WorkId
  <1>11. /\ work'["deleteStaging"].open = TRUE
         /\ work'["deletePublished"].open = TRUE
         /\ upload.state \in {"pending", "quarantined", "rejected"} => work'["deleteStaging"].referenced
         /\ work["deletePublished"].open => Kept(work["deletePublished"], work'["deletePublished"])
    BY <1>6, <1>7, <1>8, <1>9, <1>10 DEF Ensured, Kept, Inv, Stages
  <1>12. TypeOK'
    BY <1>1, <1>2, <1>5, <1>10 DEF TypeOK, store, history
  <1>13. Finished'
    BY <1>10, <1>11, NoWorkIsRow, Zenon DEF Finished, WorkId, Clear
  <1>14. Stages'
    BY <1>1, <1>5, <1>10, <1>11, NoWorkIsRow DEF Inv, Stages
  <1> QED
    BY <1>1, <1>5, <1>11, <1>12, <1>13, <1>14, RowsStep DEF Sealed, store, history

\* Orphan repair.
LEMMA RepairOrphanKeeps ==
    ASSUME Inv, NEW k \in Key, RepairOrphan(k)
    PROVE  Inv'
  <1>1. UNCHANGED <<store, calls, worker, stray, history>>
    BY Zenon DEF RepairOrphan
  <1>2. CASE Expired /\ RejectExpired
    BY <1>1, <1>2, ExpiryStep, Zenon DEF Inv, TypeOK, history
  <1>3. CASE ~Known(k) /\ work' = Insert(work, DeleteOf(k), FALSE, 0) /\ UNCHANGED upload
    <2>1. /\ DeleteOf(k) \in WorkId /\ DeleteOf(k) \in {"deleteStaging", "deletePublished"}
          /\ DeleteOf(k) = "deleteStaging" <=> k = "staging"
          /\ 0 \in Int /\ FALSE \in BOOLEAN /\ work \in [WorkId -> WorkRow]
      BY DEF DeleteOf, WorkId, Key, Inv, TypeOK
    <2>2. Ensured(work, Insert(work, DeleteOf(k), FALSE, 0), DeleteOf(k), FALSE)
      BY <2>1, InsertEnsures, Zenon
    <2>3. Ensured(work, work', DeleteOf(k), FALSE)
      BY <1>3, <2>2, Zenon
    <2>4. /\ k = "staging" => upload.state \notin {"none", "pending", "quarantined"}
          /\ k # "staging" => upload.state # "available"
      BY <1>3, Zenon DEF Known, RepairOrphan, Inv, Stages, Key
    <2> QED
      BY <1>1, <1>3, <2>1, <2>3, <2>4, EnsureSteps, Zenon DEF history, Inv, TypeOK, Stages
  <1> QED
    BY <1>2, <1>3, Zenon DEF RepairOrphan

-----------------------------------------------------------------------------
(* The reconcilers.                                                        *)

\* What the invariant says of one reconciler, with the types its arithmetic needs.
LEMMA Standing ==
    ASSUME Inv, NEW v \in Worker
    PROVE  /\ TaskOK(v) /\ CopyOK(v) /\ worker[v] \in WorkerState /\ worker[v].lease \in Nat
           /\ worker[v].item \in WorkId /\ work[worker[v].item] \in WorkRow
           /\ work["deletePublished"].left \in Nat
  BY Constants DEF Inv, Tasks, TypeOK, WorkerState, WorkRow, WorkId

\* No request is left behind.
LEMMA NoneSent ==
    ASSUME Inv, UNCHANGED <<store, stray>>, Sealed => Sealed'
    PROVE  stray' \subseteq Request /\ Strays'
  BY DEF Inv, TypeOK, Strays, store

\* One reconciler moves, and nothing else but rows.
LEMMA WorkerStep ==
    ASSUME Inv, NEW w \in Worker,
           UNCHANGED <<upload, store, calls, history>>, stray' \subseteq Request, Strays',
           worker' \in [Worker -> WorkerState],
           \A v \in Worker : v # w => worker'[v] = worker[v],
           work' \in [WorkId -> WorkRow], Finished', Stages',
           \A v \in Worker : v # w /\ work["deletePublished"].holder = v =>
               work'["deletePublished"] = work["deletePublished"],
           TaskOK(w)', CopyOK(w)'
    PROVE  Inv'
  <1>1. TypeOK'
    BY Zenon DEF Inv, TypeOK, store, history
  <1>2. ASSUME NEW v \in Worker, v # w PROVE TaskOK(v)' /\ CopyOK(v)'
    <2>1. TaskOK(v) /\ CopyOK(v) /\ worker[v].lease \in Nat /\ work["deletePublished"].left \in Nat
      BY Standing, Zenon
    <2>2. TaskOK(v)'
      BY <1>2, <2>1, TaskKept, Zenon DEF Sealed, store, history
    <2>3. CopyOK(v)'
      BY <1>2, <2>1, Zenon DEF CopyOK, store, history
    <2> QED
      BY <2>2, <2>3, Zenon
  <1>3. PublishedIsScanned' /\ OnlyUnfencedDeletesLoseBytes'
    BY Zenon DEF Inv, PublishedIsScanned, OnlyUnfencedDeletesLoseBytes, store, history
  <1> QED
    BY <1>1, <1>2, <1>3, Zenon DEF Inv, Tasks

\* No row is opened or finished.
LEMMA StagesKept ==
    ASSUME Stages, UNCHANGED <<upload, objects, listed>>,
           \A i \in WorkId : work'[i].open = work[i].open /\ work'[i].referenced = work[i].referenced,
           \/ work'["verify"].at = work["verify"].at
              /\ work'["verify"].holder \in {work["verify"].holder, NoOne}
           \/ Sealed /\ work'["verify"].at >= 0
    PROVE  Stages'
  BY Zenon DEF Stages, Sealed, WorkId

\* A reconciler that moves on within its claim.
LEMMA MovesTo ==
    ASSUME Inv, NEW w \in Worker,
           NEW pc \in {"idle", "claimed", "effect", "copy", "ok", "reject", "retry"}, Moves(w, pc)
    PROVE  /\ worker' \in [Worker -> WorkerState]
           /\ \A v \in Worker : v # w => worker'[v] = worker[v]
           /\ worker'[w].pc = pc /\ worker'[w].item = worker[w].item
           /\ worker'[w].lease = worker[w].lease
           /\ worker'[w].overtaken = worker[w].overtaken
  BY DEF Inv, TypeOK, Moves, WorkerState

LEMMA RestsAt ==
    ASSUME Inv, NEW w \in Worker, Rests(w)
    PROVE  /\ worker' \in [Worker -> WorkerState]
           /\ \A v \in Worker : v # w => worker'[v] = worker[v]
           /\ worker'[w].pc = "idle"
           /\ TaskOK(w)' /\ CopyOK(w)'
  <1>1. Resting \in WorkerState /\ Resting.pc = "idle"
    BY Constants DEF Resting, WorkerState, WorkId
  <1>2. /\ worker' \in [Worker -> WorkerState]
        /\ \A v \in Worker : v # w => worker'[v] = worker[v]
        /\ worker'[w] = Resting
    BY <1>1, Zenon DEF Inv, TypeOK, Rests
  <1> QED
    BY <1>1, <1>2, Zenon DEF TaskOK, CopyOK

\* A reconciler moves, and nothing else.
LEMMA MoveKeeps ==
    ASSUME Inv, NEW w \in Worker, UNCHANGED <<upload, work, store, calls, history>>,
           stray' \subseteq Request, Strays',
           worker' \in [Worker -> WorkerState],
           \A v \in Worker : v # w => worker'[v] = worker[v],
           TaskOK(w)', CopyOK(w)'
    PROVE  Inv'
  <1>1. work' \in [WorkId -> WorkRow] /\ Finished' /\ Stages'
    BY Zenon DEF Inv, TypeOK, Finished, Stages, store, history
  <1> QED
    BY <1>1, WorkerStep, Zenon

\* A request that a reconciler leaves behind is its own.
LEMMA SentIs ==
    ASSUME Inv, NEW w \in Worker, stray' \in {stray, stray \cup Sent(w)}, UNCHANGED <<upload, store>>
    PROVE  stray' \subseteq Request /\ Strays'
  <1>1. TaskOK(w) /\ stray \subseteq Request /\ Strays
    BY Standing DEF Inv, TypeOK
  <1>2. Sent(w) \subseteq Request /\ ("copy" \in Sent(w) => worker[w].pc = "copy")
    BY DEF Sent, At
  <1> QED
    BY <1>1, <1>2 DEF Strays, Sealed, TaskOK, store

LEMMA EffectsKeep ==
    ASSUME Inv, NEW w \in Worker, Verify(w) \/ Scan(w) \/ EffectFails(w)
    PROVE  Inv'
  <1>1. /\ TaskOK(w) /\ worker[w].item \in WorkId
        /\ UNCHANGED <<upload, work, store, calls, history>>
        /\ stray' \in {stray, stray \cup Sent(w)}
    BY Standing, Zenon DEF Verify, Scan, EffectFails
  <1>2. PICK pc \in {"ok", "reject", "copy", "retry"} :
            /\ Moves(w, pc)
            /\ worker[w].pc \in {"claimed", "effect", "copy"}
            /\ pc \in {"ok", "reject"} => worker[w].item \in {"verify", "scan"}
            /\ pc = "ok" => worker[w].item = "verify"
            /\ pc = "copy" => worker[w].item = "scan" /\ objects["staging"] = "declared"
    BY Zenon DEF Verify, Scan, EffectFails, Working, At
  <1>3. /\ worker' \in [Worker -> WorkerState]
        /\ \A v \in Worker : v # w => worker'[v] = worker[v]
        /\ worker'[w].pc = pc /\ worker'[w].item = worker[w].item
    BY <1>2, MovesTo, Zenon
  <1>4. TaskOK(w)'
    BY <1>1, <1>2, <1>3, Zenon DEF TaskOK, Sealed, store, history
  <1>5. CopyOK(w)'
    BY <1>2, <1>3, Zenon DEF CopyOK
  <1> QED
    BY <1>1, <1>3, <1>4, <1>5, SentIs, MoveKeeps, Zenon

LEMMA LostLeaseKeeps ==
    ASSUME Inv, NEW w \in Worker, LostLease(w) \/ WorkerDies(w)
    PROVE  Inv'
  <1>1. /\ Rests(w) /\ UNCHANGED <<upload, work, store, calls, history>>
        /\ stray' \in {stray, stray \cup Sent(w)}
    BY Zenon DEF LostLease, WorkerDies
  <1> QED
    BY <1>1, SentIs, RestsAt, MoveKeeps, Zenon

LEMMA RetryKeeps ==
    ASSUME Inv, NEW w \in Worker, Retry(w)
    PROVE  Inv'
  <1> DEFINE id == worker[w].item
             row == [work[id] EXCEPT !.at = RetryDelay, !.holder = NoOne, !.left = 0]
  <1>1. /\ Rests(w) /\ UNCHANGED <<upload, store, calls, stray, history>>
        /\ worker[w].pc = "retry" /\ work[id].holder = w
        /\ work' = [work EXCEPT ![id] = row]
    BY Zenon DEF Retry, Holds, At, Inv, TypeOK
  <1>2. id \in WorkId /\ work[id] \in WorkRow /\ work \in [WorkId -> WorkRow] /\ TaskOK(w)
    BY Standing, Zenon DEF Inv, TypeOK
  <1>3. row \in WorkRow
    <2>1. RetryDelay \in Int /\ 0 \in 0..Lease /\ NoOne \in Worker \cup {NoOne}
      BY Constants
    <2> QED
      BY <1>2, <2>1, Zenon DEF WorkRow
  <1>4. /\ row.open = work[id].open
        /\ row.referenced = work[id].referenced
        /\ row.at = RetryDelay /\ row.holder = NoOne /\ row.left = 0
    BY <1>2, Zenon DEF WorkRow
  <1> HIDE DEF row, id
  <1>5. /\ work' \in [WorkId -> WorkRow] /\ work'[id] = row
        /\ \A i \in WorkId : i # id => work'[i] = work[i]
    BY <1>1, <1>2, <1>3, Zenon
  <1>6. Finished'
    BY <1>4, <1>5, Zenon DEF Inv, Finished
  <1>7. id = "verify" => Sealed
    BY <1>1, <1>2, Zenon DEF TaskOK, id
  <1>8. Stages'
    <2>1. \A i \in WorkId : work'[i].open = work[i].open /\ work'[i].referenced = work[i].referenced
      BY <1>4, <1>5, Zenon
    <2>2. CASE id = "verify"
      <3>1. Sealed /\ work'["verify"].at >= 0
        BY <1>4, <1>5, <1>7, <2>2, Constants
      <3> QED
        BY <1>1, <2>1, <3>1, StagesKept, Zenon DEF Inv, store, history
    <2>3. CASE id # "verify"
      <3>1. work'["verify"] = work["verify"]
        BY <1>5, <2>3, Zenon DEF WorkId
      <3> QED
        BY <1>1, <2>1, <3>1, StagesKept, Zenon DEF Inv, store, history
    <2> QED
      BY <2>2, <2>3, Zenon
  <1>9. \A v \in Worker : v # w /\ work["deletePublished"].holder = v =>
            work'["deletePublished"] = work["deletePublished"]
    BY <1>1, <1>4, <1>5, Zenon DEF WorkId
  <1> QED
    BY <1>1, <1>5, <1>6, <1>8, <1>9, NoneSent, RestsAt, WorkerStep, Zenon DEF Sealed

\* begin_publication.
LEMMA BeginPublicationKeeps ==
    ASSUME Inv, NEW w \in Worker, BeginPublication(w)
    PROVE  Inv'
  <1> DEFINE row == [work["scan"] EXCEPT !.left = Lease]
  <1>1. /\ UNCHANGED <<upload, store, calls, stray, history>>
        /\ worker[w].pc = "claimed" /\ work[worker[w].item].left > 0
        /\ work' = [work EXCEPT !["scan"] = row]
        /\ Moves(w, "effect")
    BY Zenon DEF BeginPublication, Holds, At
  <1>2. /\ work \in [WorkId -> WorkRow] /\ "scan" \in WorkId /\ work["scan"] \in WorkRow
        /\ TaskOK(w)
    BY Standing, Zenon DEF Inv, TypeOK, WorkId
  <1>3. worker[w].item = "scan" /\ Sealed
    BY <1>1, <1>2, Zenon DEF TaskOK
  <1>4. /\ row \in WorkRow
        /\ row.open = work["scan"].open /\ row.referenced = work["scan"].referenced
    BY <1>2, Constants DEF WorkRow
  <1>5. /\ worker' \in [Worker -> WorkerState]
        /\ worker'[w].pc = "effect" /\ worker'[w].item = worker[w].item
        /\ \A v \in Worker : v # w => worker'[v] = worker[v]
    BY <1>1, MovesTo
  <1>6. work["scan"].open
    BY <1>1, <1>2, <1>3 DEF Inv, Finished
  <1> HIDE DEF row
  <1>7. /\ work' \in [WorkId -> WorkRow] /\ work'["scan"] = row
        /\ \A i \in WorkId : i # "scan" => work'[i] = work[i]
    BY <1>1, <1>2, <1>4, Zenon
  <1>8. Finished'
    BY <1>4, <1>6, <1>7, Zenon DEF Inv, Finished
  <1>9. Stages'
    <2>1. \A i \in WorkId : work'[i].open = work[i].open /\ work'[i].referenced = work[i].referenced
      BY <1>4, <1>7, Zenon
    <2>2. work'["verify"] = work["verify"]
      BY <1>7, Zenon DEF WorkId
    <2> QED
      BY <1>1, <2>1, <2>2, StagesKept, Zenon DEF Inv, store, history
  <1>10. TaskOK(w)' /\ CopyOK(w)'
    BY <1>1, <1>3, <1>5, <1>7, Zenon DEF TaskOK, CopyOK, Sealed
  <1>11. work'["deletePublished"] = work["deletePublished"]
    BY <1>7, Zenon DEF WorkId
  <1> QED
    BY <1>1, <1>5, <1>7, <1>8, <1>9, <1>10, <1>11, NoneSent, WorkerStep, Zenon DEF Sealed

\* claim, with the sweep of expired uploads before it.
LEMMA ClaimKeeps ==
    ASSUME Inv, NEW w \in Worker, NEW id \in WorkId, Claim(w, id)
    PROVE  Inv'
  <1> DEFINE row == [Swept[id] EXCEPT !.holder = w, !.left = Lease, !.attempts = @ + 1]
             me == [Resting EXCEPT !.pc = IF id = "scan" THEN "claimed" ELSE "effect", !.item = id,
                                   !.lease = IF id = "deletePublished" THEN Lease ELSE 0]
  <1>1. /\ UNCHANGED <<store, calls, stray, history>>
        /\ Claimable(Swept[id]) /\ worker[w].pc = "idle"
        /\ id \in {"verify", "scan"} => upload.state = "quarantined"
        /\ upload' = IF Expired THEN To("rejected") ELSE upload
        /\ work' = [Swept EXCEPT ![id] = row]
        /\ worker' = [worker EXCEPT ![w] = me]
    BY Zenon DEF Claim, Sweep, At
  <1>2. /\ TypeOK /\ work \in [WorkId -> WorkRow] /\ "rejected" \in States
        /\ worker \in [Worker -> WorkerState]
        /\ Expired => upload.state = "pending"
    BY Zenon DEF Inv, TypeOK, States, Expired
  <1>3. /\ upload' \in UploadRow /\ upload'.credential = upload.credential
        /\ upload'.state = IF Expired THEN "rejected" ELSE upload.state
    BY <1>1, <1>2, ToMoves DEF TypeOK
  <1>4. /\ Swept \in [WorkId -> WorkRow]
        /\ Swept["scan"] = work["scan"] /\ Swept["deletePublished"] = work["deletePublished"]
        /\ ~Expired => Swept = work
        /\ Expired => /\ Swept["verify"] = NoWork
                      /\ Swept["deleteStaging"].open = TRUE
                      /\ Swept["deleteStaging"].referenced = TRUE
    BY <1>2, ExpiredRows, Zenon DEF Swept
  <1>5. Swept[id] \in WorkRow /\ Swept[id].open /\ Swept[id].at = 0 /\ Swept[id].left = 0
    BY <1>1, <1>4 DEF Claimable
  <1>6. /\ row \in WorkRow /\ row.holder = w /\ row.left = Lease
        /\ row.open = Swept[id].open
        /\ row.referenced = Swept[id].referenced
        /\ row.at = Swept[id].at
    <2> DEFINE n == Swept[id].attempts + 1
    <2>1. n \in 0..MaxAttempts /\ Lease \in 0..Lease /\ w \in Worker \cup {NoOne}
      BY <1>1, <1>5, Constants DEF Claimable, WorkRow
    <2>2. row = [Swept[id] EXCEPT !.holder = w, !.left = Lease, !.attempts = n]
      OBVIOUS
    <2> HIDE DEF n, row
    <2>3. row \in WorkRow
      BY <1>5, <2>1, <2>2, Zenon DEF WorkRow
    <2> QED
      BY <1>5, <2>2, <2>3, Zenon DEF WorkRow
  <1>7. /\ me \in WorkerState /\ me.item = id
        /\ me.lease = IF id = "deletePublished" THEN Lease ELSE 0
        /\ me.pc = IF id = "scan" THEN "claimed" ELSE "effect"
    <2> DEFINE pc == IF id = "scan" THEN "claimed" ELSE "effect"
               lease == IF id = "deletePublished" THEN Lease ELSE 0
    <2>1. pc \in {"claimed", "effect"} /\ lease \in 0..Lease
      BY Constants
    <2>2. me = [Resting EXCEPT !.pc = pc, !.item = id, !.lease = lease]
      OBVIOUS
    <2> HIDE DEF pc, lease, me
    <2>3. Resting \in WorkerState
      BY Constants DEF Resting, WorkerState, WorkId
    <2>4. me \in WorkerState /\ me.item = id /\ me.lease = lease /\ me.pc = pc
      BY <2>1, <2>2, <2>3 DEF WorkerState
    <2> QED
      BY <2>4, Zenon DEF pc, lease
  <1> HIDE DEF row, me
  <1>8. /\ work' \in [WorkId -> WorkRow] /\ work'[id] = row
        /\ \A i \in WorkId : i # id => work'[i] = Swept[i]
        /\ worker' \in [Worker -> WorkerState] /\ worker'[w] = me
        /\ \A v \in Worker : v # w => worker'[v] = worker[v]
    BY <1>1, <1>2, <1>4, <1>6, <1>7, Zenon
  <1>9. \A i \in WorkId : /\ work'[i].open = Swept[i].open
                          /\ work'[i].referenced = Swept[i].referenced
                          /\ work'[i].at = Swept[i].at
    BY <1>6, <1>8, Zenon
  <1>10. TypeOK'
    BY <1>1, <1>2, <1>3, <1>8, Zenon DEF TypeOK, store, history
  <1>11. Finished'
    <2> SUFFICES ASSUME NEW i \in WorkId, ~work'[i].open
                 PROVE  work'[i].holder = NoOne /\ work'[i].left = 0
      BY Zenon DEF Finished
    <2>1. i # id /\ work'[i] = Swept[i]
      BY <1>5, <1>8, <1>9, Zenon
    <2> QED
      BY <1>4, <2>1, NoWorkIsRow DEF Inv, Finished, WorkId, Clear
  <1>12. id = "verify" => upload.credential = 0 /\ upload.state = "quarantined"
    BY <1>1, <1>2, <1>4, <1>5, Constants DEF Inv, Stages, Expired, TypeOK, UploadRow
  <1>13. Stages'
    <2>1. CASE Expired
      BY <1>2, <1>3, <1>4, <1>9, <2>1, NoWorkIsRow, Zenon DEF Inv, Stages, WorkId
    <2>2. CASE ~Expired
      <3>1. id = "verify" => Sealed /\ work'["verify"].at >= 0
        BY <1>5, <1>9, <1>12 DEF Sealed
      <3>2. id # "verify" => work'["verify"] = work["verify"]
        BY <1>4, <1>8, <2>2, Zenon DEF WorkId
      <3>3. UNCHANGED <<upload, objects, listed>>
        BY <1>1, <2>2, Zenon DEF store, history
      <3> QED
        BY <1>4, <1>9, <2>2, <3>1, <3>2, <3>3, StagesKept, Zenon DEF Inv
    <2> QED
      BY <2>1, <2>2
  <1>14. Sealed => Sealed'
    BY <1>2, <1>3, Zenon DEF Sealed
  <1>15. TaskOK(w)' /\ CopyOK(w)'
    <2>1. id \in {"verify", "scan"} => Sealed
      BY <1>1, <1>4, <1>5, <1>12, Zenon DEF Inv, Stages, Sealed, Expired
    <2> QED
      BY <1>6, <1>7, <1>8, <1>9, <1>14, <1>5, <2>1, Constants, Zenon DEF TaskOK, CopyOK, WorkId
  <1>16. ASSUME NEW v \in Worker, v # w PROVE TaskOK(v)' /\ CopyOK(v)'
    <2>1. TaskOK(v) /\ CopyOK(v) /\ worker[v].lease \in Nat /\ work["deletePublished"].left \in Nat
      BY Standing, Zenon
    <2>2. work["deletePublished"].left > 0 => work'["deletePublished"] = work["deletePublished"]
      BY <1>4, <1>5, <1>8 DEF WorkId
    <2>3. TaskOK(v)'
      BY <1>1, <1>8, <1>14, <1>16, <2>1, <2>2, TaskKept, Zenon DEF store, history
    <2>4. CopyOK(v)'
      BY <1>1, <1>2, <1>3, <1>8, <1>16, <2>1, Zenon DEF CopyOK, store, history
    <2> QED
      BY <2>3, <2>4, Zenon
  <1>17. PublishedIsScanned' /\ OnlyUnfencedDeletesLoseBytes'
    BY <1>1, <1>3, Zenon DEF Inv, PublishedIsScanned, OnlyUnfencedDeletesLoseBytes, store, history
  <1> QED
    BY <1>1, <1>10, <1>11, <1>13, <1>14, <1>15, <1>16, <1>17, NoneSent, Zenon DEF Inv, Tasks

\* A copy by the store, of what was scanned.
LEMMA CopyKeeps ==
    ASSUME Inv, Copies, Sealed, objects["staging"] # "other",
           UNCHANGED <<upload, work, calls>>, stray' \subseteq stray,
           worker' \in [Worker -> WorkerState],
           \A v \in Worker : \/ worker'[v] = worker[v]
                             \/ worker'[v].pc \in {"ok", "retry"} /\ worker'[v].item = "scan"
    PROVE  Inv'
  <1>1. /\ objects \in [Key -> {"none", "declared", "other"}] /\ fresh \in [Key -> 0..Grace]
        /\ "staging" \in Key /\ "published" \in Key
    BY Zenon DEF Inv, TypeOK, Key
  <1>2. objects["staging"] = "declared" /\ Write("published", "declared")
        /\ deletion' = "none" /\ unseen' = unseen
    BY <1>1 DEF Copies
  <1>3. /\ objects' \in [Key -> {"none", "declared", "other"}]
        /\ objects'["published"] = "declared" /\ objects'["staging"] = objects["staging"]
        /\ listed' = listed
    BY <1>1, <1>2 DEF Write
  <1>4. fresh' \in [Key -> 0..Grace]
    <2>1. (IF "published" \in listed THEN 0 ELSE Grace) \in 0..Grace
      BY Constants
    <2> QED
      BY <1>1, <1>2, <2>1, Zenon DEF Write
  <1>5. TypeOK'
    BY <1>2, <1>3, <1>4 DEF Inv, TypeOK
  <1>6. Finished' /\ Stages'
    BY Zenon DEF Inv, Finished, Stages, Sealed
  <1>7. ASSUME NEW v \in Worker PROVE TaskOK(v)' /\ CopyOK(v)'
    <2>1. TaskOK(v)
      BY Standing, Zenon
    <2>2. CASE worker'[v] = worker[v]
      BY <1>3, <2>1, <2>2, Zenon DEF TaskOK, CopyOK, Sealed
    <2>3. CASE worker'[v].pc \in {"ok", "retry"} /\ worker'[v].item = "scan"
      BY <1>3, <2>3, Zenon DEF TaskOK, CopyOK, Sealed
    <2> QED
      BY <2>2, <2>3, Zenon
  <1>8. PublishedIsScanned' /\ OnlyUnfencedDeletesLoseBytes' /\ Strays'
    BY <1>3, Zenon DEF PublishedIsScanned, OnlyUnfencedDeletesLoseBytes, Strays, Sealed
  <1> QED
    BY <1>5, <1>6, <1>7, <1>8, Zenon DEF Inv, Tasks

\* A delete by the store.  One of the publication of an available upload is late.
LEMMA EraseKeeps ==
    ASSUME Inv, NEW id \in {"deleteStaging", "deletePublished"}, NEW late \in BOOLEAN,
           Erases(id, late), UNCHANGED <<upload, work, calls>>, stray' \subseteq stray,
           worker' \in [Worker -> WorkerState],
           \A v \in Worker : \/ worker'[v] = worker[v]
                             \/ /\ worker'[v].pc \in {"ok", "retry"}
                                /\ worker'[v].item \in {"deleteStaging", "deletePublished"},
           id = "deletePublished" /\ ~late => upload.state # "available"
    PROVE  Inv'
  <1>1. /\ objects \in [Key -> {"none", "declared", "other"}] /\ fresh \in [Key -> 0..Grace]
        /\ "staging" \in Key /\ "published" \in Key /\ KeyOf(id) \in Key /\ 0 \in 0..Grace
    BY Constants DEF Inv, TypeOK, Key, KeyOf
  <1>2. /\ objects' \in [Key -> {"none", "declared", "other"}] /\ fresh' \in [Key -> 0..Grace]
        /\ listed' = listed /\ unseen' = unseen
        /\ deletion' \in {"none", "unrecorded", "late"}
    BY <1>1, Zenon DEF Erases, Inv, TypeOK
  <1>3. /\ objects'["staging"] \in {objects["staging"], "none"}
        /\ objects'["published"] \in {objects["published"], "none"}
        /\ upload.state = "none" => objects' = objects
        /\ id = "deleteStaging" => deletion' = deletion /\ objects'["published"] = objects["published"]
        /\ id = "deletePublished" => deletion' = IF late THEN "late" ELSE "unrecorded"
    BY <1>1 DEF Erases, KeyOf, Inv, Stages
  <1>4. TypeOK'
    BY <1>2 DEF Inv, TypeOK
  <1>5. Finished' /\ Stages'
    BY <1>2, <1>3, Zenon DEF Inv, Finished, Stages
  <1>6. ASSUME NEW v \in Worker PROVE TaskOK(v)' /\ CopyOK(v)'
    <2>1. TaskOK(v) /\ CopyOK(v)
      BY Standing, Zenon
    <2>2. CASE worker'[v] = worker[v]
      BY <1>3, <2>1, <2>2 DEF TaskOK, CopyOK, Sealed
    <2>3. CASE worker'[v].pc \in {"ok", "retry"} /\ worker'[v].item \in {"deleteStaging", "deletePublished"}
      BY <2>3, Zenon DEF TaskOK, CopyOK
    <2> QED
      BY <2>2, <2>3, Zenon
  <1>7. PublishedIsScanned' /\ OnlyUnfencedDeletesLoseBytes' /\ Strays'
    BY <1>2, <1>3 DEF Inv, PublishedIsScanned, OnlyUnfencedDeletesLoseBytes, Strays, Sealed
  <1> QED
    BY <1>4, <1>5, <1>6, <1>7, Zenon DEF Inv, Tasks

\* publish_effect.
LEMMA PublishKeeps ==
    ASSUME Inv, NEW w \in Worker, Publish(w)
    PROVE  Inv'
  <1>1. /\ UNCHANGED <<upload, work, calls, stray>>
        /\ worker[w].pc = "copy" /\ worker[w].item = "scan"
    BY Zenon DEF Publish, Working, At
  <1>2. TaskOK(w) /\ Sealed /\ objects["staging"] # "other"
    BY <1>1, Standing, Zenon DEF TaskOK
  <1>3. CASE objects["staging"] = "none" /\ Moves(w, "reject") /\ UNCHANGED <<store, history>>
    <2>1. /\ worker' \in [Worker -> WorkerState]
          /\ \A v \in Worker : v # w => worker'[v] = worker[v]
          /\ worker'[w].pc = "reject" /\ worker'[w].item = worker[w].item
      BY <1>3, MovesTo, Zenon
    <2>2. TaskOK(w)' /\ CopyOK(w)'
      BY <1>1, <1>2, <2>1, Zenon DEF TaskOK, CopyOK, Sealed
    <2> QED
      BY <1>1, <1>3, <2>1, <2>2, NoneSent, MoveKeeps, Zenon DEF Sealed
  <1>4. CASE Copies /\ \E pc \in {"ok", "retry"} : Moves(w, pc)
    <2>1. /\ worker' \in [Worker -> WorkerState]
          /\ \A v \in Worker : v # w => worker'[v] = worker[v]
          /\ worker'[w].pc \in {"ok", "retry"} /\ worker'[w].item = "scan"
      BY <1>1, <1>4, MovesTo, Zenon
    <2> QED
      BY <1>1, <1>2, <1>4, <2>1, CopyKeeps, Zenon
  <1> QED
    BY <1>3, <1>4, Zenon DEF Publish

\* delete_effect.  A delete of the publication under a lease that is live finds the upload
\* not available.
LEMMA DeleteKeeps ==
    ASSUME Inv, NEW w \in Worker, Delete(w)
    PROVE  Inv'
  <1> DEFINE id == worker[w].item
             late == worker[w].lease = 0
  <1>1. /\ UNCHANGED <<upload, work, calls, stray>>
        /\ worker[w].pc = "effect" /\ id \in {"deleteStaging", "deletePublished"}
        /\ Erases(id, late)
        /\ \E pc \in {"ok", "retry"} : Moves(w, pc)
    BY Zenon DEF Delete, Working, At
  <1>2. /\ worker' \in [Worker -> WorkerState]
        /\ \A v \in Worker : v # w => worker'[v] = worker[v]
        /\ worker'[w].pc \in {"ok", "retry"} /\ worker'[w].item = id
    BY <1>1, MovesTo, Zenon
  <1>3. id = "deletePublished" /\ ~late => upload.state # "available"
    <2>1. TaskOK(w) /\ worker[w].lease \in Nat /\ Stages
      BY <1>1, Standing, Zenon DEF Inv
    <2> QED
      BY <1>1, <2>1 DEF TaskOK, Stages
  <1>4. late \in BOOLEAN
    OBVIOUS
  <1> HIDE DEF id, late
  <1> QED
    BY <1>1, <1>2, <1>3, <1>4, EraseKeeps, Zenon

\* A request that was given up.
LEMMA LateEffectKeeps ==
    ASSUME Inv, NEW request \in Request, LateEffect(request)
    PROVE  Inv'
  <1>1. /\ UNCHANGED <<upload, work, calls, worker>> /\ stray' \subseteq stray
        /\ request \in stray /\ worker' \in [Worker -> WorkerState]
    BY DEF LateEffect, Inv, TypeOK
  <1>2. CASE request = "copy" /\ Copies
    BY <1>1, <1>2, CopyKeeps, Zenon DEF Inv, Strays
  <1>3. CASE request # "copy" /\ Erases(request, TRUE)
    <2>1. request \in {"deleteStaging", "deletePublished"} /\ TRUE \in BOOLEAN
      BY <1>3 DEF Request
    <2> QED
      BY <1>1, <1>3, <2>1, EraseKeeps, Zenon
  <1> QED
    BY <1>2, <1>3, Zenon DEF LateEffect

\* A reconciler ends its work in one transaction.
LEMMA FinalStep ==
    ASSUME Inv, NEW w \in Worker, UNCHANGED <<store, calls, stray>>,
           upload' \in UploadRow, work' \in [WorkId -> WorkRow],
           unseen' \in BOOLEAN, deletion' \in {"none", "unrecorded", "late"},
           worker' \in [Worker -> WorkerState], worker'[w].pc = "idle",
           \A v \in Worker : v # w =>
              /\ worker'[v].pc = worker[v].pc /\ worker'[v].item = worker[v].item
              /\ worker'[v].lease = worker[v].lease
              /\ worker[v].overtaken => worker'[v].overtaken
              /\ work["deletePublished"].holder = v /\ work["deletePublished"].left > 0 =>
                    work'["deletePublished"] = work["deletePublished"]
              /\ \/ deletion' = deletion
                 \/ upload'.state # "quarantined"
                 \/ worker[v].item = "scan" /\ worker[v].pc = "ok" => worker'[v].overtaken,
           Finished', Stages', Sealed => Sealed',
           upload'.state = "quarantined" => upload.state = "quarantined",
           OnlyUnfencedDeletesLoseBytes'
    PROVE  Inv'
  <1>1. TypeOK'
    BY Zenon DEF Inv, TypeOK, store, history
  <1>2. ASSUME NEW v \in Worker PROVE TaskOK(v)' /\ CopyOK(v)'
    <2>1. TaskOK(v) /\ CopyOK(v) /\ worker[v].lease \in Nat /\ work["deletePublished"].left \in Nat
      BY Standing, Zenon
    <2>2. CASE v = w
      BY <2>2, Zenon DEF TaskOK, CopyOK
    <2>3. CASE v # w
      <3>1. TaskOK(v)'
        BY <2>1, <2>3, TaskKept, Zenon DEF store, history
      <3>2. CopyOK(v)'
        BY <2>1, <2>3, Zenon DEF CopyOK, store, history
      <3> QED
        BY <3>1, <3>2, Zenon
    <2> QED
      BY <2>2, <2>3, Zenon
  <1>3. PublishedIsScanned' /\ Strays'
    BY NoneSent, Zenon DEF Inv, PublishedIsScanned, store
  <1> QED
    BY <1>1, <1>2, <1>3, Zenon DEF Inv, Tasks

\* lock_live_work.
LEMMA Held ==
    ASSUME Inv, NEW w \in Worker, Holds(w)
    PROVE  /\ worker[w].item \in WorkId /\ work[worker[w].item].open
           /\ work[worker[w].item].holder = w /\ work[worker[w].item].left > 0
           /\ work \in [WorkId -> WorkRow]
  BY Standing DEF Inv, TypeOK, Finished, Holds

\* A row that is inserted and one that is finished.
LEMMA InsertThenFinish ==
    ASSUME work \in [WorkId -> WorkRow], NEW id \in WorkId, NEW ids, id \notin ids
    PROVE  LET new == Finish(Insert(work, id, TRUE, 0), ids) IN
           /\ new \in [WorkId -> WorkRow]
           /\ \A i \in WorkId : i \in ids => new[i] = NoWork
           /\ \A i \in WorkId : i # id /\ i \notin ids => new[i] = work[i]
           /\ new[id].open = TRUE
           /\ ~work[id].open => new[id].referenced = TRUE /\ Clear(new[id])
  <1> DEFINE mid == Insert(work, id, TRUE, 0)
  <1>1. 0 \in Int /\ TRUE \in BOOLEAN
    OBVIOUS
  <1>2. Ensured(work, mid, id, TRUE)
    BY <1>1, InsertEnsures, Zenon
  <1> HIDE DEF mid
  <1>3. mid \in [WorkId -> WorkRow]
    BY <1>2, Zenon DEF Ensured
  <1>4. /\ Finish(mid, ids) \in [WorkId -> WorkRow]
        /\ \A i \in WorkId : i \in ids => Finish(mid, ids)[i] = NoWork
        /\ \A i \in WorkId : i \notin ids => Finish(mid, ids)[i] = mid[i]
    BY <1>3, FinishEnds, Zenon
  <1> QED
    BY <1>2, <1>4, Zenon DEF Ensured, mid

\* complete_verification.
LEMMA CompleteVerificationKeeps ==
    ASSUME Inv, NEW w \in Worker, CompleteVerification(w)
    PROVE  Inv'
  <1>1. /\ UNCHANGED <<store, calls, stray, history>> /\ Rests(w) /\ Holds(w)
        /\ worker[w].pc = "ok" /\ worker[w].item = "verify" /\ upload.state = "quarantined"
        /\ upload' = [upload EXCEPT !.verified = TRUE]
        /\ work' = Finish(Insert(work, "scan", TRUE, 0), {"verify"})
    BY DEF CompleteVerification, At
  <1>2. /\ work["verify"].open /\ TaskOK(w) /\ upload \in UploadRow /\ work \in [WorkId -> WorkRow]
        /\ "scan" \in WorkId /\ "scan" \notin {"verify"}
    BY <1>1, Held, Standing, Zenon DEF Inv, TypeOK, WorkId
  <1>3. Sealed /\ ~work["scan"].open
    BY <1>1, <1>2 DEF TaskOK, Inv, Stages
  <1>4. upload' \in UploadRow /\ upload'.state = "quarantined" /\ upload'.credential = 0
    BY <1>1, <1>2, <1>3, Zenon DEF UploadRow, Sealed
  <1>5. /\ work' \in [WorkId -> WorkRow]
        /\ work'["verify"] = NoWork
        /\ work'["deleteStaging"] = work["deleteStaging"]
        /\ work'["deletePublished"] = work["deletePublished"]
        /\ work'["scan"].open = TRUE
    <2> DEFINE ids == {"verify"}
               new == Finish(Insert(work, "scan", TRUE, 0), ids)
    <2>1. /\ new \in [WorkId -> WorkRow]
          /\ \A i \in WorkId : i \in ids => new[i] = NoWork
          /\ \A i \in WorkId : i # "scan" /\ i \notin ids => new[i] = work[i]
          /\ new["scan"].open = TRUE
          /\ ~work["scan"].open => new["scan"].referenced = TRUE /\ Clear(new["scan"])
      <3>1. "scan" \notin ids
        BY <1>2
      <3> HIDE DEF ids
      <3> QED
        BY <1>2, <3>1, InsertThenFinish, Zenon
    <2>2. work' = new
      BY <1>1
    <2> HIDE DEF new
    <2> QED
      BY <2>1, <2>2 DEF WorkId
  <1>6. Finished'
    BY <1>5, NoWorkIsRow DEF Inv, Finished, WorkId, Clear
  <1>7. Stages'
    BY <1>1, <1>4, <1>5, NoWorkIsRow, Zenon DEF Inv, Stages
  <1>8. Sealed' /\ OnlyUnfencedDeletesLoseBytes'
    BY <1>4, Zenon DEF Sealed, OnlyUnfencedDeletesLoseBytes
  <1>9. /\ worker' \in [Worker -> WorkerState] /\ worker'[w].pc = "idle"
        /\ \A v \in Worker : v # w => worker'[v] = worker[v]
    BY <1>1, RestsAt
  <1>10. /\ UNCHANGED <<store, calls, stray, deletion>>
         /\ unseen' \in BOOLEAN /\ deletion' \in {"none", "unrecorded", "late"}
         /\ upload'.state = "quarantined" => upload.state = "quarantined"
    BY <1>1, Zenon DEF history, Inv, TypeOK
  <1> QED
    BY <1>4, <1>5, <1>6, <1>7, <1>8, <1>9, <1>10, FinalStep, Zenon

\* reject_leased.
LEMMA RejectLeasedKeeps ==
    ASSUME Inv, NEW w \in Worker, RejectLeased(w)
    PROVE  Inv'
  <1>1. /\ UNCHANGED <<store, calls, stray, history>> /\ Rests(w) /\ Holds(w)
        /\ worker[w].pc = "reject" /\ upload.state = "quarantined"
        /\ upload' = To("rejected")
        /\ work' = Finish(Insert(work, "deleteStaging", TRUE, 0), {worker[w].item})
    BY Zenon DEF RejectLeased, At
  <1>2. /\ work[worker[w].item].open /\ TaskOK(w) /\ TypeOK /\ work \in [WorkId -> WorkRow]
        /\ "deleteStaging" \in WorkId /\ "rejected" \in States
    BY <1>1, Held, Standing, Zenon DEF Inv, TypeOK, WorkId, States
  <1>3. Sealed /\ worker[w].item \in {"verify", "scan"} /\ ~work["deleteStaging"].open
        /\ "deleteStaging" \notin {worker[w].item}
    BY <1>1, <1>2, Zenon DEF TaskOK, Inv, Stages
  <1>4. upload' \in UploadRow /\ upload'.state = "rejected" /\ upload'.credential = 0
    BY <1>1, <1>2, <1>3, ToMoves, Zenon DEF Sealed
  <1>5. /\ work' \in [WorkId -> WorkRow]
        /\ work'[worker[w].item] = NoWork
        /\ \A i \in WorkId : i # worker[w].item /\ i # "deleteStaging" => work'[i] = work[i]
        /\ work'["deleteStaging"].open = TRUE
        /\ work'["deleteStaging"].referenced = TRUE
    <2> DEFINE ids == {worker[w].item}
               new == Finish(Insert(work, "deleteStaging", TRUE, 0), ids)
    <2>1. /\ new \in [WorkId -> WorkRow]
          /\ \A i \in WorkId : i \in ids => new[i] = NoWork
          /\ \A i \in WorkId : i # "deleteStaging" /\ i \notin ids => new[i] = work[i]
          /\ new["deleteStaging"].open = TRUE
          /\ ~work["deleteStaging"].open =>
                new["deleteStaging"].referenced = TRUE /\ Clear(new["deleteStaging"])
      <3> HIDE DEF ids
      <3>1. "deleteStaging" \notin ids
        BY <1>3, Zenon DEF ids
      <3> QED
        BY <1>2, <3>1, InsertThenFinish, Zenon
    <2>2. worker[w].item \in WorkId
      BY <1>3, Zenon DEF WorkId
    <2>3. work' = new
      BY <1>1, Zenon
    <2> HIDE DEF new
    <2> QED
      BY <1>3, <2>1, <2>2, <2>3, Zenon
  <1>6. ~work'["verify"].open /\ ~work'["scan"].open
        /\ work'["deletePublished"] = work["deletePublished"]
    BY <1>1, <1>2, <1>3, <1>5, NoWorkIsRow, Zenon DEF Inv, Stages, WorkId
  <1>7. Finished'
    BY <1>5, NoWorkIsRow, Zenon DEF Inv, Finished, WorkId, Clear
  <1>8. Stages'
    BY <1>4, <1>5, <1>6, Zenon DEF Stages
  <1>9. Sealed' /\ OnlyUnfencedDeletesLoseBytes'
    BY <1>4, Zenon DEF Sealed, OnlyUnfencedDeletesLoseBytes
  <1>10. /\ worker' \in [Worker -> WorkerState] /\ worker'[w].pc = "idle"
         /\ \A v \in Worker : v # w => worker'[v] = worker[v]
    BY <1>1, RestsAt, Zenon
  <1>11. /\ UNCHANGED <<store, calls, stray, deletion>>
         /\ unseen' \in BOOLEAN /\ deletion' \in {"none", "unrecorded", "late"}
         /\ upload'.state # "quarantined"
    BY <1>1, <1>4, Zenon DEF Inv, TypeOK, history
  <1> QED
    BY <1>4, <1>5, <1>6, <1>7, <1>8, <1>9, <1>10, <1>11, FinalStep, Zenon

\* complete_scan_clean.  The fence rules out a recorded delete and a live one; one that took
\* place unrecorded is what `unseen' says.
LEMMA CompleteScanCleanKeeps ==
    ASSUME Inv, NEW w \in Worker, CompleteScanClean(w)
    PROVE  Inv'
  <1> DEFINE d == "deletePublished"
             mid == EnsureOrphanDelete(work, "staging")
  <1>1. /\ UNCHANGED <<store, calls, stray, deletion>> /\ Rests(w) /\ Holds(w)
        /\ worker[w].pc = "ok" /\ worker[w].item = "scan" /\ upload.state = "quarantined"
        /\ ~worker[w].overtaken /\ work[d].left = 0
        /\ upload' = To("available") /\ unseen' = (deletion # "none")
        /\ work' = Finish(mid, {"scan", d})
    BY Zenon DEF CompleteScanClean, FencePublishedDeletes, At
  <1>2. /\ work["scan"].open /\ TaskOK(w) /\ CopyOK(w) /\ TypeOK /\ work \in [WorkId -> WorkRow]
        /\ "available" \in States /\ "staging" \in Key /\ DeleteOf("staging") = "deleteStaging"
        /\ deletion \in {"none", "unrecorded", "late"}
    BY <1>1, Held, Standing, Zenon DEF Inv, TypeOK, WorkId, States, Key, DeleteOf, WorkRow
  <1>3. Sealed /\ ~work["verify"].open
    BY <1>1, <1>2, Zenon DEF TaskOK, Inv, Stages
  <1>4. upload' \in UploadRow /\ upload'.state = "available" /\ upload'.credential = 0
    BY <1>1, <1>2, <1>3, ToMoves, Zenon DEF Sealed
  <1>5. Ensured(work, mid, "deleteStaging", FALSE)
    BY <1>2, OrphanDelete, Zenon
  <1> HIDE DEF mid
  <1>6. mid \in [WorkId -> WorkRow]
    BY <1>5, Zenon DEF Ensured
  <1>7. /\ work' \in [WorkId -> WorkRow]
        /\ work'["scan"] = NoWork /\ work'[d] = NoWork
        /\ work'["verify"] = mid["verify"] /\ work'["deleteStaging"] = mid["deleteStaging"]
    BY <1>1, <1>6, FinishEnds DEF WorkId
  <1>8. work'["verify"] = work["verify"] /\ work'["deleteStaging"].open = TRUE
    BY <1>5, <1>7, Zenon DEF Ensured, WorkId
  <1>9. Finished'
    BY <1>7, <1>8, NoWorkIsRow, Zenon DEF Inv, Finished, WorkId, Clear
  <1>10. Stages'
    BY <1>3, <1>4, <1>7, <1>8, NoWorkIsRow, Zenon DEF Stages
  <1>11. objects["published"] = "declared" \/ deletion # "none"
    BY <1>1, <1>2, Zenon DEF CopyOK
  <1>12. Sealed' /\ OnlyUnfencedDeletesLoseBytes' /\ unseen' \in BOOLEAN
    BY <1>1, <1>2, <1>4, <1>11, Zenon DEF Sealed, OnlyUnfencedDeletesLoseBytes, store, history
  <1>13. /\ worker' \in [Worker -> WorkerState] /\ worker'[w].pc = "idle"
         /\ \A v \in Worker : v # w => worker'[v] = worker[v]
    BY <1>1, RestsAt, Zenon
  <1>14. ASSUME NEW v \in Worker, v # w
         PROVE  /\ worker'[v].pc = worker[v].pc /\ worker'[v].item = worker[v].item
                /\ worker'[v].lease = worker[v].lease
                /\ worker[v].overtaken => worker'[v].overtaken
                /\ ~(work["deletePublished"].left > 0)
                /\ upload'.state # "quarantined"
    BY <1>1, <1>4, <1>13, <1>14
  <1> QED
    BY <1>1, <1>2, <1>4, <1>7, <1>9, <1>10, <1>12, <1>13, <1>14, FinalStep, Zenon

\* complete_delete.
LEMMA CompleteDeleteKeeps ==
    ASSUME Inv, NEW w \in Worker, CompleteDelete(w)
    PROVE  Inv'
  <1> DEFINE id == worker[w].item
             overtakes(v) == /\ id = "deletePublished"
                             /\ worker[v].item = "scan"
                             /\ worker[v].pc \notin {"idle", "claimed"}
             other(v) == [worker[v] EXCEPT !.overtaken = @ \/ overtakes(v)]
  <1>1. /\ UNCHANGED <<store, calls, stray, unseen>> /\ Holds(w)
        /\ deletion' = IF id = "deletePublished" THEN "none" ELSE deletion
        /\ id \in {"deleteStaging", "deletePublished"}
        /\ work[id].referenced => upload.state \in {"rejected", "deleted"}
        /\ upload' = IF work[id].referenced THEN To("deleted") ELSE upload
        /\ work' = Finish(work, {id})
        /\ worker' = [v \in Worker |-> IF v = w THEN Resting ELSE other(v)]
    BY Zenon DEF CompleteDelete
  <1>2. /\ work[id].open /\ work[id].holder = w /\ TypeOK /\ work \in [WorkId -> WorkRow]
        /\ "deleted" \in States
    BY <1>1, Held, Zenon DEF Inv, States
  <1>3. /\ upload' \in UploadRow /\ upload'.credential = upload.credential
        /\ upload'.state = IF work[id].referenced THEN "deleted" ELSE upload.state
    BY <1>1, <1>2, ToMoves, Zenon DEF TypeOK
  <1>4. /\ work' \in [WorkId -> WorkRow] /\ work'[id] = NoWork
        /\ \A i \in WorkId : i # id => work'[i] = work[i]
    BY <1>1, <1>2, FinishEnds DEF WorkId
  <1>5. Resting \in WorkerState /\ Resting.pc = "idle"
    BY Constants DEF Resting, WorkerState, WorkId
  <1>6. ASSUME NEW v \in Worker
        PROVE  /\ other(v) \in WorkerState
               /\ other(v).pc = worker[v].pc /\ other(v).item = worker[v].item
               /\ other(v).lease = worker[v].lease
               /\ other(v).overtaken = (worker[v].overtaken \/ overtakes(v))
    <2> DEFINE o == worker[v].overtaken \/ overtakes(v)
    <2>1. worker[v] \in WorkerState /\ o \in BOOLEAN
      BY Standing, Zenon
    <2>2. other(v) = [worker[v] EXCEPT !.overtaken = o]
      BY Zenon
    <2> HIDE DEF o, overtakes, other
    <2>3. other(v).overtaken = o
      BY <2>1, <2>2, Zenon DEF WorkerState
    <2>4. /\ other(v) \in WorkerState
          /\ other(v).pc = worker[v].pc /\ other(v).item = worker[v].item
          /\ other(v).lease = worker[v].lease
      BY <2>1, <2>2 DEF WorkerState
    <2> QED
      BY <2>3, <2>4, Zenon DEF o
  <1> HIDE DEF other
  <1>7. /\ worker' \in [Worker -> WorkerState]
        /\ worker'[w] = Resting
        /\ \A v \in Worker : v # w => worker'[v] = other(v)
    BY <1>1, <1>5, <1>6, Zenon
  <1>8. Finished'
    BY <1>4, NoWorkIsRow, Zenon DEF Inv, Finished, Clear
  <1>9. Stages'
    BY <1>1, <1>2, <1>3, <1>4, NoWorkIsRow, Zenon DEF Inv, Stages, WorkId, store, history
  <1>10. ASSUME NEW v \in Worker, v # w
         PROVE  /\ worker'[v].pc = worker[v].pc /\ worker'[v].item = worker[v].item
                /\ worker'[v].lease = worker[v].lease
                /\ worker[v].overtaken => worker'[v].overtaken
                /\ work["deletePublished"].holder = v /\ work["deletePublished"].left > 0 =>
                      work'["deletePublished"] = work["deletePublished"]
                /\ \/ deletion' = deletion
                   \/ upload'.state # "quarantined"
                   \/ worker[v].item = "scan" /\ worker[v].pc = "ok" => worker'[v].overtaken
    <2>1. worker'[v] = other(v)
      BY <1>7, <1>10, Zenon
    <2>2. /\ worker'[v].pc = worker[v].pc /\ worker'[v].item = worker[v].item
          /\ worker'[v].lease = worker[v].lease
          /\ worker[v].overtaken \/ overtakes(v) => worker'[v].overtaken
      BY <1>6, <2>1, Zenon
    <2>3. CASE id = "deletePublished"
      BY <1>2, <1>10, <2>2, <2>3, Zenon
    <2>4. CASE id # "deletePublished"
      BY <1>1, <1>4, <2>2, <2>4, Zenon DEF WorkId
    <2> QED
      BY <2>3, <2>4, Zenon
  <1>11. Sealed => Sealed'
    BY <1>3, Zenon DEF Sealed
  <1>12. OnlyUnfencedDeletesLoseBytes'
    BY <1>1, <1>2, <1>3 DEF Stages, Inv, OnlyUnfencedDeletesLoseBytes, store, history
  <1>13. worker'[w].pc = "idle" /\ unseen' \in BOOLEAN /\ deletion' \in {"none", "unrecorded", "late"}
         /\ (upload'.state = "quarantined" => upload.state = "quarantined")
    BY <1>1, <1>3, <1>5, <1>7, Zenon DEF Inv, TypeOK
  <1> QED
    BY <1>1, <1>3, <1>4, <1>7, <1>8, <1>9, <1>10, <1>11, <1>12, <1>13, FinalStep, Zenon

-----------------------------------------------------------------------------
(* Time.                                                                   *)

LEMMA LessIs ==
    ASSUME NEW n \in Int
    PROVE  /\ Less(n) \in Int /\ (n > 0 => Less(n) = n - 1) /\ (n <= 0 => Less(n) = n)
  BY DEF Less

LEMMA ElapseKeeps ==
    ASSUME Inv, Elapse
    PROVE  Inv'
  <1> DEFINE row(i) == [work[i] EXCEPT !.at = Less(@), !.left = Less(@),
                                       !.holder = IF work[i].left > 1 THEN @ ELSE NoOne]
             me(v) == [worker[v] EXCEPT !.lease = Less(@)]
  <1>1. /\ UNCHANGED <<objects, calls, stray, history>>
        /\ upload' = [upload EXCEPT !.pending = Less(@), !.credential = Less(@)]
        /\ work' = [i \in WorkId |-> row(i)]
        /\ worker' = [v \in Worker |-> me(v)]
        /\ fresh' = [k \in Key |-> Less(fresh[k])]
        /\ listed' = listed \cup {k \in Key : objects[k] # "none" /\ fresh[k] <= 1}
    BY Zenon DEF Elapse
  <1>2. /\ upload \in UploadRow /\ work \in [WorkId -> WorkRow] /\ fresh \in [Key -> 0..Grace]
        /\ worker \in [Worker -> WorkerState] /\ listed \subseteq Key
    BY Zenon DEF Inv, TypeOK
  <1>3. /\ upload' \in UploadRow /\ upload'.state = upload.state
        /\ upload'.credential = Less(upload.credential)
    <2> DEFINE p == Less(upload.pending)
               c == Less(upload.credential)
    <2>1. p \in 0..PendingTtl /\ c \in 0..Credential
      BY <1>2, Constants DEF UploadRow, Less
    <2>2. upload' = [upload EXCEPT !.pending = p, !.credential = c]
      BY <1>1, Zenon
    <2> HIDE DEF p, c
    <2>3. upload' \in UploadRow
      BY <1>2, <2>1, <2>2, Zenon DEF UploadRow
    <2> QED
      BY <1>2, <2>2, <2>3 DEF UploadRow, c
  <1>4. ASSUME NEW i \in WorkId
        PROVE  /\ row(i) \in WorkRow
               /\ row(i).open = work[i].open
               /\ row(i).referenced = work[i].referenced
               /\ row(i).at = Less(work[i].at) /\ row(i).left = Less(work[i].left)
               /\ row(i).holder = IF work[i].left > 1 THEN work[i].holder ELSE NoOne
    <2> DEFINE a == Less(work[i].at)
               l == Less(work[i].left)
               h == IF work[i].left > 1 THEN work[i].holder ELSE NoOne
    <2>1. work[i] \in WorkRow
      BY <1>2, Zenon
    <2>2. a \in Int /\ l \in 0..Lease
      BY <2>1, Constants DEF WorkRow, Less
    <2>3. h \in Worker \cup {NoOne}
      BY <2>1, Zenon DEF WorkRow
    <2>4. row(i) = [work[i] EXCEPT !.at = a, !.left = l, !.holder = h]
      BY Zenon
    <2> HIDE DEF a, l, h, row
    <2>5. row(i) \in WorkRow
      BY <2>1, <2>2, <2>3, <2>4, Zenon DEF WorkRow
    <2>6. row(i).at = a /\ row(i).left = l /\ row(i).holder = h
      BY <2>1, <2>4 DEF WorkRow
    <2>7. /\ row(i).open = work[i].open
          /\ row(i).referenced = work[i].referenced
      BY <2>1, <2>4 DEF WorkRow
    <2> QED
      BY <2>5, <2>6, <2>7, Zenon DEF a, l, h
  <1>5. ASSUME NEW v \in Worker
        PROVE  /\ me(v) \in WorkerState /\ me(v).pc = worker[v].pc /\ me(v).item = worker[v].item
               /\ me(v).lease = Less(worker[v].lease)
               /\ me(v).overtaken = worker[v].overtaken
    <2> DEFINE l == Less(worker[v].lease)
    <2>1. worker[v] \in WorkerState /\ l \in 0..Lease
      BY <1>2, Constants DEF WorkerState, Less
    <2>2. me(v) = [worker[v] EXCEPT !.lease = l]
      BY Zenon
    <2> HIDE DEF l, me
    <2>3. me(v) \in WorkerState
      BY <2>1, <2>2, Zenon DEF WorkerState
    <2>4. me(v).overtaken = worker[v].overtaken
      BY <2>1, <2>2 DEF WorkerState
    <2> QED
      BY <2>1, <2>2, <2>3, <2>4 DEF WorkerState, l
  <1> HIDE DEF row, me
  <1>6. /\ work' \in [WorkId -> WorkRow] /\ \A i \in WorkId : work'[i] = row(i)
        /\ worker' \in [Worker -> WorkerState] /\ \A v \in Worker : worker'[v] = me(v)
    BY <1>1, <1>4, <1>5
  <1>7. fresh' \in [Key -> 0..Grace] /\ listed' \subseteq Key
    BY <1>1, <1>2, Constants DEF Less
  <1>8. TypeOK'
    BY <1>1, <1>3, <1>6, <1>7, Zenon DEF Inv, TypeOK, history
  <1>9. Finished'
    <2> SUFFICES ASSUME NEW i \in WorkId, ~work'[i].open
                 PROVE  work'[i].holder = NoOne /\ work'[i].left = 0
      BY Zenon DEF Finished
    <2>1. work[i].left = 0
      BY <1>4, <1>6, Zenon DEF Inv, Finished
    <2> QED
      BY <1>4, <1>6, <2>1, LessIs
  <1>10. Sealed => Sealed'
    BY <1>2, <1>3, Constants DEF Sealed, UploadRow, Less
  <1>11. Stages'
    <2>1. \A i \in WorkId : work'[i].open = work[i].open /\ work'[i].referenced = work[i].referenced
      BY <1>4, <1>6, Zenon
    <2>2. upload.credential \in Nat /\ work["verify"].at \in Int /\ "verify" \in WorkId
      BY <1>2, Constants DEF UploadRow, WorkRow, WorkId
    <2>3. work'["verify"].at = Less(work["verify"].at)
          /\ work'["verify"].holder \in {work["verify"].holder, NoOne}
      BY <1>4, <1>6, <2>2, Zenon
    <2>4. /\ work["verify"].at = Dormant => work'["verify"].at = Dormant
          /\ work["verify"].at >= upload.credential => work'["verify"].at >= upload'.credential
          /\ upload.credential = 0 => upload'.credential = 0
      BY <1>3, <2>2, <2>3 DEF Less, Dormant
    <2>5. upload.state = "none" => listed' = {}
      BY <1>1 DEF Inv, Stages
    <2> QED
      BY <1>1, <1>3, <2>1, <2>3, <2>4, <2>5 DEF Inv, Stages, WorkId, history
  <1>12. ASSUME NEW v \in Worker PROVE TaskOK(v)' /\ CopyOK(v)'
    <2>1. /\ TaskOK(v) /\ CopyOK(v) /\ worker[v].lease \in Nat /\ work["deletePublished"].left \in Nat
          /\ "deletePublished" \in WorkId
      BY Standing, Zenon DEF WorkId
    <2>2. /\ worker'[v].pc = worker[v].pc /\ worker'[v].item = worker[v].item
          /\ worker'[v].lease = Less(worker[v].lease)
          /\ worker'[v].overtaken = worker[v].overtaken
      BY <1>5, <1>6, Zenon
    <2>3. LET d == "deletePublished" IN
          /\ work'[d].open = work[d].open
          /\ work'[d].left = Less(work[d].left)
          /\ work'[d].holder = IF work[d].left > 1 THEN work[d].holder ELSE NoOne
      BY <1>4, <1>6, <2>1, Zenon
    <2>4. TaskOK(v)'
      BY <1>1, <1>10, <2>1, <2>2, <2>3 DEF TaskOK, Less
    <2>5. CopyOK(v)'
      BY <1>1, <1>3, <2>1, <2>2, <2>3 DEF CopyOK, history
    <2> QED
      BY <2>4, <2>5, Zenon
  <1>13. PublishedIsScanned' /\ OnlyUnfencedDeletesLoseBytes' /\ Strays'
    BY <1>1, <1>3, <1>10, Zenon DEF Inv, PublishedIsScanned, OnlyUnfencedDeletesLoseBytes, Strays, history
  <1> QED
    BY <1>8, <1>9, <1>11, <1>12, <1>13, Zenon DEF Inv, Tasks

-----------------------------------------------------------------------------
(* The theorems.                                                           *)

LEMMA NextKeeps == Inv /\ [Next]_vars => Inv'
  <1> SUFFICES ASSUME Inv, [Next]_vars PROVE Inv'
    BY Zenon
  <1>1. CASE UNCHANGED vars
    <2>1. TypeOK' /\ Finished' /\ Stages'
      BY <1>1, Zenon DEF Inv, TypeOK, Finished, Stages, vars, store, history
    <2> QED
      BY <1>1, <2>1, RowsStep, Zenon DEF Kept, Sealed, vars, store, history
  <1>2. ASSUME NEW w \in Worker, Reconciles(w) \/ WorkerDies(w) PROVE Inv'
    BY <1>2, ClaimKeeps, BeginPublicationKeeps, EffectsKeep, PublishKeeps, DeleteKeeps,
       CompleteVerificationKeeps, CompleteScanCleanKeeps, RejectLeasedKeeps, CompleteDeleteKeeps,
       RetryKeeps, LostLeaseKeeps, Zenon DEF Reconciles
  <1>3. CASE \E k \in Key : RepairOrphan(k)
    BY <1>3, RepairOrphanKeeps, Zenon
  <1>4. CASE Initiate \/ PersistCredential \/ DirectWrite \/ PutProxied \/ FenceProxiedWrite
    BY <1>4, InitiateKeeps, PersistCredentialKeeps, WritesKeep, FenceProxiedWriteKeeps, Zenon
  <1>5. CASE \/ CompleteReads \/ ActivateVerification \/ RejectPending
             \/ Status \/ Abandon \/ Elapse
    BY <1>5, CompleteReadsKeeps, ActivateVerificationKeeps, RejectPendingKeeps, StatusKeeps,
       AbandonKeeps, ElapseKeeps, Zenon
  <1>6. CASE \E request \in Request : LateEffect(request)
    BY <1>6, LateEffectKeeps, Zenon
  <1> QED
    BY <1>1, <1>2, <1>3, <1>4, <1>5, <1>6, Zenon DEF Next

\* The inductive invariant: what rows, objects, credentials and reconcilers owe each other
\* in every state of the upload.
THEOREM InvHolds == Spec => []Inv
  BY InitKeeps, NextKeeps, PTL DEF Spec

\* Every variable keeps to the columns and steps of the code.
THEOREM TypeCorrect == Spec => []TypeOK
  <1>1. Inv => TypeOK
    BY DEF Inv
  <1> QED
    BY <1>1, InvHolds, PTL

\* Only bytes that were verified and scanned are published: activate_verification waits for
\* the last credential, and no step makes one live again.
THEOREM OnlyScannedBytes == Spec => []PublishedIsScanned
  <1>1. Inv => PublishedIsScanned
    BY DEF Inv
  <1> QED
    BY <1>1, InvHolds, PTL

\* However long a reconciler stalls and however late a request reaches the store: an
\* available upload can be downloaded, unless publication overlooked a delete that had
\* taken place without being recorded, or a delete took place after its lease had ended or
\* its reconciler had given it up (fence_published_deletes_locked).
THEOREM FenceHolds == Spec => []OnlyUnfencedDeletesLoseBytes
  <1>1. Inv => OnlyUnfencedDeletesLoseBytes
    BY DEF Inv
  <1> QED
    BY <1>1, InvHolds, PTL

\* An upload that orphan repair leaves alone has an unfinished row that takes it further.
THEOREM WorkIsThere == Spec => []EveryStateHasItsWork
  <1>1. Inv => EveryStateHasItsWork
    BY Zenon DEF Inv, Stages, EveryStateHasItsWork
  <1> QED
    BY <1>1, InvHolds, PTL
=============================================================================
