------------------------------- MODULE Uploads -------------------------------
(***************************************************************************)
(* Uploads (crates/upload-workflow): the row of one upload, its rows of    *)
(* upload_reconciliation, the staging and the publication object in the    *)
(* blob store, the callers of the workflow and the leased reconcilers.     *)
(*                                                                         *)
(* Uploads share no row and no key, so one upload is the whole system.     *)
(* Every repository call is one transaction under the row locks and is one *)
(* action; the blob store is a second system, touched between them.  A     *)
(* reconciler takes one item per claim: a larger claim_batch is as many    *)
(* reconcilers.  Deadlines are the time left, 0 once past.  The partial    *)
(* unique index allows one unfinished row for each object key and kind, so *)
(* that pair names the row, and its holder stands for the lease token: a   *)
(* reconciler has one claim at a time.                                     *)
(*                                                                         *)
(* Any number of callers and any number of faults: a caller or a           *)
(* reconciler may stall between two steps for as long as it likes, die or  *)
(* lose an answer, and a request that was sent may reach the blob store    *)
(* after its sender has given it up.                                       *)
(***************************************************************************)
EXTENDS Integers

CONSTANTS Worker, NoOne,
          PendingTtl,     \* InitiateUploadRequest.pending_upload_ttl
          Credential,     \* the life of a direct credential, with its skew
          Lease,          \* ReconcilerConfig.lease_duration
          RetryDelay,     \* retry_delay, with max_retry = initial_retry
          Grace,          \* ReconcilerConfig.orphan_grace
          MaxAttempts     \* ReconcilerConfig.max_attempts

\* ReconcilerConfig.validate and the checks of initiate.
ASSUME UploadsAssumption ==
    /\ NoOne \notin Worker
    /\ Credential \in Nat \ {0} /\ PendingTtl \in Nat /\ PendingTtl >= Credential
    /\ Lease \in Nat \ {0} /\ RetryDelay \in Nat \ {0} /\ Grace \in Nat \ {0}
    /\ MaxAttempts \in Nat \ {0}

VARIABLES upload,      \* uploads
          work,        \* upload_reconciliation, the unfinished rows
          objects,     \* the bytes under each key: none, those declared, or others
          fresh,       \* the time until an object is old enough to be an orphan
          listed,      \* the keys a listing may have shown as old
          calls,       \* what callers have yet to act on: a head, a write
          worker,
          stray,       \* requests to the store that nobody waits for any more
          deletion,    \* history: the publication object went, and no row says so
          unseen       \* history: publication overlooked such a deletion

store == <<objects, fresh, listed>>
history == <<deletion, unseen>>
vars == <<upload, work, store, calls, worker, stray, history>>

Key == {"staging", "published"}
WorkId == {"verify", "scan", "deleteStaging", "deletePublished"}
DeleteOf(k) == IF k = "staging" THEN "deleteStaging" ELSE "deletePublished"
Request == {"copy", "deletePublished"}
KeyOf(id) == IF id = "deletePublished" THEN "published" ELSE "staging"

\* available_at is NULL.
Dormant == -1

\* No unfinished row.
NoWork == [open |-> FALSE, referenced |-> FALSE, at |-> 0, attempts |-> 0,
           holder |-> NoOne, left |-> 0]

Resting == [pc |-> "idle", item |-> "verify", lease |-> 0, overtaken |-> FALSE]

Init ==
    /\ upload = [state |-> "none", abandoned |-> FALSE, pending |-> 0, credential |-> 0,
                 verified |-> FALSE]
    /\ work = [id \in WorkId |-> NoWork]
    /\ objects = [k \in Key |-> "none"]
    /\ fresh = [k \in Key |-> 0] /\ listed = {}
    /\ calls = {} /\ stray = {}
    /\ worker = [w \in Worker |-> Resting]
    /\ deletion = "none" /\ unseen = FALSE

Larger(a, b) == IF a > b THEN a ELSE b

Pending == upload.state = "pending" /\ upload.pending > 0
Expired == upload.state = "pending" /\ upload.pending = 0

-----------------------------------------------------------------------------
(* The work rows: each operator is a statement on all of them.             *)

\* insert_work: ON CONFLICT ... WHERE completed_at IS NULL DO NOTHING.
Insert(rows, id, referenced, at) ==
    IF rows[id].open
    THEN rows
    ELSE [rows EXCEPT ![id] = [NoWork EXCEPT !.open = TRUE, !.referenced = referenced,
                                             !.at = at]]

\* completed_at is set and the lease cleared.
Finish(rows, ids) == [id \in WorkId |-> IF id \in ids THEN NoWork ELSE rows[id]]

\* available_at = GREATEST(available_at, at).
PutOff(row, at) == [row EXCEPT !.at = Larger(@, at)]

\* An intent that is there already is put off, and begins its attempts again unless
\* its lease is live.
Refresh(row, at) ==
    [row EXCEPT !.at = Larger(@, at), !.attempts = IF row.left > 0 THEN @ ELSE 0]

\* ensure_referenced_delete_work_locked: the UPDATE meets only a row with the upload_id.
EnsureReferencedDelete(rows) ==
    LET inserted == Insert(rows, "deleteStaging", TRUE, 0)
    IN  IF inserted["deleteStaging"].referenced
        THEN [inserted EXCEPT !["deleteStaging"] = Refresh(@, upload.credential)]
        ELSE inserted

\* ensure_orphan_delete_work_locked.
EnsureOrphanDelete(rows, k) ==
    [Insert(rows, DeleteOf(k), FALSE, 0) EXCEPT ![DeleteOf(k)] = Refresh(@, 0)]

\* The upload row changes state.  The deadline matters only while pending, and the mark of
\* verification only until the end.
To(state) == [upload EXCEPT !.state = state, !.pending = 0, !.verified = FALSE]

\* An expiry that forgets the object.
ExpiredWorkUndeleted == Finish(work, {"verify"})

\* reject_expired_pending_locked.
ExpiredWork == EnsureReferencedDelete(Finish(work, {"verify"}))
RejectExpired ==
    /\ upload' = To("rejected")
    /\ work' = ExpiredWork

-----------------------------------------------------------------------------
(* The callers of the workflow.  There may be any number, and each may     *)
(* stall between its steps: what one has seen, another may still act on.   *)

\* initiate, up to the presigned credential.
Initiate ==
    /\ \/ /\ upload.state = "none" \/ Pending
          /\ upload' = [upload EXCEPT !.state = "pending", !.pending = PendingTtl]
          /\ work' = Insert(work, "verify", TRUE, Dormant)
       \/ Expired /\ RejectExpired
    /\ UNCHANGED <<store, calls, worker, stray, history>>

\* persist_direct_credential_expiry, for a caller of initiate that has presigned: the
\* credential is returned only if it is recorded.  Its life is recorded from now on, and
\* ends no earlier than the store's.  A store that cannot presign leaves the caller with
\* the proxied contract.
PersistCredential ==
    /\ Pending
    /\ upload' = [upload EXCEPT !.credential = Larger(@, Credential),
                                !.pending = Larger(@, PendingTtl)]
    /\ UNCHANGED <<work, store, calls, worker, stray, history>>

\* The age of an object matters until a listing may have shown its key.
Write(k, bytes) ==
    /\ objects' = [objects EXCEPT ![k] = bytes]
    /\ fresh' = [fresh EXCEPT ![k] = IF k \in listed THEN 0 ELSE Grace]
    /\ UNCHANGED listed

\* A client writes with a live credential.  What it writes is checked by verification.
DirectWrite ==
    /\ upload.credential > 0
    /\ \E bytes \in {"declared", "other"} : Write("staging", bytes)
    /\ UNCHANGED <<upload, work, calls, worker, stray, history>>

\* put_proxied: the stream, held to the declared size and digest.  The upload was pending
\* when pending_is_live was asked.
PutProxied ==
    /\ upload.state # "none"
    /\ Write("staging", "declared")
    /\ calls' = calls \cup {"written"}
    /\ UNCHANGED <<upload, work, worker, stray, history>>

\* fence_proxied_write.
FenceProxiedWrite ==
    /\ "written" \in calls
    /\ \/ Expired /\ RejectExpired
       \/ /\ upload.state = "available"
          /\ work' = EnsureOrphanDelete(work, "staging")
          /\ UNCHANGED upload
       \/ /\ upload.state \in {"rejected", "deleted"}
          /\ work' = EnsureReferencedDelete(work)
          /\ UNCHANGED upload
    /\ UNCHANGED <<store, calls, worker, stray, history>>

\* complete, up to the head of a staging object of the declared size.  The row is checked
\* again when the answer is acted on.
CompleteReads ==
    /\ upload.state = "pending" /\ objects["staging"] # "none"
    /\ calls' = calls \cup {"present"}
    /\ UNCHANGED <<upload, work, store, worker, stray, history>>

\* Verification made ready before the last credential has ended.
ActivateVerificationNow ==
    /\ "present" \in calls
    /\ \/ Expired /\ RejectExpired
       \/ /\ Pending
          /\ upload' = To("quarantined")
          /\ work' = [work EXCEPT !["verify"].at = 0]
    /\ UNCHANGED <<store, calls, worker, stray, history>>

\* activate_verification.  An upload past quarantine is left alone.
ActivateVerification ==
    /\ "present" \in calls
    /\ \/ Expired /\ RejectExpired
       \/ /\ Pending \/ upload.state = "quarantined"
          /\ upload' = IF Pending THEN To("quarantined") ELSE upload
          /\ work' = [work EXCEPT !["verify"] = IF @.open THEN PutOff(@, upload.credential) ELSE @]
    /\ UNCHANGED <<store, calls, worker, stray, history>>

\* complete, when the head found no object, or one of another size, while the upload was
\* pending, and reject_pending: an upload in any other state is left alone.
RejectPending ==
    LET inserted == Insert(work, "deleteStaging", TRUE, 0)
        delayed == [inserted EXCEPT !["deleteStaging"] =
                        IF @.referenced THEN PutOff(@, upload.credential) ELSE @]
    IN  /\ upload.state \in {"pending", "rejected"}
        /\ upload' = To("rejected")
        /\ work' = Finish(delayed, {id \in {"verify"} : work[id].holder = NoOne})
        /\ UNCHANGED <<store, calls, worker, stray, history>>

\* lookup_current, the read of status: it records an elapsed deadline.
Status ==
    /\ Expired /\ RejectExpired
    /\ UNCHANGED <<store, calls, worker, stray, history>>

\* abandon and schedule_abandoned_cleanup: both objects are deleted once the lease of an
\* effect that may still write them has ended.
Abandon ==
    LET live == {"verify", "scan"}
        until == Larger(work["verify"].left, work["scan"].left)
        ensured == EnsureOrphanDelete(EnsureReferencedDelete(Finish(work, live)), "published")
    IN  /\ \/ upload.state \in {"pending", "quarantined"}
           \/ upload.state \in {"rejected", "deleted"} /\ upload.abandoned
        /\ upload' = IF upload.state \in {"rejected", "deleted"} THEN upload
                     ELSE [To("rejected") EXCEPT !.abandoned = TRUE]
        /\ work' = [id \in WorkId |->
                        IF id \in live THEN ensured[id]
                        ELSE PutOff(ensured[id], until)]
        /\ UNCHANGED <<store, calls, worker, stray, history>>

Known(k) ==
    IF k = "staging" THEN upload.state \in {"pending", "quarantined", "rejected"}
                     ELSE upload.state = "available"

\* repair_orphans for one object of a listing, with object_is_known and
\* schedule_orphan_delete.  The object may have gone, or be another, since the listing.
RepairOrphan(k) ==
    /\ k \in listed
    /\ \/ k = "staging" /\ Expired /\ RejectExpired
       \/ /\ ~Known(k)
          /\ work' = Insert(work, DeleteOf(k), FALSE, 0)
          /\ UNCHANGED upload
    /\ UNCHANGED <<store, calls, worker, stray, history>>

-----------------------------------------------------------------------------
(* The reconcilers.                                                        *)

At(w, pc) == worker[w].pc = pc
Moves(w, pc) == worker' = [worker EXCEPT ![w].pc = pc]
Rests(w) == worker' = [worker EXCEPT ![w] = Resting]

Claimable(row) == row.open /\ row.at = 0 /\ row.attempts < MaxAttempts /\ row.left = 0

\* expire_pending_batch, at the start of every claim.
Swept == IF Expired THEN ExpiredWork ELSE work
Sweep == upload' = IF Expired THEN To("rejected") ELSE upload

\* claim leases a row that is ready; one that expires the upload finds its deletion ready.
\* prepare_effect wants the upload in quarantine to verify or to scan it.  Nothing looks
\* at the lease again before the effect.  How long it lasts matters for the deletes that
\* publication looks for.
Claim(w, id) ==
    /\ At(w, "idle")
    /\ Claimable(Swept[id])
    /\ id \in {"verify", "scan"} => upload.state = "quarantined"
    /\ Sweep
    /\ work' = [Swept EXCEPT ![id].holder = w, ![id].left = Lease, ![id].attempts = @ + 1]
    /\ worker' = [worker EXCEPT ![w] =
           [Resting EXCEPT !.pc = IF id = "scan" THEN "claimed" ELSE "effect", !.item = id,
                           !.lease = IF id = "deletePublished" THEN Lease ELSE 0]]
    /\ UNCHANGED <<store, calls, stray, history>>

\* lock_live_work: the row is unfinished, and leased to this claim.
Holds(w) == work[worker[w].item].holder = w /\ work[worker[w].item].left > 0

\* begin_publication: the lease begins again.
BeginPublication(w) ==
    /\ At(w, "claimed") /\ Holds(w)
    /\ work' = [work EXCEPT !["scan"].left = Lease]
    /\ Moves(w, "effect")
    /\ UNCHANGED <<upload, store, calls, stray, history>>

\* The effect of one of the rows ids is under way, however late.
Working(w, pc, ids) == At(w, pc) /\ worker[w].item \in ids

\* verify_effect: bytes with the declared digest may still be of another type.
Verify(w) ==
    /\ Working(w, "effect", {"verify"})
    /\ \E pc \in {"ok", "reject"} :
          /\ pc = "ok" => objects["staging"] = "declared"
          /\ Moves(w, pc)
    /\ UNCHANGED <<upload, work, store, calls, stray, history>>

\* scan_effect, up to the verdict.
Scan(w) ==
    /\ Working(w, "effect", {"scan"})
    /\ \E pc \in {"copy", "reject"} :
          /\ pc = "copy" => objects["staging"] = "declared"
          /\ Moves(w, pc)
    /\ UNCHANGED <<upload, work, store, calls, stray, history>>

\* The store copies whatever is under the staging key.
Copies ==
    /\ objects["staging"] # "none"
    /\ Write("published", objects["staging"])
    /\ deletion' = "none"
    /\ UNCHANGED unseen

\* The store deletes; late: the lease of whoever asked for it has ended, or it has given
\* the request up.
Erases(id, late) ==
    /\ objects' = [objects EXCEPT ![KeyOf(id)] = "none"]
    /\ fresh' = [fresh EXCEPT ![KeyOf(id)] = 0]
    /\ deletion' = IF id = "deleteStaging" THEN deletion
                   ELSE IF late THEN "late" ELSE "unrecorded"
    /\ UNCHANGED <<listed, unseen>>

\* publish_effect.  The answer may be lost.
Publish(w) ==
    /\ Working(w, "copy", {"scan"})
    /\ \/ /\ objects["staging"] = "none"
          /\ Moves(w, "reject")
          /\ UNCHANGED <<store, history>>
       \/ Copies /\ \E pc \in {"ok", "retry"} : Moves(w, pc)
    /\ UNCHANGED <<upload, work, calls, stray>>

\* delete_effect.  The answer may be lost.
Delete(w) ==
    /\ Working(w, "effect", {"deleteStaging", "deletePublished"})
    /\ Erases(worker[w].item, worker[w].lease = 0)
    /\ \E pc \in {"ok", "retry"} : Moves(w, pc)
    /\ UNCHANGED <<upload, work, calls, stray>>

\* What a reconciler that gives its effect up may have sent to the store.  The delete of
\* the staging object is left out: nothing that could still publish reads that object.
Sent(w) ==
    {request \in Request :
        \/ request = "copy" /\ At(w, "copy")
        \/ request = "deletePublished" /\ Working(w, "effect", {"deletePublished"})}

\* The store or the scanner fails, the supervisor cancels, or work_timeout fires.
EffectFails(w) ==
    /\ worker[w].pc \in {"claimed", "effect", "copy"}
    /\ Moves(w, "retry")
    /\ stray' \in {stray, stray \cup Sent(w)}
    /\ UNCHANGED <<upload, work, store, calls, history>>

\* A request that was given up reaches the store; another of its kind may follow.
LateEffect(request) ==
    /\ request \in stray /\ stray' \in {stray, stray \ {request}}
    /\ \/ request = "copy" /\ Copies
       \/ request # "copy" /\ Erases(request, TRUE)
    /\ UNCHANGED <<upload, work, calls, worker>>

\* complete_verification.
CompleteVerification(w) ==
    /\ At(w, "ok") /\ worker[w].item = "verify" /\ Holds(w)
    /\ upload.state = "quarantined"
    /\ upload' = [upload EXCEPT !.verified = TRUE]
    /\ work' = Finish(Insert(work, "scan", TRUE, 0), {"verify"})
    /\ Rests(w)
    /\ UNCHANGED <<store, calls, stray, history>>

\* A fence that misses a delete that is under way.
FenceMissesLive(w) == ~worker[w].overtaken

\* fence_published_deletes_locked: no delete of the publication key was recorded since
\* begin_publication, and none is leased.
FencePublishedDeletes(w) == ~worker[w].overtaken /\ work["deletePublished"].left = 0

\* complete_scan_clean.
CompleteScanClean(w) ==
    /\ At(w, "ok") /\ worker[w].item = "scan" /\ Holds(w)
    /\ upload.state = "quarantined" /\ upload.verified
    /\ FencePublishedDeletes(w)
    /\ upload' = To("available")
    /\ work' = Finish(EnsureOrphanDelete(work, "staging"), {"scan", "deletePublished"})
    /\ unseen' = (deletion # "none")
    /\ Rests(w)
    /\ UNCHANGED <<store, calls, stray, deletion>>

\* reject_leased.
RejectLeased(w) ==
    /\ At(w, "reject") /\ Holds(w)
    /\ upload.state = "quarantined"
    /\ upload' = To("rejected")
    /\ work' = Finish(Insert(work, "deleteStaging", TRUE, 0), {worker[w].item})
    /\ Rests(w)
    /\ UNCHANGED <<store, calls, stray, history>>

\* complete_delete.  A recorded delete of the publication key overtakes the scans begun.
CompleteDelete(w) ==
    LET id == worker[w].item
    IN  /\ At(w, "ok") /\ id \in {"deleteStaging", "deletePublished"} /\ Holds(w)
        /\ work[id].referenced => upload.state \in {"rejected", "deleted"}
        /\ upload' = IF work[id].referenced THEN To("deleted") ELSE upload
        /\ work' = Finish(work, {id})
        /\ worker' = [v \in Worker |->
                         IF v = w THEN Resting
                         ELSE [worker[v] EXCEPT !.overtaken =
                                  @ \/ /\ id = "deletePublished"
                                       /\ worker[v].item = "scan"
                                       /\ worker[v].pc \notin {"idle", "claimed"}]]
        /\ deletion' = IF id = "deletePublished" THEN "none" ELSE deletion
        /\ UNCHANGED <<store, calls, stray, unseen>>

\* retry.
Retry(w) ==
    /\ At(w, "retry") /\ Holds(w)
    /\ work' = [work EXCEPT ![worker[w].item] = [@ EXCEPT !.at = RetryDelay, !.holder = NoOne,
                                                          !.left = 0]]
    /\ Rests(w)
    /\ UNCHANGED <<upload, store, calls, stray, history>>

\* LostLease: the claim is no longer the row's, or the fence refused the publication.  The
\* reconciler goes on; a lease it still has runs out.
LostLease(w) ==
    /\ worker[w].pc \in {"claimed", "ok", "reject", "retry"}
    /\ Holds(w) => At(w, "ok") /\ worker[w].item = "scan" /\ ~FencePublishedDeletes(w)
    /\ Rests(w)
    /\ UNCHANGED <<upload, work, store, calls, stray, history>>

\* The process dies, or a transaction fails, and the lease is left behind.
WorkerDies(w) ==
    /\ ~At(w, "idle")
    /\ Rests(w)
    /\ stray' \in {stray, stray \cup Sent(w)}
    /\ UNCHANGED <<upload, work, store, calls, history>>

-----------------------------------------------------------------------------

Less(n) == IF n > 0 THEN n - 1 ELSE n

\* Time passes for every deadline at once.  The token of a lease that has ended is not
\* told apart from none: nothing finds it live again.
Elapse ==
    /\ upload' = [upload EXCEPT !.pending = Less(@), !.credential = Less(@)]
    /\ work' = [id \in WorkId |->
                   [work[id] EXCEPT !.at = Less(@), !.left = Less(@),
                                    !.holder = IF work[id].left > 1 THEN @ ELSE NoOne]]
    /\ worker' = [w \in Worker |-> [worker[w] EXCEPT !.lease = Less(@)]]
    /\ fresh' = [k \in Key |-> Less(fresh[k])]
    /\ listed' = listed \cup {k \in Key : objects[k] # "none" /\ fresh[k] <= 1}
    /\ <<upload, work, worker, fresh, listed>>' # <<upload, work, worker, fresh, listed>>
    /\ UNCHANGED <<objects, calls, stray, history>>

Reconciles(w) ==
    \/ \E id \in WorkId : Claim(w, id)
    \/ BeginPublication(w)
    \/ Verify(w) \/ Scan(w) \/ Publish(w) \/ Delete(w) \/ EffectFails(w)
    \/ CompleteVerification(w) \/ CompleteScanClean(w) \/ RejectLeased(w)
    \/ CompleteDelete(w) \/ Retry(w) \/ LostLease(w)

Next ==
    \/ Initiate \/ PersistCredential \/ DirectWrite
    \/ PutProxied \/ FenceProxiedWrite
    \/ CompleteReads \/ ActivateVerification \/ RejectPending
    \/ Status \/ Abandon
    \/ \E k \in Key : RepairOrphan(k)
    \/ \E w \in Worker : Reconciles(w) \/ WorkerDies(w)
    \/ \E request \in Request : LateEffect(request)
    \/ Elapse

Spec == Init /\ [][Next]_vars

-----------------------------------------------------------------------------
(* Properties.                                                             *)

UploadRow == [state : {"none", "pending", "quarantined", "available", "rejected", "deleted"},
              abandoned : BOOLEAN, pending : 0..PendingTtl, credential : 0..Credential,
              verified : BOOLEAN]

WorkRow == [open : BOOLEAN, referenced : BOOLEAN, at : Int, attempts : 0..MaxAttempts,
            holder : Worker \cup {NoOne}, left : 0..Lease]

WorkerState == [pc : {"idle", "claimed", "effect", "copy", "ok", "reject", "retry"},
                item : WorkId, lease : 0..Lease, overtaken : BOOLEAN]

TypeOK ==
    /\ upload \in UploadRow
    /\ work \in [WorkId -> WorkRow]
    /\ objects \in [Key -> {"none", "declared", "other"}]
    /\ fresh \in [Key -> 0..Grace] /\ listed \subseteq Key
    /\ calls \subseteq {"present", "written"}
    /\ worker \in [Worker -> WorkerState] /\ stray \subseteq Request
    /\ deletion \in {"none", "unrecorded", "late"} /\ unseen \in BOOLEAN

\* What is under the publication key is what verification and the scanner read: no write
\* with a credential that was still live comes between the scan of the staging object and
\* its copy (activate_verification waits for the last credential).
PublishedIsScanned == objects["published"] \in {"none", "declared"}

\* An available upload can be downloaded, but for two cases: a delete of the publication
\* object that had taken place without being recorded when publication looked, and one
\* that took place after its lease had ended or its reconciler had given it up.  A delete
\* that is recorded, or leased, when a copy is published stops the publication
\* (fence_published_deletes_locked), and no other deletes a published object afterwards.
OnlyUnfencedDeletesLoseBytes ==
    upload.state = "available" =>
        objects["published"] = "declared" \/ unseen \/ deletion = "late"

\* The comment on complete_scan_clean: "A publication-key delete that began after this copy
\* attempt forces a safe retry instead of exposing a possibly deleted object."
AvailableIsDownloadable ==
    upload.state = "available" => objects["published"] = "declared"

\* An upload that object_is_known protects from orphan repair has an unfinished row for its
\* next step.  A pending one has its dormant verification, one in quarantine a verification
\* or a scan, and a rejected one the delete of its bytes, whichever of callers, expiry,
\* abandonment and reconcilers came first.  The row is no promise: one that has used up
\* its attempts stays unfinished, is claimed no more and is reported by health.
EveryStateHasItsWork ==
    /\ upload.state = "pending" => work["verify"].open
    /\ upload.state = "quarantined" => work["verify"].open \/ work["scan"].open
    /\ upload.state = "rejected" => work["deleteStaging"].open

=============================================================================
