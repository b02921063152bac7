--------------------------- MODULE ProfileUpload ---------------------------
(***************************************************************************)
(* One published profile of the v2 control plane: its fenced lease         *)
(* (routes/v2_profiles.rs), its resumable uploads and their commit         *)
(* (routes/v2_uploads.rs), and the reconciler that runs before the server  *)
(* serves (routes/v2_upload_recovery.rs).                                  *)
(*                                                                         *)
(* Every lease route, CREATE_UPLOAD and COMMIT is one `BEGIN IMMEDIATE`    *)
(* transaction and therefore one action.  PATCH, FINALIZE and ABORT do     *)
(* file work outside their transactions: a slot r \in Reqs is one such     *)
(* handler, `pc` says where it is, and the in-process set WRITERS keeps a  *)
(* second handler off the same upload.  A refused request (403, 404, 409,  *)
(* 422) and the replay of a stored response change nothing and are the     *)
(* absence of a step; a signed request that does not bind its upload is    *)
(* refused, so each upload has one commit request.                         *)
(***************************************************************************)
EXTENDS Naturals, Sequences, FiniteSets

CONSTANTS
    Devices,        \* devices with an approved session
    Uploads,        \* upload ids, drawn at random by CREATE_UPLOAD
    Reqs,           \* slots for handlers that run at the same time
    None,           \* no lease, no file, no upload, nobody
    Size,           \* expected_ciphertext_size, in chunks
    LeaseTTL,       \* requested_lease_ttl_seconds
    UploadTTL,      \* UPLOAD_TTL_MS
    MaxTime,        \* bound on the clock
    MaxFence,       \* bound on the number of leases granted
    MaxCrash,       \* bound on the number of crashes
    MaxFault        \* bound on damaged files or rows and failing recovery steps

ASSUME ConstantsOK ==
    /\ Size \in Nat \ {0} /\ LeaseTTL \in Nat \ {0} /\ UploadTTL \in Nat \ {0}
    /\ MaxTime \in Nat /\ MaxFence \in Nat /\ MaxCrash \in Nat /\ MaxFault \in Nat

VARIABLES
    now,       \* the server's clock
    current,   \* v2_profiles.current_version
    fence,     \* v2_profiles.last_fencing_token; 0 before the publish
    lease,     \* the row of v2_profile_leases, or None
    state,     \* v2_uploads.state by upload; "none" without a row
    terms,     \* what CREATE_UPLOAD bound: fencing_token, base_version, expiry
    chunks,    \* rows of v2_upload_chunks in order; their number is committed_offset
    staging,   \* content of the staging file, or None
    object,    \* content of the immutable object, or None
    snaps,     \* the upload each row of v2_snapshots came from, by version
    ledger,    \* resulting_version of the stored commit receipt; 0 without one
    held,      \* uploads with a row in v2_upload_quarantine
    writers,   \* WRITERS: uploads a handler works on
    pc,        \* where each handler is
    reqs,      \* the local variables of each handler
    mode,      \* "down", "starting", "gc", "serving", or "off" (v2 routes refuse)
    todo,      \* uploads the startup pass has not settled
    rounds,    \* rounds of settle() that an upload has used in this pass
    crashes,   \* number of crashes so far
    faults     \* number of faults so far

profile == <<current, fence, lease>>
rows    == <<state, terms, chunks, snaps, ledger, held>>
files   == <<staging, object>>
tasks   == <<writers, pc, reqs>>
env     == <<mode, todo, rounds, crashes, faults>>
vars    == <<now, profile, rows, files, tasks, env>>

\* A chunk of the ciphertext the terms promise, or any other bytes.
Chunk   == {"good", "bad"}
File    == UNION {[1 .. n -> Chunk] : n \in 0 .. Size}
Whole   == [i \in 1 .. Size |-> "good"]

Versions == 1 .. MaxFence              \* every version uses up a fence
Fences   == 0 .. MaxFence
Lease    == [owner : Devices, fence : Fences, base : Fences, expires : Nat]
Terms    == [fence : Fences, base : Fences, expires : Nat]
States   == {"none", "OPEN", "FINALIZING", "READY", "COMMITTED", "ABORTED", "QUARANTINED"}
PCs      == {"idle", "patch_write", "patch_orphan", "patch_tx", "patch_short", "patch_cut",
             "fin_promote", "fin_orphan", "fin_ready", "fin_refuse", "remove"}
Request  == [dev : Devices \cup {None}, upload : Uploads \cup {None},
             at : 0 .. Size, chunk : Chunk, sweep : SUBSET Uploads]

ASSUME NoneIsNew ==
    /\ None \notin Devices /\ None \notin Uploads /\ None \notin Lease /\ None \notin File

Idle    == [dev |-> None, upload |-> None, at |-> 0, chunk |-> "good", sweep |-> {}]
NoTerms == [fence |-> 0, base |-> 0, expires |-> 0]

Init ==
    /\ now = 0
    /\ current = 0 /\ fence = 0 /\ lease = None
    /\ state = [u \in Uploads |-> "none"]
    /\ terms = [u \in Uploads |-> NoTerms]
    /\ chunks = [u \in Uploads |-> <<>>]
    /\ staging = [u \in Uploads |-> None]
    /\ object = [u \in Uploads |-> None]
    /\ snaps = [v \in Versions |-> None]
    /\ ledger = [u \in Uploads |-> 0]
    /\ held = {}
    /\ writers = {}
    /\ pc = [r \in Reqs |-> "idle"]
    /\ reqs = [r \in Reqs |-> Idle]
    /\ mode = "serving" /\ todo = {} /\ crashes = 0 /\ faults = 0
    /\ rounds = [u \in Uploads |-> 0]

----------------------------------------------------------------------------
(* The lease.                                                              *)

Serving == mode = "serving"

\* held_lease with the terms t: the current row, the caller's own device, the
\* exact fence and base, not expired.
HeldLease(d, t) ==
    /\ lease # None
    /\ lease.fence = t.fence
    /\ lease.owner = d
    /\ lease.base = t.base
    /\ lease.expires > now

\* grant_lease: the fence and the lease that holds it.
Grant(d, f) ==
    /\ fence' = f
    /\ lease' = [owner |-> d, fence |-> f, base |-> current, expires |-> now + LeaseTTL]

\* publish_profile: version 0 with fence 1 and its lease.
Publish(d) ==
    /\ Serving /\ fence = 0 /\ MaxFence > 0
    /\ Grant(d, 1)
    /\ UNCHANGED <<now, current, rows, files, tasks, env>>

\* Fault: a checkout takes the fence over.
NextFence_Same == fence

NextFence == fence + 1

\* checkout_profile: one new fence; an expired lease row is replaced.
Checkout(d) ==
    /\ Serving /\ fence \in 1 .. MaxFence - 1
    /\ lease # None => lease.expires <= now
    /\ Grant(d, NextFence)
    /\ UNCHANGED <<now, current, rows, files, tasks, env>>

\* renew_lease: only an unexpired row of the caller's own.
Renew(d) ==
    /\ Serving /\ lease # None /\ HeldLease(d, lease)
    /\ lease' = [lease EXCEPT !.expires = now + LeaseTTL]
    /\ UNCHANGED <<now, current, fence, rows, files, tasks, env>>

\* release_lease: the holder deletes its row, expired or not.
Release(d) ==
    /\ Serving /\ lease # None /\ lease.owner = d
    /\ lease' = None
    /\ UNCHANGED <<now, current, fence, rows, files, tasks, env>>

\* force_expire_lease by anybody with the capability; the revocation of the
\* holder's device deletes the row the same way.
ForceExpire ==
    /\ Serving /\ lease # None
    /\ lease' = None
    /\ UNCHANGED <<now, current, fence, rows, files, tasks, env>>

----------------------------------------------------------------------------
(* Handlers and the one writer of an upload.                               *)

\* Fault: no exclusion between handlers of one upload.
FreeUpload_Always(u) == TRUE

\* writer(): refused while another handler holds it.
FreeUpload(u) == u \notin writers

Live(u) == terms[u].expires > now

\* writable: the caller's OPEN, unexpired upload under its held lease.
Writable(d, u) == state[u] = "OPEN" /\ Live(u) /\ HeldLease(d, terms[u])

Take(r, us, p, q) ==
    /\ writers' = writers \cup us
    /\ pc' = [pc EXCEPT ![r] = p]
    /\ reqs' = [reqs EXCEPT ![r] = q]

Goto(r, p) == pc' = [pc EXCEPT ![r] = p] /\ UNCHANGED <<writers, reqs>>

\* The handler ends and drops its writers.
Done(r) ==
    /\ writers' = writers \ ({reqs[r].upload} \cup reqs[r].sweep)
    /\ pc' = [pc EXCEPT ![r] = "idle"]
    /\ reqs' = [reqs EXCEPT ![r] = Idle]

Step(r, p) == Serving /\ pc[r] = p

----------------------------------------------------------------------------
(* CREATE_UPLOAD.                                                          *)

\* The expired OPEN uploads no handler works on; they are aborted first.
Expired == {u \in Uploads : state[u] = "OPEN" /\ ~Live(u) /\ FreeUpload(u)}

\* Fault: an upload that finalizes no longer counts.
Busy_OpenOnly(f, swept) ==
    \E u \in Uploads \ swept : terms[u].fence = f /\ state[u] = "OPEN"

\* The upload slot of a lease: one OPEN or FINALIZING upload.
Busy(f, swept) ==
    \E u \in Uploads \ swept : terms[u].fence = f /\ state[u] \in {"OPEN", "FINALIZING"}

\* The row of a new upload, bound to the lease, and its empty staging file.
NewUpload(u) ==
    /\ terms' = [terms EXCEPT ![u] = [fence |-> lease.fence, base |-> lease.base,
                                      expires |-> now + UploadTTL]]
    /\ staging' = [staging EXCEPT ![u] = <<>>]

CreateUpload(r, d, u) ==
    /\ Step(r, "idle")
    /\ state[u] = "none"
    /\ lease # None /\ HeldLease(d, lease)
    /\ ~Busy(lease.fence, Expired)
    /\ state' = [x \in Uploads |-> IF x = u THEN "OPEN"
                                   ELSE IF x \in Expired THEN "ABORTED" ELSE state[x]]
    /\ NewUpload(u)
    /\ IF Expired = {} THEN UNCHANGED tasks
       ELSE Take(r, Expired, "remove", [Idle EXCEPT !.sweep = Expired])
    /\ UNCHANGED <<now, profile, chunks, snaps, ledger, held, object, env>>

\* Removes the staging file of one swept or aborted upload after the commit;
\* a removal that fails leaves the file to the startup GC.
RemoveStaging(r) ==
    /\ Step(r, "remove")
    /\ \E u \in reqs[r].sweep, gone \in BOOLEAN :
         /\ staging' = IF gone THEN [staging EXCEPT ![u] = None] ELSE staging
         /\ IF reqs[r].sweep = {u} THEN Done(r)
            ELSE /\ reqs' = [reqs EXCEPT ![r].sweep = @ \ {u}]
                 /\ writers' = writers \ {u}
                 /\ UNCHANGED pc
    /\ UNCHANGED <<now, profile, rows, object, env>>

----------------------------------------------------------------------------
(* PATCH: check, write outside the transaction, check again and record.    *)

Offset(u) == Len(chunks[u])

\* Fault: off by one at the end of the object.
Fits_OffByOne(u) == Offset(u) <= Size

\* The chunk ends within the expected size.
Fits(u) == Offset(u) < Size

PatchBegin(r, d, u, c) ==
    /\ Step(r, "idle") /\ FreeUpload(u)
    /\ Writable(d, u)
    /\ Fits(u)
    /\ Take(r, {u}, "patch_write", [Idle EXCEPT !.dev = d, !.upload = u,
                                                !.at = Offset(u), !.chunk = c])
    /\ UNCHANGED <<now, profile, rows, files, env>>

\* write_at opens the file, which it creates only at offset 0; a missing or
\* short file cannot resume.
CanWriteAt(u, at) ==
    \/ staging[u] = None /\ at = 0
    \/ staging[u] # None /\ Len(staging[u]) >= at

Bytes(u) == IF staging[u] = None THEN <<>> ELSE staging[u]

\* Fault: the tail of an earlier write is not cut.
Written_KeepTail(u, at, cs) == IF at < Len(Bytes(u)) /\ cs # <<>>
                               THEN Bytes(u) ELSE SubSeq(Bytes(u), 1, at) \o cs

\* The file after write_at: cut to the offset, then the chunk.
Written(u, at, cs) == SubSeq(Bytes(u), 1, at) \o cs

WriteAt(u, at, cs) ==
    staging' = IF CanWriteAt(u, at) THEN [staging EXCEPT ![u] = Written(u, at, cs)] ELSE staging

\* The blocking task holds the writer; when its request is gone it frees it.
PatchWrite(r) ==
    LET q == reqs[r] IN
    /\ Serving /\ pc[r] \in {"patch_write", "patch_orphan"}
    /\ WriteAt(q.upload, q.at, <<q.chunk>>)
    /\ IF pc[r] = "patch_orphan" THEN Done(r)
       ELSE Goto(r, IF CanWriteAt(q.upload, q.at) THEN "patch_tx" ELSE "patch_short")
    /\ UNCHANGED <<now, profile, rows, object, env>>

\* The re-check of the second transaction.
StillWritable(r) ==
    Writable(reqs[r].dev, reqs[r].upload) /\ Offset(reqs[r].upload) = reqs[r].at

PatchRecord(r) ==
    LET q == reqs[r] IN
    /\ Step(r, "patch_tx") /\ StillWritable(r)
    /\ chunks' = [chunks EXCEPT ![q.upload] = Append(@, q.chunk)]
    /\ Done(r)
    /\ UNCHANGED <<now, profile, state, terms, snaps, ledger, held, files, env>>

\* quarantine(): the missing or short file of an OPEN upload, or the bytes a
\* finalize refuses.
Quarantine(u) == state' = [state EXCEPT ![u] = "QUARANTINED"]

PatchQuarantine(r) ==
    /\ Step(r, "patch_short") /\ StillWritable(r)
    /\ Quarantine(reqs[r].upload)
    /\ Done(r)
    /\ UNCHANGED <<now, profile, terms, chunks, snaps, ledger, held, files, env>>

\* The chunk does not record: the file is cut back to the offset.
PatchRefused(r) ==
    /\ Serving /\ pc[r] \in {"patch_tx", "patch_short"} /\ ~StillWritable(r)
    /\ Goto(r, "patch_cut")
    /\ UNCHANGED <<now, profile, rows, files, env>>

PatchCut(r) ==
    /\ Step(r, "patch_cut")
    /\ WriteAt(reqs[r].upload, reqs[r].at, <<>>)
    /\ Done(r)
    /\ UNCHANGED <<now, profile, rows, object, env>>

----------------------------------------------------------------------------
(* FINALIZE_UPLOAD: FINALIZING, promote outside the transaction, READY.    *)

\* A FINALIZING upload resumes for the exact request that stored it.
FinalizeBegin(r, d, u) ==
    /\ Step(r, "idle") /\ FreeUpload(u)
    /\ state[u] \in {"OPEN", "FINALIZING"} /\ Live(u)
    /\ Offset(u) = Size
    /\ HeldLease(d, terms[u])
    /\ state' = [state EXCEPT ![u] = "FINALIZING"]
    /\ Take(r, {u}, "fin_promote", [Idle EXCEPT !.dev = d, !.upload = u])
    /\ UNCHANGED <<now, profile, terms, chunks, snaps, ledger, held, files, env>>

\* The bytes promote checks: the object if an earlier promote renamed it.
Candidate(u) == IF object[u] # None THEN object[u] ELSE staging[u]

\* The rename that makes the staging file the object; nothing to do when it
\* was renamed before.
Renamed(u) ==
    /\ object' = [object EXCEPT ![u] = Candidate(u)]
    /\ staging' = IF object[u] # None THEN staging ELSE [staging EXCEPT ![u] = None]

\* promote in its blocking task.  A file that cannot be opened is a 500: the
\* upload stays FINALIZING and the writer is freed.
Promote(r) ==
    LET u == reqs[r].upload IN
    /\ Serving /\ pc[r] \in {"fin_promote", "fin_orphan"}
    /\ IF Candidate(u) = Whole THEN Renamed(u) ELSE UNCHANGED files
    /\ IF pc[r] = "fin_orphan" \/ Candidate(u) = None THEN Done(r)
       ELSE Goto(r, IF Candidate(u) = Whole THEN "fin_ready" ELSE "fin_refuse")
    /\ UNCHANGED <<now, profile, rows, env>>

\* ready(): READY with the stored response, under no further check.
FinalizeReady(r) ==
    LET u == reqs[r].upload IN
    /\ Step(r, "fin_ready")
    /\ state' = IF state[u] = "FINALIZING" THEN [state EXCEPT ![u] = "READY"] ELSE state
    /\ Done(r)
    /\ UNCHANGED <<now, profile, terms, chunks, snaps, ledger, held, files, env>>

FinalizeRefused(r) ==
    /\ Step(r, "fin_refuse")
    /\ Quarantine(reqs[r].upload)
    /\ Done(r)
    /\ UNCHANGED <<now, profile, terms, chunks, snaps, ledger, held, files, env>>

\* Fault: quarantined evidence can be aborted.
Abortable_Any == {"OPEN", "READY", "QUARANTINED"}

Abortable == {"OPEN", "READY"}

\* abort_upload: an OPEN or READY upload of the lease holder.
Abort(r, d, u) ==
    /\ Step(r, "idle") /\ FreeUpload(u)
    /\ state[u] \in Abortable
    /\ HeldLease(d, terms[u])
    /\ state' = [state EXCEPT ![u] = "ABORTED"]
    /\ Take(r, {u}, "remove", [Idle EXCEPT !.sweep = {u}])
    /\ UNCHANGED <<now, profile, terms, chunks, snaps, ledger, held, files, env>>

\* The client disconnects and axum drops the handler.  A blocking task runs on
\* and keeps the writer (a cut ends the same way with or without its request);
\* everywhere else the writer is dropped at once.
Drop(r) ==
    /\ Serving /\ pc[r] \notin {"idle", "patch_orphan", "patch_cut", "fin_orphan"}
    /\ CASE pc[r] = "patch_write" -> Goto(r, "patch_orphan")
         [] pc[r] = "fin_promote" -> Goto(r, "fin_orphan")
         [] OTHER -> Done(r)
    /\ UNCHANGED <<now, profile, rows, files, env>>

----------------------------------------------------------------------------
(* COMMIT: one transaction, without the writer.                            *)

\* Fault: the lease outlives the commit.
AfterCommit_KeepLease == lease

\* v2_profile_leases after a commit.
AfterCommit == None

Commit(d, u) ==
    /\ Serving /\ state[u] = "READY" /\ Live(u)
    /\ HeldLease(d, terms[u])
    /\ current = terms[u].base
    /\ current' = current + 1
    /\ snaps' = [snaps EXCEPT ![current + 1] = u]
    /\ lease' = AfterCommit
    /\ state' = [state EXCEPT ![u] = "COMMITTED"]
    /\ ledger' = [ledger EXCEPT ![u] = current + 1]
    /\ UNCHANGED <<now, fence, terms, chunks, held, files, tasks, env>>

\* The version in the receipt that answers a retried commit, even after the
\* lease is gone; 0 when the retry is refused.
ReplayOf(u) ==
    IF ledger[u] \in Versions /\ snaps[ledger[u]] = u /\ u \notin held THEN ledger[u] ELSE 0

\* committed(): the versions that read_snapshot serves.
Served(v) == snaps[v] # None /\ snaps[v] \notin held

----------------------------------------------------------------------------
(* The startup pass: settle every upload by the table, then collect.       *)
(* settle() gives an upload STEPS rounds of reading it again and acting;   *)
(* SettlesInSteps says that its "did not settle" is never reached.  A blob *)
(* root that is missing whole stops the server before any upload is looked *)
(* at and is not modelled.                                                 *)

STEPS == 4

\* receipt(): "V" when the stored receipt, the snapshot and the upload agree.
Receipt(u) ==
    LET own == {v \in Versions : snaps[v] = u} IN
    IF own = {} /\ ledger[u] = 0 THEN "absent"
    ELSE IF own = {ledger[u]} /\ ledger[u] <= current THEN "valid" ELSE "invalid"

\* whole(): the file against the expected size and hash.
WholeFile(f) == IF f = None THEN "absent" ELSE IF f = Whole THEN "valid" ELSE "invalid"

\* staged() of an OPEN upload: the chunk receipts tile the file up to the
\* offset; a missing file is fine at offset 0.
StagedOpen(u) ==
    IF staging[u] = None
    THEN IF Offset(u) = 0 THEN "absent" ELSE "invalid"
    ELSE IF Len(staging[u]) >= Offset(u) /\ SubSeq(staging[u], 1, Offset(u)) = chunks[u]
         THEN "valid" ELSE "invalid"

Staged(u) == IF state[u] = "OPEN" THEN StagedOpen(u) ELSE WholeFile(staging[u])

\* decide(): the one action for the receipt r, the object i and the staging
\* file s of an upload, by its state.
DecideOpen(r, i, s) ==
    IF r = "absent" /\ i = "absent" /\ s # "invalid" THEN "keep" ELSE "quarantine"

DecideFinalizing(r, i, s) ==
    IF "invalid" \in {r, i, s} THEN "quarantine"
    ELSE IF i = "valid" \/ (r = "absent" /\ s = "valid") THEN "promote" ELSE "quarantine"

DecideReady(r, i, s) ==
    IF r = "invalid" \/ i # "valid" \/ s = "invalid" THEN "quarantine"
    ELSE IF r = "valid" THEN "commit"
    ELSE IF s = "absent" THEN "keep" ELSE "drop"

\* Fault: the object of a COMMITTED upload is only looked for.
DecideCommitted_NotHashed(r, i, s) ==
    IF r # "valid" \/ i = "absent" \/ s = "invalid" THEN "quarantine"
    ELSE IF s = "absent" THEN "keep" ELSE "drop"

DecideCommitted(r, i, s) ==
    IF r # "valid" \/ i # "valid" \/ s = "invalid" THEN "quarantine"
    ELSE IF s = "absent" THEN "keep" ELSE "drop"

Decide(st, r, i, s) ==
    CASE st = "OPEN"       -> DecideOpen(r, i, s)
      [] st = "FINALIZING" -> DecideFinalizing(r, i, s)
      [] st = "READY"      -> DecideReady(r, i, s)
      [] st = "COMMITTED"  -> DecideCommitted(r, i, s)
      [] OTHER             -> "quarantine"

Verdict(u) == Decide(state[u], Receipt(u), WholeFile(object[u]), Staged(u))

\* staged() cuts the tail of an OPEN upload before anything is decided.
CutTail(u) ==
    staging' = IF state[u] = "OPEN" /\ staging[u] # None /\ Len(staging[u]) > Offset(u)
               THEN [staging EXCEPT ![u] = SubSeq(@, 1, Offset(u))] ELSE staging

Settling(u) == mode = "starting" /\ u \in todo

\* settle() returns: the upload is done with, and so is its loop.
Settled(u) ==
    /\ todo' = todo \ {u}
    /\ rounds' = [rounds EXCEPT ![u] = 0]
    /\ UNCHANGED <<mode, crashes, faults>>

\* The loop of settle() goes round.
NextRound(u) ==
    /\ rounds' = [rounds EXCEPT ![u] = @ + 1]
    /\ UNCHANGED <<mode, todo, crashes, faults>>

SettleKeep(u) ==
    /\ Settling(u) /\ Verdict(u) = "keep"
    /\ CutTail(u)
    /\ Settled(u)
    /\ UNCHANGED <<now, profile, rows, object, tasks>>

\* quarantine() of the reconciler: the row, and the state where it may move.
Hold(u) ==
    /\ held' = held \cup {u}
    /\ state' = IF state[u] = "COMMITTED" THEN state ELSE [state EXCEPT ![u] = "QUARANTINED"]

SettleQuarantine(u) ==
    /\ Settling(u) /\ Verdict(u) = "quarantine"
    /\ CutTail(u) /\ Hold(u)
    /\ Settled(u)
    /\ UNCHANGED <<now, profile, terms, chunks, snaps, ledger, object, tasks>>

\* promote(), then ready() in its own transaction: between the two the upload
\* is FINALIZING with its object in place, which is a row of the table too.
SettlePromote(u) ==
    /\ Settling(u) /\ Verdict(u) = "promote" /\ object[u] = None
    /\ Renamed(u)
    /\ UNCHANGED <<now, profile, rows, tasks, env>>

\* Fault: the upload is not read again after READY.
SettleReady_NoReread(u) ==
    /\ Settling(u) /\ Verdict(u) = "promote" /\ object[u] # None
    /\ state' = [state EXCEPT ![u] = "READY"]
    /\ Settled(u)
    /\ UNCHANGED <<now, profile, terms, chunks, snaps, ledger, held, files, tasks>>

SettleReady(u) ==
    /\ Settling(u) /\ Verdict(u) = "promote" /\ object[u] # None
    /\ state' = [state EXCEPT ![u] = "READY"]
    /\ NextRound(u)
    /\ UNCHANGED <<now, profile, terms, chunks, snaps, ledger, held, files, tasks>>

SettleCommit(u) ==
    /\ Settling(u) /\ Verdict(u) = "commit"
    /\ state' = [state EXCEPT ![u] = "COMMITTED"]
    /\ NextRound(u)
    /\ UNCHANGED <<now, profile, terms, chunks, snaps, ledger, held, files, tasks>>

\* Fault: the file is not removed, and the upload never settles.
SettleDrop_NoRemove(u) ==
    /\ Settling(u) /\ Verdict(u) = "drop"
    /\ NextRound(u)
    /\ UNCHANGED <<now, profile, rows, files, tasks>>

SettleDrop(u) ==
    /\ Settling(u) /\ Verdict(u) = "drop"
    /\ staging' = [staging EXCEPT ![u] = None]
    /\ NextRound(u)
    /\ UNCHANGED <<now, profile, rows, object, tasks>>

\* A step that fails ATTEMPTS times quarantines its upload; a COMMITTED one
\* turns the v2 routes off instead.
SettleFails(u) ==
    /\ Settling(u) /\ faults < MaxFault
    /\ faults' = faults + 1
    /\ IF state[u] = "COMMITTED"
       THEN mode' = "off" /\ todo' = {} /\ UNCHANGED <<state, held>>
       ELSE Hold(u) /\ todo' = todo \ {u} /\ UNCHANGED mode
    /\ rounds' = [x \in Uploads |-> IF x \in todo' \ {u} THEN rounds[x] ELSE 0]
    /\ UNCHANGED <<now, profile, terms, chunks, snaps, ledger, files, tasks, crashes>>

\* gc(): expired OPEN uploads are ABORTED ...
Gc ==
    /\ mode = "starting" /\ todo = {}
    /\ mode' = "gc"
    /\ state' = [u \in Uploads |->
                   IF state[u] = "OPEN" /\ ~Live(u) THEN "ABORTED" ELSE state[u]]
    /\ UNCHANGED <<now, profile, terms, chunks, snaps, ledger, held, files, tasks,
                   todo, rounds, crashes, faults>>

\* ... and the staging files of ABORTED uploads go; then the gate.
Open ==
    /\ mode = "gc"
    /\ staging' = [u \in Uploads |-> IF state[u] = "ABORTED" THEN None ELSE staging[u]]
    /\ mode' = IF \E u \in Uploads : state[u] = "FINALIZING" THEN "off" ELSE "serving"
    /\ UNCHANGED <<now, profile, rows, object, tasks, todo, rounds, crashes, faults>>

\* out_of_reach(): a COMMITTED object that is missing fails the pass before it
\* starts.
OutOfReach == \E u \in Uploads : state[u] = "COMMITTED" /\ u \notin held /\ object[u] = None

Start ==
    /\ mode = "down"
    /\ mode' = IF OutOfReach THEN "off" ELSE "starting"
    /\ todo' = IF OutOfReach THEN {}
               ELSE {u \in Uploads \ held :
                       state[u] \in {"OPEN", "FINALIZING", "READY", "COMMITTED"}}
    /\ UNCHANGED <<now, profile, rows, files, tasks, rounds, crashes, faults>>

----------------------------------------------------------------------------
(* The environment.                                                        *)

Tick ==
    /\ now < MaxTime
    /\ now' = now + 1
    /\ UNCHANGED <<profile, rows, files, tasks, env>>

\* The process dies, at any point of any handler or of the pass.
Crash ==
    /\ mode # "down" /\ crashes < MaxCrash
    /\ mode' = "down" /\ todo' = {} /\ crashes' = crashes + 1
    /\ rounds' = [u \in Uploads |-> 0]
    /\ writers' = {}
    /\ pc' = [r \in Reqs |-> "idle"]
    /\ reqs' = [r \in Reqs |-> Idle]
    /\ UNCHANGED <<now, profile, rows, files, faults>>

Fault == faults < MaxFault /\ faults' = faults + 1

Damaged == {None, [i \in 1 .. Size |-> "bad"]}

\* A staging file is lost or its bytes change.
DamageStaging(u) ==
    /\ mode \in {"down", "serving"} /\ Fault
    /\ staging[u] # None
    /\ \E f \in Damaged : staging' = [staging EXCEPT ![u] = f]
    /\ UNCHANGED <<now, profile, rows, object, tasks, mode, todo, rounds, crashes>>

\* An object is lost or its bytes change while the server is down.
DamageObject(u) ==
    /\ mode = "down" /\ Fault
    /\ object[u] # None
    /\ \E f \in Damaged : object' = [object EXCEPT ![u] = f]
    /\ UNCHANGED <<now, profile, rows, staging, tasks, mode, todo, rounds, crashes>>

\* The disk comes back as the rows L1197, L1200, L1206, L1208 and L1213 of the
\* table expect it: the staging name outlived the rename, or the upload row is
\* older than the receipt of its commit.
Revert(u) ==
    /\ mode = "down" /\ Fault
    /\ \/ /\ object[u] # None /\ staging[u] = None
          /\ staging' = [staging EXCEPT ![u] = object[u]]
          /\ UNCHANGED state
       \/ /\ state[u] = "COMMITTED"
          /\ \E st \in {"READY", "FINALIZING"} : state' = [state EXCEPT ![u] = st]
          /\ UNCHANGED staging
    /\ UNCHANGED <<now, profile, terms, chunks, snaps, ledger, held, object, tasks,
                   mode, todo, rounds, crashes>>

LeaseStep ==
    \/ \E d \in Devices : Publish(d) \/ Checkout(d) \/ Renew(d) \/ Release(d)
    \/ ForceExpire

Request_(r) ==
    \E d \in Devices, u \in Uploads :
      \/ CreateUpload(r, d, u) \/ FinalizeBegin(r, d, u) \/ Abort(r, d, u)
      \/ \E c \in Chunk : PatchBegin(r, d, u, c)

Work(r) ==
    \/ RemoveStaging(r) \/ PatchWrite(r) \/ PatchRecord(r) \/ PatchQuarantine(r)
    \/ PatchRefused(r) \/ PatchCut(r) \/ Promote(r) \/ FinalizeReady(r) \/ FinalizeRefused(r)

Settle(u) ==
    \/ SettleKeep(u) \/ SettleQuarantine(u) \/ SettlePromote(u) \/ SettleReady(u)
    \/ SettleCommit(u) \/ SettleDrop(u)

Startup == Start \/ Gc \/ Open \/ \E u \in Uploads : Settle(u)

Next ==
    \/ LeaseStep
    \/ \E r \in Reqs : Request_(r) \/ Work(r) \/ Drop(r)
    \/ \E d \in Devices, u \in Uploads : Commit(d, u)
    \/ Startup
    \/ \E u \in Uploads : \/ SettleFails(u) \/ DamageStaging(u)
                          \/ DamageObject(u) \/ Revert(u)
    \/ Tick \/ Crash

Spec == Init /\ [][Next]_vars

----------------------------------------------------------------------------
(* Properties.                                                             *)

\* The type of every variable (the tables of migrations 0025-0027 and the
\* locals of the handlers).
TypeOK ==
    /\ now \in Nat /\ current \in Fences /\ fence \in Fences
    /\ lease \in Lease \cup {None}
    /\ state \in [Uploads -> States]
    /\ terms \in [Uploads -> Terms]
    /\ chunks \in [Uploads -> File]
    /\ staging \in [Uploads -> File \cup {None}]
    /\ object \in [Uploads -> File \cup {None}]
    /\ snaps \in [Versions -> Uploads \cup {None}]
    /\ ledger \in [Uploads -> Fences]
    /\ held \in SUBSET Uploads /\ writers \in SUBSET Uploads
    /\ pc \in [Reqs -> PCs] /\ reqs \in [Reqs -> Request]
    /\ mode \in {"down", "starting", "gc", "serving", "off"} /\ todo \in SUBSET Uploads
    /\ rounds \in [Uploads -> Nat] /\ crashes \in Nat /\ faults \in Nat

\* "The lease's base is the profile's version: only a commit moves it, and a
\* commit deletes the lease" (create_upload), and the lease holds the newest
\* fence: what every held_lease check relies on.
LeaseIsCurrent == lease # None => lease.base = current /\ lease.fence = fence

\* The committed versions form one chain: every version is there, was built on
\* the version before it, under a younger fence, and a retry of its commit gets
\* its own receipt unless the upload is quarantined, whatever leases expired,
\* were forced or overlapped with uploads (commit_upload).
FencedHistory ==
    /\ \A v \in Versions : v <= current <=> snaps[v] # None
    /\ \A v \in Versions : snaps[v] # None =>
          /\ terms[snaps[v]].base = v - 1
          /\ ReplayOf(snaps[v]) \in (IF snaps[v] \in held THEN {0} ELSE {v})
          /\ \A w \in 1 .. v - 1 : terms[snaps[w]].fence < terms[snaps[v]].fence

\* A version only moves by one, for an upload of the lease that holds the newest
\* fence at that moment: an upload of an expired, released or displaced lease
\* never becomes a version (held_lease in commit_upload).
CommitIsFenced ==
    [][current' # current =>
         /\ current' = current + 1
         /\ lease # None /\ lease.expires > now
         /\ terms[snaps'[current']].fence = fence]_vars

\* The profile as FencedLog sees it: the lease is the holder and every version
\* carries the fence of the upload it came from.
Log == INSTANCE FencedLog WITH
         version <- current,
         holder  <- IF lease = None THEN 0 ELSE lease.fence,
         log     <- [v \in 1 .. current |-> terms[snaps[v]].fence]

\* Uploads, handlers, crashes and recovery implement the fenced log: everything
\* but a grant, the end of a lease and a commit is invisible to it, and a commit
\* is one step (commit_upload's single transaction).
ImplementsLog == Log!Spec

\* While no row is damaged a lease has at most one OPEN or FINALIZING upload
\* (UPLOAD_CAPACITY, L1155); when the slot of an expired one frees is not said.
OneUploadPerLease ==
    faults = 0 =>
      \A u, w \in Uploads :
        /\ u # w
        /\ state[u] \in {"OPEN", "FINALIZING"} /\ state[w] \in {"OPEN", "FINALIZING"}
        => terms[u].fence # terms[w].fence

Moves == {<<"none", "OPEN">>, <<"OPEN", "FINALIZING">>, <<"FINALIZING", "READY">>,
          <<"READY", "COMMITTED">>, <<"OPEN", "QUARANTINED">>,
          <<"FINALIZING", "QUARANTINED">>, <<"READY", "QUARANTINED">>,
          <<"OPEN", "ABORTED">>, <<"FINALIZING", "ABORTED">>, <<"READY", "ABORTED">>}

\* No route and no pass ever asks for a move that the trigger
\* v2_uploads_state_moves_forward refuses, and quarantined evidence and the
\* bytes of a COMMITTED upload are never touched again (L1185, L1214).
MovesForward ==
    [][faults' = faults => \A u \in Uploads :
         /\ state'[u] # state[u] => <<state[u], state'[u]>> \in Moves
         /\ state[u] \in {"COMMITTED", "QUARANTINED"} => object'[u] = object[u]
         /\ state[u] = "QUARANTINED" => staging'[u] = staging[u]]_vars

\* The bytes behind the rows while no file is damaged: the recorded chunks of an
\* OPEN upload are in its staging file, those of a FINALIZING upload are all of
\* it or of the object, and a READY or COMMITTED upload has its whole object.
BytesOnDisk ==
    faults = 0 =>
      \A u \in Uploads :
        /\ state[u] = "OPEN" =>
             object[u] = None /\ Len(Bytes(u)) >= Offset(u) /\ SubSeq(Bytes(u), 1, Offset(u)) = chunks[u]
        /\ state[u] = "FINALIZING" => Candidate(u) = chunks[u]
        /\ state[u] \in {"READY", "COMMITTED"} => object[u] = Whole

\* Crashes, disconnects and expiry alone never quarantine an upload: without
\* damage, one is quarantined only when its client sent bytes that are not the
\* ones its terms promise (with handlers side by side: QuarantineJustified of
\* ProfileUploadProofs).
QuarantineHasCause ==
    faults = 0 =>
      \A u \in Uploads :
        state[u] = "QUARANTINED" \/ u \in held => \E i \in 1 .. Offset(u) : chunks[u][i] = "bad"

\* What read_snapshot serves hashes to its terms, even when files were lost or
\* changed while the server was down: the pass quarantines it or refuses to open.
ServedIsIntact ==
    mode = "serving" =>
      \A v \in Versions :
        Served(v) => object[snaps[v]] = Whole

\* "A second pass changes nothing" (the reconciler's contract): once a pass has
\* settled every upload, whatever was damaged before it, the table keeps each
\* one that is not quarantined.
SecondPassKeeps ==
    mode = "gc" =>
      \A u \in Uploads \ held :
        state[u] \in {"OPEN", "FINALIZING", "READY", "COMMITTED"} => Verdict(u) = "keep"

\* The pass comes to an end: whatever the disk came back as, settle() never needs
\* more rounds for an upload than the STEPS it has, so it never gives up on one
\* it could still settle ("an upload did not settle").  "The longest chain of
\* rows one upload walks: L1197, L1206, L1213, L1212."
SettlesInSteps == \A u \in todo : rounds[u] < STEPS
============================================================================
