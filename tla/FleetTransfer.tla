--------------------------- MODULE FleetTransfer ---------------------------
(***************************************************************************)
(* The older transfer path (/v2/fleet: server/src/fleet.rs, the routes in  *)
(* server/src/routes/v2.rs) for one profile that was never published, with *)
(* the launcher's side of it (FleetClient::upload in fleet_client.rs,      *)
(* called by profile_sync_push).                                           *)
(*                                                                         *)
(* A member of Uploads is one call of FleetClient::upload: it draws its    *)
(* own lease id and session id, so leases, sessions and staging files are  *)
(* indexed by the upload.  The client waits for each request, so a request *)
(* other than the commit is part of the client's own step.  The commit has *)
(* a program counter of its own, because the server may go on with it      *)
(* after the client has given up.                                          *)
(*                                                                         *)
(* The database has a rollback journal: a transaction that has read holds  *)
(* a SHARED lock to its end, and no other connection can commit a write    *)
(* while it does.  A write that cannot commit fails after the busy timeout *)
(* and reaches the client as an error.                                     *)
(***************************************************************************)
EXTENDS Naturals, FiniteSets, FiniteSetsExt

CONSTANTS
    Uploads,    \* calls of FleetClient::upload
    Devices,    \* devices that push this profile
    None,       \* no file, no manifest
    Size,       \* chunks of a container
    MaxCrash    \* power losses of the server

ASSUME ConstantsOK ==
    /\ IsFiniteSet(Uploads)
    /\ None \notin Uploads \cup {"open", "committed", "aborted"}
    /\ Size \in Nat \ {0}
    /\ MaxCrash \in Nat

VARIABLES
    current,    \* v2_profiles.current_version
    manifests,  \* v2_snapshot_manifests: version -> the upload it was made from
    files,      \* <version>.bin: version -> whose bytes, and how many chunks
    token,      \* v2_leases.fencing_token of the upload's lease, 0 for no row
    held,       \* leases with released_at IS NULL
    expired,    \* leases past expires_at
    status,     \* v2_upload_sessions.status, None for no row
    received,   \* v2_upload_sessions.received_size
    staging,    \* the .part file: chunks in it, or None
    device,     \* the device the upload runs on
    base,       \* the base_version the user passed to the push
    client,     \* where FleetClient::upload stands
    commit,     \* where the server's commit handler stands
    crashes,    \* power losses so far
    raced       \* history: versions whose commit was running when its lease ended

vars == <<current, manifests, files, token, held, expired, status, received,
          staging, device, base, client, commit, crashes, raced>>

leases == <<token, held, expired>>
sessions == <<status, received, staging>>
snapshots == <<current, manifests, files>>
call == <<device, base>>

Versions == 1..Cardinality(Uploads)
Target(u) == base[u] + 1
Whole(u) == [of |-> u, chunks |-> Size]

ClientPc == {"idle", "lease", "open", "create", "stage", "record", "abort",
             "aborting", "commit", "committing", "release", "done"}
InTx == {"remove", "rename", "insert", "publish"}
Late == {"lateRemove", "lateRename"}
CommitPc == {"none", "check", "hash", "begin"} \cup InTx \cup Late

TypeOK ==
    /\ current \in 0..Cardinality(Uploads)
    /\ manifests \in [Versions -> Uploads \cup {None}]
    /\ files \in [Versions -> [of : Uploads, chunks : 0..Size] \cup {None}]
    /\ token \in [Uploads -> 0..Cardinality(Uploads)]
    /\ held \subseteq {u \in Uploads : token[u] # 0}
    /\ expired \subseteq {u \in Uploads : token[u] # 0}
    /\ status \in [Uploads -> {"open", "committed", "aborted", None}]
    /\ received \in [Uploads -> 0..Size]
    /\ staging \in [Uploads -> 0..Size \cup {None}]
    /\ device \in [Uploads -> Devices \cup {None}]
    /\ base \in [Uploads -> 0..(Cardinality(Uploads) - 1)]
    /\ client \in [Uploads -> ClientPc]
    /\ commit \in [Uploads -> CommitPc]
    /\ crashes \in 0..MaxCrash
    /\ raced \subseteq Versions

Init ==
    /\ current = 0
    /\ manifests = [v \in Versions |-> None]
    /\ files = [v \in Versions |-> None]
    /\ token = [u \in Uploads |-> 0]
    /\ held = {} /\ expired = {}
    /\ status = [u \in Uploads |-> None]
    /\ received = [u \in Uploads |-> 0]
    /\ staging = [u \in Uploads |-> None]
    /\ device = [u \in Uploads |-> None]
    /\ base = [u \in Uploads |-> 0]
    /\ client = [u \in Uploads |-> "idle"]
    /\ commit = [u \in Uploads |-> "none"]
    /\ crashes = 0
    /\ raced = {}

-----------------------------------------------------------------------------
(* The client up to its commit.                                            *)

At(u, pc) == client[u] = pc
Goto(u, pc) == client' = [client EXCEPT ![u] = pc]

\* No other connection is inside a transaction that has read.
Writable(u) == \A w \in Uploads \ {u} : commit[w] \notin InTx

\* profile_sync_push: the claim allows one push of the profile at a time on a
\* device; the base is a version some earlier status call has shown.
Push(u, d, b) ==
    /\ At(u, "idle")
    /\ \A w \in Uploads : device[w] = d => client[w] = "done"
    /\ b <= current
    /\ b < Cardinality(Uploads)
    /\ device' = [device EXCEPT ![u] = d]
    /\ base' = [base EXCEPT ![u] = b]
    /\ Goto(u, "lease")
    /\ UNCHANGED <<snapshots, leases, sessions, commit, crashes, raced>>

\* Fault: only leases that are still held are counted.
NextToken_Held == 1 + Max({0} \cup {token[u] : u \in held})

\* One above the highest token ever issued, released leases included.
NextToken == 1 + Max({0} \cup {token[u] : u \in Uploads})

\* acquire_lease: the partial unique index admits one row with released_at NULL,
\* whether it has expired or not.
Acquire(u) ==
    /\ At(u, "lease")
    /\ Writable(u)
    /\ held = {}
    /\ token' = [token EXCEPT ![u] = NextToken]
    /\ held' = {u}
    /\ Goto(u, "open")
    /\ UNCHANGED <<snapshots, expired, sessions, call, commit, crashes, raced>>

\* open_upload: the row first, then the file, which truncates a leftover one.
OpenRow(u) ==
    /\ At(u, "open")
    /\ Writable(u)
    /\ status' = [status EXCEPT ![u] = "open"]
    /\ Goto(u, "create")
    /\ UNCHANGED <<snapshots, leases, received, staging, call, commit, crashes, raced>>

OpenFile(u) ==
    /\ At(u, "create")
    /\ staging' = [staging EXCEPT ![u] = 0]
    /\ Goto(u, "stage")
    /\ UNCHANGED <<snapshots, leases, status, received, call, commit, crashes, raced>>

\* The file cannot be created: the row is deleted again, best effort.
OpenFails(u) ==
    /\ At(u, "create")
    /\ status' \in {status, [status EXCEPT ![u] = None]}
    /\ Goto(u, "release")
    /\ UNCHANGED <<snapshots, leases, received, staging, call, commit, crashes, raced>>

\* append_chunk: an open session, the offset is the recorded end, the bytes are
\* flushed before the progress is recorded.
ChunkWrite(u) ==
    /\ At(u, "stage")
    /\ status[u] = "open"
    /\ received[u] < Size
    /\ staging[u] # None
    /\ staging' = [staging EXCEPT ![u] = @ + 1]
    /\ Goto(u, "record")
    /\ UNCHANGED <<snapshots, leases, status, received, call, commit, crashes, raced>>

ChunkRecord(u) ==
    /\ At(u, "record")
    /\ Writable(u)
    /\ received' = [received EXCEPT ![u] = @ + 1]
    /\ Goto(u, IF received[u] + 1 = Size THEN "commit" ELSE "stage")
    /\ UNCHANGED <<snapshots, leases, status, staging, call, commit, crashes, raced>>

\* abort_upload, sent when a chunk failed: the file, then the row.
AbortRemove(u) ==
    /\ At(u, "abort")
    /\ status[u] = "open"
    /\ staging' = [staging EXCEPT ![u] = None]
    /\ Goto(u, "aborting")
    /\ UNCHANGED <<snapshots, leases, status, received, call, commit, crashes, raced>>

AbortMark(u) ==
    /\ At(u, "aborting")
    /\ Writable(u)
    /\ status' = [status EXCEPT ![u] = "aborted"]
    /\ Goto(u, "release")
    /\ UNCHANGED <<snapshots, leases, received, staging, call, commit, crashes, raced>>

\* What the commits of these uploads are writing, while their lease ends.
LeftRunning(us) == {Target(u) : u \in {w \in us \cap held : commit[w] # "none"}}

\* release_lease, whatever upload_with_lease returned.
Release(u) ==
    /\ At(u, "release")
    /\ Writable(u)
    /\ held' = held \ {u}
    /\ raced' = raced \cup LeftRunning({u})
    /\ Goto(u, "done")
    /\ UNCHANGED <<snapshots, token, expired, sessions, call, commit, crashes>>

\* Where upload and upload_with_lease go on after a request that failed.
AfterError(pc) ==
    CASE pc \in {"stage", "record"} -> "abort"
      [] pc \in {"lease", "release"} -> "done"
      [] OTHER -> "release"

\* A request is refused, gets no answer, or never arrives.
RequestFails(u) ==
    /\ client[u] \notin {"idle", "done"}
    /\ Goto(u, AfterError(client[u]))
    /\ UNCHANGED <<snapshots, leases, sessions, call, commit, crashes, raced>>

\* The launcher dies in the middle of a push, or the answer to the claim is lost:
\* upload then returns before it has anything to release.
Quit(u) ==
    /\ client[u] \notin {"idle", "done"}
    /\ Goto(u, "done")
    /\ UNCHANGED <<snapshots, leases, sessions, call, commit, crashes, raced>>

-----------------------------------------------------------------------------
(* The commit: commit_snapshot_upload and fleet::commit_upload.            *)

Serve(u, from, to) ==
    /\ commit[u] = from
    /\ commit' = [commit EXCEPT ![u] = to]

SendCommit(u) ==
    /\ At(u, "commit")
    /\ Goto(u, "committing")
    /\ Serve(u, "none", "check")
    /\ UNCHANGED <<snapshots, leases, sessions, call, crashes, raced>>

\* validate_lease, outside the transaction that follows.
Valid(u) == u \in held /\ u \notin expired

CommitCheck(u) ==
    /\ Serve(u, "check", "hash")
    /\ status[u] = "open"
    /\ received[u] = Size
    /\ Valid(u)
    /\ UNCHANGED <<snapshots, leases, sessions, call, client, crashes, raced>>

\* Fault: the received size alone is taken as proof of the bytes.
CommitHash_SizeOnly(u) ==
    /\ Serve(u, "hash", "begin")
    /\ staging[u] # None
    /\ UNCHANGED <<snapshots, leases, sessions, call, client, crashes, raced>>

CommitHash(u) ==
    /\ Serve(u, "hash", "begin")
    /\ staging[u] = Size
    /\ UNCHANGED <<snapshots, leases, sessions, call, client, crashes, raced>>

\* Fault: the version check is left to the insert, after the file was promoted.
CommitBegin_Unchecked(u) ==
    /\ Serve(u, "begin", "remove")
    /\ UNCHANGED <<snapshots, leases, sessions, call, client, crashes, raced>>

\* The transaction begins with the read of the current version.
CommitBegin(u) ==
    /\ Serve(u, "begin", "remove")
    /\ current = base[u]
    /\ UNCHANGED <<snapshots, leases, sessions, call, client, crashes, raced>>

RemoveFile(u) ==
    files' = [files EXCEPT ![Target(u)] = None]

RenameFile(u) ==
    /\ staging[u] # None
    /\ files' = [files EXCEPT ![Target(u)] = [of |-> u, chunks |-> staging[u]]]
    /\ staging' = [staging EXCEPT ![u] = None]

CommitRemove(u) ==
    /\ Serve(u, "remove", "rename")
    /\ RemoveFile(u)
    /\ UNCHANGED <<current, manifests, leases, sessions, call, client, crashes, raced>>

CommitRename(u) ==
    /\ Serve(u, "rename", "insert")
    /\ RenameFile(u)
    /\ UNCHANGED <<current, manifests, leases, status, received, call, client, crashes, raced>>

\* The first write of the transaction takes the RESERVED lock; version is part of
\* the primary key.
CommitInsert(u) ==
    /\ Serve(u, "insert", "publish")
    /\ \A w \in Uploads : commit[w] # "publish"
    /\ manifests[Target(u)] = None
    /\ UNCHANGED <<snapshots, leases, sessions, call, client, crashes, raced>>

CommitPublish(u) ==
    /\ Serve(u, "publish", "none")
    /\ Writable(u)
    /\ manifests' = [manifests EXCEPT ![Target(u)] = u]
    /\ current' = Target(u)
    /\ status' = [status EXCEPT ![u] = "committed"]
    /\ UNCHANGED <<files, leases, received, staging, call, client, crashes, raced>>

\* A check fails, a file call fails, the busy timeout runs out, or the request
\* is dropped because its client has gone: the transaction rolls back.
CommitStops(u) ==
    /\ commit[u] \notin {"none"} \cup Late
    /\ commit' = [commit EXCEPT ![u] = "none"]
    /\ UNCHANGED <<snapshots, leases, sessions, call, client, crashes, raced>>

\* Dropped while a file call is on the blocking pool: the call still runs.
CommitDropped(u) ==
    /\ client[u] # "committing"
    /\ \/ Serve(u, "remove", "lateRemove")
       \/ Serve(u, "rename", "lateRename")
    /\ UNCHANGED <<snapshots, leases, sessions, call, client, crashes, raced>>

LateRemove(u) ==
    /\ Serve(u, "lateRemove", "none")
    /\ RemoveFile(u)
    /\ UNCHANGED <<current, manifests, leases, sessions, call, client, crashes, raced>>

LateRename(u) ==
    /\ Serve(u, "lateRename", "none")
    /\ RenameFile(u)
    /\ UNCHANGED <<current, manifests, leases, status, received, call, client, crashes, raced>>

\* The client reads the answer, good or bad, and releases.
Answered(u) ==
    /\ At(u, "committing")
    /\ commit[u] = "none"
    /\ Goto(u, "release")
    /\ UNCHANGED <<snapshots, leases, sessions, call, commit, crashes, raced>>

-----------------------------------------------------------------------------
(* The environment.                                                        *)

Expire(u) ==
    /\ u \in held \ expired
    /\ expired' = expired \cup {u}
    /\ UNCHANGED <<snapshots, token, held, sessions, call, client, commit, crashes, raced>>

\* Revoking a device releases its leases.
Revoke(d) ==
    LET mine == {u \in held : device[u] = d} IN
    /\ mine # {}
    /\ \A w \in Uploads : commit[w] \notin InTx
    /\ held' = held \ mine
    /\ raced' = raced \cup LeftRunning(mine)
    /\ UNCHANGED <<snapshots, token, expired, sessions, call, client, commit, crashes>>

\* A chunk is flushed, not synced: a power loss may take the end of one staging
\* file, or its name.
Torn(u) ==
    IF staging[u] = None THEN {staging}
    ELSE {[staging EXCEPT ![u] = k] : k \in {None} \cup 0..staging[u]}

Crash ==
    /\ crashes < MaxCrash
    /\ crashes' = crashes + 1
    /\ commit' = [u \in Uploads |-> "none"]
    /\ client' = [u \in Uploads |->
                     IF client[u] \in {"create", "record", "aborting"}
                     THEN AfterError(client[u]) ELSE client[u]]
    /\ \E u \in Uploads : staging' \in Torn(u)
    /\ UNCHANGED <<snapshots, leases, status, received, call, raced>>

-----------------------------------------------------------------------------

ClientStep(u) ==
    \/ Acquire(u) \/ OpenRow(u) \/ OpenFile(u) \/ OpenFails(u)
    \/ ChunkWrite(u) \/ ChunkRecord(u) \/ AbortRemove(u) \/ AbortMark(u)
    \/ SendCommit(u) \/ Answered(u) \/ Release(u)
    \/ RequestFails(u) \/ Quit(u)

CommitStep(u) ==
    \/ CommitCheck(u) \/ CommitHash(u) \/ CommitBegin(u) \/ CommitRemove(u)
    \/ CommitRename(u) \/ CommitInsert(u) \/ CommitPublish(u)
    \/ CommitStops(u) \/ CommitDropped(u) \/ LateRemove(u) \/ LateRename(u)

Next ==
    \/ \E u \in Uploads, d \in Devices, b \in 0..current : Push(u, d, b)
    \/ \E u \in Uploads : ClientStep(u) \/ CommitStep(u) \/ Expire(u)
    \/ \E d \in Devices : Revoke(d)
    \/ Crash

Spec == Init /\ [][Next]_vars

-----------------------------------------------------------------------------
(* Properties.                                                             *)

\* What commit_upload published stays published: in every interleaving of pushes,
\* timeouts, revocations and power losses versions 1..current have manifests, each
\* made on top of the one before and under a younger fencing token, and no upload
\* is published twice (the version check and the primary key).
OneChain ==
    /\ \A v \in Versions : manifests[v] # None <=> v <= current
    /\ \A v \in 1..current :
          /\ Target(manifests[v]) = v
          /\ status[manifests[v]] = "committed"
    /\ \A v, w \in 1..current :
          v < w => token[manifests[v]] < token[manifests[w]]

\* The file of a published version holds every byte of the upload its manifest
\* was made from, unless a lease ended under a commit of that very version: the
\* size, the hash, the lease and the check of the version keep a partial, torn
\* or late upload away from it, and a race for one version harms no other.
UnracedBlobKept ==
    \A v \in 1..current : v \notin raced => files[v] = Whole(manifests[v])

\* The same without the exception, as fleet.rs says: "a delayed write from a
\* holder whose lease has since expired arrives with a stale token and is
\* rejected", "a partial or corrupted upload therefore never becomes the current
\* version".  The lease is validated before the file is hashed and never again:
\* a commit that outlives its lease still removes or replaces the version's file.
BlobKept ==
    \A v \in 1..current : files[v] = Whole(manifests[v])
=============================================================================
