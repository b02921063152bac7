------------------------------ MODULE EnvLock ------------------------------
(***************************************************************************)
(* Exclusive checkout of one environment on the team server (v1):          *)
(* server/src/routes/locks.rs over the tables `locks`, `snapshots` and     *)
(* `environments` of SQLite and the files `<version>.blob` of blob.rs.     *)
(*                                                                         *)
(* A request slot r \in Reqs is one running handler; `pc` names the await  *)
(* point it is at, so two handlers interleave exactly where the code       *)
(* yields.  A request that the server refuses without having changed       *)
(* anything (no access, 409, 429) is the absence of a step.                *)
(*                                                                         *)
(* `base` is history: the version a session was told at checkout, carried  *)
(* along to the snapshot that the session uploads.                         *)
(***************************************************************************)
EXTENDS Naturals, FiniteSets

CONSTANTS
    Clients,        \* (owner_user_id, owner_client_id) pairs
    Admins,         \* the clients whose user is an administrator
    Reqs,           \* slots for handlers that run at the same time
    Data,           \* snapshot contents (a content is its own sha256)
    TTL,            \* cfg.lease_ttl_secs
    Keep,           \* cfg.snapshot_keep
    None,           \* no row, no session, no file, nobody
    UploadSlots,    \* permits of AppState.upload_slots
    MaxLate,        \* bound on queued file calls that outlive their handler
    MaxTime,        \* bound on the clock
    MaxToken,       \* bound on the number of checkouts
    MaxVersion      \* bound on the number of check-ins

ASSUME ConstantsOK ==
    /\ Admins \subseteq Clients
    /\ TTL \in Nat \ {0} /\ Keep \in Nat /\ UploadSlots \in Nat
    /\ MaxLate \in Nat
    /\ MaxTime \in Nat /\ MaxToken \in Nat /\ MaxVersion \in Nat

VARIABLES
    now,       \* the server's clock
    lock,      \* the row of `locks`, or None
    env,       \* does the row of `environments` exist?
    current,   \* environments.current_version
    rows,      \* rows of `snapshots` by version
    blobs,     \* content of `<version>.blob` by version
    pc,        \* the await point each handler is at
    reqs,      \* the local variables of each handler
    session,   \* what each client remembers of its last checkout response
    minted,    \* number of lock tokens minted so far
    dbw,       \* the handler whose open transaction holds SQLite's write lock
    late,      \* file calls of dropped handlers still queued on the blocking pool
    struck,    \* history: versions whose file a late call changed after its own rename
    up         \* is the server serving?

vars == <<now, lock, env, current, rows, blobs, pc, reqs, session, minted, dbw, late, struck, up>>

Versions == 1 .. MaxVersion
Tokens   == 0 .. MaxToken          \* 0 is the empty token ''

Lock    == [owner : Clients, token : Tokens, expires : Nat]
Session == [token : Tokens, base : 0 .. MaxVersion]
Row     == [data : Data, base : 0 .. MaxVersion]
FsCall  == [op : {"remove", "rename"}, version : Versions, data : Data]

ASSUME NoneIsNew ==
    /\ None \notin Clients /\ None \notin Reqs /\ None \notin Data
    /\ None \notin Lock /\ None \notin Session /\ None \notin Row

InTx   == {"ci_remove", "ci_rename", "ci_commit"}
HasVer == InTx \cup {"gc_select", "gc_delete", "gc_unlink", "dl_open"}
HasData == InTx \cup {"ci_stream", "ci_begin"}
PCs    == HasVer \cup {"idle", "co_upsert", "co_version", "le_update",
                       "ci_stream", "ci_begin"}

Request == [client : Clients \cup {None}, token : Tokens,
            base : 0 .. MaxVersion, at : Nat, data : Data \cup {None},
            version : 0 .. MaxVersion, stale : SUBSET Versions]

Idle == [client |-> None, token |-> 0, base |-> 0, at |-> 0,
         data |-> None, version |-> 0, stale |-> {}]

Init ==
    /\ now = 0
    /\ lock = None
    /\ env = TRUE
    /\ current = 0
    /\ rows = [v \in Versions |-> None]
    /\ blobs = [v \in Versions |-> None]
    /\ pc = [r \in Reqs |-> "idle"]
    /\ reqs = [r \in Reqs |-> Idle]
    /\ session = [c \in Clients |-> None]
    /\ minted = 0
    /\ dbw = None
    /\ late = {}
    /\ struck = {}
    /\ up = TRUE

----------------------------------------------------------------------------
At(r, p)    == up /\ pc[r] = p
Goto(r, p)  == pc' = [pc EXCEPT ![r] = p]
Done(r)     == Goto(r, "idle") /\ reqs' = [reqs EXCEPT ![r] = Idle]

\* A statement that writes waits while another transaction is open.
CanWrite == dbw = None

\* Fault: the token is not compared, the same user and client are enough.
Holds_AnyToken(c, token) ==
    /\ lock # None
    /\ lock.owner = c

\* The row condition of lease, checkin, release and download: owner_user_id,
\* owner_client_id and lock_token all match.  The expiry plays no part.
Holds(c, token) ==
    /\ lock # None
    /\ lock.owner = c
    /\ lock.token = token

\* The session a client would present; the empty token when it has none.
Presented(c) == IF session[c] = None THEN [token |-> 0, base |-> 0] ELSE session[c]

----------------------------------------------------------------------------
(* checkout: the access check and the clock, one conditional upsert, then  *)
(* the version again, then the answer.  The stale_takeover flag of the     *)
(* answer is left out: nothing on either side acts on it but the UI.       *)

CheckoutRead(r, c) ==
    /\ At(r, "idle") /\ env
    /\ Goto(r, "co_upsert")
    /\ reqs' = [reqs EXCEPT ![r] = [Idle EXCEPT !.client = c,
                               !.token = Presented(c).token, !.at = now]]
    /\ UNCHANGED <<now, lock, env, current, rows, blobs, session, minted, dbw, late, struck, up>>

\* Fault: the upsert takes over any row, expired or not.
MayTake_Unconditional(c, token, at) == TRUE

\* The WHERE clause of the upsert; `at` is the clock read before the statement.
MayTake(c, token, at) ==
    \/ lock = None
    \/ Holds(c, token) /\ token # 0
    \/ lock # None /\ lock.expires <= at

CheckoutUpsert(r) ==
    LET q == reqs[r] IN
    /\ At(r, "co_upsert") /\ CanWrite /\ env
    /\ MayTake(q.client, q.token, q.at)
    /\ minted < MaxToken
    /\ minted' = minted + 1
    /\ lock' = [owner |-> q.client, token |-> minted + 1, expires |-> q.at + TTL]
    /\ Goto(r, "co_version")
    /\ reqs' = [reqs EXCEPT ![r].token = minted + 1]
    /\ UNCHANGED <<now, env, current, rows, blobs, session, dbw, late, struck, up>>

\* rows_affected() = 0, or the foreign key fails because the environment is gone.
CheckoutRefused(r) ==
    LET q == reqs[r] IN
    /\ At(r, "co_upsert")
    /\ ~env \/ ~MayTake(q.client, q.token, q.at)
    /\ Done(r)
    /\ UNCHANGED <<now, lock, env, current, rows, blobs, session, minted, dbw, late, struck, up>>

\* current_version is read again now that the lock is ours, and answered.
CheckoutAnswer(r) ==
    LET q == reqs[r] IN
    /\ At(r, "co_version") /\ env
    /\ session' = [session EXCEPT ![q.client] = [token |-> q.token, base |-> current]]
    /\ Done(r)
    /\ UNCHANGED <<now, lock, env, current, rows, blobs, minted, dbw, late, struck, up>>

(* lease: the new expiry is computed before the UPDATE runs.               *)

LeaseBegin(r, c) ==
    /\ At(r, "idle") /\ env
    /\ session[c] # None
    /\ Goto(r, "le_update")
    /\ reqs' = [reqs EXCEPT ![r] = [Idle EXCEPT !.client = c,
                                     !.token = session[c].token, !.at = now]]
    /\ UNCHANGED <<now, lock, env, current, rows, blobs, session, minted, dbw, late, struck, up>>

LeaseUpdate(r) ==
    LET q == reqs[r] IN
    /\ At(r, "le_update") /\ CanWrite
    /\ lock' = IF Holds(q.client, q.token)
               THEN [lock EXCEPT !.expires = q.at + TTL] ELSE lock
    /\ Done(r)
    /\ UNCHANGED <<now, env, current, rows, blobs, session, minted, dbw, late, struck, up>>

(* release and force_unlock: one DELETE each.                              *)

Release(c) ==
    /\ up /\ CanWrite
    /\ session[c] # None /\ Holds(c, session[c].token)
    /\ lock' = None
    /\ UNCHANGED <<now, env, current, rows, blobs, pc, reqs, session, minted, dbw, late, struck, up>>

ForceUnlock ==
    /\ up /\ CanWrite
    /\ lock # None
    /\ lock' = None
    /\ UNCHANGED <<now, env, current, rows, blobs, pc, reqs, session, minted, dbw, late, struck, up>>

----------------------------------------------------------------------------
(* checkin: pre-check, stream to a temp file under an upload slot, then    *)
(* one transaction that settles the version, promotes the file and commits.*)

Streaming == {r \in Reqs : pc[r] = "ci_stream"}

CheckinBegin(r, c, d) ==
    /\ At(r, "idle") /\ env
    /\ session[c] # None /\ Holds(c, session[c].token)
    /\ Cardinality(Streaming) < UploadSlots
    /\ Goto(r, "ci_stream")
    /\ reqs' = [reqs EXCEPT ![r] = [Idle EXCEPT !.client = c,
                      !.token = session[c].token, !.base = session[c].base,
                      !.data = d]]
    /\ UNCHANGED <<now, lock, env, current, rows, blobs, session, minted, dbw, late, struck, up>>

CheckinStreamed(r) ==
    /\ At(r, "ci_stream")
    /\ Goto(r, "ci_begin")
    /\ UNCHANGED <<now, lock, env, current, rows, blobs, reqs, session, minted, dbw, late, struck, up>>

\* Fault: the new snapshot reuses the number of the current one.
CheckinTx_SameVersion(r) ==
    LET q == reqs[r] IN
    /\ At(r, "ci_begin") /\ CanWrite
    /\ Holds(q.client, q.token)
    /\ current < MaxVersion
    /\ dbw' = r
    /\ Goto(r, "ci_remove")
    /\ reqs' = [reqs EXCEPT ![r].version = IF current = 0 THEN 1 ELSE current]
    /\ UNCHANGED <<now, lock, env, current, rows, blobs, session, minted, late, struck, up>>

\* The conditional DELETE is the owner check, and it opens the write
\* transaction; nothing of it is visible to others before the commit.
CheckinTx(r) ==
    LET q == reqs[r] IN
    /\ At(r, "ci_begin") /\ CanWrite
    /\ Holds(q.client, q.token)
    /\ current < MaxVersion
    /\ dbw' = r
    /\ Goto(r, "ci_remove")
    /\ reqs' = [reqs EXCEPT ![r].version = current + 1]
    /\ UNCHANGED <<now, lock, env, current, rows, blobs, session, minted, late, struck, up>>

CheckinLost(r) ==
    LET q == reqs[r] IN
    /\ At(r, "ci_begin") /\ CanWrite
    /\ ~Holds(q.client, q.token)
    /\ Done(r)
    /\ UNCHANGED <<now, lock, env, current, rows, blobs, session, minted, dbw, late, struck, up>>

\* blob::promote, first call: clear an orphan at the target.
PromoteRemove(r) ==
    /\ At(r, "ci_remove")
    /\ blobs' = [blobs EXCEPT ![reqs[r].version] = None]
    /\ Goto(r, "ci_rename")
    /\ UNCHANGED <<now, lock, env, current, rows, reqs, session, minted, dbw, late, struck, up>>

\* blob::promote, second call: the temp file becomes `<version>.blob`.
PromoteRename(r) ==
    /\ At(r, "ci_rename")
    /\ blobs' = [blobs EXCEPT ![reqs[r].version] = reqs[r].data]
    /\ struck' = struck \ {reqs[r].version}
    /\ Goto(r, "ci_commit")
    /\ UNCHANGED <<now, lock, env, current, rows, reqs, session, minted, dbw, late, up>>

\* Fault: the connection goes back to the pool with its transaction open.
CheckinCommit_LeakTx(r) ==
    LET q == reqs[r] IN
    /\ At(r, "ci_commit")
    /\ lock' = None
    /\ current' = q.version
    /\ rows' = [rows EXCEPT ![q.version] = [data |-> q.data, base |-> q.base]]
    /\ Goto(r, "gc_select")
    /\ UNCHANGED <<now, env, blobs, reqs, session, minted, dbw, late, struck, up>>

CheckinCommit(r) ==
    LET q == reqs[r] IN
    /\ At(r, "ci_commit")
    /\ lock' = None
    /\ current' = q.version
    /\ rows' = [rows EXCEPT ![q.version] = [data |-> q.data, base |-> q.base]]
    /\ dbw' = None
    /\ Goto(r, "gc_select")
    /\ UNCHANGED <<now, env, blobs, reqs, session, minted, late, struck, up>>

----------------------------------------------------------------------------
(* gc_snapshots: list the stale rows, delete the rows, then the files.     *)
(* It runs after the commit, when the next checkout may already be at work.*)

Stale(v) == {w \in Versions : w + Keep <= v}

GcSelect(r) ==
    LET q == reqs[r] IN
    /\ At(r, "gc_select")
    /\ IF Stale(q.version) = {}
       THEN Done(r)
       ELSE /\ Goto(r, "gc_delete")
            /\ reqs' = [reqs EXCEPT ![r].stale = {v \in Stale(q.version) : rows[v] # None}]
    /\ UNCHANGED <<now, lock, env, current, rows, blobs, session, minted, dbw, late, struck, up>>

\* Fault: the row delete failed and the files are removed all the same.
GcDelete_ErrorIgnored(r) ==
    /\ At(r, "gc_delete") /\ CanWrite
    /\ Goto(r, "gc_unlink")
    /\ UNCHANGED <<now, lock, env, current, rows, blobs, reqs, session, minted, dbw, late, struck, up>>

GcDelete(r) ==
    /\ At(r, "gc_delete") /\ CanWrite
    /\ rows' = [v \in Versions |-> IF v \in Stale(reqs[r].version) THEN None ELSE rows[v]]
    /\ Goto(r, "gc_unlink")
    /\ UNCHANGED <<now, lock, env, current, blobs, reqs, session, minted, dbw, late, struck, up>>

GcUnlink(r) ==
    LET q == reqs[r] IN
    /\ At(r, "gc_unlink")
    /\ IF q.stale = {}
       THEN Done(r) /\ UNCHANGED blobs
       ELSE \E v \in q.stale :
              /\ blobs' = [blobs EXCEPT ![v] = None]
              /\ reqs' = [reqs EXCEPT ![r].stale = @ \ {v}]
              /\ UNCHANGED pc
    /\ UNCHANGED <<now, lock, env, current, rows, session, minted, dbw, late, struck, up>>

----------------------------------------------------------------------------
(* download: the session check, which an administrator passes without, and *)
(* the row, then the file.                                                 *)

DownloadRow(r, c, v) ==
    /\ At(r, "idle") /\ env
    /\ c \in Admins \/ (session[c] # None /\ Holds(c, session[c].token))
    /\ rows[v] # None
    /\ Goto(r, "dl_open")
    /\ reqs' = [reqs EXCEPT ![r] = [Idle EXCEPT !.client = c,
                      !.version = v, !.data = rows[v].data]]
    /\ UNCHANGED <<now, lock, env, current, rows, blobs, session, minted, dbw, late, struck, up>>

\* The open either finds the file, whose bytes are then served under the row's
\* x-snapshot-sha256, or fails with 500.
DownloadOpen(r) ==
    /\ At(r, "dl_open")
    /\ Done(r)
    /\ UNCHANGED <<now, lock, env, current, rows, blobs, session, minted, dbw, late, struck, up>>

----------------------------------------------------------------------------
(* The environment of the handlers.                                        *)

\* A handler returns an error, or its future is dropped because the client
\* went away.  An open transaction rolls back.  A file call handed to tokio's
\* blocking pool is not cancelled with the future: it may still run.
Abandon(r) ==
    LET q == reqs[r] IN
    /\ up /\ pc[r] # "idle"
    /\ Done(r)
    /\ dbw' = IF dbw = r THEN None ELSE dbw
    /\ \/ late' = late
       \/ /\ Cardinality(late) < MaxLate
          /\ \/ /\ pc[r] = "ci_remove"
                /\ late' = late \cup {[op |-> "remove", version |-> q.version, data |-> q.data]}
             \/ /\ pc[r] = "ci_rename"
                /\ late' = late \cup {[op |-> "rename", version |-> q.version, data |-> q.data]}
    /\ UNCHANGED <<now, lock, env, current, rows, blobs, session, minted, struck, up>>

LateCall(f) ==
    /\ up /\ f \in late
    /\ late' = late \ {f}
    /\ blobs' = [blobs EXCEPT ![f.version] = IF f.op = "remove" THEN None ELSE f.data]
    /\ struck' = struck \cup {f.version}
    /\ UNCHANGED <<now, lock, env, current, rows, pc, reqs, session, minted, dbw, up>>

\* The launcher crashes and forgets its token.
ClientForgets(c) ==
    /\ session[c] # None
    /\ session' = [session EXCEPT ![c] = None]
    /\ UNCHANGED <<now, lock, env, current, rows, blobs, pc, reqs, minted, dbw, late, struck, up>>

\* envs::delete: lock and snapshot rows go with the environment, files stay.
DeleteEnv ==
    /\ up /\ CanWrite /\ env
    /\ env' = FALSE
    /\ lock' = None
    /\ rows' = [v \in Versions |-> None]
    /\ UNCHANGED <<now, current, blobs, pc, reqs, session, minted, dbw, late, struck, up>>

Tick ==
    /\ now < MaxTime
    /\ now' = now + 1
    /\ UNCHANGED <<lock, env, current, rows, blobs, pc, reqs, session, minted, dbw, late, struck, up>>

\* The process dies: handlers, queued file calls and the open transaction are
\* lost; committed rows and files stay.
Crash ==
    /\ up
    /\ up' = FALSE
    /\ pc' = [r \in Reqs |-> "idle"]
    /\ reqs' = [r \in Reqs |-> Idle]
    /\ dbw' = None
    /\ late' = {}
    /\ UNCHANGED <<now, lock, env, current, rows, blobs, session, minted, struck>>

\* Startup: gc_orphans removes (as far as it can) the files without a row,
\* before the server serves.
Orphans == {v \in Versions : blobs[v] # None /\ rows[v] = None}

Restart ==
    /\ ~up
    /\ up' = TRUE
    /\ \E S \in SUBSET Orphans :
          blobs' = [v \in Versions |-> IF v \in S THEN None ELSE blobs[v]]
    /\ UNCHANGED <<now, lock, env, current, rows, pc, reqs, session, minted, dbw, late, struck>>

----------------------------------------------------------------------------
Step(r) ==
    \/ CheckoutUpsert(r) \/ CheckoutRefused(r) \/ CheckoutAnswer(r)
    \/ LeaseUpdate(r)
    \/ CheckinStreamed(r) \/ CheckinTx(r) \/ CheckinLost(r)
    \/ PromoteRemove(r) \/ PromoteRename(r) \/ CheckinCommit(r)
    \/ GcSelect(r) \/ GcDelete(r) \/ GcUnlink(r)
    \/ DownloadOpen(r)

Start(r, c) ==
    \/ CheckoutRead(r, c)
    \/ LeaseBegin(r, c)
    \/ \E d \in Data : CheckinBegin(r, c, d)
    \/ \E v \in Versions : DownloadRow(r, c, v)

Next ==
    \/ \E r \in Reqs : Step(r) \/ Abandon(r)
    \/ \E r \in Reqs, c \in Clients : Start(r, c)
    \/ \E c \in Clients : Release(c) \/ ClientForgets(c)
    \/ \E f \in late : LateCall(f)
    \/ ForceUnlock \/ DeleteEnv \/ Tick \/ Crash \/ Restart

Spec == Init /\ [][Next]_vars

----------------------------------------------------------------------------
\* Types, and the transaction: the write lock is held exactly by the handler
\* that is between its conditional DELETE and its commit (checkin), so that no
\* way out of it, dropped or failed, leaves SQLite locked behind it.
TypeOK ==
    /\ now \in Nat /\ minted \in Tokens /\ current \in 0 .. MaxVersion
    /\ lock \in Lock \cup {None}
    /\ env \in BOOLEAN /\ up \in BOOLEAN
    /\ rows \in [Versions -> Row \cup {None}]
    /\ blobs \in [Versions -> Data \cup {None}]
    /\ pc \in [Reqs -> PCs] /\ reqs \in [Reqs -> Request]
    /\ session \in [Clients -> Session \cup {None}]
    /\ dbw \in Reqs \cup {None}
    /\ late \subseteq FsCall
    /\ struck \subseteq Versions
    /\ \A r \in Reqs :
          /\ dbw = r <=> pc[r] \in InTx
          /\ pc[r] # "idle" => reqs[r].client \in Clients
          /\ pc[r] \in HasVer => reqs[r].version \in Versions
          /\ pc[r] \in HasData => reqs[r].data \in Data

\* No lost update: a snapshot is built on the version just before it.  The
\* uploading session was told, at its checkout, exactly the version that its
\* check-in replaced; two sessions never build on the same version and one
\* never overwrites what another pushed meanwhile.
NoLostUpdate == \A v \in Versions : rows[v] # None => rows[v].base = v - 1

\* What checkin says of the file a failed check-in leaves behind (locks.rs:
\* harmless, the next successful check-in overwrites it): every committed
\* snapshot row points at a file with the committed bytes, whatever handlers
\* were dropped, collected or crashed in between.  The run env_lock_late shows
\* that it fails: a file call of a dropped check-in is not cancelled, and may
\* run after the rename of the check-in that got the same version.
RowHasBlob == \A v \in Versions : rows[v] # None => blobs[v] = rows[v].data

\* That is the only way a committed row loses its bytes: unless a late call
\* of a dropped check-in ran on this very version after the rename that put
\* its file there, the file holds the committed bytes, whatever collectors,
\* crashes, start-ups and further check-ins do (blob::promote before the
\* commit, rows before files in gc_snapshots).
UnstruckRowHasBlob ==
    \A v \in Versions : rows[v] # None /\ v \notin struck => blobs[v] = rows[v].data

\* Retention: while the environment exists its newest Keep versions are all
\* there, although the collectors of several check-ins run late and in any order.
NewestKept ==
    env => \A v \in Versions : v <= current /\ current < v + Keep => rows[v] # None

\* A download serves either the bytes its x-snapshot-sha256 header announces
\* or an error, also when the row is collected before the file is opened; a
\* version whose file a late call changed (see UnstruckRowHasBlob) is the
\* exception, and the size check of download does not find other bytes of the
\* same length.
DownloadHonest ==
    \A r \in Reqs : pc[r] = "dl_open" /\ reqs[r].version \notin struck =>
        blobs[reqs[r].version] \in {reqs[r].data, None}

\* A session whose lease has not run out loses the environment only to its own
\* client, to a release, a check-in or an administrator: no checkout of
\* somebody else replaces the row.
LiveLeaseKept ==
    [][ (lock # None /\ lock' # None /\ lock'.owner # lock.owner)
          => lock.expires <= now ]_vars
=============================================================================
