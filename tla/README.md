# Formal models of ShardX

TLA+ models of ShardX (an anti-detect browser launcher with a self-hosted team
server): the server's locks, uploads, restore and key control plane, and the
launcher's team sync, downgrade and process tracking. They are checked with TLC and, where a
result should hold for every instance, proved with TLAPS. Paths below are
relative to the repository; line numbers are in `PROJECT.json`, which maps every
definition to the code it models.

To repeat a run: `tlc -config EnvLock.cfg MCEnvLock` (module and configuration
of each run are in the table below). To repeat the proofs: `tlapm` on each of
`EnvLockProofs.tla`, `ProfileUploadProofs.tla`, `RestoreProofs.tla`,
`FleetKeysProofs.tla`, `FleetTransferProofs.tla`, `DowngradeProofs.tla`,
`LaunchProofs.tla` and `TeamSyncProofs.tla` (the last takes about ten minutes).

## 1. The system

| Part | Code | State it keeps | Operations | Talks to |
|---|---|---|---|---|
| v1 locks and snapshots | `server/src/routes/locks.rs`, `blob.rs`, `routes/envs.rs` | SQLite rows `locks`, `snapshots`, `environments`; files `<version>.blob` | checkout, lease, checkin, release, force-unlock, download, retention GC, startup sweep, delete | launcher (v1 API), blob files |
| v2 profile leases and uploads | `server/src/routes/v2_profiles.rs`, `v2_uploads.rs`, `v2_upload_recovery.rs` | `v2_profiles`, `v2_profile_leases`, `v2_uploads`, `v2_upload_chunks`, `v2_snapshots`, `v2_upload_quarantine`; staging files and immutable objects; the in-process set `WRITERS` | publish, checkout, renew, release, force-expire; create, patch, finalize, commit, abort, readback; startup reconciler | idempotency ledger, launcher team sync |
| Offline restore | `server/src/restore.rs`, `restore_manifest.rs`, `identity.rs`, `routes/v2_restore_epoch.rs`, `main.rs` | the identity record (epoch, transaction) and its mirror in the database; manifest, candidate, artifacts, archive | `restore prepare / commit / abort / abort --orphans`, startup gate, filing and withdrawing of transitions | every server start; the operator |
| v2 sessions, tickets, challenges | `server/src/routes/v2_auth.rs` | one-use challenges, pre-device tickets, sessions | challenge, redeem, login, logout | all v2 routes |
| Root and fleet key generations | `server/src/routes/v2_root*.rs`, `v2_fleet.rs` | generations (PREPARING, ACTIVE, RETIRED), grants, acknowledgements, recovery wraps | create, grant, acknowledge, activate, revoke | custodian commands of the launcher |
| Devices, capabilities, revocation | `server/src/bootstrap.rs`, `routes/v2_approval.rs`, `v2_capability.rs`, `v2_device_revoke.rs` | devices, approvals, capability grants | confirm, approve, grant, revoke | sessions, leases, key grants |
| Fleet snapshot transfer (older path) | `server/src/fleet.rs`, `routes/v2.rs`; `src-tauri/src/fleet_client.rs` | `v2_leases`, `v2_upload_sessions`, `v2_snapshot_manifests`; staging files and `<version>.bin` | claim, open, chunk, abort, commit, release, download | launcher, for profiles that were never published |
| Idempotency ledger | `server/src/idempotency.rs` | `v2_idempotency` | begin, finish, replay | all v2 mutations, restore |
| Accounts, folders, proxies, ACL, audit | `server/src/auth.rs`, `routes/` | CRUD tables, login throttle | CRUD | v1 routes |
| Launcher team sync | `src-tauri/src/team/sync.rs` | bindings, durable operations, upload sessions, pending swaps | push, pull, publish, join, unbind, revert | v2 routes, the profile's data directory |
| Launcher downgrade | `src-tauri/src/team/downgrade.rs`, `journal.rs`, `db.rs` | `downgrade_journals`, the archived original, the clone | start, resume, roll back | launches, team commands, the data-root move |
| Launcher trust ledger, custody | `src-tauri/src/team/ledger.rs`, `fleet_custody.rs`, ... | monotone trust state, keys | trust walk, key ceremonies | team sync |
| Launch, process tracking, data root | `src-tauri/src/launch.rs`, `process.rs`, `profile.rs`, `migrate.rs`, `runtime.rs` | running profiles, lifecycle claims, profile records and directories | launch, stop, delete, migrate | the browser |
| MCP server | `mcp/safe-open-lifecycle.js`, `mcp/index.js` | who started a profile (launch instance) | safe open, cleanup | local API of the launcher |
| Automation, relay, local API, UI, SDKs, codecs | the rest of `src-tauri/src`, `src/`, `shared/src` | little or none | - | - |

### What is hard

* **v1.** Handlers are tokio tasks that may be dropped at any await, but a file
  call already handed to the blocking pool still runs. A check-in streams for
  minutes between its access check and its transaction; its rename is inside
  the transaction but does not roll back with it. Leases expire by the clock,
  and expired ones stay usable until somebody takes them over. *Correct* means:
  no update is lost, no lease that still runs is displaced by somebody else,
  every row has its bytes, retention never eats the newest versions, a download
  never serves bytes other than the ones it announces, the one write lock of
  SQLite is always given back.
* **v2.** A chunk is checked, written to a file outside any transaction, checked
  again and recorded. A crash can fall between any two of these, and the
  startup pass has to decide from rows and files alone what to finish, keep,
  quarantine or drop. *Correct* means: versions form one chain, each written by
  the holder of the newest fence; the bytes behind the rows are the promised
  ones; nothing is quarantined without cause or served damaged; the pass ends
  and a second one changes nothing.
* **Restore.** Some twenty durable steps over a record, a database and four
  kinds of files, resumed from whatever a crash leaves. *Correct* means: the
  class K1-K12 computed from the files tells how far it came; nothing
  acknowledged (control plane, audit, fences) is lost; no session, receipt or
  lease survives into the wrong epoch; a restore past its commit point can
  always be finished.
* **Keys.** A generation waits in PREPARING for as long as its members take to
  acknowledge, while devices are approved and revoked, grants withdrawn and the
  other key rotated. *Correct* means: an active root always has a custodian who
  can act, nothing is held by a device that lost what it rests on, and a
  recovery wrap is under the root that is in force when it is needed.
* **Team sync.** A push is a chain of requests, each stored before it is sent and
  replayed byte for byte after a crash or a lost answer; a pull swaps
  directories; a restore of the server may take heads back. *Correct* means: what
  is committed on top of a version was sealed from data that includes it, what
  was given up is never committed later, the pinned head is real and its data
  is on disk, and a lease is given back.
* **Downgrade.** Renames of records and data, a copy, and journal writes, with a
  crash between any two, beside a browser and a tracker that write to the same
  places. *Correct* means: the original's work is whole in exactly one place,
  the older version never finds both the original and the clone, and every
  journal ends.
* **Launch.** Claims, the tracker and one task per browser share a profile with
  browsers that exit by themselves, hand a start over to another one or ignore a
  signal, and with MCP calls that stop what they started minutes later.
  *Correct* means: a call never ends a browser somebody else launched, a command
  that changes the profile never runs beside a browser or a last write of the
  tracker, and no Running row outlives its browser.
* **Older transfer path.** The commit checks its lease, hashes for as long as the
  file is big, and promotes the file before the row; the client may time out and
  release in between. *Correct* means: one chain of versions, each with the
  bytes its manifest promises.

All hazards, each at its line and with the properties that cover it, are listed
in `PROJECT.json`; the few without a property say why.

## 2. Modules

    EnvLock        <- MCEnvLock        <- EnvLock*.cfg
      ^ EnvLockProofs
    FencedLog  <== ProfileUpload  <- MCProfileUpload  <- ProfileUpload*.cfg
                     ^ ProfileUploadProofs
    Restore        <- MCRestore        <- Restore*.cfg
      ^ RestoreProofs
    TeamSync       <- MCTeamSync       <- TeamSync*.cfg
      ^ TeamSyncProofs
    FleetKeys      <- MCFleetKeys      <- FleetKeys.cfg
      ^ FleetKeysProofs
    FleetTransfer  <- MCFleetTransfer  <- FleetTransfer*.cfg
      ^ FleetTransferProofs
    Downgrade      <- MCDowngrade      <- Downgrade*.cfg
      ^ DowngradeProofs
    Launch         <- MCLaunch         <- Launch.cfg
      ^ LaunchProofs

(`<-` extends, `<==` is implemented by.) Operators whose name has a suffix and
whose comment starts with "Fault:" are the wrong variants that show a property
can fail; no specification uses them.

### EnvLock: one environment of the v1 server

State: the row `lock`, whether the environment exists (`env`), `current`
(`current_version`), `rows` (`snapshots`), `blobs` (the files), what each client
remembers (`session`), the write lock (`dbw`), and for each of a few handler
slots the await point it is at (`pc`) and its locals (`reqs`).

One action per stretch of code between two awaits: `CheckoutRead`,
`CheckoutUpsert`, `CheckoutAnswer`; `LeaseBegin`, `LeaseUpdate`; `CheckinBegin`,
`CheckinStreamed`, `CheckinTx` (the conditional delete of the lock that opens
the transaction), `PromoteRemove` and `PromoteRename` (`blob::promote`),
`CheckinCommit`, and the collector that follows it (`GcSelect`, `GcDelete`,
`GcUnlink`); `DownloadRow`, `DownloadOpen`; `Release`, `ForceUnlock`,
`DeleteEnv`. `Abandon` drops a handler at an await; its queued file calls may
stay in `late` and run later (`LateCall`). `Crash` loses handlers and open
transactions, `Restart` runs the sweep of orphaned files.

`base` and `struck` are history variables. The first is the version a session was
told at checkout, carried to the row its check-in writes; `struck` are the versions
on which a late call of a dropped check-in ran after a rename had put a file there.
`Admins` are the clients whose user passes the access check of a download without
holding the lock. Contents are model values that are their own SHA-256. The access
check and a refused request are the absence of a step, and so are reads nothing acts
on.

### ProfileUpload: one published profile of the v2 server

State: `current`, `fence` (`last_fencing_token`), `lease`; per upload its
`state`, the `terms` bound at creation (fence, base version, expiry), `chunks`
(recorded), `staging` and `object` (files, as sequences of chunks), `ledger`
(stored receipt) and `held` (quarantine row); `snaps` by version; the
in-process `writers`; handler slots `pc` and `reqs`; the start-up `mode` and
`todo`, and `rounds`, the rounds of `settle` an upload has used.

Lease routes, `CreateUpload` and `Commit` are one `BEGIN IMMEDIATE` transaction
each and one action each. Patch is `PatchBegin`, `PatchWrite`, then
`PatchRecord`, `PatchQuarantine` or `PatchRefused`; finalize is
`FinalizeBegin`, `Promote`, then `FinalizeReady` or `FinalizeRefused`; abort
commits and then removes the file (`RemoveStaging`). `Drop` is a request dropped
while its blocking write goes on: the writer guard stays with the write, as in
the code. A chunk that may no longer be recorded is cut off again (`PatchCut`).

Start-up: `Start`, then `Settle...` with the row of the reconciler's table that
`Verdict` picks for the upload's rows and files, `Gc`, `Open`. The source
labels the rows of that table and other rules L1155-L1214; comments in the
module use the same labels. `Damage...`, `Revert` and `SettleFails` are faults
(bounded by `MaxFault`): files lost or changed while the server is down, a
staging name that outlived its rename or an upload row older than its receipt,
a recovery step that fails.

Signatures, capabilities and key generations decide whether a request is
refused; a refusal and the replay of a stored response change nothing and are
the absence of a step. A torn write is a shorter tail. Uploads have one commit
request each, because a request that does not bind its upload is refused.

### FencedLog: what a profile promises

Four variables (`version`, `fence`, `holder`, `log`) and three actions: `Grant` a
new fence, `Lose` the lease, `Extend` the log by one version under the newest
fence. `ProfileUpload` implements it (`ImplementsLog`) with the lease's fence as
`holder` and the fence of each version's upload as `log`.

### Restore: the identity epoch and the offline restore

State: the record `x` (and `hidden`, one that cannot be read now), the database
`db` with a hot journal or not, the operator's `backup`, the files of each
transaction (`cand`, `dir`, `archive`) and the manifest `p`. The server and the
commands exclude each other by the lock of the data directory, so one `pc`
suffices. A database is the record of what a restore tells apart: control
plane, chain of snapshots, fence, ledger marks, mirror, audits, sessions, filed
transition; two files have equal hashes exactly when these are equal.

`Class` is `classify`, row for row. A command ends a step at every write, rename
or removal: prepare (`PrepareBegin` to `PrepareManifest`), commit in its five
entries (`CommitPrepared` in K7, `CommitInstall` in K8, `CommitReconcile` in K9,
`CommitReadback` in K10, `CommitRetire` in K11), `--retire`, abort,
`AbortOrphans`. A
command's transaction is two steps, and a crash between them leaves the hot
journal. The server's part is `Start` with its gate, `Stop`, and the writes a
restore has to preserve or undo: `ControlWrite`, `Login`, `CommitSnapshot`,
`FileTransition`. History: `acked` (what was acknowledged), `stage` (how far the
current restore really is, against which `Class` is compared) and `faults` (which
kinds of damage by hand there were). `Drawn` says that a restore has a transaction id
of its own: `prepare` checks only that it is not zero, `export-heads` draws it at
random, and the operator passes on what it printed.

### TeamSync: devices that push and pull one published profile

State: the server reduced to what a client can tell apart (`epoch`, `log`,
`fence`, `lease`, `up`, `ledger` of stored responses, `leaves` of restore
transitions), and per device the team database (`bind`, `ops`, `sess`, `swap`), the
profile's directories (`udd`, `staging`, `old`) and what a running command holds in
memory (`loc`). `made` records what each sealed snapshot includes.

A push keeps nothing in memory between two turns of its loop, so a push that
stopped and one that has not begun are one state. Each turn is two actions: the
request is stored and sent (`Checkout`, `CreateUpload`, `Finalize`, `Commit`, ...), and
its answer is stored (`CheckedOut`, `UploadCreated`, `Finalized`, `CommitReplied`, ...).
`Serve` answers a request from `net`, from the ledger when it was served before, and
otherwise if its handler accepts it (`AcceptsPublish`, ..., `AcceptsCommit`); a request
may arrive late or twice, its answer may be lost. Giving an upload up is
`FailUpload`, `Abandon`, `Drop`. Pull is `PullBegin`, `PullFetch`, `Pin` and the swap
(`SwapStep`, `Settle`). `ServerRestore` moves the epoch and takes heads back;
`AcceptTransitions` and the quarantines are how a device follows. `Crash` forgets
`loc`.

### FleetKeys: who holds which key

State: `dev`, `appr`, `caps`, `sess` by device; `root` and `active`; `rootGrant` by root
generation; `fleet` generations; `devGrant` and `recGrant` (recovery wraps under a root).
Every handler is one `BEGIN IMMEDIATE` transaction that reloads its session first, so
each is one action that begins with `Live`. A generation is created with the hash
of its required set; `Containers` tells the grants of that set from others.
`RevokeDevice` ends everything the device has and may carry the activation of a
rotation that leaves it out, in one transaction, behind the guard that another
custodian remains.

### FleetTransfer: the older transfer path

State: `current`, `manifests` and `files` by version; the lease of each upload
(`token`, `held`, `expired`); its session (`status`, `received`, `staging`); where the
client is (`client`) and where the server's commit is (`commit`). An upload is one
call of `FleetClient::upload`, which draws fresh ids. The client waits for each
answer, so all requests but the commit are part of its own steps; the commit
(`CommitCheck`, `CommitHash`, `CommitBegin`, `CommitRemove`, `CommitRename`,
`CommitInsert`, `CommitPublish`) may outlive it. `Writable` is the rollback journal: a
transaction that has read keeps others from committing. `CommitDropped` is a
request dropped while a file call is on the blocking pool, which then still runs
(`LateRemove`, `LateRename`). `raced` is a history variable: the versions whose commit
was running when its lease ended. `Crash` is a power loss, because here the code syncs:
a staging file may lose its end or its name, a promoted one may not. Current code
creates only published profiles; rows for this path come from older databases.

### Downgrade: a clone for the older launcher

State: the newest journal's `phase`, the places that hold a record (`recs`) and the
content of each data place (`data`, the browser sessions it includes), `kept` (clones
retired earlier), the threads (`flow`, `launch`, `team`, `upd`, `mover`), the process
`tracker` and the `browsers` that hold a directory open. `FlowStep` is `drive` and
`roll_back`, one action per rename, file or journal write. Beside it run launches
(`LaunchBegin` to `LaunchSpawn`), the tracker's last write (`TrackerLoad`,
`TrackerSave`), a push that takes a lease, unbind, the fingerprint migration of the
records, and the move of the data root, which copies the folders (`MoveCopy`) and then
switches the root and deletes the old one (`MoveEnd`), whatever browsers or launches
have taken a folder of it: those are `astray` from then on, and what they write is
nowhere. `beside` is a history variable, the sessions written beside a move or astray.
`Crash` leaves browsers alive. `MakeData` and
`LoseArchive` are a person in the folders.

### Launch: one profile between Start and Stop

State: the `claim` on the profile and whose launch holds it (`starter`), its `entry` in
the tracker, and for each launch who asked for it (`by`), its process ID (`pid`), where
its tracking task is (`task`) and what its killer channel holds (`chan`); the MCP calls
(`helper`); the browsers alive (`procs`) and the one that has the lock of the folder
(`holder`). The number of a launch is its launch-instance token. `told` is a history
variable: who made the launcher tell which browser to end. `orphans` are the browsers
of a launcher that died.

`BeginMutation`, `BeginBulk` and `BulkCheck` are the claims; `BeginLaunch`, `Spawn` and
`Started` are `launch_profile_synced` around its probes and its wait for CDP. `TaskStep`
is the task of `track_with_relay`: its child exits (`WatchExit`) or a stop arrives
(`WatchStop`, then `HardKill`), it waits for the lock (`LockFree`, `LockStop`, `GiveUp`),
and writes and removes its entry (`Finalize`). A Stop takes the sender under the mutex
and sends after it (`UserStop`, `UserSend`; `Stop`, `Send`). `HelperStep` is
`runSafeOpenLifecycle`. `HandStart`, `TakeLock` and `HandOver` are Chromium's singleton.

## 3. Runs

| Run | Configuration, specification | Instance | States | Result |
|---|---|---|---|---|
| `env_lock` | `EnvLock.cfg`, `Spec` | 2 clients (one an admin), 2 handlers, 2 contents, TTL 1, 2 tokens, 2 versions, one late call | 3,016,865 | `TypeOK`, `NoLostUpdate`, `UnstruckRowHasBlob`, `DownloadHonest`, `LiveLeaseKept` hold |
| `env_lock_late` | `EnvLock_late.cfg`, `Spec` | 1 client, 2 handlers, 2 contents, one late call | - | `RowHasBlob` is violated (see Findings) |
| `profile_upload` | `ProfileUpload.cfg`, `Spec` | 1 device, 2 uploads of 2 chunks, 2 handlers, 2 fences, 1 crash, 1 fault | 2,053,264 | `TypeOK`, `FencedHistory`, `OneUploadPerLease`, `BytesOnDisk`, `QuarantineHasCause`, `ServedIsIntact`, `SecondPassKeeps`, `SettlesInSteps`, `ImplementsLog`, `MovesForward` hold |
| `restore` | `Restore.cfg`, `Spec` | 1 transaction, 2 commits, 1 control-plane write, 1 crash, 1 kind of damage | 1,939,506 | `TypeOK`, `NothingLost`, `NoDanglingReceipt`, `CommitResumes`, `LiveIsFrozen`, `RecordHasDatabase`, `ServedHasAudits` hold |
| `restore_abort_cut` | `Restore_abort.cfg`, `Spec` | 1 transaction, 1 commit, no damage | - | `ClassTellsProgress` is violated (see Findings) |
| `team_sync` | `TeamSync.cfg`, `Spec` | 2 devices, 2 snapshots, 2 fences, 1 checkout each, 1 fault (restore, crash, lost answer or duplicate) | 609,822 | `CommitKeepsData`, `PinnedDataPresent`, `PinIsCommitted`, `GivenUpNeverLands` hold |
| `team_sync_stuck` | `TeamSync_stuck.cfg`, `FairSpec` | 1 device, 1 fault | - | `LeaseDropped` is violated (see Findings) |
| `fleet_keys` | `FleetKeys.cfg`, `Spec` | 2 devices, 1 rotation of the root or the fleet key | 233,879 | `TypeOK`, `RootHasCustodian`, `HoldingsAreBacked`, `PreparingUnderActiveRoot` hold |
| `fleet_transfer` | `FleetTransfer.cfg`, `Spec` | 2 uploads, 2 devices, 2 chunks, 2 power losses | 325,252 | `OneChain`, `UnracedBlobKept` hold |
| `fleet_transfer_race` | `FleetTransfer_race.cfg`, `Spec` | the same without power losses | - | `BlobKept` is violated (see Findings) |
| `downgrade` | `Downgrade.cfg`, `FairSpec` | 2 journals, 2 browser sessions, 5 other commands, 2 crashes, 1 fault | 871,884 | `WorkSurvives`, `OneListed`, `FlowIsAlone`, `FlowEnds` hold |
| `launch` | `Launch.cfg`, `FairSpec` | 1 MCP call and a user, 2 launches, 2 process IDs, 1 browser by hand, 1 death of the launcher | 478,373 | `OwnershipKept`, `MutationAlone`, `EntryLeaves` hold |

The type invariants of `TeamSync`, `FleetTransfer`, `Downgrade` and `Launch` hold on the
same instances and are left out of the configurations; add `TypeOK` to a
configuration's INVARIANTS to repeat them.

### Why the bounds are enough

* *EnvLock.* Two clients and two handlers are the smallest contention: a check-in
  that streams while the other client takes over, checks in and is collected. A
  third handler adds no new pair of steps, because every conflict is over one
  row or one file. TTL 1 and one tick make both outcomes of every expiry test
  reachable; two tokens are a takeover; two versions with Keep 1 make retention
  collect one. One file call that outlives its handler is enough for the other
  handler to get the same version. Three tokens (a takeover and a second checkout of
  the first client) were run by hand without late calls: 758,060 states.
* *ProfileUpload.* Two uploads under different fences and under the same fence,
  with a handler on each or both on one, and two chunks, so that a file may have a
  recorded part and a missing part; one fault is a file lost or changed, a row older
  than its receipt or a failing step. One device is enough for the interleavings:
  `held_lease` asks for the fence as well as for the owner, and a fence has one owner,
  so a takeover by another device and a new checkout by the same one differ only in a
  name. Larger instances were run by hand with the same result: two devices (2,516,784
  states), two devices and one chunk with two crashes, so with one inside the recovery
  from the other (1,511,611), and, with one chunk too, three fences (3,341,583) and two
  faults (1,873,340).
* *Restore.* Two commits are one the backup has and one it lacks. The crash may come at
  any step of prepare, commit, abort or the server, with a control-plane write
  before, between or after the commands. Damage (the record becomes unreadable and
  comes back, a manifest is damaged, an archive is put back) may strike anywhere. Run
  by hand with the same result: every pair of kinds of damage (3,844,790 states), all
  three together (one commit, 1,044,482), one restore on top of another (two
  transactions and epochs, no crash, 896,636) and two crashes of one restore without
  damage (166,486).
* *TeamSync.* Two devices and two fences are one takeover: the second device
  checks out on the head the first one pinned or has yet to pin. Larger
  instances were run by hand with the same result: `MaxFence` 3 (2.5 million
  states), `MaxFault` 2 (2.7 million), `MaxTries` 2 (2.4 million).
* *FleetKeys.* Two devices are the two custodians that can revoke each other;
  one rotation, of either key, is open while everything else happens.
* *FleetTransfer.* Two uploads are the two commits that can meet on one base or
  follow each other; two chunks leave a partial file. Three uploads without
  power losses were run by hand.
* *Downgrade.* Two journals are a clone on top of a retired one; two browser
  sessions put work in the original and in a clone; two crashes allow one while
  the other is resumed.
* *Launch.* Every conflict is between two launches of one profile: the one a call
  owns and the one that replaced it, perhaps with the same process ID. Two MCP
  calls and a user, without a death of the launcher, were run by hand.

Deadlock is checked for `EnvLock` where nothing ends for good. The other models
stop where a bound is used up or the server is off, so it is not checked there.

### Symmetry

Clients, handlers, contents, devices, uploads, transactions and commits are used
only in sets, equalities and as indices, never ordered. Runs of `FairSpec` use
no symmetry.

### Fairness

* `EnvLock`, `ProfileUpload`, `Restore`, `FleetKeys` and `FleetTransfer` have no fairness:
  nothing is checked of them but safety. That no write transaction is left behind
  is a conjunct of `EnvLock`'s `TypeOK`, that the start-up pass comes to its end is
  `SettlesInSteps`, and that an operator can always go on with a restore is
  `CommitResumes`.
* `TeamSync!FairSpec`: the push is asked for again and runs on (strong, a crash
  interrupts it), the server answers what is on its way, a lease expires.
* `Downgrade!FairSpec`: threads run, the launcher is started again, every start
  resumes an open journal (`resume_open` in `lib.rs`), a browser is closed at some
  time. Weak fairness is enough.
* `Launch!FairSpec`: tokio polls the tasks of the tracker, and the timer of the
  twelve-hour wait fires, also between Stops. Nothing makes browsers exit, people
  close windows or MCP calls go on.

### Findings

Each has a run that must fail, so that a repair of the code shows in the model:

* `team/sync.rs:3344` (`team_sync_stuck`): an upload is given up in two writes, the
  aborted session and the stored release. A crash between them leaves a PENDING commit
  with an ABORTED session; every later push is refused, and pull and unbind refuse
  while the lease is held. The binding cannot get out by itself.
* `locks.rs:389` (`env_lock_late`): a check-in dropped while `promote` is on the blocking
  pool rolls back, but the remove and rename go on. The retried check-in commits the
  same version number, and the late call then removes or replaces its file. The
  comment at `locks.rs:422-425` calls the leftover harmless; the order can be the other
  way round. `UnstruckRowHasBlob` is what remains: nothing else takes a row's bytes.
* `restore.rs:1819` (`restore_abort_cut`): a kill inside the audit transaction of an
  abort leaves a hot journal; the class is then K12, which allows neither abort nor
  commit, against `restore.rs:9-11`. `CommitResumes` is what remains.
* `fleet.rs:456` (`fleet_transfer_race`): the lease is validated before the hash and not
  again. If it is released (a client that timed out) or revoked meanwhile and another
  push of the same base is committing, both promote to the same `<version>.bin`; one
  transaction fails, and the version that was published may have the loser's bytes or
  none, against `fleet.rs:12-15` and `fleet.rs:20-22`. The chain of versions is not
  affected (`OneChain`), nor is any other version (`UnracedBlobKept`).

### Known divergences without a run

Found with the same models (or while reading), and left out of the runs:

* `restore.rs:1081`: `supersede` marks again the ledger rows an earlier
  restore marked, which the trigger of migration 0031 refuses. After one restore that
  rolled a commit back, every later `restore prepare` from a backup without that commit
  fails, against ADR 0002 line 460.
* `migrate.rs:214`: `data_root_migrate` asks only the tracker before it
  starts, and only the launch of the UI asks whether a move is running. A launch over
  the local API (`api.rs:867`) or of a window group (`lib.rs:1672`) opens the old folder
  during the copy, and the move deletes what its browser wrote, against
  `migrate.rs:1-2` and `lib.rs:1019`. A browser that outlived its launcher is in the
  same position. `WorkSurvives` speaks about all other work.
* `v2_uploads.rs:440` says the upload slot frees at abort or expiry. An upload left
  FINALIZING keeps it past its expiry until a restart.
* If the record becomes unreadable after the commit point of a restore, `classify` gives
  K1 before it looks at the manifest (`restore.rs:198`), K1 starts writable, and what is
  written then is archived by the install that follows: `LiveIsFrozen` and
  `NothingLost` speak about runs without such a fault. And a database that an operator
  copies to the DB path by hand is served writable in K4 (`restore.rs:154`), whatever it
  lacks: `ServedHasAudits` ends there.
* `v2_fleet.rs:428`: a rotation whose required member is removed before it
  acknowledges can neither activate nor be replaced, because the target
  generation exists and no row is deleted. ADR 0002 (line 1790) promises "a new
  rotation".
* `fleet.rs:163`: the index admits one unreleased lease and nothing releases an
  expired one, so a launcher that dies during a push leaves the profile checked
  out for good, against `fleet_client.rs:1638`, `sync_cmd.rs:509-510` and the comment of
  `AcquireLeaseReq` in `v2.rs`.
* `launch.rs:692-693` says a cancel is "for the launch that was on its way, never the
  next one". The `CancelScope` of a launch over the API lives through its wait for
  CDP (up to 30 s), after the claim was dropped. If that browser is closed and
  another launch is on its way when the scope is dropped, it clears the cancel of
  the second launch, whose browser then starts, against `lib.rs:1592-1593`.
* `process.rs:219`: when a Stop and the exit of the child are both ready, `select!`
  may take the Stop. If the launch was handed over, the wait for the lock is then
  skipped and the profile shows Idle while a browser has it, against the comment
  at `process.rs:253-261`.
* After a death of the launcher its browsers go on, and `begin_claim` asks only the
  tracker, so edits, pushes and pulls run beside them (only a launch asks
  `lock_is_live`). An MCP call that was polling gets an empty list from the next
  launcher and reports `restoration_confirmed`. `OwnershipKept` and `MutationAlone`
  therefore speak about browsers of the running launcher.
* `folders.rs:120`: two concurrent moves of folders can close a cycle.

## 4. Proofs

All proofs hold for every value of the constants that meets the modules'
assumptions (named `ConstantsOK`, `NoneIsNew` and the like; TLC evaluates them on
every run).

### EnvLockProofs

* `TypeCorrect`. The type invariant is inductive as it stands, since it includes
  who holds the write lock (`dbw = r <=> pc[r] \in InTx`).
* `LinearHistory` (`NoLostUpdate`) and `Retention` (`NewestKept`), from `HistoryInv`.
  `NoLostUpdate` speaks about committed rows only and is far from inductive: what
  makes a check-in safe is that its token still names the lock row when its
  transaction begins, and that *whoever holds the current token was told the
  current version*. `HandlerInv` says this of handlers, `ClientInv` of what
  clients remember (a token from an old session may be presented later),
  `RowInv` of rows; tokens are at most `minted`, so a new one is held by nobody.
  Retention needs that a collector works for a committed version.
* `RowsHaveBlobs` (`UnstruckRowHasBlob`) and `DownloadsAreHonest` (`DownloadHonest`), from
  `BlobInv`, for any number of file calls that outlive their handler. `FileInv` adds
  that a promoted file keeps its bytes until the commit unless it is struck, that
  collectors list only versions behind their cutoff, and unlink only files whose row
  is gone. The exception is needed: `env_lock_late`.
* `LiveLeasesKept` (`LiveLeaseKept`), an action property, from `ClockInv`: the clock
  a handler compares with was read before its statement, so what had run out
  then has run out now.

### ProfileUploadProofs

* `TypeCorrect`, with `LocalInv` (where a handler stands, its locals are there and
  its chunk fits), which the staging files' type needs. The type is split into
  the parts an action disturbs together (`PartsOK`), each with a frame lemma.
* `LeaseCurrent`, `OneChain` (`FencedHistory`), `CommitsFenced` and `Refinement`
  (`ImplementsLog`), from `ChainInv`: the lease holds the newest fence and the
  current base; versions stay behind fences, strictly while a lease exists;
  every version's upload has base `v - 1`, receipt `v`, and a fence older than
  the lease's and younger than its predecessors'. Damage, crashes and recovery
  are included: only a grant, the end of a lease and a commit are visible to
  the log (`OtherStepsQuiet`).
* `OneSlot` (`OneUploadPerLease`): while nothing is damaged only `CreateUpload`
  puts an upload into a slot (`OnlyCreateTakesSlot`). With a damaged row (an
  upload set back to FINALIZING) it does not hold, and the property ends there.
* `PassSettles` (`SettlesInSteps`), from `RoundsInv`: the rounds used and the rounds an
  upload may still need (`RoundsLeft`: FINALIZING, READY and a staging file beside the
  object cost one each) stay below `STEPS`.
* `UploadsMoveForward` (`MovesForward`), `BytesKept` (`BytesOnDisk`),
  `QuarantineJustified` (`QuarantineHasCause`), `ServedWhole` (`ServedIsIntact`) and
  `SecondPassChangesNothing` (`SecondPassKeeps`), from `DiskInv`
  (`DiskInvariance`). The properties compare rows with files, and a row is written
  long after the file it speaks of was checked, so the invariant says what each
  handler may still rely on. Its parts, by what they survive:
  - `HandlerInv`: a handler that writes is the registered writer of its upload, at
    most one is, and the row is in the state the handler read, because the other
    routes refuse while `WRITERS` has the upload.
  - `TodoInv`: an upload the start-up pass still has to settle is in a state the
    pass looks at and not quarantined, and outside a start none is left.
  - `BytesInv` and `CauseInv`, while nothing is damaged: staging has what the
    chunk rows record, at every place between the file call and the row; a
    READY or COMMITTED upload has its object; and what is not the promised
    content was sent by the client.
  - `SettledInv` and `ServeInv`, whatever was damaged: what the pass has settled
    is left alone by the decision table, and a serving server has settled
    everything since the last damage, which only strikes while it is down.

### RestoreProofs

The properties speak about normal operation, or about the database the record
names; what makes them hold is spread over a dozen files and steps. The
invariant has a part for each kind of damage it survives:

* `PcInv`, whatever was damaged: what each place of a running command may rely on
  (files are damaged while nothing runs). Its core is that a candidate takes
  nothing back of the database it was merged from (`Derived`, from `MergeIs`: the
  control plane, the fence, the audit rows, the mirror, and no unmarked ledger
  row without its snapshot), and that a manifest keeps this of the artifacts.
* `StageInv` and `CmdInv`, while nothing was damaged by hand (`faults = {}`): for each
  stage of a restore where the record, its mirror, candidate and archive are, and
  which file is `Complete`, that is, has all that was acknowledged. Until the
  commit point and after the install that is the database; in between it is the
  candidate, and it stays complete because the class freezes the server. They
  give `NothingTakenBack` (`NothingLost`), `ReceiptsHaveSnapshots`
  (`NoDanglingReceipt`), `FrozenUntilInstalled` (`LiveIsFrozen`) and
  `FilesTellProgress` (`CommitResumes`), the last by evaluating `Class` at each
  stage.
* `RecordInv` and `AuditInv`, as long as nobody copies an archive back by hand
  (`"archive" \notin faults`): the same of the record, readable or not, for the
  fences and audit rows. While a candidate waits for its install, no database
  attests the record, so none of the commands that write an audit row and no v2
  write is allowed; and the archive of a missing database closes `startup_gate`.
  They give `RecordsAreBacked` (`RecordHasDatabase`) and `ServedDatabaseHasAudits`
  (`ServedHasAudits`).

The condition on `"archive"` is needed, which the search for the invariant showed (the
instances of the runs are too small for it): with two restores, the archive of
the second may be deleted by `abort --orphans --delete-archives`, and an operator
who then copies the archive of the first one back leaves a record whose database
is nowhere (`RecordHasDatabase`); and a server that starts in K4, or in K1 because the
record cannot be read either, on a database put back by hand lacks what was written
since (`ServedHasAudits`). Both take an operator who works against the tool.
`ConstantsOK` and `NothingIsNew` say that the values for nothing are not numbers,
transactions or records, and that there are finitely many commits.

`SiteTypes` (`TypeOK`) holds with every kind of fault. What is hard in it are the
bounds of a database: its history names no commit twice and its fence is at most
the number of commits, which are claims about what `merge` puts together. `SizeInv`
says of every database, wherever it lies (`Held`), that its history is in its
ledger and its fence is not ahead of the ledger (`Sized`). A merge keeps the live
ledger and takes history and fence from the backup, so this is inductive only if
the live database has every ledger row that any other one has: `NewestInv`, of the
database whose mirror is the record, and of the candidate once the record moved.
`FileInv` says why no other database comes to speak for the record: an archive is of
an earlier epoch, also when it is copied back; the candidate is the manifest's; and
`startup_gate` makes no new database, because a missing one leaves its archive. The
three were checked on the instance of `restore` and on one with a fault of the kind
`"archive"` before they were proved.

### FleetKeysProofs

`IInv` is `TypeOK`, `HoldingsAreBacked`, `RootKept` and `WrapInv`. `HoldingsAreBacked` is
inductive with the types. `RootKept` gives `RootHasCustodian` in a form that steps
can be followed in: the root `active` names is ACTIVE, and one of its grants is
acknowledged by a device that is active, which is what the guards of the two
revocations count. `WrapInv` adds to `PreparingUnderActiveRoot` that a fleet
generation that was not created has no recovery grant; that no root is activated while
a fleet key is PREPARING then follows, because its recovery grants are all under
the ACTIVE root and a new root needs one under itself (`NonePreparing`). Hence
`TypeCorrect`, `HoldingsBacked`, `CustodianRemains` and `WrapsAreCurrent`, assuming
`BoundsAssumption`.

### FleetTransferProofs

`PublishedStays` (`OneChain`), without exception, and `UnracedFilesWhole`
(`UnracedBlobKept`). `ChainInv` says that a transaction that has read still reads the
current version (`TxInv`), and that nobody can publish on the current version with a
token older than one of the chain (`TokenInv`: whatever was published since has moved
the version on); `BlobInv` that, for a version that is not in `raced`, the commit past
its check is the lease holder's and the file it hashed is the one it renames, late
file calls included. Only weak types are proved; `TypeOK`'s bound on tokens is not.

### DowngradeProofs

`TypeCorrect`, `NothingIsLost` (`WorkSurvives`), `NeverBothListed` (`OneListed`) and
`FlowsAreAlone` (`FlowIsAlone`). The folders alone do not show why they are safe, so
`IInv` ties them to everything else: `LockInv` to the claims of the other threads,
`PcInv` to where the flow's thread is, `PlaceInv` to the phase of the journal,
`OrigInv` and `CloneInv` say which place holds the original's and the clones' work,
also after a person removed the archive or made a directory. While a move works, its
copy holds what no browser wrote beside it, no flow runs, and nothing was archived;
`NothingIsLost` therefore speaks about the sessions outside `beside`.

### LaunchProofs

`TypeCorrect`, `MutationsAlone` (`MutationAlone`) and `CallsStopTheirOwn`
(`OwnershipKept`). A claim excludes the tracker's entry, and the entry is the only
one whose task has not ended (`EntryInv`), so tasks follow each other and a browser
of this launcher is watched by its task (`BrowserInv`). `StopInv` follows a stop
from the call to the channel: what is in the channel of a launch came from the
call that made it or from the user. Process IDs may be used again: nothing in
the argument needs them to be fresh. `MutationsAlone` is about what this launcher
started: the orphans of one that died are outside it, and edits do run beside them.

### TeamSyncProofs

`SyncTypes` (`TypeOK`), `NoUpdateLost` (`CommitKeepsData`), `PinnedDataKept`
(`PinnedDataPresent`), `PinsCommitted` (`PinIsCommitted`) and `GivenUpStaysOut`
(`GivenUpNeverLands`), from `SyncInvariance` (`Spec => []Inv`), for any number of
devices, snapshots, fences, checkouts, restores and faults. None of the four
properties is near to being inductive: what a commit includes was decided when it was
sealed, under a lease granted from a pin that a third request moved, and the
device may have died in between. `Inv` has five layers, each proved from the
ones before it.

* `Base`: the rows, requests, stored responses and what commands hold in memory fit together. A
  request is determined by what it asks for (`Known`, `Asks`), a fence has one
  owner (`Owns`), a stored answer is the one its request got, and the directory is
  there or a whole restore will become it.
* `DataInv`, the core of no lost update. A fence that was granted and not taken up
  is unused (`Fresh`), and while the server still has its lease the head is what
  the request named (`GrantInv`). So the lease a device holds covers the head
  (`HoldInv`), what is sealed under it extends the head (`SealInv`) and is in the
  directory (`SealedInv`), and the pinned head is there too (`HeadInv`).
  `HistoryInv` follows the log through restores: a transition maps a head to one
  that it includes.
* `PinInv`: a pin at the server's epoch is a version; a commit that was answered and
  is no version any more is of an older epoch. A device that is behind by several
  epochs walks their transitions; that the walk ends at a version is
  `LeafChain`, by induction over the epochs (`SetInduction`, from the library's
  well-founded minimum, since its induction rules take an operator).
* `UploadInv` and `SessionInv`: an ABORTED session is `Doomed`, which means that no
  request on its way can make it a version any more: it is answered from the
  ledger, of an older epoch, or its lease has ended. `Quit` says that no upload of
  a fence is under way, which a device must know before it stores the release;
  `CommandOK` and `HolderOK` carry it from the refused reply to the transaction
  that drops the lease.

Assumed are `BoundsOK` and `NoneIsNew` (the value for nothing is no number, row
or request). Of the bounds only `MaxSnap` is in `TypeOK`, as the number of snapshots
that can be sealed; nothing depends on the others.

### How the invariants were found

Each `IInv` was first an invariant of a TLC run on the instance of the module's
own configuration (for `Restore` on three more: two transactions with a crash,
2,010,442 states; one with two faults of all kinds, 978,072; two with a crash and
a damaged record or manifest, 11,427,080; for `TeamSync` on the 609,822 states of
its run). The proofs have one step per action.
For `Restore` and `Downgrade` some definitions were also replaced by their "Fault:"
variants, and the proofs then fail, as they should, at the steps that rely on
them.

Two attempts changed a model. In `ProfileUpload` the arms of the decision tables'
CASE overlapped where the code's `if` chain takes the first that matches; TLC
takes the first too, but TLA+ leaves the choice open, and a proof about every
choice fails. They are IF chains now. In `TeamSync` the walk of transitions
(`LeafHead`) is written without recursion; TLC found both forms equal on all
states of a larger instance (3.4 million). One conjunct of `TeamSync`'s invariant was only found by the
proof: that a device with a live FINALIZE or COMMIT has the session row of its
upload (`HolderOK`), which `Quit` needs when the lease is dropped.

### Only model-checked

The bound on tokens in `TypeOK` of `FleetTransfer`.
`FlowEnds` and `EntryLeaves` are liveness under fairness, which the prover does not
reach.
`NewestKept`, `LeaseIsCurrent` and `CommitIsFenced` are proved and in no run: the
first is part of the inductive invariant, the other two follow what
`ImplementsLog` checks.

## 5. What is not modelled

* Power loss, except in `FleetTransfer`. A crash is the death of the process; what a
  file call wrote stays. Known gaps there: v1 blobs are renamed without fsync, and
  the entry of a v2 staging file is not synced. A create that dies before its
  commit leaves a staging file without a row, which nothing reads.
* Signatures, key generations, capabilities and access control, except that they
  may refuse a request.
* In `Restore`: Merkle proofs of transitions, `export-heads` and `status` (they
  only read), rotating and adopting an identity, the `.tmp` files of the identity
  directory. A transaction id is one that no restore had before (`Drawn`), as
  `export-heads` draws them at random; `prepare` itself would take an old one again.
  `InstallArchive` is the steps 4.i-iii as one, and of the four kinds of ledger rows
  `Supersede` has the COMMIT rows; the others are marked by the same rule.
* In `ProfileUpload`: a blob root that is missing whole, where the pass gives up before
  its first step, and the order in which the pass takes the uploads (any, their rounds
  interleaved).
* In `TeamSync`: revert and revoked signers (rule 6), the compromise block (Q-18),
  unbinding a profile the server removed, releases of unbound leases, labels and
  key verification; columns of a stored request that no longer match its bytes
  (STORED_REQUEST_MISMATCH), which takes a damaged database; the refusal of a replayed
  COMMIT whose upload is quarantined, which takes a damaged server disk; the bound of
  64 versions on the search for a leaf (LEAF_SEARCH), which the logs here are shorter
  than. HEAD_ROLLBACK_DETECTED and the other refusals of a transition's proof are one
  quarantine. `LeaseDropped` has a second way to fail, a commit that was
  acknowledged and rolled back by a restore before it was pinned.
* In `FleetKeys`: validity windows (everything is inside its window, so
  `RootHasCustodian` holds while nothing expires), several fleets and accounts,
  quarantined rows, archived fleets, logout and the `recovery_required` state.
  Capabilities are filed as a set in one action. The leases a revocation ends are in
  `FleetTransfer` (`Revoke`) and `ProfileUpload` (`ForceExpire`).
* In `FleetTransfer`: downloads and the launcher's pull, which read only and
  authenticate what they got; manifest signatures; disk damage.
* In `Downgrade`: trash and deletion of the original or the clone
  (`trash::restore` takes no claim), foreign records in the folders, renames under
  a live browser (the flow runs on Windows only, where a rename fails on an open
  directory: `RetireData` relies on that), single files inside the copy of the
  data-root move and what the old root loses while it is deleted, a launch of a
  retired clone by its ID (it leaves an empty folder that `check_restorable` refuses),
  the restore of a pre-v2 profile, which no code drives yet.
* In `Launch`: the Chromium restart of an elevated launcher, the relay, the cancel
  flag (see the divergence above), temporary profiles apart from their last write,
  lock files of dead processes whose process ID is used again.
* Whole parts: the idempotency ledger apart from its effects in `ProfileUpload`,
  `TeamSync` and `Restore`; challenges and tickets, each one conditional update in
  one transaction; the trust ledger and the custody commands; v1 CRUD; the MCP
  tools that forward one call. Codecs, cryptography, the UI, the automation runner, the relay and the
  SDKs stay out: pure functions over bytes, or I/O without state that can be
  wrong. They are most of the source, so the map covers about an eighth of its
  lines; the state machines that several actors or a crash can break are in it.

## 6. Plan

What is left, in this order.

1. **TeamSync**: revert and revoked signers, as actions of the model, and the
   invariant's data layer with them: the directory then includes the reverted
   snapshot instead of the head.
2. **Trust ledger and fleet custody** of the launcher: monotone trust state and
   two-step key ceremonies, the largest stateful part without a module.
