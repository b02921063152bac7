----------------------------- MODULE Downgrade -----------------------------
(***************************************************************************)
(* The downgrade clone of one bound profile (team/downgrade.rs) beside     *)
(* what else touches its record and its data in the launcher: launches and *)
(* the browser they start (launch.rs, process.rs), team commands, the      *)
(* fingerprint migration of runtime.rs and the move of the data root       *)
(* (migrate.rs).                                                           *)
(*                                                                         *)
(* Every rename, every file the flow writes and every journal write is an  *)
(* action, and the launcher may die between any two of them.  A record is  *)
(* there or not; the content of a data directory is the set of browser     *)
(* sessions whose work it holds.  The profile IDs are "orig" and "clone",  *)
(* the clone being the one of the newest journal.                          *)
(***************************************************************************)
EXTENDS Naturals, FiniteSets

CONSTANTS
    None,         \* no directory
    Half,         \* the directory a copy has not finished
    MaxFlows,     \* journals created
    MaxRuns,      \* browser sessions that write data
    MaxCommands,  \* other commands the user or the API gives
    MaxCrash,     \* deaths of the launcher
    MaxFault      \* failed steps and hands in the folders

ASSUME BoundsAssumption ==
    /\ {MaxFlows, MaxRuns, MaxCommands, MaxCrash, MaxFault} \subseteq Nat
    /\ None # Half /\ \A s \in SUBSET (1 .. MaxRuns) : None # s /\ Half # s

VARIABLES
    phase,     \* downgrade_journals.phase of the newest journal
    flows,     \* journals created so far
    bound,     \* the profile has a row in profile_bindings
    lease,     \* ... and its lease_id is set
    moved,     \* the data root is not the config root
    copy,      \* what a move has copied of the original's data
    astray,    \* the profiles whose browser holds a folder of a root that was left
    beside,    \* (history) the sessions written beside a move or in such a folder
    recs,      \* the places that hold a record
    data,      \* the content of each data place
    kept,      \* the data of the clones that earlier journals retired
    ran,       \* the sessions each profile has had
    up,        \* the launcher runs
    flow,      \* where the thread of a downgrade command is
    launch,    \* ... of the launch of each profile
    team,      \* ... of a push
    upd,       \* ... of the fingerprint migration
    mover,     \* ... of a move of the data root
    tracker,   \* the entry of each profile in process::Tracker
    browsers,  \* the profiles whose data a browser holds open
    cmds, crashes, faults,
    hand       \* what a hand in the folders did: "no", "made", "lost", "last"

disk    == <<recs, data, kept, ran>>
root    == <<moved, copy, astray, beside>>
journal == <<phase, flows, bound, lease, root>>
others  == <<launch, team, upd, mover, tracker, browsers>>
bounds  == <<cmds, crashes, faults, hand>>
vars    == <<journal, disk, up, flow, others, bounds>>

Ids        == {"orig", "clone"}
Chain      == <<"CREATED", "CLAIMED", "ORIGINAL_METADATA_MOVED", "ORIGINAL_USER_DATA_MOVED",
                "DISCOVERY_SCAN_PASSED", "CLONE_WRITTEN", "READBACK_PASSED", "COMPLETED">>
Settled    == {"COMPLETED", "ROLLED_BACK"}
Phases     == {Chain[i] : i \in 1 .. 8} \cup {"NONE", "ROLLBACK_REQUIRED", "ROLLED_BACK"}
RecPlaces  == {"metadata_src", "metadata_dst", "clone_metadata", "retired_metadata"}
DataPlaces == {"data_src", "data_dst", "probe", "clone_staging", "clone_data", "retired_data"}

\* Where the launcher keeps the record and the data of a profile.
path_for(i) == IF i = "orig" THEN "metadata_src" ELSE "clone_metadata"
udd(i)      == IF i = "orig" THEN "data_src" ELSE "clone_data"

exists(p) == IF p \in RecPlaces THEN p \in recs ELSE data[p] # None

Open    == phase \notin Settled \cup {"NONE"}
in_flow == phase \notin {"NONE", "ROLLED_BACK"}

\* durable::move_new: a rename that never replaces.
move_new(p, q) == data' = [data EXCEPT ![q] = data[p], ![p] = None]
move_record(p, q) == recs' = (recs \ {p}) \cup {q}

----------------------------------------------------------------------------
(* Locks and claims.                                                       *)

\* The pcs of a downgrade thread that holds the FLOW mutex, and those that hold
\* its claim on the original, the clone and PROFILE_NAME_CLAIM too.
HasFlow  == flow.pc \notin {"idle", "begin"}
HasClaim == flow.pc \notin {"idle", "begin", "locked"}

\* A move holds the mutex while it works, and has its flag up from before.
Moving    == mover \in {"work", "copied"}
FlowFree  == ~HasFlow /\ ~Moving /\ upd = "idle"
Migrating == mover # "idle"

\* lifecycle_claims, and begin_claim's refusal of a profile that is running.
Claimed(i)  == HasClaim \/ launch[i] # "idle" \/ (i = "orig" /\ team # "idle")
NameClaimed == HasClaim \/ team # "idle"

\* Fault: the tracker's entry goes before its last write to the record.
ClaimFree_Untracked(i) == ~Claimed(i)

ClaimFree(i) == ~Claimed(i) /\ tracker[i] = "none"

----------------------------------------------------------------------------
(* The thread of a downgrade command.                                      *)

Goto(pc) == flow' = [flow EXCEPT !.pc = pc]
Err      == Goto("idle")

\* forces_rollback: an error of CONFLICTS marks the journal; drive then returns,
\* and the next run rolls back.
ForceRollback ==
    /\ phase' = "ROLLBACK_REQUIRED"
    /\ Err
    /\ UNCHANGED <<flows, bound, lease, root, disk, up, others, bounds>>

Fail == Err /\ UNCHANGED <<journal, disk, up, others, bounds>>

\* A step of the flow that changes only the disk, or nothing.
Step(pc) == Goto(pc) /\ UNCHANGED <<journal, kept, ran, up, others, bounds>>
Look(pc) == Step(pc) /\ UNCHANGED <<recs, data>>

\* downgrade_advance along CLONE_CHAIN.
AdvanceTo(i, pc) ==
    /\ phase = Chain[i - 1]
    /\ phase' = Chain[i]
    /\ Goto(pc)
    /\ UNCHANGED <<flows, bound, lease, root, disk, up, others, bounds>>

\* binding_facts: the binding is there and holds no lease.
binding_facts == bound /\ ~lease

\* begin: refuse while the root moves, then wait for the mutex.
Begin(cmd) ==
    /\ up /\ flow.pc = "idle" /\ ~Migrating
    /\ \/ cmd = "start" /\ flows < MaxFlows /\ cmds < MaxCommands /\ cmds' = cmds + 1
       \/ cmd = "run" /\ Open /\ cmds' = cmds
       \/ cmd = "rollback" /\ Open /\ cmds < MaxCommands /\ cmds' = cmds + 1
    /\ flow' = [pc |-> "begin", cmd |-> cmd]
    /\ UNCHANGED <<journal, disk, up, others, crashes, faults, hand>>

TakeFlow ==
    /\ flow.pc = "begin" /\ FlowFree
    /\ Look("locked")

\* claim and claimed: the profiles are the flow's own, and the journal is read
\* again under the claim.
TakeClaim ==
    /\ flow.pc = "locked"
    /\ LET mine == IF flow.cmd = "start" THEN {"orig"} ELSE Ids
       IN  IF NameClaimed \/ \E i \in mine : ~ClaimFree(i)
           THEN Fail
           ELSE Look(CASE flow.cmd = "start"    -> "create"
                       [] flow.cmd = "run"      -> "enter"
                       [] flow.cmd = "rollback" -> "mark")

\* start_clone: every refusal comes before the journal; then the journal, with
\* a fresh clone ID and archive directory.
Create ==
    /\ flow.pc = "create"
    /\ IF moved \/ ~binding_facts \/ ~exists("metadata_src") \/ "orig" \in browsers \/ in_flow
       THEN Fail
       ELSE /\ phase' = "CREATED" /\ flows' = flows + 1
            /\ recs' = {"metadata_src"}
            /\ kept' = kept \cup {data[p] : p \in {q \in {"retired_data"} : exists(q)}}
            /\ data' = [p \in DataPlaces |-> IF p = "data_src" THEN data[p] ELSE None]
            /\ Goto("enter")
            /\ UNCHANGED <<bound, lease, root, ran, up, others, bounds>>

\* settle_probe: a trial move that was cut off is undone.
SettleProbe(next) ==
    IF ~exists("probe")
    THEN Look(next)
    ELSE IF exists("data_src")
         THEN Fail
         ELSE move_new("probe", "data_src") /\ UNCHANGED recs /\ Step(next)

Enter == flow.pc = "enter" /\ SettleProbe("loop")

At(p) == flow.pc = "loop" /\ phase = p

DriveCreated == At("CREATED") /\ IF binding_facts THEN AdvanceTo(2, "loop") ELSE Fail

\* prove_idle and prove_unlocked: the data is renamed into the archive and
\* back, which fails while a browser has a file in it open.
ProbeOut ==
    /\ At("CLAIMED")
    /\ IF "orig" \in browsers
       THEN Fail
       ELSE IF ~exists("data_src")
            THEN Look("metadata")
            ELSE move_new("data_src", "probe") /\ UNCHANGED recs /\ Step("probed")

ProbeBack ==
    /\ flow.pc = "probed"
    /\ IF exists("data_src")
       THEN ForceRollback
       ELSE move_new("probe", "data_src") /\ UNCHANGED recs /\ Step("metadata")

\* move_path of the record: found at one end it moves or has moved; found at
\* both ends or at none, the disk cannot be explained.
MoveMetadata ==
    /\ flow.pc = "metadata"
    /\ IF exists("metadata_src") = exists("metadata_dst")
       THEN ForceRollback
       ELSE move_record("metadata_src", "metadata_dst") /\ UNCHANGED data /\ Step("moved")

DriveClaimed == flow.pc = "moved" /\ AdvanceTo(3, "loop")

\* prove_idle again, then move_data; a profile that never ran is archived with
\* empty data.
MoveData ==
    /\ At("ORIGINAL_METADATA_MOVED")
    /\ IF "orig" \in browsers
       THEN Fail
       ELSE IF exists("data_src") /\ exists("data_dst")
       THEN ForceRollback
       ELSE /\ IF exists("data_src") THEN move_new("data_src", "data_dst")
               ELSE data' = [data EXCEPT !["data_dst"] = IF @ = None THEN {} ELSE @]
            /\ UNCHANGED recs
            /\ Step("archived")

DriveMetadataMoved == flow.pc = "archived" /\ AdvanceTo(4, "loop")

\* Discovery::mentions: the original's record or data is where v0.1.28 reads.
mentions_original == exists("metadata_src") \/ exists("data_src")

\* prove_gone.
DriveUserDataMoved ==
    /\ At("ORIGINAL_USER_DATA_MOVED")
    /\ IF ~exists("metadata_dst") \/ ~exists("data_dst") \/ mentions_original
       THEN ForceRollback
       ELSE AdvanceTo(5, "loop")

\* Fault: a copy left by an earlier run is taken for a finished one.
CopyClone_Reuse ==
    /\ At("DISCOVERY_SCAN_PASSED")
    /\ IF ~binding_facts \/ ~exists("data_dst")
       THEN Fail
       ELSE IF exists("clone_staging")
            THEN Look("copied")
            ELSE IF ~exists("clone_data")
                 THEN data' = [data EXCEPT !["clone_staging"] = Half] /\ UNCHANGED recs /\ Step("copying")
                 ELSE IF data["clone_data"] # data["data_dst"] THEN ForceRollback ELSE Look("record")

\* write_clone: data already there must list like the archive; otherwise a
\* copy is made aside, anew.
CopyClone ==
    /\ At("DISCOVERY_SCAN_PASSED")
    /\ IF ~binding_facts \/ ~exists("data_dst")
       THEN Fail
       ELSE IF ~exists("clone_data")
            THEN data' = [data EXCEPT !["clone_staging"] = Half] /\ UNCHANGED recs /\ Step("copying")
            ELSE IF data["clone_data"] # data["data_dst"] THEN ForceRollback ELSE Look("record")

FinishCopy ==
    /\ flow.pc = "copying"
    /\ data' = [data EXCEPT !["clone_staging"] = data["data_dst"]]
    /\ UNCHANGED recs
    /\ Step("copied")

PlaceClone ==
    /\ flow.pc = "copied"
    /\ move_new("clone_staging", "clone_data")
    /\ UNCHANGED recs
    /\ Step("record")

WriteRecord ==
    /\ flow.pc = "record"
    /\ recs' = recs \cup {"clone_metadata"}
    /\ UNCHANGED data
    /\ Step("written")

DriveScanPassed == flow.pc = "written" /\ AdvanceTo(6, "loop")

\* read_back.  An archive that is gone is no reason to roll back now: the clone
\* may be the only copy.
DriveCloneWritten ==
    /\ At("CLONE_WRITTEN")
    /\ IF ~exists("clone_metadata") \/ ~exists("clone_data") \/ mentions_original
       THEN ForceRollback
       ELSE IF ~binding_facts \/ ~exists("metadata_dst") \/ ~exists("data_dst")
            THEN Fail
            ELSE AdvanceTo(7, "loop")

DriveReadbackPassed == At("READBACK_PASSED") /\ AdvanceTo(8, "idle")

DriveRollback == At("ROLLBACK_REQUIRED") /\ Look("settle")

----------------------------------------------------------------------------
(* roll_back.                                                              *)

\* roll_back_clone marks the journal first.
MarkRollback ==
    /\ flow.pc = "mark"
    /\ phase' = "ROLLBACK_REQUIRED"
    /\ Goto("settle")
    /\ UNCHANGED <<flows, bound, lease, root, disk, up, others, bounds>>

SettleRollback == flow.pc = "settle" /\ SettleProbe("check")

\* Fault: an original that is already back in place does not count.
restorable_Archived ==
    /\ exists("data_dst") /\ ~exists("data_src")
    /\ exists("metadata_dst") /\ ~exists("metadata_src")

\* check_restorable: the original is in one place only, and, once there is a
\* clone, in one at least; the clone is not in place and retired.
restorable ==
    /\ \A e \in {<<"data_src", "data_dst">>, <<"metadata_src", "metadata_dst">>} :
         /\ ~(exists(e[1]) /\ exists(e[2]))
         /\ exists("clone_metadata") \/ exists("clone_data") => exists(e[1]) \/ exists(e[2])
    /\ ~(exists("clone_metadata") /\ exists("retired_metadata"))
    /\ ~(exists("clone_data") /\ exists("retired_data"))

CheckRestorable == flow.pc = "check" /\ IF restorable THEN Look("retire_record") ELSE Fail

\* retire: the clone is moved aside, never deleted; Windows refuses to move a
\* directory with an open file in it.
RetireRecord ==
    /\ flow.pc = "retire_record"
    /\ IF exists("clone_metadata") THEN move_record("clone_metadata", "retired_metadata")
       ELSE UNCHANGED recs
    /\ UNCHANGED data
    /\ Step("retire_data")

RetireData ==
    /\ flow.pc = "retire_data"
    /\ IF exists("clone_data")
       THEN IF "clone" \in browsers
            THEN Fail
            ELSE move_new("clone_data", "retired_data") /\ UNCHANGED recs /\ Step("staging")
       ELSE Look("staging")

RemoveStaging ==
    /\ flow.pc = "staging"
    /\ data' = [data EXCEPT !["clone_staging"] = IF exists("data_dst") THEN None ELSE @]
    /\ UNCHANGED recs
    /\ Step("data_back")

DataBack ==
    /\ flow.pc = "data_back"
    /\ IF exists("data_dst")
       THEN IF exists("data_src")
            THEN Fail
            ELSE move_new("data_dst", "data_src") /\ UNCHANGED recs /\ Step("record_back")
       ELSE Look("record_back")

RecordBack ==
    /\ flow.pc = "record_back"
    /\ IF exists("metadata_dst")
       THEN IF exists("metadata_src")
            THEN Fail
            ELSE move_record("metadata_dst", "metadata_src") /\ UNCHANGED data /\ Step("rolled_back")
       ELSE Look("rolled_back")

RolledBack ==
    /\ flow.pc = "rolled_back"
    /\ phase' = "ROLLED_BACK"
    /\ Err
    /\ UNCHANGED <<flows, bound, lease, root, disk, up, others, bounds>>

FlowStep ==
    \/ TakeFlow \/ TakeClaim \/ Create \/ Enter
    \/ DriveCreated \/ ProbeOut \/ ProbeBack \/ MoveMetadata \/ DriveClaimed
    \/ MoveData \/ DriveMetadataMoved \/ DriveUserDataMoved
    \/ CopyClone \/ FinishCopy \/ PlaceClone \/ WriteRecord \/ DriveScanPassed
    \/ DriveCloneWritten \/ DriveReadbackPassed \/ DriveRollback
    \/ MarkRollback \/ SettleRollback \/ CheckRestorable \/ RetireRecord \/ RetireData
    \/ RemoveStaging \/ DataBack \/ RecordBack \/ RolledBack

----------------------------------------------------------------------------
(* Launches, the browser and the process tracker.                          *)

\* begin_profile_launch.  A clone is launched from the list; the original's ID
\* may be in a script, listed or not.
LaunchBegin(i) ==
    /\ up /\ cmds < MaxCommands /\ ClaimFree(i)
    /\ i = "clone" => exists("clone_metadata")
    /\ launch' = [launch EXCEPT ![i] = "claimed"]
    /\ cmds' = cmds + 1
    /\ UNCHANGED <<journal, disk, up, flow, team, upd, mover, tracker, browsers,
                   crashes, faults, hand>>

\* user_data_dir refuses a profile in a flow and otherwise makes the directory;
\* then load_raw and lock_is_live.
LaunchPrepare(i) ==
    /\ launch[i] = "claimed"
    /\ LET refused == i = "orig" /\ in_flow
       IN  /\ data' = [data EXCEPT ![udd(i)] = IF ~refused /\ @ = None THEN {} ELSE @]
           /\ launch' = [launch EXCEPT ![i] =
                 IF refused \/ ~exists(path_for(i)) \/ i \in browsers THEN "idle" ELSE "ready"]
    /\ UNCHANGED <<journal, recs, kept, ran, up, flow, team, upd, mover, tracker, browsers, bounds>>

\* The browser is started on the folder LaunchPrepare took, touch_launched
\* rewrites the record, the tracker takes the child and the claim is dropped; or
\* the launch was cancelled.
LaunchSpawn(i) ==
    /\ launch[i] \in {"ready", "astray"}
    /\ \/ /\ launch[i] = "ready"  /\ browsers' = browsers \cup {i} /\ UNCHANGED astray
          /\ tracker' = [tracker EXCEPT ![i] = "running"]
       \/ /\ launch[i] = "astray" /\ astray' = astray \cup {i} /\ UNCHANGED browsers
          /\ tracker' = [tracker EXCEPT ![i] = "running"]
       \/ UNCHANGED <<browsers, astray, tracker>>
    /\ launch' = [launch EXCEPT ![i] = "idle"]
    /\ UNCHANGED <<phase, flows, bound, lease, moved, copy, beside, disk, up, flow, team, upd,
                   mover, bounds>>

\* Sessions are numbered in the order of their work.
Fresh(r) == r = Cardinality(UNION {ran[j] : j \in Ids}) + 1

\* The browser writes its session to the directory it holds open, which after a
\* move may be one that nobody reads.
BrowserWork(i) ==
    /\ \E r \in 1 .. MaxRuns :
         /\ Fresh(r)
         /\ ran' = [ran EXCEPT ![i] = @ \cup {r}]
         /\ \/ /\ i \in browsers
               /\ data' = [data EXCEPT ![udd(i)] = @ \cup {r}]
               /\ beside' = beside \cup (IF Moving THEN {r} ELSE {})
            \/ i \in astray /\ beside' = beside \cup {r} /\ UNCHANGED data
    /\ UNCHANGED <<phase, flows, bound, lease, moved, copy, astray, recs, kept, up, flow, others,
                   bounds>>

BrowserExit(i) ==
    /\ \/ i \in browsers /\ browsers' = browsers \ {i} /\ UNCHANGED astray
       \/ i \in astray /\ astray' = astray \ {i} /\ UNCHANGED browsers
    /\ UNCHANGED <<phase, flows, bound, lease, moved, copy, beside, disk, up, flow, launch, team,
                   upd, mover, tracker, bounds>>

\* The tracker's task, once the child is gone: add_runtime reads the record and
\* writes it back, and only then the entry goes.
TrackerLoad(i) ==
    /\ tracker[i] = "running" /\ i \notin browsers \cup astray
    /\ tracker' = [tracker EXCEPT ![i] = IF exists(path_for(i)) THEN "loaded" ELSE "none"]
    /\ UNCHANGED <<journal, disk, up, flow, launch, team, upd, mover, browsers, bounds>>

TrackerSave(i) ==
    /\ tracker[i] = "loaded"
    /\ recs' = recs \cup {path_for(i)}
    /\ tracker' = [tracker EXCEPT ![i] = "none"]
    /\ UNCHANGED <<journal, data, kept, ran, up, flow, launch, team, upd, mover, browsers, bounds>>

----------------------------------------------------------------------------
(* Team commands, the fingerprint migration and the move of the data root. *)

PushBegin ==
    /\ up /\ cmds < MaxCommands /\ ~NameClaimed /\ ClaimFree("orig")
    /\ team' = "claimed" /\ cmds' = cmds + 1
    /\ UNCHANGED <<journal, disk, up, flow, launch, upd, mover, tracker, browsers,
                   crashes, faults, hand>>

\* load_raw, user_data_dir, and a checkout.
PushCheckout ==
    /\ team = "claimed"
    /\ IF bound /\ exists("metadata_src") /\ ~in_flow
       THEN /\ lease' = TRUE /\ team' = "leased"
            /\ data' = [data EXCEPT !["data_src"] = IF @ = None THEN {} ELSE @]
       ELSE team' = "idle" /\ UNCHANGED <<lease, data>>
    /\ UNCHANGED <<phase, flows, bound, root, recs, kept, ran, up, flow, launch, upd, mover,
                   tracker, browsers, bounds>>

\* The push commits or releases, or fails and leaves its lease.
PushEnd ==
    /\ team = "leased"
    /\ team' = "idle" /\ lease' \in BOOLEAN
    /\ UNCHANGED <<phase, flows, bound, root, disk, up, flow, launch, upd, mover, tracker,
                   browsers, bounds>>

\* unbind_profile, offline: one transaction under the claim.
UnbindProfile ==
    /\ up /\ cmds < MaxCommands /\ ~Migrating /\ ~NameClaimed /\ ClaimFree("orig")
    /\ bound /\ ~lease /\ ~in_flow
    /\ bound' = FALSE /\ cmds' = cmds + 1
    /\ UNCHANGED <<phase, flows, lease, root, disk, up, flow, others, crashes, faults, hand>>

\* migrate_all_to rewrites the records it finds, without a claim but under the
\* FLOW mutex.
UpdateLoad ==
    /\ up /\ cmds < MaxCommands /\ FlowFree /\ exists("metadata_src")
    /\ upd' = "loaded" /\ cmds' = cmds + 1
    /\ UNCHANGED <<journal, disk, up, flow, launch, team, mover, tracker, browsers,
                   crashes, faults, hand>>

UpdateSave ==
    /\ upd = "loaded"
    /\ upd' = "idle" /\ recs' = recs \cup {"metadata_src"}
    /\ UNCHANGED <<journal, data, kept, ran, up, flow, launch, team, mover, tracker, browsers, bounds>>

\* A clone-retired directory, of any journal.
retired_clone == kept # {} \/ exists("retired_data") \/ exists("retired_metadata")

\* data_root_migrate asks the tracker, then migrate::guarded raises the flag,
\* tries the mutex and looks for journals and retired clones under it.
MoveBegin ==
    /\ up /\ mover = "idle" /\ cmds < MaxCommands /\ \A i \in Ids : tracker[i] = "none"
    /\ mover' = "flag" /\ cmds' = cmds + 1
    /\ UNCHANGED <<journal, disk, up, flow, launch, team, upd, tracker, browsers,
                   crashes, faults, hand>>

\* Fault: the journals are not looked for.
MoveLock_Blind ==
    /\ mover = "flag"
    /\ mover' = IF FlowFree THEN "work" ELSE "idle"
    /\ UNCHANGED <<journal, disk, up, flow, launch, team, upd, tracker, browsers, bounds>>

MoveLock ==
    /\ mover = "flag"
    /\ mover' = IF FlowFree /\ ~in_flow /\ ~retired_clone THEN "work" ELSE "idle"
    /\ UNCHANGED <<journal, disk, up, flow, launch, team, upd, tracker, browsers, bounds>>

\* do_run lists the files and copies them; an empty directory holds none.  Only
\* the launch of the UI asks in_progress, before it begins: one over the API or
\* of a window group may open the folder meanwhile, and an orphan may hold it.
MoveCopy ==
    /\ mover = "work"
    /\ mover' = "copied"
    /\ copy' \in {data["data_src"], IF data["data_src"] = {} THEN None ELSE data["data_src"]}
    /\ UNCHANGED <<phase, flows, bound, lease, moved, astray, beside, disk, up, flow, launch,
                   team, upd, tracker, browsers, bounds>>

\* The files it copied have their sizes; the root is switched (finish) and what
\* the old one held is removed.  Whoever took a folder of it before keeps that.
MoveEnd ==
    /\ mover = "copied"
    /\ mover' = "idle" /\ copy' = None
    /\ moved' \in {TRUE, ~moved}
    /\ data' = [data EXCEPT !["data_src"] = copy]
    /\ astray' = astray \cup browsers /\ browsers' = {}
    /\ launch' = [i \in Ids |-> IF launch[i] = "ready" THEN "astray" ELSE launch[i]]
    /\ UNCHANGED <<phase, flows, bound, lease, beside, recs, kept, ran, up, flow, team, upd,
                   tracker, bounds>>

\* An error on the way leaves the root where it was.
MoveFails ==
    /\ Moving
    /\ mover' = "idle" /\ copy' = None
    /\ UNCHANGED <<phase, flows, bound, lease, moved, astray, beside, disk, up, flow, launch,
                   team, upd, tracker, browsers, bounds>>

----------------------------------------------------------------------------
(* What goes wrong.                                                        *)

\* The launcher dies: claims, mutex, flag and tracker go with it, browsers stay.
Crash ==
    /\ up /\ crashes < MaxCrash
    /\ up' = FALSE /\ crashes' = crashes + 1
    /\ flow' = [flow EXCEPT !.pc = "idle"]
    /\ launch' = [i \in Ids |-> "idle"] /\ tracker' = [i \in Ids |-> "none"]
    /\ team' = "idle" /\ upd' = "idle" /\ mover' = "idle" /\ copy' = None
    /\ UNCHANGED <<phase, flows, bound, lease, moved, astray, beside, disk, browsers, cmds,
                   faults, hand>>

Start ==
    /\ ~up
    /\ up' = TRUE
    /\ UNCHANGED <<journal, disk, flow, others, bounds>>

\* A step fails (a full disk, a scanner that holds a file): the command returns,
\* and with it go the claim and the mutex.
StepFails ==
    /\ flow.pc # "idle" /\ faults < MaxFault
    /\ faults' = faults + 1
    /\ Err
    /\ UNCHANGED <<journal, disk, up, others, cmds, crashes, hand>>

\* Somebody makes user-data/<id> of the archived original.
MakeData ==
    /\ Open /\ hand = "no" /\ faults < MaxFault /\ ~exists("data_src")
    /\ data' = [data EXCEPT !["data_src"] = {}]
    /\ faults' = faults + 1 /\ hand' = "made"
    /\ UNCHANGED <<journal, recs, kept, ran, up, flow, others, cmds, crashes>>

\* Somebody removes the archived data while no command runs; "last" when a
\* clone in place is then the only copy.
LoseArchive ==
    /\ flow.pc = "idle" /\ hand = "no" /\ faults < MaxFault /\ exists("data_dst")
    /\ data' = [data EXCEPT !["data_dst"] = None]
    /\ faults' = faults + 1
    /\ hand' = IF exists("clone_data") THEN "last" ELSE "lost"
    /\ UNCHANGED <<journal, recs, kept, ran, up, flow, others, cmds, crashes>>

----------------------------------------------------------------------------

Init ==
    /\ phase = "NONE" /\ flows = 0 /\ bound = TRUE /\ lease = FALSE
    /\ moved = FALSE /\ copy = None /\ astray = {} /\ beside = {}
    /\ recs = {"metadata_src"}
    /\ data = [p \in DataPlaces |-> None]
    /\ kept = {} /\ ran = [i \in Ids |-> {}]
    /\ up = TRUE
    /\ flow = [pc |-> "idle", cmd |-> "run"]
    /\ launch = [i \in Ids |-> "idle"] /\ tracker = [i \in Ids |-> "none"]
    /\ team = "idle" /\ upd = "idle" /\ mover = "idle" /\ browsers = {}
    /\ cmds = 0 /\ crashes = 0 /\ faults = 0 /\ hand = "no"

Next ==
    \/ \E cmd \in {"start", "run", "rollback"} : Begin(cmd)
    \/ FlowStep
    \/ \E i \in Ids : \/ LaunchBegin(i) \/ LaunchPrepare(i) \/ LaunchSpawn(i)
                      \/ BrowserWork(i) \/ BrowserExit(i) \/ TrackerLoad(i) \/ TrackerSave(i)
    \/ PushBegin \/ PushCheckout \/ PushEnd \/ UnbindProfile
    \/ UpdateLoad \/ UpdateSave
    \/ MoveBegin \/ MoveLock \/ MoveCopy \/ MoveEnd \/ MoveFails
    \/ Crash \/ Start \/ StepFails \/ MakeData \/ LoseArchive

Spec == Init /\ [][Next]_vars

\* Threads run, a closed launcher is opened again, browsers are closed, and an
\* open journal is resumed (by every start, and by team_downgrade_resume).
Fairness ==
    /\ WF_vars(FlowStep) /\ WF_vars(Begin("run")) /\ WF_vars(Start)
    /\ \A i \in Ids : /\ WF_vars(LaunchPrepare(i)) /\ WF_vars(LaunchSpawn(i))
                      /\ WF_vars(BrowserExit(i))
                      /\ WF_vars(TrackerLoad(i)) /\ WF_vars(TrackerSave(i))
    /\ WF_vars(PushCheckout) /\ WF_vars(PushEnd) /\ WF_vars(UpdateSave)
    /\ WF_vars(MoveLock) /\ WF_vars(MoveCopy \/ MoveEnd)

FairSpec == Spec /\ Fairness

----------------------------------------------------------------------------
(* Properties.                                                             *)

PCs == {"idle", "begin", "locked", "create", "enter", "loop", "probed", "metadata", "moved",
        "archived", "copying", "copied", "record", "written", "mark", "settle", "check",
        "retire_record", "retire_data", "staging", "data_back", "record_back", "rolled_back"}

\* Types of the journal, the disk and the threads.
TypeOK ==
    /\ phase \in Phases /\ flows \in 0 .. MaxFlows
    /\ bound \in BOOLEAN /\ lease \in BOOLEAN /\ moved \in BOOLEAN /\ up \in BOOLEAN
    /\ copy \in {None} \cup SUBSET (1 .. MaxRuns)
    /\ astray \subseteq Ids /\ beside \subseteq 1 .. MaxRuns
    /\ recs \subseteq RecPlaces
    /\ data \in [DataPlaces -> {None, Half} \cup SUBSET (1 .. MaxRuns)]
    /\ kept \subseteq SUBSET (1 .. MaxRuns) /\ ran \in [Ids -> SUBSET (1 .. MaxRuns)]
    /\ flow \in [pc : PCs, cmd : {"start", "run", "rollback"}]
    /\ launch \in [Ids -> {"idle", "claimed", "ready", "astray"}]
    /\ team \in {"idle", "claimed", "leased"} /\ upd \in {"idle", "loaded"}
    /\ mover \in {"idle", "flag", "work", "copied"}
    /\ tracker \in [Ids -> {"none", "running", "loaded"}] /\ browsers \subseteq Ids
    /\ cmds \in 0 .. MaxCommands /\ crashes \in 0 .. MaxCrash /\ faults \in 0 .. MaxFault
    /\ hand \in {"no", "made", "lost", "last"}

Holds(p, s) == data[p] \notin {None, Half} /\ s \subseteq data[p]

\* The original's work, but for what was written beside a move of the data root:
\* a browser that do_run did not keep out may write after the copy, and loses
\* that with the old root.
Work == ran["orig"] \ beside

\* The original is never lost and never doubled: its record is in exactly one
\* place, and all its work that no move ran beside is whole in its folder, the
\* archive or the trial move, through downgrades and moves alike; where somebody
\* removed the archive, a clone that is the last copy stays where it is
\* (check_restorable, forces_rollback).  What was done in a clone is in place or
\* retired, never deleted (retire).
WorkSurvives ==
    /\ exists("metadata_src") # exists("metadata_dst")
    /\ hand \in {"no", "made"} /\ Work # {} =>
         \E p \in {"data_src", "data_dst", "probe"} :
           /\ Holds(p, Work)
           /\ hand = "no" => \A q \in {"data_src", "data_dst", "probe"} \ {p} : ~exists(q)
    /\ hand = "last" => Holds("clone_data", Work)
    /\ \A r \in ran["clone"] :
         r \in UNION kept \/ Holds("clone_data", {r}) \/ Holds("retired_data", {r})

\* What v0.1.28 finds at any moment, crashes included: never the original and
\* its clone at once, and a clone only with all of the original's work, but for
\* what somebody removed or a move left behind (write_clone: "so v0.1.28 never
\* lists a profile without data").
OneListed ==
    exists("clone_metadata") =>
        /\ ~exists("metadata_src") /\ exists("clone_data")
        /\ hand # "lost" => Holds("clone_data", Work)

\* No downgrade runs or is recorded while a move of the data root works, and no
\* clone is kept aside ("no downgrade flow runs meanwhile, and none is recorded,
\* as checked under that lock"); and no downgrade takes record or data from under
\* a browser on the original, also one that outlived its launcher.
FlowIsAlone ==
    /\ Moving => ~HasFlow /\ ~in_flow /\ ~retired_clone
    /\ "orig" \in browsers => exists("metadata_src") /\ exists("data_src")

\* A journal that was begun ends: the clone is complete or the original is back,
\* unless a hand in the folders left a state for a person to sort out.
FlowEnds == Open ~> (~Open \/ hand # "no")
=============================================================================
