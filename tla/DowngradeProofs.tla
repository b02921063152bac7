-------------------------- MODULE DowngradeProofs --------------------------
(***************************************************************************)
(* What Downgrade promises, for every value of its constants.              *)
(*                                                                         *)
(* The folders alone do not show why they are safe: the invariant ties     *)
(* them to the phase of the journal, to the place of the thread that       *)
(* drives it and to the claims the other threads hold.                     *)
(***************************************************************************)
EXTENDS Downgrade, TLAPS

----------------------------------------------------------------------------
(* The inductive invariant.                                                *)

Archived == {"ORIGINAL_USER_DATA_MOVED", "DISCOVERY_SCAN_PASSED", "CLONE_WRITTEN",
             "READBACK_PASSED", "COMPLETED"}
HasClone == {"DISCOVERY_SCAN_PASSED", "CLONE_WRITTEN", "READBACK_PASSED", "COMPLETED",
             "ROLLBACK_REQUIRED"}
BackPCs  == {"settle", "check", "retire_record", "retire_data", "staging", "data_back",
             "record_back", "rolled_back"}
Homes    == {"data_src", "data_dst", "probe"}

\* A directory is whole, but for the copy that is being made.
Whole == \A p \in DataPlaces \ {"clone_staging"} : data[p] # Half

Types == TypeOK /\ Whole

\* Who may be where at the same time.
LockInv ==
    /\ HasClaim => launch["orig"] = "idle" /\ tracker["orig"] = "none"
    /\ HasClaim /\ flow.pc # "create" =>
         launch["clone"] = "idle" /\ tracker["clone"] = "none"
    /\ upd = "loaded" => ~HasFlow /\ "metadata_src" \in recs
    /\ Moving => ~HasFlow /\ ~in_flow /\ ~retired_clone
    /\ "orig" \in browsers \/ launch["orig"] \in {"ready", "astray"} => ~in_flow
    /\ tracker["orig"] # "none" => ~in_flow
    /\ "orig" \in browsers \/ launch["orig"] = "ready" => data["data_src"] # None
    /\ launch["clone"] # "idle" \/ tracker["clone"] # "none" => "clone_metadata" \in recs
    /\ "clone" \in browsers => data["clone_data"] # None

\* What the thread of a command knows of the journal and of the folders.
PcInv ==
    /\ flow.pc # "idle" /\ (flow.cmd # "start" \/ flow.pc \notin {"begin", "locked", "create"})
         => Open
    /\ flow.cmd = "start" /\ flow.pc \in {"begin", "locked", "create"} => flows < MaxFlows
    /\ flow.pc \in {"probed", "metadata", "moved"} => phase = "CLAIMED"
    /\ flow.pc = "moved" => "metadata_dst" \in recs
    /\ flow.pc = "archived" => phase = "ORIGINAL_METADATA_MOVED"
    /\ flow.pc \in {"copying", "copied", "record", "written"} => phase = "DISCOVERY_SCAN_PASSED"
    /\ flow.pc \in {"copying", "copied"} => data["clone_data"] = None /\ data["data_dst"] # None
    /\ flow.pc \in {"record", "written"} => data["clone_data"] # None
    /\ flow.pc \in BackPCs => phase = "ROLLBACK_REQUIRED"
    /\ flow.pc \in {"retire_data", "staging", "data_back", "record_back", "rolled_back"}
         => "clone_metadata" \notin recs
    /\ flow.pc \in {"staging", "data_back", "record_back", "rolled_back"}
         => data["clone_data"] = None
    /\ flow.pc \in {"record_back", "rolled_back"} => data["data_dst"] = None
    /\ flow.pc = "rolled_back" => "metadata_src" \in recs
    /\ data["probe"] # None =>
         /\ phase \in {"CLAIMED", "ROLLBACK_REQUIRED"}
         /\ flow.pc \in {"idle", "begin", "locked", "create", "enter", "probed", "mark", "settle"}

\* Where the phase of the journal puts records and data.
PlaceInv ==
    /\ "metadata_src" \in recs <=> "metadata_dst" \notin recs
    /\ phase \in {"NONE", "CREATED", "ROLLED_BACK"} => "metadata_src" \in recs
    /\ phase \in {"NONE", "CREATED", "CLAIMED", "ROLLED_BACK"} => data["data_dst"] = None
    /\ phase \in {"ORIGINAL_METADATA_MOVED"} \cup Archived => "metadata_dst" \in recs
    /\ "clone_metadata" \in recs => data["clone_data"] # None
    /\ data["clone_data"] # None => phase \in HasClone /\ "metadata_dst" \in recs
    /\ data["retired_data"] # None =>
         phase \in {"ROLLBACK_REQUIRED", "ROLLED_BACK"} /\ data["clone_data"] = None

\* Which of them hold the original's work, and what is left when a hand took one.
OrigInv ==
    /\ hand = "no" => \A p, q \in Homes : data[p] # None /\ data[q] # None => p = q
    /\ hand \in {"no", "made"} /\ Work # {} => \E p \in Homes : Holds(p, Work)
    /\ hand \in {"no", "made"} /\ (phase \in Archived \/ flow.pc = "archived")
         => Holds("data_dst", Work)
    /\ hand # "lost" /\ flow.pc = "copied" => Holds("clone_staging", Work)
    /\ hand # "lost" /\ data["clone_data"] # None => Holds("clone_data", Work)
    /\ flow.pc = "copied" => data["clone_staging"] \notin {None, Half}
    /\ hand = "last" =>
         /\ data["clone_data"] # None /\ \A p \in Homes : data[p] = None
         /\ flow.pc \notin BackPCs \ {"settle", "check"}
    /\ mover = "copied" /\ hand \in {"no", "made"} /\ Work # {} => copy # None /\ Work \subseteq copy

\* ... and the clones' work.
CloneInv ==
    /\ "clone" \notin astray /\ launch["clone"] # "astray"
    /\ \A r \in ran["clone"] :
         r \in UNION kept \/ Holds("clone_data", {r}) \/ Holds("retired_data", {r})

IInv == Types /\ LockInv /\ PcInv /\ PlaceInv /\ OrigInv /\ CloneInv

LEMMA ChainIs ==
    /\ Chain[1] = "CREATED" /\ Chain[2] = "CLAIMED"
    /\ Chain[3] = "ORIGINAL_METADATA_MOVED" /\ Chain[4] = "ORIGINAL_USER_DATA_MOVED"
    /\ Chain[5] = "DISCOVERY_SCAN_PASSED" /\ Chain[6] = "CLONE_WRITTEN"
    /\ Chain[7] = "READBACK_PASSED" /\ Chain[8] = "COMPLETED"
  BY DEF Chain

\* Every step keeps the types, and no directory but the copy being made is half.
LEMMA NextTypes == IInv /\ [Next]_vars => Types'
  <1> SUFFICES ASSUME Types, LockInv, PcInv, PlaceInv, OrigInv, CloneInv, [Next]_vars
               PROVE  Types'
      BY DEF IInv
  <1> USE BoundsAssumption DEF root, Moving, Work, Ids, Phases, RecPlaces, DataPlaces, PCs, TypeOK, Whole,
          Types
  <1>1. CASE UNCHANGED vars
        BY <1>1 DEF vars, disk, journal, others, bounds
  <1>2. ASSUME NEW cmd \in {"start", "run", "rollback"}, Begin(cmd) PROVE Types'
        BY <1>2 DEF disk, journal, others, Settled, Open, Migrating, Begin
  <1>3. CASE TakeFlow
        BY <1>3 DEF journal, others, bounds, HasFlow, FlowFree, Goto, Step, Look,
              TakeFlow
  <1>4. CASE TakeClaim
        BY <1>4 DEF disk, journal, others, bounds, HasClaim, Claimed, NameClaimed,
              ClaimFree, Goto, Err, Fail, Step, Look, TakeClaim
  <1>5. CASE Create
    <2>1. CASE Fail
          BY <2>1 DEF Fail, Err, Goto, journal, disk, others, bounds
    <2>2. CASE ~Fail
      <3>1. /\ phase' = "CREATED" /\ flows' = flows + 1 /\ recs' = {"metadata_src"}
            /\ flow' = [flow EXCEPT !.pc = "enter"]
            /\ UNCHANGED <<bound, lease, root, ran, up, others, bounds>>
            BY <1>5, <2>2 DEF Create, Goto
      <3>2. data' = [p \in DataPlaces |-> IF p = "data_src" THEN data[p] ELSE None]
            BY <1>5, <2>2 DEF Create
      <3>3. kept' \subseteq kept \cup ({data["retired_data"]} \ {None})
            BY <1>5, <2>2 DEF Create, exists
      <3>4. data["retired_data"] \in {None} \cup SUBSET (1 .. MaxRuns)
            OBVIOUS
      <3>5. kept' \subseteq SUBSET (1 .. MaxRuns)
            BY <3>3, <3>4
      <3>6. flow.cmd = "start" => flows + 1 \in 0 .. MaxFlows
            BY <1>5 DEF Create, PcInv
      <3>7. flow.cmd = "start"
            BY <1>5, <2>2 DEF Create, PcInv, Open, in_flow, Settled
      <3>8. data' \in [DataPlaces -> {None, Half} \cup SUBSET (1 .. MaxRuns)] /\ Whole'
            BY <3>2
      <3>9. flow' \in [pc : PCs, cmd : {"start", "run", "rollback"}]
            BY <3>1
      <3>10. flows' \in 0 .. MaxFlows /\ phase' \in Phases /\ recs' \subseteq RecPlaces
            BY <3>1, <3>6, <3>7, ChainIs
      <3> QED
          BY <3>1, <3>5, <3>8, <3>9, <3>10 DEF others, bounds
    <2> QED BY <2>1, <2>2
  <1>6. CASE Enter
        BY <1>6 DEF disk, journal, others, bounds, exists, move_new, Goto, Err, Fail,
              Step, Look, SettleProbe, Enter
  <1>7. CASE DriveCreated
        BY <1>7, ChainIs DEF disk, journal, others, bounds, Goto, Err, Fail,
              AdvanceTo, binding_facts, At, DriveCreated
  <1>8. CASE ProbeOut
        BY <1>8 DEF disk, journal, others, bounds, exists, move_new, Goto, Err, Fail,
              Step, Look, At, ProbeOut
  <1>9. CASE ProbeBack
        BY <1>9 DEF disk, journal, others, bounds, exists, move_new, Goto, Err,
              ForceRollback, Step, ProbeBack
  <1>10. CASE MoveMetadata
        BY <1>10 DEF disk, journal, others, bounds, exists, move_record, Goto, Err,
              ForceRollback, Step, MoveMetadata
  <1>11. CASE DriveClaimed
        BY <1>11, ChainIs DEF disk, others, bounds, Goto, AdvanceTo, DriveClaimed
  <1>12. CASE MoveData
        BY <1>12 DEF disk, journal, others, bounds, exists, move_new, Goto, Err,
              ForceRollback, Fail, Step, At, MoveData
  <1>13. CASE DriveMetadataMoved
        BY <1>13, ChainIs DEF disk, others, bounds, Goto, AdvanceTo,
              DriveMetadataMoved
  <1>14. CASE DriveUserDataMoved
        BY <1>14, ChainIs DEF disk, others, bounds, exists, Goto, Err, ForceRollback,
              AdvanceTo, At, mentions_original, DriveUserDataMoved
  <1>15. CASE CopyClone
        BY <1>15 DEF disk, journal, others, bounds, exists, Goto, Err, ForceRollback,
              Fail, Step, Look, binding_facts, At, CopyClone
  <1>16. CASE FinishCopy
        BY <1>16 DEF journal, others, bounds, Goto, Step, FinishCopy
  <1>17. CASE PlaceClone
        BY <1>17 DEF journal, others, bounds, Settled, Open, move_new, Goto, Step,
              PlaceClone, Holds, Archived, BackPCs, Homes, PcInv, OrigInv
  <1>18. CASE WriteRecord
        BY <1>18 DEF journal, others, bounds, Goto, Step, WriteRecord
  <1>19. CASE DriveScanPassed
        BY <1>19, ChainIs DEF disk, others, bounds, Goto, AdvanceTo, DriveScanPassed
  <1>20. CASE DriveCloneWritten
        BY <1>20, ChainIs DEF disk, journal, others, bounds, exists, Goto, Err,
              ForceRollback, Fail, AdvanceTo, binding_facts, At, mentions_original,
              DriveCloneWritten
  <1>21. CASE DriveReadbackPassed
        BY <1>21, ChainIs DEF disk, others, bounds, Goto, AdvanceTo, At,
              DriveReadbackPassed
  <1>22. CASE DriveRollback
        BY <1>22 DEF journal, others, bounds, Goto, Step, Look, At, DriveRollback
  <1>23. CASE MarkRollback
        BY <1>23 DEF disk, others, bounds, Goto, MarkRollback
  <1>24. CASE SettleRollback
        BY <1>24 DEF disk, journal, others, bounds, exists, move_new, Goto, Err, Fail,
              Step, Look, SettleProbe, SettleRollback
  <1>25. CASE CheckRestorable
        BY <1>25 DEF disk, journal, others, bounds, exists, Goto, Err, Fail, Step,
              Look, restorable, CheckRestorable
  <1>26. CASE RetireRecord
        BY <1>26 DEF journal, others, bounds, exists, move_record, Goto, Step,
              RetireRecord
  <1>27. CASE RetireData
        BY <1>27 DEF disk, journal, others, bounds, exists, move_new, Goto, Err, Fail,
              Step, Look, RetireData
  <1>28. CASE RemoveStaging
        BY <1>28 DEF journal, others, bounds, exists, Goto, Step, RemoveStaging
  <1>29. CASE DataBack
        BY <1>29 DEF disk, journal, others, bounds, exists, move_new, Goto, Err, Fail,
              Step, Look, DataBack
  <1>30. CASE RecordBack
        BY <1>30 DEF disk, journal, others, bounds, exists, move_record, Goto, Err,
              Fail, Step, Look, RecordBack
  <1>31. CASE RolledBack
        BY <1>31 DEF disk, others, bounds, Goto, Err, RolledBack
  <1>32. ASSUME NEW i \in Ids, LaunchBegin(i) PROVE Types'
        BY <1>32 DEF disk, journal, exists, HasClaim, Claimed, ClaimFree, LaunchBegin
  <1>33. ASSUME NEW i \in Ids, LaunchPrepare(i) PROVE Types'
        BY <1>33 DEF journal, bounds, path_for, udd, exists, in_flow, LaunchPrepare
  <1>34. ASSUME NEW i \in Ids, LaunchSpawn(i) PROVE Types'
    <2>1. /\ launch' \in [Ids -> {"idle", "claimed", "ready", "astray"}]
          /\ tracker' \in [Ids -> {"none", "running", "loaded"}] /\ browsers' \subseteq Ids
          /\ astray' \subseteq Ids
          BY <1>34, ZenonT(60) DEF LaunchSpawn
    <2>2. UNCHANGED <<phase, flows, bound, lease, moved, copy, beside, disk, up, flow, team,
                      upd, mover, bounds>>
          BY <1>34 DEF LaunchSpawn
    <2> QED BY <2>1, <2>2 DEF journal, disk, bounds
  <1>35. ASSUME NEW i \in Ids, BrowserWork(i) PROVE Types'
    <2>1. PICK r \in 1 .. MaxRuns :
             /\ ran' = [ran EXCEPT ![i] = @ \cup {r}] /\ beside' \subseteq beside \cup {r}
             /\ \/ i \in browsers /\ data' = [data EXCEPT ![udd(i)] = @ \cup {r}]
                \/ UNCHANGED data
          BY <1>35, ZenonT(60) DEF BrowserWork
    <2>2. i \in browsers => data[udd(i)] \in SUBSET (1 .. MaxRuns)
          BY DEF udd, LockInv
    <2>3. /\ ran' \in [Ids -> SUBSET (1 .. MaxRuns)] /\ beside' \subseteq 1 .. MaxRuns
          /\ data' \in [DataPlaces -> {None, Half} \cup SUBSET (1 .. MaxRuns)] /\ Whole'
          BY <2>1, <2>2 DEF udd
    <2>4. UNCHANGED <<phase, flows, bound, lease, moved, copy, astray, recs, kept, up, flow,
                      others, bounds>>
          BY <1>35 DEF BrowserWork
    <2> QED BY <2>3, <2>4 DEF others, bounds
  <1>36. ASSUME NEW i \in Ids, BrowserExit(i) PROVE Types'
    <2>1. browsers' \subseteq Ids /\ astray' \subseteq Ids
          BY <1>36, Zenon DEF BrowserExit
    <2>2. UNCHANGED <<phase, flows, bound, lease, moved, copy, beside, disk, up, flow, launch,
                      team, upd, mover, tracker, bounds>>
          BY <1>36 DEF BrowserExit
    <2> QED BY <2>1, <2>2 DEF disk, bounds
  <1>37. ASSUME NEW i \in Ids, TrackerLoad(i) PROVE Types'
        BY <1>37 DEF disk, journal, bounds, path_for, exists, TrackerLoad
  <1>38. ASSUME NEW i \in Ids, TrackerSave(i) PROVE Types'
        BY <1>38 DEF journal, bounds, path_for, TrackerSave
  <1>39. CASE PushBegin
        BY <1>39 DEF disk, journal, HasClaim, Claimed, NameClaimed, ClaimFree,
              PushBegin
  <1>40. CASE PushCheckout
    <2>1. lease' \in BOOLEAN /\ team' \in {"idle", "claimed", "leased"}
          BY <1>40 DEF PushCheckout
    <2>2. data' \in [DataPlaces -> {None, Half} \cup SUBSET (1 .. MaxRuns)] /\ Whole'
      <3>1. data' = data \/ data' = [data EXCEPT !["data_src"] = IF @ = None THEN {} ELSE @]
            BY <1>40 DEF PushCheckout
      <3> QED BY <3>1
    <2>3. UNCHANGED <<phase, flows, bound, root, recs, kept, ran, up, flow, launch, upd,
                      mover, tracker, browsers, bounds>>
          BY <1>40 DEF PushCheckout
    <2> QED BY <2>1, <2>2, <2>3 DEF bounds
  <1>41. CASE PushEnd
        BY <1>41 DEF disk, bounds, PushEnd
  <1>42. CASE UnbindProfile
    <2>1. bound' \in BOOLEAN
          BY <1>42 DEF UnbindProfile
    <2>2. cmds' \in 0 .. MaxCommands
          BY <1>42 DEF UnbindProfile
    <2>3. UNCHANGED <<phase, flows, lease, root, disk, up, flow, others, crashes, faults, hand>>
          BY <1>42 DEF UnbindProfile
    <2> QED BY <2>1, <2>2, <2>3 DEF disk, others
  <1>43. CASE UpdateLoad
        BY <1>43 DEF disk, journal, exists, HasFlow, FlowFree, UpdateLoad
  <1>44. CASE UpdateSave
        BY <1>44 DEF journal, bounds, UpdateSave
  <1>45. CASE MoveBegin
        BY <1>45 DEF disk, journal, MoveBegin
  <1>46. CASE MoveLock
        BY <1>46 DEF disk, journal, bounds, exists, in_flow, HasFlow, FlowFree,
              retired_clone, MoveLock
  <1>47. CASE MoveEnd
    <2>1. moved' \in BOOLEAN
          BY <1>47 DEF MoveEnd
    <2>2. data' \in [DataPlaces -> {None, Half} \cup SUBSET (1 .. MaxRuns)] /\ Whole'
          BY <1>47 DEF MoveEnd
    <2>3. /\ mover' = "idle" /\ copy' = None /\ browsers' = {} /\ astray' \subseteq Ids
          /\ launch' \in [Ids -> {"idle", "claimed", "ready", "astray"}]
          /\ UNCHANGED <<phase, flows, bound, lease, beside, recs, kept, ran, up, flow, team,
                         upd, tracker, bounds>>
          BY <1>47 DEF MoveEnd
    <2> QED BY <2>1, <2>2, <2>3 DEF bounds
  <1>48. CASE Crash
    <2>1. up' \in BOOLEAN
          BY <1>48 DEF Crash
    <2>2. /\ crashes' \in 0 .. MaxCrash
          /\ flow' \in [pc : PCs, cmd : {"start", "run", "rollback"}]
          BY <1>48 DEF Crash
    <2>3. /\ launch' = [i \in Ids |-> "idle"] /\ tracker' = [i \in Ids |-> "none"]
          /\ team' = "idle" /\ upd' = "idle" /\ mover' = "idle" /\ copy' = None
          /\ UNCHANGED <<phase, flows, bound, lease, moved, astray, beside, disk, browsers,
                         cmds, faults, hand>>
          BY <1>48 DEF Crash
    <2> QED BY <2>1, <2>2, <2>3 DEF journal, disk
  <1>49. CASE Start
        BY <1>49 DEF disk, journal, others, bounds, Start
  <1>50. CASE StepFails
        BY <1>50 DEF disk, journal, others, Goto, Err, StepFails
  <1>51. CASE MakeData
        BY <1>51 DEF journal, others, Settled, exists, Open, MakeData
  <1>52. CASE LoseArchive
        BY <1>52 DEF journal, others, exists, LoseArchive
  <1>53. CASE MoveCopy \/ MoveFails
    <2>1. mover' \in {"copied", "idle"} /\ copy' \in {None, data["data_src"]}
          BY <1>53 DEF MoveCopy, MoveFails
    <2>2. copy' \in {None} \cup SUBSET (1 .. MaxRuns)
          BY <2>1
    <2>3. UNCHANGED <<phase, flows, bound, lease, moved, astray, beside, disk, up, flow, launch,
                      team, upd, tracker, browsers, bounds>>
          BY <1>53, Zenon DEF MoveCopy, MoveFails
    <2> QED BY <2>1, <2>2, <2>3 DEF disk, bounds
  <1> HIDE DEF root, Moving, Work, Ids, Phases, RecPlaces, DataPlaces, PCs, TypeOK, Whole, Types
  <1> QED
      BY <1>1, <1>2, <1>3, <1>4, <1>5, <1>6, <1>7, <1>8, <1>9, <1>10, <1>11, <1>12,
         <1>13, <1>14, <1>15, <1>16, <1>17, <1>18, <1>19, <1>20, <1>21, <1>22, <1>23,
         <1>24, <1>25, <1>26, <1>27, <1>28, <1>29, <1>30, <1>31, <1>32, <1>33, <1>34,
         <1>35, <1>36, <1>37, <1>38, <1>39, <1>40, <1>41, <1>42, <1>43, <1>44, <1>45,
         <1>46, <1>47, <1>48, <1>49, <1>50, <1>51, <1>52,
         <1>53 DEF Next, FlowStep

\* Claims, the mutex and the refusals keep the threads apart.
LEMMA NextLockInv == IInv /\ [Next]_vars => LockInv'
  <1> SUFFICES ASSUME Types, LockInv, PcInv, PlaceInv, OrigInv, CloneInv, [Next]_vars
               PROVE  LockInv'
      BY DEF IInv
  <1> USE BoundsAssumption DEF root, Moving, Work, Ids, Phases, RecPlaces, DataPlaces, exists, in_flow,
          HasFlow, HasClaim, retired_clone, PCs, TypeOK, Whole, Types, LockInv
  <1>1. ASSUME UNCHANGED <<flow, launch, tracker, upd, mover, phase, recs, data, kept, browsers>>
        PROVE  LockInv'
        BY <1>1
  <1>2. CASE UNCHANGED vars
        BY <1>1, <1>2 DEF vars, disk, journal, others, bounds
  <1>3. CASE UnbindProfile \/ Start
        BY <1>1, <1>3 DEF disk, journal, others, bounds, UnbindProfile, Start
  <1>4. ASSUME NEW cmd \in {"start", "run", "rollback"}, Begin(cmd) PROVE LockInv'
        BY <1>4 DEF disk, journal, others, Settled, Open, Migrating, Begin
  <1>5. CASE TakeFlow
        BY <1>5 DEF journal, others, bounds, FlowFree, Goto, Step, Look, TakeFlow
  <1>6. CASE TakeClaim
        BY <1>6 DEF disk, journal, others, bounds, Claimed, NameClaimed, ClaimFree,
              Goto, Err, Fail, Step, Look, TakeClaim
  <1>7. CASE Create
        BY <1>7 DEF disk, journal, others, bounds, Goto, Err, Fail, binding_facts,
              Create, Archived, HasClone, PlaceInv
  <1>8. CASE Enter
        BY <1>8 DEF disk, journal, others, bounds, move_new, Goto, Err, Fail, Step,
              Look, SettleProbe, Enter
  <1>9. CASE DriveCreated
        BY <1>9, ChainIs DEF disk, journal, others, bounds, Goto, Err, Fail,
              AdvanceTo, binding_facts, At, DriveCreated
  <1>10. CASE ProbeOut
        BY <1>10 DEF disk, journal, others, bounds, move_new, Goto, Err, Fail, Step,
              Look, At, ProbeOut
  <1>11. CASE ProbeBack
        BY <1>11 DEF disk, journal, others, bounds, Settled, Open, move_new, Goto,
              Err, ForceRollback, Step, ProbeBack, BackPCs, PcInv
  <1>12. CASE MoveMetadata
        BY <1>12 DEF disk, journal, others, bounds, Settled, Open, move_record, Goto,
              Err, ForceRollback, Step, MoveMetadata, BackPCs, PcInv
  <1>13. CASE DriveClaimed
        BY <1>13, ChainIs DEF disk, others, bounds, Goto, AdvanceTo, DriveClaimed
  <1>14. CASE MoveData
        BY <1>14 DEF disk, journal, others, bounds, move_new, Goto, Err,
              ForceRollback, Fail, Step, At, MoveData
  <1>15. CASE DriveMetadataMoved
        BY <1>15, ChainIs DEF disk, others, bounds, Goto, AdvanceTo,
              DriveMetadataMoved
  <1>16. CASE DriveUserDataMoved
        BY <1>16, ChainIs DEF disk, others, bounds, Goto, Err, ForceRollback,
              AdvanceTo, At, mentions_original, DriveUserDataMoved
  <1>17. CASE CopyClone
        BY <1>17 DEF disk, journal, others, bounds, Goto, Err, ForceRollback, Fail,
              Step, Look, binding_facts, At, CopyClone
  <1>18. CASE FinishCopy
        BY <1>18 DEF journal, others, bounds, Goto, Step, FinishCopy
  <1>19. CASE PlaceClone
        BY <1>19 DEF journal, others, bounds, Settled, Open, move_new, Goto, Step,
              PlaceClone, BackPCs, PcInv
  <1>20. CASE WriteRecord
        BY <1>20 DEF journal, others, bounds, Goto, Step, WriteRecord
  <1>21. CASE DriveScanPassed
        BY <1>21, ChainIs DEF disk, others, bounds, Goto, AdvanceTo, DriveScanPassed
  <1>22. CASE DriveCloneWritten
        BY <1>22, ChainIs DEF disk, journal, others, bounds, Goto, Err, ForceRollback,
              Fail, AdvanceTo, binding_facts, At, mentions_original, DriveCloneWritten
  <1>23. CASE DriveReadbackPassed
        BY <1>23, ChainIs DEF disk, others, bounds, Goto, AdvanceTo, At,
              DriveReadbackPassed
  <1>24. CASE DriveRollback
        BY <1>24 DEF journal, others, bounds, Goto, Step, Look, At, DriveRollback
  <1>25. CASE MarkRollback
        BY <1>25 DEF disk, others, bounds, Settled, Open, Goto, MarkRollback, BackPCs,
              PcInv
  <1>26. CASE SettleRollback
        BY <1>26 DEF disk, journal, others, bounds, move_new, Goto, Err, Fail, Step,
              Look, SettleProbe, SettleRollback
  <1>27. CASE CheckRestorable
        BY <1>27 DEF disk, journal, others, bounds, Goto, Err, Fail, Step, Look,
              restorable, CheckRestorable
  <1>28. CASE RetireRecord
        BY <1>28 DEF journal, others, bounds, move_record, Goto, Step, RetireRecord
  <1>29. CASE RetireData
        BY <1>29 DEF disk, journal, others, bounds, move_new, Goto, Err, Fail, Step,
              Look, RetireData
  <1>30. CASE RemoveStaging
        BY <1>30 DEF journal, others, bounds, Goto, Step, RemoveStaging
  <1>31. CASE DataBack
        BY <1>31 DEF disk, journal, others, bounds, move_new, Goto, Err, Fail, Step,
              Look, DataBack
  <1>32. CASE RecordBack
        BY <1>32 DEF disk, journal, others, bounds, move_record, Goto, Err, Fail,
              Step, Look, RecordBack
  <1>33. CASE RolledBack
        BY <1>33 DEF disk, others, bounds, Goto, Err, RolledBack
  <1>34. ASSUME NEW i \in Ids, LaunchBegin(i) PROVE LockInv'
        BY <1>34 DEF disk, journal, Claimed, ClaimFree, LaunchBegin
  <1>35. ASSUME NEW i \in Ids, LaunchPrepare(i) PROVE LockInv'
        BY <1>35 DEF journal, bounds, path_for, udd, LaunchPrepare
  <1>36. ASSUME NEW i \in Ids, LaunchSpawn(i) PROVE LockInv'
        BY <1>36 DEF disk, journal, bounds, LaunchSpawn, Archived, HasClone, PlaceInv
  <1>37. ASSUME NEW i \in Ids, BrowserWork(i) PROVE LockInv'
        BY <1>37 DEF journal, others, bounds, udd, BrowserWork
  <1>38. ASSUME NEW i \in Ids, BrowserExit(i) PROVE LockInv'
        BY <1>38 DEF disk, journal, bounds, BrowserExit
  <1>39. ASSUME NEW i \in Ids, TrackerLoad(i) PROVE LockInv'
        BY <1>39 DEF disk, journal, bounds, path_for, TrackerLoad
  <1>40. ASSUME NEW i \in Ids, TrackerSave(i) PROVE LockInv'
        BY <1>40 DEF journal, bounds, path_for, TrackerSave
  <1>41. CASE PushBegin
        BY <1>41 DEF disk, journal, Claimed, NameClaimed, ClaimFree, PushBegin
  <1>42. CASE PushCheckout
        BY <1>42 DEF bounds, PushCheckout
  <1>43. CASE PushEnd
        BY <1>43 DEF disk, bounds, PushEnd
  <1>44. CASE UpdateLoad
        BY <1>44 DEF disk, journal, FlowFree, UpdateLoad
  <1>45. CASE UpdateSave
        BY <1>45 DEF journal, bounds, UpdateSave
  <1>46. CASE MoveBegin
        BY <1>46 DEF disk, journal, MoveBegin
  <1>47. CASE MoveLock
        BY <1>47 DEF disk, journal, bounds, FlowFree, MoveLock
  <1>48. CASE MoveEnd
        BY <1>48 DEF bounds, MoveEnd, PlaceInv, HasClone
  <1>49. CASE Crash
        BY <1>49 DEF disk, journal, Crash
  <1>50. CASE StepFails
        BY <1>50 DEF disk, journal, others, Goto, Err, StepFails
  <1>51. CASE MakeData
        BY <1>51 DEF journal, others, Settled, Open, MakeData
  <1>52. CASE LoseArchive
        BY <1>52 DEF journal, others, LoseArchive
  <1>53. CASE MoveCopy \/ MoveFails
        BY <1>53 DEF disk, bounds, MoveCopy, MoveFails
  <1> HIDE DEF root, Moving, Work, Ids, Phases, RecPlaces, DataPlaces, exists, in_flow, HasFlow, HasClaim,
          retired_clone, PCs, TypeOK, Whole, Types, LockInv
  <1> QED
      BY <1>1, <1>2, <1>3, <1>4, <1>5, <1>6, <1>7, <1>8, <1>9, <1>10, <1>11, <1>12,
         <1>13, <1>14, <1>15, <1>16, <1>17, <1>18, <1>19, <1>20, <1>21, <1>22, <1>23,
         <1>24, <1>25, <1>26, <1>27, <1>28, <1>29, <1>30, <1>31, <1>32, <1>33, <1>34,
         <1>35, <1>36, <1>37, <1>38, <1>39, <1>40, <1>41, <1>42, <1>43, <1>44, <1>45,
         <1>46, <1>47, <1>48, <1>49, <1>50, <1>51, <1>52,
         <1>53 DEF Next, FlowStep

\* The thread of a command finds the journal and the folders as it left them.
LEMMA NextPcInv == IInv /\ [Next]_vars => PcInv'
  <1> SUFFICES ASSUME Types, LockInv, PcInv, PlaceInv, OrigInv, CloneInv, [Next]_vars
               PROVE  PcInv'
      BY DEF IInv
  <1> USE BoundsAssumption DEF root, Moving, Work, Ids, Settled, Phases, RecPlaces, DataPlaces, Open, PCs,
          TypeOK, BackPCs, Whole, Types, PcInv
  <1>1. ASSUME UNCHANGED <<flow, phase, flows, recs, data>>
        PROVE  PcInv'
        BY <1>1
  <1>2. CASE UNCHANGED vars
        BY <1>1, <1>2 DEF vars, disk, journal, others, bounds
  <1>3. CASE (\E i \in Ids : LaunchBegin(i) \/ LaunchSpawn(i) \/ BrowserExit(i) \/
             TrackerLoad(i)) \/ PushBegin \/ PushEnd \/ UnbindProfile \/ UpdateLoad \/
             MoveBegin \/ MoveLock \/ MoveCopy \/ MoveFails \/ Start
        BY <1>1, <1>3 DEF disk, journal, others, bounds, LaunchBegin, LaunchSpawn,
              BrowserExit, TrackerLoad, PushBegin, PushEnd, UnbindProfile, UpdateLoad,
              MoveBegin, MoveLock, MoveCopy, MoveFails, Start
  <1>4. ASSUME NEW cmd \in {"start", "run", "rollback"}, Begin(cmd) PROVE PcInv'
        BY <1>4 DEF disk, journal, others, Migrating, Begin
  <1>5. CASE TakeFlow
        BY <1>5 DEF journal, others, bounds, HasFlow, FlowFree, Goto, Step, Look,
              TakeFlow
  <1>6. CASE TakeClaim
        BY <1>6 DEF disk, journal, others, bounds, HasClaim, Claimed, NameClaimed,
              ClaimFree, Goto, Err, Fail, Step, Look, TakeClaim
  <1>7. CASE Create
        BY <1>7 DEF disk, journal, others, bounds, exists, in_flow, Goto, Err, Fail,
              binding_facts, Create
  <1>8. CASE Enter
        BY <1>8 DEF disk, journal, others, bounds, exists, move_new, Goto, Err, Fail,
              Step, Look, SettleProbe, Enter
  <1>9. CASE DriveCreated
        BY <1>9, ChainIs DEF disk, journal, others, bounds, Goto, Err, Fail,
              AdvanceTo, binding_facts, At, DriveCreated
  <1>10. CASE ProbeOut
        BY <1>10 DEF disk, journal, others, bounds, exists, move_new, Goto, Err, Fail,
              Step, Look, At, ProbeOut
  <1>11. CASE ProbeBack
        BY <1>11 DEF disk, journal, others, bounds, exists, move_new, Goto, Err,
              ForceRollback, Step, ProbeBack
  <1>12. CASE MoveMetadata
        BY <1>12 DEF disk, journal, others, bounds, exists, move_record, Goto, Err,
              ForceRollback, Step, MoveMetadata
  <1>13. CASE DriveClaimed
        BY <1>13, ChainIs DEF disk, others, bounds, Goto, AdvanceTo, DriveClaimed
  <1>14. CASE MoveData
        BY <1>14 DEF disk, journal, others, bounds, exists, move_new, Goto, Err,
              ForceRollback, Fail, Step, At, MoveData
  <1>15. CASE DriveMetadataMoved
        BY <1>15, ChainIs DEF disk, others, bounds, Goto, AdvanceTo,
              DriveMetadataMoved
  <1>16. CASE DriveUserDataMoved
        BY <1>16, ChainIs DEF disk, others, bounds, exists, Goto, Err, ForceRollback,
              AdvanceTo, At, mentions_original, DriveUserDataMoved
  <1>17. CASE CopyClone
        BY <1>17 DEF disk, journal, others, bounds, exists, Goto, Err, ForceRollback,
              Fail, Step, Look, binding_facts, At, CopyClone
  <1>18. CASE FinishCopy
        BY <1>18 DEF journal, others, bounds, Goto, Step, FinishCopy
  <1>19. CASE PlaceClone
        BY <1>19 DEF journal, others, bounds, move_new, Goto, Step, PlaceClone, Holds,
              Archived, Homes, OrigInv
  <1>20. CASE WriteRecord
        BY <1>20 DEF journal, others, bounds, Goto, Step, WriteRecord
  <1>21. CASE DriveScanPassed
        BY <1>21, ChainIs DEF disk, others, bounds, Goto, AdvanceTo, DriveScanPassed
  <1>22. CASE DriveCloneWritten
        BY <1>22, ChainIs DEF disk, journal, others, bounds, exists, Goto, Err,
              ForceRollback, Fail, AdvanceTo, binding_facts, At, mentions_original,
              DriveCloneWritten
  <1>23. CASE DriveReadbackPassed
        BY <1>23, ChainIs DEF disk, others, bounds, Goto, AdvanceTo, At,
              DriveReadbackPassed
  <1>24. CASE DriveRollback
        BY <1>24 DEF journal, others, bounds, Goto, Step, Look, At, DriveRollback
  <1>25. CASE MarkRollback
        BY <1>25 DEF disk, others, bounds, Goto, MarkRollback
  <1>26. CASE SettleRollback
        BY <1>26 DEF disk, journal, others, bounds, exists, move_new, Goto, Err, Fail,
              Step, Look, SettleProbe, SettleRollback
  <1>27. CASE CheckRestorable
        BY <1>27 DEF disk, journal, others, bounds, exists, Goto, Err, Fail, Step,
              Look, restorable, CheckRestorable
  <1>28. CASE RetireRecord
        BY <1>28 DEF journal, others, bounds, exists, move_record, Goto, Step,
              RetireRecord
  <1>29. CASE RetireData
        BY <1>29 DEF disk, journal, others, bounds, exists, move_new, Goto, Err, Fail,
              Step, Look, RetireData
  <1>30. CASE RemoveStaging
        BY <1>30 DEF journal, others, bounds, exists, Goto, Step, RemoveStaging
  <1>31. CASE DataBack
        BY <1>31 DEF disk, journal, others, bounds, exists, move_new, Goto, Err, Fail,
              Step, Look, DataBack
  <1>32. CASE RecordBack
        BY <1>32 DEF disk, journal, others, bounds, exists, move_record, Goto, Err,
              Fail, Step, Look, RecordBack, Archived, HasClone, PlaceInv
  <1>33. CASE RolledBack
        BY <1>33 DEF disk, others, bounds, Goto, Err, RolledBack
  <1>34. ASSUME NEW i \in Ids, LaunchPrepare(i) PROVE PcInv'
        BY <1>34 DEF journal, bounds, path_for, udd, exists, in_flow, HasFlow,
              HasClaim, LaunchPrepare, retired_clone, LockInv
  <1>35. ASSUME NEW i \in Ids, BrowserWork(i) PROVE PcInv'
        BY <1>35 DEF journal, others, bounds, udd, exists, in_flow, HasFlow, HasClaim,
              BrowserWork, retired_clone, LockInv
  <1>36. ASSUME NEW i \in Ids, TrackerSave(i) PROVE PcInv'
        BY <1>36 DEF journal, bounds, path_for, exists, in_flow, HasFlow, HasClaim,
              TrackerSave, retired_clone, LockInv
  <1>37. CASE PushCheckout
        BY <1>37 DEF bounds, exists, in_flow, PushCheckout
  <1>38. CASE UpdateSave
        BY <1>38 DEF journal, bounds, UpdateSave
  <1>39. CASE Crash
        BY <1>39 DEF disk, journal, Crash
  <1>40. CASE StepFails
        BY <1>40 DEF disk, journal, others, Goto, Err, StepFails
  <1>41. CASE MakeData
        BY <1>41 DEF journal, others, exists, MakeData
  <1>42. CASE LoseArchive
        BY <1>42 DEF journal, others, exists, LoseArchive
  <1>43. CASE MoveEnd
        BY <1>43 DEF bounds, HasFlow, in_flow, MoveEnd, LockInv
  <1> HIDE DEF root, Moving, Work, Ids, Settled, Phases, RecPlaces, DataPlaces, Open, PCs, TypeOK, BackPCs,
          Whole, Types, PcInv
  <1> QED
      BY <1>1, <1>2, <1>3, <1>4, <1>5, <1>6, <1>7, <1>8, <1>9, <1>10, <1>11, <1>12,
         <1>13, <1>14, <1>15, <1>16, <1>17, <1>18, <1>19, <1>20, <1>21, <1>22, <1>23,
         <1>24, <1>25, <1>26, <1>27, <1>28, <1>29, <1>30, <1>31, <1>32, <1>33, <1>34,
         <1>35, <1>36, <1>37, <1>38, <1>39, <1>40, <1>41, <1>42,
         <1>43 DEF Next, FlowStep

\* Records and data are where the phase puts them, whoever writes them.
LEMMA NextPlaceInv == IInv /\ [Next]_vars => PlaceInv'
  <1> SUFFICES ASSUME Types, LockInv, PcInv, PlaceInv, OrigInv, CloneInv, [Next]_vars
               PROVE  PlaceInv'
      BY DEF IInv
  <1> USE BoundsAssumption DEF root, Moving, Work, Ids, Phases, RecPlaces, DataPlaces, PCs, TypeOK,
          Archived, HasClone, Whole, Types, PlaceInv
  <1>1. ASSUME UNCHANGED <<phase, recs, data>>
        PROVE  PlaceInv'
        BY <1>1
  <1>2. CASE UNCHANGED vars
        BY <1>1, <1>2 DEF vars, disk, journal, others, bounds
  <1>3. CASE (\E cmd \in {"start", "run", "rollback"} : Begin(cmd)) \/ (\E i \in Ids :
             LaunchBegin(i) \/ LaunchSpawn(i) \/ BrowserExit(i) \/ TrackerLoad(i)) \/
             TakeFlow \/ TakeClaim \/ DriveRollback \/ CheckRestorable \/ PushBegin \/
             PushEnd \/ UnbindProfile \/ UpdateLoad \/ MoveBegin \/ MoveLock \/ MoveCopy \/ MoveFails \/
             Crash \/ Start \/ StepFails
        BY <1>1, <1>3 DEF disk, journal, others, bounds, Goto, Err, Fail, Step, Look,
              Begin, TakeFlow, TakeClaim, At, DriveRollback, CheckRestorable,
              LaunchBegin, LaunchSpawn, BrowserExit, TrackerLoad, PushBegin, PushEnd,
              UnbindProfile, UpdateLoad, MoveBegin, MoveLock, MoveCopy, MoveFails, Crash, Start,
              StepFails
  <1>4. CASE Create
        BY <1>4 DEF disk, journal, others, bounds, exists, in_flow, Goto, Err, Fail,
              binding_facts, Create
  <1>5. CASE Enter
        BY <1>5 DEF disk, journal, others, bounds, exists, move_new, Goto, Err, Fail,
              Step, Look, SettleProbe, Enter
  <1>6. CASE DriveCreated
        BY <1>6, ChainIs DEF disk, journal, others, bounds, Goto, Err, Fail,
              AdvanceTo, binding_facts, At, DriveCreated
  <1>7. CASE ProbeOut
        BY <1>7 DEF disk, journal, others, bounds, exists, move_new, Goto, Err, Fail,
              Step, Look, At, ProbeOut
  <1>8. CASE ProbeBack
        BY <1>8 DEF disk, journal, others, bounds, exists, move_new, Goto, Err,
              ForceRollback, Step, ProbeBack
  <1>9. CASE MoveMetadata
        BY <1>9 DEF disk, journal, others, bounds, Settled, exists, Open, move_record,
              Goto, Err, ForceRollback, Step, MoveMetadata, BackPCs, PcInv
  <1>10. CASE DriveClaimed
        BY <1>10, ChainIs DEF disk, others, bounds, Settled, Open, Goto, AdvanceTo,
              DriveClaimed, BackPCs, PcInv
  <1>11. CASE MoveData
        BY <1>11 DEF disk, journal, others, bounds, exists, move_new, Goto, Err,
              ForceRollback, Fail, Step, At, MoveData
  <1>12. CASE DriveMetadataMoved
        BY <1>12, ChainIs DEF disk, others, bounds, Goto, AdvanceTo,
              DriveMetadataMoved
  <1>13. CASE DriveUserDataMoved
        BY <1>13, ChainIs DEF disk, others, bounds, exists, Goto, Err, ForceRollback,
              AdvanceTo, At, mentions_original, DriveUserDataMoved
  <1>14. CASE CopyClone
        BY <1>14 DEF disk, journal, others, bounds, exists, Goto, Err, ForceRollback,
              Fail, Step, Look, binding_facts, At, CopyClone
  <1>15. CASE FinishCopy
        BY <1>15 DEF journal, others, bounds, Goto, Step, FinishCopy
  <1>16. CASE PlaceClone
        BY <1>16 DEF journal, others, bounds, Settled, Open, move_new, Goto, Step,
              PlaceClone, BackPCs, PcInv
  <1>17. CASE WriteRecord
        BY <1>17 DEF journal, others, bounds, Settled, Open, Goto, Step, WriteRecord,
              BackPCs, PcInv
  <1>18. CASE DriveScanPassed
        BY <1>18, ChainIs DEF disk, others, bounds, Goto, AdvanceTo, DriveScanPassed
  <1>19. CASE DriveCloneWritten
        BY <1>19, ChainIs DEF disk, journal, others, bounds, exists, Goto, Err,
              ForceRollback, Fail, AdvanceTo, binding_facts, At, mentions_original,
              DriveCloneWritten
  <1>20. CASE DriveReadbackPassed
        BY <1>20, ChainIs DEF disk, others, bounds, Goto, AdvanceTo, At,
              DriveReadbackPassed
  <1>21. CASE MarkRollback
        BY <1>21 DEF disk, others, bounds, Goto, MarkRollback
  <1>22. CASE SettleRollback
        BY <1>22 DEF disk, journal, others, bounds, exists, move_new, Goto, Err, Fail,
              Step, Look, SettleProbe, SettleRollback
  <1>23. CASE RetireRecord
        BY <1>23 DEF journal, others, bounds, exists, move_record, Goto, Step,
              RetireRecord
  <1>24. CASE RetireData
        BY <1>24 DEF disk, journal, others, bounds, Settled, exists, Open, move_new,
              Goto, Err, Fail, Step, Look, RetireData, BackPCs, PcInv
  <1>25. CASE RemoveStaging
        BY <1>25 DEF journal, others, bounds, exists, Goto, Step, RemoveStaging
  <1>26. CASE DataBack
        BY <1>26 DEF disk, journal, others, bounds, exists, move_new, Goto, Err, Fail,
              Step, Look, DataBack
  <1>27. CASE RecordBack
        BY <1>27 DEF disk, journal, others, bounds, Settled, exists, Open,
              move_record, Goto, Err, Fail, Step, Look, RecordBack, BackPCs, PcInv
  <1>28. CASE RolledBack
        BY <1>28 DEF disk, others, bounds, Settled, Open, Goto, Err, RolledBack,
              BackPCs, PcInv
  <1>29. ASSUME NEW i \in Ids, LaunchPrepare(i) PROVE PlaceInv'
        BY <1>29 DEF journal, bounds, path_for, udd, exists, in_flow, HasFlow,
              HasClaim, LaunchPrepare, retired_clone, LockInv
  <1>30. ASSUME NEW i \in Ids, BrowserWork(i) PROVE PlaceInv'
        BY <1>30 DEF journal, others, bounds, udd, exists, in_flow, HasFlow, HasClaim,
              BrowserWork, retired_clone, LockInv
  <1>31. ASSUME NEW i \in Ids, TrackerSave(i) PROVE PlaceInv'
        BY <1>31 DEF journal, bounds, path_for, exists, in_flow, HasFlow, HasClaim,
              TrackerSave, retired_clone, LockInv
  <1>32. CASE PushCheckout
        BY <1>32 DEF bounds, exists, in_flow, PushCheckout
  <1>33. CASE UpdateSave
        BY <1>33 DEF journal, bounds, exists, in_flow, HasFlow, HasClaim, UpdateSave,
              retired_clone, LockInv
  <1>34. CASE MakeData
        BY <1>34 DEF journal, others, Settled, exists, Open, MakeData
  <1>35. CASE LoseArchive
        BY <1>35 DEF journal, others, exists, LoseArchive
  <1>36. CASE MoveEnd
        BY <1>36 DEF bounds, MoveEnd
  <1> HIDE DEF root, Moving, Work, Ids, Phases, RecPlaces, DataPlaces, PCs, TypeOK, Archived, HasClone,
          Whole, Types, PlaceInv
  <1> QED
      BY <1>1, <1>2, <1>3, <1>4, <1>5, <1>6, <1>7, <1>8, <1>9, <1>10, <1>11, <1>12,
         <1>13, <1>14, <1>15, <1>16, <1>17, <1>18, <1>19, <1>20, <1>21, <1>22, <1>23,
         <1>24, <1>25, <1>26, <1>27, <1>28, <1>29, <1>30, <1>31, <1>32, <1>33, <1>34,
         <1>35,
         <1>36 DEF Next, FlowStep

\* The original's work is kept, in its places and in the clone.
LEMMA NextOrigInv == IInv /\ [Next]_vars => OrigInv'
  <1> SUFFICES ASSUME Types, LockInv, PcInv, PlaceInv, OrigInv, CloneInv, [Next]_vars
               PROVE  OrigInv'
      BY DEF IInv
  <1> USE BoundsAssumption DEF root, Moving, Work, Ids, Phases, RecPlaces, DataPlaces, PCs, TypeOK, Holds,
          Archived, BackPCs, Homes, Whole, Types, OrigInv
  <1>1. ASSUME UNCHANGED <<hand, phase, flow, data, ran, beside, copy>>,
               mover' = "copied" => mover = "copied"
        PROVE  OrigInv'
        BY <1>1
  <1>2. CASE UNCHANGED vars
        BY <1>1, <1>2 DEF vars, disk, journal, others, bounds
  <1>3. CASE (\E i \in Ids : LaunchBegin(i) \/ LaunchSpawn(i) \/ BrowserExit(i) \/
             TrackerLoad(i) \/ TrackerSave(i)) \/ PushBegin \/ PushEnd \/ UnbindProfile \/
             UpdateLoad \/ UpdateSave \/ MoveBegin \/ MoveLock \/ Start
        BY <1>1, <1>3 DEF disk, journal, others, bounds, LaunchBegin, LaunchSpawn,
              BrowserExit, TrackerLoad, TrackerSave, PushBegin, PushEnd,
              UnbindProfile, UpdateLoad, UpdateSave, MoveBegin, MoveLock,
              Start
  <1>4. ASSUME NEW cmd \in {"start", "run", "rollback"}, Begin(cmd) PROVE OrigInv'
        BY <1>4 DEF disk, journal, others, Settled, Open, Migrating, Begin
  <1>5. CASE TakeFlow
        BY <1>5 DEF journal, others, bounds, HasFlow, FlowFree, Goto, Step, Look,
              TakeFlow
  <1>6. CASE TakeClaim
        BY <1>6 DEF disk, journal, others, bounds, HasClaim, Claimed, NameClaimed,
              ClaimFree, Goto, Err, Fail, Step, Look, TakeClaim
  <1>7. CASE Create
        BY <1>7 DEF disk, journal, others, bounds, Settled, exists, Open, in_flow,
              Goto, Err, Fail, binding_facts, Create, HasClone, PcInv, PlaceInv
  <1>8. CASE Enter
        BY <1>8 DEF disk, journal, others, bounds, exists, move_new, Goto, Err, Fail,
              Step, Look, SettleProbe, Enter
  <1>9. CASE DriveCreated
        BY <1>9, ChainIs DEF disk, journal, others, bounds, Goto, Err, Fail,
              AdvanceTo, binding_facts, At, DriveCreated
  <1>10. CASE ProbeOut
        BY <1>10 DEF disk, journal, others, bounds, Settled, exists, Open, move_new,
              Goto, Err, Fail, Step, Look, At, ProbeOut, PcInv
  <1>11. CASE ProbeBack
        BY <1>11 DEF disk, journal, others, bounds, exists, move_new, Goto, Err,
              ForceRollback, Step, ProbeBack
  <1>12. CASE MoveMetadata
        BY <1>12 DEF disk, journal, others, bounds, exists, move_record, Goto, Err,
              ForceRollback, Step, MoveMetadata
  <1>13. CASE DriveClaimed
        BY <1>13, ChainIs DEF disk, others, bounds, Goto, AdvanceTo, DriveClaimed
  <1>14. CASE MoveData
        BY <1>14 DEF disk, journal, others, bounds, Settled, exists, Open, move_new,
              Goto, Err, ForceRollback, Fail, Step, At, MoveData, HasClone, PcInv,
              PlaceInv
  <1>15. CASE DriveMetadataMoved
        BY <1>15, ChainIs DEF disk, others, bounds, Goto, AdvanceTo,
              DriveMetadataMoved
  <1>16. CASE DriveUserDataMoved
        BY <1>16, ChainIs DEF disk, others, bounds, exists, Goto, Err, ForceRollback,
              AdvanceTo, At, mentions_original, DriveUserDataMoved
  <1>17. CASE CopyClone
        BY <1>17 DEF disk, journal, others, bounds, exists, Goto, Err, ForceRollback,
              Fail, Step, Look, binding_facts, At, CopyClone
  <1>18. CASE FinishCopy
        BY <1>18 DEF journal, others, bounds, Settled, Open, Goto, Step, FinishCopy,
              PcInv
  <1>19. CASE PlaceClone
        BY <1>19 DEF journal, others, bounds, move_new, Goto, Step, PlaceClone
  <1>20. CASE WriteRecord
        BY <1>20 DEF journal, others, bounds, Goto, Step, WriteRecord
  <1>21. CASE DriveScanPassed
        BY <1>21, ChainIs DEF disk, others, bounds, Goto, AdvanceTo, DriveScanPassed
  <1>22. CASE DriveCloneWritten
        BY <1>22, ChainIs DEF disk, journal, others, bounds, exists, Goto, Err,
              ForceRollback, Fail, AdvanceTo, binding_facts, At, mentions_original,
              DriveCloneWritten
  <1>23. CASE DriveReadbackPassed
        BY <1>23, ChainIs DEF disk, others, bounds, Goto, AdvanceTo, At,
              DriveReadbackPassed
  <1>24. CASE DriveRollback
        BY <1>24 DEF journal, others, bounds, Goto, Step, Look, At, DriveRollback
  <1>25. CASE MarkRollback
        BY <1>25 DEF disk, others, bounds, Goto, MarkRollback
  <1>26. CASE SettleRollback
        BY <1>26 DEF disk, journal, others, bounds, exists, move_new, Goto, Err, Fail,
              Step, Look, SettleProbe, SettleRollback
  <1>27. CASE CheckRestorable
        BY <1>27 DEF disk, journal, others, bounds, exists, Goto, Err, Fail, Step,
              Look, restorable, CheckRestorable
  <1>28. CASE RetireRecord
        BY <1>28 DEF journal, others, bounds, exists, move_record, Goto, Step,
              RetireRecord
  <1>29. CASE RetireData
        BY <1>29 DEF disk, journal, others, bounds, exists, move_new, Goto, Err, Fail,
              Step, Look, RetireData
  <1>30. CASE RemoveStaging
        BY <1>30 DEF journal, others, bounds, exists, Goto, Step, RemoveStaging
  <1>31. CASE DataBack
        BY <1>31 DEF disk, journal, others, bounds, Settled, exists, Open, move_new,
              Goto, Err, Fail, Step, Look, DataBack, PcInv
  <1>32. CASE RecordBack
        BY <1>32 DEF disk, journal, others, bounds, exists, move_record, Goto, Err,
              Fail, Step, Look, RecordBack
  <1>33. CASE RolledBack
        BY <1>33 DEF disk, others, bounds, Goto, Err, RolledBack
  <1>34. ASSUME NEW i \in Ids, LaunchPrepare(i) PROVE OrigInv'
        BY <1>34 DEF journal, bounds, Settled, path_for, udd, exists, Open, in_flow,
              HasFlow, HasClaim, LaunchPrepare, retired_clone, HasClone, LockInv,
              PcInv, PlaceInv
  <1>35. ASSUME NEW i \in Ids, BrowserWork(i) PROVE OrigInv'
        BY <1>35 DEF journal, others, bounds, Settled, udd, exists, Open, in_flow,
              HasFlow, HasClaim, BrowserWork, retired_clone, HasClone, LockInv, PcInv,
              PlaceInv
  <1>36. CASE PushCheckout
        BY <1>36 DEF bounds, Settled, exists, Open, in_flow, PushCheckout, HasClone,
              PcInv, PlaceInv
  <1>37. CASE Crash
        BY <1>37 DEF disk, journal, Crash
  <1>38. CASE StepFails
        BY <1>38 DEF disk, journal, others, Goto, Err, StepFails
  <1>39. CASE MakeData
        BY <1>39 DEF journal, others, Settled, exists, Open, MakeData
  <1>40. CASE LoseArchive
        BY <1>40 DEF journal, others, exists, LoseArchive
  <1>41. CASE MoveCopy
        BY <1>41 DEF disk, bounds, in_flow, MoveCopy, LockInv, PcInv, PlaceInv, HasFlow, Open, Settled
  <1>42. CASE MoveEnd
        BY <1>42 DEF bounds, in_flow, MoveEnd, LockInv, PcInv, PlaceInv, HasFlow, Open, Settled, HasClone
  <1>43. CASE MoveFails
        BY <1>43 DEF disk, bounds, MoveFails
  <1> HIDE DEF root, Moving, Work, Ids, Phases, RecPlaces, DataPlaces, PCs, TypeOK, Holds, Archived,
          BackPCs, Homes, Whole, Types, OrigInv
  <1> QED
      BY <1>1, <1>2, <1>3, <1>4, <1>5, <1>6, <1>7, <1>8, <1>9, <1>10, <1>11, <1>12,
         <1>13, <1>14, <1>15, <1>16, <1>17, <1>18, <1>19, <1>20, <1>21, <1>22, <1>23,
         <1>24, <1>25, <1>26, <1>27, <1>28, <1>29, <1>30, <1>31, <1>32, <1>33, <1>34,
         <1>35, <1>36, <1>37, <1>38, <1>39, <1>40,
         <1>41, <1>42, <1>43 DEF Next, FlowStep

\* What was done in a clone is kept.
LEMMA NextCloneInv == IInv /\ [Next]_vars => CloneInv'
  <1> SUFFICES ASSUME Types, LockInv, PcInv, PlaceInv, OrigInv, CloneInv, [Next]_vars
               PROVE  CloneInv'
      BY DEF IInv
  <1> USE BoundsAssumption DEF root, Moving, Work, Ids, Phases, RecPlaces, DataPlaces, PCs, TypeOK, Holds,
          Whole, Types, CloneInv
  <1>1. ASSUME UNCHANGED <<data, kept, ran, astray>>, launch'["clone"] # "astray"
        PROVE  CloneInv'
        BY <1>1
  <1>2. CASE UNCHANGED vars
        BY <1>1, <1>2 DEF vars, disk, journal, others, bounds
  <1>3. CASE (\E cmd \in {"start", "run", "rollback"} : Begin(cmd)) \/ (\E i \in Ids :
             LaunchBegin(i) \/ TrackerLoad(i) \/
             TrackerSave(i)) \/ TakeFlow \/ TakeClaim \/ DriveCreated \/ MoveMetadata \/
             DriveClaimed \/ DriveMetadataMoved \/ DriveUserDataMoved \/ WriteRecord \/
             DriveScanPassed \/ DriveCloneWritten \/ DriveReadbackPassed \/ DriveRollback
             \/ MarkRollback \/ CheckRestorable \/ RetireRecord \/ RecordBack \/ RolledBack
             \/ PushBegin \/ PushEnd \/ UnbindProfile \/ UpdateLoad \/ UpdateSave \/
             MoveBegin \/ MoveLock \/ MoveCopy \/ MoveFails \/ Crash \/ Start \/ StepFails
        BY <1>1, <1>3 DEF disk, journal, others, bounds, move_record, Goto, Err,
              ForceRollback, Fail, Step, Look, AdvanceTo, Begin, TakeFlow, TakeClaim,
              At, DriveCreated, MoveMetadata, DriveClaimed, DriveMetadataMoved,
              DriveUserDataMoved, WriteRecord, DriveScanPassed, DriveCloneWritten,
              DriveReadbackPassed, DriveRollback, MarkRollback, CheckRestorable,
              RetireRecord, RecordBack, RolledBack, LaunchBegin, TrackerLoad, TrackerSave, PushBegin, PushEnd,
              UnbindProfile, UpdateLoad, UpdateSave, MoveBegin, MoveLock, MoveCopy, MoveFails,
              Crash, Start, StepFails
  <1>4. CASE Create
        BY <1>4 DEF disk, journal, others, bounds, exists, in_flow, Goto, Err, Fail,
              binding_facts, Create, Archived, HasClone, PlaceInv
  <1>5. CASE Enter
        BY <1>5 DEF disk, journal, others, bounds, exists, move_new, Goto, Err, Fail,
              Step, Look, SettleProbe, Enter
  <1>6. CASE ProbeOut
        BY <1>6 DEF disk, journal, others, bounds, exists, move_new, Goto, Err, Fail,
              Step, Look, At, ProbeOut
  <1>7. CASE ProbeBack
        BY <1>7 DEF disk, journal, others, bounds, exists, move_new, Goto, Err,
              ForceRollback, Step, ProbeBack
  <1>8. CASE MoveData
        BY <1>8 DEF disk, journal, others, bounds, exists, move_new, Goto, Err,
              ForceRollback, Fail, Step, At, MoveData
  <1>9. CASE CopyClone
        BY <1>9 DEF disk, journal, others, bounds, exists, Goto, Err, ForceRollback,
              Fail, Step, Look, binding_facts, At, CopyClone
  <1>10. CASE FinishCopy
        BY <1>10 DEF journal, others, bounds, Goto, Step, FinishCopy
  <1>11. CASE PlaceClone
        BY <1>11 DEF journal, others, bounds, Settled, Open, move_new, Goto, Step,
              PlaceClone, BackPCs, PcInv
  <1>12. CASE SettleRollback
        BY <1>12 DEF disk, journal, others, bounds, exists, move_new, Goto, Err, Fail,
              Step, Look, SettleProbe, SettleRollback
  <1>13. CASE RetireData
        BY <1>13 DEF disk, journal, others, bounds, exists, move_new, Goto, Err, Fail,
              Step, Look, RetireData, Archived, HasClone, PlaceInv
  <1>14. CASE RemoveStaging
        BY <1>14 DEF journal, others, bounds, exists, Goto, Step, RemoveStaging
  <1>15. CASE DataBack
        BY <1>15 DEF disk, journal, others, bounds, exists, move_new, Goto, Err, Fail,
              Step, Look, DataBack
  <1>16. ASSUME NEW i \in Ids, LaunchPrepare(i) PROVE CloneInv'
        BY <1>16 DEF journal, bounds, path_for, udd, exists, in_flow, LaunchPrepare
  <1>17. ASSUME NEW i \in Ids, BrowserWork(i) PROVE CloneInv'
        BY <1>17 DEF journal, others, bounds, udd, exists, in_flow, HasFlow, HasClaim,
              BrowserWork, retired_clone, LockInv
  <1>18. CASE PushCheckout
        BY <1>18 DEF bounds, exists, in_flow, PushCheckout
  <1>19. CASE MakeData
        BY <1>19 DEF journal, others, Settled, exists, Open, MakeData
  <1>20. CASE LoseArchive
        BY <1>20 DEF journal, others, exists, LoseArchive
  <1>21. CASE \E i \in Ids : LaunchSpawn(i) \/ BrowserExit(i)
        BY <1>21 DEF disk, bounds, LaunchSpawn, BrowserExit
  <1>22. CASE MoveEnd
        BY <1>22 DEF bounds, exists, in_flow, retired_clone, MoveEnd, LockInv, PlaceInv, HasClone
  <1> HIDE DEF root, Moving, Work, Ids, Phases, RecPlaces, DataPlaces, PCs, TypeOK, Holds, Whole, Types,
          CloneInv
  <1> QED
      BY <1>1, <1>2, <1>3, <1>4, <1>5, <1>6, <1>7, <1>8, <1>9, <1>10, <1>11, <1>12,
         <1>13, <1>14, <1>15, <1>16, <1>17, <1>18, <1>19, <1>20,
         <1>21, <1>22 DEF Next, FlowStep

----------------------------------------------------------------------------
(* The theorems.                                                           *)

\* The launcher starts with the original in place and no journal.
LEMMA InitOK == Init => IInv
  <1> SUFFICES ASSUME Init PROVE IInv
      OBVIOUS
  <1>1. Types
    <2>1. bound \in BOOLEAN /\ lease \in BOOLEAN /\ moved \in BOOLEAN /\ up \in BOOLEAN
          BY DEF Init
    <2>2. /\ phase \in Phases /\ flows \in 0 .. MaxFlows /\ recs \subseteq RecPlaces
          /\ cmds \in 0 .. MaxCommands /\ crashes \in 0 .. MaxCrash /\ faults \in 0 .. MaxFault
          BY BoundsAssumption DEF Init, Phases, RecPlaces
    <2>3. data \in [DataPlaces -> {None, Half} \cup SUBSET (1 .. MaxRuns)] /\ Whole
          BY BoundsAssumption DEF Init, Whole
    <2>4. /\ kept \subseteq SUBSET (1 .. MaxRuns) /\ ran \in [Ids -> SUBSET (1 .. MaxRuns)]
          /\ flow \in [pc : PCs, cmd : {"start", "run", "rollback"}]
          BY DEF Init, PCs
    <2>5. /\ launch \in [Ids -> {"idle", "claimed", "ready", "astray"}]
          /\ tracker \in [Ids -> {"none", "running", "loaded"}] /\ browsers \subseteq Ids
          /\ team \in {"idle", "claimed", "leased"} /\ upd \in {"idle", "loaded"}
          /\ mover \in {"idle", "flag", "work", "copied"} /\ hand \in {"no", "made", "lost", "last"}
          BY DEF Init
    <2>6. /\ copy \in {None} \cup SUBSET (1 .. MaxRuns)
          /\ astray \subseteq Ids /\ beside \subseteq 1 .. MaxRuns
          BY DEF Init
    <2> QED BY <2>1, <2>2, <2>3, <2>4, <2>5, <2>6 DEF Types, TypeOK
  <1>2. LockInv
        BY DEF Init, LockInv, HasClaim, Moving, Ids
  <1>3. PcInv
        BY DEF Init, PcInv, BackPCs, DataPlaces
  <1>4. PlaceInv
        BY DEF Init, PlaceInv, Archived, DataPlaces
  <1>5. OrigInv /\ CloneInv
        BY DEF Init, OrigInv, CloneInv, Archived, DataPlaces, Homes, Ids, Work
  <1> QED BY <1>1, <1>2, <1>3, <1>4, <1>5 DEF IInv

LEMMA Reachable == Spec => []IInv
  <1>1. IInv /\ [Next]_vars => IInv'
        BY NextTypes, NextLockInv, NextPcInv, NextPlaceInv, NextOrigInv, NextCloneInv DEF IInv
  <1> QED BY <1>1, InitOK, PTL DEF Spec

\* Journal, folders and threads keep their types.
THEOREM TypeCorrect == Spec => []TypeOK
  <1>1. IInv => TypeOK
        BY DEF IInv, Types
  <1> QED BY <1>1, Reachable, PTL

\* The original's record is in exactly one place and its work is whole in one of
\* its three, but for what was written beside a move of the data root; a clone
\* that is the last copy stays where it is, and a clone's work is never deleted,
\* wherever the launcher dies (move_path, settle_probe, check_restorable and
\* retire of downgrade.rs).
THEOREM NothingIsLost == Spec => []WorkSurvives
  <1>1. IInv => WorkSurvives
    <2> SUFFICES ASSUME Types, PlaceInv, OrigInv, CloneInv PROVE WorkSurvives
        BY DEF IInv
    <2>1. exists("metadata_src") # exists("metadata_dst")
          BY DEF PlaceInv, exists, RecPlaces
    <2>2. ASSUME hand \in {"no", "made"}, Work # {}
          PROVE  \E p \in {"data_src", "data_dst", "probe"} :
                   /\ Holds(p, Work)
                   /\ hand = "no" => \A q \in {"data_src", "data_dst", "probe"} \ {p} : ~exists(q)
      <3>1. PICK p \in Homes : Holds(p, Work)
            BY <2>2 DEF OrigInv
      <3>2. ASSUME hand = "no", NEW q \in Homes \ {p} PROVE ~exists(q)
            BY <3>1, <3>2 DEF OrigInv, Homes, Holds, exists, RecPlaces
      <3> QED BY <3>1, <3>2 DEF Homes
    <2>3. hand = "last" => Holds("clone_data", Work)
          BY DEF OrigInv
    <2> QED BY <2>1, <2>2, <2>3 DEF WorkSurvives, CloneInv
  <1> QED BY <1>1, Reachable, PTL

\* v0.1.28 never finds the original beside its clone, nor a clone without the
\* original's data, crashes included (write_clone, prove_gone, retire).
THEOREM NeverBothListed == Spec => []OneListed
  <1>1. IInv => OneListed
        BY DEF IInv, Types, TypeOK, PlaceInv, OrigInv, OneListed, exists, RecPlaces
  <1> QED BY <1>1, Reachable, PTL

\* A move of the data root meets no downgrade, and no downgrade takes record or
\* data from under a browser on the original (the FLOW mutex, claims,
\* user_data_dir).
THEOREM FlowsAreAlone == Spec => []FlowIsAlone
  <1>1. IInv => FlowIsAlone
        BY DEF IInv, LockInv, PlaceInv, FlowIsAlone, exists, RecPlaces, in_flow
  <1> QED BY <1>1, Reachable, PTL
=============================================================================
