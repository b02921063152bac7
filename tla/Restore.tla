------------------------------ MODULE Restore ------------------------------
(***************************************************************************)
(* Offline restore of the v2 data plane across a restore epoch             *)
(* (server/src/restore.rs), the identity record it moves forward           *)
(* (identity.rs) and the server start that must not disturb it (main.rs).  *)
(*                                                                         *)
(* The server and every command hold the lock of the data directory, so at *)
(* most one of them runs: `pc` says which and where it is, "free" when     *)
(* nobody does.  A step of a command ends at a write, a rename or a        *)
(* removal; a crash between two steps drops `pc` and `cmd` and nothing     *)
(* else.  A database stands for its bytes, so two files have the same      *)
(* SHA-256 exactly when they are equal.  A transaction of a command is two *)
(* steps, and a crash between them leaves the hot journal `hot`: a         *)
(* read-only open cannot read past it, a writable one rolls it back.  A    *)
(* refused command changes nothing and is the absence of a step, unless it *)
(* has written before.  The `.tmp` files of the identity directory are     *)
(* never read and only removed; they are left out.                         *)
(***************************************************************************)
EXTENDS Naturals, Sequences, FiniteSets, SequencesExt

CONSTANTS
    Txns,           \* restore_txn_id values, drawn at random by export-heads
    Commits,        \* profile commits, each with its row of v2_idempotency
    None,           \* nothing, nobody, the zero transaction of the first record
    Bad,            \* a manifest whose bytes do not parse
    MaxEpoch,       \* bound on restore_epoch
    MaxCtl,         \* bound on the number of control-plane writes
    MaxCrash,       \* bound on the number of crashes
    MaxFault,       \* bound on the number of kinds of fault that happen
    Faults          \* the kinds of fault that may happen

ASSUME ConstantsOK ==
    /\ MaxEpoch \in Nat /\ MaxCtl \in Nat /\ MaxCrash \in Nat /\ MaxFault \in Nat
    /\ Faults \subseteq {"record", "manifest", "archive"}
    /\ None \notin Nat \cup Txns
    /\ IsFiniteSet(Commits)

VARIABLES
    x,         \* the identity record, or None while there is none to read
    hidden,    \* a record that cannot be read now, or None
    db,        \* the database at the DB path, or None
    hot,       \* a -journal of a transaction that did not commit is beside it
    backup,    \* the operator's backup, or None
    cand,      \* restore-candidate-<txn>.db, or its .tmp while not done
    dir,       \* restore-<txn>/, the artifacts
    archive,   \* pre-restore-<txn>.db
    p,         \* the preparation manifest, Bad when it does not parse
    pc,        \* who holds the lock and where it is
    cmd,       \* the variables of the running command
    v2,        \* the running server's authority: v2 writes are on
    acked,     \* history: what was acknowledged (control writes, fence, audits)
    stage,     \* history: how far the current restore has come
    crashes,   \* how many crashes there were
    faults     \* the kinds of fault there were

site == <<x, hidden, db, hot, backup, cand, dir, archive, p>>
proc == <<pc, cmd, v2>>
env  == <<acked, stage, crashes, faults>>
vars == <<site, proc, env>>

Epochs  == 0 .. MaxEpoch
Record  == [epoch : Epochs, txn : Txns \cup {None}]
Chains  == {s \in UNION {[1 .. n -> Commits] : n \in 0 .. Cardinality(Commits)} :
              Cardinality(Range(s)) = Len(s)}
Unmarked == MaxEpoch + 1
Marks   == [Commits -> Epochs \cup {None, Unmarked}]
Audit   == {"prepare", "commit", "abort", "retire", "withdraw"} \X (Txns \cup {None})
Filed   == [epoch : Epochs, prev : Commits, new : Commits]

\* What a restore tells apart in a database: the control plane, v2_snapshots
\* with current_version, last_fencing_token, the marks of the idempotency
\* ledger, v2_server_state, audit_log, the epochs the sessions were opened in,
\* and the filed transition.
Database ==
    [ctl : 0 .. MaxCtl, snaps : Chains, fence : 0 .. Cardinality(Commits), marks : Marks,
     mirror : Record \cup {None}, audits : SUBSET Audit, sess : SUBSET Epochs,
     filed : Filed \cup {None}]

\* The same without the bounds.
Content ==
    [ctl : Nat, snaps : Seq(Commits), fence : Nat, marks : Marks, mirror : Record \cup {None},
     audits : SUBSET Audit, sess : SUBSET Epochs, filed : Filed \cup {None}]

Candidate == [done : BOOLEAN, db : Database]
Artifacts == [live : Database, filed : Filed \cup {None}, whole : BOOLEAN]
Manifest  == [state : {"PREPARED", "TERMINAL"}, prev : Record, txn : Txns, cand : Database]

\* The values that stand for nothing are none of these.
ASSUME NothingIsNew ==
    /\ None # Bad
    /\ \A v \in {None, Bad} :
         /\ v \notin Record /\ v \notin Content /\ v \notin Filed
         /\ v \notin [done : BOOLEAN, db : Content]
         /\ v \notin [live : Content, filed : Filed \cup {None}, whole : BOOLEAN]
         /\ v \notin [state : {"PREPARED", "TERMINAL"}, prev : Record, txn : Txns, cand : Content]

Stages == {"none", "prepared", "advanced", "installed", "reconciled", "terminal"}
PCs == {"free", "serve", "serve_ro", "init_mirror",
        "prep_tx", "prep_copy", "prep_build", "prep_dir", "prep_art", "prep_manifest",
        "com_record", "inst_archive", "inst_rename", "rec_check", "rec_tx", "com_terminal",
        "ret_tx", "ret_art", "ret_manifest", "ret_dir",
        "abort_tx", "abort_cand", "abort_dirs", "abort_manifest"}

Empty  == [ctl |-> 0, snaps |-> <<>>, fence |-> 0, marks |-> [c \in Commits |-> None],
           mirror |-> None, audits |-> {}, sess |-> {}, filed |-> None]
NoCmd  == [txn |-> None, live |-> None]
Genesis == [epoch |-> 0, txn |-> None]

Init ==
    /\ x = None /\ hidden = None
    /\ db = Empty /\ hot = FALSE /\ backup = None
    /\ cand = [t \in Txns |-> None]
    /\ dir = [t \in Txns |-> None]
    /\ archive = [t \in Txns |-> None]
    /\ p = None
    /\ pc = "free" /\ cmd = NoCmd /\ v2 = FALSE
    /\ acked = [ctl |-> 0, fence |-> 0, audits |-> {}]
    /\ stage = "none" /\ crashes = 0 /\ faults = {}

----------------------------------------------------------------------------
(* What the commands and the server see, and its class.                    *)

Parsed   == p # None /\ p # Bad
Readable == db # None /\ ~hot
Mirror   == IF Readable THEN db.mirror ELSE None

MirrorIsX == Mirror = x

\* C: with a manifest its own candidate, otherwise any finished one.
C == IF Parsed
     THEN cand[p.txn] # None /\ cand[p.txn].done
     ELSE \E t \in Txns : cand[t] # None /\ cand[t].done

Dx == x.txn # None /\ dir[x.txn] # None

Pre  == x = p.prev
Post == x.epoch = p.prev.epoch + 1 /\ x.txn = p.txn

MirrorIsE == Mirror # None /\ Mirror = p.prev

\* A journal that blocks the read is the one of an interrupted step 5.
MirrorBehind == \/ Mirror # None /\ Mirror.epoch <= p.prev.epoch
                \/ hot /\ db # None

\* Fault: the terminal manifest is not told from the prepared one.
ClassOfManifest_NoState ==
    IF Pre /\ MirrorIsX THEN "K7"
    ELSE IF Post /\ C /\ (MirrorIsE \/ db = None) THEN "K8"
    ELSE IF Post /\ ~C /\ MirrorBehind THEN "K9"
    ELSE IF Post /\ MirrorIsX THEN "K10"
    ELSE "K12"

ClassOfManifest ==
    LET prepared == p.state = "PREPARED" IN
    IF Pre /\ MirrorIsX /\ prepared THEN "K7"
    ELSE IF Post /\ prepared /\ C /\ (MirrorIsE \/ db = None) THEN "K8"
    ELSE IF Post /\ prepared /\ ~C /\ MirrorBehind THEN "K9"
    ELSE IF Post /\ prepared /\ MirrorIsX THEN "K10"
    ELSE IF Post /\ ~prepared /\ MirrorIsX THEN "K11"
    ELSE "K12"

\* classify: the first class that matches wins.
Class ==
    IF x = None THEN "K1"
    ELSE IF Mirror # None /\ x.epoch < Mirror.epoch THEN "K2"
    ELSE IF p = None THEN (IF MirrorIsX THEN "K3" ELSE "K4")
    ELSE IF p = Bad THEN (IF MirrorIsX /\ ~Dx THEN "K5a"
                          ELSE IF MirrorIsX /\ ~C THEN "K5b" ELSE "K6")
    ELSE ClassOfManifest

\* Fault: only a restore that has not moved the record yet freezes the server.
ReadOnly_Prepared(k) == k \in {"K2", "K5a", "K5b", "K6", "K7", "K12"}

ReadOnly(k) == k \notin {"K1", "K3", "K4"}

Strays == {t \in Txns : cand[t] # None \/ dir[t] # None}
Orphans == Strays \cup {t \in Txns : archive[t] # None}

\* server_audit: one row of audit_log, acknowledged when its transaction commits.
Audited(d, act, t) == [d EXCEPT !.audits = @ \cup {<<act, t>>}]
Acknowledge(act, t) == acked' = [acked EXCEPT !.audits = @ \cup {<<act, t>>}]

Goto(l)  == pc' = l
Finish   == pc' = "free" /\ cmd' = NoCmd

----------------------------------------------------------------------------
(* identity init: the record first, the mirror second.                     *)

InitRecord ==
    /\ pc = "free" /\ x = None /\ hidden = None
    /\ db # None /\ db.mirror = None
    /\ x' = Genesis /\ hot' = FALSE
    /\ Goto("init_mirror")
    /\ UNCHANGED <<hidden, db, backup, cand, dir, archive, p, cmd, v2, env>>

InitMirror ==
    /\ pc = "init_mirror"
    /\ db' = [db EXCEPT !.mirror = x]
    /\ Finish
    /\ UNCHANGED <<x, hidden, hot, backup, cand, dir, archive, p, v2, env>>

----------------------------------------------------------------------------
(* The server.                                                             *)

\* Fault: a start over the files of a restore makes a new database.
StartGate_Open == TRUE

\* startup_gate: no empty database is made while files of a restore are left.
StartGate == Class \in {"K1", "K4"} /\ db = None => p = None /\ Orphans = {}

\* authority: the mirror attests the record and there is no manifest at all.
Authority(d) == x # None /\ d.mirror = x /\ p = None

\* main: classify before any write, then open read-only or writable; a writable
\* open creates a missing database and rolls a hot journal back.
Start ==
    /\ pc = "free"
    /\ StartGate
    /\ IF ReadOnly(Class)
       THEN /\ db # None
            /\ Goto("serve_ro") /\ v2' = FALSE
            /\ UNCHANGED <<db, hot>>
       ELSE /\ db' = IF db = None THEN Empty ELSE db
            /\ hot' = FALSE
            /\ Goto("serve") /\ v2' = Authority(db')
    /\ UNCHANGED <<x, hidden, backup, cand, dir, archive, p, cmd, env>>

Stop ==
    /\ pc \in {"serve", "serve_ro"}
    /\ Finish /\ v2' = FALSE
    /\ UNCHANGED <<site, env>>

\* Any write of a v1 route or of a control-plane table.
ControlWrite ==
    /\ pc = "serve" /\ db.ctl < MaxCtl /\ acked.ctl < MaxCtl
    /\ db' = [db EXCEPT !.ctl = @ + 1]
    /\ acked' = [acked EXCEPT !.ctl = @ + 1]
    /\ UNCHANGED <<x, hidden, hot, backup, cand, dir, archive, p, proc, stage, crashes, faults>>

\* A v2 session is opened in the epoch of the record.
Login ==
    /\ pc = "serve" /\ v2
    /\ db' = [db EXCEPT !.sess = @ \cup {x.epoch}]
    /\ UNCHANGED <<x, hidden, hot, backup, cand, dir, archive, p, proc, env>>

\* A profile checkout and its commit: one fence, one snapshot, one ledger row.
CommitSnapshot(c) ==
    /\ pc = "serve" /\ v2 /\ db.marks[c] = None
    /\ db' = [db EXCEPT !.snaps = Append(@, c), !.marks[c] = Unmarked, !.fence = @ + 1]
    /\ acked' = [acked EXCEPT !.fence = @ + 1]
    /\ UNCHANGED <<x, hidden, hot, backup, cand, dir, archive, p, proc, stage, crashes, faults>>

\* The row of v2_restore_epoch_transitions for the step from epoch e.
FiledAt(d, e) == IF d.filed # None /\ d.filed.epoch = e THEN d.filed ELSE None
FiledNow(d) == FiledAt(d, x.epoch)

\* A custodian files the signed transition of the exported heads, one per epoch.
FileTransition ==
    /\ pc = "serve" /\ v2
    /\ backup # None /\ Len(backup.snaps) > 0 /\ Len(db.snaps) > 0
    /\ FiledNow(db) = None
    /\ db' = [db EXCEPT !.filed = [epoch |-> x.epoch, prev |-> Last(db.snaps),
                                   new |-> Last(backup.snaps)]]
    /\ UNCHANGED <<x, hidden, hot, backup, cand, dir, archive, p, proc, env>>

TakeBackup ==
    /\ pc = "free" /\ Readable
    /\ backup' = db
    /\ UNCHANGED <<x, hidden, db, hot, cand, dir, archive, p, proc, env>>

\* restore withdraw-transitions, only in K3.
Withdraw ==
    /\ pc = "free" /\ Class = "K3"
    /\ FiledNow(db) # None
    /\ db' = Audited([db EXCEPT !.filed = None], "withdraw", None)
    /\ Acknowledge("withdraw", None)
    /\ UNCHANGED <<x, hidden, hot, backup, cand, dir, archive, p, proc, stage, crashes, faults>>

----------------------------------------------------------------------------
(* restore prepare.                                                        *)

\* require_clean_k3.
CleanK3 == Class = "K3" /\ Strays = {}

\* The id an operator passes: the one that `restore export-heads` has drawn at
\* random for this restore, so no restore before it has used it.  The code
\* itself only asks that it is not zero.
Drawn(t) == archive[t] = None /\ t # x.txn

PrepareBegin(t) ==
    /\ pc = "free" /\ CleanK3
    /\ x.epoch < MaxEpoch /\ backup # None
    /\ hot' = TRUE
    /\ Goto("prep_tx") /\ cmd' = [txn |-> t, live |-> None]
    /\ UNCHANGED <<x, hidden, db, backup, cand, dir, archive, p, v2, env>>

\* The audit row is in the live database before it is hashed.
PrepareAudit ==
    /\ pc = "prep_tx"
    /\ db' = Audited(db, "prepare", cmd.txn) /\ hot' = FALSE
    /\ Acknowledge("prepare", cmd.txn)
    /\ Goto("prep_copy") /\ cmd' = [cmd EXCEPT !.live = db']
    /\ UNCHANGED <<x, hidden, backup, cand, dir, archive, p, v2, stage, crashes, faults>>

PrepareCopy ==
    /\ pc = "prep_copy"
    /\ cand' = [cand EXCEPT ![cmd.txn] = [done |-> FALSE, db |-> db]]
    /\ Goto("prep_build")
    /\ UNCHANGED <<x, hidden, db, hot, backup, dir, archive, p, cmd, v2, env>>

Kept(bk) == Range(bk.snaps)

\* coverage and staged: both sides have a head or neither, and the transition
\* filed in this epoch signs exactly the two heads.
Covered(live, bk) ==
    /\ (Len(live.snaps) = 0) = (Len(bk.snaps) = 0)
    /\ IF Len(live.snaps) = 0
       THEN FiledNow(live) = None
       ELSE FiledNow(live) = [epoch |-> x.epoch, prev |-> Last(live.snaps), new |-> Last(bk.snaps)]

\* supersede updates every row whose result is not kept; the trigger
\* v2_idempotency_superseded_once aborts the update of a marked one.
SupersedeAborts(live, bk) ==
    \E c \in Commits : live.marks[c] \in Epochs /\ c \notin Kept(bk)

\* Fault: the ledger is not marked.
Supersede_None(marks, bk) == marks

\* The COMMIT rows; the other three kinds of rows are marked by the same rule,
\* on their upload or profile instead of their snapshot.
Supersede(marks, bk) ==
    [c \in Commits |->
        IF marks[c] = Unmarked /\ c \notin Kept(bk) THEN x.epoch + 1 ELSE marks[c]]

\* The tables of Source::Cleared.
Cleared(d) == [d EXCEPT !.sess = {}]

\* Fault: the two fences are added.
Merge_FenceSum(live, bk) ==
    Cleared([live EXCEPT !.snaps = bk.snaps, !.fence = @ + bk.fence,
                         !.marks = Supersede(live.marks, bk)])

\* Fault: the fence is the backup's.
Merge_Fence(live, bk) ==
    Cleared([live EXCEPT !.snaps = bk.snaps, !.fence = bk.fence,
                         !.marks = Supersede(live.marks, bk)])

\* merge: heads and snapshots from the backup, everything else from the live
\* copy, the greater fence, the rolled-back ledger rows marked.
Merge(live, bk) ==
    Cleared([live EXCEPT !.snaps = bk.snaps,
                         !.fence = IF @ < bk.fence THEN bk.fence ELSE @,
                         !.marks = Supersede(live.marks, bk)])

BuildOK(live, bk) == Covered(live, bk) /\ ~SupersedeAborts(live, bk)

\* 2a: merge, the checks, and the rename that finishes the candidate.
PrepareBuild ==
    /\ pc = "prep_build" /\ BuildOK(cand[cmd.txn].db, backup)
    /\ cand' = [cand EXCEPT ![cmd.txn] = [done |-> TRUE, db |-> Merge(@.db, backup)]]
    /\ Goto("prep_dir")
    /\ UNCHANGED <<x, hidden, db, hot, backup, dir, archive, p, cmd, v2, env>>

\* One of the checks of 2a fails (coverage, signer, blobs, schema, integrity).
PrepareRefuse ==
    /\ pc = "prep_build"
    /\ cand' = [cand EXCEPT ![cmd.txn] = None]
    /\ Finish
    /\ UNCHANGED <<x, hidden, db, hot, backup, dir, archive, p, v2, env>>

\* 2b: the directory, then its files.
PrepareDir ==
    /\ pc = "prep_dir"
    /\ dir' = [dir EXCEPT ![cmd.txn] =
                 [live |-> cmd.live, filed |-> FiledNow(cmd.live), whole |-> FALSE]]
    /\ Goto("prep_art")
    /\ UNCHANGED <<x, hidden, db, hot, backup, cand, archive, p, cmd, v2, env>>

PrepareArtifacts ==
    /\ pc = "prep_art"
    /\ dir' = [dir EXCEPT ![cmd.txn].whole = TRUE]
    /\ Goto("prep_manifest")
    /\ UNCHANGED <<x, hidden, db, hot, backup, cand, archive, p, cmd, v2, env>>

\* 2c: the restore is prepared.
PrepareManifest ==
    /\ pc = "prep_manifest"
    /\ p' = [state |-> "PREPARED", prev |-> x, txn |-> cmd.txn, cand |-> cand[cmd.txn].db]
    /\ stage' = "prepared"
    /\ Finish
    /\ UNCHANGED <<x, hidden, db, hot, backup, cand, dir, archive, v2, acked, crashes, faults>>

----------------------------------------------------------------------------
(* restore commit.                                                         *)

Resume(l, t) == pc = "free" /\ pc' = l /\ cmd' = [txn |-> t, live |-> None]

\* From K7: the candidate is the prepared one, the artifacts are whole, and the
\* live database is still the one that was copied.
UnchangedSincePrepare ==
    /\ cand[p.txn] # None /\ cand[p.txn].db = p.cand
    /\ dir[p.txn] # None /\ dir[p.txn].whole
    /\ db = dir[p.txn].live

CommitPrepared ==
    /\ Class = "K7" /\ UnchangedSincePrepare
    /\ Resume("com_record", p.txn)
    /\ UNCHANGED <<site, v2, env>>

\* Step 3, the authority commit point.
CommitRecord ==
    /\ pc = "com_record"
    /\ x' = [epoch |-> p.prev.epoch + 1, txn |-> p.txn]
    /\ stage' = "advanced"
    /\ Goto("inst_archive")
    /\ UNCHANGED <<hidden, db, hot, backup, cand, dir, archive, p, cmd, v2, acked, crashes, faults>>

CommitInstall ==
    /\ Class = "K8"
    /\ Resume("inst_archive", p.txn)
    /\ UNCHANGED <<site, v2, env>>

\* Step 4 (i)-(iii): the live database is moved aside; the open of (i) rolls a
\* hot journal back, and an archive is never overwritten by other bytes.
InstallArchive ==
    /\ pc = "inst_archive"
    /\ hot' = FALSE
    /\ IF db = None THEN UNCHANGED <<db, archive>> /\ Goto("inst_rename") /\ UNCHANGED cmd
       ELSE IF archive[cmd.txn] \in {None, db}
            THEN /\ archive' = [archive EXCEPT ![cmd.txn] = db] /\ db' = None
                 /\ Goto("inst_rename") /\ UNCHANGED cmd
            ELSE UNCHANGED <<db, archive>> /\ Finish
    /\ UNCHANGED <<x, hidden, backup, cand, dir, p, v2, env>>

\* Step 4 (iv)-(vi).
InstallRename ==
    /\ pc = "inst_rename" /\ db = None
    /\ db' = cand[cmd.txn].db /\ cand' = [cand EXCEPT ![cmd.txn] = None]
    /\ stage' = "installed"
    /\ Goto("rec_check")
    /\ UNCHANGED <<x, hidden, hot, backup, dir, archive, p, cmd, v2, acked, crashes, faults>>

CommitReconcile ==
    /\ Class = "K9"
    /\ Resume("rec_check", p.txn)
    /\ UNCHANGED <<site, v2, env>>

\* verify_installed: the filed transition is the artifact and covers the head.
VerifyInstalled(d) ==
    /\ dir[p.txn] # None /\ dir[p.txn].whole
    /\ FiledAt(d, p.prev.epoch) = dir[p.txn].filed
    /\ IF Len(d.snaps) = 0 THEN dir[p.txn].filed = None
       ELSE dir[p.txn].filed # None /\ dir[p.txn].filed.new = Last(d.snaps)

\* Step 5, first half: rolled_back_candidate, verify_installed, and the
\* transaction is open.
ReconcileBegin ==
    /\ pc = "rec_check"
    /\ IF db = p.cand /\ VerifyInstalled(db)
       THEN hot' = TRUE /\ Goto("rec_tx") /\ UNCHANGED cmd
       ELSE hot' = FALSE /\ Finish
    /\ UNCHANGED <<x, hidden, db, backup, cand, dir, archive, p, v2, env>>

Reconciled(d) == Audited([Cleared(d) EXCEPT !.mirror = x], "commit", cmd.txn)

\* Step 5, second half: sessions, mirror and audit in one transaction.
ReconcileCommit ==
    /\ pc = "rec_tx"
    /\ db' = Reconciled(db) /\ hot' = FALSE
    /\ Acknowledge("commit", cmd.txn)
    /\ stage' = "reconciled"
    /\ Goto("com_terminal")
    /\ UNCHANGED <<x, hidden, backup, cand, dir, archive, p, cmd, v2, crashes, faults>>

\* From K10: the readback.
CommitReadback ==
    /\ Class = "K10" /\ VerifyInstalled(db)
    /\ Resume("com_terminal", p.txn)
    /\ UNCHANGED <<site, v2, env>>

\* Step 6.
CommitTerminal ==
    /\ pc = "com_terminal"
    /\ p' = [p EXCEPT !.state = "TERMINAL"]
    /\ stage' = "terminal"
    /\ Goto("ret_art")
    /\ UNCHANGED <<x, hidden, db, hot, backup, cand, dir, archive, cmd, v2, acked, crashes, faults>>

CommitRetire ==
    /\ Class = "K11"
    /\ Resume("ret_art", p.txn)
    /\ UNCHANGED <<site, v2, env>>

\* restore commit --retire, only in K5b.
RetireBegin ==
    /\ Class = "K5b"
    /\ Resume("ret_tx", x.txn)
    /\ hot' = TRUE
    /\ UNCHANGED <<x, hidden, db, backup, cand, dir, archive, p, v2, env>>

RetireAudit ==
    /\ pc = "ret_tx"
    /\ db' = Audited(db, "retire", cmd.txn) /\ hot' = FALSE
    /\ Acknowledge("retire", cmd.txn)
    /\ Goto("ret_art")
    /\ UNCHANGED <<x, hidden, backup, cand, dir, archive, p, cmd, v2, stage, crashes, faults>>

\* Step 7: the artifacts one by one, the manifest, the directory.
RetireArtifacts ==
    /\ pc = "ret_art"
    /\ dir' = IF dir[cmd.txn] = None THEN dir ELSE [dir EXCEPT ![cmd.txn].whole = FALSE]
    /\ Goto("ret_manifest")
    /\ UNCHANGED <<x, hidden, db, hot, backup, cand, archive, p, cmd, v2, env>>

RetireManifest ==
    /\ pc = "ret_manifest"
    /\ p' = None /\ stage' = "none"
    /\ Goto("ret_dir")
    /\ UNCHANGED <<x, hidden, db, hot, backup, cand, dir, archive, cmd, v2, acked, crashes, faults>>

RetireDir ==
    /\ pc = "ret_dir"
    /\ dir' = [dir EXCEPT ![cmd.txn] = None]
    /\ Finish
    /\ UNCHANGED <<x, hidden, db, hot, backup, cand, archive, p, v2, env>>

----------------------------------------------------------------------------
(* restore abort.                                                          *)

\* Fault: abort is also for a restore whose record has moved.
Abortable_Late(k) == k \in {"K5a", "K5b", "K7", "K8", "K9"}

Abortable(k) == k \in {"K5a", "K7"}

AbortBegin ==
    /\ Abortable(Class) /\ db # None
    /\ Resume("abort_tx", IF Parsed THEN p.txn ELSE None)
    /\ hot' = TRUE
    /\ UNCHANGED <<x, hidden, db, backup, cand, dir, archive, p, v2, env>>

AbortAudit ==
    /\ pc = "abort_tx"
    /\ db' = Audited(db, "abort", cmd.txn) /\ hot' = FALSE
    /\ Acknowledge("abort", cmd.txn)
    /\ Goto("abort_cand")
    /\ UNCHANGED <<x, hidden, backup, cand, dir, archive, p, cmd, v2, stage, crashes, faults>>

AbortCandidates ==
    /\ pc = "abort_cand"
    /\ cand' = [t \in Txns |-> None]
    /\ Goto("abort_dirs")
    /\ UNCHANGED <<x, hidden, db, hot, backup, dir, archive, p, cmd, v2, env>>

AbortDirs ==
    /\ pc = "abort_dirs"
    /\ dir' = [t \in Txns |-> None]
    /\ Goto("abort_manifest")
    /\ UNCHANGED <<x, hidden, db, hot, backup, cand, archive, p, cmd, v2, env>>

AbortManifest ==
    /\ pc = "abort_manifest"
    /\ p' = None /\ stage' = "none"
    /\ Finish
    /\ UNCHANGED <<x, hidden, db, hot, backup, cand, dir, archive, v2, acked, crashes, faults>>

\* restore abort --orphans [--delete-archives], only in K3; a crash between two
\* removals leaves any part of the list.
AbortOrphans(C1, D1, A1) ==
    /\ pc = "free" /\ Class = "K3" /\ C1 \cup D1 \cup A1 # {}
    /\ cand' = [t \in Txns |-> IF t \in C1 THEN None ELSE cand[t]]
    /\ dir' = [t \in Txns |-> IF t \in D1 THEN None ELSE dir[t]]
    /\ archive' = [t \in Txns |-> IF t \in A1 THEN None ELSE archive[t]]
    /\ UNCHANGED <<x, hidden, db, hot, backup, p, proc, env>>

----------------------------------------------------------------------------
(* Crashes, faults, and the specification.                                 *)

\* The process dies.  A transaction of the server may be cut in the middle.
Crash ==
    /\ pc # "free" /\ crashes < MaxCrash
    /\ Finish /\ v2' = FALSE
    /\ hot' \in IF pc = "serve" THEN BOOLEAN ELSE {hot}
    /\ crashes' = crashes + 1
    /\ UNCHANGED <<x, hidden, db, backup, cand, dir, archive, p, acked, stage, faults>>

Fault(kind) ==
    /\ kind \in Faults /\ pc = "free"
    /\ faults' = faults \cup {kind} /\ Cardinality(faults') <= MaxFault

\* read_record fails, and later it does not.
HideRecord ==
    /\ Fault("record") /\ x # None
    /\ hidden' = x /\ x' = None
    /\ UNCHANGED <<db, hot, backup, cand, dir, archive, p, proc, acked, stage, crashes>>

ShowRecord ==
    /\ pc = "free" /\ hidden # None
    /\ x' = hidden /\ hidden' = None
    /\ UNCHANGED <<db, hot, backup, cand, dir, archive, p, proc, env>>

DamageManifest ==
    /\ Fault("manifest") /\ Parsed
    /\ p' = Bad
    /\ UNCHANGED <<x, hidden, db, hot, backup, cand, dir, archive, proc, acked, stage, crashes>>

\* The operator copies the database of before the restore back.
PutArchiveBack(t) ==
    /\ Fault("archive") /\ archive[t] # None
    /\ db' = archive[t] /\ hot' = FALSE
    /\ UNCHANGED <<x, hidden, backup, cand, dir, archive, p, proc, acked, stage, crashes>>

CommitStart == CommitPrepared \/ CommitInstall \/ CommitReconcile \/ CommitReadback \/ CommitRetire

\* What a command that has started does next.
CommandStep ==
    \/ InitMirror
    \/ PrepareAudit \/ PrepareCopy \/ PrepareBuild \/ PrepareRefuse \/ PrepareDir
    \/ PrepareArtifacts \/ PrepareManifest
    \/ CommitRecord \/ InstallArchive \/ InstallRename \/ ReconcileBegin \/ ReconcileCommit
    \/ CommitTerminal \/ RetireAudit \/ RetireArtifacts \/ RetireManifest \/ RetireDir
    \/ AbortAudit \/ AbortCandidates \/ AbortDirs \/ AbortManifest

ServerStep ==
    \/ Start \/ Stop \/ ControlWrite \/ Login \/ FileTransition
    \/ \E c \in Commits : CommitSnapshot(c)

OperatorStep ==
    \/ InitRecord \/ TakeBackup \/ Withdraw \/ CommitStart \/ RetireBegin \/ AbortBegin
    \/ \E t \in Txns : PrepareBegin(t) /\ Drawn(t)
    \/ \E C1, D1 \in SUBSET Strays, A1 \in SUBSET (Orphans \ Strays) : AbortOrphans(C1, D1, A1)

FaultStep ==
    \/ Crash \/ HideRecord \/ ShowRecord \/ DamageManifest
    \/ \E t \in Txns : PutArchiveBack(t)

Next == CommandStep \/ ServerStep \/ OperatorStep \/ FaultStep

Spec == Init /\ [][Next]_vars

----------------------------------------------------------------------------
(* Properties.                                                             *)

\* Every variable holds a value of its kind (the fields of struct Site, the
\* identity record, the manifest and a database).
TypeOK ==
    /\ x \in Record \cup {None} /\ hidden \in Record \cup {None}
    /\ db \in Database \cup {None} /\ hot \in BOOLEAN
    /\ backup \in Database \cup {None}
    /\ cand \in [Txns -> Candidate \cup {None}]
    /\ dir \in [Txns -> Artifacts \cup {None}]
    /\ archive \in [Txns -> Database \cup {None}]
    /\ p \in Manifest \cup {None, Bad}
    /\ pc \in PCs
    /\ cmd \in [txn : Txns \cup {None}, live : Database \cup {None}]
    /\ v2 \in BOOLEAN
    /\ acked \in [ctl : Nat, fence : Nat, audits : SUBSET Audit]
    /\ stage \in Stages
    /\ crashes \in 0 .. MaxCrash /\ faults \in SUBSET Faults

ClassOfStage ==
    [none |-> "K3", prepared |-> "K7", advanced |-> "K8", installed |-> "K9",
     reconciled |-> "K10", terminal |-> "K11"]

\* What restore.rs promises of its classes ("a crash anywhere resumes from
\* exactly one row of the plan's table"): after a crash at any point the class
\* computed from the files alone says how far the restore came.  While there is
\* no restore, the journal of a cut transaction may read as K4, which the next
\* start heals.  The run restore_abort_cut shows that it fails: an abort that is
\* cut in its own audit transaction leaves a K7 restore in K12, where both
\* `restore commit` and `restore abort` refuse.  (No file damaged by hand.)
ClassTellsProgress ==
    faults = {} /\ pc = "free" /\ x # None /\ (db # None => db.mirror # None) =>
        \/ Class = ClassOfStage[stage]
        \/ hot /\ stage = "none" /\ Class = "K4"

\* The same of every crash but that one: wherever prepare, commit, the server or
\* the removals of an abort were cut, `restore commit` goes on from the right
\* step.
CommitResumes ==
    ~(hot /\ stage = "prepared") => ClassTellsProgress

\* Whenever the site is in normal operation (K3), its database holds every
\* acknowledged control-plane write and audit row and no older fence: a restore
\* takes nothing of them back, wherever it was cut and however often it was
\* resumed or aborted (merge, install, reconcile).  (No file damaged by hand: a
\* server whose record cannot be read serves on in K1, and what it writes in the
\* middle of a restore is lost.)
NothingLost ==
    faults = {} /\ pc \in {"free", "serve"} /\ Class = "K3" =>
        /\ db.ctl = acked.ctl
        /\ db.fence >= acked.fence
        /\ acked.audits \subseteq db.audits

\* From the commit point until the install, the database that is about to be
\* archived is still the one prepare copied: install does not hash it again and
\* relies on the read-only start (Class::read_only).  (No file damaged by hand.)
LiveIsFrozen ==
    faults = {} /\ stage = "advanced" => (IF db # None THEN db ELSE archive[p.txn]) = dir[p.txn].live

\* A ledger row that replays its stored receipt names a snapshot that exists
\* (supersede; v2_uploads replays an unmarked row).
NoDanglingReceipt ==
    pc = "serve" /\ v2 =>
        \A c \in Commits : db.marks[c] = Unmarked => c \in Range(db.snaps)

\* The database a record names is never thrown away: it is the finished
\* candidate, or it is at the DB path, its mirror rebuilt or the database of
\* before moved aside (abort is refused once the record moved,
\* with a readable manifest or without).
RecordHasDatabase ==
    x # None /\ x.txn # None =>
        \/ cand[x.txn] # None /\ cand[x.txn].done
        \/ db # None /\ (db.mirror = x \/ archive[x.txn] # None)

\* No server that writes, in whatever class (K1, K3 or K4), runs on a database
\* that lacks an audit row or a fence, also while the record or the manifest
\* cannot be read: startup_gate makes no empty one in the middle of a restore,
\* and a candidate has every row written since prepare.  Only an operator who
\* copies an old database to the DB path gets a server that writes to it: K4 is
\* not read-only.
ServedHasAudits ==
    pc = "serve" /\ "archive" \notin faults =>
        acked.audits \subseteq db.audits /\ db.fence >= acked.fence
============================================================================
