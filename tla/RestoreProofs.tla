--------------------------- MODULE RestoreProofs ---------------------------
(***************************************************************************)
(* What Restore promises, for every value of its constants.                *)
(*                                                                         *)
(* `stage` says how far a restore came; the invariant says, for each stage *)
(* and each place of a command, which file holds what was acknowledged.    *)
(***************************************************************************)
EXTENDS Restore, FiniteSetTheorems, TLAPS

----------------------------------------------------------------------------
(* The inductive invariant.                                                *)

Candidates == [done : BOOLEAN, db : Content]
Folders    == [live : Content, filed : Filed \cup {None}, whole : BOOLEAN]
Manifests  == [state : {"PREPARED", "TERMINAL"}, prev : Record, txn : Txns, cand : Content]
Locals     == [txn : Txns \cup {None}, live : Content \cup {None}]
Acks       == [ctl : Nat, fence : Nat, audits : SUBSET Audit]

\* TypeOK, with databases of any size.
Types ==
    /\ x \in Record \cup {None} /\ hidden \in Record \cup {None}
    /\ db \in Content \cup {None} /\ hot \in BOOLEAN
    /\ backup \in Content \cup {None}
    /\ cand \in [Txns -> Candidates \cup {None}] /\ dir \in [Txns -> Folders \cup {None}]
    /\ archive \in [Txns -> Content \cup {None}]
    /\ p \in Manifests \cup {None, Bad}
    /\ pc \in PCs
    /\ cmd \in Locals /\ v2 \in BOOLEAN
    /\ acked \in Acks
    /\ stage \in Stages
    /\ crashes \in Nat /\ faults \in SUBSET Faults

Preparing  == {"prep_tx", "prep_copy", "prep_build", "prep_dir", "prep_art", "prep_manifest"}
Committing == {"com_record", "inst_archive", "inst_rename", "rec_check", "rec_tx", "com_terminal"}
Retiring   == {"ret_tx", "ret_art", "ret_manifest", "ret_dir"}
Aborting   == {"abort_tx", "abort_cand", "abort_dirs", "abort_manifest"}

\* A database has every fence and every audit row that was acknowledged.
Has(d) == d.fence >= acked.fence /\ acked.audits \subseteq d.audits

\* It also has the control-plane writes, and its ledger answers for snapshots
\* that it has.
Complete(d) ==
    /\ d.ctl = acked.ctl /\ Has(d)
    /\ \A c \in Commits : d.marks[c] = Unmarked => c \in Range(d.snaps)

\* A candidate takes nothing back of the live database it was merged from.
Derived(d, live) ==
    /\ d.ctl = live.ctl /\ d.fence >= live.fence /\ live.audits \subseteq d.audits
    /\ d.mirror = live.mirror
    /\ \A c \in Commits : d.marks[c] = Unmarked => c \in Range(d.snaps)

\* What a running process has, faults or not: they happen while nothing runs.
PcInv ==
    /\ pc \in {"serve", "serve_ro", "init_mirror", "com_record",
               "rec_check", "rec_tx", "com_terminal"}
         \cup Preparing \cup Retiring \cup Aborting => db # None
    /\ pc \in {"init_mirror", "com_record"} \cup Preparing => x # None
    /\ pc = "init_mirror" => x = Genesis
    /\ pc \in Preparing \cup Committing \cup Retiring => cmd.txn \in Txns
    /\ pc \in Preparing =>
         /\ x.epoch < MaxEpoch /\ db.mirror = x /\ p = None /\ backup # None
         /\ cmd.txn # x.txn /\ archive[cmd.txn] = None
    /\ pc \in Preparing \ {"prep_tx"} => cmd.live = db /\ ~hot
    /\ pc \in {"prep_build", "prep_dir", "prep_art", "prep_manifest"} => cand[cmd.txn] # None
    /\ pc = "prep_build" => cand[cmd.txn].db = db
    /\ pc \in {"prep_art", "prep_manifest"} => dir[cmd.txn] # None /\ dir[cmd.txn].live = db
    /\ pc \in {"prep_dir", "prep_art", "prep_manifest"} =>
         cand[cmd.txn].done /\ Derived(cand[cmd.txn].db, db)
    /\ pc \in Committing => Parsed /\ cmd.txn = p.txn
    /\ pc \in {"com_record", "inst_archive", "inst_rename"} =>
         cand[cmd.txn] # None /\ cand[cmd.txn].done
    /\ pc = "com_record" => UnchangedSincePrepare /\ x = p.prev /\ db.mirror = x
    /\ pc \in {"inst_archive", "inst_rename"} => x # None /\ x.txn = cmd.txn
    /\ pc = "inst_rename" => db = None
    /\ pc \in {"rec_check", "rec_tx"} => x # None /\ x.txn = cmd.txn /\ cand[cmd.txn] = None
    /\ Parsed => /\ p.prev.epoch < MaxEpoch
                 /\ cand[p.txn] # None => cand[p.txn].done
                 /\ dir[p.txn] # None => Derived(p.cand, dir[p.txn].live)
    /\ pc = "ret_tx" => x # None /\ db.mirror = x
    /\ v2 => pc = "serve" /\ x # None /\ db.mirror = x

\* The restore and its files at each stage.
Moved == x # None /\ x.epoch = p.prev.epoch + 1 /\ x.txn = p.txn

StageInv ==
    /\ hidden = None /\ p # Bad
    /\ stage = "none" <=> p = None
    /\ stage \in {"prepared", "advanced", "installed", "reconciled"} => p.state = "PREPARED"
    /\ stage = "terminal" => p.state = "TERMINAL"
    /\ db = None => stage = "advanced"
    /\ stage = "none" =>
         \/ db.mirror = x
         \/ db.mirror = None /\ x = Genesis
    /\ stage = "prepared" =>
         /\ x = p.prev /\ db.mirror = x
         /\ p.cand.mirror = p.prev
    /\ stage \in {"advanced", "installed", "reconciled", "terminal"} => Moved
    /\ stage = "advanced" =>
         /\ ~hot /\ cand[p.txn] # None /\ cand[p.txn].db = p.cand
         /\ dir[p.txn] # None
         /\ (IF db # None THEN db ELSE archive[p.txn]) = dir[p.txn].live
         /\ db # None => db.mirror = p.prev
         /\ Complete(p.cand) /\ p.cand.mirror = p.prev
    /\ stage \in {"installed", "reconciled", "terminal"} => cand[p.txn] = None
    /\ stage = "installed" => db = p.cand /\ db.mirror = p.prev /\ archive[p.txn] # None
    /\ stage \in {"reconciled", "terminal"} => db.mirror = x /\ ~hot
    /\ stage # "advanced" => Complete(db)

\* Which stage a command is at.
CmdInv ==
    /\ pc \in {"serve", "ret_dir"} => stage = "none" /\ ~hot
    /\ pc = "init_mirror" => stage = "none"
    /\ pc \in {"com_record"} \cup Aborting => stage = "prepared"
    /\ pc = "com_record" => ~hot
    /\ pc \in {"inst_archive", "inst_rename"} => stage = "advanced"
    /\ pc \in {"rec_check", "rec_tx"} => stage = "installed"
    /\ pc = "com_terminal" => stage = "reconciled"
    /\ pc # "ret_tx"
    /\ pc \in {"ret_art", "ret_manifest"} => stage = "terminal"

Core == faults = {} => StageInv /\ CmdInv

\* The record, also while it cannot be read.
TheRecord == IF hidden # None THEN hidden ELSE x

\* Where the database is that the record names, unless somebody copies an old
\* one over it.
RecordInv ==
    /\ hidden # None => x = None
    /\ TheRecord # None /\ TheRecord.txn # None =>
         \/ cand[TheRecord.txn] # None /\ cand[TheRecord.txn].done
         \/ db # None /\ (db.mirror = TheRecord \/ archive[TheRecord.txn] # None)
    /\ db = None => TheRecord # None /\ TheRecord.txn # None /\ archive[TheRecord.txn] # None
    /\ pc \in Aborting => x # None /\ db.mirror = x

\* No fence and no audit row is lost, also while files are damaged, neither in
\* the database nor in the candidate that the record names until it is installed.
AuditInv ==
    /\ db # None => Has(db)
    /\ TheRecord # None /\ TheRecord.txn # None /\ cand[TheRecord.txn] # None =>
         /\ cand[TheRecord.txn].done /\ Has(cand[TheRecord.txn].db)
         /\ db # None => db.mirror # TheRecord

Found == "archive" \notin faults => RecordInv /\ AuditInv

IInv == Types /\ PcInv /\ Core /\ Found

----------------------------------------------------------------------------
(* The operators on databases and the classes.                             *)

\* server_audit adds a row and changes nothing else.
LEMMA AuditedIs ==
  ASSUME NEW d \in Content, NEW act, NEW t, <<act, t>> \in Audit
  PROVE  LET e == Audited(d, act, t)
         IN  /\ e \in Content /\ e.audits = d.audits \cup {<<act, t>>}
             /\ e.ctl = d.ctl /\ e.snaps = d.snaps /\ e.fence = d.fence /\ e.marks = d.marks
             /\ e.mirror = d.mirror
  BY DEF Audited, Content

\* The rows that server_audit writes.
LEMMA AuditRows ==
  ASSUME NEW t \in Txns \cup {None}
  PROVE  \A act \in {"prepare", "commit", "abort", "retire", "withdraw"} : <<act, t>> \in Audit
  BY DEF Audit

\* Acknowledge adds the row to what must not be lost.
LEMMA AcknowledgeIs ==
  ASSUME acked \in Acks, NEW act, NEW t, <<act, t>> \in Audit, Acknowledge(act, t)
  PROVE  /\ acked' \in Acks /\ acked'.ctl = acked.ctl /\ acked'.fence = acked.fence
         /\ acked'.audits = acked.audits \cup {<<act, t>>}
  BY DEF Acknowledge, Acks

\* What merge makes of the live database and the backup.
LEMMA MergeIs ==
  ASSUME NEW live \in Content, NEW bk \in Content, x \in Record, x.epoch < MaxEpoch
  PROVE  Merge(live, bk) \in Content /\ Derived(Merge(live, bk), live)
  <1> DEFINE e == Merge(live, bk)
  <1>1. Supersede(live.marks, bk) \in Marks
        BY ConstantsOK DEF Supersede, Marks, Epochs, Unmarked, Record, Content
  <1>2. /\ e.ctl = live.ctl /\ e.audits = live.audits /\ e.mirror = live.mirror
        /\ e.snaps = bk.snaps /\ e.marks = Supersede(live.marks, bk)
        /\ e.fence = IF live.fence < bk.fence THEN bk.fence ELSE live.fence
        /\ e.filed = live.filed /\ e.sess = {}
        BY DEF Merge, Cleared, Content
  <1>3. e \in Content
        BY <1>1 DEF Merge, Cleared, Content
  <1>4. e.fence >= live.fence
        BY <1>2 DEF Content
  <1>5. ASSUME NEW c \in Commits, e.marks[c] = Unmarked PROVE c \in Range(e.snaps)
    <2>1. x.epoch + 1 # Unmarked
          BY ConstantsOK DEF Unmarked, Record, Epochs
    <2> QED BY <1>2, <1>5, <2>1 DEF Supersede, Kept
  <1> QED BY <1>2, <1>3, <1>4, <1>5 DEF Derived

\* Step 5 of a commit.
LEMMA ReconciledIs ==
  ASSUME NEW d \in Content, x \in Record, cmd.txn \in Txns
  PROVE  LET e == Reconciled(d)
         IN  /\ e \in Content /\ e.audits = d.audits \cup {<<"commit", cmd.txn>>}
             /\ e.ctl = d.ctl /\ e.snaps = d.snaps /\ e.fence = d.fence /\ e.marks = d.marks
             /\ e.mirror = x
  <1> DEFINE c == [Cleared(d) EXCEPT !.mirror = x]
  <1>1. /\ c \in Content /\ c.audits = d.audits /\ c.ctl = d.ctl /\ c.snaps = d.snaps
        /\ c.fence = d.fence /\ c.marks = d.marks /\ c.mirror = x
        BY DEF Cleared, Content
  <1>2. <<"commit", cmd.txn>> \in Audit
        BY AuditRows
  <1> HIDE DEF c
  <1>3. LET e == Audited(c, "commit", cmd.txn)
        IN  /\ e \in Content /\ e.audits = c.audits \cup {<<"commit", cmd.txn>>}
            /\ e.ctl = c.ctl /\ e.snaps = c.snaps /\ e.fence = c.fence /\ e.marks = c.marks
            /\ e.mirror = c.mirror
        BY <1>1, <1>2, AuditedIs
  <1> QED BY <1>1, <1>3 DEF Reconciled, c

\* A database that a command reads past a missing journal.
LEMMA MirrorIs ==
  Mirror # None => Readable /\ Mirror = db.mirror
  BY DEF Mirror

\* K3: normal operation.
LEMMA ClassK3 ==
  Class = "K3" => x # None /\ p = None /\ db # None /\ ~hot /\ db.mirror = x
  BY DEF Class, ClassOfManifest, MirrorIsX, Mirror, Readable

\* K7: prepared, and nothing moved.
LEMMA ClassK7 ==
  Class = "K7" =>
    /\ Parsed /\ p.state = "PREPARED" /\ x # None /\ x = p.prev
    /\ db # None /\ ~hot /\ db.mirror = x
  BY DEF Class, ClassOfManifest, Pre, MirrorIsX, Mirror, Readable, Parsed

\* K8 to K11: the record has moved.
LEMMA ClassK8 ==
  Class \in {"K8", "K9", "K10", "K11"} =>
    /\ Parsed /\ x # None /\ x.epoch = p.prev.epoch + 1 /\ x.txn = p.txn
    /\ Class = "K11" <=> p.state # "PREPARED"
    /\ Class = "K8" => C /\ (MirrorIsE \/ db = None)
    /\ Class = "K9" => ~C /\ MirrorBehind
    /\ Class \in {"K10", "K11"} => db # None /\ ~hot /\ db.mirror = x
    /\ Class = "K10" => ~(C /\ (MirrorIsE \/ db = None)) /\ ~(~C /\ MirrorBehind)
  BY DEF Class, ClassOfManifest, Post, MirrorIsX, Mirror, Readable, Parsed

\* K5a and K5b: the manifest is unreadable and the database attests the record.
LEMMA ClassK5 ==
  Class \in {"K5a", "K5b"} => /\ p = Bad /\ x # None /\ db # None /\ ~hot /\ db.mirror = x
                              /\ Class = "K5b" => x.txn # None
  BY NothingIsNew DEF Class, ClassOfManifest, MirrorIsX, Mirror, Readable, Dx

\* Step 7 takes the files out of the directory first.
LEMMA FolderEmptied ==
  ASSUME NEW d \in Folders
  PROVE  [d EXCEPT !.whole = FALSE] \in Folders
  BY DEF Folders

LEMMA Defaults == NoCmd \in Locals /\ Genesis \in Record /\ Empty \in Content
  <1>1. NoCmd \in Locals /\ Genesis \in Record
        BY ConstantsOK DEF NoCmd, Locals, Genesis, Record, Epochs
  <1>2. [c \in Commits |-> None] \in Marks /\ <<>> \in Seq(Commits)
        BY DEF Marks
  <1>3. Empty \in Content
        BY <1>2, ConstantsOK DEF Empty, Content
  <1> QED BY <1>1, <1>3

----------------------------------------------------------------------------
(* What the steps that write a file leave in it.                           *)

\* None and Bad are no records.
LEMMA Something ==
  /\ None \notin Content /\ None \notin Record /\ None \notin Candidates /\ None \notin Folders
  /\ None \notin Manifests /\ Bad \notin Manifests /\ None # Bad /\ None \notin Txns
  BY NothingIsNew, ConstantsOK DEF Candidates, Folders, Manifests

\* What a sequence has when one more element is added.
LEMMA RangeOfAppend ==
  ASSUME NEW s \in Seq(Commits), NEW c \in Commits
  PROVE  Range(Append(s, c)) = Range(s) \cup {c}
  <1>1. DOMAIN s = 1 .. Len(s) /\ DOMAIN Append(s, c) = 1 .. Len(s) + 1 /\ Len(s) \in Nat
        OBVIOUS
  <1>2. \A i \in 1 .. Len(s) : Append(s, c)[i] = s[i]
        OBVIOUS
  <1>3. Append(s, c)[Len(s) + 1] = c
        OBVIOUS
  <1>4. 1 .. Len(s) + 1 = 1 .. Len(s) \cup {Len(s) + 1}
        BY <1>1
  <1> QED BY <1>1, <1>2, <1>3, <1>4, Zenon DEF Range

\* A write of the server, or an audit row, keeps the mirror and whatever was
\* acknowledged, itself included.
ServerWrite ==
    ControlWrite \/ Login \/ FileTransition \/ \E c \in Commits : CommitSnapshot(c)

Write ==
    \/ ServerWrite \/ Withdraw \/ PrepareAudit \/ RetireAudit \/ AbortAudit

LEMMA WriteIs ==
  ASSUME Types, PcInv, Write
  PROVE  /\ db \in Content /\ db' \in Content /\ acked' \in Acks
         /\ db'.mirror = db.mirror
         /\ (Complete(db) => Complete(db)') /\ (Has(db) => Has(db)')
  <1> DEFINE Goal == /\ db \in Content /\ db' \in Content /\ acked' \in Acks
                     /\ db'.mirror = db.mirror
                     /\ (Complete(db) => Complete(db)') /\ (Has(db) => Has(db)')
  <1> SUFFICES Goal
      OBVIOUS
  <1> USE DEF Types
  <1>a. ASSUME NEW act \in {"prepare", "abort", "retire", "withdraw"},
               NEW t \in Txns \cup {None}, NEW d \in Content, db \in Content,
               d.mirror = db.mirror, d.ctl = db.ctl, d.fence = db.fence, d.audits = db.audits,
               d.marks = db.marks, d.snaps = db.snaps,
               db' = Audited(d, act, t), Acknowledge(act, t)
        PROVE  Goal
    <2>1. <<act, t>> \in Audit
          BY AuditRows
    <2>2. /\ db' \in Content /\ db'.audits = d.audits \cup {<<act, t>>}
          /\ db'.ctl = d.ctl /\ db'.snaps = d.snaps /\ db'.fence = d.fence
          /\ db'.marks = d.marks /\ db'.mirror = d.mirror
          BY <1>a, <2>1, AuditedIs
    <2>3. /\ acked' \in Acks /\ acked'.ctl = acked.ctl /\ acked'.fence = acked.fence
          /\ acked'.audits = acked.audits \cup {<<act, t>>}
          BY <1>a, <2>1, AcknowledgeIs
    <2> QED BY <1>a, <2>2, <2>3 DEF Complete, Has
  <1>b. pc \in {"serve", "prep_tx", "ret_tx", "abort_tx"} => db \in Content
        BY DEF PcInv, Preparing, Retiring, Aborting
  <1>1. CASE ControlWrite
    <2>1. db \in Content /\ db.ctl \in Nat
          BY <1>1, <1>b DEF ControlWrite, Content
    <2>2. db' = [db EXCEPT !.ctl = db.ctl + 1] /\ acked' = [acked EXCEPT !.ctl = acked.ctl + 1]
          BY <1>1 DEF ControlWrite
    <2> DEFINE n == db.ctl + 1
    <2>n. n \in Nat
          BY <2>1
    <2> HIDE DEF n
    <2>3. /\ [db EXCEPT !.ctl = n] \in Content
          /\ LET d == [db EXCEPT !.ctl = n]
             IN  /\ d.ctl = n /\ d.mirror = db.mirror /\ d.fence = db.fence
                 /\ d.audits = db.audits /\ d.marks = db.marks /\ d.snaps = db.snaps
          BY <2>1, <2>n DEF Content
    <2> USE DEF n
    <2>4. /\ acked' \in Acks /\ acked'.ctl = acked.ctl + 1 /\ acked'.fence = acked.fence
          /\ acked'.audits = acked.audits
          BY <2>2 DEF Acks
    <2>5. db.ctl = acked.ctl => db.ctl + 1 = acked.ctl + 1
          OBVIOUS
    <2> QED BY <2>1, <2>2, <2>3, <2>4, <2>5 DEF Complete, Has
  <1>2. CASE Login
    <2>1. db \in Content /\ x \in Record
          BY <1>2, <1>b DEF Login, PcInv
    <2>2. /\ db' \in Content /\ db'.ctl = db.ctl /\ db'.mirror = db.mirror
          /\ db'.fence = db.fence /\ db'.audits = db.audits /\ db'.marks = db.marks
          /\ db'.snaps = db.snaps /\ acked' = acked
          BY <1>2, <2>1 DEF Login, Content, Record, env
    <2> QED BY <2>1, <2>2 DEF Complete, Has
  <1>3. CASE FileTransition
    <2>1. /\ db \in Content /\ x \in Record /\ Last(db.snaps) \in Commits
          /\ Last(backup.snaps) \in Commits
          BY <1>3, <1>b DEF FileTransition, PcInv, Content, Last
    <2>2. [epoch |-> x.epoch, prev |-> Last(db.snaps), new |-> Last(backup.snaps)] \in Filed
          BY <2>1 DEF Filed, Record
    <2>3. /\ db' \in Content /\ db'.ctl = db.ctl /\ db'.mirror = db.mirror
          /\ db'.fence = db.fence /\ db'.audits = db.audits /\ db'.marks = db.marks
          /\ db'.snaps = db.snaps /\ acked' = acked
          BY <1>3, <2>1, <2>2 DEF FileTransition, Content, env
    <2> QED BY <2>1, <2>3 DEF Complete, Has
  <1>4. ASSUME NEW c \in Commits, CommitSnapshot(c) PROVE Goal
    <2>1. db \in Content
          BY <1>4, <1>b DEF CommitSnapshot
    <2>2. /\ Append(db.snaps, c) \in Seq(Commits) /\ [db.marks EXCEPT ![c] = Unmarked] \in Marks
          /\ db.fence + 1 \in Nat
          BY <2>1 DEF Content, Marks
    <2>3. /\ db' \in Content /\ db'.ctl = db.ctl /\ db'.mirror = db.mirror
          /\ db'.fence = db.fence + 1 /\ db'.audits = db.audits
          /\ db'.marks = [db.marks EXCEPT ![c] = Unmarked] /\ db'.snaps = Append(db.snaps, c)
          BY <1>4, <2>1, <2>2 DEF CommitSnapshot, Content
    <2>4. /\ acked' \in Acks /\ acked'.ctl = acked.ctl /\ acked'.fence = acked.fence + 1
          /\ acked'.audits = acked.audits
          BY <1>4 DEF CommitSnapshot, Acks
    <2>5. Range(Append(db.snaps, c)) = Range(db.snaps) \cup {c}
          BY <2>1, RangeOfAppend DEF Content
    <2>6. \A e \in Commits : db'.marks[e] = Unmarked => db.marks[e] = Unmarked \/ e = c
          BY <2>1, <2>3 DEF Content, Marks
    <2>7. db.fence \in Nat /\ acked.fence \in Nat
          BY <2>1 DEF Content, Acks
    <2> QED BY <2>1, <2>3, <2>4, <2>5, <2>6, <2>7 DEF Complete, Has
  <1>5. CASE Withdraw
    <2>1. db \in Content
          BY <1>5, ClassK3 DEF Withdraw
    <2> DEFINE d == [db EXCEPT !.filed = None]
    <2>2. /\ d \in Content /\ d.mirror = db.mirror /\ d.ctl = db.ctl /\ d.fence = db.fence
          /\ d.audits = db.audits /\ d.marks = db.marks /\ d.snaps = db.snaps
          BY <2>1 DEF Content
    <2>3. db' = Audited(d, "withdraw", None) /\ Acknowledge("withdraw", None)
          BY <1>5 DEF Withdraw
    <2> HIDE DEF d
    <2> QED BY <1>a, <2>1, <2>2, <2>3
  <1>6. CASE PrepareAudit
    <2>1. db \in Content /\ cmd.txn \in Txns
          BY <1>6, <1>b DEF PrepareAudit, PcInv, Preparing
    <2> QED BY <1>a, <1>6, <2>1 DEF PrepareAudit
  <1>7. CASE RetireAudit
    <2>1. db \in Content /\ cmd.txn \in Txns
          BY <1>7, <1>b DEF RetireAudit, PcInv, Retiring
    <2> QED BY <1>a, <1>7, <2>1 DEF RetireAudit
  <1>8. CASE AbortAudit
    <2>1. db \in Content /\ cmd.txn \in Txns \cup {None}
          BY <1>8, <1>b DEF AbortAudit, Locals
    <2> QED BY <1>a, <1>8, <2>1 DEF AbortAudit
  <1> HIDE DEF Goal, Types
  <1> QED BY <1>1, <1>2, <1>3, <1>4, <1>5, <1>6, <1>7, <1>8 DEF Write, ServerWrite

\* The server writes the database and nothing else.
LEMMA ServerWriteIs ==
  ASSUME Types, PcInv, ServerWrite
  PROVE  /\ db \in Content /\ db' \in Content /\ acked' \in Acks
         /\ db'.mirror = db.mirror /\ (Complete(db) => Complete(db)') /\ (Has(db) => Has(db)')
         /\ pc = "serve"
         /\ (~v2 => acked'.fence = acked.fence /\ acked'.audits = acked.audits)
         /\ UNCHANGED <<x, hidden, hot, backup, cand, dir, archive, p, pc, cmd, v2, stage,
                        crashes, faults>>
  <1>1. /\ db \in Content /\ db' \in Content /\ acked' \in Acks
        /\ db'.mirror = db.mirror /\ (Complete(db) => Complete(db)') /\ (Has(db) => Has(db)')
        BY WriteIs DEF Write
  <1>2. /\ pc = "serve"
        /\ UNCHANGED <<x, hidden, hot, backup, cand, dir, archive, p, pc, cmd, v2, stage,
                       crashes, faults>>
        BY DEF ServerWrite, ControlWrite, Login, FileTransition, CommitSnapshot, proc, env
  <1>3. ~v2 => acked'.fence = acked.fence /\ acked'.audits = acked.audits
        BY DEF ServerWrite, ControlWrite, Login, FileTransition, CommitSnapshot, Types, Acks
  <1> QED BY <1>1, <1>2, <1>3

\* The audit rows of prepare, retire and abort end a transaction; the one of
\* withdraw is in normal operation.
LEMMA PrepareAuditIs ==
  ASSUME Types, PcInv, PrepareAudit
  PROVE  /\ db \in Content /\ db' \in Content /\ acked' \in Acks
         /\ db'.mirror = db.mirror /\ (Complete(db) => Complete(db)') /\ (Has(db) => Has(db)')
         /\ pc = "prep_tx" /\ pc' = "prep_copy" /\ ~hot' /\ hot' \in BOOLEAN
         /\ cmd' \in Locals /\ cmd'.txn = cmd.txn /\ cmd'.live = db'
         /\ UNCHANGED <<x, hidden, backup, cand, dir, archive, p, v2, stage, crashes, faults>>
  <1>1. /\ db \in Content /\ db' \in Content /\ acked' \in Acks
        /\ db'.mirror = db.mirror /\ (Complete(db) => Complete(db)') /\ (Has(db) => Has(db)')
        BY WriteIs DEF Write
  <1> QED BY <1>1 DEF PrepareAudit, Goto, Types, Locals

LEMMA RetireAuditIs ==
  ASSUME Types, PcInv, RetireAudit
  PROVE  /\ db \in Content /\ db' \in Content /\ acked' \in Acks
         /\ db'.mirror = db.mirror /\ (Complete(db) => Complete(db)') /\ (Has(db) => Has(db)')
         /\ pc = "ret_tx" /\ pc' = "ret_art" /\ ~hot' /\ hot' \in BOOLEAN
         /\ UNCHANGED <<x, hidden, backup, cand, dir, archive, p, cmd, v2, stage, crashes,
                        faults>>
  BY WriteIs DEF Write, RetireAudit, Goto

LEMMA AbortAuditIs ==
  ASSUME Types, PcInv, AbortAudit
  PROVE  /\ db \in Content /\ db' \in Content /\ acked' \in Acks
         /\ db'.mirror = db.mirror /\ (Complete(db) => Complete(db)') /\ (Has(db) => Has(db)')
         /\ pc = "abort_tx" /\ pc' = "abort_cand" /\ ~hot' /\ hot' \in BOOLEAN
         /\ UNCHANGED <<x, hidden, backup, cand, dir, archive, p, cmd, v2, stage, crashes,
                        faults>>
  BY WriteIs DEF Write, AbortAudit, Goto

LEMMA WithdrawIs ==
  ASSUME Types, PcInv, Withdraw
  PROVE  /\ db \in Content /\ db' \in Content /\ acked' \in Acks
         /\ db'.mirror = db.mirror /\ (Complete(db) => Complete(db)') /\ (Has(db) => Has(db)')
         /\ pc = "free" /\ x # None /\ p = None /\ db.mirror = x
         /\ UNCHANGED <<x, hidden, hot, backup, cand, dir, archive, p, pc, cmd, v2, stage,
                        crashes, faults>>
  BY WriteIs, ClassK3 DEF Write, Withdraw, proc

\* identity init and step 5 of a commit write the mirror.
LEMMA InitMirrorIs ==
  ASSUME Types, PcInv, InitMirror
  PROVE  /\ x \in Record /\ db \in Content /\ db' \in Content
         /\ db'.mirror = x /\ (Complete(db) => Complete(db)') /\ (Has(db) => Has(db)')
         /\ pc = "init_mirror" /\ pc' = "free" /\ cmd' = NoCmd
         /\ UNCHANGED <<x, hidden, hot, backup, cand, dir, archive, p, v2, acked, stage,
                        crashes, faults>>
  <1>1. x \in Record /\ db \in Content
        BY DEF InitMirror, PcInv, Types
  <1>2. /\ db' \in Content /\ db'.ctl = db.ctl /\ db'.mirror = x
        /\ db'.fence = db.fence /\ db'.audits = db.audits /\ db'.marks = db.marks
        /\ db'.snaps = db.snaps /\ acked' = acked
        BY <1>1 DEF InitMirror, Content, env
  <1>3. /\ pc = "init_mirror" /\ pc' = "free" /\ cmd' = NoCmd
        /\ UNCHANGED <<x, hidden, hot, backup, cand, dir, archive, p, v2, acked, stage,
                       crashes, faults>>
        BY DEF InitMirror, Finish, env
  <1> QED BY <1>1, <1>2, <1>3 DEF Complete, Has

LEMMA ReconcileCommitIs ==
  ASSUME Types, PcInv, ReconcileCommit
  PROVE  /\ x \in Record /\ db \in Content /\ db' \in Content /\ acked' \in Acks
         /\ db'.mirror = x /\ (Complete(db) => Complete(db)') /\ (Has(db) => Has(db)')
         /\ pc = "rec_tx" /\ pc' = "com_terminal" /\ ~hot' /\ hot' \in BOOLEAN
         /\ stage' = "reconciled"
         /\ UNCHANGED <<x, hidden, backup, cand, dir, archive, p, cmd, v2, crashes, faults>>
  <1>1. x \in Record /\ db \in Content /\ cmd.txn \in Txns
        BY DEF ReconcileCommit, PcInv, Committing, Types
  <1>2. /\ db' \in Content /\ db'.audits = db.audits \cup {<<"commit", cmd.txn>>}
        /\ db'.ctl = db.ctl /\ db'.snaps = db.snaps /\ db'.fence = db.fence
        /\ db'.marks = db.marks /\ db'.mirror = x
        BY <1>1, ReconciledIs DEF ReconcileCommit
  <1>3. /\ acked' \in Acks /\ acked'.ctl = acked.ctl /\ acked'.fence = acked.fence
        /\ acked'.audits = acked.audits \cup {<<"commit", cmd.txn>>}
        BY <1>1, AuditRows, AcknowledgeIs DEF ReconcileCommit, Types
  <1>4. /\ pc = "rec_tx" /\ pc' = "com_terminal" /\ ~hot' /\ hot' \in BOOLEAN
        /\ stage' = "reconciled"
        /\ UNCHANGED <<x, hidden, backup, cand, dir, archive, p, cmd, v2, crashes, faults>>
        BY DEF ReconcileCommit, Goto
  <1> QED BY <1>1, <1>2, <1>3, <1>4 DEF Complete, Has

\* prepare writes its candidate and its directory under its own transaction.
LEMMA PrepareCopyIs ==
  ASSUME Types, PcInv, PrepareCopy
  PROVE  /\ cmd.txn \in Txns /\ cand'[cmd.txn] \in Candidates /\ cand'[cmd.txn].db = db
         /\ \A t \in Txns \ {cmd.txn} : cand'[t] = cand[t]
         /\ cand' \in [Txns -> Candidates \cup {None}]
         /\ pc = "prep_copy" /\ pc' = "prep_build"
         /\ UNCHANGED <<x, hidden, db, hot, backup, dir, archive, p, cmd, v2, acked, stage,
                        crashes, faults>>
  <1>1. cmd.txn \in Txns /\ [done |-> FALSE, db |-> db] \in Candidates
        BY DEF Types, PrepareCopy, PcInv, Preparing, Candidates
  <1> QED BY <1>1 DEF PrepareCopy, Types, Goto, env

LEMMA PrepareBuildIs ==
  ASSUME Types, PcInv, PrepareBuild
  PROVE  /\ cmd.txn \in Txns /\ cand'[cmd.txn] \in Candidates /\ cand'[cmd.txn].done
         /\ Derived(cand'[cmd.txn].db, db)
         /\ \A t \in Txns \ {cmd.txn} : cand'[t] = cand[t]
         /\ cand' \in [Txns -> Candidates \cup {None}]
         /\ pc = "prep_build" /\ pc' = "prep_dir"
         /\ UNCHANGED <<x, hidden, db, hot, backup, dir, archive, p, cmd, v2, acked, stage,
                        crashes, faults>>
  <1>1. /\ cmd.txn \in Txns /\ cand[cmd.txn] \in Candidates /\ cand[cmd.txn].db = db
        /\ db \in Content /\ backup \in Content /\ x \in Record /\ x.epoch < MaxEpoch
        BY DEF Types, PrepareBuild, PcInv, Preparing
  <1>2. Merge(db, backup) \in Content /\ Derived(Merge(db, backup), db)
        BY <1>1, MergeIs
  <1>3. [done |-> TRUE, db |-> Merge(db, backup)] \in Candidates
        BY <1>2 DEF Candidates
  <1>4. cand' = [cand EXCEPT ![cmd.txn] = [done |-> TRUE, db |-> Merge(db, backup)]]
        BY <1>1 DEF PrepareBuild
  <1>5. /\ pc = "prep_build" /\ pc' = "prep_dir"
        /\ UNCHANGED <<x, hidden, db, hot, backup, dir, archive, p, cmd, v2, acked, stage,
                       crashes, faults>>
        BY DEF PrepareBuild, Goto, env
  <1> QED BY <1>1, <1>2, <1>3, <1>4, <1>5 DEF Types

LEMMA PrepareDirIs ==
  ASSUME Types, PcInv, PrepareDir
  PROVE  /\ cmd.txn \in Txns /\ dir'[cmd.txn] \in Folders /\ dir'[cmd.txn].live = db
         /\ \A t \in Txns \ {cmd.txn} : dir'[t] = dir[t]
         /\ dir' \in [Txns -> Folders \cup {None}]
         /\ pc = "prep_dir" /\ pc' = "prep_art"
         /\ UNCHANGED <<x, hidden, db, hot, backup, cand, archive, p, cmd, v2, acked,
                        stage, crashes, faults>>
  <1>1. cmd.txn \in Txns /\ cmd.live = db /\ db \in Content
        BY DEF Types, PrepareDir, PcInv, Preparing
  <1>2. FiledNow(cmd.live) \in Filed \cup {None}
        BY <1>1 DEF FiledNow, FiledAt, Content
  <1>3. [live |-> cmd.live, filed |-> FiledNow(cmd.live), whole |-> FALSE] \in Folders
        BY <1>1, <1>2 DEF Folders
  <1> QED BY <1>1, <1>3 DEF PrepareDir, Types, Goto, env

LEMMA PrepareArtifactsIs ==
  ASSUME Types, PcInv, PrepareArtifacts
  PROVE  /\ cmd.txn \in Txns /\ dir'[cmd.txn] \in Folders /\ dir'[cmd.txn].live = db
         /\ \A t \in Txns \ {cmd.txn} : dir'[t] = dir[t]
         /\ dir' \in [Txns -> Folders \cup {None}]
         /\ pc = "prep_art" /\ pc' = "prep_manifest"
         /\ UNCHANGED <<x, hidden, db, hot, backup, cand, archive, p, cmd, v2, acked,
                        stage, crashes, faults>>
  <1>1. cmd.txn \in Txns /\ dir[cmd.txn] \in Folders /\ dir[cmd.txn].live = db
        BY DEF Types, PrepareArtifacts, PcInv, Preparing
  <1>2. /\ [dir[cmd.txn] EXCEPT !.whole = TRUE] \in Folders
        /\ [dir[cmd.txn] EXCEPT !.whole = TRUE].live = db
        BY <1>1 DEF Folders
  <1> QED BY <1>1, <1>2 DEF PrepareArtifacts, Types, Goto, env

LEMMA PrepareManifestIs ==
  ASSUME Types, PcInv, PrepareManifest
  PROVE  /\ cmd.txn \in Txns /\ x \in Record
         /\ p' \in Manifests /\ p'.state = "PREPARED" /\ p'.prev = x /\ p'.txn = cmd.txn
         /\ p'.cand = cand[cmd.txn].db
         /\ pc = "prep_manifest" /\ pc' = "free" /\ cmd' = NoCmd /\ stage' = "prepared"
         /\ UNCHANGED <<x, hidden, db, hot, backup, cand, dir, archive, v2, acked, crashes,
                        faults>>
  <1>1. cmd.txn \in Txns /\ cand[cmd.txn] \in Candidates /\ x \in Record
        BY DEF Types, PrepareManifest, PcInv, Preparing
  <1> QED BY <1>1 DEF PrepareManifest, Manifests, Candidates, Finish

\* The record moves to the next epoch, the manifest becomes terminal.
LEMMA CommitRecordIs ==
  ASSUME Types, PcInv, CommitRecord
  PROVE  /\ p \in Manifests /\ p.prev \in Record /\ p.prev.epoch \in Nat
         /\ x' \in Record /\ x'.epoch = p.prev.epoch + 1 /\ x'.txn = p.txn
         /\ pc = "com_record" /\ pc' = "inst_archive" /\ stage' = "advanced"
         /\ UNCHANGED <<hidden, db, hot, backup, cand, dir, archive, p, cmd, v2, acked,
                        crashes, faults>>
  <1>1. p \in Manifests /\ p.prev \in Record /\ p.prev.epoch < MaxEpoch
        BY DEF Types, CommitRecord, PcInv, Committing, Parsed, Manifests
  <1> QED BY <1>1, ConstantsOK DEF CommitRecord, Manifests, Record, Epochs, Goto

\* The candidate has what the database has that was copied.
LEMMA CandidateIsComplete ==
  ASSUME Types, PcInv, CommitRecord
  PROVE  (Has(db) => Has(p.cand)) /\ (Complete(db) => Complete(p.cand))
  <1>1. /\ UnchangedSincePrepare /\ Parsed /\ db \in Content
        BY DEF CommitRecord, PcInv, Committing, Types
  <1>2. p.cand \in Content /\ Derived(p.cand, db)
        BY <1>1 DEF PcInv, UnchangedSincePrepare, Types, Parsed, Manifests
  <1>3. p.cand.fence \in Nat /\ db.fence \in Nat /\ acked.fence \in Nat
        BY <1>1, <1>2 DEF Content, Acks, Types
  <1>4. Has(db) => Has(p.cand)
        BY <1>2, <1>3 DEF Derived, Has
  <1> QED BY <1>2, <1>4 DEF Derived, Complete

LEMMA CommitTerminalIs ==
  ASSUME Types, PcInv, CommitTerminal
  PROVE  /\ p \in Manifests /\ p' \in Manifests /\ p'.state = "TERMINAL"
         /\ p'.prev = p.prev /\ p'.txn = p.txn /\ p'.cand = p.cand
         /\ pc = "com_terminal" /\ pc' = "ret_art" /\ stage' = "terminal"
         /\ UNCHANGED <<x, hidden, db, hot, backup, cand, dir, archive, cmd, v2, acked,
                        crashes, faults>>
  <1>1. p \in Manifests
        BY DEF Types, CommitTerminal, PcInv, Committing, Parsed
  <1> QED BY <1>1 DEF CommitTerminal, Manifests, Goto

\* The candidate becomes the database.
LEMMA InstallRenameIs ==
  ASSUME Types, PcInv, InstallRename
  PROVE  /\ cmd.txn \in Txns /\ cand[cmd.txn] \in Candidates
         /\ db' = cand[cmd.txn].db /\ db' \in Content
         /\ cand' \in [Txns -> Candidates \cup {None}] /\ cand'[cmd.txn] = None
         /\ \A t \in Txns \ {cmd.txn} : cand'[t] = cand[t]
         /\ pc = "inst_rename" /\ pc' = "rec_check" /\ stage' = "installed"
         /\ UNCHANGED <<x, hidden, hot, backup, dir, archive, p, cmd, v2, acked, crashes,
                        faults>>
  BY DEF InstallRename, Goto, PcInv, Committing, Types, Candidates

\* restore commit starts at the step that its class names.
LEMMA CommitPreparedIs ==
  ASSUME Types, CommitPrepared
  PROVE  /\ Parsed /\ p \in Manifests /\ p.state = "PREPARED" /\ x # None /\ x = p.prev
         /\ db # None /\ ~hot /\ db.mirror = x
         /\ UnchangedSincePrepare /\ cand[p.txn] # None
         /\ pc = "free" /\ pc' = "com_record" /\ cmd' \in Locals /\ cmd'.txn = p.txn
         /\ UNCHANGED <<site, v2, env>>
  <1>1. /\ Parsed /\ p \in Manifests /\ p.state = "PREPARED" /\ x # None /\ x = p.prev
        /\ db # None /\ ~hot /\ db.mirror = x /\ UnchangedSincePrepare /\ cand[p.txn] # None
        BY ClassK7 DEF CommitPrepared, Parsed, Types, UnchangedSincePrepare
  <1> QED BY <1>1 DEF CommitPrepared, Resume, Locals, Manifests

LEMMA CommitInstallIs ==
  ASSUME Types, CommitInstall
  PROVE  /\ Parsed /\ p \in Manifests /\ p.state = "PREPARED" /\ x # None /\ Moved
         /\ x.txn = p.txn /\ cand[p.txn] # None /\ cand[p.txn].done
         /\ pc = "free" /\ pc' = "inst_archive" /\ cmd' \in Locals /\ cmd'.txn = p.txn
         /\ UNCHANGED <<site, v2, env>>
  <1>1. /\ Parsed /\ p \in Manifests /\ p.state = "PREPARED" /\ x # None /\ Moved
        /\ x.txn = p.txn /\ cand[p.txn] # None /\ cand[p.txn].done
        BY ClassK8 DEF CommitInstall, Parsed, Types, Moved, C
  <1> QED BY <1>1 DEF CommitInstall, Resume, Locals, Manifests

LEMMA CommitReconcileIs ==
  ASSUME Types, CommitReconcile
  PROVE  /\ Parsed /\ p \in Manifests /\ p.state = "PREPARED" /\ x # None /\ Moved /\ x.txn = p.txn
         /\ db # None /\ (hot \/ db.mirror # x)
         /\ (cand[p.txn] = None \/ ~cand[p.txn].done)
         /\ pc = "free" /\ pc' = "rec_check" /\ cmd' \in Locals /\ cmd'.txn = p.txn
         /\ UNCHANGED <<site, v2, env>>
  <1>1. /\ Parsed /\ p \in Manifests /\ p.state = "PREPARED" /\ x # None /\ Moved /\ x.txn = p.txn
        /\ db # None /\ (hot \/ db.mirror # x)
        /\ (cand[p.txn] = None \/ ~cand[p.txn].done)
        BY ClassK8 DEF CommitReconcile, Parsed, Types, Moved, C, MirrorBehind, Mirror, Readable,
                       Manifests, Record, Epochs
  <1> QED BY <1>1 DEF CommitReconcile, Resume, Locals, Manifests

LEMMA CommitReadbackIs ==
  ASSUME Types, CommitReadback
  PROVE  /\ Parsed /\ p \in Manifests /\ p.state = "PREPARED" /\ x # None /\ Moved
         /\ db # None /\ ~hot /\ db.mirror = x
         /\ pc = "free" /\ pc' = "com_terminal" /\ cmd' \in Locals /\ cmd'.txn = p.txn
         /\ UNCHANGED <<site, v2, env>>
  <1>1. /\ Parsed /\ p \in Manifests /\ p.state = "PREPARED" /\ x # None /\ Moved
        /\ db # None /\ ~hot /\ db.mirror = x
        BY ClassK8 DEF CommitReadback, Parsed, Types, Moved
  <1> QED BY <1>1 DEF CommitReadback, Resume, Locals, Manifests

LEMMA CommitRetireIs ==
  ASSUME Types, CommitRetire
  PROVE  /\ Parsed /\ p \in Manifests /\ p.state = "TERMINAL" /\ x # None /\ Moved
         /\ db # None /\ ~hot /\ db.mirror = x
         /\ pc = "free" /\ pc' = "ret_art" /\ cmd' \in Locals /\ cmd'.txn = p.txn
         /\ UNCHANGED <<site, v2, env>>
  <1>1. /\ Parsed /\ p \in Manifests /\ p.state = "TERMINAL" /\ x # None /\ Moved
        /\ db # None /\ ~hot /\ db.mirror = x
        BY ClassK8 DEF CommitRetire, Parsed, Types, Moved, Manifests
  <1> QED BY <1>1 DEF CommitRetire, Resume, Locals, Manifests

\* A start that may write is one of K1, K3 and K4.
LEMMA StartIs ==
  ASSUME Types, Start
  PROVE  /\ pc = "free" /\ UNCHANGED <<x, hidden, backup, cand, dir, archive, p, cmd, env>>
         /\ db' \in Content /\ (db # None => db' = db)
         /\ \/ pc' = "serve_ro" /\ v2' = FALSE /\ db' = db /\ hot' = hot
            \/ pc' = "serve" /\ hot' = FALSE /\ v2' \in BOOLEAN /\ (x = None \/ p = None)
         /\ v2' => x # None /\ db'.mirror = x
         /\ db = None => StartGate
  <1>1. /\ pc = "free" /\ UNCHANGED <<x, hidden, backup, cand, dir, archive, p, cmd, env>>
        /\ db' \in Content /\ (db # None => db' = db)
        /\ StartGate
        BY Defaults DEF Start, Types
  <1>2. \/ pc' = "serve_ro" /\ v2' = FALSE /\ db' = db /\ hot' = hot
        \/ pc' = "serve" /\ hot' = FALSE /\ v2' = Authority(db') /\ Class \in {"K1", "K3", "K4"}
        BY DEF Start, Goto, ReadOnly
  <1>3. Class = "K1" => x = None
        BY DEF Class, ClassOfManifest
  <1>4. Class \in {"K3", "K4"} => p = None
        BY DEF Class, ClassOfManifest
  <1> QED BY <1>1, <1>2, <1>3, <1>4 DEF Authority

----------------------------------------------------------------------------
(* Every step keeps it.                                                    *)

\* What kinds of fault there were is never taken back.
LEMMA FaultsGrow == [Next]_vars => faults \subseteq faults'
  <1> SUFFICES ASSUME [Next]_vars
               PROVE  faults \subseteq faults'
      OBVIOUS
  <1>1. CASE CommandStep
        BY <1>1 DEF CommandStep, InitMirror, PrepareAudit, PrepareCopy, PrepareBuild,
              PrepareRefuse, PrepareDir, PrepareArtifacts, PrepareManifest, CommitRecord,
              InstallArchive, InstallRename, ReconcileBegin, ReconcileCommit,
              CommitTerminal, RetireAudit, RetireArtifacts, RetireManifest, RetireDir,
              AbortAudit, AbortCandidates, AbortDirs, AbortManifest, env
  <1>2. CASE ServerStep
        BY <1>2 DEF ServerStep, Start, Stop, ControlWrite, Login, FileTransition,
              CommitSnapshot, env
  <1>3. CASE OperatorStep
        BY <1>3 DEF OperatorStep, InitRecord, TakeBackup, Withdraw, CommitStart,
              CommitPrepared, CommitInstall, CommitReconcile, CommitReadback,
              CommitRetire, RetireBegin, AbortBegin, PrepareBegin, AbortOrphans, env
  <1>4. CASE FaultStep
        BY <1>4 DEF FaultStep, Crash, HideRecord, ShowRecord, DamageManifest,
              PutArchiveBack, Fault, env
  <1>5. CASE UNCHANGED vars
        BY <1>5 DEF vars, env
  <1> QED BY <1>1, <1>2, <1>3, <1>4, <1>5 DEF Next

\* Every value keeps its kind.
LEMMA NextTypes == IInv /\ [Next]_vars => Types'
  <1> SUFFICES ASSUME Types, PcInv, [Next]_vars
               PROVE  Types'
      BY DEF IInv
  <1> USE NothingIsNew DEF Types, PCs, Stages
  <1>1. CASE InitMirror
        BY <1>1, InitMirrorIs, Defaults
  <1>2. CASE PrepareAudit
        BY <1>2, PrepareAuditIs
  <1>3. CASE PrepareCopy
        BY <1>3, PrepareCopyIs
  <1>4. CASE PrepareBuild
        BY <1>4, PrepareBuildIs
  <1>5. CASE PrepareRefuse
    <2>1. cand' \in [Txns -> Candidates \cup {None}]
          BY <1>5 DEF PrepareRefuse
    <2>2. cmd' \in Locals /\ pc' \in PCs
          BY <1>5, Defaults DEF PrepareRefuse, Finish
    <2>3. UNCHANGED <<x, hidden, db, hot, backup, dir, archive, p, v2, acked, stage,
                      crashes, faults>>
          BY <1>5 DEF PrepareRefuse, env
    <2> QED BY <2>1, <2>2, <2>3
  <1>6. CASE PrepareDir
        BY <1>6, PrepareDirIs
  <1>7. CASE PrepareArtifacts
        BY <1>7, PrepareArtifactsIs
  <1>8. CASE PrepareManifest
        BY <1>8, PrepareManifestIs, Defaults
  <1>9. CASE CommitRecord
        BY <1>9, CommitRecordIs
  <1>10. CASE InstallArchive
    <2>1. cmd' \in Locals
          BY <1>10, Defaults DEF InstallArchive, Finish
    <2>2. db' \in Content \cup {None} /\ archive' \in [Txns -> Content \cup {None}]
          BY <1>10 DEF InstallArchive
    <2>3. hot' \in BOOLEAN /\ pc' \in PCs
          BY <1>10 DEF InstallArchive, Goto, Finish
    <2>4. UNCHANGED <<x, hidden, backup, cand, dir, p, v2, acked, stage, crashes, faults>>
          BY <1>10 DEF InstallArchive, env
    <2> QED BY <2>1, <2>2, <2>3, <2>4
  <1>11. CASE InstallRename
        BY <1>11, InstallRenameIs
  <1>12. CASE ReconcileBegin
    <2>1. cmd' \in Locals /\ hot' \in BOOLEAN
          BY <1>12, Defaults DEF ReconcileBegin, Finish
    <2> QED BY <1>12, <2>1 DEF ReconcileBegin, env, Goto, Finish
  <1>13. CASE ReconcileCommit
        BY <1>13, ReconcileCommitIs
  <1>14. CASE CommitTerminal
        BY <1>14, CommitTerminalIs
  <1>15. CASE RetireAudit
        BY <1>15, RetireAuditIs
  <1>16. CASE RetireArtifacts
    <2>1. cmd.txn \in Txns
          BY <1>16 DEF RetireArtifacts, PcInv, Retiring
    <2>2. dir[cmd.txn] # None => [dir[cmd.txn] EXCEPT !.whole = FALSE] \in Folders
          BY <2>1, FolderEmptied
    <2>3. dir' \in [Txns -> Folders \cup {None}]
          BY <1>16, <2>1, <2>2 DEF RetireArtifacts
    <2> QED BY <1>16, <2>1, <2>2, <2>3 DEF RetireArtifacts, env, Goto
  <1>17. CASE RetireManifest
        BY <1>17 DEF RetireManifest, Goto
  <1>18. CASE RetireDir
    <2>1. dir' \in [Txns -> Folders \cup {None}]
          BY <1>18 DEF RetireDir
    <2>2. cmd' \in Locals /\ pc' \in PCs
          BY <1>18, Defaults DEF RetireDir, Finish
    <2>3. UNCHANGED <<x, hidden, db, hot, backup, cand, archive, p, v2, acked, stage,
                      crashes, faults>>
          BY <1>18 DEF RetireDir, env
    <2> QED BY <2>1, <2>2, <2>3
  <1>19. CASE AbortAudit
        BY <1>19, AbortAuditIs
  <1>20. CASE AbortCandidates
        BY <1>20 DEF AbortCandidates, env, Goto
  <1>21. CASE AbortDirs
        BY <1>21 DEF AbortDirs, env, Goto
  <1>22. CASE AbortManifest
        BY <1>22, Defaults DEF AbortManifest, Finish
  <1>23. CASE Start
        BY <1>23, StartIs DEF env
  <1>24. CASE Stop
        BY <1>24, Defaults DEF Stop, site, env, Finish
  <1>25. CASE ServerWrite
        BY <1>25, ServerWriteIs
  <1>26. CASE InitRecord
        BY <1>26, Defaults DEF InitRecord, env, Goto
  <1>27. CASE TakeBackup
        BY <1>27 DEF TakeBackup, proc, env
  <1>28. CASE Withdraw
        BY <1>28, WithdrawIs
  <1>29. CASE CommitPrepared
        BY <1>29, CommitPreparedIs DEF site, env
  <1>30. CASE CommitInstall
        BY <1>30, CommitInstallIs DEF site, env
  <1>31. CASE CommitReconcile
        BY <1>31, CommitReconcileIs DEF site, env
  <1>32. CASE CommitReadback
        BY <1>32, CommitReadbackIs DEF site, env
  <1>33. CASE CommitRetire
        BY <1>33, CommitRetireIs DEF site, env
  <1>34. CASE RetireBegin
    <2>1. x \in Record
          BY <1>34, ClassK5 DEF RetireBegin
    <2>2. cmd' \in Locals
          BY <1>34, <2>1 DEF RetireBegin, Resume, Locals, Record
    <2> QED BY <1>34, <2>1, <2>2 DEF RetireBegin, env, Resume
  <1>35. CASE AbortBegin
    <2>1. cmd' \in Locals
          BY <1>35 DEF AbortBegin, Resume, Locals, Manifests, Parsed
    <2> QED BY <1>35, <2>1 DEF AbortBegin, env, Resume
  <1>36. ASSUME NEW t \in Txns, PrepareBegin(t), Drawn(t) PROVE Types'
    <2>1. cmd' \in Locals
          BY <1>36 DEF PrepareBegin, Locals
    <2> QED BY <1>36, <2>1 DEF PrepareBegin, env, Goto
  <1>37. ASSUME NEW C1 \in SUBSET Strays, NEW D1 \in SUBSET Strays,
               NEW A1 \in SUBSET (Orphans \ Strays), AbortOrphans(C1, D1, A1)
        PROVE  Types'
        BY <1>37 DEF AbortOrphans, proc, env
  <1>38. CASE Crash
    <2>1. hot' \in BOOLEAN /\ v2' \in BOOLEAN
          BY <1>38 DEF Crash
    <2>2. cmd' \in Locals /\ pc' \in PCs /\ crashes' \in Nat
          BY <1>38, Defaults DEF Crash, Finish
    <2>3. UNCHANGED <<x, hidden, db, backup, cand, dir, archive, p, acked, stage, faults>>
          BY <1>38 DEF Crash
    <2> QED BY <2>1, <2>2, <2>3
  <1>39. CASE HideRecord
        BY <1>39 DEF HideRecord, proc, Fault
  <1>40. CASE ShowRecord
        BY <1>40 DEF ShowRecord, proc, env
  <1>41. CASE DamageManifest
        BY <1>41 DEF DamageManifest, proc, Fault
  <1>42. ASSUME NEW t \in Txns, PutArchiveBack(t) PROVE Types'
    <2>1. db' \in Content /\ faults' \in SUBSET Faults
          BY <1>42 DEF PutArchiveBack, Fault
    <2>2. hot' \in BOOLEAN
          BY <1>42 DEF PutArchiveBack
    <2>3. UNCHANGED <<x, hidden, backup, cand, dir, archive, p, proc, acked, stage, crashes>>
          BY <1>42 DEF PutArchiveBack
    <2> QED BY <2>1, <2>2, <2>3 DEF proc
  <1>43. CASE UNCHANGED vars
        BY <1>43 DEF vars, site, proc, env
  <1> HIDE DEF Types
  <1> QED
        BY <1>1, <1>2, <1>3, <1>4, <1>5, <1>6, <1>7, <1>8, <1>9, <1>10, <1>11, <1>12,
            <1>13, <1>14, <1>15, <1>16, <1>17, <1>18, <1>19, <1>20, <1>21, <1>22,
            <1>23, <1>24, <1>25, <1>26, <1>27, <1>28, <1>29, <1>30, <1>31, <1>32,
            <1>33, <1>34, <1>35, <1>36, <1>37, <1>38, <1>39, <1>40, <1>41, <1>42,
            <1>43 DEF Next, CommandStep, ServerStep, OperatorStep, FaultStep,
            CommitStart, ServerWrite

\* What a running command relies on.
LEMMA NextPcInv == IInv /\ [Next]_vars => PcInv'
  <1> SUFFICES ASSUME Types, PcInv, [Next]_vars
               PROVE  PcInv'
      BY DEF IInv
  <1> USE ConstantsOK, NothingIsNew DEF Epochs, Record, Unmarked, Stages, PCs, Genesis,
            Parsed, UnchangedSincePrepare, Candidates, Folders, Manifests, Types, Preparing,
            Committing, Retiring, Aborting, Derived, PcInv
  <1>1. CASE InitMirror
        BY SMTT(30), <1>1, InitMirrorIs, Something
  <1>2. CASE PrepareAudit
        BY <1>2, PrepareAuditIs, Something
  <1>3. CASE PrepareCopy
        BY SMTT(30), <1>3, PrepareCopyIs, Something
  <1>4. CASE PrepareBuild
    <2>1. /\ cmd.txn \in Txns /\ cand'[cmd.txn] # None /\ cand'[cmd.txn].done
          /\ Derived(cand'[cmd.txn].db, db)
          /\ pc = "prep_build" /\ pc' = "prep_dir"
          /\ UNCHANGED <<x, hidden, db, hot, backup, dir, archive, p, cmd, v2>>
          BY <1>4, PrepareBuildIs, Something
    <2> QED BY <2>1
  <1>5. CASE PrepareRefuse
        BY <1>5 DEF NoCmd, Finish, PrepareRefuse
  <1>6. CASE PrepareDir
        BY <1>6, PrepareDirIs, Something
  <1>7. CASE PrepareArtifacts
        BY <1>7, PrepareArtifactsIs, Something
  <1>8. CASE PrepareManifest
        BY SMTT(30), <1>8, PrepareManifestIs, Something
  <1>9. CASE CommitRecord
        BY SMTT(30), <1>9, CommitRecordIs, Something
  <1>10. CASE InstallArchive
        BY <1>10 DEF NoCmd, Goto, Finish, InstallArchive
  <1>11. CASE InstallRename
        BY SMTT(30), <1>11, InstallRenameIs, Something
  <1>12. CASE ReconcileBegin
        BY <1>12 DEF NoCmd, Goto, Finish, ReconcileBegin
  <1>13. CASE ReconcileCommit
        BY SMTT(30), <1>13, ReconcileCommitIs, Something
  <1>14. CASE CommitTerminal
        BY SMTT(30), <1>14, CommitTerminalIs, Something
  <1>15. CASE RetireAudit
    <2>1. /\ db' # None /\ db'.mirror = db.mirror /\ pc = "ret_tx" /\ pc' = "ret_art" /\ ~hot'
          /\ UNCHANGED <<x, hidden, backup, cand, dir, archive, p, cmd, v2>>
          BY <1>15, RetireAuditIs, Something
    <2> QED BY <2>1
  <1>16. CASE RetireArtifacts
        BY <1>16 DEF Goto, RetireArtifacts
  <1>17. CASE RetireManifest
        BY <1>17 DEF Goto, RetireManifest
  <1>18. CASE RetireDir
        BY <1>18 DEF NoCmd, Finish, RetireDir
  <1>19. CASE AbortAudit
        BY <1>19, AbortAuditIs, Something
  <1>20. CASE AbortCandidates
        BY <1>20 DEF Goto, AbortCandidates
  <1>21. CASE AbortDirs
        BY <1>21 DEF Goto, AbortDirs
  <1>22. CASE AbortManifest
        BY <1>22 DEF NoCmd, Finish, AbortManifest
  <1>23. CASE Start
    <2>1. /\ pc = "free" /\ UNCHANGED <<x, hidden, backup, cand, dir, archive, p, cmd>>
          /\ db' \in Content /\ (db # None => db' = db) /\ pc' \in {"serve", "serve_ro"}
          /\ v2' => pc' = "serve" /\ x # None /\ db'.mirror = x
          BY <1>23, StartIs DEF env
    <2> QED BY SMTT(30), <2>1
  <1>24. CASE Stop
        BY <1>24 DEF site, env, NoCmd, Finish, Stop
  <1>25. CASE ServerWrite
        BY <1>25, ServerWriteIs, Something
  <1>26. CASE InitRecord
        BY <1>26 DEF Goto, InitRecord
  <1>27. CASE TakeBackup
        BY <1>27 DEF proc, env, TakeBackup
  <1>28. CASE Withdraw
        BY SMTT(30), <1>28, WithdrawIs, Something
  <1>29. CASE CommitPrepared
        BY <1>29, CommitPreparedIs DEF site, env
  <1>30. CASE CommitInstall
        BY <1>30, CommitInstallIs DEF site, env
  <1>31. CASE CommitReconcile
        BY <1>31, CommitReconcileIs DEF site, env
  <1>32. CASE CommitReadback
        BY <1>32, CommitReadbackIs DEF site, env
  <1>33. CASE CommitRetire
        BY <1>33, CommitRetireIs DEF site, env
  <1>34. CASE RetireBegin
        BY <1>34, ClassK3, ClassK5 DEF Resume, RetireBegin
  <1>35. CASE AbortBegin
        BY <1>35 DEF Resume, Abortable, AbortBegin
  <1>36. ASSUME NEW t \in Txns, PrepareBegin(t), Drawn(t) PROVE PcInv'
        BY <1>36, ClassK3, ClassK5 DEF Goto, CleanK3, PrepareBegin, Drawn
  <1>37. ASSUME NEW C1 \in SUBSET Strays, NEW D1 \in SUBSET Strays,
               NEW A1 \in SUBSET (Orphans \ Strays), AbortOrphans(C1, D1, A1)
        PROVE  PcInv'
        BY <1>37 DEF proc, env, AbortOrphans
  <1>38. CASE Crash
        BY <1>38 DEF NoCmd, Finish, Crash
  <1>39. CASE HideRecord
        BY <1>39 DEF proc, Fault, HideRecord
  <1>40. CASE ShowRecord
        BY <1>40 DEF proc, env, ShowRecord
  <1>41. CASE DamageManifest
        BY <1>41 DEF proc, Fault, DamageManifest
  <1>42. ASSUME NEW t \in Txns, PutArchiveBack(t) PROVE PcInv'
        BY <1>42 DEF proc, Fault, PutArchiveBack
  <1>43. CASE UNCHANGED vars
        BY <1>43 DEF vars, site, proc, env
  <1> HIDE DEF Types, PcInv
  <1> QED
        BY <1>1, <1>2, <1>3, <1>4, <1>5, <1>6, <1>7, <1>8, <1>9, <1>10, <1>11, <1>12,
            <1>13, <1>14, <1>15, <1>16, <1>17, <1>18, <1>19, <1>20, <1>21, <1>22,
            <1>23, <1>24, <1>25, <1>26, <1>27, <1>28, <1>29, <1>30, <1>31, <1>32,
            <1>33, <1>34, <1>35, <1>36, <1>37, <1>38, <1>39, <1>40, <1>41, <1>42,
            <1>43 DEF Next, CommandStep, ServerStep, OperatorStep, FaultStep,
            CommitStart, ServerWrite

\* The files at each stage, while nothing is damaged by hand.
LEMMA NextStageInv ==
    Types /\ PcInv /\ StageInv /\ CmdInv /\ Types' /\ faults = {} /\ faults' = {} /\ [Next]_vars
      => StageInv'
  <1> SUFFICES ASSUME Types, PcInv, StageInv, CmdInv, Types', faults = {}, faults' = {}, [Next]_vars
               PROVE  StageInv'
      OBVIOUS
  <1> USE ConstantsOK, NothingIsNew DEF Epochs, Record, Unmarked, Stages, PCs, Genesis,
            Candidates, Folders, Manifests, Types, Has, Complete, Moved, StageInv
  <1>1. CASE InitMirror
        BY <1>1, InitMirrorIs DEF CmdInv
  <1>2. CASE PrepareAudit
        BY <1>2, PrepareAuditIs DEF Preparing, Retiring, PcInv
  <1>3. CASE PrepareCopy
        BY <1>3, PrepareCopyIs DEF Preparing, Retiring, PcInv
  <1>4. CASE PrepareBuild
        BY <1>4, PrepareBuildIs DEF Preparing, Retiring, PcInv
  <1>5. CASE PrepareRefuse
        BY <1>5 DEF env, NoCmd, Parsed, Finish, PrepareRefuse, Preparing, Retiring, PcInv
  <1>6. CASE PrepareDir
        BY <1>6, PrepareDirIs
  <1>7. CASE PrepareArtifacts
        BY <1>7, PrepareArtifactsIs
  <1>8. CASE PrepareManifest
        BY <1>8, PrepareManifestIs DEF Preparing, Retiring, Derived, PcInv
  <1>9. CASE CommitRecord
    <2>1. /\ stage = "prepared" /\ UnchangedSincePrepare /\ ~hot /\ db # None
          /\ Parsed /\ cmd.txn = p.txn
          BY <1>9, CommitRecordIs DEF PcInv, CmdInv, Committing
    <2>2. /\ hidden = None /\ p.state = "PREPARED" /\ p.cand.mirror = p.prev /\ db.mirror = p.prev
          /\ Complete(db)
          BY <2>1 DEF UnchangedSincePrepare
    <2> HIDE DEF StageInv, Types, Complete
    <2>3. Complete(p.cand)
          BY <1>9, <2>1, <2>2, CandidateIsComplete, CommitRecordIs
    <2> USE DEF StageInv, Types
    <2>4. Complete(p.cand)' /\ Complete(db)' /\ Moved'
          BY <1>9, <2>2, <2>3, CommitRecordIs DEF Complete
    <2> HIDE DEF Complete, Derived, Has, Moved
    <2> QED BY <1>9, <2>1, <2>2, <2>4, CommitRecordIs DEF Parsed, UnchangedSincePrepare
  <1>10. CASE InstallArchive
        BY <1>10 DEF env, NoCmd, Parsed, Goto, Finish, InstallArchive, PcInv, CmdInv
  <1>11. CASE InstallRename
        BY <1>11, InstallRenameIs DEF PcInv
  <1>12. CASE ReconcileBegin
        BY <1>12 DEF env, NoCmd, Goto, Finish, ReconcileBegin, CmdInv
  <1>13. CASE ReconcileCommit
        BY <1>13, ReconcileCommitIs DEF CmdInv
  <1>14. CASE CommitTerminal
        BY <1>14, CommitTerminalIs DEF CmdInv
  <1>15. CASE RetireAudit
        BY <1>15, RetireAuditIs DEF CmdInv
  <1>16. CASE RetireArtifacts
        BY <1>16 DEF env, Goto, RetireArtifacts, CmdInv
  <1>17. CASE RetireManifest
        BY <1>17 DEF Goto, RetireManifest, CmdInv
  <1>18. CASE RetireDir
        BY <1>18 DEF env, NoCmd, Finish, RetireDir, CmdInv
  <1>19. CASE AbortAudit
        BY <1>19, AbortAuditIs DEF Committing, Aborting, PcInv, CmdInv
  <1>20. CASE AbortCandidates
        BY <1>20 DEF env, Parsed, Goto, AbortCandidates, Committing, Aborting, PcInv,
              CmdInv
  <1>21. CASE AbortDirs
        BY <1>21 DEF env, Parsed, Goto, AbortDirs, Committing, Aborting, PcInv, CmdInv
  <1>22. CASE AbortManifest
        BY <1>22 DEF NoCmd, Finish, AbortManifest, Committing, Aborting, PcInv, CmdInv
  <1>23. CASE Start
    <2>1. db = None \/ stage # "none" => x # None /\ p # None
          BY Something
    <2>2. db' = db /\ UNCHANGED <<x, hidden, cand, dir, archive, p, acked, stage>>
          BY <1>23, <2>1, StartIs DEF env
    <2>3. hot' => hot
          BY <1>23, StartIs
    <2> QED BY <2>2, <2>3
  <1>24. CASE Stop
        BY <1>24 DEF site, env, NoCmd, Finish, Stop
  <1>25. CASE ServerWrite
        BY <1>25, ServerWriteIs DEF CmdInv
  <1>26. CASE InitRecord
        BY <1>26 DEF env, Goto, InitRecord
  <1>27. CASE TakeBackup
        BY <1>27 DEF proc, env, TakeBackup
  <1>28. CASE Withdraw
        BY <1>28, WithdrawIs
  <1>29. CASE CommitPrepared
        BY <1>29, CommitPreparedIs DEF site, env
  <1>30. CASE CommitInstall
        BY <1>30, CommitInstallIs DEF site, env
  <1>31. CASE CommitReconcile
        BY <1>31, CommitReconcileIs DEF site, env
  <1>32. CASE CommitReadback
        BY <1>32, CommitReadbackIs DEF site, env
  <1>33. CASE CommitRetire
        BY <1>33, CommitRetireIs DEF site, env
  <1>34. CASE RetireBegin
        BY <1>34, ClassK3, ClassK5 DEF Resume, RetireBegin
  <1>35. CASE AbortBegin
        BY <1>35, ClassK3, ClassK5, ClassK7, ClassK8 DEF env, Resume, Abortable,
              AbortBegin
  <1>36. ASSUME NEW t \in Txns, PrepareBegin(t), Drawn(t) PROVE StageInv'
        BY <1>36, ClassK3, ClassK5 DEF env, Goto, CleanK3, PrepareBegin, Drawn
  <1>37. ASSUME NEW C1 \in SUBSET Strays, NEW D1 \in SUBSET Strays,
               NEW A1 \in SUBSET (Orphans \ Strays), AbortOrphans(C1, D1, A1)
        PROVE  StageInv'
        BY <1>37, ClassK3, ClassK5 DEF proc, env, AbortOrphans
  <1>38. CASE Crash
        BY <1>38 DEF NoCmd, Finish, Crash, CmdInv
  <1>39. CASE HideRecord
        BY <1>39 DEF Fault, HideRecord
  <1>40. CASE ShowRecord
        BY <1>40 DEF ShowRecord
  <1>41. CASE DamageManifest
        BY <1>41 DEF Fault, DamageManifest
  <1>42. ASSUME NEW t \in Txns, PutArchiveBack(t) PROVE StageInv'
        BY <1>42 DEF Fault, PutArchiveBack
  <1>43. CASE UNCHANGED vars
        BY <1>43 DEF vars, site, proc, env
  <1> HIDE DEF Types, StageInv
  <1> QED
        BY <1>1, <1>2, <1>3, <1>4, <1>5, <1>6, <1>7, <1>8, <1>9, <1>10, <1>11, <1>12,
            <1>13, <1>14, <1>15, <1>16, <1>17, <1>18, <1>19, <1>20, <1>21, <1>22,
            <1>23, <1>24, <1>25, <1>26, <1>27, <1>28, <1>29, <1>30, <1>31, <1>32,
            <1>33, <1>34, <1>35, <1>36, <1>37, <1>38, <1>39, <1>40, <1>41, <1>42,
            <1>43 DEF Next, CommandStep, ServerStep, OperatorStep, FaultStep,
            CommitStart, ServerWrite

\* The stage each command is at.
LEMMA NextCmdInv ==
    Types /\ PcInv /\ StageInv /\ CmdInv /\ Types' /\ faults = {} /\ faults' = {} /\ [Next]_vars
      => CmdInv'
  <1> SUFFICES ASSUME Types, PcInv, StageInv, CmdInv, Types', faults = {}, faults' = {}, [Next]_vars
               PROVE  CmdInv'
      OBVIOUS
  <1> USE ConstantsOK, NothingIsNew DEF Epochs, Record, Stages, PCs, Candidates, Folders,
            Manifests, Types, Aborting, CmdInv
  <1>1. CASE InitMirror
        BY <1>1, InitMirrorIs
  <1>2. CASE PrepareAudit
        BY <1>2, PrepareAuditIs
  <1>3. CASE PrepareCopy
        BY <1>3, PrepareCopyIs
  <1>4. CASE PrepareBuild
        BY <1>4, PrepareBuildIs
  <1>5. CASE PrepareRefuse
        BY <1>5 DEF NoCmd, Finish, PrepareRefuse
  <1>6. CASE PrepareDir
        BY <1>6, PrepareDirIs
  <1>7. CASE PrepareArtifacts
        BY <1>7, PrepareArtifactsIs
  <1>8. CASE PrepareManifest
        BY <1>8, PrepareManifestIs
  <1>9. CASE CommitRecord
        BY <1>9, CommitRecordIs
  <1>10. CASE InstallArchive
        BY <1>10 DEF env, NoCmd, Goto, Finish, InstallArchive
  <1>11. CASE InstallRename
        BY <1>11, InstallRenameIs
  <1>12. CASE ReconcileBegin
        BY <1>12 DEF env, NoCmd, Goto, Finish, ReconcileBegin
  <1>13. CASE ReconcileCommit
        BY <1>13, ReconcileCommitIs
  <1>14. CASE CommitTerminal
        BY <1>14, CommitTerminalIs
  <1>15. CASE RetireAudit
        BY <1>15, RetireAuditIs
  <1>16. CASE RetireArtifacts
        BY <1>16 DEF env, Goto, RetireArtifacts
  <1>17. CASE RetireManifest
        BY <1>17 DEF Goto, RetireManifest, StageInv
  <1>18. CASE RetireDir
        BY <1>18 DEF NoCmd, Finish, RetireDir
  <1>19. CASE AbortAudit
        BY <1>19, AbortAuditIs
  <1>20. CASE AbortCandidates
        BY <1>20 DEF env, Goto, AbortCandidates
  <1>21. CASE AbortDirs
        BY <1>21 DEF env, Goto, AbortDirs
  <1>22. CASE AbortManifest
        BY <1>22 DEF NoCmd, Finish, AbortManifest
  <1>23. CASE Start
    <2>1. stage # "none" => x # None /\ p # None
          BY Something DEF StageInv, Moved
    <2> QED BY <1>23, <2>1, StartIs DEF env
  <1>24. CASE Stop
        BY <1>24 DEF NoCmd, Finish, Stop
  <1>25. CASE ServerWrite
        BY <1>25, ServerWriteIs
  <1>26. CASE InitRecord
        BY <1>26 DEF env, Goto, InitRecord, UnchangedSincePrepare, Moved, StageInv
  <1>27. CASE TakeBackup
        BY <1>27 DEF proc, env, TakeBackup
  <1>28. CASE Withdraw
        BY <1>28, WithdrawIs
  <1>29. CASE CommitPrepared
        BY <1>29, CommitPreparedIs DEF site, env, UnchangedSincePrepare, Moved, StageInv
  <1>30. CASE CommitInstall
        BY <1>30, CommitInstallIs DEF site, env, UnchangedSincePrepare, Moved, StageInv
  <1>31. CASE CommitReconcile
        BY <1>31, CommitReconcileIs DEF site, env, Parsed, UnchangedSincePrepare, PcInv,
              Moved, StageInv
  <1>32. CASE CommitReadback
        BY <1>32, CommitReadbackIs DEF site, env, UnchangedSincePrepare, Moved, StageInv
  <1>33. CASE CommitRetire
        BY <1>33, CommitRetireIs DEF site, env, StageInv
  <1>34. CASE RetireBegin
        BY <1>34, ClassK3, ClassK5 DEF Resume, RetireBegin, StageInv
  <1>35. CASE AbortBegin
        BY <1>35, ClassK3, ClassK5, ClassK7, ClassK8 DEF env, Parsed, Resume,
              UnchangedSincePrepare, Abortable, AbortBegin, PcInv, Moved, StageInv
  <1>36. ASSUME NEW t \in Txns, PrepareBegin(t), Drawn(t) PROVE CmdInv'
        BY <1>36 DEF Goto, CleanK3, PrepareBegin, Drawn
  <1>37. ASSUME NEW C1 \in SUBSET Strays, NEW D1 \in SUBSET Strays,
               NEW A1 \in SUBSET (Orphans \ Strays), AbortOrphans(C1, D1, A1)
        PROVE  CmdInv'
        BY <1>37 DEF proc, env, AbortOrphans
  <1>38. CASE Crash
        BY <1>38 DEF NoCmd, Finish, Crash
  <1>39. CASE HideRecord
        BY <1>39 DEF Fault, HideRecord
  <1>40. CASE ShowRecord
        BY <1>40 DEF proc, env, ShowRecord
  <1>41. CASE DamageManifest
        BY <1>41 DEF Fault, DamageManifest
  <1>42. ASSUME NEW t \in Txns, PutArchiveBack(t) PROVE CmdInv'
        BY <1>42 DEF Fault, PutArchiveBack
  <1>43. CASE UNCHANGED vars
        BY <1>43 DEF vars, site, proc, env
  <1> HIDE DEF Types, CmdInv
  <1> QED
        BY <1>1, <1>2, <1>3, <1>4, <1>5, <1>6, <1>7, <1>8, <1>9, <1>10, <1>11, <1>12,
            <1>13, <1>14, <1>15, <1>16, <1>17, <1>18, <1>19, <1>20, <1>21, <1>22,
            <1>23, <1>24, <1>25, <1>26, <1>27, <1>28, <1>29, <1>30, <1>31, <1>32,
            <1>33, <1>34, <1>35, <1>36, <1>37, <1>38, <1>39, <1>40, <1>41, <1>42,
            <1>43 DEF Next, CommandStep, ServerStep, OperatorStep, FaultStep,
            CommitStart, ServerWrite

\* The record and its database, while no archive is copied back.
LEMMA NextRecordInv ==
    Types /\ PcInv /\ RecordInv /\ Types' /\ "archive" \notin faults' /\ [Next]_vars
      => RecordInv'
  <1> SUFFICES ASSUME Types, PcInv, RecordInv, Types', "archive" \notin faults', [Next]_vars
               PROVE  RecordInv'
      OBVIOUS
  <1> USE ConstantsOK, NothingIsNew DEF Epochs, Record, Stages, PCs, Candidates, Folders,
            Manifests, Types, Aborting, TheRecord, RecordInv
  <1>1. CASE InitMirror
        BY <1>1, InitMirrorIs
  <1>2. CASE PrepareAudit
        BY <1>2, PrepareAuditIs
  <1>3. CASE PrepareCopy
        BY <1>3, PrepareCopyIs DEF Preparing, Retiring, PcInv
  <1>4. CASE PrepareBuild
        BY <1>4, PrepareBuildIs
  <1>5. CASE PrepareRefuse
        BY <1>5 DEF NoCmd, Finish, PrepareRefuse, Preparing, Retiring, PcInv
  <1>6. CASE PrepareDir
        BY <1>6, PrepareDirIs
  <1>7. CASE PrepareArtifacts
        BY <1>7, PrepareArtifactsIs
  <1>8. CASE PrepareManifest
        BY <1>8, PrepareManifestIs
  <1>9. CASE CommitRecord
        BY <1>9, CommitRecordIs DEF Committing, PcInv
  <1>10. CASE InstallArchive
        BY <1>10 DEF NoCmd, Goto, Finish, InstallArchive, Committing, PcInv
  <1>11. CASE InstallRename
        BY <1>11, InstallRenameIs DEF PcInv
  <1>12. CASE ReconcileBegin
        BY <1>12 DEF NoCmd, Goto, Finish, ReconcileBegin
  <1>13. CASE ReconcileCommit
        BY <1>13, ReconcileCommitIs
  <1>14. CASE CommitTerminal
        BY <1>14, CommitTerminalIs
  <1>15. CASE RetireAudit
        BY <1>15, RetireAuditIs
  <1>16. CASE RetireArtifacts
        BY <1>16 DEF Goto, RetireArtifacts
  <1>17. CASE RetireManifest
        BY <1>17 DEF Goto, RetireManifest
  <1>18. CASE RetireDir
        BY <1>18 DEF NoCmd, Finish, RetireDir
  <1>19. CASE AbortAudit
        BY <1>19, AbortAuditIs
  <1>20. CASE AbortCandidates
        BY <1>20 DEF Goto, AbortCandidates, PcInv
  <1>21. CASE AbortDirs
        BY <1>21 DEF Goto, AbortDirs
  <1>22. CASE AbortManifest
        BY <1>22 DEF NoCmd, Finish, AbortManifest
  <1>23. CASE Start
        BY <1>23, StartIs DEF Class, Strays, Orphans, StartGate
  <1>24. CASE Stop
        BY <1>24 DEF site, env, NoCmd, Finish, Stop
  <1>25. CASE ServerWrite
        BY <1>25, ServerWriteIs
  <1>26. CASE InitRecord
        BY <1>26 DEF Unmarked, Genesis, Goto, InitRecord, Derived
  <1>27. CASE TakeBackup
        BY <1>27 DEF proc, env, TakeBackup
  <1>28. CASE Withdraw
        BY <1>28, WithdrawIs
  <1>29. CASE CommitPrepared
        BY <1>29, CommitPreparedIs DEF site, env
  <1>30. CASE CommitInstall
        BY <1>30, CommitInstallIs DEF site, env
  <1>31. CASE CommitReconcile
        BY <1>31, CommitReconcileIs DEF site, env
  <1>32. CASE CommitReadback
        BY <1>32, CommitReadbackIs DEF site, env
  <1>33. CASE CommitRetire
        BY <1>33, CommitRetireIs DEF site, env
  <1>34. CASE RetireBegin
        BY <1>34 DEF Resume, RetireBegin
  <1>35. CASE AbortBegin
        BY <1>35, ClassK3, ClassK5, ClassK7, ClassK8 DEF Resume, Abortable, AbortBegin
  <1>36. ASSUME NEW t \in Txns, PrepareBegin(t), Drawn(t) PROVE RecordInv'
        BY <1>36 DEF Goto, CleanK3, PrepareBegin, Drawn
  <1>37. ASSUME NEW C1 \in SUBSET Strays, NEW D1 \in SUBSET Strays,
               NEW A1 \in SUBSET (Orphans \ Strays), AbortOrphans(C1, D1, A1)
        PROVE  RecordInv'
        BY <1>37, ClassK3, ClassK5 DEF AbortOrphans
  <1>38. CASE Crash
        BY <1>38 DEF NoCmd, Finish, Crash
  <1>39. CASE HideRecord
        BY <1>39 DEF proc, Fault, HideRecord
  <1>40. CASE ShowRecord
        BY <1>40 DEF proc, env, ShowRecord
  <1>41. CASE DamageManifest
        BY <1>41 DEF proc, Fault, DamageManifest
  <1>42. ASSUME NEW t \in Txns, PutArchiveBack(t) PROVE RecordInv'
        BY <1>42 DEF Fault, PutArchiveBack
  <1>43. CASE UNCHANGED vars
        BY <1>43 DEF vars, site, proc, env
  <1> HIDE DEF Types, RecordInv
  <1> QED
        BY <1>1, <1>2, <1>3, <1>4, <1>5, <1>6, <1>7, <1>8, <1>9, <1>10, <1>11, <1>12,
            <1>13, <1>14, <1>15, <1>16, <1>17, <1>18, <1>19, <1>20, <1>21, <1>22,
            <1>23, <1>24, <1>25, <1>26, <1>27, <1>28, <1>29, <1>30, <1>31, <1>32,
            <1>33, <1>34, <1>35, <1>36, <1>37, <1>38, <1>39, <1>40, <1>41, <1>42,
            <1>43 DEF Next, CommandStep, ServerStep, OperatorStep, FaultStep,
            CommitStart, ServerWrite

\* The fences and the audit rows, while no archive is copied back.
LEMMA NextAuditInv ==
    Types /\ PcInv /\ RecordInv /\ AuditInv /\ Types' /\ "archive" \notin faults' /\ [Next]_vars
      => AuditInv'
  <1> SUFFICES ASSUME Types, PcInv, RecordInv, AuditInv, Types', "archive" \notin faults',
                      [Next]_vars
               PROVE  AuditInv'
      OBVIOUS
  <1> USE ConstantsOK, NothingIsNew DEF Epochs, Record, Stages, PCs, Candidates, Folders,
            Manifests, Types, Has, TheRecord, AuditInv
  <1>1. CASE InitMirror
        BY SMTT(30), <1>1, InitMirrorIs DEF Unmarked, Genesis, Derived, PcInv
  <1>2. CASE PrepareAudit
        BY <1>2, PrepareAuditIs DEF Preparing, Retiring, PcInv, RecordInv
  <1>3. CASE PrepareCopy
        BY <1>3, PrepareCopyIs DEF Preparing, Retiring, PcInv, RecordInv
  <1>4. CASE PrepareBuild
        BY <1>4, PrepareBuildIs DEF Preparing, Retiring, PcInv, RecordInv
  <1>5. CASE PrepareRefuse
        BY <1>5 DEF env, NoCmd, Finish, PrepareRefuse
  <1>6. CASE PrepareDir
        BY <1>6, PrepareDirIs
  <1>7. CASE PrepareArtifacts
        BY <1>7, PrepareArtifactsIs
  <1>8. CASE PrepareManifest
        BY <1>8, PrepareManifestIs
  <1>9. CASE CommitRecord
    <2>1. /\ UnchangedSincePrepare /\ db # None /\ Parsed /\ cmd.txn = p.txn /\ p.txn \in Txns
          /\ db.mirror = p.prev /\ x # None
          BY <1>9, CommitRecordIs DEF PcInv, Committing
    <2>2. Has(db) /\ hidden = None
          BY <2>1 DEF RecordInv
    <2> HIDE DEF AuditInv, Types
    <2>3. Has(p.cand)
          BY <1>9, <2>1, <2>2, CandidateIsComplete
    <2>4. /\ TheRecord' = x' /\ x'.txn = p.txn /\ db' = db /\ db'.mirror # x'
          /\ cand'[p.txn] # None /\ cand'[p.txn].db = p.cand /\ cand'[p.txn].done
          BY <1>9, <2>1, <2>2, CommitRecordIs DEF PcInv, UnchangedSincePrepare
    <2> QED BY <1>9, <2>2, <2>3, <2>4, CommitRecordIs DEF AuditInv
  <1>10. CASE InstallArchive
        BY <1>10 DEF env, NoCmd, Goto, Finish, InstallArchive
  <1>11. CASE InstallRename
        BY <1>11, InstallRenameIs DEF PcInv, RecordInv
  <1>12. CASE ReconcileBegin
        BY <1>12 DEF env, NoCmd, Goto, Finish, ReconcileBegin
  <1>13. CASE ReconcileCommit
        BY <1>13, ReconcileCommitIs DEF PcInv, RecordInv
  <1>14. CASE CommitTerminal
        BY <1>14, CommitTerminalIs
  <1>15. CASE RetireAudit
        BY <1>15, RetireAuditIs DEF PcInv, RecordInv
  <1>16. CASE RetireArtifacts
        BY <1>16 DEF env, Goto, RetireArtifacts
  <1>17. CASE RetireManifest
        BY <1>17 DEF Goto, RetireManifest
  <1>18. CASE RetireDir
        BY <1>18 DEF env, NoCmd, Finish, RetireDir
  <1>19. CASE AbortAudit
        BY <1>19, AbortAuditIs DEF Committing, Aborting, PcInv, RecordInv
  <1>20. CASE AbortCandidates
        BY <1>20 DEF env, Goto, AbortCandidates
  <1>21. CASE AbortDirs
        BY <1>21 DEF env, Goto, AbortDirs
  <1>22. CASE AbortManifest
        BY <1>22 DEF NoCmd, Finish, AbortManifest
  <1>23. CASE Start
        BY <1>23, StartIs DEF env, Readable, Mirror, MirrorIsX, Class, Strays, Orphans,
              StartGate, RecordInv
  <1>24. CASE Stop
        BY <1>24 DEF site, env, NoCmd, Finish, Stop
  <1>25. CASE ServerWrite
        BY <1>25, ServerWriteIs DEF PcInv, RecordInv
  <1>26. CASE InitRecord
        BY <1>26 DEF env, Unmarked, Genesis, Goto, InitRecord, Derived
  <1>27. CASE TakeBackup
        BY <1>27 DEF proc, env, TakeBackup
  <1>28. CASE Withdraw
        BY <1>28, WithdrawIs DEF RecordInv
  <1>29. CASE CommitPrepared
        BY <1>29, CommitPreparedIs DEF site, env
  <1>30. CASE CommitInstall
        BY <1>30, CommitInstallIs DEF site, env
  <1>31. CASE CommitReconcile
        BY <1>31, CommitReconcileIs DEF site, env
  <1>32. CASE CommitReadback
        BY <1>32, CommitReadbackIs DEF site, env
  <1>33. CASE CommitRetire
        BY <1>33, CommitRetireIs DEF site, env
  <1>34. CASE RetireBegin
        BY <1>34 DEF env, Resume, RetireBegin
  <1>35. CASE AbortBegin
        BY <1>35 DEF env, Resume, Abortable, AbortBegin
  <1>36. ASSUME NEW t \in Txns, PrepareBegin(t), Drawn(t) PROVE AuditInv'
        BY <1>36 DEF env, Goto, CleanK3, PrepareBegin, Drawn
  <1>37. ASSUME NEW C1 \in SUBSET Strays, NEW D1 \in SUBSET Strays,
               NEW A1 \in SUBSET (Orphans \ Strays), AbortOrphans(C1, D1, A1)
        PROVE  AuditInv'
        BY <1>37 DEF proc, env, AbortOrphans
  <1>38. CASE Crash
        BY <1>38 DEF NoCmd, Finish, Crash
  <1>39. CASE HideRecord
        BY <1>39 DEF Fault, HideRecord, RecordInv
  <1>40. CASE ShowRecord
        BY <1>40 DEF proc, env, ShowRecord
  <1>41. CASE DamageManifest
        BY <1>41 DEF Fault, DamageManifest
  <1>42. ASSUME NEW t \in Txns, PutArchiveBack(t) PROVE AuditInv'
        BY <1>42 DEF Fault, PutArchiveBack
  <1>43. CASE UNCHANGED vars
        BY <1>43 DEF vars, site, proc, env
  <1> HIDE DEF Types, AuditInv
  <1> QED
        BY <1>1, <1>2, <1>3, <1>4, <1>5, <1>6, <1>7, <1>8, <1>9, <1>10, <1>11, <1>12,
            <1>13, <1>14, <1>15, <1>16, <1>17, <1>18, <1>19, <1>20, <1>21, <1>22,
            <1>23, <1>24, <1>25, <1>26, <1>27, <1>28, <1>29, <1>30, <1>31, <1>32,
            <1>33, <1>34, <1>35, <1>36, <1>37, <1>38, <1>39, <1>40, <1>41, <1>42,
            <1>43 DEF Next, CommandStep, ServerStep, OperatorStep, FaultStep,
            CommitStart, ServerWrite

\* The whole invariant, from the start and over every step.
LEMMA InitInv == Init => IInv
  <1> SUFFICES ASSUME Init PROVE IInv
      OBVIOUS
  <1>1. Types
        BY Defaults DEF Init, Types, PCs, Stages, Acks
  <1>2. /\ db = Empty /\ db.mirror = None /\ db.ctl = 0 /\ db.fence = 0
        /\ \A c \in Commits : db.marks[c] = None
        BY DEF Init, Empty
  <1>3. PcInv
        BY DEF Init, PcInv, Preparing, Committing, Retiring, Aborting, Parsed
  <1>4. None # Unmarked
        BY ConstantsOK DEF Unmarked
  <1>5. Complete(db)
        BY <1>2, <1>4 DEF Init, Complete, Has
  <1>6. StageInv /\ CmdInv
        BY <1>2, <1>5, NothingIsNew, Defaults, Something
        DEF Init, StageInv, CmdInv, Aborting, Genesis
  <1>7. RecordInv /\ AuditInv
        BY <1>1, <1>5, Defaults, Something
        DEF Init, RecordInv, AuditInv, TheRecord, Aborting, Complete
  <1> QED BY <1>1, <1>3, <1>6, <1>7 DEF IInv, Core, Found

LEMMA NextInv == IInv /\ [Next]_vars => IInv'
  <1> SUFFICES ASSUME IInv, [Next]_vars PROVE IInv'
      OBVIOUS
  <1>1. Types' /\ PcInv'
        BY NextTypes, NextPcInv
  <1>2. Core'
    <2> SUFFICES ASSUME faults' = {} PROVE StageInv' /\ CmdInv'
        BY DEF Core
    <2>1. faults = {}
          BY FaultsGrow DEF IInv
    <2> QED BY <1>1, <2>1, NextStageInv, NextCmdInv DEF IInv, Core
  <1>3. Found'
    <2> SUFFICES ASSUME "archive" \notin faults' PROVE RecordInv' /\ AuditInv'
        BY DEF Found
    <2>1. "archive" \notin faults
          BY FaultsGrow
    <2> QED BY <1>1, <2>1, NextRecordInv, NextAuditInv DEF IInv, Found
  <1> QED BY <1>1, <1>2, <1>3 DEF IInv

LEMMA Invariance == Spec => []IInv
  BY InitInv, NextInv, PTL DEF Spec

----------------------------------------------------------------------------
(* What follows from it.                                                   *)

\* Restore keeps every acknowledged control-plane write, audit row and fence in
\* the database that normal operation uses, wherever it was cut, resumed or
\* aborted, as long as no file was damaged by hand (merge, install, reconcile).
THEOREM NothingTakenBack == Spec => []NothingLost
  <1>1. IInv => NothingLost
    <2> SUFFICES ASSUME IInv, faults = {}, Class = "K3"
                 PROVE  /\ db.ctl = acked.ctl /\ db.fence >= acked.fence
                        /\ acked.audits \subseteq db.audits
        BY DEF NothingLost
    <2>1. stage = "none"
          BY ClassK3 DEF IInv, Core, StageInv
    <2> QED BY <2>1 DEF IInv, Core, StageInv, Complete, Has
  <1> QED BY <1>1, Invariance, PTL

\* A server with v2 on replays no receipt of a snapshot that is gone: supersede
\* marked the ledger rows that the restore rolled back.
THEOREM ReceiptsHaveSnapshots == Spec => [](faults = {} => NoDanglingReceipt)
  <1>1. IInv => (faults = {} => NoDanglingReceipt)
        BY DEF IInv, Core, StageInv, CmdInv, Complete, NoDanglingReceipt
  <1> QED BY <1>1, Invariance, PTL

\* classify tells from the files alone how far a restore came, wherever it was
\* cut, except in the audit transaction of an abort.
THEOREM FilesTellProgress == Spec => []CommitResumes
  <1>1. IInv => CommitResumes
    <2> SUFFICES ASSUME IInv, faults = {}, pc = "free", x # None, db # None => db.mirror # None,
                        ~(hot /\ stage = "prepared")
                 PROVE  \/ Class = ClassOfStage[stage]
                        \/ hot /\ stage = "none" /\ Class = "K4"
        BY DEF CommitResumes, ClassTellsProgress
    <2>1. Types /\ StageInv
          BY DEF IInv, Core
    <2>2. x \in Record /\ x.epoch \in Nat
          BY <2>1, ConstantsOK DEF Types, Record, Epochs
    <2>3. stage = "none" => /\ p = None /\ db # None /\ db.mirror = x
          BY <2>1 DEF StageInv
    <2>4. CASE stage = "none"
          BY <2>2, <2>3, <2>4 DEF Class, Mirror, Readable, MirrorIsX, ClassOfStage
    <2>5. ASSUME stage # "none"
          PROVE  p \in Manifests /\ Parsed /\ p.prev \in Record /\ p.prev.epoch \in Nat
          BY <2>1, <2>5, ConstantsOK, NothingIsNew
          DEF Types, StageInv, Parsed, Manifests, Record, Epochs
    <2>6. CASE stage = "prepared"
      <3>1. x = p.prev /\ db # None /\ db.mirror = x /\ p.state = "PREPARED"
            BY <2>1, <2>6 DEF StageInv
      <3> QED BY <2>2, <2>5, <2>6, <3>1
              DEF Class, ClassOfManifest, Pre, Post, Mirror, Readable, MirrorIsX, MirrorIsE,
                  MirrorBehind, Parsed, ClassOfStage
    <2>7. CASE stage = "advanced"
      <3>1. /\ Moved /\ ~hot /\ C /\ p.state = "PREPARED"
            /\ db # None => db.mirror = p.prev
            BY <2>1, <2>5, <2>7 DEF StageInv, IInv, PcInv, C
      <3>2. x # p.prev /\ p.prev.epoch < x.epoch
            BY <2>2, <2>5, <2>7, <3>1 DEF Moved
      <3> QED BY <2>2, <2>5, <2>7, <3>1, <3>2, NothingIsNew
              DEF Class, ClassOfManifest, Pre, Post, Mirror, Readable, MirrorIsX, MirrorIsE,
                  Parsed, ClassOfStage, Moved
    <2>8. CASE stage = "installed"
      <3>1. /\ Moved /\ ~C /\ p.state = "PREPARED" /\ db # None /\ db.mirror = p.prev
            BY <2>1, <2>5, <2>8 DEF StageInv, C
      <3>2. x # p.prev /\ p.prev.epoch < x.epoch
            BY <2>2, <2>5, <2>8, <3>1 DEF Moved
      <3> QED BY <2>2, <2>5, <2>8, <3>1, <3>2, NothingIsNew
              DEF Class, ClassOfManifest, Pre, Post, Mirror, Readable, MirrorIsX, MirrorIsE,
                  MirrorBehind, Parsed, ClassOfStage, Moved
    <2>9. CASE stage \in {"reconciled", "terminal"}
      <3>1. /\ Moved /\ ~C /\ ~hot /\ db # None /\ db.mirror = x
            /\ p.state = IF stage = "terminal" THEN "TERMINAL" ELSE "PREPARED"
            BY <2>1, <2>5, <2>9 DEF StageInv, C
      <3>2. x # p.prev /\ ~(x.epoch <= p.prev.epoch)
            BY <2>2, <2>5, <2>9, <3>1 DEF Moved
      <3> QED BY <2>2, <2>5, <2>9, <3>1, <3>2, NothingIsNew
              DEF Class, ClassOfManifest, Pre, Post, Mirror, Readable, MirrorIsX, MirrorIsE,
                  MirrorBehind, Parsed, ClassOfStage, Moved
    <2> QED BY <2>1, <2>4, <2>6, <2>7, <2>8, <2>9 DEF Types, Stages
  <1> QED BY <1>1, Invariance, PTL

\* Install archives the very database that prepare copied.
THEOREM FrozenUntilInstalled == Spec => []LiveIsFrozen
  <1>1. IInv => LiveIsFrozen
        BY DEF IInv, Core, StageInv, LiveIsFrozen
  <1> QED BY <1>1, Invariance, PTL

\* The database that the record names is there, also when the record or the
\* manifest cannot be read for a while, unless somebody copies an archive over
\* it.
THEOREM RecordsAreBacked == Spec => []("archive" \notin faults => RecordHasDatabase)
  <1>1. IInv => ("archive" \notin faults => RecordHasDatabase)
        BY DEF IInv, Found, RecordInv, TheRecord, RecordHasDatabase
  <1> QED BY <1>1, Invariance, PTL

\* No server that writes, in whatever class, runs on a database that lacks an
\* audit row or a fence, also when the record or the manifest cannot be read for
\* a while, until somebody copies an old database to the DB path: no empty one
\* is made in the middle of a restore (startup_gate), and the candidate that is
\* installed has every row that was written since prepare.
THEOREM ServedDatabaseHasAudits == Spec => []ServedHasAudits
  <1>1. IInv => ServedHasAudits
        BY DEF IInv, Found, AuditInv, PcInv, Has, ServedHasAudits
  <1> QED BY <1>1, Invariance, PTL

----------------------------------------------------------------------------
(* The size of the databases.                                              *)

\* Every database there is, wherever it lies.
Held ==
    ({db, backup, cmd.live} \cup {archive[t] : t \in Txns}
       \cup {cand[t].db : t \in {u \in Txns : cand[u] # None}}
       \cup {dir[t].live : t \in {u \in Txns : dir[u] # None}}
       \cup (IF Parsed THEN {p.cand} ELSE {})) \ {None}

\* The commits a database has a ledger row of.
Marked(d) == {c \in Commits : d.marks[c] # None}

\* A history repeats no commit and each has its ledger row, and the fence is not
\* ahead of the ledger.
Sized(d) ==
    /\ d.ctl <= MaxCtl
    /\ Cardinality(Range(d.snaps)) = Len(d.snaps) /\ Range(d.snaps) \subseteq Marked(d)
    /\ d.fence <= Cardinality(Marked(d))

\* No database has a ledger row that the one at the DB path, or the manifest's
\* candidate, lacks.
DbNewest   == \A e \in Held : Marked(e) \subseteq Marked(db)
CandNewest == \A e \in Held : Marked(e) \subseteq Marked(p.cand)

\* The files of a restore, faults or not: the candidate is the manifest's and an
\* archive is of an earlier epoch, so that one put back never speaks for the record.
FileInv ==
    /\ hidden # None => x = None
    /\ db = None => \E t \in Txns : archive[t] # None
    /\ \A t \in Txns : archive[t] # None =>
         TheRecord # None /\ archive[t].mirror # None /\ archive[t].mirror.epoch < TheRecord.epoch
    /\ v2 => p = None
    /\ pc \in {"prep_dir", "prep_art", "prep_manifest"} =>
         Marked(db) \subseteq Marked(cand[cmd.txn].db)
    /\ Parsed => /\ TheRecord # None /\ p.cand.mirror = p.prev
                 /\ cand[p.txn] # None => cand[p.txn].db = p.cand
                 /\ dir[p.txn] # None => Marked(dir[p.txn].live) \subseteq Marked(p.cand)
    /\ pc \in {"inst_archive", "inst_rename", "rec_check", "rec_tx"} =>
         x # None /\ x.epoch = p.prev.epoch + 1
    /\ pc = "inst_archive" /\ db # None => db.mirror = p.prev
    /\ pc = "rec_tx" => db = p.cand

\* The database that speaks for the record, or is going to, has the whole ledger.
NewestInv ==
    /\ db # None /\ db.mirror = TheRecord => DbNewest
    /\ pc = "init_mirror" => DbNewest
    /\ Parsed /\ TheRecord # p.prev => CandNewest

SizeInv ==
    /\ \A d \in Held : Sized(d)
    /\ crashes <= MaxCrash

\* A step that makes no new ledger row.
NoNewRow == \A e \in Held' : Sized(e) /\ \E d \in Held : Marked(e) \subseteq Marked(d)

LEMMA HeldIs ==
  /\ \A d : d \in Held <=>
       /\ d # None
       /\ \/ d \in {db, backup, cmd.live} \/ \E t \in Txns : d = archive[t]
          \/ \E t \in Txns : cand[t] # None /\ d = cand[t].db
          \/ \E t \in Txns : dir[t] # None /\ d = dir[t].live
          \/ Parsed /\ d = p.cand
  /\ \A d : d \in Held' <=>
       /\ d # None
       /\ \/ d \in {db', backup', cmd'.live} \/ \E t \in Txns : d = archive'[t]
          \/ \E t \in Txns : cand'[t] # None /\ d = cand'[t].db
          \/ \E t \in Txns : dir'[t] # None /\ d = dir'[t].live
          \/ Parsed' /\ d = p'.cand
  BY Zenon DEF Held

LEMMA HeldIsContent ==
  ASSUME Types, NEW d \in Held
  PROVE  d \in Content
  BY HeldIs DEF Types, Candidates, Folders, Manifests, Locals, Parsed

\* The ledger is finite.
LEMMA MarkedIsFinite ==
  ASSUME NEW d
  PROVE  /\ IsFiniteSet(Marked(d)) /\ Cardinality(Marked(d)) \in Nat
         /\ Cardinality(Marked(d)) <= Cardinality(Commits)
  <1>1. Marked(d) \subseteq Commits /\ IsFiniteSet(Commits)
        BY ConstantsOK DEF Marked
  <1> QED BY <1>1, FS_Subset, FS_CardinalityType

\* A commit that the ledger does not have is new to the history, too.
LEMMA CommittedIs ==
  ASSUME NEW d \in Content, NEW e \in Content, NEW c \in Commits, Sized(d), d.marks[c] = None,
         e = [d EXCEPT !.snaps = Append(@, c), !.marks[c] = Unmarked, !.fence = @ + 1]
  PROVE  Sized(e) /\ Marked(e) = Marked(d) \cup {c}
  <1>1. /\ e.ctl = d.ctl /\ e.snaps = Append(d.snaps, c) /\ e.fence = d.fence + 1
        /\ e.marks = [d.marks EXCEPT ![c] = Unmarked] /\ d.marks \in Marks
        /\ d.snaps \in Seq(Commits) /\ d.fence \in Nat
        BY DEF Content
  <1>2. Marked(e) = Marked(d) \cup {c} /\ c \notin Marked(d)
    <2>1. None # Unmarked
          BY ConstantsOK DEF Unmarked
    <2> QED BY <1>1, <2>1 DEF Marked, Marks
  <1>3. Cardinality(Marked(e)) = Cardinality(Marked(d)) + 1
        BY <1>2, MarkedIsFinite, FS_AddElement
  <1>4. Range(e.snaps) = Range(d.snaps) \cup {c} /\ Len(e.snaps) = Len(d.snaps) + 1
        BY <1>1, RangeOfAppend
  <1>5. c \notin Range(d.snaps) /\ IsFiniteSet(Range(d.snaps))
        BY <1>2, MarkedIsFinite, FS_Subset DEF Sized
  <1>6. Cardinality(Range(e.snaps)) = Len(e.snaps)
        BY <1>4, <1>5, FS_AddElement DEF Sized
  <1>7. e.fence <= Cardinality(Marked(e))
        BY <1>1, <1>3, MarkedIsFinite DEF Sized
  <1> QED BY <1>1, <1>2, <1>4, <1>6, <1>7 DEF Sized

\* A merge keeps the rows of the live database.
LEMMA MergeMarks ==
  ASSUME NEW live \in Content, NEW bk \in Content, x \in Record
  PROVE  Marked(Merge(live, bk)) = Marked(live)
  <1>1. Merge(live, bk).marks = Supersede(live.marks, bk)
        BY DEF Merge, Cleared, Content
  <1>2. x.epoch + 1 # None /\ Unmarked # None
        BY ConstantsOK DEF Unmarked, Record, Epochs
  <1> QED BY <1>1, <1>2 DEF Marked, Supersede

\* A backup has no row that the live database lacks, so the merge is sized.
LEMMA MergedIs ==
  ASSUME NEW live \in Content, NEW bk \in Content, x \in Record, Sized(live), Sized(bk),
         Marked(bk) \subseteq Marked(live)
  PROVE  Sized(Merge(live, bk))
  <1> DEFINE e == Merge(live, bk)
  <1>1. /\ e.ctl = live.ctl /\ e.snaps = bk.snaps
        /\ e.fence = IF live.fence < bk.fence THEN bk.fence ELSE live.fence
        BY DEF Merge, Cleared, Content
  <1>2. Marked(e) = Marked(live)
        BY MergeMarks
  <1>3. Cardinality(Marked(bk)) <= Cardinality(Marked(live))
        BY MarkedIsFinite, FS_Subset
  <1>4. e.fence <= Cardinality(Marked(e))
        BY <1>1, <1>2, <1>3, MarkedIsFinite DEF Sized, Content
  <1> QED BY <1>1, <1>2, <1>4 DEF Sized

\* What an audit row, a login, a filing and a control-plane write leave alone.
Alike(e, d) == e.snaps = d.snaps /\ e.fence = d.fence /\ e.marks = d.marks /\ e.ctl <= MaxCtl

LEMMA AlikeIs ==
  ASSUME NEW d, NEW e, Sized(d), Alike(e, d)
  PROVE  Sized(e) /\ Marked(e) = Marked(d)
  BY DEF Sized, Alike, Marked

LEMMA SameHeld ==
  ASSUME SizeInv, Held' \subseteq Held
  PROVE  NoNewRow
  BY DEF SizeInv, NoNewRow

LEMMA WrittenHeld ==
  ASSUME SizeInv, NEW d \in Held, Held' \subseteq Held \cup {db'}, Alike(db', d)
  PROVE  NoNewRow
  BY AlikeIs DEF SizeInv, NoNewRow

\* The newest database stays the newest.
LEMMA NewestKept ==
  ASSUME NoNewRow
  PROVE  /\ DbNewest /\ Marked(db) \subseteq Marked(db') => DbNewest'
         /\ CandNewest /\ Marked(p.cand) \subseteq Marked(db') => DbNewest'
         /\ CandNewest /\ Marked(p.cand) \subseteq Marked(p'.cand) => CandNewest'
         /\ DbNewest /\ Marked(db) \subseteq Marked(p'.cand) => CandNewest'
  BY DEF NoNewRow, DbNewest, CandNewest

\* A start makes no database: one is missing only beside its archive.
LEMMA StartKeeps ==
  ASSUME Types, FileInv, Start
  PROVE  db # None /\ UNCHANGED <<x, hidden, db, backup, cand, dir, archive, p, cmd, env>>
  <1>1. ASSUME db = None PROVE FALSE
    <2>1. Class \in {"K1", "K4"} /\ StartGate
          BY <1>1, ClassK3 DEF Start, ReadOnly
    <2> QED BY <1>1, <2>1 DEF StartGate, Orphans, FileInv
  <1> QED BY <1>1, StartIs

\* The files, faults or not.
LEMMA NextFileInv ==
    Types /\ PcInv /\ FileInv /\ Types' /\ [Next]_vars => FileInv'
  <1> SUFFICES ASSUME Types, PcInv, FileInv, Types', [Next]_vars
               PROVE  FileInv'
      OBVIOUS
  <1> USE ConstantsOK, NothingIsNew DEF Epochs, Record, Stages, PCs, Candidates, Folders,
            Manifests, Parsed, Types, Preparing, Committing, Retiring, Aborting, TheRecord,
            PcInv, FileInv
  <1>1. CASE InitMirror
        BY <1>1, InitMirrorIs
  <1>2. CASE PrepareAudit
        BY <1>2, PrepareAuditIs
  <1>3. CASE PrepareCopy
        BY <1>3, PrepareCopyIs
  <1>4. CASE PrepareBuild
    <2>1. /\ cmd.txn \in Txns /\ cand[cmd.txn].db = db /\ db \in Content /\ backup \in Content
          /\ x \in Record
          BY <1>4 DEF PrepareBuild
    <2>2. cand'[cmd.txn].db = Merge(db, backup)
          BY <1>4, <2>1 DEF PrepareBuild
    <2>3. Marked(db) \subseteq Marked(cand'[cmd.txn].db)
          BY <2>1, <2>2, MergeMarks
    <2> QED BY <1>4, <2>3, PrepareBuildIs
  <1>5. CASE PrepareRefuse
        BY <1>5 DEF NoCmd, Finish, PrepareRefuse
  <1>6. CASE PrepareDir
        BY <1>6, PrepareDirIs
  <1>7. CASE PrepareArtifacts
        BY <1>7, PrepareArtifactsIs
  <1>8. CASE PrepareManifest
        BY <1>8, PrepareManifestIs, Something DEF Derived
  <1>9. CASE CommitRecord
    <2>1. /\ x # None /\ x = p.prev /\ db.mirror = p.prev /\ hidden = None /\ p # None /\ p # Bad
          /\ x \in Record /\ x.epoch \in Nat
          BY <1>9 DEF CommitRecord
    <2>2. /\ x' # None /\ x'.epoch = x.epoch + 1 /\ hidden' = None /\ pc' = "inst_archive"
          /\ UNCHANGED <<db, cand, dir, archive, p, v2>>
          BY <1>9, <2>1, CommitRecordIs, Something
    <2>3. ASSUME NEW t \in Txns, archive[t] # None
          PROVE  archive[t].mirror # None /\ archive[t].mirror.epoch < x'.epoch
      <3>1. archive[t].mirror # None /\ archive[t].mirror.epoch < x.epoch
            BY <2>1, <2>3
      <3>2. archive[t].mirror \in Record
            BY <2>3, <3>1 DEF Content
      <3> QED BY <2>1, <2>2, <3>1, <3>2
    <2> QED BY <2>1, <2>2, <2>3
  <1>10. CASE InstallArchive
        BY <1>10 DEF NoCmd, Goto, Finish, InstallArchive
  <1>11. CASE InstallRename
        BY <1>11, InstallRenameIs
  <1>12. CASE ReconcileBegin
        BY <1>12 DEF NoCmd, Goto, Finish, ReconcileBegin
  <1>13. CASE ReconcileCommit
        BY <1>13, ReconcileCommitIs
  <1>14. CASE CommitTerminal
        BY <1>14, CommitTerminalIs
  <1>15. CASE RetireAudit
        BY <1>15, RetireAuditIs
  <1>16. CASE RetireArtifacts
        BY <1>16 DEF Goto, RetireArtifacts
  <1>17. CASE RetireManifest
        BY <1>17 DEF Goto, RetireManifest
  <1>18. CASE RetireDir
        BY <1>18 DEF NoCmd, Finish, RetireDir
  <1>19. CASE AbortAudit
        BY <1>19, AbortAuditIs
  <1>20. CASE AbortCandidates
        BY <1>20 DEF Goto, AbortCandidates
  <1>21. CASE AbortDirs
        BY <1>21 DEF Goto, AbortDirs
  <1>22. CASE AbortManifest
        BY <1>22 DEF NoCmd, Finish, AbortManifest
  <1>23. CASE Start
    <2>1. /\ db # None /\ UNCHANGED <<x, hidden, db, cand, dir, archive, p, cmd>>
          /\ pc' \in {"serve", "serve_ro"}
          /\ v2' => p = None
          BY <1>23, StartKeeps, StartIs
    <2> QED BY <2>1
  <1>24. CASE Stop
        BY <1>24 DEF site, env, NoCmd, Finish, Stop
  <1>25. CASE ServerWrite
        BY <1>25, ServerWriteIs
  <1>26. CASE InitRecord
        BY <1>26 DEF Genesis, Goto, InitRecord
  <1>27. CASE TakeBackup
        BY <1>27 DEF proc, env, TakeBackup
  <1>28. CASE Withdraw
        BY <1>28, WithdrawIs
  <1>29. CASE CommitPrepared
        BY <1>29, CommitPreparedIs DEF site, env
  <1>30. CASE CommitInstall
    <2>1. /\ Parsed /\ x # None /\ x.epoch = p.prev.epoch + 1
          /\ pc' = "inst_archive" /\ UNCHANGED <<x, hidden, db, cand, dir, archive, p, v2>>
          BY <1>30, CommitInstallIs DEF site, Moved
    <2>2. db # None => db.mirror = p.prev
          BY <1>30, ClassK8 DEF CommitInstall, MirrorIsE, Mirror
    <2> QED BY <2>1, <2>2
  <1>31. CASE CommitReconcile
    <2>1. /\ Parsed /\ x # None /\ x.epoch = p.prev.epoch + 1
          /\ pc' = "rec_check" /\ UNCHANGED <<x, hidden, db, cand, dir, archive, p, v2>>
          BY <1>31, CommitReconcileIs DEF site, Moved
    <2> QED BY <2>1
  <1>32. CASE CommitReadback
        BY <1>32, CommitReadbackIs DEF site, env
  <1>33. CASE CommitRetire
        BY <1>33, CommitRetireIs DEF site, env
  <1>34. CASE RetireBegin
        BY <1>34 DEF Resume, RetireBegin
  <1>35. CASE AbortBegin
        BY <1>35, ClassK3, ClassK5, ClassK7, ClassK8 DEF Resume, Abortable, AbortBegin
  <1>36. ASSUME NEW t \in Txns, PrepareBegin(t), Drawn(t) PROVE FileInv'
        BY <1>36 DEF Goto, CleanK3, PrepareBegin, Drawn
  <1>37. ASSUME NEW C1 \in SUBSET Strays, NEW D1 \in SUBSET Strays,
               NEW A1 \in SUBSET (Orphans \ Strays), AbortOrphans(C1, D1, A1)
        PROVE  FileInv'
    <2>1. /\ db # None /\ p = None /\ pc = "free"
          /\ \A t \in Txns : archive'[t] # None => archive'[t] = archive[t]
          /\ UNCHANGED <<x, hidden, db, p, pc, cmd, v2>>
          BY <1>37, ClassK3 DEF AbortOrphans, proc
    <2> QED BY <2>1
  <1>38. CASE Crash
        BY <1>38 DEF NoCmd, Finish, Crash
  <1>39. CASE HideRecord
        BY <1>39 DEF proc, Fault, HideRecord
  <1>40. CASE ShowRecord
        BY <1>40 DEF proc, env, ShowRecord
  <1>41. CASE DamageManifest
        BY <1>41 DEF proc, Fault, DamageManifest
  <1>42. ASSUME NEW t \in Txns, PutArchiveBack(t) PROVE FileInv'
    <2>1. /\ db' # None /\ pc = "free" /\ UNCHANGED <<x, hidden, cand, dir, archive, p, pc, cmd, v2>>
          BY <1>42 DEF Fault, PutArchiveBack, proc
    <2> QED BY <2>1
  <1>43. CASE UNCHANGED vars
        BY <1>43 DEF vars, site, proc, env
  <1> HIDE DEF Types, FileInv
  <1> QED
        BY <1>1, <1>2, <1>3, <1>4, <1>5, <1>6, <1>7, <1>8, <1>9, <1>10, <1>11, <1>12,
            <1>13, <1>14, <1>15, <1>16, <1>17, <1>18, <1>19, <1>20, <1>21, <1>22,
            <1>23, <1>24, <1>25, <1>26, <1>27, <1>28, <1>29, <1>30, <1>31, <1>32,
            <1>33, <1>34, <1>35, <1>36, <1>37, <1>38, <1>39, <1>40, <1>41, <1>42,
            <1>43 DEF Next, CommandStep, ServerStep, OperatorStep, FaultStep,
            CommitStart, ServerWrite

\* The steps that write the database and no ledger row.
Written ==
    \/ ControlWrite \/ Login \/ FileTransition \/ Withdraw \/ InitMirror
    \/ PrepareAudit \/ ReconcileCommit \/ RetireAudit \/ AbortAudit

LEMMA WrittenIs ==
  ASSUME Types, PcInv, SizeInv, Written
  PROVE  /\ db \in Held /\ Alike(db', db)
         /\ UNCHANGED <<hidden, x, backup, cand, dir, archive, p, crashes, faults>>
         /\ cmd'.live \in {cmd.live, db', None}
  <1>1. db # None
        BY ClassK3 DEF Written, ControlWrite, Login, FileTransition, Withdraw, InitMirror,
           PrepareAudit, ReconcileCommit, RetireAudit, AbortAudit, PcInv, Preparing, Retiring, Aborting
  <1>2. db \in Held /\ db \in Content
        BY <1>1, HeldIs DEF Types
  <1>3. db.ctl \in Nat /\ db.ctl <= MaxCtl
        BY <1>2 DEF SizeInv, Sized, Content
  <1>4. db'.snaps = db.snaps /\ db'.fence = db.fence /\ db'.marks = db.marks /\ db'.ctl <= MaxCtl
    <2>1. CASE ControlWrite
          BY <1>2, <1>3, <2>1, ConstantsOK DEF ControlWrite, Content
    <2>2. CASE Login \/ FileTransition \/ InitMirror
          BY <1>2, <1>3, <2>2 DEF Login, FileTransition, InitMirror, Content
    <2>3. CASE Withdraw
          BY <1>2, <1>3, <2>3 DEF Withdraw, Audited, Content
    <2>4. CASE PrepareAudit \/ RetireAudit \/ AbortAudit
          BY <1>2, <1>3, <2>4 DEF PrepareAudit, RetireAudit, AbortAudit, Audited, Content
    <2>5. CASE ReconcileCommit
          BY <1>2, <1>3, <2>5 DEF ReconcileCommit, Reconciled, Audited, Cleared, Content
    <2> QED BY <2>1, <2>2, <2>3, <2>4, <2>5 DEF Written
  <1>5. UNCHANGED <<hidden, x, backup, cand, dir, archive, p, crashes, faults>>
        BY DEF Written, ControlWrite, Login, FileTransition, Withdraw, InitMirror,
           PrepareAudit, ReconcileCommit, RetireAudit, AbortAudit, proc, env
  <1>6. cmd'.live \in {cmd.live, db', None}
        BY DEF Written, ControlWrite, Login, FileTransition, Withdraw, InitMirror, Finish, NoCmd,
           PrepareAudit, ReconcileCommit, RetireAudit, AbortAudit, proc, env, Types, Locals
  <1> QED BY <1>2, <1>4, <1>5, <1>6 DEF Alike

\* Where the databases of the other steps come from.
Moving ==
    \/ PrepareCopy \/ PrepareRefuse \/ PrepareDir \/ PrepareArtifacts \/ PrepareManifest
    \/ CommitRecord \/ InstallArchive \/ InstallRename \/ ReconcileBegin
    \/ CommitTerminal \/ RetireArtifacts \/ RetireManifest \/ RetireDir
    \/ AbortCandidates \/ AbortDirs \/ AbortManifest
    \/ Start \/ Stop \/ (OperatorStep /\ ~Withdraw) \/ FaultStep \/ UNCHANGED vars

LEMMA MovingIs ==
  ASSUME Types, PcInv, FileInv, Types', Moving
  PROVE  Held' \subseteq Held
  <1> SUFFICES ASSUME NEW e \in Held' PROVE e \in Held
      OBVIOUS
  <1> DEFINE Site(d) ==
               /\ d # None
               /\ \/ d \in {db, backup, cmd.live} \/ \E t \in Txns : d = archive[t]
                  \/ \E t \in Txns : cand[t] # None /\ d = cand[t].db
                  \/ \E t \in Txns : dir[t] # None /\ d = dir[t].live
                  \/ Parsed /\ d = p.cand
  <1>a. /\ e # None
        /\ \/ e \in {db', backup', cmd'.live} \/ \E t \in Txns : e = archive'[t]
           \/ \E t \in Txns : cand'[t] # None /\ e = cand'[t].db
           \/ \E t \in Txns : dir'[t] # None /\ e = dir'[t].live
           \/ Parsed' /\ e = p'.cand
        BY HeldIs
  <1> SUFFICES Site(e)
      BY HeldIs
  <1> USE NothingIsNew DEF Types, Candidates, Folders, Manifests, Parsed, Site
  <1>1. CASE PrepareCopy
        BY <1>1, <1>a, PrepareCopyIs
  <1>2. CASE PrepareRefuse
        BY <1>2, <1>a DEF PrepareRefuse, Finish, NoCmd
  <1>3. CASE PrepareDir
        BY <1>3, <1>a, PrepareDirIs
  <1>4. CASE PrepareArtifacts
        BY <1>4, <1>a, PrepareArtifactsIs
  <1>5. CASE PrepareManifest
        BY <1>5, <1>a, PrepareManifestIs DEF NoCmd, PcInv
  <1>6. CASE CommitRecord
        BY <1>6, <1>a, CommitRecordIs
  <1>7. CASE InstallArchive
        BY <1>7, <1>a DEF InstallArchive, Finish, NoCmd
  <1>8. CASE InstallRename
        BY <1>8, <1>a, InstallRenameIs, Something
  <1>9. CASE ReconcileBegin
        BY <1>9, <1>a DEF ReconcileBegin, Finish, NoCmd
  <1>10. CASE CommitTerminal
        BY <1>10, <1>a, CommitTerminalIs
  <1>11. CASE RetireArtifacts
        BY <1>11, <1>a DEF RetireArtifacts, PcInv, Retiring
  <1>12. CASE RetireManifest \/ RetireDir
        BY <1>12, <1>a DEF RetireManifest, RetireDir, Finish, NoCmd
  <1>13. CASE AbortCandidates \/ AbortDirs \/ AbortManifest
        BY <1>13, <1>a DEF AbortCandidates, AbortDirs, AbortManifest, Finish, NoCmd
  <1>14. CASE Start
        BY <1>14, <1>a, StartKeeps, StartIs
  <1>15. CASE Stop
        BY <1>15, <1>a DEF Stop, site, Finish, NoCmd
  <1>16. CASE InitRecord \/ TakeBackup
        BY <1>16, <1>a DEF InitRecord, TakeBackup, proc
  <1>17. CASE CommitStart
        BY <1>17, <1>a DEF CommitStart, CommitPrepared, CommitInstall, CommitReconcile,
           CommitReadback, CommitRetire, site, Resume
  <1>18. CASE RetireBegin \/ AbortBegin
        BY <1>18, <1>a DEF RetireBegin, AbortBegin, Resume
  <1>19. ASSUME NEW t \in Txns, PrepareBegin(t), Drawn(t) PROVE Site(e)
        BY <1>19, <1>a DEF PrepareBegin
  <1>20. ASSUME NEW C1 \in SUBSET Strays, NEW D1 \in SUBSET Strays,
               NEW A1 \in SUBSET (Orphans \ Strays), AbortOrphans(C1, D1, A1)
         PROVE  Site(e)
        BY <1>20, <1>a DEF AbortOrphans, proc
  <1>21. CASE Crash
        BY <1>21, <1>a DEF Crash, Finish, NoCmd
  <1>22. CASE HideRecord \/ ShowRecord \/ DamageManifest
        BY <1>22, <1>a DEF HideRecord, ShowRecord, DamageManifest, proc
  <1>23. ASSUME NEW t \in Txns, PutArchiveBack(t) PROVE Site(e)
        BY <1>23, <1>a DEF PutArchiveBack, proc
  <1>24. CASE UNCHANGED vars
        BY <1>24, <1>a DEF vars, site, proc
  <1> HIDE DEF Types, Site
  <1> QED
        BY <1>1, <1>2, <1>3, <1>4, <1>5, <1>6, <1>7, <1>8, <1>9, <1>10, <1>11, <1>12,
            <1>13, <1>14, <1>15, <1>16, <1>17, <1>18, <1>19, <1>20, <1>21, <1>22,
            <1>23, <1>24 DEF Moving, OperatorStep, FaultStep

\* Only a commit of the server makes a ledger row.
LEMMA NextRows ==
  ASSUME Types, PcInv, FileInv, NewestInv, SizeInv, Types', Moving \/ Written \/ PrepareBuild
  PROVE  NoNewRow
  <1>1. CASE Moving
        BY <1>1, MovingIs, SameHeld
  <1>2. CASE Written
    <2>1. ASSUME NEW e \in Held' PROVE e \in Held \cup {db'}
          BY <1>2, <2>1, WrittenIs, HeldIs DEF Parsed
    <2> QED BY <1>2, <2>1, WrittenIs, WrittenHeld
  <1>3. CASE PrepareBuild
    <2>1. /\ cmd.txn \in Txns /\ cand[cmd.txn] # None /\ cand[cmd.txn].db = db
          /\ db \in Content /\ backup \in Content /\ x \in Record /\ db.mirror = x /\ x # None
          BY <1>3 DEF Types, PrepareBuild, PcInv, Preparing
    <2>2. /\ cand' = [cand EXCEPT ![cmd.txn] = [done |-> TRUE, db |-> Merge(db, backup)]]
          /\ UNCHANGED <<db, backup, dir, archive, p, cmd>>
          BY <1>3, <2>1 DEF PrepareBuild
    <2>3. db \in Held /\ backup \in Held
          BY <2>1, HeldIs, Something
    <2>4. Marked(backup) \subseteq Marked(db)
          BY <2>1, <2>3, Something DEF NewestInv, DbNewest, TheRecord, FileInv
    <2>5. Sized(Merge(db, backup)) /\ Marked(Merge(db, backup)) = Marked(db)
          BY <2>1, <2>3, <2>4, MergedIs, MergeMarks DEF SizeInv
    <2>6. ASSUME NEW e \in Held' PROVE e \in Held \/ e = Merge(db, backup)
          BY <2>1, <2>2, <2>6, HeldIs DEF Types, Parsed
    <2> QED BY <2>3, <2>5, <2>6 DEF NoNewRow, SizeInv
  <1> QED BY <1>1, <1>2, <1>3

\* A commit is served by the newest database.
LEMMA CommitKeeps ==
  ASSUME Types, PcInv, FileInv, NewestInv, SizeInv, Types', NEW c \in Commits, CommitSnapshot(c)
  PROVE  NewestInv' /\ SizeInv'
  <1>1. /\ db \in Content /\ db # None /\ x # None /\ db.mirror = x /\ p = None /\ hidden = None
        /\ pc = "serve" /\ db.marks[c] = None
        /\ db' = [db EXCEPT !.snaps = Append(@, c), !.marks[c] = Unmarked, !.fence = @ + 1]
        /\ UNCHANGED <<x, hidden, backup, cand, dir, archive, p, pc, cmd, crashes, faults>>
        BY DEF CommitSnapshot, PcInv, FileInv, Types, proc
  <1>2. db \in Held /\ DbNewest /\ Sized(db) /\ db' \in Content
    <2>1. db \in Held
          BY <1>1, HeldIs
    <2>2. DbNewest
          BY <1>1 DEF NewestInv, TheRecord
    <2>3. db' \in Content
          BY ServerWriteIs DEF ServerWrite
    <2> QED BY <2>1, <2>2, <2>3 DEF SizeInv
  <1>3. Sized(db') /\ Marked(db') = Marked(db) \cup {c}
        BY <1>1, <1>2, CommittedIs
  <1>4. ASSUME NEW e \in Held' PROVE e \in Held \/ e = db'
        BY <1>1, <1>4, HeldIs DEF Parsed
  <1>5. DbNewest'
        BY <1>2, <1>3, <1>4 DEF DbNewest
  <1> QED BY <1>1, <1>2, <1>3, <1>4, <1>5 DEF NewestInv, SizeInv, Parsed

\* The number of crashes.
LEMMA NextCounts ==
  ASSUME Types, SizeInv, [Next]_vars
  PROVE  crashes' <= MaxCrash
  <1> USE ConstantsOK DEF SizeInv, Types
  <1>1. CASE CommandStep
        BY <1>1 DEF CommandStep, InitMirror, PrepareAudit, PrepareCopy, PrepareBuild,
              PrepareRefuse, PrepareDir, PrepareArtifacts, PrepareManifest, CommitRecord,
              InstallArchive, InstallRename, ReconcileBegin, ReconcileCommit,
              CommitTerminal, RetireAudit, RetireArtifacts, RetireManifest, RetireDir,
              AbortAudit, AbortCandidates, AbortDirs, AbortManifest, env
  <1>2. CASE ServerStep
        BY <1>2 DEF ServerStep, Start, Stop, ControlWrite, Login, FileTransition,
              CommitSnapshot, env
  <1>3. CASE OperatorStep
        BY <1>3 DEF OperatorStep, InitRecord, TakeBackup, Withdraw, CommitStart,
              CommitPrepared, CommitInstall, CommitReconcile, CommitReadback,
              CommitRetire, RetireBegin, AbortBegin, PrepareBegin, AbortOrphans, env
  <1>4. CASE FaultStep
        BY <1>4 DEF FaultStep, Crash, HideRecord, ShowRecord, DamageManifest,
              PutArchiveBack, Fault, env
  <1>5. CASE UNCHANGED vars
        BY <1>5 DEF vars, env
  <1> QED BY <1>1, <1>2, <1>3, <1>4, <1>5 DEF Next

\* Most steps touch neither the record nor the database nor a manifest's content.
Quiet ==
    /\ db' \in {db, None} /\ TheRecord' = TheRecord /\ pc' # "init_mirror"
    /\ Parsed' => Parsed /\ p'.prev = p.prev /\ p'.cand = p.cand

Elsewhere ==
    \/ PrepareCopy \/ PrepareBuild \/ PrepareRefuse \/ PrepareDir \/ PrepareArtifacts
    \/ InstallArchive \/ ReconcileBegin \/ CommitTerminal
    \/ RetireArtifacts \/ RetireManifest \/ RetireDir
    \/ AbortCandidates \/ AbortDirs \/ AbortManifest
    \/ Start \/ Stop \/ (OperatorStep /\ ~Withdraw /\ ~InitRecord)
    \/ Crash \/ HideRecord \/ ShowRecord \/ DamageManifest

LEMMA ElsewhereIs ==
  ASSUME Types, PcInv, FileInv, Types', Elsewhere
  PROVE  Quiet
  <1> USE DEF Quiet, TheRecord, Parsed
  <1>1. CASE PrepareCopy \/ PrepareBuild \/ PrepareRefuse \/ PrepareDir \/ PrepareArtifacts
        BY <1>1 DEF PrepareCopy, PrepareBuild, PrepareRefuse, PrepareDir, PrepareArtifacts, Goto, Finish
  <1>2. CASE InstallArchive \/ ReconcileBegin
        BY <1>2 DEF InstallArchive, ReconcileBegin, Goto, Finish
  <1>3. CASE CommitTerminal
        BY <1>3, CommitTerminalIs, Something
  <1>4. CASE RetireArtifacts \/ RetireManifest \/ RetireDir
        BY <1>4 DEF RetireArtifacts, RetireManifest, RetireDir, Goto, Finish
  <1>5. CASE AbortCandidates \/ AbortDirs \/ AbortManifest
        BY <1>5 DEF AbortCandidates, AbortDirs, AbortManifest, Goto, Finish
  <1>6. CASE Start
        BY <1>6, StartKeeps, StartIs
  <1>7. CASE Stop
        BY <1>7 DEF Stop, site, Finish
  <1>8. CASE TakeBackup
        BY <1>8 DEF TakeBackup, proc
  <1>9. CASE CommitStart
        BY <1>9 DEF CommitStart, CommitPrepared, CommitInstall, CommitReconcile, CommitReadback,
           CommitRetire, site, Resume
  <1>10. CASE RetireBegin \/ AbortBegin
        BY <1>10 DEF RetireBegin, AbortBegin, Resume
  <1>11. ASSUME NEW t \in Txns, PrepareBegin(t), Drawn(t) PROVE Quiet
        BY <1>11 DEF PrepareBegin, Goto
  <1>12. ASSUME NEW C1 \in SUBSET Strays, NEW D1 \in SUBSET Strays,
                NEW A1 \in SUBSET (Orphans \ Strays), AbortOrphans(C1, D1, A1)
         PROVE  Quiet
        BY <1>12 DEF AbortOrphans, proc
  <1>13. CASE Crash
        BY <1>13 DEF Crash, Finish
  <1>14. CASE HideRecord \/ ShowRecord
        BY <1>14, Something DEF HideRecord, ShowRecord, Fault, proc, FileInv, Types
  <1>15. CASE DamageManifest
        BY <1>15 DEF DamageManifest, Fault, proc
  <1> HIDE DEF Quiet
  <1> QED BY <1>1, <1>2, <1>3, <1>4, <1>5, <1>6, <1>7, <1>8, <1>9, <1>10, <1>11, <1>12, <1>13,
            <1>14, <1>15 DEF Elsewhere, OperatorStep

\* The database that speaks for the record stays the newest.
LEMMA NextNewest ==
  ASSUME Types, PcInv, FileInv, NewestInv, SizeInv, Types', [Next]_vars, NoNewRow,
         \A c \in Commits : ~CommitSnapshot(c)
  PROVE  NewestInv'
  <1>a. /\ DbNewest /\ Marked(db) \subseteq Marked(db') => DbNewest'
        /\ CandNewest /\ Marked(p.cand) \subseteq Marked(db') => DbNewest'
        /\ CandNewest /\ Marked(p.cand) \subseteq Marked(p'.cand) => CandNewest'
        /\ DbNewest /\ Marked(db) \subseteq Marked(p'.cand) => CandNewest'
        BY NewestKept
  <1>1. CASE Elsewhere
    <2>1. Quiet
          BY <1>1, ElsewhereIs
    <2> QED BY <1>a, <2>1 DEF Quiet, NewestInv
  <1>2. CASE Written
    <2>1. /\ Marked(db') = Marked(db) /\ db # None
          /\ UNCHANGED <<x, hidden, p>> /\ TheRecord' = TheRecord
          BY <1>2, WrittenIs, AlikeIs, HeldIs DEF SizeInv, TheRecord
    <2>2. Parsed' /\ TheRecord' # p'.prev => CandNewest'
          BY <1>a, <2>1 DEF NewestInv, Parsed
    <2>3. CASE InitMirror
      <3>1. DbNewest /\ pc' # "init_mirror"
            BY <2>3 DEF InitMirror, NewestInv, Finish
      <3> QED BY <1>a, <2>1, <2>2, <3>1 DEF NewestInv
    <2>4. CASE ReconcileCommit
      <3>1. CandNewest /\ db = p.cand
            BY <2>4, Something DEF ReconcileCommit, NewestInv, FileInv, PcInv, Committing, TheRecord,
               Types, Manifests, Record, Epochs, Parsed
      <3> QED BY <1>a, <2>1, <2>2, <2>4, <3>1 DEF NewestInv, ReconcileCommit, Goto
    <2>5. CASE Write
      <3>1. db'.mirror = db.mirror /\ pc' # "init_mirror"
        <4>1. db'.mirror = db.mirror
              BY <2>5, WriteIs
        <4>2. pc' # "init_mirror"
              BY <2>5 DEF Write, ServerWrite, ControlWrite, Login, FileTransition, CommitSnapshot,
                 Withdraw, PrepareAudit, RetireAudit, AbortAudit, Goto, proc
        <4> QED BY <4>1, <4>2
      <3> QED BY <1>a, <2>1, <2>2, <3>1 DEF NewestInv
    <2> QED BY <1>2, <2>3, <2>4, <2>5 DEF Written, Write, ServerWrite
  <1>3. CASE PrepareManifest
    <2>1. /\ p'.prev = x /\ x # None /\ hidden = None /\ pc' = "free"
          /\ UNCHANGED <<x, hidden, db>>
          BY <1>3, PrepareManifestIs, Something DEF FileInv
    <2> QED BY <1>a, <2>1 DEF NewestInv, TheRecord
  <1>4. CASE CommitRecord
    <2>1. /\ Parsed /\ x # None /\ x = p.prev /\ db.mirror = x /\ db # None /\ hidden = None
          /\ dir[p.txn] # None /\ db = dir[p.txn].live /\ x.epoch \in Nat
          BY <1>4 DEF CommitRecord, PcInv, UnchangedSincePrepare, FileInv, Committing, Types, Record, Epochs
    <2>2. /\ pc' = "inst_archive" /\ UNCHANGED <<hidden, db, p>>
          /\ x'.epoch = x.epoch + 1
          BY <1>4, <2>1, CommitRecordIs
    <2>3. DbNewest /\ Marked(db) \subseteq Marked(p.cand)
          BY <2>1 DEF NewestInv, TheRecord, FileInv
    <2>4. CandNewest' /\ db'.mirror # TheRecord'
          BY <1>a, <2>1, <2>2, <2>3 DEF TheRecord
    <2> QED BY <2>2, <2>4 DEF NewestInv
  <1>5. CASE InstallRename
    <2>1. /\ Parsed /\ p.cand.mirror = p.prev /\ cand[cmd.txn].db = p.cand
          /\ x # None /\ hidden = None /\ x.epoch = p.prev.epoch + 1 /\ p.prev.epoch \in Nat
          BY <1>5, InstallRenameIs DEF InstallRename, PcInv, Committing, FileInv, Types, Manifests,
             Record, Epochs, Parsed
    <2>2. db'.mirror = p.prev /\ pc' = "rec_check" /\ UNCHANGED <<x, hidden, p>>
          BY <1>5, <2>1, InstallRenameIs
    <2> QED BY <1>a, <2>1, <2>2 DEF NewestInv, TheRecord, Parsed
  <1>6. CASE InitRecord
    <2>1. /\ db # None /\ TheRecord = None /\ db.mirror = None
          /\ UNCHANGED <<db, p>>
          BY <1>6 DEF InitRecord, TheRecord
    <2>2. DbNewest /\ ~Parsed
          BY <2>1 DEF NewestInv, FileInv
    <2> QED BY <1>a, <2>1, <2>2 DEF NewestInv, Parsed
  <1>7. ASSUME NEW t \in Txns, PutArchiveBack(t) PROVE NewestInv'
    <2>1. /\ db' = archive[t] /\ archive[t] # None /\ pc' = "free" /\ UNCHANGED <<x, hidden, p>>
          BY <1>7 DEF PutArchiveBack, Fault, proc
    <2>2. /\ TheRecord # None /\ archive[t].mirror # None
          /\ archive[t].mirror.epoch < TheRecord.epoch
          BY <2>1 DEF FileInv
    <2>3. TheRecord \in Record /\ TheRecord.epoch \in Nat
          BY <2>2 DEF TheRecord, Types, Record, Epochs
    <2>4. archive[t].mirror # TheRecord
          BY <2>2, <2>3
    <2> QED BY <1>a, <2>1, <2>4 DEF NewestInv, TheRecord, Parsed
  <1>8. CASE UNCHANGED vars
        BY <1>a, <1>8 DEF vars, site, proc, NewestInv, TheRecord, Parsed
  <1> QED BY <1>1, <1>2, <1>3, <1>4, <1>5, <1>6, <1>7, <1>8
          DEF Elsewhere, Written, Next, CommandStep, ServerStep, OperatorStep, FaultStep

\* The whole of it, from the start and over every step.
Bounded == FileInv /\ NewestInv /\ SizeInv

LEMMA InitBounded == Init => Bounded
  <1> SUFFICES ASSUME Init PROVE Bounded
      OBVIOUS
  <1>1. ASSUME NEW d \in Held PROVE d = Empty
        BY <1>1, HeldIs, NothingIsNew DEF Init, NoCmd, Parsed
  <1>2. /\ Empty.ctl = 0 /\ Empty.snaps = <<>> /\ Empty.fence = 0
        /\ Empty.mirror = None /\ \A c \in Commits : Empty.marks[c] = None
        BY DEF Empty
  <1>3. Sized(Empty)
    <2>1. Range(Empty.snaps) = {}
          BY <1>2 DEF Range
    <2> QED BY <1>2, <2>1, FS_EmptySet, MarkedIsFinite, ConstantsOK DEF Sized
  <1>4. SizeInv /\ DbNewest
        BY <1>1, <1>3, ConstantsOK DEF SizeInv, DbNewest, Init
  <1>5. FileInv
        BY Something, Defaults DEF Init, FileInv, Parsed
  <1> QED BY <1>4, <1>5 DEF Bounded, NewestInv, Init, Parsed

LEMMA NextBounded == IInv /\ Types' /\ Bounded /\ [Next]_vars => Bounded'
  <1> SUFFICES ASSUME Types, PcInv, Types', FileInv, NewestInv, SizeInv, [Next]_vars
               PROVE  Bounded'
      BY DEF IInv, Bounded
  <1>1. FileInv'
        BY NextFileInv
  <1>2. CASE \E c \in Commits : CommitSnapshot(c)
        BY <1>1, <1>2, CommitKeeps DEF Bounded
  <1>3. CASE \A c \in Commits : ~CommitSnapshot(c)
    <2>1. Moving \/ Written \/ PrepareBuild
          BY <1>3 DEF Moving, Written, Next, CommandStep, ServerStep, OperatorStep
    <2>2. NoNewRow
          BY <2>1, NextRows
    <2>3. NewestInv'
          BY <1>3, <2>2, NextNewest
    <2>4. SizeInv'
          BY <2>2, NextCounts DEF SizeInv, NoNewRow
    <2> QED BY <1>1, <2>3, <2>4 DEF Bounded
  <1> QED BY <1>2, <1>3

\* A database of those sizes is one of TypeOK's.
LEMMA HeldIsDatabase ==
  ASSUME Types, SizeInv, NEW d \in Held
  PROVE  d \in Database
  <1>1. d \in Content /\ Sized(d)
        BY HeldIsContent DEF SizeInv
  <1>2. Cardinality(Commits) \in Nat /\ d.fence \in 0 .. Cardinality(Commits)
        BY <1>1, MarkedIsFinite, ConstantsOK, FS_CardinalityType DEF Sized, Content
  <1>3. Len(d.snaps) \in 0 .. Cardinality(Commits)
    <2>1. Range(d.snaps) \subseteq Commits
          BY <1>1 DEF Sized, Marked
    <2>2. Cardinality(Range(d.snaps)) <= Cardinality(Commits)
          BY <2>1, ConstantsOK, FS_Subset
    <2> QED BY <1>1, <1>2, <2>2 DEF Sized, Content
  <1>4. d.snaps \in Chains
    <2>1. d.snaps \in [1 .. Len(d.snaps) -> Commits]
          BY <1>1 DEF Content
    <2> QED BY <1>1, <1>3, <2>1 DEF Chains, Sized
  <1>5. d.ctl \in 0 .. MaxCtl
        BY <1>1, ConstantsOK DEF Sized, Content
  <1> QED BY <1>1, <1>2, <1>4, <1>5 DEF Database, Content

\* Every variable keeps its kind and every database its bounds, whatever is
\* restored, cut off or damaged: no history names a commit twice, and no fence is
\* ahead of the ledger (merge takes the history of a backup whose rows the live
\* database has, and an archive put back is never served with v2 writes).
THEOREM SiteTypes == Spec => []TypeOK
  <1>1. IInv /\ SizeInv => TypeOK
    <2> SUFFICES ASSUME Types, SizeInv PROVE TypeOK
        BY DEF IInv
    <2>1. \A d \in Held : d \in Database
          BY HeldIsDatabase
    <2>2. db \in Database \cup {None} /\ backup \in Database \cup {None}
          BY <2>1, HeldIs
    <2>3. cmd \in [txn : Txns \cup {None}, live : Database \cup {None}]
      <3>1. cmd.live \in Database \cup {None}
            BY <2>1, HeldIs
      <3> QED BY <3>1 DEF Types, Locals
    <2>4. archive \in [Txns -> Database \cup {None}]
      <3>1. \A t \in Txns : archive[t] \in Database \cup {None}
            BY <2>1, HeldIs
      <3> QED BY <3>1 DEF Types
    <2>5. cand \in [Txns -> Candidate \cup {None}]
      <3>1. ASSUME NEW t \in Txns, cand[t] # None PROVE cand[t] \in Candidate
        <4>1. cand[t] \in Candidates /\ cand[t].db # None
              BY <3>1, Something DEF Types, Candidates
        <4>2. cand[t].db \in Database
              BY <2>1, <3>1, <4>1, HeldIs
        <4> QED BY <4>1, <4>2 DEF Candidates, Candidate
      <3> QED BY <3>1 DEF Types
    <2>6. dir \in [Txns -> Artifacts \cup {None}]
      <3>1. ASSUME NEW t \in Txns, dir[t] # None PROVE dir[t] \in Artifacts
        <4>1. dir[t] \in Folders /\ dir[t].live # None
              BY <3>1, Something DEF Types, Folders
        <4>2. dir[t].live \in Database
              BY <2>1, <3>1, <4>1, HeldIs
        <4> QED BY <4>1, <4>2 DEF Folders, Artifacts
      <3> QED BY <3>1 DEF Types
    <2>7. p \in Manifest \cup {None, Bad}
      <3>1. ASSUME Parsed PROVE p \in Manifest
        <4>1. p \in Manifests /\ p.cand # None
              BY <3>1, Something DEF Types, Manifests, Parsed
        <4>2. p.cand \in Database
              BY <2>1, <3>1, <4>1, HeldIs
        <4> QED BY <4>1, <4>2 DEF Manifests, Manifest
      <3> QED BY <3>1 DEF Parsed
    <2>8. crashes \in 0 .. MaxCrash /\ faults \in SUBSET Faults
          BY ConstantsOK DEF Types, SizeInv
    <2> QED BY <2>2, <2>3, <2>4, <2>5, <2>6, <2>7, <2>8 DEF Types, TypeOK, Acks
  <1>2. IInv => Types
        BY DEF IInv
  <1>3. Bounded => SizeInv
        BY DEF Bounded
  <1>4. Spec => []Bounded
        BY <1>2, Invariance, InitBounded, NextBounded, PTL DEF Spec
  <1> QED BY <1>1, <1>3, <1>4, Invariance, PTL
============================================================================
