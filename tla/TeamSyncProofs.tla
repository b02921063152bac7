--------------------------- MODULE TeamSyncProofs ---------------------------
(***************************************************************************)
(* Proofs about TeamSync for any number of devices, snapshots, leases,     *)
(* checkouts, restores and faults.                                         *)
(*                                                                         *)
(* The inductive invariant Inv has four parts, each proved from the ones   *)
(* before it:                                                              *)
(*   Base      types; every request at whatever place was stored by its    *)
(*             device; every granted fence has one owner; a command waits  *)
(*             for an operation that is PENDING; the directory is there or *)
(*             a whole restore will become it;                             *)
(*   DataInv   what is sealed under the server's lease extends the head,   *)
(*             and the pinned head is in the directory;                    *)
(*   PinInv    pins and quarantines against the server's epoch;            *)
(*   UploadInv, SessionInv                                                 *)
(*             uploads at the server against upload_sessions: a session    *)
(*             that was given up has no request left that could land.      *)
(*                                                                         *)
(* Each part has one lemma per action or group of actions, named after     *)
(* them: XBase, XData, XPin, XSession.                                     *)
(***************************************************************************)
EXTENDS TeamSync, TLAPS, WellFoundedInduction

----------------------------------------------------------------------------
(* The inductive invariant, first part: what is stored is well formed and   *)
(* every granted fence has one owner.                                       *)

Grants  == {"PUBLISH", "CHECKOUT"}
UpKinds == {"UPLOAD", "FINALIZE", "COMMIT"}

\* The device was granted the fence.
Owns(d, f) == \E g \in DOMAIN ledger : g.kind \in Grants /\ g.dev = d /\ ledger[g] = f

\* The request of kind k for the upload of the snapshot s by its device.
Asks(k, d, s) == [kind |-> k, dev |-> d, n |-> 0, epoch |-> made[s].epoch,
                  fence |-> made[s].fence, base |-> made[s].ver - 1, head |-> 0, snap |-> s]

\* A request that some device stored, at whatever place it is now.
Known(r) ==
    /\ r.epoch <= epoch
    /\ r.kind = "PUBLISH" => r.base = 0 /\ r.head = 0
    /\ r.kind = "CHECKOUT" => r.n <= tries[r.dev]
    /\ r.kind = "RELEASE" => Owns(r.dev, r.fence)
    /\ r.kind \in UpKinds => /\ r.snap \in DOMAIN made
                             /\ r = Asks(r.kind, r.dev, r.snap)
                             /\ Owns(r.dev, r.fence)

\* The server's tables and what was sealed.
LogInv ==
    /\ \A v \in DOMAIN log : log[v] \in DOMAIN made /\ made[log[v]].ver = v
    /\ \A s \in DOMAIN made :
         made[s].fence \in 1 .. fence /\ made[s].epoch <= epoch /\ made[s].ver >= 1
    /\ \A s \in Snaps \ DOMAIN made : up[s] = "none" /\ sess[s] = "none"

LedgerInv ==
    /\ \A g \in DOMAIN ledger : g.kind \in Grants => ledger[g] \in 1 .. fence
    /\ \A g, h \in DOMAIN ledger :
         g.kind \in Grants /\ h.kind \in Grants /\ ledger[g] = ledger[h] => g = h
    /\ \A r \in DOMAIN ledger : r.kind = "COMMIT" => ledger[r] # 0
    /\ lease # None => lease.fence = fence /\ Owns(lease.dev, lease.fence)

WireInv == \A r \in net \cup DOMAIN ledger : Known(r)

\* A device: its row, its operations, what it waits for and what it holds.
RowOK(b) ==
    /\ b.epoch <= epoch
    /\ b.head = 0 => b.ver = 0 /\ b.base = 0
    /\ b.head # 0 => /\ b.head \in DOMAIN made /\ b.ver = made[b.head].ver
                     /\ b.base >= b.ver \/ b.base = 0

BindOK(d) ==
    /\ bind[d] # None => /\ RowOK(bind[d])
                         /\ bind[d].lease # 0 => Owns(d, bind[d].lease)
                         /\ ~Pending(d, "PUBLISH")
    /\ bind[d] = None => /\ ~Live(d, "CHECKOUT") /\ d \notin swap /\ ~loc[d].super
                         /\ loc[d].pc \in {"idle", "wait"}
                         /\ loc[d].pc = "wait" => loc[d].req.kind = "PUBLISH"
    /\ d \in swap => loc[d].pc = "idle" /\ bind[d].lease = 0

OpsOK(d) ==
    /\ \A k \in Kinds : Live(d, k) =>
         Known(ops[d][k].req) /\ ops[d][k].req.dev = d /\ ops[d][k].req.kind = k
    /\ Live(d, "CHECKOUT") => ~ops[d]["CHECKOUT"].done
    /\ Live(d, "RELEASE") => ~ops[d]["RELEASE"].done

WaitOK(d) ==
    /\ loc[d].req # None
    /\ Pending(d, loc[d].req.kind) /\ ops[d][loc[d].req.kind].req = loc[d].req
    /\ loc[d].req.kind = "CHECKOUT" => bind[d].lease = 0
    /\ loc[d].req.kind \in UpKinds => bind[d].lease = loc[d].req.fence
    /\ loc[d].ans # None /\ loc[d].ans.ok =>
         loc[d].req \in DOMAIN ledger /\ loc[d].ans.val = ledger[loc[d].req]

LocOK(d) ==
    /\ loc[d].req # None => Known(loc[d].req) /\ loc[d].req.dev = d
    /\ loc[d].pc = "idle" => loc[d] = Idle
    /\ loc[d].pc = "wait" => WaitOK(d)
    /\ loc[d].pc = "failed" => /\ loc[d].req # None /\ loc[d].req.kind \in UpKinds
                               /\ loc[d].got = bind[d].lease /\ bind[d].lease = loc[d].req.fence
    /\ loc[d].pc = "abandon" => Owns(d, loc[d].got)
    /\ loc[d].pc = "drop" => loc[d].req # None /\ loc[d].req.kind = "RELEASE"
    /\ loc[d].pc \in {"fetch", "staged"} => bind[d].lease = 0 /\ loc[d].got \in DOMAIN made

\* The directory is there or a whole restore will become it.
DirOK(d) ==
    /\ d \in swap => staging[d] # Partial /\ (staging[d] = None => udd[d] # None)
    /\ d \notin swap => udd[d] # None
    /\ loc[d].pc = "staged" => staging[d] = made[loc[d].got].data

DeviceOK(d) == BindOK(d) /\ OpsOK(d) /\ LocOK(d) /\ DirOK(d)

Base == TypeOK /\ LogInv /\ LedgerInv /\ WireInv /\ \A d \in Devices : DeviceOK(d)

----------------------------------------------------------------------------
(* Second part: leases, what is sealed under them, and the directories.     *)

\* A fence that was granted and not taken up.
Fresh(f) ==
    /\ \A s \in DOMAIN made : made[s].fence # f
    /\ \A d \in Devices : bind[d] # None => bind[d].lease # f

GrantInv ==
    /\ \A g \in DOMAIN ledger :
         g.kind \in Grants /\ lease # None /\ lease.fence = ledger[g] =>
           Len(log) = g.base /\ HeadSnap = g.head
    /\ \A d \in Devices, k \in Grants :
         Pending(d, k) /\ ops[d][k].req \in DOMAIN ledger => Fresh(ledger[ops[d][k].req])

\* The lease the server has and the device holds covers the head.
HoldOK(d) ==
    bind[d] # None /\ lease # None /\ bind[d].lease = lease.fence =>
      bind[d].head = HeadSnap /\ bind[d].ver = Len(log) /\ bind[d].base >= bind[d].ver

\* What is sealed under the server's lease extends the head.
SealInv ==
    \A s \in DOMAIN made :
      lease # None /\ made[s].fence = lease.fence =>
        made[s].ver = Len(log) + 1 /\ (log # <<>> => made[HeadSnap].data \subseteq made[s].data)

\* What is sealed under a device's lease is in its directory.
SealedOK(d) ==
    \A s \in DOMAIN made :
      bind[d] # None /\ made[s].fence = bind[d].lease =>
        made[s].data \subseteq udd[d] /\ made[s].epoch = bind[d].epoch

\* The pinned head is in the directory unless only a transition moved the pin.
HeadOK(d) ==
    bind[d] # None /\ bind[d].head # 0 /\ bind[d].base >= bind[d].ver
      => made[bind[d].head].data \subseteq DataOf(d)

\* The history: later snapshots of the log include earlier ones, and a restore
\* maps a head to one that it includes.
HistoryInv ==
    /\ \A v, w \in DOMAIN log : v <= w => made[log[v]].data \subseteq made[log[w]].data
    /\ \A e \in DOMAIN leaves :
         /\ leaves[e].old \in DOMAIN made /\ leaves[e].new \in DOMAIN made
         /\ made[leaves[e].new].data \subseteq made[leaves[e].old].data
    /\ epoch > 0 => Committed(leaves[epoch].new)

HoldInv   == \A d \in Devices : HoldOK(d)
SealedInv == \A d \in Devices : SealedOK(d)
HeadInv   == \A d \in Devices : HeadOK(d)

DataInv == GrantInv /\ HoldInv /\ SealInv /\ SealedInv /\ HeadInv /\ HistoryInv

----------------------------------------------------------------------------
(* Third part: pins and epochs.                                             *)

PinOK(d) ==
    /\ bind[d] # None =>
         /\ bind[d].q # "rollback"
         /\ bind[d].q = "transition" => bind[d].epoch < epoch
         /\ bind[d].epoch = epoch /\ bind[d].head # 0 => Committed(bind[d].head)
         /\ loc[d].super => bind[d].epoch < epoch
         /\ loc[d].pc \in {"fetch", "staged"} /\ bind[d].epoch = epoch => Committed(loc[d].got)
    /\ loc[d].pc = "wait" /\ loc[d].req.kind = "COMMIT" /\ loc[d].ans # None =>
         (~loc[d].ans.ok /\ loc[d].ans.val # 0 => loc[d].req.epoch < epoch)

PinInv ==
    /\ \A d \in Devices : PinOK(d)
    /\ \A r \in DOMAIN ledger : r.kind = "COMMIT" /\ ~Committed(r.snap) => r.epoch < epoch

----------------------------------------------------------------------------
(* Fourth part: uploads and sessions.                                       *)

\* No request can make s a version any more.
Doomed(s) ==
    /\ ~Committed(s)
    /\ \A r \in net : r.kind = "COMMIT" /\ r.snap = s =>
         r \in DOMAIN ledger \/ r.epoch < epoch \/ ~Held(r)

\* No upload of the fence is under way.
Quit(f) == \A s \in DOMAIN made : made[s].fence = f => sess[s] \notin {"OPEN", "READY"}

InLedger(k, s) == \E r \in DOMAIN ledger : r.kind = k /\ r.snap = s

\* The states of uploads, at the server and in upload_sessions.
UploadOK(s) ==
    /\ up[s] # "none" => InLedger("UPLOAD", s)
    /\ up[s] = "COMMITTED" \/ Committed(s) => InLedger("COMMIT", s)
    /\ InLedger("FINALIZE", s) =>
         InLedger("UPLOAD", s) /\ (made[s].epoch < epoch \/ up[s] \in {"READY", "COMMITTED"})
    /\ sess[s] = "READY" => InLedger("FINALIZE", s)
    /\ sess[s] = "ABORTED" => Doomed(s)
    /\ Committed(s) => sess[s] \in {"READY", "COMMITTED"}
    /\ \A r \in net \cup DOMAIN ledger :
         r.kind = "COMMIT" /\ r.snap = s => sess[s] \in {"READY", "COMMITTED", "ABORTED"}

UploadInv == \A s \in DOMAIN made : UploadOK(s)

\* The running command of a device.
CommandOK(d) ==
    /\ loc[d].pc = "wait" /\ loc[d].req.kind = "FINALIZE" => sess[loc[d].req.snap] = "OPEN"
    /\ loc[d].pc = "wait" /\ loc[d].req.kind = "COMMIT" =>
         /\ sess[loc[d].req.snap] = "READY"
         /\ loc[d].ans # None /\ ~loc[d].ans.ok => Doomed(loc[d].req.snap)
    /\ loc[d].pc = "failed" =>
         sess[loc[d].req.snap] \in {"OPEN", "READY"} /\ Doomed(loc[d].req.snap)
    /\ loc[d].pc = "abandon" => Quit(loc[d].got)
    /\ loc[d].pc = "drop" => Quit(loc[d].req.fence)
    /\ loc[d].super /\ loc[d].pc # "failed" => Quit(bind[d].lease)

\* Its stored operations and the lease it holds.
HolderOK(d) ==
    /\ Live(d, "RELEASE") => Quit(ops[d]["RELEASE"].req.fence)
    /\ bind[d] # None /\ bind[d].q = "transition" => Quit(bind[d].lease)
    /\ \A k \in {"FINALIZE", "COMMIT"} : Live(d, k) => sess[ops[d][k].req.snap] # "none"
    /\ Live(d, "COMMIT") /\ ops[d]["COMMIT"].done => sess[ops[d]["COMMIT"].req.snap] = "COMMITTED"
    /\ \A s \in DOMAIN made :
         bind[d] # None /\ made[s].fence = bind[d].lease /\ sess[s] # "none" =>
           Live(d, "UPLOAD") /\ ops[d]["UPLOAD"].done /\ ops[d]["UPLOAD"].req.snap = s

SessionInv == \A d \in Devices : CommandOK(d) /\ HolderOK(d)

Inv == Base /\ DataInv /\ PinInv /\ UploadInv /\ SessionInv

\* How the tables grow, and what a step of one device leaves to the others.
Grows ==
    /\ epoch <= epoch' /\ fence <= fence'
    /\ DOMAIN made \subseteq DOMAIN made'
    /\ \A s \in DOMAIN made : made'[s] = made[s]
    /\ DOMAIN ledger \subseteq DOMAIN ledger'
    /\ \A r \in DOMAIN ledger : ledger'[r] = ledger[r]
    /\ \A d \in Devices : tries[d] <= tries'[d]

Others(d) ==
    \A e \in Devices \ {d} :
      /\ bind'[e] = bind[e] /\ ops'[e] = ops[e] /\ loc'[e] = loc[e] /\ tries'[e] = tries[e]
      /\ udd'[e] = udd[e] /\ staging'[e] = staging[e]
      /\ e \in swap' <=> e \in swap

Kept == UNCHANGED <<epoch, log, fence, lease, ledger, leaves>>

----------------------------------------------------------------------------
(* Updates of one row.                                                      *)

LEMMA SetLoc ==
    ASSUME TypeOK, NEW d \in Devices, NEW x \in Local, loc' = [loc EXCEPT ![d] = x]
    PROVE  /\ loc' \in [Devices -> Local] /\ loc'[d] = x
           /\ \A e \in Devices \ {d} : loc'[e] = loc[e]
  <1>1. loc \in [Devices -> Local] BY DEF TypeOK
  <1> QED BY <1>1

LEMMA SetBind ==
    ASSUME TypeOK, NEW d \in Devices, NEW x \in Binding \cup {None},
           bind' = [bind EXCEPT ![d] = x]
    PROVE  /\ bind' \in [Devices -> Binding \cup {None}] /\ bind'[d] = x
           /\ \A e \in Devices \ {d} : bind'[e] = bind[e]
  <1>1. bind \in [Devices -> Binding \cup {None}] BY DEF TypeOK
  <1> QED BY <1>1

LEMMA SetOp ==
    ASSUME TypeOK, NEW d \in Devices, NEW k \in Kinds, NEW x \in Operation \cup {None},
           ops' = [ops EXCEPT ![d][k] = x]
    PROVE  /\ ops' \in [Devices -> [Kinds -> Operation \cup {None}]] /\ ops'[d][k] = x
           /\ \A j \in Kinds \ {k} : ops'[d][j] = ops[d][j]
           /\ \A e \in Devices \ {d} : ops'[e] = ops[e]
  <1>1. ops \in [Devices -> [Kinds -> Operation \cup {None}]] BY DEF TypeOK
  <1> QED BY <1>1

LEMMA IdleLocal == Idle \in Local
  BY DEF Idle, Holding, Local, PCs

LEMMA Returned ==
    ASSUME TypeOK, NEW d \in Devices, Return(d)
    PROVE  /\ loc' \in [Devices -> Local] /\ loc'[d] = Idle
           /\ \A e \in Devices \ {d} : loc'[e] = loc[e]
  BY IdleLocal, SetLoc DEF Return

LEMMA Sent ==
    ASSUME TypeOK, NEW d \in Devices, NEW r \in Request, NEW fresh \in BOOLEAN, Send(d, r, fresh)
    PROVE  /\ loc' \in [Devices -> Local]
           /\ loc'[d] = [pc |-> "wait", req |-> r, ans |-> None, fresh |-> fresh, got |-> 0,
                         super |-> loc[d].super]
           /\ \A e \in Devices \ {d} : loc'[e] = loc[e]
           /\ net' = net \cup {r} /\ net' \subseteq Request
  <1> DEFINE x == [pc |-> "wait", req |-> r, ans |-> None, fresh |-> fresh, got |-> 0,
                   super |-> loc[d].super]
  <1>1. loc[d] \in Local BY DEF TypeOK
  <1>2. x \in Local BY <1>1 DEF Local, PCs
  <1>4. loc' = [loc EXCEPT ![d] = x] BY DEF Send
  <1> HIDE DEF x
  <1>5. /\ loc' \in [Devices -> Local] /\ loc'[d] = x
        /\ \A e \in Devices \ {d} : loc'[e] = loc[e]
    BY <1>2, <1>4, SetLoc
  <1> QED BY <1>5 DEF x, Send, TypeOK

LEMMA AnewType ==
    ASSUME NEW r \in Request
    PROVE  Anew(r) \in Operation /\ Anew(r) # None /\ Anew(r).req = r /\ ~Anew(r).done
  <1>1. Anew(r) \in Operation BY DEF Anew, Operation
  <1>2. Anew(r) # None BY <1>1, NoneIsNew
  <1>3. Anew(r).req = r BY DEF Anew
  <1>4. ~Anew(r).done BY DEF Anew
  <1> QED BY <1>1, <1>2, <1>3, <1>4

LEMMA BlankType ==
    ASSUME NEW k \in Kinds, NEW d \in Devices, NEW e \in Nat
    PROVE  Blank(k, d, e) \in Request
  BY DEF Blank, Request

LEMMA ReleaseType ==
    ASSUME TypeOK, NEW d \in Devices, bind[d] # None, NEW f \in Nat
    PROVE  /\ Release(d, f) \in Request
           /\ Release(d, f) = [kind |-> "RELEASE", dev |-> d, n |-> 0, epoch |-> bind[d].epoch,
                               fence |-> f, base |-> 0, head |-> 0, snap |-> 0]
  <1>1. bind[d] \in Binding BY DEF TypeOK
  <1>2. bind[d].epoch \in Nat BY <1>1 DEF Binding
  <1> QED BY <1>2 DEF Release, Blank, Request, Kinds

\* The rows of a device and their fields.
LEMMA RowTypes ==
    ASSUME TypeOK, NEW d \in Devices
    PROVE  /\ loc[d] \in Local /\ loc[d].pc \in PCs /\ loc[d].got \in Nat
           /\ loc[d].super \in BOOLEAN /\ loc[d].fresh \in BOOLEAN
           /\ loc[d].req # None => loc[d].req \in Request
           /\ loc[d].ans # None => /\ loc[d].ans \in Reply /\ loc[d].ans.val \in Nat
                                   /\ loc[d].ans.ok \in BOOLEAN
           /\ bind[d] # None => /\ bind[d] \in Binding /\ bind[d].ver \in Nat /\ bind[d].base \in Nat
                                /\ bind[d].head \in Nat /\ bind[d].epoch \in Nat
                                /\ bind[d].lease \in Nat
           /\ \A k \in Kinds : /\ ops[d][k] \in Operation \cup {None}
                               /\ ops[d][k] # None => /\ ops[d][k].req \in Request
                                                      /\ ops[d][k].done \in BOOLEAN
           /\ tries[d] \in Nat
  <1>1. loc[d] \in Local BY DEF TypeOK
  <1>2. bind[d] \in Binding \cup {None} BY DEF TypeOK
  <1>3. \A k \in Kinds : ops[d][k] \in Operation \cup {None} BY DEF TypeOK
  <1>4. tries[d] \in Nat BY DEF TypeOK
  <1>5. loc[d].ans # None => loc[d].ans \in Reply BY <1>1 DEF Local
  <1>6. loc[d].ans # None => loc[d].ans.val \in Nat /\ loc[d].ans.ok \in BOOLEAN BY <1>5 DEF Reply
  <1>7. bind[d] # None => /\ bind[d] \in Binding /\ bind[d].ver \in Nat /\ bind[d].base \in Nat
                                /\ bind[d].head \in Nat /\ bind[d].epoch \in Nat
                                /\ bind[d].lease \in Nat
    BY <1>2 DEF Binding
  <1>8. \A k \in Kinds : ops[d][k] # None => ops[d][k].req \in Request /\ ops[d][k].done \in BOOLEAN
    BY <1>3 DEF Operation
  <1>9. /\ loc[d].pc \in PCs /\ loc[d].got \in Nat
        /\ loc[d].super \in BOOLEAN /\ loc[d].fresh \in BOOLEAN
        /\ loc[d].req # None => loc[d].req \in Request
    BY <1>1 DEF Local
  <1> QED BY <1>1, <1>3, <1>4, <1>5, <1>6, <1>7, <1>8, <1>9

----------------------------------------------------------------------------
(* What is known stays known.                                               *)

LEMMA OwnsStays ==
    ASSUME Grows, NEW d, NEW f, Owns(d, f)
    PROVE  Owns(d, f)'
  BY DEF Grows, Owns

LEMMA KnownStays ==
    ASSUME TypeOK, TypeOK', Grows, NEW r \in Request, Known(r)
    PROVE  Known(r)'
  <1>1. r.epoch \in Nat /\ r.dev \in Devices /\ r.n \in Nat BY DEF Request
  <1>2. epoch \in Nat /\ epoch' \in Nat /\ tries[r.dev] \in Nat /\ tries'[r.dev] \in Nat
    BY <1>1 DEF TypeOK
  <1>3. Owns(r.dev, r.fence) => Owns(r.dev, r.fence)' BY OwnsStays
  <1>4. r.snap \in DOMAIN made => r.snap \in DOMAIN made' /\ made'[r.snap] = made[r.snap]
    BY DEF Grows
  <1>5. r.snap \in DOMAIN made => (Asks(r.kind, r.dev, r.snap))' = Asks(r.kind, r.dev, r.snap)
    BY <1>4 DEF Asks
  <1>6. r.epoch <= epoch' BY <1>1, <1>2 DEF Grows, Known
  <1>7. r.kind = "CHECKOUT" => r.n <= tries'[r.dev] BY <1>1, <1>2 DEF Grows, Known
  <1> QED BY <1>3, <1>4, <1>5, <1>6, <1>7 DEF Known

LEMMA OwnerUnique ==
    ASSUME TypeOK, LedgerInv, NEW d, NEW e, NEW f, Owns(d, f), Owns(e, f)
    PROVE  d = e /\ f \in 1 .. fence
  BY DEF Owns, LedgerInv

LEMMA DeviceStays ==
    ASSUME TypeOK, TypeOK', Grows, NEW e \in Devices, DeviceOK(e),
           bind'[e] = bind[e], ops'[e] = ops[e], loc'[e] = loc[e],
           udd'[e] = udd[e], staging'[e] = staging[e], e \in swap' <=> e \in swap
    PROVE  DeviceOK(e)'
  <1>1. /\ loc[e].req # None => loc[e].req \in Request
        /\ \A k \in Kinds : ops[e][k] # None => ops[e][k].req \in Request
        /\ bind[e] # None => bind[e].epoch \in Nat
    BY RowTypes
  <1>2. loc[e].req # None /\ Known(loc[e].req) => Known(loc[e].req)'
    BY <1>1, KnownStays
  <1>3. \A k \in Kinds : ops[e][k] # None /\ Known(ops[e][k].req) => Known(ops[e][k].req)'
    <2> SUFFICES ASSUME NEW k \in Kinds, ops[e][k] # None, NEW r, r = ops[e][k].req, Known(r)
                 PROVE Known(r)' OBVIOUS
    <2> QED BY <1>1, KnownStays
  <1>4. \A f : Owns(e, f) => Owns(e, f)' BY OwnsStays
  <1>5. BindOK(e)'
    <2>1. bind[e] # None /\ RowOK(bind[e]) => RowOK(bind[e])'
      <3>1. epoch \in Nat /\ epoch' \in Nat BY DEF TypeOK
      <3> QED BY <1>1, <3>1 DEF RowOK, Grows
    <2> QED BY <2>1, <1>4 DEF DeviceOK, BindOK, Pending, Live
  <1>6. OpsOK(e)' BY <1>3 DEF DeviceOK, OpsOK, Live
  <1>7. LocOK(e)'
    <2>1. loc[e].pc = "wait" => WaitOK(e)'
      BY DEF DeviceOK, LocOK, WaitOK, Pending, Live, Grows
    <2> QED BY <1>2, <1>4, <2>1 DEF DeviceOK, LocOK, Grows
  <1>8. DirOK(e)' BY DEF DeviceOK, LocOK, DirOK, Grows
  <1> QED BY <1>5, <1>6, <1>7, <1>8 DEF DeviceOK

----------------------------------------------------------------------------

LEMMA SeqElement ==
    ASSUME NEW S, NEW q \in Seq(S), NEW i \in DOMAIN q
    PROVE  q[i] \in S /\ i \in Nat /\ i >= 1 /\ i <= Len(q) /\ Len(q) \in Nat
  OBVIOUS

LEMMA MadeType ==
    ASSUME TypeOK, NEW s \in DOMAIN made
    PROVE  /\ s \in Nat /\ s >= 1 /\ s \in Snaps /\ s <= Len(made)
           /\ made[s].data \in Data /\ made[s].epoch \in Nat /\ made[s].fence \in Nat
           /\ made[s].ver \in Nat
  <1> DEFINE R == [data : Data, epoch : Nat, fence : Nat, ver : Nat]
  <1>1. made \in Seq(R) /\ Len(made) <= MaxSnap BY DEF TypeOK
  <1>2. \A x \in R : x.data \in Data /\ x.epoch \in Nat /\ x.fence \in Nat /\ x.ver \in Nat
    OBVIOUS
  <1> HIDE DEF R
  <1>3. made[s] \in R /\ s \in Nat /\ s >= 1 /\ s <= Len(made) /\ Len(made) \in Nat
    BY <1>1, SeqElement
  <1>4. s \in Snaps BY <1>1, <1>3, BoundsOK DEF Snaps
  <1> QED BY <1>2, <1>3, <1>4

LEMMA LogType ==
    ASSUME TypeOK, NEW v \in DOMAIN log
    PROVE  v \in Nat /\ v >= 1 /\ v <= Len(log) /\ log[v] \in Snaps /\ log[v] \in Nat /\ log[v] >= 1
           /\ Len(log) \in Nat
  <1>1. log \in Seq(Snaps) BY DEF TypeOK
  <1>2. log[v] \in Snaps /\ v \in Nat /\ v >= 1 /\ v <= Len(log) /\ Len(log) \in Nat
    BY <1>1, SeqElement
  <1> QED BY <1>2, BoundsOK DEF Snaps

----------------------------------------------------------------------------
(* A step of one device.                                                    *)

LEMMA DeviceStep ==
    ASSUME Base, TypeOK', NEW d \in Devices, Kept, Grows, Others(d), LogInv',
           \A r \in net' : r \in net \/ Known(r)', DeviceOK(d)'
    PROVE  Base'
  <1>1. TypeOK /\ LedgerInv /\ WireInv /\ \A e \in Devices : DeviceOK(e) BY DEF Base
  <1>2. LedgerInv' BY <1>1 DEF LedgerInv, Kept, Owns
  <1>3. WireInv'
    <2> SUFFICES ASSUME NEW r \in net' \cup DOMAIN ledger' PROVE Known(r)' BY DEF WireInv
    <2>1. CASE r \in net \cup DOMAIN ledger
      <3>1. r \in Request BY <1>1, <2>1 DEF TypeOK
      <3>2. Known(r) BY <1>1, <2>1 DEF WireInv
      <3> QED BY <1>1, <3>1, <3>2, KnownStays
    <2> QED BY <2>1 DEF Kept
  <1>4. ASSUME NEW e \in Devices PROVE DeviceOK(e)'
    <2>1. CASE e = d BY <2>1
    <2>2. CASE e # d BY <1>1, <2>2, DeviceStays DEF Others
    <2> QED BY <2>1, <2>2
  <1> QED BY <1>2, <1>3, <1>4 DEF Base

LEMMA LogStays ==
    ASSUME Base, Kept, made' = made,
           \A s \in Snaps \ DOMAIN made : up'[s] = up[s] /\ sess'[s] = sess[s]
    PROVE  LogInv'
  BY DEF Base, LogInv, Kept, Snaps

LEMMA QuietGrows ==
    ASSUME TypeOK, Kept, UNCHANGED <<made, tries>>
    PROVE  Grows
  BY DEF TypeOK, Kept, Grows

\* The types of what a device may write.
LEMMA QuietTypes ==
    ASSUME TypeOK, Kept, UNCHANGED <<made, tries>>, faults' \in Nat,
           up' \in [Snaps -> {"none", "OPEN", "FULL", "READY", "COMMITTED"}],
           sess' \in [Snaps -> {"none", "OPEN", "READY", "COMMITTED", "ABORTED"}],
           bind' \in [Devices -> Binding \cup {None}],
           ops' \in [Devices -> [Kinds -> Operation \cup {None}]],
           loc' \in [Devices -> Local],
           swap' \subseteq Devices, net' \subseteq Request,
           udd' \in [Devices -> Data \cup {None}],
           staging' \in [Devices -> Data \cup {Partial, None}],
           old' \in [Devices -> Data \cup {None}]
    PROVE  TypeOK'
  BY DEF TypeOK, Kept

LEMMA FaultNat == ASSUME TypeOK, Fault \/ UNCHANGED faults PROVE faults' \in Nat
  BY DEF TypeOK, Fault

\* A command sends a request it has stored.
LEMMA SendStep ==
    ASSUME Base, TypeOK', Grows, Kept, LogInv', NEW d \in Devices, NEW r \in Request,
           NEW fresh \in BOOLEAN, Send(d, r, fresh), r.dev = d, Known(r)',
           ops'[d][r.kind] # None, ops'[d][r.kind].req = r, ~ops'[d][r.kind].done,
           \A j \in Kinds \ {r.kind} : ops'[d][j] \in {ops[d][j], None},
           \A e \in Devices \ {d} : ops'[e] = ops[e] /\ udd'[e] = udd[e] /\ tries'[e] = tries[e],
           bind' = bind, swap' = swap, d \notin swap, staging' = staging, udd'[d] # None,
           r.kind = "PUBLISH" <=> bind[d] = None,
           r.kind = "CHECKOUT" => bind[d].lease = 0,
           r.kind \in UpKinds => bind[d].lease = r.fence
    PROVE  Base'
  <1>1. TypeOK /\ DeviceOK(d) BY DEF Base
  <1>2. /\ loc'[d] = [pc |-> "wait", req |-> r, ans |-> None, fresh |-> fresh, got |-> 0,
                      super |-> loc[d].super]
        /\ \A e \in Devices \ {d} : loc'[e] = loc[e]
        /\ net' = net \cup {r}
    BY <1>1, Sent
  <1>3. /\ loc'[d].pc = "wait" /\ loc'[d].req = r /\ loc'[d].ans = None
        /\ loc'[d].super = loc[d].super
    BY <1>2
  <1>4. Others(d) BY <1>2 DEF Others
  <1>5. r.kind \in Kinds /\ r # None BY NoneIsNew DEF Request
  <1>6. BindOK(d)'
    <2>1. bind[d] # None => RowOK(bind[d])'
      <3>1. bind[d] # None => bind[d].epoch \in Nat BY <1>1, RowTypes
      <3>2. epoch \in Nat /\ epoch' \in Nat BY <1>1 DEF TypeOK
      <3> QED BY <1>1, <3>1, <3>2 DEF DeviceOK, BindOK, RowOK, Grows
    <2>2. bind[d] # None /\ bind[d].lease # 0 => Owns(d, bind[d].lease)'
      BY <1>1, OwnsStays DEF DeviceOK, BindOK
    <2>3. bind[d] # None => ~(ops'[d]["PUBLISH"] # None /\ ~ops'[d]["PUBLISH"].done)
      BY <1>1, <1>5 DEF DeviceOK, BindOK, Pending, Live, Kinds
    <2>4. bind[d] = None => /\ ops'[d]["CHECKOUT"] = None /\ ~loc[d].super
      BY <1>1, <1>5 DEF DeviceOK, BindOK, Pending, Live, Kinds
    <2> QED BY <1>3, <2>1, <2>2, <2>3, <2>4 DEF BindOK, Pending, Live
  <1>7. OpsOK(d)'
    <2>1. \A k \in Kinds : ops[d][k] # None => ops[d][k].req \in Request /\ Known(ops[d][k].req)
      BY <1>1, RowTypes DEF DeviceOK, OpsOK, Live
    <2>2. \A x \in Request : Known(x) => Known(x)' BY <1>1, KnownStays
    <2>3. ASSUME NEW k \in Kinds, ops'[d][k] # None
          PROVE  Known(ops[d][k].req)' /\ ops'[d][k].req.dev = d /\ ops'[d][k].req.kind = k
      <3>1. CASE k = r.kind BY <3>1
      <3>2. CASE k # r.kind
        <4>1. ops'[d][k] = ops[d][k] BY <2>3, <3>2
        <4>2. ASSUME NEW x, x = ops[d][k].req PROVE Known(x)' BY <2>1, <2>2, <2>3, <4>1, <4>2
        <4> QED BY <1>1, <2>3, <4>1, <4>2 DEF DeviceOK, OpsOK, Live
      <3> QED BY <3>1, <3>2
    <2>4. ops'[d]["CHECKOUT"] # None => ~ops'[d]["CHECKOUT"].done
      BY <1>1, <1>5 DEF DeviceOK, OpsOK, Live, Kinds
    <2>5. ops'[d]["RELEASE"] # None => ~ops'[d]["RELEASE"].done
      BY <1>1, <1>5 DEF DeviceOK, OpsOK, Live, Kinds
    <2> QED BY <2>3, <2>4, <2>5 DEF OpsOK, Live
  <1>8. LocOK(d)'
    <2>1. WaitOK(d)' BY <1>3, <1>5 DEF WaitOK, Pending, Live
    <2>2. Known(loc[d].req)' BY <1>3
    <2> QED BY <1>3, <2>1, <2>2 DEF LocOK
  <1>9. DirOK(d)' BY <1>3 DEF DirOK
  <1>10. DeviceOK(d)' BY <1>6, <1>7, <1>8, <1>9 DEF DeviceOK
  <1>11. \A x \in net' : x \in net \/ Known(x)' BY <1>2
  <1> QED BY <1>4, <1>10, <1>11, DeviceStep

----------------------------------------------------------------------------
(* The commands that send.                                                  *)

\* An operation stored before is sent as it is.
LEMMA ResendBase ==
    ASSUME Base, NEW d \in Devices, NEW k \in Kinds, At(d, "idle"), d \notin swap, Pending(d, k),
           k = "PUBLISH" <=> bind[d] = None,
           k = "CHECKOUT" => bind[d].lease = 0, k \in UpKinds => OfLease(d, k),
           Resend(d, k)
    PROVE  Base'
  <1> DEFINE r == ops[d][k].req
  <1>1. TypeOK /\ DeviceOK(d) BY DEF Base
  <1>2. /\ Send(d, r, FALSE) /\ Kept
        /\ UNCHANGED <<made, up, bind, ops, sess, swap, udd, staging, old, tries, faults>>
    BY DEF Resend, Kept, server, db, dirs
  <1>3. /\ r \in Request /\ Known(r) /\ r.dev = d /\ r.kind = k /\ ops[d][k] # None /\ ~ops[d][k].done
        /\ k \in UpKinds => bind[d].lease = r.fence
    BY <1>1, RowTypes DEF DeviceOK, OpsOK, Pending, Live, OfLease
  <1>4. udd[d] # None BY <1>1 DEF DeviceOK, DirOK
  <1> HIDE DEF r
  <1>5. loc' \in [Devices -> Local] /\ net' \subseteq Request BY <1>1, <1>2, <1>3, Sent
  <1>6. TypeOK' BY <1>1, <1>2, <1>5 DEF TypeOK, Kept
  <1>7. Grows /\ LogInv' BY <1>1, <1>2, QuietGrows, LogStays
  <1>8. Known(r) => \A x : x = r => Known(x)'
    BY <1>1, <1>3, <1>6, <1>7, KnownStays
  <1>9. ops'[d][r.kind] # None /\ ops'[d][r.kind].req = r /\ ~ops'[d][r.kind].done
    BY <1>2, <1>3 DEF r
  <1>10. ASSUME NEW x, x = r PROVE Base'
    <2>1. Known(x)' BY <1>3, <1>8, <1>10
    <2>2. \A j \in Kinds \ {x.kind} : ops'[d][j] \in {ops[d][j], None} BY <1>2
    <2>3. x.kind = k /\ x.dev = d /\ x \in Request /\ Send(d, x, FALSE)
          /\ ops'[d][x.kind] # None /\ ops'[d][x.kind].req = x /\ ~ops'[d][x.kind].done
          /\ (k \in UpKinds => bind[d].lease = x.fence)
      BY <1>2, <1>3, <1>9, <1>10
    <2>4. /\ \A e \in Devices \ {d} : ops'[e] = ops[e] /\ udd'[e] = udd[e] /\ tries'[e] = tries[e]
          /\ bind' = bind /\ swap' = swap /\ staging' = staging /\ udd'[d] # None
      BY <1>2, <1>4
    <2> QED BY <1>2, <1>6, <1>7, <2>1, <2>2, <2>3, <2>4, SendStep
  <1> QED BY <1>10

LEMMA ResendsBase ==
    ASSUME Base, NEW d \in Devices,
           \/ SendPublish(d) \/ ReplayRelease(d) \/ ReplayCheckout(d) \/ CreateUpload(d)
           \/ ResendFinalize(d) \/ Commit(d)
    PROVE  Base'
  <1>1. TypeOK /\ DeviceOK(d) BY DEF Base
  <1>2. CASE SendPublish(d)
    <2>1. At(d, "idle") /\ bind[d] = None /\ Pending(d, "PUBLISH") /\ Resend(d, "PUBLISH")
      BY <1>2 DEF SendPublish, Free
    <2>2. d \notin swap BY <1>1, <2>1 DEF DeviceOK, BindOK
    <2> QED BY <2>1, <2>2, ResendBase DEF Kinds, UpKinds
  <1>3. CASE ReplayRelease(d)
    BY <1>3, ResendBase DEF ReplayRelease, Current, Bound, Kinds, UpKinds
  <1>4. CASE ReplayCheckout(d)
    BY <1>4, ResendBase DEF ReplayCheckout, Listed, Lists, Current, Bound, Kinds, UpKinds
  <1>5. CASE CreateUpload(d)
    BY <1>5, ResendBase DEF CreateUpload, Working, Current, Bound, Kinds, UpKinds
  <1>6. CASE ResendFinalize(d)
    BY <1>6, ResendBase DEF ResendFinalize, InSession, Working, Current, Bound, Kinds, UpKinds
  <1>7. CASE Commit(d)
    BY <1>7, ResendBase DEF Commit, InSession, Working, Current, Bound, Kinds, UpKinds
  <1> QED BY <1>2, <1>3, <1>4, <1>5, <1>6, <1>7

\* A request is stored as the operation of its kind and sent.
LEMMA StoreBase ==
    ASSUME Base, NEW d \in Devices, NEW r \in Request, NEW fresh \in BOOLEAN,
           ops' = [ops EXCEPT ![d][r.kind] = Anew(r)], Send(d, r, fresh),
           r.dev = d, d \notin swap, Kept, UNCHANGED <<made, up, bind, sess, swap, dirs, faults>>,
           tries' \in [Devices -> Nat], \A e \in Devices : tries[e] <= tries'[e],
           \A e \in Devices \ {d} : tries'[e] = tries[e],
           Known(r)',
           r.kind = "PUBLISH" <=> bind[d] = None,
           r.kind = "CHECKOUT" => bind[d].lease = 0, r.kind \in UpKinds => bind[d].lease = r.fence
    PROVE  Base'
  <1>1. TypeOK /\ DeviceOK(d) /\ LogInv BY DEF Base
  <1>2. r.kind \in Kinds BY DEF Request
  <1>3. /\ ops' \in [Devices -> [Kinds -> Operation \cup {None}]] /\ ops'[d][r.kind] = Anew(r)
        /\ \A j \in Kinds \ {r.kind} : ops'[d][j] = ops[d][j]
        /\ \A e \in Devices \ {d} : ops'[e] = ops[e]
    <2>1. Anew(r) \in Operation \cup {None} BY AnewType
    <2>2. ASSUME NEW k \in Kinds, k = r.kind, NEW x \in Operation \cup {None}, x = Anew(r)
          PROVE  /\ ops' \in [Devices -> [Kinds -> Operation \cup {None}]] /\ ops'[d][k] = x
                 /\ \A j \in Kinds \ {k} : ops'[d][j] = ops[d][j]
                 /\ \A e \in Devices \ {d} : ops'[e] = ops[e]
      <3>1. ops' = [ops EXCEPT ![d][k] = x] BY <2>2
      <3> QED BY ONLY <1>1, <3>1, SetOp, ZenonT(60)
    <2> QED BY <1>2, <2>1, <2>2
  <1>4. Anew(r) # None /\ Anew(r).req = r /\ ~Anew(r).done BY AnewType
  <1>5. loc' \in [Devices -> Local] /\ net' \subseteq Request BY <1>1, Sent
  <1>6. TypeOK' BY <1>1, <1>3, <1>5 DEF TypeOK, Kept, dirs
  <1>7. Grows BY <1>1 DEF TypeOK, Kept, Grows
  <1>8. LogInv' BY <1>1 DEF LogInv, Kept
  <1>9. udd[d] # None BY <1>1 DEF DeviceOK, DirOK
  <1>10. /\ \A e \in Devices \ {d} : ops'[e] = ops[e] /\ udd'[e] = udd[e] /\ tries'[e] = tries[e]
         /\ bind' = bind /\ swap' = swap /\ staging' = staging /\ udd'[d] # None
         /\ \A j \in Kinds \ {r.kind} : ops'[d][j] \in {ops[d][j], None}
    BY <1>3, <1>9 DEF dirs
  <1> QED BY <1>3, <1>4, <1>6, <1>7, <1>8, <1>10, SendStep

LEMMA StorePublishBase ==
    ASSUME Base, NEW d \in Devices, StorePublish(d) PROVE Base'
  <1> DEFINE r == Blank("PUBLISH", d, epoch)
  <1>1. TypeOK /\ DeviceOK(d) BY DEF Base
  <1>2. epoch \in Nat BY <1>1 DEF TypeOK
  <1>3. r \in Request BY <1>2, BlankType DEF Kinds
  <1>4. r.kind = "PUBLISH" /\ r.dev = d /\ r.epoch = epoch /\ r.base = 0 /\ r.head = 0 BY DEF Blank
  <1>5. /\ bind[d] = None /\ ops' = [ops EXCEPT ![d]["PUBLISH"] = Anew(r)] /\ Send(d, r, TRUE)
        /\ Kept /\ UNCHANGED <<made, up, bind, sess, swap, dirs, tries, faults>>
    BY DEF StorePublish, Free, Kept, server
  <1> HIDE DEF r
  <1>6. d \notin swap BY <1>1, <1>5 DEF DeviceOK, BindOK
  <1>7. \A e \in Devices : tries[e] \in Nat BY <1>1 DEF TypeOK
  <1>8. tries' \in [Devices -> Nat] /\ \A e \in Devices : tries[e] <= tries'[e] /\ tries'[e] = tries[e]
    BY <1>1, <1>5, <1>7 DEF TypeOK
  <1>9. ASSUME NEW x, x = r PROVE Base'
    <2>1. Known(x)' BY <1>2, <1>4, <1>5, <1>9 DEF Known, UpKinds, Kept
    <2>2. ops' = [ops EXCEPT ![d][x.kind] = Anew(x)] BY <1>4, <1>5, <1>9
    <2>3. x \in Request /\ x.dev = d /\ x.kind = "PUBLISH" /\ Send(d, x, TRUE)
      BY <1>3, <1>4, <1>5, <1>9
    <2> QED BY <1>5, <1>6, <1>8, <2>1, <2>2, <2>3, StoreBase DEF UpKinds
  <1> QED BY <1>9

\* A release of a fence the device was granted.
LEMMA ReleaseBase ==
    ASSUME Base, NEW d \in Devices, NEW r \in Request, NEW fresh \in BOOLEAN,
           bind[d] # None, r.kind = "RELEASE", r.dev = d, r.epoch <= epoch, Owns(d, r.fence),
           ops' = [ops EXCEPT ![d]["RELEASE"] = Anew(r)], Send(d, r, fresh),
           d \notin swap, UNCHANGED <<server, made, bind, sess, swap, dirs, tries, faults>>
    PROVE  Base'
  <1>1. TypeOK BY DEF Base
  <1>2. Kept /\ UNCHANGED up BY DEF server, Kept
  <1>3. Known(r)' BY <1>2 DEF Known, UpKinds, Kept, Owns
  <1>4. \A e \in Devices : tries[e] \in Nat BY <1>1 DEF TypeOK
  <1>5. tries' \in [Devices -> Nat] /\ \A e \in Devices : tries[e] <= tries'[e] /\ tries'[e] = tries[e]
    BY <1>1, <1>4 DEF TypeOK
  <1> QED BY <1>2, <1>3, <1>5, StoreBase DEF UpKinds

LEMMA AbandonBase ==
    ASSUME Base, NEW d \in Devices, Abandon(d) PROVE Base'
  <1>1. TypeOK /\ DeviceOK(d) BY DEF Base
  <1>2. loc[d].pc = "abandon" BY DEF Abandon, At
  <1>3. bind[d] # None /\ d \notin swap /\ Owns(d, loc[d].got)
    BY <1>1, <1>2 DEF DeviceOK, BindOK, LocOK
  <1>4. loc[d].got \in Nat /\ bind[d].epoch <= epoch
    BY <1>1, <1>3, RowTypes DEF DeviceOK, BindOK, RowOK
  <1>5. ASSUME NEW r, r = Release(d, loc[d].got) PROVE Base'
    <2>1. r \in Request /\ r.kind = "RELEASE" /\ r.dev = d /\ r.epoch <= epoch /\ r.fence = loc[d].got
      BY <1>1, <1>3, <1>4, <1>5, ReleaseType
    <2>2. /\ ops' = [ops EXCEPT ![d]["RELEASE"] = Anew(r)] /\ Send(d, r, TRUE)
          /\ UNCHANGED <<server, made, bind, sess, swap, dirs, tries, faults>>
      BY <1>5 DEF Abandon
    <2> QED BY <1>3, <2>1, <2>2, ReleaseBase
  <1> QED BY <1>5

LEMMA AwaitReleaseBase ==
    ASSUME Base, NEW d \in Devices, AwaitRelease(d) PROVE Base'
  <1>1. TypeOK /\ DeviceOK(d) BY DEF Base
  <1>2. bind[d] # None /\ d \notin swap /\ bind[d].lease # 0
    BY DEF AwaitRelease, Awaits, Bound
  <1>3. Owns(d, bind[d].lease) /\ bind[d].lease \in Nat /\ bind[d].epoch <= epoch
    BY <1>1, <1>2, RowTypes DEF DeviceOK, BindOK, RowOK
  <1>4. ASSUME NEW r, r = IF Pending(d, "RELEASE") /\ OfLease(d, "RELEASE")
                          THEN ops[d]["RELEASE"].req ELSE Release(d, bind[d].lease)
        PROVE Base'
    <2>1. r \in Request /\ r.kind = "RELEASE" /\ r.dev = d /\ r.epoch <= epoch /\ r.fence = bind[d].lease
      <3>1. CASE Pending(d, "RELEASE") /\ OfLease(d, "RELEASE")
        BY <1>1, <1>4, <3>1, RowTypes DEF DeviceOK, OpsOK, Live, OfLease, Kinds, Known
      <3>2. CASE ~(Pending(d, "RELEASE") /\ OfLease(d, "RELEASE"))
        BY <1>1, <1>2, <1>3, <1>4, <3>2, ReleaseType
      <3> QED BY <3>1, <3>2
    <2>2. /\ ops' = [ops EXCEPT ![d]["RELEASE"] = Anew(r)] /\ Send(d, r, FALSE)
          /\ UNCHANGED <<server, made, bind, sess, swap, dirs, tries, faults>>
      BY <1>4 DEF AwaitRelease
    <2> QED BY <1>2, <1>3, <2>1, <2>2, ReleaseBase
  <1> QED BY <1>4

----------------------------------------------------------------------------
(* Other commands that send.                                                *)

\* The request of another kind for the same upload.
LEMMA OtherKind ==
    ASSUME TypeOK, NEW u \in Request, u.kind \in UpKinds, Known(u), NEW k \in UpKinds, NEW r,
           r = [u EXCEPT !.kind = k]
    PROVE  /\ r \in Request /\ Known(r) /\ r.kind = k /\ r.dev = u.dev /\ r.fence = u.fence
           /\ r.snap = u.snap /\ r.epoch = u.epoch /\ r.base = u.base
  <1>1. u = Asks(u.kind, u.dev, u.snap) /\ Owns(u.dev, u.fence) /\ u.snap \in DOMAIN made
        /\ u.epoch <= epoch
    BY DEF Known
  <1>2. r \in Request /\ r.kind = k /\ r.dev = u.dev /\ r.fence = u.fence /\ r.snap = u.snap
        /\ r.epoch = u.epoch /\ r.base = u.base
    BY DEF Request, UpKinds, Kinds
  <1>3. r = Asks(k, u.dev, u.snap) BY <1>1 DEF Asks
  <1> QED BY <1>1, <1>2, <1>3 DEF Known, UpKinds

----------------------------------------------------------------------------

LEMMA CheckoutBase ==
    ASSUME Base, NEW d \in Devices, Checkout(d) PROVE Base'
  <1>1. TypeOK /\ DeviceOK(d) BY DEF Base
  <1>2. /\ bind[d] # None /\ d \notin swap /\ bind[d].lease = 0
        /\ Kept /\ UNCHANGED <<made, up, bind, sess, swap, dirs, faults>>
        /\ tries' = [tries EXCEPT ![d] = tries[d] + 1]
    BY DEF Checkout, Listed, Lists, Current, Bound, Kept, server
  <1>3. /\ bind[d].epoch \in Nat /\ bind[d].ver \in Nat /\ bind[d].head \in Nat /\ tries[d] \in Nat
        /\ bind[d].epoch <= epoch
    BY <1>1, <1>2, RowTypes DEF DeviceOK, BindOK, RowOK
  <1>4. /\ tries' \in [Devices -> Nat] /\ tries'[d] = tries[d] + 1
        /\ \A e \in Devices : tries[e] <= tries'[e]
        /\ \A e \in Devices \ {d} : tries'[e] = tries[e]
    <2>1. tries \in [Devices -> Nat] BY <1>1 DEF TypeOK
    <2> QED BY <1>2, <2>1
  <1>5. ASSUME NEW r, r = [kind |-> "CHECKOUT", dev |-> d, n |-> tries[d] + 1,
                            epoch |-> bind[d].epoch, fence |-> 0, base |-> bind[d].ver,
                            head |-> bind[d].head, snap |-> 0]
        PROVE Base'
    <2>1. /\ r \in Request /\ r.kind = "CHECKOUT" /\ r.dev = d /\ r.n = tries[d] + 1
          /\ r.epoch = bind[d].epoch
      BY <1>3, <1>5 DEF Request, Kinds
    <2>2. ops' = [ops EXCEPT ![d]["CHECKOUT"] = Anew(r)] /\ Send(d, r, TRUE)
      BY <1>5 DEF Checkout
    <2>3. Known(r)' BY <1>2, <1>3, <1>4, <2>1 DEF Known, UpKinds, Kept
    <2> QED BY <1>2, <1>4, <2>1, <2>2, <2>3, StoreBase DEF UpKinds
  <1> QED BY <1>5

LEMMA FinalizeBase ==
    ASSUME Base, NEW d \in Devices, Finalize(d) PROVE Base'
  <1>1. TypeOK /\ DeviceOK(d) BY DEF Base
  <1>2. /\ bind[d] # None /\ d \notin swap /\ ops[d]["COMMIT"] # None
        /\ ops[d]["COMMIT"].req.fence = bind[d].lease
        /\ Kept /\ UNCHANGED <<made, up, bind, sess, swap, dirs, faults, tries>>
    BY DEF Finalize, Untransferred, InSession, Working, Current, Bound, OfLease, Live, Kept, server
  <1>3. ASSUME NEW u, u = ops[d]["COMMIT"].req, NEW r, r = [u EXCEPT !.kind = "FINALIZE"]
        PROVE Base'
    <2>1. u \in Request /\ Known(u) /\ u.dev = d /\ u.kind = "COMMIT"
      BY <1>1, <1>2, <1>3, RowTypes DEF DeviceOK, OpsOK, Live, Kinds
    <2>2. /\ r \in Request /\ Known(r) /\ r.kind = "FINALIZE" /\ r.dev = d
          /\ r.fence = bind[d].lease
      BY <1>1, <1>2, <1>3, <2>1, OtherKind DEF UpKinds
    <2>3. ops' = [ops EXCEPT ![d]["FINALIZE"] = Anew(r)] /\ Send(d, r, TRUE)
      BY <1>3 DEF Finalize
    <2>4. Known(r)' BY <1>2, <2>2 DEF Known, Kept, Owns, Asks
    <2>5. /\ tries' \in [Devices -> Nat] /\ \A e \in Devices : tries[e] <= tries'[e] /\ tries'[e] = tries[e]
      BY <1>1, <1>2 DEF TypeOK
    <2> QED BY <1>2, <2>2, <2>3, <2>4, <2>5, StoreBase
  <1> QED BY <1>3

----------------------------------------------------------------------------
(* The rows a device writes.                                                *)

LEMMA PinnedRow ==
    ASSUME NEW b \in Binding, NEW v \in Nat, NEW s \in Nat
    PROVE  /\ Pinned(b, v, s) \in Binding /\ Pinned(b, v, s).ver = v /\ Pinned(b, v, s).base = v
           /\ Pinned(b, v, s).head = s /\ Pinned(b, v, s).epoch = b.epoch
           /\ Pinned(b, v, s).lease = b.lease /\ Pinned(b, v, s).q = b.q
  <1> DEFINE b1 == [b EXCEPT !.ver = v]
             b2 == [b1 EXCEPT !.base = v]
             b3 == [b2 EXCEPT !.head = s]
  <1>1. Pinned(b, v, s) = b3 BY DEF Pinned
  <1>2. b1 \in Binding /\ b1.ver = v /\ b1.epoch = b.epoch /\ b1.lease = b.lease /\ b1.q = b.q
    BY DEF Binding
  <1> HIDE DEF b1
  <1>3. /\ b2 \in Binding /\ b2.ver = v /\ b2.base = v /\ b2.epoch = b.epoch /\ b2.lease = b.lease
        /\ b2.q = b.q
    BY <1>2 DEF Binding
  <1> HIDE DEF b2
  <1>4. /\ b3 \in Binding /\ b3.ver = v /\ b3.base = v /\ b3.head = s /\ b3.epoch = b.epoch
        /\ b3.lease = b.lease /\ b3.q = b.q
    BY <1>3 DEF Binding
  <1> HIDE DEF b3
  <1> QED BY <1>1, <1>4

LEMMA UnleasedRow ==
    ASSUME NEW b \in Binding, NEW f \in Nat, NEW super \in BOOLEAN, NEW x, x = Unleased(b, f, super)
    PROVE  /\ x \in Binding /\ x.ver = b.ver /\ x.base = b.base /\ x.head = b.head
           /\ x.epoch = b.epoch /\ x.lease = (IF b.lease = f THEN 0 ELSE b.lease)
           /\ x.q = (IF super THEN "transition" ELSE b.q)
  <1> DEFINE l == IF b.lease = f THEN 0 ELSE b.lease
             q == IF super THEN "transition" ELSE b.q
             b1 == [b EXCEPT !.lease = l]
             b2 == [b1 EXCEPT !.q = q]
  <1>1. x = b2 BY DEF Unleased
  <1>2. l \in Nat /\ q \in {"", "transition", "rollback", "invalid"} BY DEF Binding
  <1> HIDE DEF l, q
  <1>3. /\ b1 \in Binding /\ b1.ver = b.ver /\ b1.base = b.base /\ b1.head = b.head
        /\ b1.epoch = b.epoch /\ b1.lease = l
    BY <1>2 DEF Binding
  <1> HIDE DEF b1
  <1>4. /\ b2 \in Binding /\ b2.ver = b.ver /\ b2.base = b.base /\ b2.head = b.head
        /\ b2.epoch = b.epoch /\ b2.lease = l /\ b2.q = q
    BY <1>2, <1>3 DEF Binding
  <1> HIDE DEF b2
  <1> QED BY <1>1, <1>4 DEF l, q

LEMMA MovedRow ==
    ASSUME TypeOK, NEW b \in Binding, NEW v \in Nat, LeafHead(b) \in Nat
    PROVE  /\ Moved(b, v) \in Binding /\ Moved(b, v).ver = v /\ Moved(b, v).base = b.base
           /\ Moved(b, v).head = LeafHead(b) /\ Moved(b, v).epoch = epoch
           /\ Moved(b, v).lease = b.lease /\ Moved(b, v).q = ""
  <1> DEFINE h == LeafHead(b)
             b1 == [b EXCEPT !.epoch = epoch]
             b2 == [b1 EXCEPT !.ver = v]
             b3 == [b2 EXCEPT !.head = h]
             b4 == [b3 EXCEPT !.q = ""]
  <1>1. Moved(b, v) = b4 BY DEF Moved
  <1>2. epoch \in Nat /\ h \in Nat BY DEF TypeOK
  <1> HIDE DEF h
  <1>3. b1 \in Binding /\ b1.base = b.base /\ b1.epoch = epoch /\ b1.lease = b.lease
    BY <1>2 DEF Binding
  <1> HIDE DEF b1
  <1>4. b2 \in Binding /\ b2.ver = v /\ b2.base = b.base /\ b2.epoch = epoch /\ b2.lease = b.lease
    BY <1>3 DEF Binding
  <1> HIDE DEF b2
  <1>5. /\ b3 \in Binding /\ b3.ver = v /\ b3.base = b.base /\ b3.epoch = epoch
        /\ b3.lease = b.lease /\ b3.head = h
    BY <1>2, <1>4 DEF Binding
  <1> HIDE DEF b3
  <1>6. /\ b4 \in Binding /\ b4.ver = v /\ b4.base = b.base /\ b4.epoch = epoch
        /\ b4.lease = b.lease /\ b4.head = h /\ b4.q = ""
    BY <1>5 DEF Binding
  <1> HIDE DEF b4
  <1> QED BY <1>1, <1>6 DEF h

\* A quarantine, the grant of a lease and its return write one field.
LEMMA FieldRow ==
    ASSUME NEW b \in Binding, NEW f \in Nat, NEW w \in {"", "transition", "rollback", "invalid"}
    PROVE  /\ [b EXCEPT !.lease = f] \in Binding
           /\ [b EXCEPT !.lease = f].ver = b.ver /\ [b EXCEPT !.lease = f].base = b.base
           /\ [b EXCEPT !.lease = f].head = b.head /\ [b EXCEPT !.lease = f].epoch = b.epoch
           /\ [b EXCEPT !.lease = f].lease = f /\ [b EXCEPT !.lease = f].q = b.q
           /\ [b EXCEPT !.q = w] \in Binding
           /\ [b EXCEPT !.q = w].ver = b.ver /\ [b EXCEPT !.q = w].base = b.base
           /\ [b EXCEPT !.q = w].head = b.head /\ [b EXCEPT !.q = w].epoch = b.epoch
           /\ [b EXCEPT !.q = w].lease = b.lease /\ [b EXCEPT !.q = w].q = w
  BY DEF Binding

LEMMA Quarantined ==
    ASSUME TypeOK, NEW d \in Devices, bind[d] # None,
           NEW w \in {"", "transition", "rollback", "invalid"}, Quarantine(d, w)
    PROVE  /\ bind' \in [Devices -> Binding \cup {None}] /\ bind'[d] # None
           /\ bind'[d].ver = bind[d].ver /\ bind'[d].base = bind[d].base
           /\ bind'[d].head = bind[d].head /\ bind'[d].epoch = bind[d].epoch
           /\ bind'[d].lease = bind[d].lease /\ bind'[d].q = w
           /\ \A e \in Devices \ {d} : bind'[e] = bind[e]
  <1>1. bind[d] \in Binding BY RowTypes
  <1>2. ASSUME NEW x, x = [bind[d] EXCEPT !.q = w]
        PROVE  /\ bind' \in [Devices -> Binding \cup {None}] /\ bind'[d] = x
               /\ \A e \in Devices \ {d} : bind'[e] = bind[e]
               /\ x # None /\ x.ver = bind[d].ver /\ x.base = bind[d].base
               /\ x.head = bind[d].head /\ x.epoch = bind[d].epoch
               /\ x.lease = bind[d].lease /\ x.q = w
    <2>1. /\ x \in Binding /\ x.ver = bind[d].ver /\ x.base = bind[d].base
          /\ x.head = bind[d].head /\ x.epoch = bind[d].epoch
          /\ x.lease = bind[d].lease /\ x.q = w
      BY <1>1, <1>2 DEF Binding
    <2>2. bind' = [bind EXCEPT ![d] = x] BY <1>2 DEF Quarantine
    <2>3. x # None BY <2>1, NoneIsNew
    <2>4. x \in Binding \cup {None} BY <2>1
    <2> QED BY <2>1, <2>2, <2>3, <2>4, SetBind
  <1> QED BY <1>2

----------------------------------------------------------------------------
(* The steps that send nothing.                                             *)

\* The operation k is kept, done, or gone.
Kept1(d, k) ==
    \/ ops'[d][k] \in {ops[d][k], None}
    \/ /\ k \notin {"CHECKOUT", "RELEASE"} /\ ops[d][k] # None /\ ops'[d][k] # None
       /\ ops'[d][k].req = ops[d][k].req

DirAfter(d) ==
    /\ d \in swap' => staging'[d] # Partial /\ (staging'[d] = None => udd'[d] # None)
    /\ d \notin swap' => udd'[d] # None

RowAfter(d) ==
    /\ bind'[d] # None => /\ RowOK(bind[d])'
                          /\ bind'[d].lease # 0 => Owns(d, bind'[d].lease)
                          /\ ~(ops'[d]["PUBLISH"] # None /\ ~ops'[d]["PUBLISH"].done)
    /\ bind'[d] = None => ops'[d]["CHECKOUT"] = None /\ d \notin swap'
    /\ d \in swap' => bind'[d].lease = 0

LEMMA OpsStay ==
    ASSUME TypeOK, TypeOK', Grows, NEW d \in Devices, OpsOK(d), \A k \in Kinds : Kept1(d, k)
    PROVE  OpsOK(d)'
  <1>1. \A x \in Request : Known(x) => Known(x)' BY KnownStays
  <1>2. \A k \in Kinds : ops[d][k] # None => ops[d][k].req \in Request BY RowTypes
  <1>3. ASSUME NEW k \in Kinds, ops'[d][k] # None
        PROVE  Known(ops[d][k].req)' /\ ops'[d][k].req.dev = d /\ ops'[d][k].req.kind = k
    <2>1. ops[d][k] # None /\ ops'[d][k].req = ops[d][k].req BY <1>3 DEF Kept1
    <2>2. ASSUME NEW x, x = ops[d][k].req PROVE Known(x)'
      BY <1>1, <1>2, <2>1, <2>2 DEF OpsOK, Live
    <2> QED BY <2>1, <2>2 DEF OpsOK, Live
  <1>4. ops'[d]["CHECKOUT"] # None => ~ops'[d]["CHECKOUT"].done
    <2>1. Kept1(d, "CHECKOUT") BY DEF Kinds
    <2> QED BY <2>1 DEF OpsOK, Live, Kept1
  <1>5. ops'[d]["RELEASE"] # None => ~ops'[d]["RELEASE"].done
    <2>1. Kept1(d, "RELEASE") BY DEF Kinds
    <2> QED BY <2>1 DEF OpsOK, Live, Kept1
  <1> QED BY <1>3, <1>4, <1>5 DEF OpsOK, Live

LEMMA MoveStep ==
    ASSUME Base, TypeOK', NEW d \in Devices, Kept, UNCHANGED <<made, tries, net>>, Others(d),
           \A s \in Snaps \ DOMAIN made : up'[s] = up[s] /\ sess'[s] = sess[s],
           \A k \in Kinds : Kept1(d, k), DirAfter(d), RowAfter(d), LocOK(d)',
           bind'[d] = None => /\ ~loc'[d].super /\ loc'[d].pc \in {"idle", "wait"}
                              /\ loc'[d].pc = "wait" => loc'[d].req.kind = "PUBLISH",
           d \in swap' => loc'[d].pc = "idle",
           loc'[d].pc = "staged" => staging'[d] = made[loc'[d].got].data
    PROVE  Base'
  <1>1. TypeOK /\ DeviceOK(d) BY DEF Base
  <1>2. Grows /\ LogInv' BY <1>1, QuietGrows, LogStays
  <1>3. OpsOK(d)' BY <1>1, <1>2, OpsStay DEF DeviceOK
  <1>4. DirOK(d)' BY DEF DirOK, DirAfter
  <1>5. BindOK(d)'
    <2>2. bind'[d] # None /\ bind'[d].lease # 0 => Owns(d, bind[d].lease)'
      BY DEF RowAfter, Owns, Kept
    <2> QED BY <2>2 DEF BindOK, RowAfter, Pending, Live
  <1>6. DeviceOK(d)' BY <1>3, <1>4, <1>5 DEF DeviceOK
  <1> QED BY <1>2, <1>6, DeviceStep

LEMMA IdleLoc ==
    ASSUME NEW d \in Devices, loc'[d] = Idle
    PROVE  LocOK(d)' /\ ~loc'[d].super /\ loc'[d].pc = "idle" /\ loc'[d].req = None
  <1>1. loc'[d].pc = "idle" /\ loc'[d].req = None BY DEF Idle, Holding
  <1>2. ~loc'[d].super BY DEF Idle, Holding
  <1> QED BY <1>1, <1>2 DEF LocOK

LEMMA ReturnStep ==
    ASSUME Base, TypeOK', NEW d \in Devices, Kept, UNCHANGED <<made, tries, net>>, Others(d),
           \A s \in Snaps \ DOMAIN made : up'[s] = up[s] /\ sess'[s] = sess[s],
           \A k \in Kinds : Kept1(d, k), DirAfter(d), RowAfter(d), loc'[d] = Idle
    PROVE  Base'
  BY IdleLoc, MoveStep

\* The row, the operations and the directories as they were.
LEMMA RowBefore ==
    ASSUME Base, NEW d \in Devices
    PROVE  /\ TypeOK /\ BindOK(d) /\ OpsOK(d) /\ LocOK(d) /\ DirOK(d)
           /\ loc[d].pc = "idle" => loc[d] = Idle
           /\ bind[d] # None => RowOK(bind[d])
  BY DEF Base, DeviceOK, BindOK, LocOK

LEMMA SameRow ==
    ASSUME TypeOK, TypeOK', Grows, NEW b \in Binding, NEW c \in Binding, RowOK(b),
           c.ver = b.ver, c.base = b.base, c.head = b.head, c.epoch = b.epoch
    PROVE  RowOK(c)'
  <1>1. epoch \in Nat /\ epoch' \in Nat /\ b.epoch \in Nat BY DEF TypeOK, Binding
  <1> QED BY <1>1 DEF RowOK, Grows

LEMMA CrashBase ==
    ASSUME Base, NEW d \in Devices, Crash(d) PROVE Base'
  <1>1. /\ Return(d) /\ Kept /\ UNCHANGED <<up, made, bind, ops, sess, swap, udd, staging, old, tries, net>>
        /\ loc[d].pc # "idle" /\ Fault
    BY DEF Crash, At, server, db, dirs, Kept
  <1>2. TypeOK /\ BindOK(d) /\ DirOK(d) BY RowBefore
  <1>3. loc' \in [Devices -> Local] /\ loc'[d] = Idle /\ \A e \in Devices \ {d} : loc'[e] = loc[e]
    BY <1>1, <1>2, Returned
  <1>4. TypeOK'
    <2>1. faults' \in Nat BY <1>1, <1>2, FaultNat
    <2> QED BY <1>1, <1>2, <1>3, <2>1 DEF TypeOK, Kept
  <1>5. Others(d) /\ DirAfter(d) BY <1>1, <1>2, <1>3 DEF Others, DirOK, DirAfter
  <1>6. RowAfter(d) BY <1>1, <1>2 DEF RowAfter, BindOK, Pending, Live, RowOK, Kept
  <1>7. \A k \in Kinds : Kept1(d, k) BY <1>1 DEF Kept1
  <1> QED BY <1>1, <1>3, <1>4, <1>5, <1>6, <1>7, ReturnStep

LEMMA LoseBase ==
    ASSUME Base, NEW d \in Devices, Lose(d) PROVE Base'
  <1>1. /\ Return(d) /\ Kept /\ UNCHANGED <<up, made, ops, sess, swap, udd, staging, old, tries, net>>
        /\ loc[d].pc = "wait" /\ Fault
        /\ bind' = IF loc[d].super THEN [bind EXCEPT ![d].q = "transition"] ELSE bind
    BY DEF Lose, End, At, server, dirs, Kept
  <1>2. TypeOK /\ BindOK(d) /\ DirOK(d) BY RowBefore
  <1>3. loc' \in [Devices -> Local] /\ loc'[d] = Idle /\ \A e \in Devices \ {d} : loc'[e] = loc[e]
    BY <1>1, <1>2, Returned
  <1>4. CASE ~loc[d].super
    <2>1. bind' = bind BY <1>1, <1>4
    <2>2. TypeOK'
      <3>1. faults' \in Nat BY <1>1, <1>2, FaultNat
      <3> QED BY <1>1, <1>2, <1>3, <2>1, <3>1 DEF TypeOK, Kept
    <2>3. Others(d) /\ DirAfter(d) BY <1>1, <1>2, <1>3, <2>1 DEF Others, DirOK, DirAfter
    <2>4. RowAfter(d) BY <1>1, <1>2, <2>1 DEF RowAfter, BindOK, Pending, Live, RowOK, Kept
    <2>5. \A k \in Kinds : Kept1(d, k) BY <1>1 DEF Kept1
    <2> QED BY <1>1, <1>3, <2>2, <2>3, <2>4, <2>5, ReturnStep
  <1>5. CASE loc[d].super
    <2>1. bind[d] # None BY <1>2, <1>5 DEF BindOK
    <2>2. Quarantine(d, "transition") BY <1>1, <1>5 DEF Quarantine
    <2>3. /\ bind' \in [Devices -> Binding \cup {None}] /\ bind'[d] # None
          /\ bind'[d].ver = bind[d].ver /\ bind'[d].base = bind[d].base
          /\ bind'[d].head = bind[d].head /\ bind'[d].epoch = bind[d].epoch
          /\ bind'[d].lease = bind[d].lease /\ bind'[d].q = "transition"
          /\ \A e \in Devices \ {d} : bind'[e] = bind[e]
      BY <1>2, <2>1, <2>2, Quarantined
    <2>4. TypeOK'
      <3>1. faults' \in Nat BY <1>1, <1>2, FaultNat
      <3> QED BY <1>1, <1>2, <1>3, <2>3, <3>1 DEF TypeOK, Kept
    <2>5. Others(d) /\ DirAfter(d) BY <1>1, <1>2, <1>3, <2>3 DEF Others, DirOK, DirAfter
    <2>6. RowAfter(d) BY <1>1, <1>2, <2>1, <2>3 DEF RowAfter, BindOK, Pending, Live, RowOK, Kept
    <2>7. \A k \in Kinds : Kept1(d, k) BY <1>1 DEF Kept1
    <2> QED BY <1>1, <1>3, <2>4, <2>5, <2>6, <2>7, ReturnStep
  <1> QED BY <1>4, <1>5

LEMMA DoneType ==
    ASSUME TypeOK, NEW d \in Devices, NEW k \in Kinds, ops[d][k] # None, NEW x, x = Done(ops[d][k])
    PROVE  /\ x \in Operation \cup {None} /\ x # None /\ x.req = ops[d][k].req /\ x.done = TRUE
  <1>1. ops[d][k] \in Operation BY DEF TypeOK
  <1>2. x \in Operation BY <1>1 DEF Operation, Done
  <1>3. x.req = ops[d][k].req BY <1>1 DEF Operation, Done
  <1>4. x.done = TRUE BY <1>1 DEF Operation, Done
  <1>5. x # None BY <1>2, NoneIsNew
  <1> QED BY <1>2, <1>3, <1>4, <1>5

LEMMA SetDone ==
    ASSUME TypeOK, NEW d \in Devices, NEW k \in Kinds, ops[d][k] # None, NEW x, x = Done(ops[d][k]),
           ops' = [ops EXCEPT ![d][k] = x]
    PROVE  /\ ops' \in [Devices -> [Kinds -> Operation \cup {None}]]
           /\ ops'[d][k] # None /\ ops'[d][k].req = ops[d][k].req /\ ops'[d][k].done = TRUE
           /\ \A j \in Kinds \ {k} : ops'[d][j] = ops[d][j]
           /\ \A e \in Devices \ {d} : ops'[e] = ops[e]
  <1>1. x \in Operation \cup {None} /\ x # None /\ x.req = ops[d][k].req /\ x.done = TRUE
    BY DoneType
  <1>2. /\ ops' \in [Devices -> [Kinds -> Operation \cup {None}]] /\ ops'[d][k] = x
        /\ \A j \in Kinds \ {k} : ops'[d][j] = ops[d][j]
        /\ \A e \in Devices \ {d} : ops'[e] = ops[e]
    BY <1>1, SetOp, ZenonT(60)
  <1> QED BY <1>1, <1>2

LEMMA PublishDone ==
    ASSUME TypeOK, NEW d \in Devices, ops[d]["PUBLISH"] # None,
           ops' = [ops EXCEPT ![d]["PUBLISH"] = Done(ops[d]["PUBLISH"])]
    PROVE  /\ ops' \in [Devices -> [Kinds -> Operation \cup {None}]]
           /\ ops'[d]["PUBLISH"] # None /\ ops'[d]["PUBLISH"].req = ops[d]["PUBLISH"].req
           /\ ops'[d]["PUBLISH"].done = TRUE
           /\ \A j \in Kinds \ {"PUBLISH"} : ops'[d][j] = ops[d][j]
           /\ \A e \in Devices \ {d} : ops'[e] = ops[e]
  <1>1. "PUBLISH" \in Kinds BY DEF Kinds
  <1>2. PICK x : x = Done(ops[d]["PUBLISH"]) OBVIOUS
  <1>3. x \in Operation \cup {None} /\ x # None /\ x.req = ops[d]["PUBLISH"].req BY <1>1, <1>2, DoneType
  <1>4. x.done = TRUE BY <1>1, <1>2, DoneType
  <1>5. ops' = [ops EXCEPT ![d]["PUBLISH"] = x] BY <1>2
  <1>6. /\ ops' \in [Devices -> [Kinds -> Operation \cup {None}]] /\ ops'[d]["PUBLISH"] = x
        /\ \A j \in Kinds \ {"PUBLISH"} : ops'[d][j] = ops[d][j]
        /\ \A e \in Devices \ {d} : ops'[e] = ops[e]
    BY <1>1, <1>3, <1>5, SetOp
  <1> QED BY <1>3, <1>4, <1>6

LEMMA DroppedRows ==
    ASSUME TypeOK, NEW d \in Devices, NEW f, Dropped(d, f)
    PROVE  /\ ops' \in [Devices -> [Kinds -> Operation \cup {None}]]
           /\ \A k \in Kinds : ops'[d][k] = IF k # "PUBLISH" /\ Live(d, k) /\ ops[d][k].req.fence = f
                                            THEN None ELSE ops[d][k]
           /\ \A e \in Devices \ {d} : ops'[e] = ops[e]
           /\ sess' \in [Snaps -> {"none", "OPEN", "READY", "COMMITTED", "ABORTED"}]
           /\ \A s \in Snaps \ DOMAIN made : sess'[s] = sess[s]
  <1>1. ops \in [Devices -> [Kinds -> Operation \cup {None}]] BY DEF TypeOK
  <1>2. sess \in [Snaps -> {"none", "OPEN", "READY", "COMMITTED", "ABORTED"}] BY DEF TypeOK
  <1>3. /\ sess' \in [Snaps -> {"none", "OPEN", "READY", "COMMITTED", "ABORTED"}]
        /\ \A s \in Snaps \ DOMAIN made : sess'[s] = sess[s]
    BY <1>2 DEF Dropped
  <1>4. ASSUME NEW o, o = [k \in Kinds |-> IF k # "PUBLISH" /\ Live(d, k) /\ ops[d][k].req.fence = f
                                           THEN None ELSE ops[d][k]]
        PROVE  /\ ops' \in [Devices -> [Kinds -> Operation \cup {None}]] /\ ops'[d] = o
               /\ \A e \in Devices \ {d} : ops'[e] = ops[e]
    <2>1. o \in [Kinds -> Operation \cup {None}] BY <1>1, <1>4
    <2>2. ops' = [ops EXCEPT ![d] = o] BY <1>4 DEF Dropped
    <2> QED BY ONLY d \in Devices, <1>1, <2>1, <2>2
  <1>5. PICK o : o = [k \in Kinds |-> IF k # "PUBLISH" /\ Live(d, k) /\ ops[d][k].req.fence = f
                                       THEN None ELSE ops[d][k]]
    OBVIOUS
  <1>6. ops'[d] = o BY <1>4, <1>5
  <1>7. \A k \in Kinds : ops'[d][k] = IF k # "PUBLISH" /\ Live(d, k) /\ ops[d][k].req.fence = f
                                      THEN None ELSE ops[d][k]
    BY <1>5, <1>6
  <1> QED BY <1>3, <1>4, <1>5, <1>7

----------------------------------------------------------------------------

LEMMA JoinBase ==
    ASSUME Base, NEW d \in Devices, Join(d) PROVE Base'
  <1>1. /\ Kept /\ UNCHANGED <<up, made, ops, sess, swap, udd, staging, old, loc, tries, net, faults>>
        /\ loc[d].pc = "idle" /\ bind[d] = None /\ ~Pending(d, "PUBLISH")
        /\ bind' = [bind EXCEPT ![d] = NewBinding(StartEpoch, 0)]
    BY DEF Join, Free, At, server, dirs, Kept
  <1>2. TypeOK /\ BindOK(d) /\ DirOK(d) /\ loc[d] = Idle BY <1>1, RowBefore
  <1>3. StartEpoch \in Nat /\ StartEpoch <= epoch
    <2>1. epoch \in Nat BY <1>2 DEF TypeOK
    <2> QED BY <2>1 DEF StartEpoch
  <1>4. ASSUME NEW x, x = NewBinding(StartEpoch, 0)
        PROVE  /\ bind' \in [Devices -> Binding \cup {None}] /\ bind'[d] = x
               /\ \A e \in Devices \ {d} : bind'[e] = bind[e]
               /\ x.head = 0 /\ x.ver = 0 /\ x.base = 0 /\ x.lease = 0 /\ x.epoch <= epoch
    <2>1. x \in Binding /\ x.head = 0 /\ x.ver = 0 /\ x.base = 0 /\ x.lease = 0 /\ x.epoch <= epoch
      BY <1>3, <1>4 DEF NewBinding, Binding
    <2>2. bind' = [bind EXCEPT ![d] = x] /\ x \in Binding \cup {None} BY <1>1, <1>4, <2>1
    <2> QED BY <1>2, <2>1, <2>2, SetBind
  <1>5. TypeOK' BY <1>1, <1>2, <1>4 DEF TypeOK, Kept
  <1>6. Others(d) /\ DirAfter(d) BY <1>1, <1>2, <1>4 DEF Others, DirOK, DirAfter
  <1>7. RowAfter(d) BY <1>1, <1>2, <1>4 DEF RowAfter, BindOK, Pending, Live, RowOK, Kept
  <1>8. \A k \in Kinds : Kept1(d, k) BY <1>1 DEF Kept1
  <1> QED BY <1>1, <1>2, <1>5, <1>6, <1>7, <1>8, ReturnStep

LEMMA UnbindBase ==
    ASSUME Base, NEW d \in Devices, Unbind(d) PROVE Base'
  <1>1. /\ Kept /\ UNCHANGED <<up, made, ops, sess, swap, udd, loc, tries, net, faults>>
        /\ loc[d].pc = "idle" /\ bind[d] # None /\ d \notin swap /\ ~AnyPending(d)
        /\ bind' = [bind EXCEPT ![d] = None] /\ Discard(d)
    BY DEF Unbind, Bound, Discard, At, server, Kept
  <1>2. TypeOK /\ BindOK(d) /\ OpsOK(d) /\ DirOK(d) /\ loc[d] = Idle BY <1>1, RowBefore
  <1>3. /\ bind' \in [Devices -> Binding \cup {None}] /\ bind'[d] = None
        /\ \A e \in Devices \ {d} : bind'[e] = bind[e]
    BY <1>1, <1>2, SetBind
  <1>4. /\ staging' \in [Devices -> Data \cup {Partial, None}] /\ old' \in [Devices -> Data \cup {None}]
        /\ \A e \in Devices \ {d} : staging'[e] = staging[e]
    BY <1>1, <1>2 DEF TypeOK, Discard
  <1>5. TypeOK' BY <1>1, <1>2, <1>3, <1>4 DEF TypeOK, Kept
  <1>6. Others(d) /\ DirAfter(d) BY <1>1, <1>2, <1>3, <1>4 DEF Others, DirOK, DirAfter
  <1>7. RowAfter(d)
    <2>1. ops[d]["CHECKOUT"] = None
      BY <1>1, <1>2 DEF AnyPending, Pending, Live, OpsOK, Kinds
    <2> QED BY <1>1, <1>3, <2>1 DEF RowAfter
  <1>8. \A k \in Kinds : Kept1(d, k) BY <1>1 DEF Kept1
  <1> QED BY <1>1, <1>2, <1>5, <1>6, <1>7, <1>8, ReturnStep

LEMMA CancelPublishBase ==
    ASSUME Base, NEW d \in Devices, CancelPublish(d) PROVE Base'
  <1>1. /\ Kept /\ UNCHANGED <<up, made, bind, sess, swap, udd, staging, old, loc, tries, net, faults>>
        /\ loc[d].pc = "idle" /\ bind[d] = None /\ ops[d]["PUBLISH"] # None
        /\ ops' = [ops EXCEPT ![d]["PUBLISH"] = Done(ops[d]["PUBLISH"])]
    BY DEF CancelPublish, Free, Pending, Live, At, server, dirs, Kept
  <1>2. TypeOK /\ BindOK(d) /\ DirOK(d) /\ loc[d] = Idle BY <1>1, RowBefore
  <1>3. /\ ops' \in [Devices -> [Kinds -> Operation \cup {None}]]
        /\ ops'[d]["PUBLISH"] # None /\ ops'[d]["PUBLISH"].req = ops[d]["PUBLISH"].req
        /\ \A j \in Kinds \ {"PUBLISH"} : ops'[d][j] = ops[d][j]
        /\ \A e \in Devices \ {d} : ops'[e] = ops[e]
    BY <1>1, <1>2, PublishDone
  <1>4. TypeOK' BY <1>1, <1>2, <1>3 DEF TypeOK, Kept
  <1>5. Others(d) /\ DirAfter(d) BY <1>1, <1>2, <1>3 DEF Others, DirOK, DirAfter
  <1>6. RowAfter(d) BY <1>1, <1>2, <1>3 DEF RowAfter, BindOK, Live, Kinds
  <1>7. \A k \in Kinds : Kept1(d, k) BY <1>1, <1>3 DEF Kept1
  <1> QED BY <1>1, <1>2, <1>4, <1>5, <1>6, <1>7, ReturnStep

LEMMA ListedQuarantinesBase ==
    ASSUME Base, NEW d \in Devices, ListedQuarantines(d) PROVE Base'
  <1>1. /\ Kept /\ UNCHANGED <<up, made, ops, sess, swap, udd, staging, old, loc, tries, net, faults>>
        /\ loc[d].pc = "idle" /\ bind[d] # None
        /\ Quarantine(d, IF epoch > bind[d].epoch THEN "transition" ELSE "rollback")
    BY DEF ListedQuarantines, Lists, Current, Bound, At, server, dirs, Kept
  <1>2. TypeOK /\ BindOK(d) /\ DirOK(d) /\ loc[d] = Idle BY <1>1, RowBefore
  <1>3. PICK w \in {"transition", "rollback"} : Quarantine(d, w) BY <1>1
  <1>4. /\ bind' \in [Devices -> Binding \cup {None}] /\ bind'[d] # None
        /\ bind'[d].ver = bind[d].ver /\ bind'[d].base = bind[d].base
        /\ bind'[d].head = bind[d].head /\ bind'[d].epoch = bind[d].epoch
        /\ bind'[d].lease = bind[d].lease
        /\ \A e \in Devices \ {d} : bind'[e] = bind[e]
    BY <1>1, <1>2, <1>3, Quarantined
  <1>5. TypeOK' BY <1>1, <1>2, <1>4 DEF TypeOK, Kept
  <1>6. Others(d) /\ DirAfter(d) BY <1>1, <1>2, <1>4 DEF Others, DirOK, DirAfter
  <1>7. RowAfter(d) BY <1>1, <1>2, <1>4 DEF RowAfter, BindOK, Pending, Live, RowOK, Kept
  <1>8. \A k \in Kinds : Kept1(d, k) BY <1>1 DEF Kept1
  <1> QED BY <1>1, <1>2, <1>5, <1>6, <1>7, <1>8, ReturnStep

LEMMA SettleBase ==
    ASSUME Base, NEW d \in Devices, Settle(d) PROVE Base'
  <1>1. /\ Kept /\ UNCHANGED <<up, made, bind, ops, sess, loc, tries, net, faults>>
        /\ loc[d].pc = "idle" /\ d \in swap /\ SwapStep(d)
    BY DEF Settle, At, server, Kept
  <1>2. TypeOK /\ BindOK(d) /\ DirOK(d) /\ loc[d] = Idle BY <1>1, RowBefore
  <1>3. /\ udd \in [Devices -> Data \cup {None}]
        /\ staging \in [Devices -> Data \cup {Partial, None}]
        /\ old \in [Devices -> Data \cup {None}] /\ swap \subseteq Devices
    BY <1>2 DEF TypeOK
  <1>4. /\ udd' \in [Devices -> Data \cup {None}]
        /\ staging' \in [Devices -> Data \cup {Partial, None}]
        /\ old' \in [Devices -> Data \cup {None}] /\ swap' \subseteq swap
        /\ \A e \in Devices \ {d} : /\ udd'[e] = udd[e] /\ staging'[e] = staging[e]
                                    /\ e \in swap' <=> e \in swap
        /\ DirAfter(d)
    <2>1. staging[d] # Partial /\ (staging[d] = None => udd[d] # None) BY <1>1, <1>2 DEF DirOK
    <2>2. CASE staging[d] # None /\ udd[d] = None
      <3>1. staging[d] \in Data \cup {None} BY <1>3, <2>1
      <3>2. /\ udd' = [udd EXCEPT ![d] = staging[d]] /\ staging' = [staging EXCEPT ![d] = None]
            /\ UNCHANGED <<old, swap>>
        BY <1>1, <2>2 DEF SwapStep
      <3> QED BY <1>1, <1>3, <2>2, <3>1, <3>2, NoneIsNew DEF DirAfter
    <2>3. CASE staging[d] # None /\ udd[d] # None /\ old[d] # None
      BY <1>1, <1>3, <2>1, <2>3 DEF SwapStep, DirAfter
    <2>4. CASE staging[d] # None /\ udd[d] # None /\ old[d] = None
      BY <1>1, <1>3, <2>1, <2>4 DEF SwapStep, DirAfter
    <2>5. CASE staging[d] = None /\ old[d] # None BY <1>1, <1>3, <2>1, <2>5 DEF SwapStep, DirAfter
    <2>6. CASE staging[d] = None /\ old[d] = None
      BY <1>1, <1>3, <2>1, <2>6 DEF SwapStep, DirAfter, dirs
    <2> QED BY <2>2, <2>3, <2>4, <2>5, <2>6
  <1>5. TypeOK' BY <1>1, <1>2, <1>3, <1>4 DEF TypeOK, Kept
  <1>6. Others(d) BY <1>1, <1>4 DEF Others
  <1>7. RowAfter(d) BY <1>1, <1>2, <1>4 DEF RowAfter, BindOK, Pending, Live, RowOK, Kept
  <1>8. \A k \in Kinds : Kept1(d, k) BY <1>1 DEF Kept1
  <1> QED BY <1>1, <1>2, <1>4, <1>5, <1>6, <1>7, <1>8, ReturnStep

\* A command holds what it has to give up or to fetch.
LEMMA HoldingLocal ==
    ASSUME NEW p \in PCs, NEW r \in Request \cup {None}, NEW g \in Nat
    PROVE  /\ Holding(p, r, g) \in Local /\ Holding(p, r, g).pc = p /\ Holding(p, r, g).req = r
           /\ Holding(p, r, g).got = g /\ Holding(p, r, g).ans = None
           /\ ~Holding(p, r, g).super
  <1>1. Holding(p, r, g) \in Local BY DEF Holding, Local
  <1>2. /\ Holding(p, r, g).pc = p /\ Holding(p, r, g).req = r
        /\ Holding(p, r, g).got = g /\ Holding(p, r, g).ans = None
    BY DEF Holding
  <1>3. ~Holding(p, r, g).super BY DEF Holding
  <1> QED BY <1>1, <1>2, <1>3

LEMMA Held1 ==
    ASSUME TypeOK, NEW d \in Devices, NEW p \in PCs, NEW r \in Request \cup {None}, NEW g \in Nat,
           loc' = [loc EXCEPT ![d] = Holding(p, r, g)]
    PROVE  /\ loc' \in [Devices -> Local]
           /\ loc'[d].pc = p /\ loc'[d].req = r /\ loc'[d].got = g /\ loc'[d].ans = None
           /\ ~loc'[d].super
           /\ \A e \in Devices \ {d} : loc'[e] = loc[e]
  <1>1. PICK x : x = Holding(p, r, g) OBVIOUS
  <1>2. x \in Local BY <1>1, HoldingLocal
  <1>3. x.pc = p /\ x.req = r /\ x.got = g /\ x.ans = None BY <1>1, HoldingLocal
  <1>4. ~x.super BY <1>1, HoldingLocal
  <1>5. loc' = [loc EXCEPT ![d] = x] BY <1>1
  <1>6. loc' \in [Devices -> Local] /\ loc'[d] = x /\ \A e \in Devices \ {d} : loc'[e] = loc[e]
    BY <1>2, <1>5, SetLoc
  <1> QED BY <1>3, <1>4, <1>6

\* The command moves on and keeps the rest.
LEMMA Gone ==
    ASSUME TypeOK, NEW d \in Devices, NEW p \in PCs, Goto(d, p)
    PROVE  /\ loc' \in [Devices -> Local]
           /\ loc'[d].pc = p /\ loc'[d].req = loc[d].req /\ loc'[d].got = loc[d].got
           /\ loc'[d].ans = loc[d].ans /\ loc'[d].super = loc[d].super
           /\ \A e \in Devices \ {d} : loc'[e] = loc[e]
  <1>1. loc[d] \in Local BY DEF TypeOK
  <1>2. PICK x : x = [loc[d] EXCEPT !.pc = p] OBVIOUS
  <1>3. x \in Local BY <1>1, <1>2 DEF Local
  <1>4. /\ x.pc = p /\ x.req = loc[d].req /\ x.got = loc[d].got /\ x.ans = loc[d].ans
        /\ x.super = loc[d].super
    BY <1>1, <1>2 DEF Local
  <1>5. loc' = [loc EXCEPT ![d] = x] BY <1>2 DEF Goto
  <1>6. loc' \in [Devices -> Local] /\ loc'[d] = x /\ \A e \in Devices \ {d} : loc'[e] = loc[e]
    BY <1>3, <1>5, SetLoc
  <1> QED BY <1>4, <1>6

\* What an answered command knows.
LEMMA AnsweredFacts ==
    ASSUME Base, NEW d \in Devices, NEW k, Answered(d, k)
    PROVE  /\ TypeOK /\ BindOK(d) /\ OpsOK(d) /\ LocOK(d) /\ DirOK(d)
           /\ loc[d].pc = "wait" /\ loc[d].req \in Request /\ loc[d].req.kind = k /\ loc[d].ans # None
           /\ loc[d].req # None /\ k \in Kinds /\ Known(loc[d].req) /\ loc[d].req.dev = d
           /\ ops[d][k] # None /\ ~ops[d][k].done /\ ops[d][k].req = loc[d].req
           /\ loc[d].ans.val \in Nat /\ loc[d].ans.ok \in BOOLEAN
           /\ loc[d].ans.ok => loc[d].req \in DOMAIN ledger /\ loc[d].ans.val = ledger[loc[d].req]
           /\ k \in Grants /\ loc[d].ans.ok => Owns(d, loc[d].ans.val)
           /\ d \notin swap /\ udd[d] # None
           /\ k # "PUBLISH" <=> bind[d] # None
           /\ k = "CHECKOUT" => bind[d].lease = 0
           /\ k \in UpKinds => bind[d].lease = loc[d].req.fence
  <1>1. TypeOK /\ BindOK(d) /\ OpsOK(d) /\ LocOK(d) /\ DirOK(d) BY RowBefore
  <1>2. loc[d].pc = "wait" /\ loc[d].req.kind = k /\ loc[d].ans # None BY DEF Answered, At
  <1>3. WaitOK(d) BY <1>1, <1>2 DEF LocOK
  <1>4. loc[d].req # None /\ loc[d].req \in Request /\ loc[d].ans.val \in Nat /\ loc[d].ans.ok \in BOOLEAN
    BY <1>1, <1>2, <1>3, RowTypes DEF WaitOK
  <1>5. k \in Kinds BY <1>2, <1>4 DEF Request
  <1>6. Known(loc[d].req) /\ loc[d].req.dev = d BY <1>1, <1>4 DEF LocOK
  <1>7. ops[d][k] # None /\ ~ops[d][k].done /\ ops[d][k].req = loc[d].req
    BY <1>2, <1>3 DEF WaitOK, Pending, Live
  <1>8. loc[d].ans.ok => loc[d].req \in DOMAIN ledger /\ loc[d].ans.val = ledger[loc[d].req]
    BY <1>2, <1>3 DEF WaitOK
  <1>9. k \in Grants /\ loc[d].ans.ok => Owns(d, loc[d].ans.val)
    BY <1>2, <1>6, <1>8 DEF Owns
  <1>10. d \notin swap BY <1>1, <1>2 DEF BindOK
  <1>11. udd[d] # None BY <1>1, <1>10 DEF DirOK
  <1>12. k # "PUBLISH" <=> bind[d] # None
    BY <1>1, <1>2, <1>7 DEF BindOK, Pending, Live
  <1>13. /\ k = "CHECKOUT" => bind[d].lease = 0
         /\ k \in UpKinds => bind[d].lease = loc[d].req.fence
    BY <1>2, <1>3 DEF WaitOK
  <1> QED BY <1>1, <1>2, <1>4, <1>5, <1>6, <1>7, <1>8, <1>9, <1>10, <1>11, <1>12, <1>13

LEMMA PublishedBase ==
    ASSUME Base, NEW d \in Devices, Published(d) PROVE Base'
  <1>1. /\ Kept /\ UNCHANGED <<up, made, sess, swap, udd, staging, old, tries, net, faults>>
        /\ Answered(d, "PUBLISH")
        /\ ops' = [ops EXCEPT ![d]["PUBLISH"] = Done(ops[d]["PUBLISH"])]
    BY DEF Published, server, dirs, Kept
  <1>2. /\ TypeOK /\ BindOK(d) /\ DirOK(d) /\ loc[d].req \in Request /\ ops[d]["PUBLISH"] # None
        /\ loc[d].req.epoch <= epoch /\ loc[d].ans.val \in Nat /\ d \notin swap /\ bind[d] = None
        /\ loc[d].ans.ok => Owns(d, loc[d].ans.val)
    BY <1>1, AnsweredFacts DEF Known, Grants
  <1>3. /\ ops' \in [Devices -> [Kinds -> Operation \cup {None}]]
        /\ ops'[d]["PUBLISH"] # None /\ ops'[d]["PUBLISH"].req = ops[d]["PUBLISH"].req
        /\ ops'[d]["PUBLISH"].done = TRUE
        /\ \A j \in Kinds \ {"PUBLISH"} : ops'[d][j] = ops[d][j]
        /\ \A e \in Devices \ {d} : ops'[e] = ops[e]
    BY <1>1, <1>2, PublishDone
  <1>4. ops'[d]["CHECKOUT"] = None BY <1>2, <1>3 DEF BindOK, Live, Kinds
  <1>5. \A k \in Kinds : Kept1(d, k) BY <1>2, <1>3 DEF Kept1
  <1>6. DirAfter(d) BY <1>1, <1>2 DEF DirOK, DirAfter
  <1>7. CASE ~loc[d].ans.ok
    <2>1. Return(d) /\ UNCHANGED bind BY <1>7 DEF Published
    <2>2. loc' \in [Devices -> Local] /\ loc'[d] = Idle /\ \A e \in Devices \ {d} : loc'[e] = loc[e]
      BY <1>2, <2>1, Returned
    <2>3. TypeOK' BY <1>1, <1>2, <1>3, <2>1, <2>2 DEF TypeOK, Kept
    <2>4. Others(d) BY <1>1, <1>3, <2>1, <2>2 DEF Others
    <2>5. RowAfter(d) BY <1>1, <1>2, <1>4, <2>1 DEF RowAfter
    <2> QED BY <1>1, <1>5, <1>6, <2>2, <2>3, <2>4, <2>5, ReturnStep
  <1>8. CASE loc[d].ans.ok
    <2>1. PICK held \in BOOLEAN :
            /\ bind' = [bind EXCEPT ![d] = NewBinding(loc[d].req.epoch,
                                                      IF held THEN loc[d].ans.val ELSE 0)]
            /\ IF held THEN Return(d)
               ELSE loc' = [loc EXCEPT ![d] = Holding("abandon", None, loc[d].ans.val)]
      BY <1>8 DEF Published
    <2>2. PICK x : x = NewBinding(loc[d].req.epoch, IF held THEN loc[d].ans.val ELSE 0) OBVIOUS
    <2>3. /\ x \in Binding /\ x.head = 0 /\ x.ver = 0 /\ x.base = 0 /\ x.epoch = loc[d].req.epoch
          /\ x.lease \in {loc[d].ans.val, 0}
      BY <1>2, <2>2 DEF NewBinding, Binding, Request
    <2>4. /\ bind' \in [Devices -> Binding \cup {None}] /\ bind'[d] = x
          /\ \A e \in Devices \ {d} : bind'[e] = bind[e]
      <3>1. bind' = [bind EXCEPT ![d] = x] /\ x \in Binding \cup {None} BY <2>1, <2>2, <2>3
      <3> QED BY <1>2, <3>1, SetBind
    <2>5. x # None BY <2>3, NoneIsNew
    <2>6. RowAfter(d)
      <3>1. RowOK(bind[d])' BY <1>1, <1>2, <2>3, <2>4 DEF RowOK, Kept
      <3> QED BY <1>1, <1>2, <1>3, <1>8, <2>3, <2>4, <2>5, <3>1 DEF RowAfter
    <2>7. CASE held
      <3>1. loc' \in [Devices -> Local] /\ loc'[d] = Idle /\ \A e \in Devices \ {d} : loc'[e] = loc[e]
        BY <1>2, <2>1, <2>7, Returned
      <3>2. TypeOK' BY <1>1, <1>2, <1>3, <2>4, <3>1 DEF TypeOK, Kept
      <3>3. Others(d) BY <1>1, <1>3, <2>4, <3>1 DEF Others
      <3> QED BY <1>1, <1>5, <1>6, <2>6, <3>1, <3>2, <3>3, ReturnStep
    <2>8. CASE ~held
      <3>1. /\ loc' \in [Devices -> Local]
            /\ loc'[d].pc = "abandon" /\ loc'[d].req = None /\ loc'[d].got = loc[d].ans.val
            /\ \A e \in Devices \ {d} : loc'[e] = loc[e]
        BY <1>2, <2>1, <2>8, Held1 DEF PCs
      <3>2. TypeOK' BY <1>1, <1>2, <1>3, <2>4, <3>1 DEF TypeOK, Kept
      <3>3. Others(d) BY <1>1, <1>3, <2>4, <3>1 DEF Others
      <3>4. LocOK(d)'
        <4>1. Owns(d, loc[d].got)' BY <1>1, <1>2, <1>8, <3>1 DEF Owns, Kept
        <4> QED BY <3>1, <4>1 DEF LocOK
      <3> QED BY <1>1, <1>2, <1>5, <1>6, <2>4, <2>5, <2>6, <3>1, <3>2, <3>3, <3>4, MoveStep
    <2> QED BY <2>7, <2>8
  <1> QED BY <1>7, <1>8

----------------------------------------------------------------------------
(* Checkouts and releases.                                                  *)

LEMMA CheckedOutBase ==
    ASSUME Base, NEW d \in Devices, CheckedOut(d) PROVE Base'
  <1>1. /\ Kept /\ UNCHANGED <<up, made, sess, swap, udd, staging, old, tries, faults>>
        /\ Answered(d, "CHECKOUT")
    BY DEF CheckedOut, server, dirs, Kept
  <1>2. /\ TypeOK /\ BindOK(d) /\ OpsOK(d) /\ DirOK(d) /\ loc[d].ans.val \in Nat /\ d \notin swap
        /\ loc[d].ans.ok => Owns(d, loc[d].ans.val)
        /\ bind[d] # None /\ bind[d].lease = 0 /\ udd[d] # None
    BY <1>1, AnsweredFacts DEF Grants
  <1>3. DirAfter(d) BY <1>1, <1>2 DEF DirOK, DirAfter
  <1>4. "CHECKOUT" \in Kinds /\ "RELEASE" \in Kinds BY DEF Kinds
  <1>5. ASSUME ops' = [ops EXCEPT ![d]["CHECKOUT"] = None]
        PROVE  /\ ops' \in [Devices -> [Kinds -> Operation \cup {None}]]
               /\ ops'[d]["CHECKOUT"] = None
               /\ \A j \in Kinds \ {"CHECKOUT"} : ops'[d][j] = ops[d][j]
               /\ \A e \in Devices \ {d} : ops'[e] = ops[e]
               /\ \A k \in Kinds : Kept1(d, k)
    <2>1. /\ ops' \in [Devices -> [Kinds -> Operation \cup {None}]]
          /\ ops'[d]["CHECKOUT"] = None
          /\ \A j \in Kinds \ {"CHECKOUT"} : ops'[d][j] = ops[d][j]
          /\ \A e \in Devices \ {d} : ops'[e] = ops[e]
      BY <1>2, <1>4, <1>5, SetOp, ZenonT(60)
    <2> QED BY <2>1 DEF Kept1
  <1>6. PICK over \in BOOLEAN :
         IF ~loc[d].ans.ok
         THEN /\ ops' = [ops EXCEPT ![d]["CHECKOUT"] = None]
              /\ Return(d) /\ UNCHANGED <<bind, net>>
         ELSE IF over /\ loc[d].fresh
         THEN Return(d) /\ UNCHANGED <<bind, ops, net>>
         ELSE IF Usable(d, over)
         THEN /\ ops' = [ops EXCEPT ![d]["CHECKOUT"] = None]
              /\ bind' = [bind EXCEPT ![d].lease = loc[d].ans.val]
              /\ Return(d) /\ UNCHANGED net
         ELSE /\ ops' = [ops EXCEPT ![d]["CHECKOUT"] = None,
                                    ![d]["RELEASE"] = Anew(Release(d, loc[d].ans.val))]
              /\ Send(d, Release(d, loc[d].ans.val), TRUE) /\ UNCHANGED bind
    BY DEF CheckedOut
  <1>7. CASE ~loc[d].ans.ok \/ (over /\ loc[d].fresh)
    <2>1. /\ ops' = [ops EXCEPT ![d]["CHECKOUT"] = None] \/ ops' = ops
          /\ Return(d) /\ UNCHANGED <<bind, net>>
      BY <1>6, <1>7
    <2>2. loc' \in [Devices -> Local] /\ loc'[d] = Idle /\ \A e \in Devices \ {d} : loc'[e] = loc[e]
      BY <1>2, <2>1, Returned
    <2>3. /\ ops' \in [Devices -> [Kinds -> Operation \cup {None}]]
          /\ \A j \in Kinds \ {"CHECKOUT"} : ops'[d][j] = ops[d][j]
          /\ \A e \in Devices \ {d} : ops'[e] = ops[e]
          /\ \A k \in Kinds : Kept1(d, k)
      BY <1>2, <1>5, <2>1 DEF Kept1, TypeOK
    <2>4. TypeOK' BY <1>1, <1>2, <2>1, <2>2, <2>3 DEF TypeOK, Kept
    <2>5. Others(d) BY <1>1, <2>1, <2>2, <2>3 DEF Others
    <2>6. RowAfter(d)
      BY <1>1, <1>2, <2>1, <2>3 DEF RowAfter, BindOK, Pending, Live, RowOK, Kept, Kinds
    <2> QED BY <1>1, <1>3, <2>1, <2>2, <2>3, <2>4, <2>5, <2>6, ReturnStep
  <1>8. CASE loc[d].ans.ok /\ ~(over /\ loc[d].fresh) /\ Usable(d, over)
    <2>1. /\ ops' = [ops EXCEPT ![d]["CHECKOUT"] = None] /\ Return(d) /\ UNCHANGED net
          /\ bind' = [bind EXCEPT ![d].lease = loc[d].ans.val]
      BY <1>6, <1>8
    <2>2. loc' \in [Devices -> Local] /\ loc'[d] = Idle /\ \A e \in Devices \ {d} : loc'[e] = loc[e]
      BY <1>2, <2>1, Returned
    <2>3. /\ ops' \in [Devices -> [Kinds -> Operation \cup {None}]]
          /\ \A j \in Kinds \ {"CHECKOUT"} : ops'[d][j] = ops[d][j]
          /\ \A e \in Devices \ {d} : ops'[e] = ops[e]
          /\ \A k \in Kinds : Kept1(d, k)
      BY <1>5, <2>1
    <2>4. PICK x : x = [bind[d] EXCEPT !.lease = loc[d].ans.val] OBVIOUS
    <2>5. /\ x \in Binding /\ x.ver = bind[d].ver /\ x.base = bind[d].base /\ x.head = bind[d].head
          /\ x.epoch = bind[d].epoch /\ x.lease = loc[d].ans.val
      <3>1. bind[d] \in Binding BY <1>2, RowTypes
      <3> QED BY <1>2, <2>4, <3>1 DEF Binding
    <2>6. /\ bind' \in [Devices -> Binding \cup {None}] /\ bind'[d] = x
          /\ \A e \in Devices \ {d} : bind'[e] = bind[e]
      <3>1. bind' = [bind EXCEPT ![d] = x] /\ x \in Binding \cup {None} BY <2>1, <2>4, <2>5
      <3> QED BY <1>2, <3>1, SetBind
    <2>7. TypeOK' BY <1>1, <1>2, <2>1, <2>2, <2>3, <2>6 DEF TypeOK, Kept
    <2>8. Others(d) BY <1>1, <2>1, <2>2, <2>3, <2>6 DEF Others
    <2>9. RowAfter(d)
      <3>1. x # None BY <2>5, NoneIsNew
      <3>2. RowOK(bind[d])' BY <1>1, <1>2, <2>5, <2>6 DEF RowOK, BindOK, Kept
      <3>3. ~(ops'[d]["PUBLISH"] # None /\ ~ops'[d]["PUBLISH"].done)
        BY <1>2, <2>3 DEF BindOK, Pending, Live, Kinds
      <3> QED BY <1>1, <1>2, <1>8, <2>5, <2>6, <3>1, <3>2, <3>3 DEF RowAfter
    <2> QED BY <1>1, <1>3, <2>1, <2>2, <2>3, <2>7, <2>8, <2>9, ReturnStep
  <1>9. CASE loc[d].ans.ok /\ ~(over /\ loc[d].fresh) /\ ~Usable(d, over)
    <2>1. PICK r : r = Release(d, loc[d].ans.val) OBVIOUS
    <2>2. /\ ops' = [ops EXCEPT ![d]["CHECKOUT"] = None, ![d]["RELEASE"] = Anew(r)]
          /\ Send(d, r, TRUE) /\ UNCHANGED bind
      BY <1>6, <1>9, <2>1
    <2>3. r \in Request /\ r.kind = "RELEASE" /\ r.dev = d /\ r.epoch = bind[d].epoch
          /\ r.fence = loc[d].ans.val
      BY <1>2, <2>1, ReleaseType
    <2>4. Anew(r) \in Operation /\ Anew(r) # None /\ Anew(r).req = r /\ ~Anew(r).done
      BY <2>3, AnewType
    <2>5. /\ ops' \in [Devices -> [Kinds -> Operation \cup {None}]]
          /\ ops'[d]["RELEASE"] = Anew(r)
          /\ \A j \in Kinds \ {"RELEASE"} : ops'[d][j] \in {ops[d][j], None}
          /\ \A e \in Devices \ {d} : ops'[e] = ops[e]
      <3>1. PICK x : x = Anew(r) OBVIOUS
      <3>2. ops' = [ops EXCEPT ![d]["CHECKOUT"] = None, ![d]["RELEASE"] = x] BY <2>2, <3>1
      <3>3. x \in Operation \cup {None} BY <2>4, <3>1
      <3>4. ops \in [Devices -> [Kinds -> Operation \cup {None}]] BY <1>2 DEF TypeOK
      <3>5. PICK o : o = [ops EXCEPT ![d]["CHECKOUT"] = None] OBVIOUS
      <3>6. o \in [Devices -> [Kinds -> Operation \cup {None}]] /\ o[d]["CHECKOUT"] = None
            /\ (\A j \in Kinds \ {"CHECKOUT"} : o[d][j] = ops[d][j])
            /\ \A e \in Devices \ {d} : o[e] = ops[e]
        BY <1>4, <3>4, <3>5
      <3>7. ops' = [o EXCEPT ![d]["RELEASE"] = x] BY <3>2, <3>5
      <3>8. ops' \in [Devices -> [Kinds -> Operation \cup {None}]] /\ ops'[d]["RELEASE"] = x
            /\ (\A j \in Kinds \ {"RELEASE"} : ops'[d][j] = o[d][j])
            /\ \A e \in Devices \ {d} : ops'[e] = o[e]
        BY <1>4, <3>3, <3>6, <3>7
      <3> QED BY <3>1, <3>6, <3>8
    <2>6. loc' \in [Devices -> Local] /\ net' \subseteq Request BY <1>2, <2>2, <2>3, Sent
    <2>7. TypeOK' BY <1>1, <1>2, <2>2, <2>5, <2>6 DEF TypeOK, Kept
    <2>8. Grows /\ LogInv' BY <1>1, <1>2, QuietGrows, LogStays
    <2>9. Known(r)'
      <3>1. bind[d].epoch <= epoch BY <1>2 DEF BindOK, RowOK
      <3> QED BY <1>1, <1>2, <1>9, <2>3, <3>1 DEF Known, Kept, Owns, UpKinds
    <2>10. /\ ops'[d][r.kind] # None /\ ops'[d][r.kind].req = r /\ ~ops'[d][r.kind].done
           /\ \A j \in Kinds \ {r.kind} : ops'[d][j] \in {ops[d][j], None}
      BY <2>3, <2>4, <2>5
    <2>11. /\ \A e \in Devices \ {d} : ops'[e] = ops[e] /\ udd'[e] = udd[e] /\ tries'[e] = tries[e]
           /\ bind' = bind /\ swap' = swap /\ d \notin swap /\ staging' = staging /\ udd'[d] # None
      BY <1>1, <1>2, <2>2, <2>5
    <2>12. /\ r.kind = "PUBLISH" <=> bind[d] = None
           /\ r.kind = "CHECKOUT" => bind[d].lease = 0
           /\ r.kind \in UpKinds => bind[d].lease = r.fence
      BY <1>2, <2>3 DEF UpKinds
    <2> QED BY <1>1, <2>2, <2>3, <2>7, <2>8, <2>9, <2>10, <2>11, <2>12, SendStep
  <1> QED BY <1>7, <1>8, <1>9

LEMMA ReleaseRefusedBase ==
    ASSUME Base, NEW d \in Devices, ReleaseRefused(d) PROVE Base'
  <1>1. /\ Kept /\ UNCHANGED <<up, made, bind, sess, swap, udd, staging, old, tries, net, faults>>
        /\ Answered(d, "RELEASE") /\ Goto(d, "drop") /\ ops' = [ops EXCEPT ![d]["RELEASE"] = None]
    BY DEF ReleaseRefused, server, dirs, Kept
  <1>2. /\ TypeOK /\ BindOK(d) /\ LocOK(d) /\ DirOK(d) /\ d \notin swap /\ bind[d] # None
        /\ loc[d].req # None /\ loc[d].req.kind = "RELEASE" /\ loc[d].req \in Request
        /\ loc[d].req.dev = d /\ Known(loc[d].req)
    BY <1>1, AnsweredFacts
  <1>3. /\ ops' \in [Devices -> [Kinds -> Operation \cup {None}]]
        /\ ops'[d]["RELEASE"] = None
        /\ \A j \in Kinds \ {"RELEASE"} : ops'[d][j] = ops[d][j]
        /\ \A e \in Devices \ {d} : ops'[e] = ops[e]
    <2>1. "RELEASE" \in Kinds BY DEF Kinds
    <2> QED BY <1>1, <1>2, <2>1, SetOp, ZenonT(60)
  <1>4. /\ loc' \in [Devices -> Local] /\ loc'[d].pc = "drop" /\ loc'[d].req = loc[d].req
        /\ \A e \in Devices \ {d} : loc'[e] = loc[e]
    BY <1>1, <1>2, Gone DEF PCs
  <1>5. TypeOK' BY <1>1, <1>2, <1>3, <1>4 DEF TypeOK, Kept
  <1>6. Others(d) /\ DirAfter(d) BY <1>1, <1>2, <1>3, <1>4 DEF Others, DirOK, DirAfter
  <1>7. RowAfter(d) BY <1>1, <1>2, <1>3 DEF RowAfter, BindOK, Pending, Live, RowOK, Kept, Kinds
  <1>8. \A k \in Kinds : Kept1(d, k) BY <1>3 DEF Kept1
  <1>9. LocOK(d)'
    <2>1. Known(loc[d].req)' BY <1>1, <1>2, <1>4 DEF Known, Kept, Owns, UpKinds
    <2> QED BY <1>2, <1>4, <2>1 DEF LocOK
  <1> QED BY <1>1, <1>2, <1>4, <1>5, <1>6, <1>7, <1>8, <1>9, MoveStep

LEMMA DropBase ==
    ASSUME Base, NEW d \in Devices, Drop(d) PROVE Base'
  <1>1. /\ Kept /\ UNCHANGED <<up, made, swap, udd, staging, old, tries, net, faults>>
        /\ At(d, "drop") \/ Answered(d, "RELEASE")
        /\ Dropped(d, loc[d].req.fence) /\ Return(d)
        /\ bind' = [bind EXCEPT ![d] = Unleased(bind[d], loc[d].req.fence, loc[d].super)]
    BY DEF Drop, server, dirs, Kept
  <1>2. /\ TypeOK /\ BindOK(d) /\ DirOK(d) /\ d \notin swap /\ bind[d] # None
        /\ loc[d].req \in Request
    <2>1. CASE At(d, "drop") BY <2>1, RowBefore, RowTypes DEF At, BindOK, LocOK
    <2>2. CASE Answered(d, "RELEASE") BY <2>2, AnsweredFacts
    <2> QED BY <1>1, <2>1, <2>2
  <1>3. loc[d].req.fence \in Nat /\ loc[d].super \in BOOLEAN /\ bind[d] \in Binding
    BY <1>2, RowTypes DEF Request
  <1>4. /\ ops' \in [Devices -> [Kinds -> Operation \cup {None}]]
        /\ \A k \in Kinds : ops'[d][k] \in {ops[d][k], None}
        /\ \A e \in Devices \ {d} : ops'[e] = ops[e]
        /\ sess' \in [Snaps -> {"none", "OPEN", "READY", "COMMITTED", "ABORTED"}]
        /\ \A s \in Snaps \ DOMAIN made : sess'[s] = sess[s]
    BY <1>1, <1>2, DroppedRows
  <1>5. PICK x : x = Unleased(bind[d], loc[d].req.fence, loc[d].super) OBVIOUS
  <1>6. /\ x \in Binding /\ x.ver = bind[d].ver /\ x.base = bind[d].base /\ x.head = bind[d].head
        /\ x.epoch = bind[d].epoch /\ x.lease \in {0, bind[d].lease}
    BY <1>3, <1>5, UnleasedRow
  <1>7. /\ bind' \in [Devices -> Binding \cup {None}] /\ bind'[d] = x
        /\ \A e \in Devices \ {d} : bind'[e] = bind[e]
    <2>1. bind' = [bind EXCEPT ![d] = x] /\ x \in Binding \cup {None} BY <1>1, <1>5, <1>6
    <2> QED BY <1>2, <2>1, SetBind
  <1>8. loc' \in [Devices -> Local] /\ loc'[d] = Idle /\ \A e \in Devices \ {d} : loc'[e] = loc[e]
    BY <1>1, <1>2, Returned
  <1>9. TypeOK' BY <1>1, <1>2, <1>4, <1>7, <1>8 DEF TypeOK, Kept
  <1>10. Others(d) /\ DirAfter(d) BY <1>1, <1>2, <1>4, <1>7, <1>8 DEF Others, DirOK, DirAfter
  <1>11. RowAfter(d)
    <2>1. RowOK(bind[d])' BY <1>1, <1>2, <1>6, <1>7 DEF RowOK, BindOK, Kept
    <2>2. ~(ops'[d]["PUBLISH"] # None /\ ~ops'[d]["PUBLISH"].done)
      BY <1>2, <1>4 DEF BindOK, Pending, Live, Kinds
    <2>3. x # None BY <1>6, NoneIsNew
    <2> QED BY <1>1, <1>2, <1>6, <1>7, <2>1, <2>2, <2>3 DEF RowAfter, BindOK
  <1>12. \A k \in Kinds : Kept1(d, k) BY <1>4 DEF Kept1
  <1> QED BY <1>1, <1>4, <1>8, <1>9, <1>10, <1>11, <1>12, ReturnStep

----------------------------------------------------------------------------
(* Uploads, commits, transitions and pulls.                                 *)

LEMMA FailUploadBase ==
    ASSUME Base, NEW d \in Devices, FailUpload(d) PROVE Base'
  <1>1. /\ Kept /\ UNCHANGED <<up, made, bind, ops, swap, udd, staging, old, tries, net, faults>>
        /\ loc[d].pc = "failed" /\ Goto(d, "abandon")
        /\ sess' = [s \in Snaps |-> IF s = loc[d].req.snap THEN "ABORTED" ELSE sess[s]]
    BY DEF FailUpload, At, server, dirs, Kept
  <1>2. TypeOK /\ BindOK(d) /\ OpsOK(d) /\ LocOK(d) /\ DirOK(d) BY RowBefore
  <1>3. /\ loc[d].req # None /\ loc[d].req.kind \in UpKinds /\ Known(loc[d].req)
        /\ loc[d].got = loc[d].req.fence /\ loc[d].req.dev = d
        /\ loc[d].req.snap \in DOMAIN made /\ Owns(d, loc[d].got) /\ bind[d] # None /\ d \notin swap
    BY <1>1, <1>2 DEF LocOK, BindOK, Known
  <1>4. /\ loc' \in [Devices -> Local] /\ loc'[d].pc = "abandon" /\ loc'[d].req = loc[d].req
        /\ loc'[d].got = loc[d].got
        /\ \A e \in Devices \ {d} : loc'[e] = loc[e]
    BY <1>1, <1>2, Gone DEF PCs
  <1>5. /\ sess' \in [Snaps -> {"none", "OPEN", "READY", "COMMITTED", "ABORTED"}]
        /\ \A s \in Snaps \ DOMAIN made : sess'[s] = sess[s]
    BY <1>1, <1>2, <1>3 DEF TypeOK
  <1>6. TypeOK' BY <1>1, <1>2, <1>4, <1>5 DEF TypeOK, Kept
  <1>7. Others(d) /\ DirAfter(d) BY <1>1, <1>2, <1>4 DEF Others, DirOK, DirAfter
  <1>8. RowAfter(d) BY <1>1, <1>2 DEF RowAfter, BindOK, Pending, Live, RowOK, Kept
  <1>9. \A k \in Kinds : Kept1(d, k) BY <1>1 DEF Kept1
  <1>10. LocOK(d)'
    <2>1. Known(loc[d].req)' BY <1>1, <1>3, <1>4 DEF Known, Kept, Owns, Asks
    <2>2. Owns(d, loc[d].got)' BY <1>1, <1>3, <1>4 DEF Kept, Owns
    <2> QED BY <1>3, <1>4, <2>1, <2>2 DEF LocOK
  <1> QED BY <1>1, <1>3, <1>4, <1>5, <1>6, <1>7, <1>8, <1>9, <1>10, MoveStep

LEMMA SealRefusedBase ==
    ASSUME Base, NEW d \in Devices, SealRefused(d) PROVE Base'
  <1>1. /\ Kept /\ UNCHANGED <<up, made, bind, ops, sess, swap, udd, staging, old, tries, net, faults>>
        /\ loc[d].pc = "idle" /\ bind[d] # None /\ d \notin swap /\ bind[d].lease # 0
        /\ loc' = [loc EXCEPT ![d] = Holding("abandon", None, bind[d].lease)]
    BY DEF SealRefused, Sealing, Working, Current, Bound, At, server, db, dirs, Kept
  <1>2. TypeOK /\ BindOK(d) /\ DirOK(d) /\ bind[d].lease \in Nat BY <1>1, RowBefore, RowTypes
  <1>3. /\ loc' \in [Devices -> Local] /\ loc'[d].pc = "abandon" /\ loc'[d].req = None
        /\ loc'[d].got = bind[d].lease
        /\ \A e \in Devices \ {d} : loc'[e] = loc[e]
    <2>1. PICK g \in Nat : g = bind[d].lease BY <1>2
    <2>2. loc' = [loc EXCEPT ![d] = Holding("abandon", None, g)] BY <1>1, <2>1
    <2>3. "abandon" \in PCs /\ None \in Request \cup {None} BY DEF PCs
    <2>4. /\ loc' \in [Devices -> Local] /\ loc'[d].pc = "abandon" /\ loc'[d].req = None
          /\ loc'[d].got = g
          /\ \A e \in Devices \ {d} : loc'[e] = loc[e]
      <3>1. PICK x : x = Holding("abandon", None, g) OBVIOUS
      <3>2. x \in Local BY <2>3, <3>1 DEF Holding, Local
      <3>3. x.pc = "abandon" /\ x.req = None /\ x.got = g BY <3>1 DEF Holding
      <3>4. loc' = [loc EXCEPT ![d] = x] BY <2>2, <3>1
      <3>5. /\ loc' \in [Devices -> Local] /\ loc'[d] = x
            /\ \A e \in Devices \ {d} : loc'[e] = loc[e]
        BY <1>2, <3>2, <3>4, SetLoc
      <3> QED BY <3>3, <3>5
    <2> QED BY <2>1, <2>4
  <1>4. TypeOK' BY <1>1, <1>2, <1>3 DEF TypeOK, Kept
  <1>5. Others(d) /\ DirAfter(d) BY <1>1, <1>2, <1>3 DEF Others, DirOK, DirAfter
  <1>6. RowAfter(d) BY <1>1, <1>2 DEF RowAfter, BindOK, Pending, Live, RowOK, Kept
  <1>7. \A k \in Kinds : Kept1(d, k) BY <1>1 DEF Kept1
  <1>8. LocOK(d)'
    <2>1. Owns(d, loc[d].got)' BY <1>1, <1>2, <1>3 DEF Kept, Owns, BindOK
    <2> QED BY <1>3, <2>1 DEF LocOK
  <1> QED BY <1>1, <1>3, <1>4, <1>5, <1>6, <1>7, <1>8, MoveStep

LEMMA AcceptTransitionsBase ==
    ASSUME Base, NEW d \in Devices, AcceptTransitions(d) PROVE Base'
  <1>1. /\ Kept /\ UNCHANGED <<up, made, ops, sess, swap, udd, staging, old, loc, tries, net, faults>>
        /\ loc[d].pc = "idle" /\ bind[d] # None /\ d \notin swap /\ bind[d].lease = 0
    BY DEF AcceptTransitions, Awaits, Bound, At, server, dirs, Kept
  <1>2. TypeOK /\ BindOK(d) /\ DirOK(d) /\ loc[d] = Idle /\ RowOK(bind[d]) /\ bind[d] \in Binding
    BY <1>1, RowBefore, RowTypes
  <1>3. /\ bind' \in [Devices -> Binding \cup {None}] /\ bind'[d] # None
        /\ \A e \in Devices \ {d} : bind'[e] = bind[e]
        /\ bind'[d].lease = 0
        /\ RowOK(bind[d])'
    <2>1. CASE \E w \in {"rollback", "invalid"} : Quarantine(d, w)
      <3>1. PICK w \in {"rollback", "invalid"} : Quarantine(d, w) BY <2>1
      <3>2. /\ bind' \in [Devices -> Binding \cup {None}] /\ bind'[d] # None
            /\ bind'[d].ver = bind[d].ver /\ bind'[d].base = bind[d].base
            /\ bind'[d].head = bind[d].head /\ bind'[d].epoch = bind[d].epoch
            /\ bind'[d].lease = bind[d].lease
            /\ \A e \in Devices \ {d} : bind'[e] = bind[e]
        BY <1>1, <1>2, <3>1, Quarantined
      <3> QED BY <1>1, <1>2, <3>2 DEF RowOK, Kept
    <2>2. ASSUME NEW v \in Nat, LeafHead(bind[d]) \in Nat, bind' = [bind EXCEPT ![d] = Moved(bind[d], v)]
          PROVE  /\ bind' \in [Devices -> Binding \cup {None}] /\ bind'[d] # None
                 /\ \A e \in Devices \ {d} : bind'[e] = bind[e]
                 /\ bind'[d].lease = 0 /\ bind'[d].ver = v /\ bind'[d].base = bind[d].base
                 /\ bind'[d].head = LeafHead(bind[d]) /\ bind'[d].epoch = epoch
      <3>1. PICK x : x = Moved(bind[d], v) OBVIOUS
      <3>2. /\ x \in Binding /\ x.ver = v /\ x.base = bind[d].base /\ x.head = LeafHead(bind[d])
            /\ x.epoch = epoch /\ x.lease = bind[d].lease
        <4>1. PICK b \in Binding : b = bind[d] BY <1>2
        <4>2. x = Moved(b, v) /\ LeafHead(b) \in Nat BY <2>2, <3>1, <4>1
        <4>3. /\ x \in Binding /\ x.ver = v /\ x.base = b.base /\ x.head = LeafHead(b)
              /\ x.epoch = epoch /\ x.lease = b.lease
          BY ONLY v \in Nat, b \in Binding, <1>2, <4>2, MovedRow
        <4> QED BY <4>1, <4>3
      <3>3. bind' = [bind EXCEPT ![d] = x] /\ x \in Binding \cup {None} BY <2>2, <3>1, <3>2
      <3>4. x # None BY <3>2, NoneIsNew
      <3>5. /\ bind' \in [Devices -> Binding \cup {None}] /\ bind'[d] = x
            /\ \A e \in Devices \ {d} : bind'[e] = bind[e]
        BY <1>2, <3>3, SetBind
      <3> QED BY <1>1, <3>2, <3>4, <3>5
    <2>3. CASE LeafHead(bind[d]) = bind[d].head /\ bind' = [bind EXCEPT ![d] = Moved(bind[d], bind[d].ver)]
      <3>1. bind[d].head \in Nat /\ bind[d].ver \in Nat /\ epoch \in Nat
        BY <1>1, <1>2, RowTypes DEF TypeOK
      <3>2. /\ bind' \in [Devices -> Binding \cup {None}] /\ bind'[d] # None
            /\ \A e \in Devices \ {d} : bind'[e] = bind[e]
            /\ bind'[d].lease = 0 /\ bind'[d].ver = bind[d].ver /\ bind'[d].base = bind[d].base
            /\ bind'[d].head = bind[d].head /\ bind'[d].epoch = epoch
        BY <2>2, <2>3, <3>1
      <3> QED BY <1>1, <1>2, <3>1, <3>2 DEF RowOK, Kept
    <2>4. CASE \E v \in DOMAIN log : /\ LeafFound(bind[d], v)
                                     /\ bind' = [bind EXCEPT ![d] = Moved(bind[d], v)]
      <3>1. PICK v \in DOMAIN log : /\ LeafFound(bind[d], v)
                                    /\ bind' = [bind EXCEPT ![d] = Moved(bind[d], v)]
        BY <2>4
      <3>2. /\ v \in Nat /\ log[v] \in Nat /\ log[v] # 0 /\ log[v] \in DOMAIN made
            /\ made[log[v]].ver = v /\ v >= 1
        <4>1. log \in Seq(Snaps) BY <1>2 DEF TypeOK
        <4>2. v \in Nat /\ log[v] \in Snaps /\ v >= 1 BY <3>1, <4>1
        <4> QED BY <3>1, <4>2 DEF Snaps, Base, LogInv
      <3>3. log[v] = LeafHead(bind[d]) BY <3>1 DEF LeafFound
      <3>4. bind[d].head # 0 => v <= bind[d].ver BY <3>1 DEF LeafFound
      <3>5. /\ bind' \in [Devices -> Binding \cup {None}] /\ bind'[d] # None
            /\ \A e \in Devices \ {d} : bind'[e] = bind[e]
            /\ bind'[d].lease = 0 /\ bind'[d].ver = v /\ bind'[d].base = bind[d].base
            /\ bind'[d].head = log[v] /\ bind'[d].epoch = epoch
        BY <2>2, <3>1, <3>2, <3>3
      <3>6. bind[d].ver \in Nat /\ bind[d].base \in Nat /\ epoch \in Nat
        BY <1>1, <1>2, RowTypes DEF TypeOK
      <3>7. bind[d].base >= v \/ bind[d].base = 0
        BY <1>2, <3>2, <3>4, <3>6 DEF RowOK
      <3> QED BY <1>1, <3>2, <3>5, <3>6, <3>7 DEF RowOK, Kept
    <2> QED BY <2>1, <2>3, <2>4 DEF AcceptTransitions
  <1>4. TypeOK' BY <1>1, <1>2, <1>3 DEF TypeOK, Kept
  <1>5. Others(d) /\ DirAfter(d) BY <1>1, <1>2, <1>3 DEF Others, DirOK, DirAfter
  <1>6. RowAfter(d) BY <1>1, <1>2, <1>3 DEF RowAfter, BindOK, Pending, Live
  <1>7. \A k \in Kinds : Kept1(d, k) BY <1>1 DEF Kept1
  <1> QED BY <1>1, <1>2, <1>4, <1>5, <1>6, <1>7, ReturnStep

LEMMA FinishBase ==
    ASSUME Base, NEW d \in Devices, Finish(d) PROVE Base'
  <1>1. /\ Kept /\ UNCHANGED <<up, made, swap, udd, staging, old, loc, tries, net, faults>>
        /\ loc[d].pc = "idle" /\ bind[d] # None /\ d \notin swap
        /\ ops[d]["COMMIT"] # None
    BY DEF Finish, Working, Current, Bound, At, OfLease, Live, server, dirs, Kept
  <1>2. /\ TypeOK /\ BindOK(d) /\ OpsOK(d) /\ DirOK(d) /\ loc[d] = Idle /\ RowOK(bind[d])
        /\ bind[d] \in Binding
    BY <1>1, RowBefore, RowTypes
  <1>3. CASE EpochMoved(d)
    <2>1. Quarantine(d, "transition") /\ UNCHANGED <<ops, sess>> BY <1>3 DEF Finish
    <2>2. /\ bind' \in [Devices -> Binding \cup {None}] /\ bind'[d] # None
          /\ bind'[d].ver = bind[d].ver /\ bind'[d].base = bind[d].base
          /\ bind'[d].head = bind[d].head /\ bind'[d].epoch = bind[d].epoch
          /\ bind'[d].lease = bind[d].lease
          /\ \A e \in Devices \ {d} : bind'[e] = bind[e]
      BY <1>1, <1>2, <2>1, Quarantined
    <2>3. TypeOK' BY <1>1, <1>2, <2>1, <2>2 DEF TypeOK, Kept
    <2>4. Others(d) /\ DirAfter(d) BY <1>1, <1>2, <2>1, <2>2 DEF Others, DirOK, DirAfter
    <2>5. RowAfter(d) BY <1>1, <1>2, <2>1, <2>2 DEF RowAfter, BindOK, Pending, Live, RowOK, Kept
    <2>6. \A k \in Kinds : Kept1(d, k) BY <2>1 DEF Kept1
    <2> QED BY <1>1, <1>2, <2>1, <2>3, <2>4, <2>5, <2>6, ReturnStep
  <1>4. CASE ~EpochMoved(d)
    <2>1. PICK s : s = ops[d]["COMMIT"].req.snap OBVIOUS
    <2>2. PICK v : v = made[s].ver BY SMTT(40)
    <2>3. /\ bind' = [bind EXCEPT ![d] = [Pinned(bind[d], v, s) EXCEPT !.lease = 0]]
          /\ Dropped(d, bind[d].lease)
      BY <1>4, <2>1, <2>2 DEF Finish
    <2>4. s \in DOMAIN made /\ s \in Nat /\ v \in Nat /\ v >= 1 /\ s # 0
      <3>1. Known(ops[d]["COMMIT"].req) /\ ops[d]["COMMIT"].req.kind = "COMMIT"
        BY <1>1, <1>2 DEF OpsOK, Live, Kinds
      <3>2. s \in DOMAIN made BY <2>1, <3>1 DEF Known, UpKinds
      <3>3. made[s].ver >= 1 BY <3>2 DEF Base, LogInv
      <3> QED BY <1>2, <2>2, <3>2, <3>3, MadeType
    <2>5. PICK x : x = Pinned(bind[d], v, s) OBVIOUS
    <2>6. /\ x \in Binding /\ x.ver = v /\ x.base = v /\ x.head = s /\ x.epoch = bind[d].epoch
      <3>1. PICK b \in Binding : b = bind[d] BY <1>2
      <3>2. x = Pinned(b, v, s) BY <2>5, <3>1
      <3>3. /\ x \in Binding /\ x.ver = v /\ x.base = v /\ x.head = s /\ x.epoch = b.epoch
        BY ONLY b \in Binding, <2>4, <3>2, PinnedRow, ZenonT(60)
      <3> QED BY <3>1, <3>3
    <2>7. PICK y : y = [x EXCEPT !.lease = 0] OBVIOUS
    <2>8. /\ y \in Binding /\ y.ver = v /\ y.base = v /\ y.head = s /\ y.epoch = bind[d].epoch
          /\ y.lease = 0
      BY <2>6, <2>7 DEF Binding
    <2>9. /\ bind' \in [Devices -> Binding \cup {None}] /\ bind'[d] = y
          /\ \A e \in Devices \ {d} : bind'[e] = bind[e]
      <3>1. bind' = [bind EXCEPT ![d] = y] BY <2>3, <2>5, <2>7
      <3>2. y \in Binding \cup {None} BY <2>8
      <3> QED BY <1>2, <3>1, <3>2, SetBind
    <2>10. /\ ops' \in [Devices -> [Kinds -> Operation \cup {None}]]
           /\ \A k \in Kinds : ops'[d][k] \in {ops[d][k], None}
           /\ \A e \in Devices \ {d} : ops'[e] = ops[e]
           /\ sess' \in [Snaps -> {"none", "OPEN", "READY", "COMMITTED", "ABORTED"}]
           /\ \A t \in Snaps \ DOMAIN made : sess'[t] = sess[t]
      BY <1>2, <2>3, DroppedRows
    <2>11. TypeOK' BY <1>1, <1>2, <2>9, <2>10 DEF TypeOK, Kept
    <2>12. Others(d) /\ DirAfter(d) BY <1>1, <1>2, <2>9, <2>10 DEF Others, DirOK, DirAfter
    <2>13. RowAfter(d)
      <3>1. RowOK(bind[d])' BY <1>1, <1>2, <2>2, <2>4, <2>8, <2>9 DEF RowOK, Kept
      <3>2. ~(ops'[d]["PUBLISH"] # None /\ ~ops'[d]["PUBLISH"].done)
        BY <1>1, <1>2, <2>10 DEF BindOK, Pending, Live, Kinds
      <3>3. y # None BY <2>8, NoneIsNew
      <3> QED BY <1>1, <2>8, <2>9, <3>1, <3>2, <3>3 DEF RowAfter
    <2>14. \A k \in Kinds : Kept1(d, k) BY <2>10 DEF Kept1
    <2> QED BY <1>1, <1>2, <2>10, <2>11, <2>12, <2>13, <2>14, ReturnStep
  <1> QED BY <1>3, <1>4, SMTT(40)

\* A reply to a request of an upload.
LEMMA RepliedBase ==
    ASSUME Base, NEW d \in Devices, NEW k \in UpKinds, NEW next \in {"failed", "abandon"},
           Replied(d, k, next),
           sess' \in [Snaps -> {"none", "OPEN", "READY", "COMMITTED", "ABORTED"}],
           \A s \in Snaps \ DOMAIN made : sess'[s] = sess[s]
    PROVE  Base'
  <1>1. /\ Kept /\ UNCHANGED <<up, made, bind, swap, udd, staging, old, tries, net, faults>>
        /\ Answered(d, k)
    BY DEF Replied, server, dirs, Kept
  <1>2. /\ TypeOK /\ BindOK(d) /\ LocOK(d) /\ DirOK(d) /\ d \notin swap /\ bind[d] # None
        /\ loc[d].req # None /\ loc[d].req.kind = k /\ loc[d].req \in Request
        /\ loc[d].req.dev = d /\ Known(loc[d].req) /\ ops[d][k] # None /\ k \in Kinds
        /\ bind[d].lease = loc[d].req.fence
    BY <1>1, AnsweredFacts DEF UpKinds
  <1>3. DirAfter(d) BY <1>1, <1>2 DEF DirOK, DirAfter
  <1>4. ASSUME NEW x \in Operation \cup {None}, x = None \/ x.req = ops[d][k].req,
               ops' = [ops EXCEPT ![d][k] = x], loc' \in [Devices -> Local],
               \A e \in Devices \ {d} : loc'[e] = loc[e]
        PROVE  TypeOK' /\ Others(d) /\ RowAfter(d) /\ \A j \in Kinds : Kept1(d, j)
    <2>1. /\ ops' \in [Devices -> [Kinds -> Operation \cup {None}]] /\ ops'[d][k] = x
          /\ \A j \in Kinds \ {k} : ops'[d][j] = ops[d][j]
          /\ \A e \in Devices \ {d} : ops'[e] = ops[e]
      <3>1. TypeOK /\ k \in Kinds BY <1>2
      <3>2. x \in Operation \cup {None} /\ ops' = [ops EXCEPT ![d][k] = x] BY <1>4
      <3> QED BY ONLY d \in Devices, <3>1, <3>2, SetOp, ZenonT(60)
    <2>2. TypeOK' BY <1>1, <1>2, <1>4, <2>1 DEF TypeOK, Kept
    <2>3. Others(d) BY <1>1, <1>4, <2>1 DEF Others
    <2>4. RowAfter(d)
      <3>1. ops'[d]["PUBLISH"] = ops[d]["PUBLISH"] BY <2>1 DEF Kinds, UpKinds
      <3> QED BY <1>1, <1>2, <3>1 DEF RowAfter, BindOK, Pending, Live, RowOK, Kept
    <2>5. ASSUME NEW j \in Kinds PROVE Kept1(d, j)
      <3>1. CASE j = k BY <1>2, <1>4, <2>1, <3>1 DEF Kept1, UpKinds
      <3>2. CASE j # k BY <2>1, <3>2 DEF Kept1
      <3> QED BY <3>1, <3>2
    <2> QED BY <2>2, <2>3, <2>4, <2>5
  <1>5. CASE loc[d].ans.ok
    <2>1. PICK x : x = Done(ops[d][k]) OBVIOUS
    <2>2. ops' = [ops EXCEPT ![d][k] = x] /\ Return(d) BY <1>5, <2>1 DEF Replied
    <2>3. x \in Operation \cup {None} /\ x.req = ops[d][k].req
      <3>1. TypeOK /\ k \in Kinds /\ ops[d][k] # None BY <1>2
      <3> QED BY ONLY d \in Devices, <2>1, <3>1, DoneType
    <2>4. loc' \in [Devices -> Local] /\ loc'[d] = Idle /\ \A e \in Devices \ {d} : loc'[e] = loc[e]
      BY <1>2, <2>2, Returned
    <2>5. TypeOK' /\ Others(d) /\ RowAfter(d) /\ \A j \in Kinds : Kept1(d, j)
      BY <1>4, <2>2, <2>3, <2>4
    <2> QED BY <1>1, <1>3, <2>4, <2>5, ReturnStep
  <1>6. CASE ~loc[d].ans.ok
    <2>1. PICK x : x = [pc |-> next, req |-> loc[d].req, ans |-> loc[d].ans, fresh |-> loc[d].fresh,
                        got |-> bind[d].lease, super |-> (k = "COMMIT" /\ loc[d].ans.val # 0)]
      OBVIOUS
    <2>2. ops' = [ops EXCEPT ![d][k] = None] /\ loc' = [loc EXCEPT ![d] = x]
      BY <1>6, <2>1 DEF Replied
    <2>3. x \in Local
      <3>1. /\ loc[d].ans \in Reply \cup {None} /\ loc[d].fresh \in BOOLEAN /\ bind[d].lease \in Nat
            /\ loc[d].req \in Request /\ next \in PCs
        BY <1>2, RowTypes DEF PCs
      <3>2. PICK b \in BOOLEAN : b = (k = "COMMIT" /\ loc[d].ans.val # 0) OBVIOUS
      <3>3. x = [pc |-> next, req |-> loc[d].req, ans |-> loc[d].ans, fresh |-> loc[d].fresh,
                 got |-> bind[d].lease, super |-> b]
        BY <2>1, <3>2
      <3> QED BY <3>1, <3>3 DEF Local
    <2>4. x.pc = next /\ x.req = loc[d].req /\ x.got = bind[d].lease BY <2>1
    <2>5. loc' \in [Devices -> Local] /\ loc'[d] = x /\ \A e \in Devices \ {d} : loc'[e] = loc[e]
      BY <1>2, <2>2, <2>3, SetLoc
    <2>6. TypeOK' /\ Others(d) /\ RowAfter(d) /\ \A j \in Kinds : Kept1(d, j)
      BY <1>4, <2>2, <2>5
    <2>7. LocOK(d)'
      <3>1. Known(loc[d].req)' BY <1>1, <1>2, <2>4, <2>5 DEF Known, Kept, Owns, Asks
      <3>2. Owns(d, bind[d].lease)' BY <1>1, <1>2 DEF Known, Owns, Kept
      <3>3. Owns(d, loc[d].got)' BY <1>1, <2>4, <2>5, <3>2
      <3>4. loc'[d].pc = next /\ loc'[d].req = loc[d].req /\ loc'[d].got = bind'[d].lease
        BY <1>1, <2>4, <2>5
      <3>5. loc'[d].req # None /\ loc'[d].req.dev = d /\ loc'[d].req.kind \in UpKinds
            /\ bind'[d].lease = loc'[d].req.fence
        BY <1>1, <1>2, <3>4
      <3> QED BY <3>1, <3>3, <3>4, <3>5 DEF LocOK
    <2>8. loc'[d].pc = next BY <2>4, <2>5
    <2> QED BY <1>1, <1>2, <1>3, <2>6, <2>7, <2>8, MoveStep
  <1> QED BY <1>5, <1>6

LEMMA RepliesBase ==
    ASSUME Base, NEW d \in Devices, UploadCreated(d) \/ Finalized(d) \/ CommitReplied(d) PROVE Base'
  <1>1. TypeOK BY DEF Base
  <1>2. sess \in [Snaps -> {"none", "OPEN", "READY", "COMMITTED", "ABORTED"}] BY <1>1 DEF TypeOK
  <1>3. CASE UploadCreated(d)
    BY <1>2, <1>3, RepliedBase DEF UploadCreated, UpKinds
  <1>4. ASSUME NEW k \in UpKinds, Answered(d, k) PROVE loc[d].req.snap \in DOMAIN made
    BY <1>4, AnsweredFacts DEF Known
  <1>5. CASE Finalized(d)
    <2>1. Answered(d, "FINALIZE") BY <1>5 DEF Finalized, Replied
    <2>2. loc[d].req.snap \in DOMAIN made BY <1>4, <2>1 DEF UpKinds
    <2>3. sess' \in [Snaps -> {"none", "OPEN", "READY", "COMMITTED", "ABORTED"}]
          /\ \A s \in Snaps \ DOMAIN made : sess'[s] = sess[s]
      BY <1>2, <1>5, <2>2 DEF Finalized
    <2> QED BY <1>5, <2>3, RepliedBase DEF Finalized, UpKinds
  <1>6. CASE CommitReplied(d)
    <2>1. Answered(d, "COMMIT") BY <1>6 DEF CommitReplied, Replied
    <2>2. loc[d].req.snap \in DOMAIN made BY <1>4, <2>1 DEF UpKinds
    <2>3. sess' \in [Snaps -> {"none", "OPEN", "READY", "COMMITTED", "ABORTED"}]
          /\ \A s \in Snaps \ DOMAIN made : sess'[s] = sess[s]
      BY <1>2, <1>6, <2>2 DEF CommitReplied
    <2> QED BY <1>6, <2>3, RepliedBase DEF CommitReplied, UpKinds
  <1> QED BY <1>3, <1>5, <1>6

LEMMA PrepareCommitBase ==
    ASSUME Base, NEW d \in Devices, PrepareCommit(d) PROVE Base'
  <1>1. PICK u : u = ops[d]["UPLOAD"].req OBVIOUS
  <1>2. PICK r : r = [u EXCEPT !.kind = "COMMIT"] OBVIOUS
  <1>3. /\ Kept /\ UNCHANGED <<up, made, bind, swap, udd, staging, old, loc, tries, net, faults>>
        /\ loc[d].pc = "idle" /\ bind[d] # None /\ d \notin swap /\ ops[d]["UPLOAD"] # None
        /\ ops' = [ops EXCEPT ![d]["COMMIT"] = Anew(r)]
        /\ sess' = [sess EXCEPT ![u.snap] = "OPEN"]
    BY <1>1, <1>2
    DEF PrepareCommit, Working, Current, Bound, At, OfLease, Live, server, dirs, Kept
  <1>4. TypeOK /\ BindOK(d) /\ OpsOK(d) /\ DirOK(d) /\ LocOK(d) /\ loc[d] = Idle BY <1>3, RowBefore
  <1>5. u \in Request /\ Known(u) /\ u.dev = d /\ u.kind = "UPLOAD"
    BY <1>1, <1>3, <1>4, RowTypes DEF OpsOK, Live, Kinds
  <1>6. /\ r \in Request /\ Known(r) /\ r.kind = "COMMIT" /\ r.dev = d
    BY <1>2, <1>4, <1>5, OtherKind DEF UpKinds
  <1>7. u.snap \in DOMAIN made BY <1>5 DEF Known, UpKinds
  <1>8. Anew(r) \in Operation /\ Anew(r) # None /\ Anew(r).req = r BY <1>6, AnewType
  <1>9. /\ ops' \in [Devices -> [Kinds -> Operation \cup {None}]] /\ ops'[d]["COMMIT"] = Anew(r)
        /\ \A j \in Kinds \ {"COMMIT"} : ops'[d][j] = ops[d][j]
        /\ \A e \in Devices \ {d} : ops'[e] = ops[e]
    <2>1. "COMMIT" \in Kinds BY DEF Kinds
    <2>2. PICK x : x = Anew(r) OBVIOUS
    <2>3. ops' = [ops EXCEPT ![d]["COMMIT"] = x] BY <1>3, <2>2
    <2>4. x \in Operation \cup {None} BY <1>8, <2>2
    <2>5. /\ ops' \in [Devices -> [Kinds -> Operation \cup {None}]] /\ ops'[d]["COMMIT"] = x
          /\ \A j \in Kinds \ {"COMMIT"} : ops'[d][j] = ops[d][j]
          /\ \A e \in Devices \ {d} : ops'[e] = ops[e]
      BY <1>4, <2>1, <2>3, <2>4, SetOp, ZenonT(60)
    <2> QED BY <2>2, <2>5
  <1>10. /\ sess' \in [Snaps -> {"none", "OPEN", "READY", "COMMITTED", "ABORTED"}]
         /\ \A s \in Snaps \ DOMAIN made : sess'[s] = sess[s]
    BY <1>3, <1>4, <1>7 DEF TypeOK
  <1>11. TypeOK' BY <1>3, <1>4, <1>9, <1>10 DEF TypeOK, Kept
  <1>12. Grows /\ LogInv' BY <1>3, <1>4, <1>10, QuietGrows, LogStays
  <1>13. Others(d) BY <1>3, <1>9 DEF Others
  <1>14. \A x \in Request : Known(x) => Known(x)' BY <1>4, <1>11, <1>12, KnownStays
  <1>15. OpsOK(d)'
    <2>1. ASSUME NEW k \in Kinds, ops'[d][k] # None
          PROVE  Known(ops[d][k].req)' /\ ops'[d][k].req.dev = d /\ ops'[d][k].req.kind = k
      <3>1. CASE k = "COMMIT"
        <4>1. \A x : x = r => Known(x)' BY <1>6, <1>14
        <4>2. ops'[d][k].req = r BY <1>8, <1>9, <3>1
        <4> QED BY <1>6, <3>1, <4>1, <4>2
      <3>2. CASE k # "COMMIT"
        <4>1. ops'[d][k] = ops[d][k] BY <1>9, <3>2
        <4>2. ops[d][k].req \in Request BY <1>4, <2>1, <4>1, RowTypes
        <4>3. \A x : x = ops[d][k].req => Known(x)' BY <1>4, <1>14, <2>1, <4>1, <4>2 DEF OpsOK, Live
        <4> QED BY <1>4, <2>1, <4>1, <4>3 DEF OpsOK, Live
      <3> QED BY <3>1, <3>2
    <2>2. /\ ops'[d]["CHECKOUT"] # None => ~ops'[d]["CHECKOUT"].done
          /\ ops'[d]["RELEASE"] # None => ~ops'[d]["RELEASE"].done
      BY <1>4, <1>9 DEF OpsOK, Live, Kinds
    <2> QED BY <2>1, <2>2 DEF OpsOK, Live
  <1>16. BindOK(d)'
    <2>1. RowOK(bind[d])' BY <1>3, <1>4 DEF BindOK, RowOK, Kept
    <2>2. bind[d].lease # 0 => Owns(d, bind[d].lease)' BY <1>3, <1>4 DEF BindOK, Owns, Kept
    <2>3. ops'[d]["PUBLISH"] = ops[d]["PUBLISH"] BY <1>9 DEF Kinds
    <2> QED BY <1>3, <1>4, <2>1, <2>2, <2>3 DEF BindOK, Pending, Live
  <1>17. LocOK(d)' BY <1>3, <1>4, IdleLoc
  <1>18. DirOK(d)' BY <1>3, <1>4 DEF DirOK
  <1>19. DeviceOK(d)' BY <1>15, <1>16, <1>17, <1>18 DEF DeviceOK
  <1> QED BY <1>3, <1>11, <1>12, <1>13, <1>19, DeviceStep

LEMMA TransferBase ==
    ASSUME Base, NEW d \in Devices, Transfer(d) PROVE Base'
  <1>1. PICK r : r = ops[d]["COMMIT"].req OBVIOUS
  <1>2. /\ Kept /\ UNCHANGED <<made, bind, ops, sess, swap, udd, staging, old, tries, net, faults>>
        /\ loc[d].pc = "idle" /\ bind[d] # None /\ d \notin swap /\ ops[d]["COMMIT"] # None
        /\ r.fence = bind[d].lease
        /\ \/ loc' = [loc EXCEPT ![d] = Holding("failed", r, bind[d].lease)] /\ UNCHANGED up
           \/ up' = [up EXCEPT ![r.snap] = "FULL"] /\ UNCHANGED loc
    BY <1>1
    DEF Transfer, Untransferred, InSession, Working, Current, Bound, At, OfLease, Live, db, dirs, Kept
  <1>3. TypeOK /\ BindOK(d) /\ OpsOK(d) /\ DirOK(d) /\ loc[d] = Idle BY <1>2, RowBefore
  <1>4. r \in Request /\ Known(r) /\ r.dev = d /\ r.kind = "COMMIT" /\ r # None
    BY <1>1, <1>2, <1>3, RowTypes, NoneIsNew DEF OpsOK, Live, Kinds
  <1>5. r.snap \in DOMAIN made BY <1>4 DEF Known, UpKinds
  <1>6. bind[d].lease \in Nat BY <1>2, <1>3, RowTypes
  <1>7. \A k \in Kinds : Kept1(d, k) BY <1>2 DEF Kept1
  <1>8. RowAfter(d) BY <1>2, <1>3 DEF RowAfter, BindOK, Pending, Live, RowOK, Kept
  <1>9. DirAfter(d) BY <1>2, <1>3 DEF DirOK, DirAfter
  <1>10. CASE loc' = [loc EXCEPT ![d] = Holding("failed", r, bind[d].lease)] /\ UNCHANGED up
    <2>1. /\ loc' \in [Devices -> Local] /\ loc'[d].pc = "failed" /\ loc'[d].req = r
          /\ loc'[d].got = bind[d].lease
          /\ \A e \in Devices \ {d} : loc'[e] = loc[e]
      <3>1. PICK g \in Nat : g = bind[d].lease BY <1>6
      <3>2. loc' = [loc EXCEPT ![d] = Holding("failed", r, g)] BY <1>10, <3>1
      <3>3. "failed" \in PCs /\ r \in Request \cup {None} BY <1>4 DEF PCs
      <3>4. /\ loc' \in [Devices -> Local] /\ loc'[d].pc = "failed" /\ loc'[d].req = r
            /\ loc'[d].got = g
            /\ \A e \in Devices \ {d} : loc'[e] = loc[e]
        <4>1. PICK x : x = Holding("failed", r, g) OBVIOUS
        <4>2. x \in Local BY <3>1, <3>3, <4>1, HoldingLocal
        <4>3. x.pc = "failed" /\ x.req = r /\ x.got = g BY <3>1, <3>3, <4>1, HoldingLocal
        <4>4. loc' = [loc EXCEPT ![d] = x] BY <3>2, <4>1
        <4> QED BY <1>3, <4>2, <4>3, <4>4, SetLoc
      <3> QED BY <3>1, <3>4
    <2>2. TypeOK' BY <1>2, <1>3, <1>10, <2>1 DEF TypeOK, Kept
    <2>3. Others(d) BY <1>2, <2>1 DEF Others
    <2>4. LocOK(d)'
      <3>1. Known(loc[d].req)' BY <1>2, <1>4, <2>1 DEF Known, Kept, Owns, Asks
      <3> QED BY <1>2, <1>4, <2>1, <3>1 DEF LocOK, UpKinds
    <2> QED BY <1>2, <1>7, <1>8, <1>9, <1>10, <2>1, <2>2, <2>3, <2>4, MoveStep
  <1>11. CASE up' = [up EXCEPT ![r.snap] = "FULL"] /\ UNCHANGED loc
    <2>1. /\ up' \in [Snaps -> {"none", "OPEN", "FULL", "READY", "COMMITTED"}]
          /\ \A s \in Snaps \ DOMAIN made : up'[s] = up[s]
      BY <1>3, <1>5, <1>11 DEF TypeOK
    <2>2. TypeOK' BY <1>2, <1>3, <1>11, <2>1 DEF TypeOK, Kept
    <2>3. Others(d) BY <1>2, <1>11 DEF Others
    <2> QED BY <1>2, <1>3, <1>7, <1>8, <1>9, <1>11, <2>1, <2>2, <2>3, ReturnStep
  <1> QED BY <1>2, <1>10, <1>11

----------------------------------------------------------------------------
(* Pulls and seals.                                                         *)

LEMMA HeadLogged ==
    ASSUME TypeOK, LogInv, log # <<>>
    PROVE  /\ Len(log) \in DOMAIN log /\ HeadSnap = log[Len(log)] /\ HeadSnap \in DOMAIN made
           /\ made[HeadSnap].ver = Len(log) /\ Len(log) \in Nat /\ HeadSnap \in Nat /\ HeadSnap # 0
  <1>1. log \in Seq(Snaps) BY DEF TypeOK
  <1>2. Len(log) \in DOMAIN log /\ Len(log) \in Nat BY <1>1
  <1>3. HeadSnap = log[Len(log)] BY DEF HeadSnap
  <1>4. HeadSnap \in DOMAIN made /\ made[HeadSnap].ver = Len(log) BY <1>2, <1>3 DEF LogInv
  <1> QED BY <1>2, <1>3, <1>4, MadeType

LEMMA SetStaging ==
    ASSUME TypeOK, NEW d \in Devices, NEW x \in Data \cup {Partial, None},
           staging' = [staging EXCEPT ![d] = x]
    PROVE  /\ staging' \in [Devices -> Data \cup {Partial, None}] /\ staging'[d] = x
           /\ \A e \in Devices \ {d} : staging'[e] = staging[e]
  <1>1. staging \in [Devices -> Data \cup {Partial, None}] BY DEF TypeOK
  <1> QED BY <1>1

LEMMA PullBeginBase ==
    ASSUME Base, NEW d \in Devices, PullBegin(d) PROVE Base'
  <1>1. /\ Kept /\ UNCHANGED <<up, made, bind, ops, sess, swap, udd, old, tries, net, faults>>
        /\ loc[d].pc = "idle" /\ bind[d] # None /\ d \notin swap /\ bind[d].lease = 0 /\ log # <<>>
        /\ staging' = [staging EXCEPT ![d] = Partial]
        /\ loc' = [loc EXCEPT ![d] = Holding("fetch", None, HeadSnap)]
    BY DEF PullBegin, Current, Bound, PushInFlight, At, server, db, Kept
  <1>2. TypeOK /\ BindOK(d) /\ DirOK(d) BY RowBefore
  <1>3. HeadSnap \in DOMAIN made /\ HeadSnap \in Nat BY <1>1, <1>2, HeadLogged DEF Base
  <1>4. /\ staging' \in [Devices -> Data \cup {Partial, None}] /\ staging'[d] = Partial
        /\ \A e \in Devices \ {d} : staging'[e] = staging[e]
    BY <1>1, <1>2, SetStaging
  <1>5. PICK x : x = Holding("fetch", None, HeadSnap) OBVIOUS
  <1>6. x \in Local BY <1>3, <1>5, HoldingLocal DEF PCs
  <1>7. x.pc = "fetch" /\ x.req = None /\ x.got = HeadSnap BY <1>3, <1>5, HoldingLocal DEF PCs
  <1>8. loc' \in [Devices -> Local] /\ loc'[d] = x /\ \A e \in Devices \ {d} : loc'[e] = loc[e]
    <2>1. loc' = [loc EXCEPT ![d] = x] BY <1>1, <1>5
    <2> QED BY <1>2, <1>6, <2>1, SetLoc
  <1>9. TypeOK' BY <1>1, <1>2, <1>4, <1>8 DEF TypeOK, Kept
  <1>10. Others(d) BY <1>1, <1>4, <1>8 DEF Others
  <1>11. DirAfter(d) BY <1>1, <1>2 DEF DirOK, DirAfter
  <1>12. RowAfter(d) BY <1>1, <1>2 DEF RowAfter, BindOK, Pending, Live, RowOK, Kept
  <1>13. LocOK(d)' BY <1>1, <1>3, <1>7, <1>8 DEF LocOK
  <1>14. \A k \in Kinds : Kept1(d, k) BY <1>1 DEF Kept1
  <1>15. loc'[d].pc = "fetch" BY <1>7, <1>8
  <1> QED BY <1>1, <1>9, <1>10, <1>11, <1>12, <1>13, <1>14, <1>15, MoveStep

LEMMA PullFetchBase ==
    ASSUME Base, NEW d \in Devices, PullFetch(d) PROVE Base'
  <1>1. /\ Kept /\ UNCHANGED <<up, made, bind, ops, sess, swap, udd, old, tries, net, faults>>
        /\ loc[d].pc = "fetch"
        /\ staging' = [staging EXCEPT ![d] = made[loc[d].got].data]
        /\ Goto(d, "staged")
    BY DEF PullFetch, At, server, db, Kept
  <1>2. TypeOK /\ BindOK(d) /\ DirOK(d) /\ LocOK(d) BY RowBefore
  <1>3. loc[d].got \in DOMAIN made /\ bind[d].lease = 0 BY <1>1, <1>2 DEF LocOK
  <1>4. bind[d] # None /\ d \notin swap BY <1>1, <1>2 DEF BindOK
  <1>5. PICK x : x = made[loc[d].got].data OBVIOUS
  <1>6. x \in Data BY <1>2, <1>3, <1>5, MadeType
  <1>7. /\ staging' \in [Devices -> Data \cup {Partial, None}] /\ staging'[d] = x
        /\ \A e \in Devices \ {d} : staging'[e] = staging[e]
    <2>1. x \in Data \cup {Partial, None} BY <1>6
    <2>2. staging' = [staging EXCEPT ![d] = x] BY <1>1, <1>5
    <2> QED BY <1>2, <2>1, <2>2, SetStaging
  <1>8. /\ loc' \in [Devices -> Local]
        /\ loc'[d].pc = "staged" /\ loc'[d].req = loc[d].req /\ loc'[d].got = loc[d].got
        /\ \A e \in Devices \ {d} : loc'[e] = loc[e]
    BY <1>1, <1>2, Gone DEF PCs
  <1>9. TypeOK' BY <1>1, <1>2, <1>7, <1>8 DEF TypeOK, Kept
  <1>10. Others(d) BY <1>1, <1>7, <1>8 DEF Others
  <1>11. DirAfter(d) BY <1>1, <1>2, <1>4 DEF DirOK, DirAfter
  <1>12. RowAfter(d) BY <1>1, <1>2, <1>4 DEF RowAfter, BindOK, Pending, Live, RowOK, Kept
  <1>13. LocOK(d)'
    <2>1. loc'[d].req # None => Known(loc[d].req)' /\ loc'[d].req.dev = d
      BY <1>1, <1>2, <1>8 DEF LocOK, Known, Owns, Asks, Kept
    <2> QED BY <1>1, <1>3, <1>8, <2>1 DEF LocOK
  <1>14. \A k \in Kinds : Kept1(d, k) BY <1>1 DEF Kept1
  <1>15. staging'[d] = made[loc'[d].got].data BY <1>5, <1>7, <1>8
  <1> QED BY <1>1, <1>4, <1>8, <1>9, <1>10, <1>11, <1>12, <1>13, <1>14, <1>15, MoveStep

LEMMA DiscardTypes ==
    ASSUME TypeOK, NEW d \in Devices, Discard(d)
    PROVE  /\ staging' \in [Devices -> Data \cup {Partial, None}]
           /\ old' \in [Devices -> Data \cup {None}] /\ udd' = udd
           /\ \A e \in Devices \ {d} : staging'[e] = staging[e]
           /\ d \in swap => staging' = staging
  <1>1. /\ staging \in [Devices -> Data \cup {Partial, None}] /\ old \in [Devices -> Data \cup {None}]
    BY DEF TypeOK
  <1>2. staging' = staging \/ staging' = [staging EXCEPT ![d] = None] BY DEF Discard
  <1>3. old' = old \/ old' = [old EXCEPT ![d] = None] BY DEF Discard
  <1>4. d \in swap => staging' = staging BY DEF Discard
  <1>5. udd' = udd BY DEF Discard
  <1> QED BY <1>1, <1>2, <1>3, <1>4, <1>5

LEMMA PullFailsBase ==
    ASSUME Base, NEW d \in Devices, PullFails(d) PROVE Base'
  <1>1. /\ Kept /\ UNCHANGED <<up, made, bind, ops, sess, swap, tries, net>>
        /\ loc[d].pc = "fetch" /\ Discard(d) /\ Return(d) /\ (Fault \/ UNCHANGED faults)
    BY DEF PullFails, At, server, db, Kept
  <1>2. TypeOK /\ BindOK(d) /\ DirOK(d) /\ LocOK(d) BY RowBefore
  <1>3. bind[d] # None /\ d \notin swap BY <1>1, <1>2 DEF BindOK
  <1>4. /\ staging' \in [Devices -> Data \cup {Partial, None}]
        /\ old' \in [Devices -> Data \cup {None}] /\ udd' = udd
        /\ \A e \in Devices \ {d} : staging'[e] = staging[e]
    BY <1>1, <1>2, DiscardTypes
  <1>5. loc' \in [Devices -> Local] /\ loc'[d] = Idle /\ \A e \in Devices \ {d} : loc'[e] = loc[e]
    BY <1>1, <1>2, Returned
  <1>6. faults' \in Nat BY <1>1, <1>2, FaultNat
  <1>7. TypeOK' BY <1>1, <1>2, <1>4, <1>5, <1>6 DEF TypeOK, Kept
  <1>8. Others(d) BY <1>1, <1>4, <1>5 DEF Others
  <1>9. DirAfter(d) BY <1>1, <1>2, <1>3, <1>4 DEF DirOK, DirAfter
  <1>10. RowAfter(d) BY <1>1, <1>2, <1>3 DEF RowAfter, BindOK, Pending, Live, RowOK, Kept
  <1>11. \A k \in Kinds : Kept1(d, k) BY <1>1 DEF Kept1
  <1> QED BY <1>1, <1>5, <1>7, <1>8, <1>9, <1>10, <1>11, ReturnStep

LEMMA PinBase ==
    ASSUME Base, NEW d \in Devices, Pin(d) PROVE Base'
  <1>1. PICK s : s = loc[d].got OBVIOUS
  <1>2. PICK v : v = made[s].ver OBVIOUS
  <1>3. /\ Kept /\ UNCHANGED <<up, made, ops, sess, udd, staging, old, tries, net, faults>>
        /\ loc[d].pc = "staged" /\ Return(d) /\ swap' = swap \cup {d}
        /\ bind' = [bind EXCEPT ![d] = Pinned(bind[d], v, s)]
    BY <1>1, <1>2 DEF Pin, At, server, dirs, Kept
  <1>4. TypeOK /\ BindOK(d) /\ DirOK(d) /\ LocOK(d) /\ LogInv BY RowBefore DEF Base
  <1>5. s \in DOMAIN made /\ bind[d].lease = 0 /\ bind[d] # None /\ d \notin swap
    BY <1>1, <1>3, <1>4 DEF LocOK, BindOK
  <1>6. s \in Nat /\ v \in Nat /\ s >= 1 /\ v >= 1 /\ made[s].data \in Data /\ bind[d] \in Binding
    BY <1>2, <1>4, <1>5, MadeType, RowTypes DEF LogInv
  <1>7. PICK x : x = Pinned(bind[d], v, s) OBVIOUS
  <1>8. /\ x \in Binding /\ x.ver = v /\ x.base = v /\ x.head = s /\ x.epoch = bind[d].epoch
        /\ x.lease = bind[d].lease
    BY <1>6, <1>7, PinnedRow
  <1>9. x # None /\ x \in Binding \cup {None} BY <1>8, NoneIsNew
  <1>10. /\ bind' \in [Devices -> Binding \cup {None}] /\ bind'[d] = x
         /\ \A e \in Devices \ {d} : bind'[e] = bind[e]
    <2>1. bind' = [bind EXCEPT ![d] = x] BY <1>3, <1>7
    <2> QED BY <1>4, <1>9, <2>1, SetBind
  <1>11. loc' \in [Devices -> Local] /\ loc'[d] = Idle /\ \A e \in Devices \ {d} : loc'[e] = loc[e]
    BY <1>3, <1>4, Returned
  <1>12. TypeOK' BY <1>3, <1>4, <1>10, <1>11 DEF TypeOK, Kept
  <1>13. Others(d) BY <1>3, <1>10, <1>11 DEF Others
  <1>14. DirAfter(d)
    <2>1. staging[d] = made[s].data BY <1>1, <1>3, <1>4 DEF DirOK
    <2>2. staging[d] # None BY <1>6, <2>1, NoneIsNew
    <2>3. staging[d] # Partial BY <1>6, <2>1, BoundsOK DEF Data, Partial, Snaps
    <2> QED BY <1>3, <2>2, <2>3 DEF DirAfter
  <1>15. RowAfter(d)
    <2>1. RowOK(bind[d])
      BY <1>4, <1>5 DEF BindOK
    <2>2. RowOK(bind[d])'
      BY <1>2, <1>3, <1>5, <1>6, <1>8, <1>10, <2>1 DEF RowOK, Kept
    <2> QED BY <1>3, <1>4, <1>5, <1>8, <1>9, <1>10, <2>2 DEF RowAfter, BindOK, Pending, Live
  <1>16. \A k \in Kinds : Kept1(d, k) BY <1>3 DEF Kept1
  <1> QED BY <1>3, <1>11, <1>12, <1>13, <1>14, <1>15, <1>16, ReturnStep

LEMMA SealSnapshotBase ==
    ASSUME Base, NEW d \in Devices, SealSnapshot(d) PROVE Base'
  <1> DEFINE R == [data : Data, epoch : Nat, fence : Nat, ver : Nat]
  <1>1. PICK s : s = Len(made) + 1 OBVIOUS
  <1>2. PICK r : r = [kind |-> "UPLOAD", dev |-> d, n |-> 0, epoch |-> bind[d].epoch,
                      fence |-> bind[d].lease, base |-> bind[d].ver, head |-> 0, snap |-> s]
    OBVIOUS
  <1>3. PICK m : m = [data |-> udd'[d], epoch |-> bind[d].epoch, fence |-> bind[d].lease,
                      ver |-> bind[d].ver + 1]
    OBVIOUS
  <1>4. /\ Kept /\ UNCHANGED <<up, bind, sess, swap, staging, old, tries, faults>>
        /\ loc[d].pc = "idle" /\ bind[d] # None /\ d \notin swap /\ bind[d].lease # 0
        /\ s \in Snaps /\ udd' = [udd EXCEPT ![d] = udd[d] \cup {s}]
        /\ made' = Append(made, m) /\ Send(d, r, TRUE)
        /\ ops' = [ops EXCEPT ![d]["UPLOAD"] = Anew(r)]
    BY <1>1, <1>2, <1>3
    DEF SealSnapshot, Sealing, Working, Current, Bound, At, server, Kept
  <1>5. /\ TypeOK /\ BindOK(d) /\ DirOK(d) /\ LogInv /\ LedgerInv /\ loc[d] = Idle
        /\ RowOK(bind[d])
    BY <1>4, RowBefore DEF Base
  <1>6. udd[d] \in Data
    <2>1. udd[d] # None BY <1>4, <1>5 DEF DirOK
    <2> QED BY <1>5, <2>1 DEF TypeOK
  <1>7. /\ udd' \in [Devices -> Data \cup {None}] /\ udd'[d] = udd[d] \cup {s} /\ udd'[d] \in Data
        /\ \A e \in Devices \ {d} : udd'[e] = udd[e]
    <2>1. udd \in [Devices -> Data \cup {None}] BY <1>5 DEF TypeOK
    <2>2. PICK x \in Data : x = udd[d] \cup {s} BY <1>4, <1>6 DEF Data
    <2>3. udd' = [udd EXCEPT ![d] = x] BY <1>4, <2>2
    <2> QED BY <2>1, <2>2, <2>3
  <1>8. /\ bind[d].epoch \in Nat /\ bind[d].lease \in Nat /\ bind[d].ver \in Nat
    BY <1>4, <1>5, RowTypes
  <1>9. m \in R /\ m.epoch = bind[d].epoch /\ m.fence = bind[d].lease /\ m.ver = bind[d].ver + 1
        /\ m.data = udd'[d]
    BY <1>3, <1>7, <1>8
  <1>10. made \in Seq(R) /\ Len(made) \in Nat BY <1>5 DEF TypeOK
  <1> HIDE DEF R
  <1>11. /\ made' \in Seq(R) /\ Len(made') = s /\ DOMAIN made' = DOMAIN made \cup {s}
         /\ made'[s] = m /\ \A t \in DOMAIN made : made'[t] = made[t]
         /\ s \notin DOMAIN made
    BY <1>1, <1>4, <1>9, <1>10
  <1>12. r \in Request BY <1>1, <1>2, <1>8, <1>10 DEF Request, Kinds
  <1>13. r.kind = "UPLOAD" /\ r.dev = d /\ r.fence = bind[d].lease /\ r.snap = s /\ r.n = 0
         /\ r.epoch = bind[d].epoch /\ r.base = bind[d].ver /\ r.head = 0
    BY <1>2
  <1>14. /\ ops' \in [Devices -> [Kinds -> Operation \cup {None}]] /\ ops'[d]["UPLOAD"] = Anew(r)
         /\ \A j \in Kinds \ {"UPLOAD"} : ops'[d][j] = ops[d][j]
         /\ \A e \in Devices \ {d} : ops'[e] = ops[e]
    <2>1. "UPLOAD" \in Kinds BY DEF Kinds
    <2>2. PICK x : x = Anew(r) OBVIOUS
    <2>3. ops' = [ops EXCEPT ![d]["UPLOAD"] = x] BY <1>4, <2>2
    <2>4. x \in Operation \cup {None} BY <1>12, <2>2, AnewType
    <2>5. /\ ops' \in [Devices -> [Kinds -> Operation \cup {None}]] /\ ops'[d]["UPLOAD"] = x
          /\ \A j \in Kinds \ {"UPLOAD"} : ops'[d][j] = ops[d][j]
          /\ \A e \in Devices \ {d} : ops'[e] = ops[e]
      BY <1>5, <2>1, <2>3, <2>4, SetOp, ZenonT(60)
    <2> QED BY <2>2, <2>5
  <1>15. loc' \in [Devices -> Local] /\ net' \subseteq Request BY <1>4, <1>5, <1>12, Sent
  <1>16. Len(made') <= MaxSnap BY <1>4, <1>11, BoundsOK DEF Snaps
  <1>17. TypeOK' BY <1>4, <1>5, <1>7, <1>11, <1>14, <1>15, <1>16 DEF TypeOK, Kept, R
  <1>18. Grows BY <1>4, <1>5, <1>11 DEF Grows, Kept, TypeOK
  <1>19. bind[d].epoch <= epoch BY <1>5 DEF RowOK
  <1>20. Owns(d, bind[d].lease) BY <1>4, <1>5 DEF BindOK
  <1>21. bind[d].lease \in 1 .. fence BY <1>5, <1>20, OwnerUnique
  <1>22. LogInv'
    <2>1. \A v \in DOMAIN log' : log'[v] \in DOMAIN made' /\ made'[log'[v]].ver = v
      BY <1>4, <1>5, <1>11 DEF LogInv, Kept
    <2>2. \A t \in DOMAIN made' :
            made'[t].fence \in 1 .. fence' /\ made'[t].epoch <= epoch' /\ made'[t].ver >= 1
      <3> SUFFICES ASSUME NEW t \in DOMAIN made'
                   PROVE made'[t].fence \in 1 .. fence' /\ made'[t].epoch <= epoch' /\ made'[t].ver >= 1
        OBVIOUS
      <3>1. CASE t \in DOMAIN made BY <1>4, <1>5, <1>11, <3>1 DEF LogInv, Kept
      <3>2. CASE t = s
        <4>1. made'[t] = m BY <1>11, <3>2
        <4>2. m.ver >= 1 BY <1>8, <1>9
        <4> QED BY <1>4, <1>9, <1>19, <1>21, <4>1, <4>2 DEF Kept
      <3> QED BY <1>11, <3>1, <3>2
    <2>3. \A t \in Snaps \ DOMAIN made' : up'[t] = "none" /\ sess'[t] = "none"
      BY <1>4, <1>5, <1>11 DEF LogInv
    <2> QED BY <2>1, <2>2, <2>3 DEF LogInv
  <1>23. Known(r)'
    <2>1. made'[s].ver - 1 = bind[d].ver BY <1>8, <1>9, <1>11
    <2>2. Asks("UPLOAD", d, s)' = [kind |-> "UPLOAD", dev |-> d, n |-> 0, epoch |-> bind[d].epoch,
                      fence |-> bind[d].lease, base |-> bind[d].ver, head |-> 0, snap |-> s]
      BY <1>9, <1>11, <2>1 DEF Asks
    <2>4. \A f : f = bind[d].lease => Owns(d, f)' BY <1>18, <1>20, OwnsStays
    <2>5. Owns(r.dev, r.fence)' BY <1>13, <2>4
    <2>6. r = Asks(r.kind, r.dev, r.snap)' BY <1>2, <1>13, <2>2
    <2> QED BY <1>4, <1>11, <1>13, <1>19, <2>5, <2>6 DEF Known, UpKinds, Kept
  <1>24. Anew(r) # None /\ Anew(r).req = r /\ ~Anew(r).done BY <1>12, AnewType
  <1>25. udd'[d] # None BY <1>7, NoneIsNew
  <1>26. /\ ops'[d][r.kind] # None /\ ops'[d][r.kind].req = r /\ ~ops'[d][r.kind].done
         /\ \A j \in Kinds \ {r.kind} : ops'[d][j] \in {ops[d][j], None}
    BY <1>13, <1>14, <1>24
  <1>27. \A e \in Devices \ {d} : ops'[e] = ops[e] /\ udd'[e] = udd[e] /\ tries'[e] = tries[e]
    BY <1>4, <1>7, <1>14
  <1> QED
    BY <1>4, <1>12, <1>13, <1>17, <1>18, <1>22, <1>23, <1>25, <1>26, <1>27, SendStep DEF UpKinds

----------------------------------------------------------------------------
(* The server.                                                              *)

LEMMA ServerStep ==
    ASSUME Base, TypeOK', Grows, LogInv', LedgerInv',
           UNCHANGED <<made, bind, ops, sess, swap, udd, staging, tries>>, net' \subseteq net,
           \A x \in DOMAIN ledger' : x \in DOMAIN ledger \cup net,
           \A e \in Devices : loc'[e] = loc[e] \/ DeviceOK(e)'
    PROVE  Base'
  <1>1. TypeOK /\ WireInv /\ \A e \in Devices : DeviceOK(e) BY DEF Base
  <1>2. WireInv'
    <2> SUFFICES ASSUME NEW x \in net' \cup DOMAIN ledger' PROVE Known(x)' BY DEF WireInv
    <2>1. x \in Request /\ Known(x) BY <1>1 DEF WireInv, TypeOK
    <2> QED BY <1>1, <2>1, KnownStays
  <1>3. ASSUME NEW e \in Devices PROVE DeviceOK(e)'
    <2>1. CASE loc'[e] = loc[e] BY <1>1, <2>1, DeviceStays
    <2> QED BY <2>1
  <1> QED BY <1>2, <1>3 DEF Base

\* A reply changes at most the answer of the command that waits for it.
LEMMA Delivered ==
    ASSUME TypeOK, NEW r \in Request, NEW a \in Reply, Deliver(r, a)
    PROVE  /\ loc' \in [Devices -> Local]
           /\ \A e \in Devices :
                /\ loc'[e].pc = loc[e].pc /\ loc'[e].req = loc[e].req /\ loc'[e].got = loc[e].got
                /\ loc'[e].super = loc[e].super
                /\ \/ loc'[e] = loc[e]
                   \/ e = r.dev /\ loc[e].req = r /\ loc[e].ans = None /\ loc'[e].ans = a
  <1>1. loc \in [Devices -> Local] BY DEF TypeOK
  <1>2. r.dev \in Devices BY DEF Request
  <1>3. CASE loc' = loc BY <1>1, <1>3
  <1>4. CASE loc[r.dev].req = r /\ loc[r.dev].ans = None /\ loc' = [loc EXCEPT ![r.dev].ans = a]
    <2>1. PICK d \in Devices : d = r.dev BY <1>2
    <2>2. loc[d] \in Local BY <1>1
    <2>3. PICK x : x = [loc[d] EXCEPT !.ans = a] OBVIOUS
    <2>4. x \in Local BY <2>2, <2>3 DEF Local
    <2>5. x.pc = loc[d].pc /\ x.req = loc[d].req /\ x.got = loc[d].got /\ x.ans = a
      BY <2>2, <2>3 DEF Local
    <2>6. x.super = loc[d].super BY <2>2, <2>3 DEF Local
    <2>7. loc' = [loc EXCEPT ![d] = x] BY <1>4, <2>1, <2>3
    <2>8. loc' \in [Devices -> Local] /\ loc'[d] = x /\ \A e \in Devices \ {d} : loc'[e] = loc[e]
      BY <2>4, <2>7, SetLoc
    <2>9. ASSUME NEW e \in Devices
          PROVE  /\ loc'[e].pc = loc[e].pc /\ loc'[e].req = loc[e].req /\ loc'[e].got = loc[e].got
                 /\ loc'[e].super = loc[e].super
                 /\ \/ loc'[e] = loc[e]
                    \/ e = r.dev /\ loc[e].req = r /\ loc[e].ans = None /\ loc'[e].ans = a
      <3>1. CASE e = d BY <1>4, <2>1, <2>5, <2>6, <2>8, <3>1
      <3>2. CASE e # d BY <2>8, <3>2
      <3> QED BY <3>1, <3>2
    <2> QED BY <2>8, <2>9
  <1> QED BY <1>3, <1>4 DEF Deliver

LEMMA DeliverDevice ==
    ASSUME TypeOK, TypeOK', Grows, NEW r \in Request, NEW a \in Reply, Deliver(r, a),
           UNCHANGED <<made, bind, ops, swap, udd, staging, tries>>,
           a.ok => r \in DOMAIN ledger' /\ a.val = ledger'[r],
           NEW e \in Devices, DeviceOK(e), loc'[e] # loc[e]
    PROVE  DeviceOK(e)'
  <1>1. /\ loc'[e].pc = loc[e].pc /\ loc'[e].req = loc[e].req /\ loc'[e].got = loc[e].got
        /\ loc'[e].super = loc[e].super
        /\ e = r.dev /\ loc[e].req = r /\ loc[e].ans = None /\ loc'[e].ans = a
    BY Delivered
  <1>2. BindOK(e) /\ OpsOK(e) /\ LocOK(e) /\ DirOK(e) BY DEF DeviceOK
  <1>3. r # None BY NoneIsNew
  <1>4. loc[e].pc # "idle" BY <1>1, <1>2, <1>3 DEF LocOK, Idle, Holding
  <1>5. \A x \in Request : Known(x) => Known(x)' BY KnownStays
  <1>6. \A f : Owns(e, f) => Owns(e, f)' BY OwnsStays
  <1>7. BindOK(e)'
    <2>1. bind[e] # None => bind[e].epoch \in Nat BY RowTypes
    <2>2. bind[e] # None /\ RowOK(bind[e]) => RowOK(bind[e])'
      <3>1. epoch \in Nat /\ epoch' \in Nat BY DEF TypeOK
      <3> QED BY <2>1, <3>1 DEF RowOK, Grows
    <2> QED BY <1>1, <1>2, <1>6, <2>2 DEF BindOK, Pending, Live
  <1>8. OpsOK(e)'
    <2>1. \A k \in Kinds : Kept1(e, k) BY DEF Kept1
    <2> QED BY <1>2, <2>1, OpsStay
  <1>9. LocOK(e)'
    <2>1. loc[e].pc = "wait" => WaitOK(e)'
      <3> SUFFICES ASSUME loc[e].pc = "wait" PROVE WaitOK(e)' OBVIOUS
      <3>1. WaitOK(e) BY <1>2 DEF LocOK
      <3>2. loc'[e].ans.ok => loc'[e].req \in DOMAIN ledger' /\ loc'[e].ans.val = ledger'[loc'[e].req]
        BY <1>1
      <3> QED BY <1>1, <3>1, <3>2 DEF WaitOK, Pending, Live
    <2>2. Known(loc[e].req)'
      <3>1. Known(r) BY <1>1, <1>2, <1>3 DEF LocOK
      <3>2. \A x : x = r => Known(x)' BY <1>5, <3>1
      <3> QED BY <1>1, <3>2
    <2>3. loc'[e].req.dev = e BY <1>1
    <2>4. Owns(e, loc[e].got) => Owns(e, loc[e].got)' BY <1>1, <1>6
    <2> QED BY <1>1, <1>2, <1>4, <2>1, <2>2, <2>3, <2>4 DEF LocOK
  <1>10. DirOK(e)' BY <1>1, <1>2 DEF DirOK
  <1> QED BY <1>7, <1>8, <1>9, <1>10 DEF DeviceOK

LEMMA Stored ==
    ASSUME NEW r, NEW val, Store(r, val)
    PROVE  /\ DOMAIN ledger' = DOMAIN ledger \cup {r} /\ ledger'[r] = val
           /\ \A x \in DOMAIN ledger : x # r => ledger'[x] = ledger[x]
  BY DEF Store

LEMMA ReplyType ==
    ASSUME NEW b \in BOOLEAN, NEW v \in Nat
    PROVE  /\ [ok |-> b, val |-> v] \in Reply /\ [ok |-> b, val |-> v].val = v
           /\ [ok |-> b, val |-> v].ok = b
  BY DEF Reply

\* What an accepted request stores and changes.
LEMMA EffectTypes ==
    ASSUME TypeOK, NEW r \in Request, r \notin DOMAIN ledger, Accepts(r), Effect(r),
           r.kind \in UpKinds => r.snap \in DOMAIN made
    PROVE  /\ DOMAIN ledger' = DOMAIN ledger \cup {r} /\ ledger'[r] \in Nat
           /\ \A x \in DOMAIN ledger : ledger'[x] = ledger[x]
           /\ fence' \in Nat /\ fence <= fence'
           /\ log' \in Seq(Snaps) /\ lease' \in LeaseRow \cup {None}
           /\ up' \in [Snaps -> {"none", "OPEN", "FULL", "READY", "COMMITTED"}]
           /\ \A s \in Snaps \ DOMAIN made : up'[s] = up[s]
  <1>1. /\ fence \in Nat /\ log \in Seq(Snaps) /\ lease \in LeaseRow \cup {None}
        /\ up \in [Snaps -> {"none", "OPEN", "FULL", "READY", "COMMITTED"}]
    BY DEF TypeOK
  <1>2. r.kind \in Kinds /\ r.dev \in Devices /\ r.fence \in Nat BY DEF Request
  <1>3. r.kind \in UpKinds => r.snap \in Snaps BY MadeType
  <1>4. PICK val : Store(r, val) /\ val \in {fence + 1, r.fence, Len(log) + 1}
    BY DEF Effect, DropLease, MoveUpload, AppendHead, Grant
  <1>5. /\ DOMAIN ledger' = DOMAIN ledger \cup {r} /\ ledger'[r] = val
        /\ \A x \in DOMAIN ledger : ledger'[x] = ledger[x]
    BY <1>4, Stored
  <1>6. val \in Nat BY <1>1, <1>2, <1>4
  <1>7. fence' \in Nat /\ fence <= fence' BY <1>1 DEF Effect, DropLease, MoveUpload, AppendHead, Grant
  <1>8. log' \in Seq(Snaps)
    <2>1. log' = log \/ (r.kind = "COMMIT" /\ log' = Append(log, r.snap))
      BY DEF Effect, DropLease, MoveUpload, AppendHead
    <2> QED BY <1>1, <1>3, <2>1 DEF UpKinds
  <1>9. lease' \in LeaseRow \cup {None}
    <2>1. \/ lease' \in {lease, None}
          \/ lease' = [dev |-> r.dev, fence |-> fence + 1, over |-> FALSE]
      BY DEF Effect, DropLease, MoveUpload, AppendHead, Grant
    <2>2. [dev |-> r.dev, fence |-> fence + 1, over |-> FALSE] \in LeaseRow
      BY <1>1, <1>2 DEF LeaseRow
    <2> QED BY <1>1, <2>1, <2>2
  <1>10. /\ up' \in [Snaps -> {"none", "OPEN", "FULL", "READY", "COMMITTED"}]
         /\ \A s \in Snaps \ DOMAIN made : up'[s] = up[s]
    <2>1. \/ up' = up
          \/ r.kind \in UpKinds /\ \E x \in {"OPEN", "READY", "COMMITTED"} : up' = [up EXCEPT ![r.snap] = x]
      BY DEF Effect, DropLease, MoveUpload, AppendHead, UpKinds
    <2> QED BY <1>1, <1>3, <2>1
  <1> QED BY <1>5, <1>6, <1>7, <1>8, <1>9, <1>10

LEMMA EffectLedger ==
    ASSUME TypeOK, LedgerInv, NEW r \in Request, r \notin DOMAIN ledger, Effect(r)
    PROVE  LedgerInv'
  <1>1. fence \in Nat /\ \A x \in DOMAIN ledger : ledger[x] \in Nat BY DEF TypeOK
  <1>2. CASE r.kind \in Grants /\ Grant(r)
    <2>1. /\ DOMAIN ledger' = DOMAIN ledger \cup {r} /\ ledger'[r] = fence + 1
          /\ \A x \in DOMAIN ledger : ledger'[x] = ledger[x]
          /\ fence' = fence + 1
          /\ lease' = [dev |-> r.dev, fence |-> fence + 1, over |-> FALSE]
      BY <1>2, Stored DEF Grant
    <2>2. \A g \in DOMAIN ledger' : g.kind \in Grants => ledger'[g] \in 1 .. fence'
      BY <1>1, <2>1 DEF LedgerInv
    <2>3. \A g, h \in DOMAIN ledger' :
            g.kind \in Grants /\ h.kind \in Grants /\ ledger'[g] = ledger'[h] => g = h
      BY <1>1, <2>1 DEF LedgerInv
    <2>4. \A x \in DOMAIN ledger' : x.kind = "COMMIT" => ledger'[x] # 0
      BY <1>2, <2>1 DEF LedgerInv, Grants
    <2>5. lease'.fence = fence' /\ lease'.dev = r.dev BY <2>1
    <2>6. Owns(lease.dev, lease.fence)' BY <1>2, <2>1, <2>5 DEF Owns
    <2> QED BY <2>2, <2>3, <2>4, <2>5, <2>6 DEF LedgerInv
  <1>3. CASE /\ r.kind \notin Grants /\ lease' \in {lease, None} /\ fence' = fence
             /\ \E val : Store(r, val) /\ (r.kind = "COMMIT" => val = Len(log) + 1)
    <2>1. PICK val : Store(r, val) /\ (r.kind = "COMMIT" => val = Len(log) + 1) BY <1>3
    <2>2. /\ DOMAIN ledger' = DOMAIN ledger \cup {r} /\ ledger'[r] = val
          /\ \A x \in DOMAIN ledger : ledger'[x] = ledger[x]
      BY <2>1, Stored
    <2>3. Len(log) + 1 # 0 BY DEF TypeOK
    <2>4. \A g \in DOMAIN ledger' : g.kind \in Grants => g \in DOMAIN ledger BY <1>3, <2>2
    <2>5. \A x \in DOMAIN ledger' : x.kind = "COMMIT" => ledger'[x] # 0
      BY <2>1, <2>2, <2>3 DEF LedgerInv
    <2>6. lease' # None => lease'.fence = fence' /\ Owns(lease.dev, lease.fence)'
      BY <1>3, <2>2 DEF LedgerInv, Owns
    <2> QED BY <1>3, <2>2, <2>4, <2>5, <2>6 DEF LedgerInv
  <1> QED BY <1>2, <1>3 DEF Effect, DropLease, MoveUpload, AppendHead, Grants

LEMMA EffectLog ==
    ASSUME TypeOK, LogInv, NEW r \in Request, Known(r), Accepts(r), Effect(r),
           fence' \in Nat, fence <= fence', UNCHANGED <<made, epoch, sess>>,
           \A s \in Snaps \ DOMAIN made : up'[s] = up[s]
    PROVE  LogInv'
  <1>1. log \in Seq(Snaps) /\ fence \in Nat BY DEF TypeOK
  <1>2. \A v \in DOMAIN log' : log'[v] \in DOMAIN made /\ made[log'[v]].ver = v
    <2>1. CASE log' = log BY <2>1 DEF LogInv
    <2>2. CASE r.kind = "COMMIT" /\ log' = Append(log, r.snap)
      <3>1. r.snap \in DOMAIN made /\ r = Asks(r.kind, r.dev, r.snap) BY <2>2 DEF Known, UpKinds
      <3>2. r.base = made[r.snap].ver - 1 BY <3>1 DEF Asks
      <3>3. r.base = Len(log) BY <2>2 DEF Accepts, AcceptsCommit
      <3>4. made[r.snap].ver = Len(log) + 1 BY <1>1, <3>1, <3>2, <3>3, MadeType
      <3>5. DOMAIN log' = DOMAIN log \cup {Len(log) + 1} /\ log'[Len(log) + 1] = r.snap
            /\ \A v \in DOMAIN log : log'[v] = log[v]
        BY <1>1, <2>2, <3>1, MadeType
      <3> QED BY <3>1, <3>4, <3>5 DEF LogInv
    <2> QED BY <2>1, <2>2 DEF Effect, DropLease, MoveUpload, AppendHead
  <1>3. \A s \in DOMAIN made : made[s].fence \in 1 .. fence'
    <2> SUFFICES ASSUME NEW s \in DOMAIN made PROVE made[s].fence \in 1 .. fence' OBVIOUS
    <2>1. made[s].fence \in 1 .. fence BY DEF LogInv
    <2> QED BY <1>1, <2>1
  <1> QED BY <1>2, <1>3 DEF LogInv

LEMMA ServeBase ==
    ASSUME Base, NEW r \in net, Serve(r) PROVE Base'
  <1>1. /\ UNCHANGED <<made, bind, ops, sess, swap, udd, staging, old, tries>> /\ net' \subseteq net
        /\ (Fault \/ UNCHANGED faults)
    BY DEF Serve, db, dirs
  <1>2. TypeOK /\ LogInv /\ LedgerInv /\ WireInv /\ \A e \in Devices : DeviceOK(e) BY DEF Base
  <1>3. r \in Request /\ Known(r) BY <1>2 DEF TypeOK, WireInv
  <1>4. faults' \in Nat BY <1>1, <1>2, FaultNat
  <1>5. net' \subseteq Request BY <1>1, <1>2 DEF TypeOK
  <1>6. ASSUME UNCHANGED server, NEW a \in Reply, Deliver(r, a),
               a.ok => r \in DOMAIN ledger /\ a.val = ledger[r]
        PROVE  Base'
    <2>1. Kept /\ up' = up BY <1>6 DEF server, Kept
    <2>2. loc' \in [Devices -> Local] BY <1>2, <1>3, <1>6, Delivered
    <2>3. TypeOK' BY <1>1, <1>2, <1>4, <1>5, <2>1, <2>2 DEF TypeOK, Kept
    <2>4. Grows /\ LogInv' BY <1>1, <1>2, <2>1, QuietGrows, LogStays
    <2>5. LedgerInv' BY <1>2, <2>1 DEF LedgerInv, Kept, Owns
    <2>6. a.ok => r \in DOMAIN ledger' /\ a.val = ledger'[r] BY <1>6, <2>1 DEF Kept
    <2>7. ASSUME NEW e \in Devices, loc'[e] # loc[e] PROVE DeviceOK(e)'
      BY <1>1, <1>2, <1>3, <1>6, <2>3, <2>4, <2>6, <2>7, DeliverDevice
    <2> QED BY <1>1, <2>1, <2>3, <2>4, <2>5, <2>7, ServerStep DEF Kept
  <1>7. CASE r \in DOMAIN ledger
    <2>1. PICK b \in BOOLEAN : b = Answers(r) BY DEF Answers
    <2>2. PICK v \in Nat : v = ledger[r] BY <1>2, <1>7 DEF TypeOK
    <2>3. PICK a : a = [ok |-> b, val |-> v] OBVIOUS
    <2>4. a \in Reply BY <2>3, ReplyType
    <2>5. a.val = v BY <2>3
    <2>6. [ok |-> Answers(r), val |-> ledger[r]] = a BY <2>1, <2>2, <2>3
    <2>7. Deliver(r, a) /\ UNCHANGED server BY <1>7, <2>6 DEF Serve
    <2> QED BY <1>6, <1>7, <2>2, <2>4, <2>5, <2>7
  <1>8. CASE r \notin DOMAIN ledger /\ ~Accepts(r)
    <2>1. PICK a : a = [ok |-> FALSE, val |-> 0] OBVIOUS
    <2>2. a \in Reply BY <2>1, ReplyType
    <2>3. ~a.ok BY <2>1
    <2>4. Deliver(r, a) /\ UNCHANGED server BY <1>8, <2>1 DEF Serve
    <2> QED BY <1>6, <2>2, <2>3, <2>4
  <1>9. CASE r \notin DOMAIN ledger /\ Accepts(r)
    <2>1. Effect(r) /\ Deliver(r, [ok |-> TRUE, val |-> ledger'[r]]) /\ UNCHANGED <<epoch, leaves>>
      BY <1>9 DEF Serve
    <2>2. r.kind \in UpKinds => r.snap \in DOMAIN made BY <1>3 DEF Known
    <2>3. /\ DOMAIN ledger' = DOMAIN ledger \cup {r} /\ ledger'[r] \in Nat
          /\ \A x \in DOMAIN ledger : ledger'[x] = ledger[x]
          /\ fence' \in Nat /\ fence <= fence'
          /\ log' \in Seq(Snaps) /\ lease' \in LeaseRow \cup {None}
          /\ up' \in [Snaps -> {"none", "OPEN", "FULL", "READY", "COMMITTED"}]
          /\ \A s \in Snaps \ DOMAIN made : up'[s] = up[s]
      BY <1>2, <1>3, <1>9, <2>1, <2>2, EffectTypes
    <2>4. PICK a : a = [ok |-> TRUE, val |-> ledger'[r]] OBVIOUS
    <2>5. a \in Reply BY <2>3, <2>4, ReplyType
    <2>6. a.val = ledger'[r] BY <2>4
    <2>7. Deliver(r, a) BY <2>1, <2>4
    <2>8. loc' \in [Devices -> Local] BY <1>2, <1>3, <2>5, <2>7, Delivered
    <2>9. TypeOK' BY <1>1, <1>2, <1>3, <1>4, <1>5, <2>1, <2>3, <2>8 DEF TypeOK
    <2>10. Grows BY <1>1, <1>2, <2>1, <2>3 DEF Grows, TypeOK
    <2>11. LedgerInv' BY <1>2, <1>3, <1>9, <2>1, EffectLedger
    <2>12. LogInv' BY <1>1, <1>2, <1>3, <1>9, <2>1, <2>3, EffectLog
    <2>13. ASSUME NEW e \in Devices, loc'[e] # loc[e] PROVE DeviceOK(e)'
      BY <1>1, <1>2, <1>3, <2>3, <2>5, <2>6, <2>7, <2>9, <2>10, <2>13, DeliverDevice
    <2> QED BY <1>1, <2>3, <2>9, <2>10, <2>11, <2>12, <2>13, ServerStep
  <1> QED BY <1>7, <1>8, <1>9

LEMMA ExpiredLease ==
    ASSUME TypeOK, lease # None, lease' = [lease EXCEPT !.over = TRUE]
    PROVE  /\ lease' \in LeaseRow /\ lease' # None /\ lease'.dev = lease.dev
           /\ lease'.fence = lease.fence /\ lease'.over = TRUE
  <1>1. lease \in LeaseRow BY DEF TypeOK
  <1>2. lease' \in LeaseRow BY <1>1 DEF LeaseRow
  <1>3. lease'.dev = lease.dev /\ lease'.fence = lease.fence /\ lease'.over = TRUE
    BY <1>1 DEF LeaseRow
  <1>4. lease' # None BY <1>2, NoneIsNew
  <1> QED BY <1>2, <1>3, <1>4

LEMMA ExpireBase ==
    ASSUME Base, Expire PROVE Base'
  <1>1. /\ UNCHANGED <<epoch, log, fence, up, ledger, leaves, made, bind, ops, sess, swap, udd,
                       staging, old, loc, tries, net, faults>>
        /\ lease # None /\ lease' = [lease EXCEPT !.over = TRUE]
    BY DEF Expire, db, dirs
  <1>2. TypeOK /\ LogInv /\ LedgerInv BY DEF Base
  <1>3. /\ lease' \in LeaseRow /\ lease' # None /\ lease'.dev = lease.dev
        /\ lease'.fence = lease.fence
    BY <1>1, <1>2, ExpiredLease
  <1>4. TypeOK' BY <1>1, <1>2, <1>3 DEF TypeOK
  <1>5. Grows BY <1>1, <1>2 DEF Grows, TypeOK
  <1>6. LogInv' BY <1>1, <1>2 DEF LogInv
  <1>7. LedgerInv' BY <1>1, <1>2, <1>3 DEF LedgerInv, Owns
  <1> QED BY <1>1, <1>4, <1>5, <1>6, <1>7, ServerStep

LEMMA RestoredLog ==
    ASSUME TypeOK, NEW keep \in DOMAIN log, log' = SubSeq(log, 1, keep)
    PROVE  /\ log' \in Seq(Snaps) /\ keep \in Nat /\ keep >= 1 /\ keep <= Len(log)
           /\ Len(log') = keep /\ DOMAIN log' = 1 .. keep
           /\ \A v \in 1 .. keep : v \in DOMAIN log /\ log'[v] = log[v]
  <1>1. log \in Seq(Snaps) BY DEF TypeOK
  <1>2. keep \in Nat /\ keep >= 1 /\ keep <= Len(log) /\ Len(log) \in Nat BY <1>1, SeqElement
  <1> QED BY <1>1, <1>2

LEMMA RestoreBase ==
    ASSUME Base, NEW keep \in DOMAIN log, ServerRestore(keep) PROVE Base'
  <1>1. /\ UNCHANGED <<fence, ledger, made, bind, ops, sess, swap, udd, staging, old, loc, tries, net>>
        /\ Fault /\ epoch' = epoch + 1 /\ lease' = None /\ log' = SubSeq(log, 1, keep)
        /\ leaves' = Append(leaves, [old |-> HeadSnap, new |-> log[keep]])
        /\ up' = [s \in Snaps |-> IF \E v \in 1 .. keep : log[v] = s THEN up[s] ELSE "none"]
    BY DEF ServerRestore, db, dirs
  <1>2. TypeOK /\ LogInv /\ LedgerInv BY DEF Base
  <1>3. /\ log' \in Seq(Snaps) /\ DOMAIN log' = 1 .. keep
        /\ \A v \in 1 .. keep : v \in DOMAIN log /\ log'[v] = log[v]
    BY <1>1, <1>2, RestoredLog
  <1>4. HeadSnap \in Snaps /\ log[keep] \in Snaps
    <2>1. log # <<>> BY <1>2
    <2> QED BY <1>2, <2>1, HeadLogged, LogType
  <1>5. leaves' \in Seq([old : Snaps, new : Snaps]) /\ Len(leaves') = epoch'
    <2>1. leaves \in Seq([old : Snaps, new : Snaps]) /\ Len(leaves) = epoch BY <1>2 DEF TypeOK
    <2>2. [old |-> HeadSnap, new |-> log[keep]] \in [old : Snaps, new : Snaps] BY <1>4
    <2> QED BY <1>1, <2>1, <2>2
  <1>6. faults' \in Nat BY <1>1, <1>2, FaultNat
  <1>7. up' \in [Snaps -> {"none", "OPEN", "FULL", "READY", "COMMITTED"}] BY <1>1, <1>2 DEF TypeOK
  <1>8. epoch' \in Nat BY <1>1, <1>2 DEF TypeOK
  <1>9. TypeOK' BY <1>1, <1>2, <1>3, <1>5, <1>6, <1>7, <1>8 DEF TypeOK
  <1>10. Grows BY <1>1, <1>2 DEF Grows, TypeOK
  <1>11. LogInv'
    <2>1. \A v \in DOMAIN log' : log'[v] \in DOMAIN made' /\ made'[log'[v]].ver = v
      BY <1>1, <1>2, <1>3 DEF LogInv
    <2>2. \A s \in DOMAIN made' :
            made'[s].fence \in 1 .. fence' /\ made'[s].epoch <= epoch' /\ made'[s].ver >= 1
      <3> SUFFICES ASSUME NEW s \in DOMAIN made
                   PROVE made[s].fence \in 1 .. fence /\ made[s].epoch <= epoch' /\ made[s].ver >= 1
        BY <1>1
      <3>1. made[s].epoch \in Nat /\ epoch \in Nat BY <1>2, MadeType DEF TypeOK
      <3> QED BY <1>1, <1>2, <3>1 DEF LogInv
    <2>3. \A s \in Snaps \ DOMAIN made' : up'[s] = "none" /\ sess'[s] = "none"
      BY <1>1, <1>2 DEF LogInv
    <2> QED BY <2>1, <2>2, <2>3 DEF LogInv
  <1>12. LedgerInv' BY <1>1, <1>2 DEF LedgerInv, Owns
  <1> QED BY <1>1, <1>9, <1>10, <1>11, <1>12, ServerStep

----------------------------------------------------------------------------

LEMMA InitBase == Init => Base
  <1> SUFFICES ASSUME Init PROVE Base OBVIOUS
  <1>1. TypeOK
    <2>1. loc \in [Devices -> Local] BY IdleLocal DEF Init
    <2>2. /\ up \in [Snaps -> {"none", "OPEN", "FULL", "READY", "COMMITTED"}]
          /\ sess \in [Snaps -> {"none", "OPEN", "READY", "COMMITTED", "ABORTED"}]
          /\ bind \in [Devices -> Binding \cup {None}] /\ swap \subseteq Devices
          /\ ops \in [Devices -> [Kinds -> Operation \cup {None}]]
      BY DEF Init, NoOps
    <2>3. /\ udd \in [Devices -> Data \cup {None}] /\ old \in [Devices -> Data \cup {None}]
          /\ staging \in [Devices -> Data \cup {Partial, None}]
          /\ tries \in [Devices -> Nat] /\ net \subseteq Request /\ faults \in Nat
      BY DEF Init, Data
    <2>4. /\ epoch \in Nat /\ fence \in Nat /\ log \in Seq(Snaps) /\ lease = None
          /\ leaves \in Seq([old : Snaps, new : Snaps]) /\ Len(leaves) = epoch
          /\ made \in Seq([data : Data, epoch : Nat, fence : Nat, ver : Nat]) /\ Len(made) <= MaxSnap
      BY BoundsOK DEF Init
    <2>5. DOMAIN ledger = {} BY DEF Init
    <2> QED BY <2>1, <2>2, <2>3, <2>4, <2>5 DEF TypeOK
  <1>2. DOMAIN log = {} /\ DOMAIN made = {} /\ DOMAIN ledger = {} /\ net = {} /\ lease = None BY DEF Init
  <1>3. LogInv BY <1>2 DEF LogInv, Init
  <1>4. LedgerInv BY <1>2 DEF LedgerInv
  <1>5. WireInv BY <1>2 DEF WireInv
  <1>6. ASSUME NEW d \in Devices PROVE DeviceOK(d)
    <2>1. bind[d] = None /\ d \notin swap /\ loc[d] = Idle /\ udd[d] = {} BY DEF Init
    <2>2. \A k \in Kinds : ops[d][k] = None BY DEF Init, NoOps
    <2>3. loc[d].pc = "idle" /\ loc[d].req = None BY <2>1 DEF Idle, Holding
    <2>4. ~loc[d].super BY <2>1 DEF Idle, Holding
    <2>5. BindOK(d) BY <2>1, <2>2, <2>3, <2>4 DEF BindOK, Live, Kinds
    <2>6. OpsOK(d) BY <2>2 DEF OpsOK, Live, Kinds
    <2>7. LocOK(d) BY <2>1, <2>3 DEF LocOK
    <2>8. {} # None
      <3>1. {} \in Data BY DEF Data
      <3> QED BY <3>1, NoneIsNew
    <2>9. DirOK(d) BY <2>1, <2>3, <2>8 DEF DirOK
    <2> QED BY <2>5, <2>6, <2>7, <2>9 DEF DeviceOK
  <1> QED BY <1>1, <1>3, <1>4, <1>5, <1>6 DEF Base

LEMMA StutterBase == ASSUME Base, UNCHANGED vars PROVE Base'
  <1>1. /\ Kept /\ UNCHANGED <<up, made, bind, ops, sess, swap, udd, staging, old, loc, tries, net, faults>>
    BY DEF vars, server, db, dirs, Kept
  <1>2. TypeOK /\ LogInv /\ LedgerInv BY DEF Base
  <1>3. TypeOK' BY <1>1, <1>2 DEF TypeOK, Kept
  <1>4. Grows /\ LogInv' BY <1>1, <1>2, QuietGrows, LogStays
  <1>5. LedgerInv' BY <1>1, <1>2 DEF LedgerInv, Kept, Owns
  <1> QED BY <1>1, <1>3, <1>4, <1>5, ServerStep DEF Kept

LEMMA StepBase == ASSUME Base, [Next]_vars PROVE Base'
  <1>1. ASSUME NEW d \in Devices, PushStep(d) PROVE Base'
    <2>1. CASE Settle(d) BY <2>1, SettleBase
    <2>2. CASE Published(d) BY <2>2, PublishedBase
    <2>3. CASE FailUpload(d) BY <2>3, FailUploadBase
    <2>4. CASE Abandon(d) BY <2>4, AbandonBase
    <2>5. CASE ReleaseRefused(d) BY <2>5, ReleaseRefusedBase
    <2>6. CASE Drop(d) BY <2>6, DropBase
    <2>7. CASE ListedQuarantines(d) BY <2>7, ListedQuarantinesBase
    <2>8. CASE AwaitRelease(d) BY <2>8, AwaitReleaseBase
    <2>9. CASE AcceptTransitions(d) BY <2>9, AcceptTransitionsBase
    <2>10. CASE ReplayRelease(d) \/ ReplayCheckout(d) \/ CreateUpload(d) \/ ResendFinalize(d) \/ Commit(d)
      BY <2>10, ResendsBase
    <2>11. CASE Checkout(d) BY <2>11, CheckoutBase
    <2>12. CASE CheckedOut(d) BY <2>12, CheckedOutBase
    <2>13. CASE SealSnapshot(d) BY <2>13, SealSnapshotBase
    <2>14. CASE SealRefused(d) BY <2>14, SealRefusedBase
    <2>15. CASE UploadCreated(d) \/ Finalized(d) \/ CommitReplied(d) BY <2>15, RepliesBase
    <2>16. CASE PrepareCommit(d) BY <2>16, PrepareCommitBase
    <2>17. CASE Transfer(d) BY <2>17, TransferBase
    <2>18. CASE Finalize(d) BY <2>18, FinalizeBase
    <2>19. CASE Finish(d) BY <2>19, FinishBase
    <2>20. CASE PullFetch(d) BY <2>20, PullFetchBase
    <2>21. CASE PullFails(d) BY <2>21, PullFailsBase
    <2>22. CASE Pin(d) BY <2>22, PinBase
    <2> QED
      BY <1>1, <2>1, <2>2, <2>3, <2>4, <2>5, <2>6, <2>7, <2>8, <2>9, <2>10, <2>11, <2>12, <2>13,
         <2>14, <2>15, <2>16, <2>17, <2>18, <2>19, <2>20, <2>21, <2>22
      DEF PushStep
  <1>2. ASSUME NEW d \in Devices,
               \/ StorePublish(d) \/ SendPublish(d) \/ CancelPublish(d)
               \/ Join(d) \/ PullBegin(d) \/ Unbind(d) \/ Crash(d) \/ Lose(d)
        PROVE  Base'
    BY <1>2, StorePublishBase, ResendsBase, CancelPublishBase, JoinBase, PullBeginBase, UnbindBase,
       CrashBase, LoseBase
  <1>3. ASSUME NEW r \in net, Serve(r) PROVE Base' BY <1>3, ServeBase
  <1>4. CASE Expire BY <1>4, ExpireBase
  <1>5. ASSUME NEW keep \in DOMAIN log, ServerRestore(keep) PROVE Base' BY <1>5, RestoreBase
  <1>6. CASE UNCHANGED vars BY <1>6, StutterBase
  <1> QED BY <1>1, <1>2, <1>3, <1>4, <1>5, <1>6 DEF Next

----------------------------------------------------------------------------
(* The second part: steps that take no lease, seal nothing and move no pin. *)

QuietRow(e) ==
    /\ bind'[e] # None =>
         \/ bind'[e].lease = 0 /\ bind'[e].head = 0
         \/ /\ bind[e] # None
            /\ bind'[e].ver = bind[e].ver /\ bind'[e].base = bind[e].base
            /\ bind'[e].head = bind[e].head /\ bind'[e].epoch = bind[e].epoch
            /\ bind'[e].lease \in {bind[e].lease, 0}
    /\ bind'[e] # None /\ bind'[e].lease # 0 => udd'[e] = udd[e]
    /\ DataOf(e)' = DataOf(e)

QuietOps(e) ==
    \A k \in Grants : Pending(e, k)' =>
      \/ ops'[e][k].req \notin DOMAIN ledger
      \/ Pending(e, k) /\ ops'[e][k].req = ops[e][k].req

LEMMA GrantFence ==
    ASSUME Base, NEW g \in DOMAIN ledger, g.kind \in Grants
    PROVE  ledger[g] \in 1 .. fence /\ ledger[g] # 0
  BY DEF Base, LedgerInv, TypeOK

LEMMA LeaseFence ==
    ASSUME Base, lease # None
    PROVE  lease.fence \in 1 .. fence /\ lease.fence # 0 /\ lease.fence = fence
  <1>1. TypeOK /\ LedgerInv BY DEF Base
  <1>2. Owns(lease.dev, lease.fence) /\ lease.fence = fence BY <1>1 DEF LedgerInv
  <1>3. lease.fence \in 1 .. fence BY <1>1, <1>2, OwnerUnique
  <1>4. fence \in Nat BY <1>1 DEF TypeOK
  <1> QED BY <1>2, <1>3, <1>4

LEMMA SealFence ==
    ASSUME Base, NEW s \in DOMAIN made
    PROVE  made[s].fence \in 1 .. fence /\ made[s].fence # 0
  BY DEF Base, LogInv, TypeOK

LEMMA RowFence ==
    ASSUME Base, NEW d \in Devices, bind[d] # None, bind[d].lease # 0
    PROVE  bind[d].lease \in 1 .. fence /\ Owns(d, bind[d].lease)
  <1>1. TypeOK /\ LedgerInv /\ BindOK(d) BY RowBefore DEF Base
  <1>2. Owns(d, bind[d].lease) BY <1>1 DEF BindOK
  <1> QED BY <1>1, <1>2, OwnerUnique

LEMMA QuietData ==
    ASSUME Base, DataInv, UNCHANGED <<epoch, log, ledger, leaves, made>>,
           lease' # None => lease # None /\ lease'.fence = lease.fence,
           \A e \in Devices : QuietRow(e) /\ QuietOps(e)
    PROVE  DataInv'
  <1>1. HeadSnap' = HeadSnap BY DEF HeadSnap
  <1>2. GrantInv'
    <2>1. \A g \in DOMAIN ledger' :
            g.kind \in Grants /\ lease' # None /\ lease'.fence = ledger'[g] =>
              Len(log') = g.base /\ HeadSnap' = g.head
      BY <1>1 DEF DataInv, GrantInv
    <2>2. ASSUME NEW d \in Devices, NEW k \in Grants, Pending(d, k)', ops'[d][k].req \in DOMAIN ledger'
          PROVE  Fresh(ledger[ops[d][k].req])'
      <3>1. PICK g : g = ops'[d][k].req OBVIOUS
      <3>2. Pending(d, k) /\ g = ops[d][k].req /\ g \in DOMAIN ledger
        BY <2>2, <3>1 DEF QuietOps
      <3>3. Fresh(ledger[g]) BY <3>2 DEF DataInv, GrantInv
      <3>4. g.kind \in Grants
        <4>1. OpsOK(d) BY RowBefore
        <4> QED BY <3>2, <4>1 DEF OpsOK, Pending, Grants, Kinds
      <3>5. ledger[g] # 0 BY <3>2, <3>4, GrantFence
      <3>6. PICK f : f = ledger[g] OBVIOUS
      <3>7. Fresh(f) /\ f # 0 BY <3>3, <3>5, <3>6
      <3>8. \A s \in DOMAIN made' : made'[s].fence # f BY <3>7 DEF Fresh
      <3>9. \A e \in Devices : bind'[e] # None => bind'[e].lease # f BY <3>7 DEF Fresh, QuietRow
      <3>10. Fresh(f)' BY <3>8, <3>9 DEF Fresh
      <3>11. ledger'[ops'[d][k].req] = f BY <3>1, <3>6
      <3> QED BY <3>10, <3>11
    <2> QED BY <2>1, <2>2 DEF GrantInv
  <1>3. ASSUME NEW d \in Devices PROVE HoldOK(d)'
    <2> SUFFICES ASSUME bind'[d] # None, lease' # None, bind'[d].lease = lease'.fence
                 PROVE bind'[d].head = HeadSnap' /\ bind'[d].ver = Len(log') /\ bind'[d].base >= bind'[d].ver
      BY DEF HoldOK
    <2>1. bind'[d].lease # 0 BY LeaseFence
    <2>2. QuietRow(d) OBVIOUS
    <2>3. /\ bind[d] # None /\ bind'[d].ver = bind[d].ver /\ bind'[d].base = bind[d].base
          /\ bind'[d].head = bind[d].head /\ bind'[d].lease = bind[d].lease
      BY <2>1, <2>2 DEF QuietRow
    <2>4. HoldOK(d) BY DEF DataInv, HoldInv
    <2> QED BY <1>1, <2>3, <2>4 DEF HoldOK
  <1>4. SealInv' BY <1>1 DEF DataInv, SealInv
  <1>5. ASSUME NEW d \in Devices PROVE SealedOK(d)'
    <2> SUFFICES ASSUME NEW s \in DOMAIN made, bind'[d] # None, made[s].fence = bind'[d].lease
                 PROVE made[s].data \subseteq udd'[d] /\ made[s].epoch = bind'[d].epoch
      BY DEF SealedOK
    <2>1. bind'[d].lease # 0 BY SealFence
    <2>2. QuietRow(d) OBVIOUS
    <2>3. /\ bind[d] # None /\ bind'[d].epoch = bind[d].epoch /\ bind'[d].lease = bind[d].lease
          /\ udd'[d] = udd[d]
      BY <2>1, <2>2 DEF QuietRow
    <2>4. SealedOK(d) BY DEF DataInv, SealedInv
    <2> QED BY <2>3, <2>4 DEF SealedOK
  <1>6. ASSUME NEW d \in Devices PROVE HeadOK(d)'
    <2> SUFFICES ASSUME bind'[d] # None, bind'[d].head # 0, bind'[d].base >= bind'[d].ver
                 PROVE made[bind'[d].head].data \subseteq DataOf(d)'
      BY DEF HeadOK
    <2>1. QuietRow(d) OBVIOUS
    <2>2. HeadOK(d) BY DEF DataInv, HeadInv
    <2> QED BY <2>1, <2>2 DEF QuietRow, HeadOK
  <1>7. HistoryInv' BY DEF DataInv, HistoryInv, Committed
  <1> QED BY <1>2, <1>3, <1>4, <1>5, <1>6, <1>7 DEF DataInv, HoldInv, SealedInv, HeadInv

\* Only the operations of one device change, and no grant is asked for.
LEMMA OpsData ==
    ASSUME Base, DataInv, Kept, UNCHANGED <<made, bind, swap, udd, staging>>,
           \A e \in Devices, k \in Grants :
             ops'[e][k] = ops[e][k] \/ ops'[e][k] = None \/ ops'[e][k].done = TRUE
    PROVE  DataInv'
  <1>1. ASSUME NEW e \in Devices PROVE QuietRow(e) /\ QuietOps(e)
    BY <1>1 DEF QuietRow, QuietOps, DataOf, Pending, Live
  <1> QED BY <1>1, QuietData DEF Kept

LEMMA OtherOps ==
    ASSUME TypeOK, NEW d \in Devices, NEW j \in Kinds, NEW x, ops' = [ops EXCEPT ![d][j] = x]
    PROVE  \A e \in Devices, k \in Kinds : e # d \/ k # j => ops'[e][k] = ops[e][k]
  <1>1. ops \in [Devices -> [Kinds -> Operation \cup {None}]] BY DEF TypeOK
  <1> QED BY <1>1

LEMMA GrantOps ==
    ASSUME TypeOK, NEW d \in Devices, NEW j \in Kinds \ Grants, NEW x,
           ops' = [ops EXCEPT ![d][j] = x]
    PROVE  \A e \in Devices, k \in Grants : ops'[e][k] = ops[e][k]
  <1>1. \A k \in Grants : k \in Kinds /\ k # j BY DEF Grants, Kinds
  <1> QED BY <1>1, OtherOps

\* Steps that only send, answer or move on.
LEMMA SendsData ==
    ASSUME Base, DataInv, NEW d \in Devices,
           \/ SendPublish(d) \/ ReplayRelease(d) \/ ReplayCheckout(d) \/ CreateUpload(d)
           \/ ResendFinalize(d) \/ Commit(d) \/ Crash(d) \/ SealRefused(d) \/ Transfer(d)
    PROVE  DataInv'
  <1>1. Kept /\ UNCHANGED <<made, bind, ops, swap, udd, staging>>
    BY DEF SendPublish, ReplayRelease, ReplayCheckout, CreateUpload, ResendFinalize, Commit, Crash,
           SealRefused, Transfer, Resend, server, db, dirs, Kept
  <1> QED BY <1>1, OpsData

LEMMA StoresData ==
    ASSUME Base, DataInv, NEW d \in Devices,
           Abandon(d) \/ AwaitRelease(d) \/ ReleaseRefused(d) \/ Finalize(d) \/ PrepareCommit(d)
    PROVE  DataInv'
  <1>1. TypeOK BY DEF Base
  <1>2. Kept /\ UNCHANGED <<made, bind, swap, udd, staging>>
    BY DEF Abandon, AwaitRelease, ReleaseRefused, Finalize, PrepareCommit, server, dirs, Kept
  <1>3. \E j \in {"RELEASE", "FINALIZE", "COMMIT"} : \E x : ops' = [ops EXCEPT ![d][j] = x]
    BY DEF Abandon, AwaitRelease, ReleaseRefused, Finalize, PrepareCommit
  <1>4. PICK j \in Kinds \ Grants : \E x : ops' = [ops EXCEPT ![d][j] = x]
    BY <1>3 DEF Kinds, Grants
  <1>5. PICK x : ops' = [ops EXCEPT ![d][j] = x] BY <1>4
  <1>6. \A e \in Devices, k \in Grants : ops'[e][k] = ops[e][k] BY <1>1, <1>5, GrantOps
  <1> QED BY <1>2, <1>6, OpsData

LEMMA RepliesData ==
    ASSUME Base, DataInv, NEW d \in Devices, UploadCreated(d) \/ Finalized(d) \/ CommitReplied(d)
    PROVE  DataInv'
  <1>1. TypeOK BY DEF Base
  <1>2. PICK j \in Kinds \ Grants, next \in {"failed", "abandon"} : Replied(d, j, next)
    BY DEF UploadCreated, Finalized, CommitReplied, Kinds, Grants
  <1>3. Kept /\ UNCHANGED <<made, bind, swap, udd, staging>> BY <1>2 DEF Replied, server, dirs, Kept
  <1>4. \E x : ops' = [ops EXCEPT ![d][j] = x] BY <1>2 DEF Replied
  <1>5. PICK x : ops' = [ops EXCEPT ![d][j] = x] BY <1>4
  <1>6. \A e \in Devices, k \in Grants : ops'[e][k] = ops[e][k] BY <1>1, <1>5, GrantOps
  <1> QED BY <1>3, <1>6, OpsData

LEMMA FailUploadData ==
    ASSUME Base, DataInv, NEW d \in Devices, FailUpload(d) PROVE DataInv'
  <1>1. Kept /\ UNCHANGED <<made, bind, ops, swap, udd, staging>>
    BY DEF FailUpload, server, dirs, Kept
  <1> QED BY <1>1, OpsData

LEMMA CancelPublishData ==
    ASSUME Base, DataInv, NEW d \in Devices, CancelPublish(d) PROVE DataInv'
  <1>1. TypeOK BY DEF Base
  <1>2. /\ Kept /\ UNCHANGED <<made, bind, swap, udd, staging>> /\ ops[d]["PUBLISH"] # None
        /\ ops' = [ops EXCEPT ![d]["PUBLISH"] = Done(ops[d]["PUBLISH"])]
    BY DEF CancelPublish, Pending, Live, server, dirs, Kept
  <1>3. /\ ops'[d]["PUBLISH"].done = TRUE
        /\ \A j \in Kinds \ {"PUBLISH"} : ops'[d][j] = ops[d][j]
        /\ \A e \in Devices \ {d} : ops'[e] = ops[e]
    BY <1>1, <1>2, PublishDone
  <1>4. \A e \in Devices, k \in Grants : ops'[e][k] = ops[e][k] \/ ops'[e][k].done = TRUE
    BY <1>3 DEF Grants, Kinds
  <1> QED BY <1>2, <1>4, OpsData

\* A new request for a grant has no stored answer.
LEMMA StorePublishData ==
    ASSUME Base, DataInv, NEW d \in Devices, StorePublish(d) PROVE DataInv'
  <1>1. TypeOK /\ LedgerInv BY DEF Base
  <1>2. PICK r : r = Blank("PUBLISH", d, epoch) OBVIOUS
  <1>3. /\ Kept /\ UNCHANGED <<made, bind, swap, udd, staging>> /\ fence = 0
        /\ ops' = [ops EXCEPT ![d]["PUBLISH"] = Anew(r)]
    BY <1>2 DEF StorePublish, server, dirs, Kept
  <1>4. r \in Request /\ r.kind = "PUBLISH" BY <1>1, <1>2, BlankType DEF Kinds, TypeOK, Blank
  <1>5. r \notin DOMAIN ledger BY <1>1, <1>3, <1>4 DEF LedgerInv, Grants
  <1>6. PICK x : x = Anew(r) OBVIOUS
  <1>7. x \in Operation \cup {None} /\ x.req = r BY <1>4, <1>6, AnewType
  <1>8. ops' = [ops EXCEPT ![d]["PUBLISH"] = x] /\ "PUBLISH" \in Kinds BY <1>3, <1>6 DEF Kinds
  <1>9. /\ ops'[d]["PUBLISH"] = x /\ \A j \in Kinds \ {"PUBLISH"} : ops'[d][j] = ops[d][j]
        /\ \A e \in Devices \ {d} : ops'[e] = ops[e]
    BY ONLY d \in Devices, <1>1, <1>7, <1>8, SetOp, ZenonT(60)
  <1>10. ASSUME NEW e \in Devices PROVE QuietRow(e) /\ QuietOps(e)
    <2>1. QuietRow(e) BY <1>3 DEF QuietRow, DataOf
    <2>2. QuietOps(e) BY <1>5, <1>7, <1>9 DEF QuietOps, Pending, Live, Grants, Kinds
    <2> QED BY <2>1, <2>2
  <1> QED BY <1>3, <1>10, QuietData DEF Kept

LEMMA CheckoutData ==
    ASSUME Base, DataInv, NEW d \in Devices, Checkout(d) PROVE DataInv'
  <1>1. TypeOK /\ WireInv BY DEF Base
  <1>2. PICK r : r = [kind |-> "CHECKOUT", dev |-> d, n |-> tries[d] + 1, epoch |-> bind[d].epoch,
                      fence |-> 0, base |-> bind[d].ver, head |-> bind[d].head, snap |-> 0]
    OBVIOUS
  <1>3. /\ Kept /\ UNCHANGED <<made, bind, swap, udd, staging>> /\ bind[d] # None
        /\ ops' = [ops EXCEPT ![d]["CHECKOUT"] = Anew(r)]
    BY <1>2 DEF Checkout, Listed, Lists, Current, Bound, server, dirs, Kept
  <1>4. r \in Request /\ r.kind = "CHECKOUT" /\ r.dev = d /\ r.n = tries[d] + 1
    BY <1>1, <1>2, <1>3, RowTypes DEF Request, Kinds
  <1>5. r \notin DOMAIN ledger
    <2>1. tries[d] \in Nat BY <1>1, RowTypes
    <2> QED BY <1>1, <1>4, <2>1 DEF WireInv, Known
  <1>6. PICK x : x = Anew(r) OBVIOUS
  <1>7. x \in Operation \cup {None} /\ x.req = r BY <1>4, <1>6, AnewType
  <1>8. ops' = [ops EXCEPT ![d]["CHECKOUT"] = x] /\ "CHECKOUT" \in Kinds BY <1>3, <1>6 DEF Kinds
  <1>9. /\ ops'[d]["CHECKOUT"] = x /\ \A j \in Kinds \ {"CHECKOUT"} : ops'[d][j] = ops[d][j]
        /\ \A e \in Devices \ {d} : ops'[e] = ops[e]
    BY ONLY d \in Devices, <1>1, <1>7, <1>8, SetOp, ZenonT(60)
  <1>10. ASSUME NEW e \in Devices PROVE QuietRow(e) /\ QuietOps(e)
    <2>1. QuietRow(e) BY <1>3 DEF QuietRow, DataOf
    <2>2. QuietOps(e) BY <1>5, <1>7, <1>9 DEF QuietOps, Pending, Live, Grants, Kinds
    <2> QED BY <2>1, <2>2
  <1> QED BY <1>3, <1>10, QuietData DEF Kept

\* A quarantine keeps the pin.
LEMMA QuarantineData ==
    ASSUME Base, DataInv, NEW d \in Devices, bind[d] # None,
           NEW w \in {"", "transition", "rollback", "invalid"}, Quarantine(d, w),
           Kept, UNCHANGED <<made, ops, swap, udd, staging>>
    PROVE  DataInv'
  <1>1. TypeOK BY DEF Base
  <1>2. /\ bind'[d].ver = bind[d].ver /\ bind'[d].base = bind[d].base
        /\ bind'[d].head = bind[d].head /\ bind'[d].epoch = bind[d].epoch
        /\ bind'[d].lease = bind[d].lease
        /\ \A e \in Devices \ {d} : bind'[e] = bind[e]
    BY <1>1, Quarantined
  <1>3. ASSUME NEW e \in Devices PROVE QuietRow(e) /\ QuietOps(e)
    <2>1. QuietRow(e)
      <3>1. DataOf(e)' = DataOf(e) BY DEF DataOf
      <3>2. CASE e = d BY <1>2, <3>1, <3>2 DEF QuietRow
      <3>3. CASE e # d BY <1>2, <3>1, <3>3 DEF QuietRow
      <3> QED BY <3>2, <3>3
    <2>2. QuietOps(e) BY DEF QuietOps, Pending, Live
    <2> QED BY <2>1, <2>2
  <1> QED BY <1>3, QuietData DEF Kept

LEMMA LoseData ==
    ASSUME Base, DataInv, NEW d \in Devices, Lose(d) PROVE DataInv'
  <1>1. /\ Kept /\ UNCHANGED <<made, ops, swap, udd, staging>>
        /\ bind' = IF loc[d].super THEN [bind EXCEPT ![d].q = "transition"] ELSE bind
    BY DEF Lose, End, server, dirs, Kept
  <1>2. CASE ~loc[d].super
    <2>1. bind' = bind BY <1>1, <1>2
    <2> QED BY <1>1, <2>1, OpsData
  <1>3. CASE loc[d].super
    <2>1. BindOK(d) BY RowBefore
    <2>2. bind[d] # None BY <1>3, <2>1 DEF BindOK
    <2>3. Quarantine(d, "transition") BY <1>1, <1>3 DEF Quarantine
    <2> QED BY <1>1, <2>2, <2>3, QuarantineData
  <1> QED BY <1>2, <1>3

LEMMA ListedQuarantinesData ==
    ASSUME Base, DataInv, NEW d \in Devices, ListedQuarantines(d) PROVE DataInv'
  <1>1. PICK w : w = IF epoch > bind[d].epoch THEN "transition" ELSE "rollback" OBVIOUS
  <1>2. w \in {"", "transition", "rollback", "invalid"} BY <1>1
  <1>3. /\ Kept /\ UNCHANGED <<made, ops, swap, udd, staging>> /\ bind[d] # None /\ Quarantine(d, w)
    BY <1>1 DEF ListedQuarantines, Lists, Current, Bound, server, dirs, Kept
  <1> QED BY <1>2, <1>3, QuarantineData

LEMMA DropData ==
    ASSUME Base, DataInv, NEW d \in Devices, Drop(d) PROVE DataInv'
  <1>1. PICK f : f = loc[d].req.fence OBVIOUS
  <1>2. /\ Kept /\ UNCHANGED <<made, swap, udd, staging>> /\ Dropped(d, f)
        /\ bind' = [bind EXCEPT ![d] = Unleased(bind[d], f, loc[d].super)]
        /\ At(d, "drop") \/ Answered(d, "RELEASE")
    BY <1>1 DEF Drop, server, dirs, Kept
  <1>3. TypeOK /\ BindOK(d) /\ LocOK(d) BY RowBefore
  <1>4. loc[d].req \in Request /\ bind[d] # None
    <2>1. loc[d].req # None BY <1>2, <1>3, AnsweredFacts DEF At, LocOK
    <2>2. bind[d] # None BY <1>2, <1>3, AnsweredFacts DEF At, BindOK
    <2> QED BY <1>3, <2>1, <2>2, RowTypes
  <1>5. f \in Nat /\ bind[d] \in Binding /\ loc[d].super \in BOOLEAN
    BY <1>1, <1>3, <1>4, RowTypes DEF Request
  <1>6. PICK x : x = Unleased(bind[d], f, loc[d].super) OBVIOUS
  <1>7. /\ x \in Binding /\ x.ver = bind[d].ver /\ x.base = bind[d].base /\ x.head = bind[d].head
        /\ x.epoch = bind[d].epoch /\ x.lease \in {bind[d].lease, 0}
    BY <1>5, <1>6, UnleasedRow
  <1>8. bind'[d] = x /\ \A e \in Devices \ {d} : bind'[e] = bind[e]
    <2>1. bind' = [bind EXCEPT ![d] = x] BY <1>2, <1>6
    <2>2. x \in Binding \cup {None} BY <1>7
    <2> QED BY <1>3, <2>1, <2>2, SetBind
  <1>9. /\ \A k \in Kinds : ops'[d][k] = ops[d][k] \/ ops'[d][k] = None
        /\ \A e \in Devices \ {d} : ops'[e] = ops[e]
    BY <1>2, <1>3, DroppedRows
  <1>10. ASSUME NEW e \in Devices PROVE QuietRow(e) /\ QuietOps(e)
    <2>1. QuietRow(e)
      <3>1. DataOf(e)' = DataOf(e) BY <1>2 DEF DataOf
      <3>2. CASE e = d BY <1>2, <1>4, <1>7, <1>8, <3>1, <3>2 DEF QuietRow
      <3>3. CASE e # d BY <1>2, <1>8, <3>1, <3>3 DEF QuietRow
      <3> QED BY <3>2, <3>3
    <2>2. QuietOps(e) BY <1>9 DEF QuietOps, Pending, Live, Grants, Kinds
    <2> QED BY <2>1, <2>2
  <1> QED BY <1>2, <1>10, QuietData DEF Kept

----------------------------------------------------------------------------
(* What the steps that move a pin or take a lease write.                    *)

LEMMA NewRow ==
    ASSUME NEW e \in Nat, NEW f \in Nat
    PROVE  /\ NewBinding(e, f) \in Binding /\ NewBinding(e, f).ver = 0 /\ NewBinding(e, f).base = 0
           /\ NewBinding(e, f).head = 0 /\ NewBinding(e, f).epoch = e /\ NewBinding(e, f).lease = f
           /\ NewBinding(e, f).q = ""
  BY DEF NewBinding, Binding

LEMMA SetRow ==
    ASSUME TypeOK, NEW d \in Devices, NEW x \in Binding, bind' = [bind EXCEPT ![d] = x]
    PROVE  bind'[d] = x /\ x # None /\ \A e \in Devices \ {d} : bind'[e] = bind[e]
  <1>1. x \in Binding \cup {None} /\ x # None BY NoneIsNew
  <1> QED BY <1>1, SetBind

LEMMA JoinRow ==
    ASSUME Base, NEW d \in Devices, Join(d)
    PROVE  /\ bind[d] = None /\ bind'[d] # None
           /\ bind'[d].ver = 0 /\ bind'[d].base = 0 /\ bind'[d].head = 0
           /\ bind'[d].lease = 0 /\ bind'[d].q = "" /\ bind'[d].epoch = StartEpoch
           /\ \A e \in Devices \ {d} : bind'[e] = bind[e]
  <1>1. TypeOK BY DEF Base
  <1>2. PICK n \in Nat : n = StartEpoch
    <2>1. epoch \in Nat BY <1>1 DEF TypeOK
    <2> QED BY <2>1 DEF StartEpoch
  <1>3. PICK x : x = NewBinding(n, 0) OBVIOUS
  <1>4. /\ x \in Binding /\ x.ver = 0 /\ x.base = 0 /\ x.head = 0 /\ x.epoch = n /\ x.lease = 0
        /\ x.q = ""
    BY <1>3 DEF NewBinding, Binding
  <1>5. bind' = [bind EXCEPT ![d] = x] /\ bind[d] = None BY <1>2, <1>3 DEF Join, Free
  <1>6. bind'[d] = x /\ x # None /\ \A e \in Devices \ {d} : bind'[e] = bind[e]
    BY <1>1, <1>4, <1>5, SetRow
  <1> QED BY <1>2, <1>4, <1>5, <1>6

LEMMA PublishedRow ==
    ASSUME Base, NEW d \in Devices, Published(d)
    PROVE  /\ Answered(d, "PUBLISH") /\ bind[d] = None
           /\ ops'[d]["PUBLISH"] # None /\ ops'[d]["PUBLISH"].req = ops[d]["PUBLISH"].req
           /\ ops'[d]["PUBLISH"].done = TRUE
           /\ \A j \in Kinds \ {"PUBLISH"} : ops'[d][j] = ops[d][j]
           /\ \A e \in Devices \ {d} : /\ ops'[e] = ops[e] /\ bind'[e] = bind[e]
                                       /\ loc'[e] = loc[e]
           /\ \/ bind' = bind /\ loc'[d] = Idle
              \/ /\ loc[d].ans.ok /\ bind'[d] # None
                 /\ bind'[d].ver = 0 /\ bind'[d].base = 0 /\ bind'[d].head = 0 /\ bind'[d].q = ""
                 /\ bind'[d].epoch = loc[d].req.epoch
                 /\ \/ bind'[d].lease = loc[d].ans.val /\ loc'[d] = Idle
                    \/ /\ bind'[d].lease = 0 /\ loc'[d].pc = "abandon"
                       /\ loc'[d].got = loc[d].ans.val /\ loc'[d].req = None
                       /\ ~loc'[d].super
  <1>1. /\ Answered(d, "PUBLISH")
        /\ ops' = [ops EXCEPT ![d]["PUBLISH"] = Done(ops[d]["PUBLISH"])]
    BY DEF Published
  <1>2. /\ TypeOK /\ loc[d].req \in Request /\ ops[d]["PUBLISH"] # None
        /\ loc[d].ans.val \in Nat /\ bind[d] = None
    BY <1>1, AnsweredFacts
  <1>3. /\ ops'[d]["PUBLISH"] # None /\ ops'[d]["PUBLISH"].req = ops[d]["PUBLISH"].req
        /\ ops'[d]["PUBLISH"].done = TRUE
        /\ \A j \in Kinds \ {"PUBLISH"} : ops'[d][j] = ops[d][j]
        /\ \A e \in Devices \ {d} : ops'[e] = ops[e]
    BY <1>1, <1>2, PublishDone
  <1>4. CASE ~loc[d].ans.ok
    <2>1. Return(d) /\ UNCHANGED bind BY <1>4 DEF Published
    <2>2. loc'[d] = Idle /\ \A e \in Devices \ {d} : loc'[e] = loc[e]
      BY <1>2, <2>1, Returned
    <2> QED BY <1>1, <1>2, <1>3, <2>1, <2>2
  <1>5. CASE loc[d].ans.ok
    <2>1. PICK held \in BOOLEAN :
            /\ bind' = [bind EXCEPT ![d] = NewBinding(loc[d].req.epoch,
                                                      IF held THEN loc[d].ans.val ELSE 0)]
            /\ IF held THEN Return(d)
               ELSE loc' = [loc EXCEPT ![d] = Holding("abandon", None, loc[d].ans.val)]
      BY <1>5 DEF Published
    <2>2. PICK f \in Nat : f = IF held THEN loc[d].ans.val ELSE 0 BY <1>2
    <2>3. PICK n \in Nat : n = loc[d].req.epoch BY <1>2 DEF Request
    <2>4. PICK x : x = NewBinding(n, f) OBVIOUS
    <2>5. /\ x \in Binding /\ x.ver = 0 /\ x.base = 0 /\ x.head = 0 /\ x.epoch = n /\ x.lease = f
          /\ x.q = ""
      BY <2>4, NewRow, ZenonT(60)
    <2>6. bind' = [bind EXCEPT ![d] = x] BY <2>1, <2>2, <2>3, <2>4
    <2>7. bind'[d] = x /\ x # None /\ \A e \in Devices \ {d} : bind'[e] = bind[e]
      BY <1>2, <2>5, <2>6, SetRow
    <2>8. CASE held
      <3>1. loc'[d] = Idle /\ \A e \in Devices \ {d} : loc'[e] = loc[e]
        BY <1>2, <2>1, <2>8, Returned
      <3>2. f = loc[d].ans.val BY <2>2, <2>8
      <3> QED BY <1>1, <1>2, <1>3, <1>5, <2>3, <2>5, <2>7, <3>1, <3>2
    <2>9. CASE ~held
      <3>1. /\ loc'[d].pc = "abandon" /\ loc'[d].req = None /\ loc'[d].got = loc[d].ans.val
            /\ ~loc'[d].super
            /\ \A e \in Devices \ {d} : loc'[e] = loc[e]
        BY <1>2, <2>1, <2>9, Held1 DEF PCs
      <3>2. f = 0 BY <2>2, <2>9
      <3> QED BY <1>1, <1>2, <1>3, <1>5, <2>3, <2>5, <2>7, <3>1, <3>2
    <2> QED BY <2>8, <2>9
  <1> QED BY <1>4, <1>5

\* The checkout is settled; the lease is taken, given back or refused.
LEMMA CheckedOutRow ==
    ASSUME Base, NEW d \in Devices, CheckedOut(d)
    PROVE  /\ Answered(d, "CHECKOUT") /\ bind[d] # None /\ bind[d].lease = 0
           /\ \A e \in Devices \ {d} : /\ ops'[e] = ops[e] /\ bind'[e] = bind[e]
                                       /\ loc'[e] = loc[e]
           /\ \A j \in Kinds \ {"CHECKOUT", "RELEASE"} : ops'[d][j] = ops[d][j]
           /\ \/ /\ bind' = bind /\ loc'[d] = Idle /\ net' = net
                 /\ ops'[d]["CHECKOUT"] \in {None, ops[d]["CHECKOUT"]}
                 /\ ops'[d]["RELEASE"] = ops[d]["RELEASE"]
              \/ /\ loc[d].ans.ok /\ loc'[d] = Idle /\ bind'[d] # None /\ net' = net
                 /\ bind'[d].ver = bind[d].ver /\ bind'[d].base = bind[d].base
                 /\ bind'[d].head = bind[d].head /\ bind'[d].epoch = bind[d].epoch
                 /\ bind'[d].q = bind[d].q /\ bind'[d].lease = loc[d].ans.val
                 /\ ops'[d]["CHECKOUT"] = None /\ ops'[d]["RELEASE"] = ops[d]["RELEASE"]
                 /\ bind[d].ver = loc[d].req.base /\ bind[d].head = loc[d].req.head
                 /\ bind[d].base >= bind[d].ver
              \/ /\ loc[d].ans.ok /\ bind' = bind /\ ops'[d]["CHECKOUT"] = None
                 /\ ops'[d]["RELEASE"] # None /\ net' = net \cup {ops'[d]["RELEASE"].req}
                 /\ ops'[d]["RELEASE"].req.kind = "RELEASE"
                 /\ ops'[d]["RELEASE"].req.fence = loc[d].ans.val
                 /\ loc'[d].pc = "wait" /\ loc'[d].req = ops'[d]["RELEASE"].req
                 /\ loc'[d].super = loc[d].super /\ loc'[d].ans = None
  <1>1. Answered(d, "CHECKOUT") BY DEF CheckedOut
  <1>2. /\ TypeOK /\ loc[d].ans.val \in Nat /\ bind[d] # None /\ bind[d].lease = 0 /\ bind[d] \in Binding
    BY <1>1, AnsweredFacts, RowTypes
  <1>3. "CHECKOUT" \in Kinds /\ "RELEASE" \in Kinds BY DEF Kinds
  <1>4. ops \in [Devices -> [Kinds -> Operation \cup {None}]] BY <1>2 DEF TypeOK
  <1>5. ASSUME ops' = [ops EXCEPT ![d]["CHECKOUT"] = None]
        PROVE  /\ ops'[d]["CHECKOUT"] = None
               /\ \A j \in Kinds \ {"CHECKOUT"} : ops'[d][j] = ops[d][j]
               /\ \A e \in Devices \ {d} : ops'[e] = ops[e]
    BY <1>3, <1>4, <1>5
  <1>6. PICK over \in BOOLEAN :
         IF ~loc[d].ans.ok
         THEN /\ ops' = [ops EXCEPT ![d]["CHECKOUT"] = None]
              /\ Return(d) /\ UNCHANGED <<bind, net>>
         ELSE IF over /\ loc[d].fresh
         THEN Return(d) /\ UNCHANGED <<bind, ops, net>>
         ELSE IF Usable(d, over)
         THEN /\ ops' = [ops EXCEPT ![d]["CHECKOUT"] = None]
              /\ bind' = [bind EXCEPT ![d].lease = loc[d].ans.val]
              /\ Return(d) /\ UNCHANGED net
         ELSE /\ ops' = [ops EXCEPT ![d]["CHECKOUT"] = None,
                                    ![d]["RELEASE"] = Anew(Release(d, loc[d].ans.val))]
              /\ Send(d, Release(d, loc[d].ans.val), TRUE) /\ UNCHANGED bind
    BY DEF CheckedOut
  <1>7. CASE ~loc[d].ans.ok \/ (over /\ loc[d].fresh)
    <2>1. /\ ops' = [ops EXCEPT ![d]["CHECKOUT"] = None] \/ ops' = ops
          /\ Return(d) /\ UNCHANGED <<bind, net>>
      BY <1>6, <1>7
    <2>2. loc'[d] = Idle /\ \A e \in Devices \ {d} : loc'[e] = loc[e] BY <1>2, <2>1, Returned
    <2>3. /\ ops'[d]["CHECKOUT"] \in {None, ops[d]["CHECKOUT"]}
          /\ \A j \in Kinds \ {"CHECKOUT"} : ops'[d][j] = ops[d][j]
          /\ \A e \in Devices \ {d} : ops'[e] = ops[e]
      BY <1>5, <2>1
    <2>4. ops'[d]["RELEASE"] = ops[d]["RELEASE"] BY <1>3, <2>3
    <2> QED BY <1>1, <1>2, <2>1, <2>2, <2>3, <2>4
  <1>8. CASE loc[d].ans.ok /\ ~(over /\ loc[d].fresh) /\ Usable(d, over)
    <2>1. /\ ops' = [ops EXCEPT ![d]["CHECKOUT"] = None] /\ Return(d) /\ UNCHANGED net
          /\ bind' = [bind EXCEPT ![d].lease = loc[d].ans.val]
      BY <1>6, <1>8
    <2>2. PICK x : x = [bind[d] EXCEPT !.lease = loc[d].ans.val] OBVIOUS
    <2>3. /\ x \in Binding /\ x.ver = bind[d].ver /\ x.base = bind[d].base /\ x.head = bind[d].head
          /\ x.epoch = bind[d].epoch /\ x.lease = loc[d].ans.val /\ x.q = bind[d].q
      BY <1>2, <2>2 DEF Binding
    <2>4. bind' = [bind EXCEPT ![d] = x] BY <2>1, <2>2
    <2>5. bind'[d] = x /\ x # None /\ \A e \in Devices \ {d} : bind'[e] = bind[e]
      BY <1>2, <2>3, <2>4, SetRow
    <2>6. loc'[d] = Idle /\ \A e \in Devices \ {d} : loc'[e] = loc[e] BY <1>2, <2>1, Returned
    <2>7. bind[d].ver = loc[d].req.base /\ bind[d].head = loc[d].req.head /\ bind[d].base >= bind[d].ver
      <3>1. <<loc[d].req.base, loc[d].req.head>> = <<bind[d].ver, bind[d].head>> /\ ~Behind(d)
        BY <1>8 DEF Usable
      <3>2. bind[d].ver \in Nat /\ bind[d].base \in Nat BY <1>2, RowTypes
      <3> QED BY <3>1, <3>2 DEF Behind
    <2>8. /\ ops'[d]["CHECKOUT"] = None
          /\ \A j \in Kinds \ {"CHECKOUT"} : ops'[d][j] = ops[d][j]
          /\ \A e \in Devices \ {d} : ops'[e] = ops[e]
      BY <1>5, <2>1
    <2>9. ops'[d]["RELEASE"] = ops[d]["RELEASE"] BY <1>3, <2>8
    <2> QED BY <1>1, <1>2, <1>8, <2>1, <2>3, <2>5, <2>6, <2>7, <2>8, <2>9
  <1>9. CASE loc[d].ans.ok /\ ~(over /\ loc[d].fresh) /\ ~Usable(d, over)
    <2>1. PICK r : r = Release(d, loc[d].ans.val) OBVIOUS
    <2>2. /\ ops' = [ops EXCEPT ![d]["CHECKOUT"] = None, ![d]["RELEASE"] = Anew(r)]
          /\ Send(d, r, TRUE) /\ UNCHANGED bind
      BY <1>6, <1>9, <2>1
    <2>3. r \in Request /\ r.kind = "RELEASE" /\ r.fence = loc[d].ans.val
      BY <1>2, <2>1, ReleaseType
    <2>4. /\ loc'[d] = [pc |-> "wait", req |-> r, ans |-> None, fresh |-> TRUE, got |-> 0,
                        super |-> loc[d].super]
          /\ \A e \in Devices \ {d} : loc'[e] = loc[e]
          /\ net' = net \cup {r}
      BY <1>2, <2>2, <2>3, Sent
    <2>5. loc'[d].pc = "wait" /\ loc'[d].req = r /\ loc'[d].ans = None BY <2>4
    <2>6. loc'[d].super = loc[d].super BY <2>4
    <2>7. PICK x : x = Anew(r) OBVIOUS
    <2>8. x # None /\ x.req = r BY <2>3, <2>7, AnewType
    <2>9. ops' = [ops EXCEPT ![d]["CHECKOUT"] = None, ![d]["RELEASE"] = x] BY <2>2, <2>7
    <2>10. /\ ops'[d]["CHECKOUT"] = None /\ ops'[d]["RELEASE"] = x
           /\ \A j \in Kinds \ {"CHECKOUT", "RELEASE"} : ops'[d][j] = ops[d][j]
           /\ \A e \in Devices \ {d} : ops'[e] = ops[e]
      BY <1>3, <1>4, <2>9, SMTT(40)
    <2> QED BY <1>1, <1>2, <1>9, <2>2, <2>3, <2>4, <2>5, <2>6, <2>8, <2>10
  <1> QED BY <1>7, <1>8, <1>9

LEMMA FinishRow ==
    ASSUME Base, NEW d \in Devices, Finish(d), ~EpochMoved(d), NEW s, s = ops[d]["COMMIT"].req.snap
    PROVE  /\ bind[d] # None /\ loc[d].pc = "idle" /\ d \notin swap /\ bind'[d] # None
           /\ bind[d].lease # 0
           /\ bind'[d].ver = made[s].ver /\ bind'[d].base = made[s].ver /\ bind'[d].head = s
           /\ bind'[d].epoch = bind[d].epoch /\ bind'[d].lease = 0 /\ bind'[d].q = bind[d].q
           /\ \A e \in Devices \ {d} : bind'[e] = bind[e]
           /\ s \in DOMAIN made /\ made[s].fence = bind[d].lease
           /\ made[s].ver \in DOMAIN log /\ log[made[s].ver] = s
           /\ ops[d]["COMMIT"] # None /\ ops[d]["COMMIT"].done
           /\ Dropped(d, bind[d].lease)
  <1>1. /\ loc[d].pc = "idle" /\ bind[d] # None /\ d \notin swap /\ bind[d].lease # 0
        /\ ops[d]["COMMIT"] # None /\ ops[d]["COMMIT"].req.fence = bind[d].lease
        /\ bind' = [bind EXCEPT ![d] = [Pinned(bind[d], made[s].ver, s) EXCEPT !.lease = 0]]
        /\ Dropped(d, bind[d].lease)
        /\ made[s].ver \in DOMAIN log /\ log[made[s].ver] = s
    BY ZenonT(60) DEF Finish, Working, Current, Bound, At, OfLease, Live
  <1>2. TypeOK /\ OpsOK(d) /\ bind[d] \in Binding
    <2>1. TypeOK /\ OpsOK(d) BY RowBefore, ZenonT(60)
    <2> QED BY <1>1, <2>1, RowTypes, ZenonT(60)
  <1>3. ops[d]["COMMIT"].done BY <1>1 DEF Finish, Pending, Live
  <1>4. s \in DOMAIN made /\ made[s].fence = bind[d].lease
    <2>1. PICK r : r = ops[d]["COMMIT"].req BY SMTT(40)
    <2>2. Known(r) /\ r.kind = "COMMIT" BY <1>1, <1>2, <2>1 DEF OpsOK, Live, Kinds
    <2>3. r.snap \in DOMAIN made /\ r = Asks(r.kind, r.dev, r.snap) BY <2>2 DEF Known, UpKinds
    <2> QED BY <1>1, <2>1, <2>3 DEF Asks
  <1>5. PICK v \in Nat : v = made[s].ver BY <1>2, <1>4, MadeType
  <1>6. s \in Nat BY <1>2, <1>4, MadeType
  <1>7. PICK x : x = Pinned(bind[d], v, s) OBVIOUS
  <1>8. /\ x \in Binding /\ x.ver = v /\ x.base = v /\ x.head = s /\ x.epoch = bind[d].epoch
        /\ x.q = bind[d].q
    <2>1. PICK b \in Binding : b = bind[d] BY <1>2
    <2>2. x = Pinned(b, v, s) BY <1>7, <2>1
    <2>3. /\ x \in Binding /\ x.ver = v /\ x.base = v /\ x.head = s /\ x.epoch = b.epoch
          /\ x.q = b.q
      BY ONLY b \in Binding, v \in Nat, <1>6, <2>2, PinnedRow
    <2> QED BY <2>1, <2>3
  <1>9. PICK y : y = [x EXCEPT !.lease = 0] OBVIOUS
  <1>10. /\ y \in Binding /\ y.ver = v /\ y.base = v /\ y.head = s /\ y.epoch = bind[d].epoch
         /\ y.lease = 0 /\ y.q = bind[d].q
    BY <1>8, <1>9, ZenonT(60) DEF Binding
  <1>11. bind' = [bind EXCEPT ![d] = y] BY <1>1, <1>5, <1>7, <1>9
  <1>12. bind'[d] = y /\ y # None /\ \A e \in Devices \ {d} : bind'[e] = bind[e]
    BY <1>2, <1>10, <1>11, SetRow
  <1> QED BY <1>1, <1>3, <1>4, <1>5, <1>10, <1>12, ZenonT(60)

LEMMA PinRow ==
    ASSUME Base, NEW d \in Devices, Pin(d)
    PROVE  /\ loc[d].pc = "staged" /\ bind[d] # None /\ d \notin swap /\ bind'[d] # None
           /\ loc[d].got \in DOMAIN made /\ staging[d] = made[loc[d].got].data /\ staging[d] # None
           /\ bind'[d].ver = made[loc[d].got].ver /\ bind'[d].base = bind'[d].ver
           /\ bind'[d].head = loc[d].got /\ bind'[d].epoch = bind[d].epoch
           /\ bind'[d].lease = 0 /\ bind[d].lease = 0 /\ bind'[d].q = bind[d].q
           /\ \A e \in Devices \ {d} : bind'[e] = bind[e] /\ loc'[e] = loc[e]
           /\ loc'[d] = Idle /\ swap' = swap \cup {d}
  <1>1. PICK s : s = loc[d].got OBVIOUS
  <1>3. /\ loc[d].pc = "staged" /\ Return(d) /\ swap' = swap \cup {d}
        /\ bind' = [bind EXCEPT ![d] = Pinned(bind[d], made[s].ver, s)]
    BY <1>1 DEF Pin, At
  <1>4. TypeOK /\ BindOK(d) /\ DirOK(d) /\ LocOK(d) /\ LogInv BY RowBefore DEF Base
  <1>5. s \in DOMAIN made /\ bind[d].lease = 0 /\ bind[d] # None /\ d \notin swap
    BY <1>1, <1>3, <1>4 DEF LocOK, BindOK
  <1>6. s \in Nat /\ made[s].data \in Data /\ bind[d] \in Binding
    BY <1>4, <1>5, MadeType, RowTypes
  <1>7. PICK v \in Nat : v = made[s].ver BY <1>4, <1>5, MadeType
  <1>8. PICK x : x = Pinned(bind[d], v, s) OBVIOUS
  <1>9. /\ x \in Binding /\ x.ver = v /\ x.base = v /\ x.head = s /\ x.epoch = bind[d].epoch
        /\ x.lease = bind[d].lease /\ x.q = bind[d].q
    BY <1>6, <1>8, PinnedRow
  <1>10. bind' = [bind EXCEPT ![d] = x] BY <1>3, <1>7, <1>8
  <1>11. bind'[d] = x /\ x # None /\ \A e \in Devices \ {d} : bind'[e] = bind[e]
    BY <1>4, <1>9, <1>10, SetRow
  <1>12. loc'[d] = Idle /\ \A e \in Devices \ {d} : loc'[e] = loc[e]
    BY <1>3, <1>4, Returned
  <1>13. staging[d] = made[s].data BY <1>1, <1>3, <1>4 DEF DirOK
  <1>14. staging[d] # None BY <1>6, <1>13, NoneIsNew
  <1> QED BY <1>1, <1>3, <1>5, <1>7, <1>9, <1>11, <1>12, <1>13, <1>14

----------------------------------------------------------------------------
(* Transitions.                                                             *)

LEMMA SetInduction ==
    ASSUME NEW S \in SUBSET Nat, 0 \in S, \A n \in S : n + 1 \in S
    PROVE  S = Nat
  <1> SUFFICES ASSUME S # Nat PROVE FALSE OBVIOUS
  <1> DEFINE T == Nat \ S
             R == OpToRel(<, Nat)
  <1>1. T # {} /\ T \subseteq Nat OBVIOUS
  <1>2. \E x \in T : \A y \in T : ~(<<y, x>> \in R)
    <2>1. IsWellFoundedOn(R, Nat) BY NatLessThanWellFounded
    <2> HIDE DEF R, T
    <2> QED BY <1>1, <2>1, WFMin
  <1>3. PICK x \in T : \A y \in T : ~(<<y, x>> \in R) BY <1>2
  <1>4. \A y \in Nat : y < x => <<y, x>> \in R BY DEF OpToRel
  <1>5. x \in Nat /\ x \notin S OBVIOUS
  <1>6. x # 0 BY <1>5
  <1>7. x - 1 \in Nat /\ x - 1 < x BY <1>5, <1>6
  <1>8. x - 1 \in S BY <1>3, <1>4, <1>7
  <1>9. x - 1 + 1 = x BY <1>5
  <1> QED BY <1>5, <1>8, <1>9

\* Along the transitions a pinned head only ever shrinks.
LEMMA LeafChain ==
    ASSUME Base, HistoryInv, NEW b \in Binding, b.head # 0, b.head \in DOMAIN made, epoch > b.epoch,
           LeafHead(b) # None
    PROVE  /\ LeafHead(b) = leaves[epoch].new
           /\ made[leaves[epoch].new].data \subseteq made[b.head].data
  <1> DEFINE Before(e) == IF e = b.epoch + 1 THEN b.head ELSE leaves[e - 1].new
             Good(e) == made[leaves[e].new].data \subseteq made[b.head].data
             S == {n \in Nat : b.epoch + 1 + n <= epoch => Good(b.epoch + 1 + n)}
  <1>1. /\ epoch \in Nat /\ b.epoch \in Nat /\ TypeOK /\ Len(leaves) = epoch
        /\ leaves \in Seq([old : Snaps, new : Snaps])
    BY DEF Base, TypeOK, Binding
  <1>2. /\ LeafHead(b) = leaves[epoch].new
        /\ \A e \in b.epoch + 1 .. epoch : Before(e) \in {0, leaves[e].old, leaves[e].new}
    BY <1>1 DEF LeafHead
  <1>3. DOMAIN leaves = 1 .. epoch BY <1>1
  <1>4. \A e \in 1 .. epoch :
          /\ leaves[e].old \in DOMAIN made /\ leaves[e].new \in DOMAIN made
          /\ made[leaves[e].new].data \subseteq made[leaves[e].old].data
    BY <1>3 DEF HistoryInv
  <1>5. 0 \notin DOMAIN made
    <2>1. made \in Seq([data : Data, epoch : Nat, fence : Nat, ver : Nat]) BY <1>1 DEF TypeOK
    <2> QED BY <2>1
  <1>6. Good(b.epoch + 1)
    <2>1. PICK e \in b.epoch + 1 .. epoch : e = b.epoch + 1 BY <1>1
    <2>2. b.head \in {leaves[e].old, leaves[e].new} BY <1>2, <2>1
    <2>3. e \in 1 .. epoch BY <1>1, <2>1
    <2>4. Good(e) BY <1>4, <2>2, <2>3
    <2> QED BY <2>1, <2>4
  <1>7. ASSUME NEW e \in b.epoch + 2 .. epoch, Good(e - 1) PROVE Good(e)
    <2>1. /\ e \in 1 .. epoch /\ e - 1 \in 1 .. epoch /\ e \in b.epoch + 1 .. epoch
          /\ e # b.epoch + 1
      BY <1>1
    <2>2. leaves[e - 1].new \in DOMAIN made BY <1>4, <2>1
    <2>3. leaves[e - 1].new \in {leaves[e].old, leaves[e].new} BY <1>2, <1>5, <2>1, <2>2
    <2>4. made[leaves[e].new].data \subseteq made[leaves[e - 1].new].data BY <1>4, <2>1, <2>3
    <2> QED BY <1>7, <2>4
  <1> HIDE DEF Good
  <1>8. 0 \in S
    <2>1. b.epoch + 1 + 0 = b.epoch + 1 BY <1>1
    <2> QED BY <1>6, <2>1
  <1>9. ASSUME NEW n \in S PROVE n + 1 \in S
    <2> SUFFICES ASSUME b.epoch + 1 + (n + 1) <= epoch PROVE Good(b.epoch + 1 + (n + 1)) OBVIOUS
    <2>1. n \in Nat OBVIOUS
    <2>2. b.epoch + 1 + n <= epoch BY <1>1, <2>1
    <2>3. Good(b.epoch + 1 + n) BY <2>2
    <2>4. PICK e \in b.epoch + 2 .. epoch : e = b.epoch + 1 + (n + 1) BY <1>1, <2>1
    <2>5. e - 1 = b.epoch + 1 + n BY <1>1, <2>1, <2>4, SMTT(40)
    <2>6. Good(e) BY <1>7, <2>3, <2>5
    <2> QED BY <2>4, <2>6
  <1>10. S = Nat
    <2>1. S \in SUBSET Nat OBVIOUS
    <2> HIDE DEF S
    <2> QED BY <1>8, <1>9, <2>1, SetInduction
  <1>11. Good(epoch)
    <2>1. PICK n \in Nat : epoch = b.epoch + 1 + n
      <3>1. epoch - b.epoch - 1 \in Nat /\ epoch = b.epoch + 1 + (epoch - b.epoch - 1) BY <1>1
      <3> QED BY <3>1
    <2>2. n \in S BY <1>10
    <2>3. b.epoch + 1 + n <= epoch BY <1>1, <2>1
    <2>4. Good(b.epoch + 1 + n) BY <2>2, <2>3
    <2> QED BY <2>1, <2>4
  <1> QED BY <1>2, <1>11 DEF Good

LEMMA AcceptRow ==
    ASSUME Base, NEW d \in Devices, AcceptTransitions(d)
    PROVE  /\ loc[d].pc = "idle" /\ bind[d] # None /\ d \notin swap /\ bind[d].lease = 0
           /\ bind[d].q = "transition"
           /\ bind'[d] # None /\ bind'[d].lease = 0 /\ bind'[d].base = bind[d].base
           /\ \A e \in Devices \ {d} : bind'[e] = bind[e]
           /\ \/ /\ bind'[d].head = bind[d].head /\ bind'[d].ver = bind[d].ver
                 /\ bind'[d].epoch = bind[d].epoch /\ bind'[d].q \in {"rollback", "invalid"}
                 /\ bind'[d].q = "rollback" => epoch <= bind[d].epoch
              \/ /\ epoch > bind[d].epoch /\ bind'[d].epoch = epoch /\ bind'[d].q = ""
                 /\ bind'[d].head = LeafHead(bind[d])
                 /\ \/ bind'[d].ver = bind[d].ver /\ bind'[d].head = bind[d].head
                    \/ /\ bind'[d].ver \in DOMAIN log /\ log[bind'[d].ver] = bind'[d].head
                       /\ bind[d].head # 0 => bind'[d].ver <= bind[d].ver
  <1>1. /\ loc[d].pc = "idle" /\ bind[d] # None /\ d \notin swap /\ bind[d].lease = 0
        /\ bind[d].q = "transition"
    BY DEF AcceptTransitions, Awaits, Bound, At
  <1>2. TypeOK /\ RowOK(bind[d]) /\ bind[d] \in Binding /\ epoch \in Nat /\ bind[d].epoch \in Nat
    BY <1>1, RowBefore, RowTypes DEF TypeOK
  <1>3. CASE \E w \in {"rollback", "invalid"} : Quarantine(d, w) /\ (w = "rollback" => epoch <= bind[d].epoch)
    <2>1. PICK w \in {"rollback", "invalid"} : Quarantine(d, w) /\ (w = "rollback" => epoch <= bind[d].epoch)
      BY <1>3
    <2>2. /\ bind'[d] # None
          /\ bind'[d].ver = bind[d].ver /\ bind'[d].base = bind[d].base
          /\ bind'[d].head = bind[d].head /\ bind'[d].epoch = bind[d].epoch
          /\ bind'[d].lease = bind[d].lease /\ bind'[d].q = w
          /\ \A e \in Devices \ {d} : bind'[e] = bind[e]
      BY <1>1, <1>2, <2>1, Quarantined
    <2> QED BY <1>1, <2>1, <2>2
  <1>4. ASSUME NEW v \in Nat, LeafHead(bind[d]) \in Nat, bind' = [bind EXCEPT ![d] = Moved(bind[d], v)]
        PROVE  /\ bind'[d] # None
               /\ \A e \in Devices \ {d} : bind'[e] = bind[e]
               /\ bind'[d].lease = 0 /\ bind'[d].ver = v /\ bind'[d].base = bind[d].base
               /\ bind'[d].head = LeafHead(bind[d]) /\ bind'[d].epoch = epoch /\ bind'[d].q = ""
    <2>1. PICK b \in Binding : b = bind[d] BY <1>2
    <2>2. PICK x : x = Moved(b, v) OBVIOUS
    <2>3. LeafHead(b) \in Nat BY <1>4, <2>1
    <2>4. /\ x \in Binding /\ x.ver = v /\ x.base = b.base /\ x.head = LeafHead(b)
          /\ x.epoch = epoch /\ x.lease = b.lease /\ x.q = ""
      BY ONLY v \in Nat, b \in Binding, <1>2, <2>2, <2>3, MovedRow
    <2>5. bind' = [bind EXCEPT ![d] = x] BY <1>4, <2>1, <2>2
    <2>6. bind'[d] = x /\ x # None /\ \A e \in Devices \ {d} : bind'[e] = bind[e]
      BY <1>2, <2>4, <2>5, SetRow
    <2> QED BY <1>1, <2>1, <2>4, <2>6
  <1>5. CASE /\ ~(epoch <= bind[d].epoch) /\ LeafHead(bind[d]) = bind[d].head
             /\ bind' = [bind EXCEPT ![d] = Moved(bind[d], bind[d].ver)]
    <2>1. bind[d].head \in Nat /\ bind[d].ver \in Nat BY <1>1, <1>2, RowTypes
    <2>2. epoch > bind[d].epoch BY <1>2, <1>5
    <2>3. /\ bind'[d] # None
          /\ \A e \in Devices \ {d} : bind'[e] = bind[e]
          /\ bind'[d].lease = 0 /\ bind'[d].ver = bind[d].ver /\ bind'[d].base = bind[d].base
          /\ bind'[d].head = LeafHead(bind[d]) /\ bind'[d].epoch = epoch /\ bind'[d].q = ""
      BY <1>4, <1>5, <2>1
    <2> QED BY <1>1, <1>5, <2>2, <2>3
  <1>6. CASE /\ ~(epoch <= bind[d].epoch)
             /\ \E v \in DOMAIN log : /\ LeafFound(bind[d], v)
                                      /\ bind' = [bind EXCEPT ![d] = Moved(bind[d], v)]
    <2>1. PICK v \in DOMAIN log : /\ LeafFound(bind[d], v)
                                  /\ bind' = [bind EXCEPT ![d] = Moved(bind[d], v)]
      BY <1>6
    <2>2. v \in Nat /\ log[v] \in Nat BY <1>2, LogType
    <2>3. log[v] = LeafHead(bind[d]) BY <2>1 DEF LeafFound
    <2>4. bind[d].head # 0 => v <= bind[d].ver BY <2>1 DEF LeafFound
    <2>5. epoch > bind[d].epoch BY <1>2, <1>6
    <2>6. /\ bind'[d] # None
          /\ \A e \in Devices \ {d} : bind'[e] = bind[e]
          /\ bind'[d].lease = 0 /\ bind'[d].ver = v /\ bind'[d].base = bind[d].base
          /\ bind'[d].head = LeafHead(bind[d]) /\ bind'[d].epoch = epoch /\ bind'[d].q = ""
      BY <1>4, <2>1, <2>2, <2>3
    <2> QED BY <1>1, <2>3, <2>4, <2>5, <2>6
  <1> QED BY <1>2, <1>3, <1>5, <1>6 DEF AcceptTransitions

----------------------------------------------------------------------------
(* The second part: swaps, pulls and bindings.                              *)

LEMMA SettledData ==
    ASSUME Base, NEW d \in Devices, Settle(d)
    PROVE  /\ DataOf(d)' = DataOf(d)
           /\ \A e \in Devices \ {d} : /\ udd'[e] = udd[e] /\ staging'[e] = staging[e]
                                       /\ e \in swap' <=> e \in swap
  <1>1. d \in swap /\ SwapStep(d) BY DEF Settle
  <1>2. /\ udd \in [Devices -> Data \cup {None}]
        /\ staging \in [Devices -> Data \cup {Partial, None}]
        /\ old \in [Devices -> Data \cup {None}] /\ swap \subseteq Devices
    BY DEF Base, TypeOK
  <1>3. CASE staging[d] # None /\ udd[d] = None
    BY <1>1, <1>2, <1>3 DEF SwapStep, DataOf
  <1>4. CASE staging[d] # None /\ udd[d] # None /\ old[d] # None
    BY <1>1, <1>2, <1>4 DEF SwapStep, DataOf
  <1>5. CASE staging[d] # None /\ udd[d] # None /\ old[d] = None
    BY <1>1, <1>2, <1>5 DEF SwapStep, DataOf
  <1>6. CASE staging[d] = None /\ old[d] # None BY <1>1, <1>2, <1>6 DEF SwapStep, DataOf
  <1>7. CASE staging[d] = None /\ old[d] = None
    BY <1>1, <1>2, <1>7 DEF SwapStep, DataOf, dirs
  <1> QED BY <1>3, <1>4, <1>5, <1>6, <1>7

LEMMA SettleData ==
    ASSUME Base, DataInv, NEW d \in Devices, Settle(d) PROVE DataInv'
  <1>1. Kept /\ UNCHANGED <<made, bind, ops>> /\ d \in swap BY DEF Settle, server, Kept
  <1>2. BindOK(d) BY RowBefore
  <1>3. bind[d] # None => bind[d].lease = 0 BY <1>1, <1>2 DEF BindOK
  <1>4. ASSUME NEW e \in Devices PROVE QuietRow(e) /\ QuietOps(e)
    <2>1. QuietOps(e) BY <1>1 DEF QuietOps, Pending, Live
    <2>2. CASE e = d BY <1>1, <1>3, <2>1, <2>2, SettledData DEF QuietRow
    <2>3. CASE e # d
      <3>1. udd'[e] = udd[e] /\ staging'[e] = staging[e] /\ (e \in swap' <=> e \in swap)
        BY <2>3, SettledData
      <3> QED BY <1>1, <2>1, <3>1 DEF QuietRow, DataOf
    <2> QED BY <2>2, <2>3
  <1> QED BY <1>1, <1>4, QuietData DEF Kept

\* The staging of a device without a pending swap is not its data.
LEMMA StagingData ==
    ASSUME Base, DataInv, NEW d \in Devices, Kept, UNCHANGED <<made, ops, swap, udd>>, d \notin swap,
           \A e \in Devices \ {d} : staging'[e] = staging[e] /\ bind'[e] = bind[e],
           bind'[d] \in {bind[d], None}
    PROVE  DataInv'
  <1>1. ASSUME NEW e \in Devices PROVE QuietRow(e) /\ QuietOps(e)
    <2>1. QuietOps(e) BY DEF QuietOps, Pending, Live
    <2>2. DataOf(e)' = DataOf(e) BY DEF DataOf
    <2> QED BY <2>1, <2>2 DEF QuietRow
  <1> QED BY <1>1, QuietData DEF Kept

LEMMA PullsData ==
    ASSUME Base, DataInv, NEW d \in Devices, PullBegin(d) \/ PullFetch(d) \/ PullFails(d)
    PROVE  DataInv'
  <1>1. TypeOK /\ BindOK(d) BY RowBefore
  <1>2. Kept /\ UNCHANGED <<made, bind, ops, swap>>
    BY DEF PullBegin, PullFetch, PullFails, server, db, Kept
  <1>3. d \notin swap
    <2>1. CASE PullBegin(d) BY <2>1 DEF PullBegin, Current, Bound
    <2>2. CASE PullFetch(d) \/ PullFails(d) BY <1>1, <2>2 DEF PullFetch, PullFails, At, BindOK
    <2> QED BY <2>1, <2>2
  <1>4. udd' = udd BY DEF PullBegin, PullFetch, PullFails, Discard
  <1>5. \A e \in Devices \ {d} : staging'[e] = staging[e]
    <2>1. staging \in [Devices -> Data \cup {Partial, None}] BY <1>1 DEF TypeOK
    <2>2. CASE PullBegin(d) \/ PullFetch(d)
      <3>1. \E x : staging' = [staging EXCEPT ![d] = x] BY <2>2 DEF PullBegin, PullFetch
      <3> QED BY <2>1, <3>1
    <2>3. CASE PullFails(d) BY <1>1, <2>3, DiscardTypes DEF PullFails
    <2> QED BY <2>2, <2>3
  <1> QED BY <1>2, <1>3, <1>4, <1>5, StagingData

LEMMA UnbindData ==
    ASSUME Base, DataInv, NEW d \in Devices, Unbind(d) PROVE DataInv'
  <1>1. /\ Kept /\ UNCHANGED <<made, ops, swap>> /\ d \notin swap /\ Discard(d)
        /\ bind' = [bind EXCEPT ![d] = None]
    BY DEF Unbind, Bound, server, Kept
  <1>2. TypeOK BY DEF Base
  <1>3. udd' = udd /\ \A e \in Devices \ {d} : staging'[e] = staging[e]
    BY <1>1, <1>2, DiscardTypes
  <1>4. bind'[d] = None /\ \A e \in Devices \ {d} : bind'[e] = bind[e]
    BY <1>1, <1>2, SetBind
  <1> QED BY <1>1, <1>3, <1>4, StagingData

LEMMA JoinData ==
    ASSUME Base, DataInv, NEW d \in Devices, Join(d) PROVE DataInv'
  <1>1. Kept /\ UNCHANGED <<made, ops, swap, udd, staging>> BY DEF Join, server, dirs, Kept
  <1>2. ASSUME NEW e \in Devices PROVE QuietRow(e) /\ QuietOps(e)
    <2>1. QuietOps(e) BY <1>1 DEF QuietOps, Pending, Live
    <2>2. DataOf(e)' = DataOf(e) BY <1>1 DEF DataOf
    <2>3. CASE e = d BY <2>1, <2>2, <2>3, JoinRow DEF QuietRow
    <2>4. CASE e # d
      <3>1. bind'[e] = bind[e] BY <2>4, JoinRow
      <3> QED BY <1>1, <2>1, <2>2, <3>1 DEF QuietRow
    <2> QED BY <2>3, <2>4
  <1> QED BY <1>1, <1>2, QuietData DEF Kept

----------------------------------------------------------------------------
(* A lease is taken: nothing was sealed under it and it covers the head.    *)

LEMMA TakeData ==
    ASSUME Base, DataInv, NEW d \in Devices, NEW k \in Grants, Pending(d, k),
           NEW g \in DOMAIN ledger, g = ops[d][k].req,
           Kept, UNCHANGED <<made, swap, udd, staging>>,
           \A e \in Devices \ {d} : bind'[e] = bind[e] /\ ops'[e] = ops[e],
           \A j \in Grants \ {k} : ops'[d][j] = ops[d][j], ~Pending(d, k)',
           bind'[d] # None, bind'[d].lease = ledger[g],
           bind'[d].ver = g.base, bind'[d].head = g.head, bind'[d].base >= bind'[d].ver,
           \/ bind'[d].head = 0
           \/ /\ bind[d] # None /\ bind'[d].head = bind[d].head /\ bind'[d].base = bind[d].base
              /\ bind'[d].ver = bind[d].ver
    PROVE  DataInv'
  <1>1. HeadSnap' = HeadSnap BY DEF HeadSnap, Kept
  <1>2. OpsOK(d) /\ TypeOK /\ LedgerInv BY RowBefore DEF Base
  <1>3. g.kind = k /\ g.dev = d BY <1>2 DEF OpsOK, Pending, Grants, Kinds
  <1>4. PICK f : f = ledger[g] OBVIOUS
  <1>5. Fresh(f) BY <1>4 DEF DataInv, GrantInv
  <1>6. GrantInv'
    <2>1. \A h \in DOMAIN ledger' :
            h.kind \in Grants /\ lease' # None /\ lease'.fence = ledger'[h] =>
              Len(log') = h.base /\ HeadSnap' = h.head
      BY <1>1 DEF DataInv, GrantInv, Kept
    <2>2. ASSUME NEW e \in Devices, NEW j \in Grants, Pending(e, j)', ops'[e][j].req \in DOMAIN ledger'
          PROVE  Fresh(ledger[ops[e][j].req])'
      <3>1. PICK h : h = ops'[e][j].req OBVIOUS
      <3>2. e # d \/ j # k BY <2>2
      <3>3. ops'[e][j] = ops[e][j] BY <3>2
      <3>4. Pending(e, j) /\ h = ops[e][j].req /\ h \in DOMAIN ledger
        BY <2>2, <3>1, <3>3 DEF Pending, Live, Kept
      <3>5. OpsOK(e) BY RowBefore
      <3>6. h.kind = j /\ h.dev = e BY <3>4, <3>5 DEF OpsOK, Pending, Grants, Kinds
      <3>7. h # g BY <1>3, <3>2, <3>6
      <3>8. ledger[h] # f BY <1>2, <1>3, <1>4, <3>4, <3>6, <3>7 DEF LedgerInv
      <3>9. Fresh(ledger[h]) BY <3>4 DEF DataInv, GrantInv
      <3>10. PICK x : x = ledger[h] OBVIOUS
      <3>11. Fresh(x)' BY <1>4, <3>8, <3>9, <3>10 DEF Fresh
      <3>12. ledger'[ops'[e][j].req] = x BY <3>1, <3>10 DEF Kept
      <3> QED BY <3>11, <3>12
    <2> QED BY <2>1, <2>2 DEF GrantInv
  <1>7. ASSUME NEW e \in Devices PROVE HoldOK(e)' /\ SealedOK(e)' /\ HeadOK(e)'
    <2>1. CASE e = d
      <3>1. HoldOK(d)'
        <4> SUFFICES ASSUME lease # None, f = lease.fence
                     PROVE bind'[d].head = HeadSnap /\ bind'[d].ver = Len(log)
          BY <1>1, <1>4 DEF HoldOK, Kept
        <4> QED BY <1>3, <1>4 DEF DataInv, GrantInv
      <3>2. SealedOK(d)' BY <1>4, <1>5 DEF SealedOK, Fresh
      <3>3. HeadOK(d)'
        <4>1. HeadOK(d) BY DEF DataInv, HeadInv
        <4>2. DataOf(d)' = DataOf(d) BY DEF DataOf
        <4> QED BY <4>1, <4>2 DEF HeadOK
      <3> QED BY <2>1, <3>1, <3>2, <3>3
    <2>2. CASE e # d
      <3>1. bind'[e] = bind[e] BY <2>2
      <3>2. HoldOK(e) /\ SealedOK(e) /\ HeadOK(e) BY DEF DataInv, HoldInv, SealedInv, HeadInv
      <3>3. DataOf(e)' = DataOf(e) BY DEF DataOf
      <3> QED BY <1>1, <3>1, <3>2, <3>3 DEF HoldOK, SealedOK, HeadOK, Kept
    <2> QED BY <2>1, <2>2
  <1>8. SealInv' BY <1>1 DEF DataInv, SealInv, Kept
  <1>9. HistoryInv' BY DEF DataInv, HistoryInv, Committed, Kept
  <1> QED BY <1>6, <1>7, <1>8, <1>9 DEF DataInv, HoldInv, SealedInv, HeadInv

LEMMA PublishedData ==
    ASSUME Base, DataInv, NEW d \in Devices, Published(d) PROVE DataInv'
  <1>1. /\ Kept /\ UNCHANGED <<made, swap, udd, staging>>
        /\ Answered(d, "PUBLISH") /\ bind[d] = None
        /\ ops'[d]["PUBLISH"] # None /\ ops'[d]["PUBLISH"].done = TRUE
        /\ \A j \in Kinds \ {"PUBLISH"} : ops'[d][j] = ops[d][j]
        /\ \A e \in Devices \ {d} : ops'[e] = ops[e] /\ bind'[e] = bind[e]
    BY PublishedRow, ZenonT(60) DEF Published, server, dirs, Kept
  <1>2. \A e \in Devices, k \in Grants :
          ops'[e][k] = ops[e][k] \/ ops'[e][k] = None \/ ops'[e][k].done = TRUE
    BY <1>1 DEF Grants, Kinds
  <1>3. CASE bind' = bind BY <1>1, <1>2, <1>3, OpsData
  <1>4. CASE bind'[d] # None /\ bind'[d].head = 0 /\ bind'[d].lease = 0
    <2>1. ASSUME NEW e \in Devices PROVE QuietRow(e) /\ QuietOps(e)
      <3>1. QuietOps(e) BY <1>2 DEF QuietOps, Pending, Live
      <3>2. DataOf(e)' = DataOf(e) BY <1>1 DEF DataOf
      <3>3. CASE e = d BY <1>4, <3>1, <3>2, <3>3 DEF QuietRow
      <3>4. CASE e # d BY <1>1, <3>1, <3>2, <3>4 DEF QuietRow
      <3> QED BY <3>3, <3>4
    <2> QED BY <1>1, <2>1, QuietData DEF Kept
  <1>5. CASE /\ loc[d].ans.ok /\ bind'[d] # None /\ bind'[d].lease = loc[d].ans.val
             /\ bind'[d].ver = 0 /\ bind'[d].base = 0 /\ bind'[d].head = 0
    <2>1. PICK g : g = loc[d].req OBVIOUS
    <2>2. /\ g \in DOMAIN ledger /\ loc[d].ans.val = ledger[g] /\ g = ops[d]["PUBLISH"].req
          /\ g.kind = "PUBLISH" /\ Known(g)
      BY <1>1, <1>5, <2>1, AnsweredFacts
    <2>3. Pending(d, "PUBLISH") BY <1>1, AnsweredFacts DEF Pending, Live
    <2>4. g.base = 0 /\ g.head = 0 BY <2>2 DEF Known
    <2>5. ~Pending(d, "PUBLISH")' BY <1>1 DEF Pending, Live
    <2>6. \A j \in Grants \ {"PUBLISH"} : ops'[d][j] = ops[d][j] BY <1>1 DEF Grants, Kinds
    <2>7. "PUBLISH" \in Grants BY DEF Grants
    <2>8. bind'[d].base >= bind'[d].ver /\ bind'[d].ver = g.base /\ bind'[d].head = g.head
          /\ bind'[d].lease = ledger[g]
      BY <1>5, <2>2, <2>4
    <2> QED BY <1>1, <1>5, <2>2, <2>3, <2>5, <2>6, <2>7, <2>8, TakeData
  <1> QED BY <1>3, <1>4, <1>5, PublishedRow

LEMMA CheckedOutData ==
    ASSUME Base, DataInv, NEW d \in Devices, CheckedOut(d) PROVE DataInv'
  <1>1. /\ Kept /\ UNCHANGED <<made, swap, udd, staging>> /\ Answered(d, "CHECKOUT") /\ bind[d] # None
        /\ \A e \in Devices \ {d} : ops'[e] = ops[e] /\ bind'[e] = bind[e]
        /\ ops'[d]["PUBLISH"] = ops[d]["PUBLISH"]
        /\ ops'[d]["CHECKOUT"] \in {None, ops[d]["CHECKOUT"]}
    <2>1. Kept /\ UNCHANGED <<made, swap, udd, staging>> BY DEF CheckedOut, server, dirs, Kept
    <2>2. /\ Answered(d, "CHECKOUT") /\ bind[d] # None
          /\ \A e \in Devices \ {d} : ops'[e] = ops[e] /\ bind'[e] = bind[e]
      BY CheckedOutRow
    <2>3. ops'[d]["PUBLISH"] = ops[d]["PUBLISH"]
      <3>1. \A j \in Kinds \ {"CHECKOUT", "RELEASE"} : ops'[d][j] = ops[d][j] BY CheckedOutRow
      <3> QED BY <3>1 DEF Kinds
    <2>4. ops'[d]["CHECKOUT"] \in {None, ops[d]["CHECKOUT"]} BY CheckedOutRow
    <2> QED BY <2>1, <2>2, <2>3, <2>4
  <1>2. CASE bind' = bind
    <2>1. \A e \in Devices, k \in Grants :
            ops'[e][k] = ops[e][k] \/ ops'[e][k] = None \/ ops'[e][k].done = TRUE
      BY <1>1 DEF Grants
    <2> QED BY <1>1, <1>2, <2>1, OpsData
  <1>3. CASE bind' # bind
    <2>1. /\ loc[d].ans.ok /\ bind'[d] # None
          /\ bind'[d].ver = bind[d].ver /\ bind'[d].base = bind[d].base
          /\ bind'[d].head = bind[d].head /\ bind'[d].lease = loc[d].ans.val
          /\ ops'[d]["CHECKOUT"] = None
          /\ bind[d].ver = loc[d].req.base /\ bind[d].head = loc[d].req.head
          /\ bind[d].base >= bind[d].ver
      BY <1>3, CheckedOutRow
    <2>2. PICK g : g = loc[d].req OBVIOUS
    <2>3. /\ g \in DOMAIN ledger /\ loc[d].ans.val = ledger[g] /\ g = ops[d]["CHECKOUT"].req
      BY <1>1, <2>1, <2>2, AnsweredFacts
    <2>4. Pending(d, "CHECKOUT") BY <1>1, AnsweredFacts DEF Pending, Live
    <2>5. ~Pending(d, "CHECKOUT")' BY <2>1 DEF Pending, Live
    <2>6. \A j \in Grants \ {"CHECKOUT"} : ops'[d][j] = ops[d][j] BY <1>1 DEF Grants
    <2>7. "CHECKOUT" \in Grants BY DEF Grants
    <2>8. bind'[d].base >= bind'[d].ver /\ bind'[d].ver = g.base /\ bind'[d].head = g.head
          /\ bind'[d].lease = ledger[g]
      BY <2>1, <2>2, <2>3
    <2> QED BY <1>1, <2>1, <2>3, <2>4, <2>5, <2>6, <2>7, <2>8, TakeData
  <1> QED BY <1>2, <1>3

----------------------------------------------------------------------------
(* A pin moves while no lease is held.                                      *)

LEMMA PinData ==
    ASSUME Base, DataInv, NEW d \in Devices, Kept, made' = made,
           \A e \in Devices \ {d} : bind'[e] = bind[e] /\ udd'[e] = udd[e] /\ DataOf(e)' = DataOf(e),
           bind'[d] # None, bind'[d].lease = 0, HeadOK(d)', \A e \in Devices : QuietOps(e)
    PROVE  DataInv'
  <1>1. HeadSnap' = HeadSnap BY DEF HeadSnap, Kept
  <1>2. GrantInv'
    <2>1. \A g \in DOMAIN ledger' :
            g.kind \in Grants /\ lease' # None /\ lease'.fence = ledger'[g] =>
              Len(log') = g.base /\ HeadSnap' = g.head
      BY <1>1 DEF DataInv, GrantInv, Kept
    <2>2. ASSUME NEW e \in Devices, NEW k \in Grants, Pending(e, k)', ops'[e][k].req \in DOMAIN ledger'
          PROVE  Fresh(ledger[ops[e][k].req])'
      <3>1. PICK g : g = ops'[e][k].req OBVIOUS
      <3>2. Pending(e, k) /\ g = ops[e][k].req /\ g \in DOMAIN ledger
        BY <2>2, <3>1 DEF QuietOps, Kept
      <3>3. Fresh(ledger[g]) BY <3>2 DEF DataInv, GrantInv
      <3>4. g.kind \in Grants
        <4>1. OpsOK(e) BY RowBefore
        <4> QED BY <3>2, <4>1 DEF OpsOK, Pending, Grants, Kinds
      <3>5. ledger[g] # 0 BY <3>2, <3>4, GrantFence
      <3>6. PICK f : f = ledger[g] OBVIOUS
      <3>7. Fresh(f)' BY <3>3, <3>5, <3>6 DEF Fresh
      <3>8. ledger'[ops'[e][k].req] = f BY <3>1, <3>6 DEF Kept
      <3> QED BY <3>7, <3>8
    <2> QED BY <2>1, <2>2 DEF GrantInv
  <1>3. ASSUME NEW e \in Devices PROVE HoldOK(e)' /\ SealedOK(e)' /\ HeadOK(e)'
    <2>1. CASE e = d
      <3>1. HoldOK(d)' BY LeaseFence DEF HoldOK, Kept
      <3>2. SealedOK(d)' BY SealFence DEF SealedOK
      <3> QED BY <2>1, <3>1, <3>2
    <2>2. CASE e # d
      <3>1. bind'[e] = bind[e] /\ udd'[e] = udd[e] /\ DataOf(e)' = DataOf(e) BY <2>2
      <3>2. HoldOK(e) /\ SealedOK(e) /\ HeadOK(e) BY DEF DataInv, HoldInv, SealedInv, HeadInv
      <3> QED BY <1>1, <3>1, <3>2 DEF HoldOK, SealedOK, HeadOK, Kept
    <2> QED BY <2>1, <2>2
  <1>4. SealInv' BY <1>1 DEF DataInv, SealInv, Kept
  <1>5. HistoryInv' BY DEF DataInv, HistoryInv, Committed, Kept
  <1> QED BY <1>2, <1>3, <1>4, <1>5 DEF DataInv, HoldInv, SealedInv, HeadInv

LEMMA FinishData ==
    ASSUME Base, DataInv, NEW d \in Devices, Finish(d) PROVE DataInv'
  <1>1. Kept /\ UNCHANGED <<made, swap, udd, staging>> /\ bind[d] # None
    BY DEF Finish, Working, Current, Bound, server, dirs, Kept
  <1>2. CASE EpochMoved(d)
    <2>1. Quarantine(d, "transition") /\ UNCHANGED ops BY <1>2 DEF Finish
    <2> QED BY <1>1, <2>1, QuarantineData
  <1>3. CASE ~EpochMoved(d)
    <2>1. PICK s : s = ops[d]["COMMIT"].req.snap OBVIOUS
    <2>2. /\ d \notin swap /\ bind'[d] # None /\ bind'[d].head = s /\ bind'[d].lease = 0
          /\ \A e \in Devices \ {d} : bind'[e] = bind[e]
          /\ s \in DOMAIN made /\ made[s].fence = bind[d].lease /\ Dropped(d, bind[d].lease)
      BY <1>3, <2>1, FinishRow
    <2>3. TypeOK /\ SealedOK(d) BY DEF Base, DataInv, SealedInv
    <2>4. \A e \in Devices : DataOf(e)' = DataOf(e) BY <1>1 DEF DataOf
    <2>5. DataOf(d) = udd[d] BY <2>2 DEF DataOf
    <2>6. made[s].data \subseteq udd[d] BY <1>1, <2>2, <2>3 DEF SealedOK
    <2>7. HeadOK(d)' BY <1>1, <2>2, <2>4, <2>5, <2>6 DEF HeadOK
    <2>8. \A e \in Devices, k \in Kinds : ops'[e][k] = ops[e][k] \/ ops'[e][k] = None
      BY <2>2, <2>3, DroppedRows
    <2>9. \A e \in Devices : QuietOps(e) BY <2>8 DEF QuietOps, Pending, Live, Grants, Kinds
    <2> QED BY <1>1, <2>2, <2>4, <2>7, <2>9, PinData
  <1> QED BY <1>2, <1>3, SMTT(40)

LEMMA AcceptTransitionsData ==
    ASSUME Base, DataInv, NEW d \in Devices, AcceptTransitions(d) PROVE DataInv'
  <1>1. Kept /\ UNCHANGED <<made, ops, swap, udd, staging>>
    BY DEF AcceptTransitions, server, dirs, Kept
  <1>2. /\ bind[d] # None /\ d \notin swap /\ bind'[d] # None /\ bind'[d].lease = 0
        /\ bind'[d].base = bind[d].base
        /\ \A e \in Devices \ {d} : bind'[e] = bind[e]
    BY AcceptRow
  <1>3. \A e \in Devices : DataOf(e)' = DataOf(e) BY <1>1 DEF DataOf
  <1>4. \A e \in Devices : QuietOps(e) BY <1>1 DEF QuietOps, Pending, Live
  <1>5. TypeOK /\ RowOK(bind[d]) /\ HeadOK(d) /\ HistoryInv /\ LogInv /\ bind[d] \in Binding
    BY <1>2, RowBefore, RowTypes DEF Base, DataInv, HeadInv
  <1>6. HeadOK(d)'
    <2>1. CASE bind'[d].head = bind[d].head /\ bind'[d].ver = bind[d].ver
      BY <1>1, <1>2, <1>3, <1>5, <2>1 DEF HeadOK
    <2>2. CASE /\ epoch > bind[d].epoch /\ bind'[d].head = LeafHead(bind[d])
               /\ bind'[d].ver \in DOMAIN log /\ log[bind'[d].ver] = bind'[d].head
               /\ bind[d].head # 0 => bind'[d].ver <= bind[d].ver
      <3> SUFFICES ASSUME bind'[d].head # 0, bind'[d].base >= bind'[d].ver
                   PROVE made[bind'[d].head].data \subseteq DataOf(d)
        BY <1>1, <1>3 DEF HeadOK
      <3>1. bind'[d].ver \in Nat /\ bind'[d].ver >= 1 /\ bind'[d].head \in Nat BY <1>5, <2>2, LogType
      <3>2. bind[d].base \in Nat /\ bind[d].ver \in Nat BY <1>2, <1>5, RowTypes
      <3>3. bind[d].base # 0 BY <1>2, <3>1, <3>2
      <3>4. /\ bind[d].head # 0 /\ bind[d].head \in DOMAIN made /\ bind[d].base >= bind[d].ver
        BY <1>5, <3>3 DEF RowOK
      <3>5. made[bind[d].head].data \subseteq DataOf(d) BY <1>2, <1>5, <3>4 DEF HeadOK
      <3>6. PICK b \in Binding : b = bind[d] BY <1>5
      <3>7. LeafHead(b) # None BY <2>2, <3>1, <3>6, NoneIsNew
      <3>8. /\ LeafHead(b) = leaves[epoch].new
            /\ made[leaves[epoch].new].data \subseteq made[b.head].data
        BY <1>5, <2>2, <3>4, <3>6, <3>7, LeafChain
      <3> QED BY <2>2, <3>5, <3>6, <3>8
    <2> QED BY <2>1, <2>2, AcceptRow
  <1> QED BY <1>1, <1>2, <1>3, <1>4, <1>6, PinData

LEMMA PinStepData ==
    ASSUME Base, DataInv, NEW d \in Devices, Pin(d) PROVE DataInv'
  <1>1. Kept /\ UNCHANGED <<made, ops, udd, staging>> BY DEF Pin, server, dirs, Kept
  <1>2. /\ bind'[d] # None /\ bind'[d].lease = 0 /\ bind'[d].head = loc[d].got
        /\ staging[d] = made[loc[d].got].data /\ staging[d] # None
        /\ \A e \in Devices \ {d} : bind'[e] = bind[e]
        /\ swap' = swap \cup {d}
    BY PinRow
  <1>3. \A e \in Devices \ {d} : DataOf(e)' = DataOf(e) BY <1>1, <1>2 DEF DataOf
  <1>4. DataOf(d)' = staging[d] BY <1>1, <1>2 DEF DataOf
  <1>5. HeadOK(d)' BY <1>1, <1>2, <1>4 DEF HeadOK
  <1>6. \A e \in Devices : QuietOps(e) BY <1>1 DEF QuietOps, Pending, Live
  <1> QED BY <1>1, <1>2, <1>3, <1>5, <1>6, PinData

----------------------------------------------------------------------------
(* A seal.                                                                  *)

\* What a seal writes.
LEMMA SealRow ==
    ASSUME Base, NEW d \in Devices, SealSnapshot(d)
    PROVE  /\ Kept /\ UNCHANGED <<up, bind, sess, swap, staging, tries>>
           /\ loc[d] = Idle /\ bind[d] # None /\ d \notin swap /\ bind[d].lease # 0
           /\ bind[d].q = ""
           /\ udd'[d] = udd[d] \cup {Len(made) + 1} /\ \A e \in Devices \ {d} : udd'[e] = udd[e]
           /\ DOMAIN made' = DOMAIN made \cup {Len(made) + 1} /\ Len(made) + 1 \notin DOMAIN made
           /\ made'[Len(made) + 1].data = udd'[d] /\ made'[Len(made) + 1].epoch = bind[d].epoch
           /\ made'[Len(made) + 1].fence = bind[d].lease
           /\ made'[Len(made) + 1].ver = bind[d].ver + 1
           /\ \A t \in DOMAIN made : made'[t] = made[t]
           /\ \A j \in Kinds \ {"UPLOAD"} : ops'[d][j] = ops[d][j]
           /\ \A e \in Devices \ {d} : ops'[e] = ops[e] /\ loc'[e] = loc[e]
           /\ ops'[d]["UPLOAD"] # None /\ ops'[d]["UPLOAD"].req.snap = Len(made) + 1
           /\ ops'[d]["UPLOAD"].req.kind = "UPLOAD" /\ ops'[d]["UPLOAD"].req.fence = bind[d].lease
           /\ loc'[d].pc = "wait" /\ loc'[d].req = ops'[d]["UPLOAD"].req /\ loc'[d].super = loc[d].super
           /\ loc'[d].ans = None
           /\ net' = net \cup {ops'[d]["UPLOAD"].req}
           /\ ~OfLease(d, "UPLOAD") /\ ~OfLease(d, "COMMIT")
  <1> DEFINE R == [data : Data, epoch : Nat, fence : Nat, ver : Nat]
  <1>1. PICK s : s = Len(made) + 1 OBVIOUS
  <1>2. PICK r : r = [kind |-> "UPLOAD", dev |-> d, n |-> 0, epoch |-> bind[d].epoch,
                      fence |-> bind[d].lease, base |-> bind[d].ver, head |-> 0, snap |-> s]
    OBVIOUS
  <1>3. PICK m : m = [data |-> udd'[d], epoch |-> bind[d].epoch, fence |-> bind[d].lease,
                      ver |-> bind[d].ver + 1]
    OBVIOUS
  <1>4. /\ Kept /\ UNCHANGED <<up, bind, sess, swap, staging, old, tries, faults>>
        /\ loc[d].pc = "idle" /\ bind[d] # None /\ d \notin swap /\ bind[d].lease # 0
        /\ bind[d].q = ""
        /\ s \in Snaps /\ udd' = [udd EXCEPT ![d] = udd[d] \cup {s}]
        /\ made' = Append(made, m) /\ Send(d, r, TRUE)
        /\ ops' = [ops EXCEPT ![d]["UPLOAD"] = Anew(r)]
        /\ ~OfLease(d, "UPLOAD") /\ ~OfLease(d, "COMMIT")
    BY <1>1, <1>2, <1>3
    DEF SealSnapshot, Sealing, Working, Current, Bound, At, server, Kept
  <1>5. TypeOK /\ DirOK(d) /\ loc[d] = Idle BY <1>4, RowBefore
  <1>6. udd[d] \in Data
    <2>1. udd[d] # None BY <1>4, <1>5 DEF DirOK
    <2> QED BY <1>5, <2>1 DEF TypeOK
  <1>7. udd'[d] = udd[d] \cup {s} /\ udd'[d] \in Data /\ \A e \in Devices \ {d} : udd'[e] = udd[e]
    <2>1. udd \in [Devices -> Data \cup {None}] BY <1>5 DEF TypeOK
    <2>2. PICK x \in Data : x = udd[d] \cup {s} BY <1>4, <1>6 DEF Data
    <2>3. udd' = [udd EXCEPT ![d] = x] BY <1>4, <2>2
    <2> QED BY <2>1, <2>2, <2>3
  <1>8. /\ bind[d].epoch \in Nat /\ bind[d].lease \in Nat /\ bind[d].ver \in Nat
    BY <1>4, <1>5, RowTypes
  <1>9. m \in R /\ m.epoch = bind[d].epoch /\ m.fence = bind[d].lease /\ m.ver = bind[d].ver + 1
        /\ m.data = udd'[d]
    BY <1>3, <1>7, <1>8
  <1>10. made \in Seq(R) /\ Len(made) \in Nat BY <1>5 DEF TypeOK
  <1> HIDE DEF R
  <1>11. /\ made' \in Seq(R) /\ Len(made') = s /\ DOMAIN made' = DOMAIN made \cup {s}
         /\ made'[s] = m /\ \A t \in DOMAIN made : made'[t] = made[t]
         /\ s \notin DOMAIN made
    <2>1. made' = Append(made, m) /\ m \in R BY <1>4, <1>9
    <2> QED BY ONLY <1>1, <1>10, <2>1
  <1>12. r \in Request BY <1>1, <1>2, <1>8, <1>10 DEF Request, Kinds
  <1>13. r.kind = "UPLOAD" /\ r.fence = bind[d].lease /\ r.snap = s BY <1>2
  <1>14. PICK x : x = Anew(r) OBVIOUS
  <1>15. x \in Operation \cup {None} /\ x # None /\ x.req = r BY <1>12, <1>14, AnewType
  <1>16. /\ ops'[d]["UPLOAD"] = x
         /\ \A j \in Kinds \ {"UPLOAD"} : ops'[d][j] = ops[d][j]
         /\ \A e \in Devices \ {d} : ops'[e] = ops[e]
    <2>1. "UPLOAD" \in Kinds BY DEF Kinds
    <2>2. ops' = [ops EXCEPT ![d]["UPLOAD"] = x] BY <1>4, <1>14
    <2> QED BY <1>5, <1>15, <2>1, <2>2, SetOp, ZenonT(60)
  <1>17. /\ loc'[d] = [pc |-> "wait", req |-> r, ans |-> None, fresh |-> TRUE, got |-> 0,
                       super |-> loc[d].super]
         /\ \A e \in Devices \ {d} : loc'[e] = loc[e]
         /\ net' = net \cup {r}
    BY <1>4, <1>5, <1>12, Sent
  <1>18. loc'[d].pc = "wait" /\ loc'[d].req = r /\ loc'[d].ans = None BY <1>17
  <1>19. loc'[d].super = loc[d].super BY <1>17
  <1> QED BY <1>1, <1>4, <1>5, <1>7, <1>9, <1>11, <1>13, <1>15, <1>16, <1>17, <1>18, <1>19, ZenonT(60)

LEMMA SealSnapshotData ==
    ASSUME Base, DataInv, NEW d \in Devices, SealSnapshot(d) PROVE DataInv'
  <1>1. PICK s : s = Len(made) + 1 OBVIOUS
  <1>2. /\ Kept /\ UNCHANGED <<bind, swap, staging>>
        /\ bind[d] # None /\ d \notin swap /\ bind[d].lease # 0
        /\ udd'[d] = udd[d] \cup {s} /\ \A e \in Devices \ {d} : udd'[e] = udd[e]
        /\ DOMAIN made' = DOMAIN made \cup {s} /\ s \notin DOMAIN made
        /\ made'[s].data = udd'[d] /\ made'[s].epoch = bind[d].epoch
        /\ made'[s].fence = bind[d].lease /\ made'[s].ver = bind[d].ver + 1
        /\ \A t \in DOMAIN made : made'[t] = made[t]
    BY <1>1, SealRow
  <1>3. \A e \in Devices, k \in Grants : ops'[e][k] = ops[e][k]
    <2>1. \A j \in Kinds \ {"UPLOAD"} : ops'[d][j] = ops[d][j] BY SealRow
    <2>2. \A e \in Devices \ {d} : ops'[e] = ops[e] BY SealRow, ZenonT(60)
    <2> QED BY <2>1, <2>2 DEF Grants, Kinds
  <1>4. TypeOK /\ LogInv /\ LedgerInv BY DEF Base
  <1>5. HeadSnap' = HeadSnap BY <1>2 DEF HeadSnap, Kept
  <1>6. Owns(d, bind[d].lease) BY <1>2, RowFence
  <1>7. \A v \in DOMAIN log : log[v] \in DOMAIN made /\ made'[log[v]] = made[log[v]]
    BY <1>2, <1>4 DEF LogInv
  <1>8. log # <<>> => HeadSnap \in DOMAIN made /\ made'[HeadSnap] = made[HeadSnap]
    BY <1>2, <1>4, HeadLogged
  <1>9. GrantInv'
    <2>1. \A h \in DOMAIN ledger' :
            h.kind \in Grants /\ lease' # None /\ lease'.fence = ledger'[h] =>
              Len(log') = h.base /\ HeadSnap' = h.head
      BY <1>2, <1>5 DEF DataInv, GrantInv, Kept
    <2>2. ASSUME NEW e \in Devices, NEW j \in Grants, Pending(e, j)', ops'[e][j].req \in DOMAIN ledger'
          PROVE  Fresh(ledger[ops[e][j].req])'
      <3>1. PICK h : h = ops'[e][j].req OBVIOUS
      <3>2. Pending(e, j) /\ h = ops[e][j].req /\ h \in DOMAIN ledger
        BY <1>2, <1>3, <2>2, <3>1 DEF Pending, Live, Kept
      <3>3. Fresh(ledger[h]) BY <3>2 DEF DataInv, GrantInv
      <3>4. PICK x : x = ledger[h] OBVIOUS
      <3>5. bind[d].lease # x BY <1>2, <3>3, <3>4 DEF Fresh
      <3>6. Fresh(x)' BY <1>2, <3>3, <3>4, <3>5 DEF Fresh
      <3>7. ledger'[ops'[e][j].req] = x BY <1>2, <3>1, <3>4 DEF Kept
      <3> QED BY <3>6, <3>7
    <2> QED BY <2>1, <2>2 DEF GrantInv
  <1>10. HoldInv' BY <1>2, <1>5 DEF DataInv, HoldInv, HoldOK, Kept
  <1>11. SealInv'
    <2> SUFFICES ASSUME NEW t \in DOMAIN made', lease # None, made'[t].fence = lease.fence
                 PROVE  /\ made'[t].ver = Len(log) + 1
                        /\ log # <<>> => made[HeadSnap].data \subseteq made'[t].data
      BY <1>2, <1>5, <1>8 DEF SealInv, Kept
    <2>1. CASE t \in DOMAIN made BY <1>2, <2>1 DEF DataInv, SealInv
    <2>2. CASE t = s
      <3>1. HoldOK(d) /\ HeadOK(d) BY DEF DataInv, HoldInv, HeadInv
      <3>2. bind[d].head = HeadSnap /\ bind[d].ver = Len(log) /\ bind[d].base >= bind[d].ver
        BY <1>2, <2>2, <3>1 DEF HoldOK
      <3>3. DataOf(d) = udd[d] BY <1>2 DEF DataOf
      <3>4. log # <<>> => made[HeadSnap].data \subseteq udd[d]
        BY <1>2, <1>4, <3>1, <3>2, <3>3, HeadLogged DEF HeadOK
      <3> QED BY <1>2, <2>2, <3>2, <3>4
    <2> QED BY <1>2, <2>1, <2>2
  <1>12. ASSUME NEW e \in Devices PROVE SealedOK(e)'
    <2> SUFFICES ASSUME NEW t \in DOMAIN made', bind[e] # None, made'[t].fence = bind[e].lease
                 PROVE made'[t].data \subseteq udd'[e] /\ made'[t].epoch = bind[e].epoch
      BY <1>2 DEF SealedOK
    <2>1. CASE t \in DOMAIN made
      <3>1. SealedOK(e) BY DEF DataInv, SealedInv
      <3>2. made[t].data \subseteq udd[e] /\ made[t].epoch = bind[e].epoch
        BY <1>2, <2>1, <3>1 DEF SealedOK
      <3>3. udd[e] \subseteq udd'[e] BY <1>2
      <3> QED BY <1>2, <2>1, <3>2, <3>3
    <2>2. CASE t = s
      <3>1. bind[e].lease = bind[d].lease BY <1>2, <2>2
      <3>2. Owns(e, bind[d].lease) BY <1>2, <3>1, RowFence
      <3>3. e = d BY <1>4, <1>6, <3>2, OwnerUnique
      <3> QED BY <1>2, <2>2, <3>3
    <2> QED BY <1>2, <2>1, <2>2
  <1>13. ASSUME NEW e \in Devices PROVE HeadOK(e)'
    <2>1. HeadOK(e) /\ BindOK(e) BY RowBefore DEF DataInv, HeadInv
    <2>2. bind[e] # None /\ bind[e].head # 0 => bind[e].head \in DOMAIN made
      BY <2>1 DEF BindOK, RowOK
    <2>3. DataOf(e) \subseteq DataOf(e)' BY <1>2 DEF DataOf
    <2> QED BY <1>2, <2>1, <2>2, <2>3 DEF HeadOK
  <1>14. HistoryInv'
    <2>1. HistoryInv BY DEF DataInv
    <2>2. \A v, w \in DOMAIN log' : v <= w => made'[log'[v]].data \subseteq made'[log'[w]].data
      BY <1>2, <1>7, <2>1 DEF HistoryInv, Kept
    <2>3. \A e \in DOMAIN leaves' :
         /\ leaves'[e].old \in DOMAIN made' /\ leaves'[e].new \in DOMAIN made'
         /\ made'[leaves'[e].new].data \subseteq made'[leaves'[e].old].data
      BY <1>2, <2>1 DEF HistoryInv, Kept
    <2>4. epoch' > 0 => Committed(leaves[epoch].new)' BY <1>2, <2>1 DEF HistoryInv, Kept, Committed
    <2> QED BY <2>2, <2>3, <2>4 DEF HistoryInv
  <1> QED BY <1>9, <1>10, <1>11, <1>12, <1>13, <1>14 DEF DataInv, SealedInv, HeadInv

----------------------------------------------------------------------------
(* The second part: the server.                                             *)

\* The stored answers of pending grants after a request other than a grant.
LEMMA ServeFresh ==
    ASSUME Base, DataInv, NEW r \in Request, UNCHANGED <<made, bind, ops>>,
           DOMAIN ledger' \subseteq DOMAIN ledger \cup {r},
           \A x \in DOMAIN ledger : ledger'[x] = ledger[x],
           r.kind \in Grants => r \in DOMAIN ledger \/ ledger'[r] = fence + 1
    PROVE  \A d \in Devices, k \in Grants :
             Pending(d, k)' /\ ops'[d][k].req \in DOMAIN ledger' => Fresh(ledger[ops[d][k].req])'
  <1> SUFFICES ASSUME NEW d \in Devices, NEW k \in Grants, Pending(d, k)', ops'[d][k].req \in DOMAIN ledger'
               PROVE  Fresh(ledger[ops[d][k].req])'
    OBVIOUS
  <1>1. PICK h : h = ops'[d][k].req OBVIOUS
  <1>2. Pending(d, k) /\ h = ops[d][k].req BY <1>1 DEF Pending, Live
  <1>3. OpsOK(d) BY RowBefore
  <1>4. h.kind = k BY <1>2, <1>3 DEF OpsOK, Pending, Grants, Kinds
  <1>5. PICK x : x = ledger'[h] OBVIOUS
  <1>6. CASE h \in DOMAIN ledger
    <2>1. Fresh(ledger[h]) BY <1>2, <1>6 DEF DataInv, GrantInv
    <2>2. x = ledger[h] BY <1>5, <1>6
    <2>3. Fresh(x)' BY <2>1, <2>2 DEF Fresh
    <2> QED BY <1>1, <1>5, <2>3
  <1>7. CASE h \notin DOMAIN ledger
    <2>1. h = r BY <1>1, <1>7
    <2>2. x = fence + 1 BY <1>4, <1>5, <1>7, <2>1
    <2>3. fence \in Nat BY DEF Base, TypeOK
    <2>4. \A s \in DOMAIN made : made[s].fence # x BY <2>2, <2>3, SealFence
    <2>5. \A e \in Devices : bind[e] # None => bind[e].lease # x
      <3> SUFFICES ASSUME NEW e \in Devices, bind[e] # None, bind[e].lease # 0 PROVE bind[e].lease # x
        BY <2>2, <2>3
      <3> QED BY <2>2, <2>3, RowFence
    <2>6. Fresh(x)' BY <2>4, <2>5 DEF Fresh
    <2> QED BY <1>1, <1>5, <2>6
  <1> QED BY <1>6, <1>7

\* The parts that read neither the server's lease nor its log.
LEMMA RowsData ==
    ASSUME DataInv, UNCHANGED <<made, bind, swap, udd, staging>>
    PROVE  SealedInv' /\ HeadInv'
  <1>1. \A d \in Devices : DataOf(d)' = DataOf(d) BY DEF DataOf
  <1> QED BY <1>1 DEF DataInv, SealedInv, SealedOK, HeadInv, HeadOK

LEMMA CommitHistory ==
    ASSUME Base, DataInv, NEW r \in Request, Known(r), r.kind = "COMMIT", Held(r),
           log' = Append(log, r.snap), UNCHANGED <<made, leaves, epoch>>
    PROVE  HistoryInv'
  <1>1. TypeOK /\ LogInv /\ HistoryInv /\ SealInv BY DEF Base, DataInv
  <1>2. log \in Seq(Snaps) /\ Len(log) \in Nat BY <1>1 DEF TypeOK
  <1>3. r.snap \in DOMAIN made /\ made[r.snap].fence = r.fence
    <2>1. r.snap \in DOMAIN made /\ r = Asks(r.kind, r.dev, r.snap) BY DEF Known, UpKinds
    <2> QED BY <2>1 DEF Asks
  <1>4. PICK n : n = Len(log) + 1 OBVIOUS
  <1>5. DOMAIN log' = DOMAIN log \cup {n} /\ log'[n] = r.snap /\ \A v \in DOMAIN log : log'[v] = log[v]
    <2>1. r.snap \in Snaps BY <1>1, <1>3, MadeType
    <2> QED BY ONLY <1>2, <1>4, <2>1, log' = Append(log, r.snap)
  <1>6. lease # None /\ made[r.snap].fence = lease.fence BY <1>3 DEF Held
  <1>7. log # <<>> => made[HeadSnap].data \subseteq made[r.snap].data BY <1>1, <1>3, <1>6 DEF SealInv
  <1>8. \A v \in DOMAIN log : made[log[v]].data \subseteq made[r.snap].data
    <2> SUFFICES ASSUME NEW v \in DOMAIN log PROVE made[log[v]].data \subseteq made[r.snap].data OBVIOUS
    <2>1. log # <<>> BY <1>2
    <2>2. Len(log) \in DOMAIN log /\ HeadSnap = log[Len(log)] /\ v <= Len(log)
      BY <1>1, <2>1, HeadLogged, LogType
    <2>3. made[log[v]].data \subseteq made[HeadSnap].data BY <1>1, <2>2 DEF HistoryInv
    <2> QED BY <1>7, <2>1, <2>3
  <1>9. \A v, w \in DOMAIN log' : v <= w => made'[log'[v]].data \subseteq made'[log'[w]].data
    <2> SUFFICES ASSUME NEW v \in DOMAIN log', NEW w \in DOMAIN log', v <= w
                 PROVE made[log'[v]].data \subseteq made[log'[w]].data
      OBVIOUS
    <2>1. CASE w \in DOMAIN log
      <3>1. v \in DOMAIN log BY <1>2, <1>4, <1>5, <2>1
      <3> QED BY <1>1, <1>5, <2>1, <3>1 DEF HistoryInv
    <2>2. CASE w = n /\ v \in DOMAIN log BY <1>5, <1>8, <2>2
    <2>3. CASE w = n /\ v = n BY <2>3
    <2> QED BY <1>5, <2>1, <2>2, <2>3
  <1>10. epoch' > 0 => Committed(leaves[epoch].new)'
    <2> SUFFICES ASSUME epoch > 0 PROVE Committed(leaves[epoch].new)' OBVIOUS
    <2>1. PICK v \in DOMAIN log : log[v] = leaves[epoch].new BY <1>1 DEF HistoryInv, Committed
    <2> QED BY <1>5, <2>1 DEF Committed
  <1> QED BY <1>1, <1>9, <1>10 DEF HistoryInv

LEMMA ServeData ==
    ASSUME Base, DataInv, NEW r \in net, Serve(r) PROVE DataInv'
  <1>1. UNCHANGED <<made, bind, ops, sess, swap, udd, staging>> BY DEF Serve, db, dirs
  <1>2. TypeOK /\ LogInv /\ LedgerInv /\ WireInv BY DEF Base
  <1>3. r \in Request /\ Known(r) /\ fence \in Nat BY <1>2 DEF TypeOK, WireInv
  <1>4. SealedInv' /\ HeadInv' BY <1>1, RowsData
  <1>5. CASE UNCHANGED server
    <2>1. Kept BY <1>5 DEF server, Kept
    <2> QED BY <1>1, <2>1, OpsData
  <1>6. CASE r \notin DOMAIN ledger /\ Accepts(r) /\ Effect(r) /\ UNCHANGED <<epoch, leaves>>
    <2>1. r.kind \in UpKinds => r.snap \in DOMAIN made BY <1>3 DEF Known
    <2>2. /\ DOMAIN ledger' = DOMAIN ledger \cup {r}
          /\ \A x \in DOMAIN ledger : ledger'[x] = ledger[x]
      BY <1>2, <1>3, <1>6, <2>1, EffectTypes
    <2>3. r.kind \in Grants => ledger'[r] = fence + 1
      <3> SUFFICES ASSUME r.kind \in Grants PROVE ledger'[r] = fence + 1 OBVIOUS
      <3>1. Store(r, fence + 1) BY <1>6 DEF Effect, DropLease, MoveUpload, AppendHead, Grant, Grants
      <3> QED BY <3>1, Stored
    <2>4. \A d \in Devices, k \in Grants :
            Pending(d, k)' /\ ops'[d][k].req \in DOMAIN ledger' => Fresh(ledger[ops[d][k].req])'
      BY <1>1, <1>3, <2>2, <2>3, ServeFresh
    <2>5. CASE r.kind \in Grants
      <3>1. /\ fence' = fence + 1 /\ log' = log
            /\ lease' = [dev |-> r.dev, fence |-> fence + 1, over |-> FALSE]
        BY <1>6, <2>5 DEF Effect, DropLease, MoveUpload, AppendHead, Grant, Grants
      <3>2. lease'.fence = fence + 1 BY <3>1
      <3>3. HeadSnap' = HeadSnap BY <3>1 DEF HeadSnap
      <3>4. Len(log) = r.base /\ HeadSnap = r.head
        <4>1. CASE r.kind = "CHECKOUT" BY <1>6, <4>1 DEF Accepts, AcceptsCheckout
        <4>2. CASE r.kind = "PUBLISH"
          <5>1. fence = 0 BY <1>6, <4>2 DEF Accepts, AcceptsPublish
          <5>2. r.base = 0 /\ r.head = 0 BY <1>3, <4>2 DEF Known
          <5>3. log = <<>>
            <6> SUFFICES ASSUME log # <<>> PROVE FALSE OBVIOUS
            <6>1. HeadSnap \in DOMAIN made BY <1>2, HeadLogged
            <6>2. made[HeadSnap].fence \in 1 .. fence BY <6>1, SealFence
            <6> QED BY <5>1, <6>2
          <5> QED BY <5>2, <5>3 DEF HeadSnap
        <4> QED BY <2>5, <4>1, <4>2 DEF Grants
      <3>5. GrantInv'
        <4>1. ASSUME NEW g \in DOMAIN ledger', g.kind \in Grants, lease'.fence = ledger'[g]
              PROVE  Len(log') = g.base /\ HeadSnap' = g.head
          <5>1. g = r
            <6> SUFFICES ASSUME g \in DOMAIN ledger PROVE FALSE BY <2>2
            <6>1. ledger'[g] \in 1 .. fence BY <2>2, <4>1, GrantFence
            <6> QED BY <1>3, <3>2, <4>1, <6>1
          <5> QED BY <3>1, <3>3, <3>4, <5>1
        <4> QED BY <2>4, <4>1 DEF GrantInv
      <3>6. ASSUME NEW d \in Devices PROVE HoldOK(d)'
        <4> SUFFICES ASSUME bind[d] # None, bind[d].lease = fence + 1 PROVE FALSE
          BY <1>1, <3>2 DEF HoldOK
        <4>1. bind[d].lease \in 1 .. fence BY <1>3, RowFence
        <4> QED BY <1>3, <4>1
      <3>7. SealInv'
        <4> SUFFICES ASSUME NEW s \in DOMAIN made, made[s].fence = fence + 1 PROVE FALSE
          BY <1>1, <3>2 DEF SealInv
        <4>1. made[s].fence \in 1 .. fence BY SealFence
        <4> QED BY <1>3, <4>1
      <3>8. HistoryInv' BY <1>1, <1>6, <3>1 DEF DataInv, HistoryInv, Committed
      <3> QED BY <1>4, <3>5, <3>6, <3>7, <3>8 DEF DataInv, HoldInv
    <2>6. CASE r.kind \notin Grants
      <3>1. \A g \in DOMAIN ledger' : g.kind \in Grants => g \in DOMAIN ledger BY <2>2, <2>6
      <3>2. CASE lease' = None
        <4>1. GrantInv' /\ HoldInv' /\ SealInv' BY <2>4, <3>2 DEF GrantInv, HoldInv, HoldOK, SealInv
        <4>2. HistoryInv'
          <5>1. CASE r.kind = "COMMIT"
            <6>1. log' = Append(log, r.snap) BY <1>6, <5>1 DEF Effect, DropLease, MoveUpload, AppendHead
            <6>2. Held(r) BY <1>6, <5>1 DEF Accepts, AcceptsCommit
            <6> QED BY <1>1, <1>3, <1>6, <5>1, <6>1, <6>2, CommitHistory
          <5>2. CASE r.kind # "COMMIT"
            <6>1. log' = log BY <1>6, <5>2 DEF Effect, DropLease, MoveUpload, AppendHead
            <6> QED BY <1>1, <1>6, <6>1 DEF DataInv, HistoryInv, Committed
          <5> QED BY <5>1, <5>2
        <4> QED BY <1>4, <4>1, <4>2 DEF DataInv
      <3>3. CASE lease' # None
        <4>1. lease' = lease /\ log' = log
          BY <1>6, <2>6, <3>3 DEF Effect, DropLease, MoveUpload, AppendHead, Grants
        <4>2. HeadSnap' = HeadSnap BY <4>1 DEF HeadSnap
        <4>3. GrantInv' BY <2>2, <2>4, <3>1, <4>1, <4>2 DEF DataInv, GrantInv
        <4>4. HoldInv' /\ SealInv' BY <1>1, <4>1, <4>2 DEF DataInv, HoldInv, HoldOK, SealInv
        <4>5. HistoryInv' BY <1>1, <1>6, <4>1 DEF DataInv, HistoryInv, Committed
        <4> QED BY <1>4, <4>3, <4>4, <4>5 DEF DataInv
      <3> QED BY <3>2, <3>3
    <2> QED BY <2>5, <2>6
  <1> QED BY <1>5, <1>6 DEF Serve

LEMMA ExpireData ==
    ASSUME Base, DataInv, Expire PROVE DataInv'
  <1>1. /\ UNCHANGED <<epoch, log, ledger, leaves, made, bind, ops, swap, udd, staging>>
        /\ lease # None /\ lease' = [lease EXCEPT !.over = TRUE]
    BY DEF Expire, db, dirs
  <1>2. TypeOK BY DEF Base
  <1>3. lease'.fence = lease.fence BY <1>1, <1>2, ExpiredLease
  <1>4. ASSUME NEW e \in Devices PROVE QuietRow(e) /\ QuietOps(e)
    BY <1>1 DEF QuietRow, QuietOps, DataOf, Pending, Live
  <1> QED BY <1>1, <1>3, <1>4, QuietData

LEMMA RestoreData ==
    ASSUME Base, DataInv, NEW keep \in DOMAIN log, ServerRestore(keep) PROVE DataInv'
  <1>1. /\ UNCHANGED <<fence, ledger, made, bind, ops, swap, udd, staging>>
        /\ epoch' = epoch + 1 /\ lease' = None /\ log' = SubSeq(log, 1, keep)
        /\ leaves' = Append(leaves, [old |-> HeadSnap, new |-> log[keep]])
    BY DEF ServerRestore, db, dirs
  <1>2. TypeOK /\ LogInv /\ HistoryInv BY DEF Base, DataInv
  <1>3. /\ DOMAIN log' = 1 .. keep /\ keep \in Nat /\ keep >= 1 /\ keep <= Len(log)
        /\ \A v \in 1 .. keep : v \in DOMAIN log /\ log'[v] = log[v]
    BY <1>1, <1>2, RestoredLog
  <1>4. SealedInv' /\ HeadInv' BY <1>1, RowsData
  <1>5. GrantInv'
    <2>1. ASSUME NEW d \in Devices, NEW k \in Grants, Pending(d, k)', ops'[d][k].req \in DOMAIN ledger'
          PROVE  Fresh(ledger[ops[d][k].req])'
      <3>1. Fresh(ledger[ops[d][k].req]) BY <1>1, <2>1 DEF DataInv, GrantInv, Pending, Live
      <3> QED BY <1>1, <3>1 DEF Fresh
    <2> QED BY <1>1, <2>1 DEF GrantInv
  <1>6. HoldInv' /\ SealInv' BY <1>1 DEF HoldInv, HoldOK, SealInv
  <1>7. HistoryInv'
    <2>1. \A v, w \in DOMAIN log' : v <= w => made'[log'[v]].data \subseteq made'[log'[w]].data
      BY <1>1, <1>2, <1>3, ZenonT(60) DEF HistoryInv
    <2>2. log # <<>> BY <1>2
    <2>3. /\ HeadSnap \in DOMAIN made /\ HeadSnap = log[Len(log)] /\ Len(log) \in DOMAIN log
          /\ log[keep] \in DOMAIN made
      BY <1>2, <2>2, HeadLogged DEF LogInv
    <2>4. made[log[keep]].data \subseteq made[HeadSnap].data BY <1>2, <1>3, <2>3 DEF HistoryInv
    <2>5. PICK l : l = [old |-> HeadSnap, new |-> log[keep]] OBVIOUS
    <2>6. l.old = HeadSnap /\ l.new = log[keep] BY <2>5
    <2>7. l \in [old : Snaps, new : Snaps] BY <1>2, <2>3, <2>5, LogType, MadeType
    <2>8. leaves \in Seq([old : Snaps, new : Snaps]) /\ Len(leaves) = epoch /\ epoch \in Nat
      BY <1>2 DEF TypeOK
    <2>9. /\ DOMAIN leaves' = DOMAIN leaves \cup {epoch + 1} /\ leaves'[epoch + 1] = l
          /\ \A e \in DOMAIN leaves : leaves'[e] = leaves[e]
      <3>1. leaves' = Append(leaves, l) BY <1>1, <2>5
      <3> QED BY ONLY <2>7, <2>8, <3>1
    <2>10. \A e \in DOMAIN leaves' :
         /\ leaves'[e].old \in DOMAIN made' /\ leaves'[e].new \in DOMAIN made'
         /\ made'[leaves'[e].new].data \subseteq made'[leaves'[e].old].data
      BY <1>1, <1>2, <2>3, <2>4, <2>6, <2>9 DEF HistoryInv
    <2>11. Committed(leaves[epoch].new)'
      <3>1. leaves'[epoch'].new = log[keep] BY <1>1, <2>6, <2>9
      <3>2. keep \in DOMAIN log' /\ log'[keep] = log[keep] BY <1>3
      <3> QED BY <3>1, <3>2 DEF Committed
    <2> QED BY <2>1, <2>10, <2>11 DEF HistoryInv
  <1> QED BY <1>4, <1>5, <1>6, <1>7 DEF DataInv

LEMMA InitData == Init => DataInv
  <1> SUFFICES ASSUME Init PROVE DataInv OBVIOUS
  <1>1. /\ DOMAIN ledger = {} /\ DOMAIN made = {} /\ DOMAIN log = {} /\ DOMAIN leaves = {}
        /\ lease = None /\ epoch = 0 /\ \A d \in Devices : bind[d] = None
    BY DEF Init
  <1>2. GrantInv /\ HoldInv /\ SealInv /\ SealedInv /\ HeadInv
    BY <1>1 DEF GrantInv, HoldInv, HoldOK, SealInv, SealedInv, SealedOK, HeadInv, HeadOK
  <1>3. HistoryInv BY <1>1 DEF HistoryInv
  <1> QED BY <1>2, <1>3 DEF DataInv

LEMMA StepData == ASSUME Base, DataInv, [Next]_vars PROVE DataInv'
  <1>1. ASSUME NEW d \in Devices, PushStep(d) PROVE DataInv'
    <2>1. CASE Settle(d) BY <2>1, SettleData
    <2>2. CASE Published(d) BY <2>2, PublishedData
    <2>3. CASE FailUpload(d) BY <2>3, FailUploadData
    <2>4. CASE Abandon(d) \/ AwaitRelease(d) \/ ReleaseRefused(d) \/ Finalize(d) \/ PrepareCommit(d)
      BY <2>4, StoresData
    <2>5. CASE Drop(d) BY <2>5, DropData
    <2>6. CASE ListedQuarantines(d) BY <2>6, ListedQuarantinesData
    <2>7. CASE AcceptTransitions(d) BY <2>7, AcceptTransitionsData
    <2>8. CASE \/ ReplayRelease(d) \/ ReplayCheckout(d) \/ CreateUpload(d) \/ ResendFinalize(d)
               \/ Commit(d) \/ SealRefused(d) \/ Transfer(d)
      BY <2>8, SendsData
    <2>9. CASE Checkout(d) BY <2>9, CheckoutData
    <2>10. CASE CheckedOut(d) BY <2>10, CheckedOutData
    <2>11. CASE SealSnapshot(d) BY <2>11, SealSnapshotData
    <2>12. CASE UploadCreated(d) \/ Finalized(d) \/ CommitReplied(d) BY <2>12, RepliesData
    <2>13. CASE Finish(d) BY <2>13, FinishData
    <2>14. CASE PullFetch(d) \/ PullFails(d) BY <2>14, PullsData
    <2>15. CASE Pin(d) BY <2>15, PinStepData
    <2> QED
      BY <1>1, <2>1, <2>2, <2>3, <2>4, <2>5, <2>6, <2>7, <2>8, <2>9, <2>10, <2>11, <2>12, <2>13,
         <2>14, <2>15
      DEF PushStep
  <1>2. ASSUME NEW d \in Devices,
               \/ StorePublish(d) \/ SendPublish(d) \/ CancelPublish(d)
               \/ Join(d) \/ PullBegin(d) \/ Unbind(d) \/ Crash(d) \/ Lose(d)
        PROVE  DataInv'
    BY <1>2, StorePublishData, SendsData, CancelPublishData, JoinData, PullsData, UnbindData, LoseData
  <1>3. ASSUME NEW r \in net, Serve(r) PROVE DataInv' BY <1>3, ServeData
  <1>4. CASE Expire BY <1>4, ExpireData
  <1>5. ASSUME NEW keep \in DOMAIN log, ServerRestore(keep) PROVE DataInv' BY <1>5, RestoreData
  <1>6. CASE UNCHANGED vars
    <2>1. Kept /\ UNCHANGED <<made, bind, ops, swap, udd, staging>>
      BY <1>6 DEF vars, server, db, dirs, Kept
    <2> QED BY <2>1, OpsData
  <1> QED BY <1>1, <1>2, <1>3, <1>4, <1>5, <1>6 DEF Next

----------------------------------------------------------------------------
(* The third part: pins and epochs.                                         *)

\* A command finds nothing out.
QuietLoc(e) ==
    /\ loc'[e].super => loc[e].super
    /\ loc'[e].pc \in {"fetch", "staged"} =>
         loc[e].pc \in {"fetch", "staged"} /\ loc'[e].got = loc[e].got
    /\ loc'[e].pc = "wait" /\ loc'[e].ans # None =>
         loc[e].pc = "wait" /\ loc'[e].req = loc[e].req /\ loc'[e].ans = loc[e].ans

LEMMA MoveQuiet ==
    ASSUME TypeOK, NEW d \in Devices,
           \/ Return(d) \/ UNCHANGED loc \/ Goto(d, "abandon") \/ Goto(d, "drop")
           \/ \E r, f : Send(d, r, f)
           \/ \E p \in {"abandon", "failed"} : \E r, g : loc' = [loc EXCEPT ![d] = Holding(p, r, g)]
    PROVE  QuietLoc(d) /\ \A e \in Devices \ {d} : loc'[e] = loc[e]
  <1>1. loc \in [Devices -> Local] BY DEF TypeOK
  <1>2. CASE UNCHANGED loc BY <1>2 DEF QuietLoc
  <1>3. CASE Return(d) \/ \E p \in {"abandon", "failed"} : \E r, g : loc' = [loc EXCEPT ![d] = Holding(p, r, g)]
    <2>1. PICK p, r, g : p \in {"idle", "abandon", "failed"} /\ loc' = [loc EXCEPT ![d] = Holding(p, r, g)]
      BY <1>3 DEF Return, Idle
    <2>2. PICK x : x = Holding(p, r, g) OBVIOUS
    <2>3. x.pc = p BY <2>2 DEF Holding
    <2>4. ~x.super BY <2>2 DEF Holding
    <2>5. loc'[d] = x /\ \A e \in Devices \ {d} : loc'[e] = loc[e] BY <1>1, <2>1, <2>2
    <2> QED BY <2>1, <2>3, <2>4, <2>5 DEF QuietLoc
  <1>4. CASE \E r, f : Send(d, r, f)
    <2>1. PICK r, f : Send(d, r, f) BY <1>4
    <2>2. PICK x : x = [pc |-> "wait", req |-> r, ans |-> None, fresh |-> f, got |-> 0,
                        super |-> loc[d].super]
      OBVIOUS
    <2>3. x.pc = "wait" /\ x.ans = None BY <2>2
    <2>4. x.super = loc[d].super BY <2>2
    <2>5. loc'[d] = x /\ \A e \in Devices \ {d} : loc'[e] = loc[e] BY <1>1, <2>1, <2>2 DEF Send
    <2> QED BY <2>3, <2>4, <2>5 DEF QuietLoc
  <1>5. CASE Goto(d, "abandon") \/ Goto(d, "drop")
    <2>1. PICK p \in {"abandon", "drop"} : Goto(d, p) BY <1>5
    <2>2. p \in PCs BY DEF PCs
    <2>3. /\ loc'[d].pc = p /\ loc'[d].super = loc[d].super
          /\ \A e \in Devices \ {d} : loc'[e] = loc[e]
      BY <2>1, <2>2, Gone
    <2> QED BY <2>1, <2>3 DEF QuietLoc
  <1> QED BY <1>2, <1>3, <1>4, <1>5

\* Rows that stay where they are.
SamePin(e) ==
    bind'[e] # None => /\ bind[e] # None /\ bind'[e].q = bind[e].q
                       /\ bind'[e].epoch = bind[e].epoch /\ bind'[e].head = bind[e].head

\* The row after a step.
PinAfter(e) ==
    bind'[e] # None =>
      /\ bind'[e].q # "rollback"
      /\ bind'[e].q = "transition" => bind'[e].epoch < epoch'
      /\ bind'[e].epoch = epoch' /\ bind'[e].head # 0 => Committed(bind[e].head)'

LEMMA SamePinAfter ==
    ASSUME NEW e, PinOK(e), SamePin(e), epoch' = epoch, \A s : Committed(s) => Committed(s)'
    PROVE  PinAfter(e)
  <1> SUFFICES ASSUME bind'[e] # None PROVE PinAfter(e) BY DEF PinAfter
  <1>1. /\ bind[e] # None /\ bind'[e].q = bind[e].q
        /\ bind'[e].epoch = bind[e].epoch /\ bind'[e].head = bind[e].head
    BY DEF SamePin
  <1>2. PICK s : s = bind[e].head OBVIOUS
  <1>3. bind[e].epoch = epoch /\ s # 0 => Committed(s)' BY <1>1, <1>2 DEF PinOK
  <1>4. bind'[e].epoch = epoch' /\ bind'[e].head # 0 => Committed(bind[e].head)'
    BY <1>1, <1>2, <1>3
  <1> QED BY <1>1, <1>4 DEF PinAfter, PinOK

\* The row has been looked after and the command found nothing out.
LEMMA PinQuiet ==
    ASSUME NEW e, PinOK(e), PinAfter(e), QuietLoc(e), epoch' = epoch,
           \A s : Committed(s) => Committed(s)',
           bind'[e] # None => \/ bind[e] # None /\ bind'[e].epoch = bind[e].epoch
                              \/ ~loc'[e].super /\ loc'[e].pc \notin {"fetch", "staged"}
    PROVE  PinOK(e)'
  <1>1. bind'[e] # None /\ loc'[e].super => bind'[e].epoch < epoch' BY DEF PinOK, QuietLoc
  <1>2. bind'[e] # None /\ loc'[e].pc \in {"fetch", "staged"} /\ bind'[e].epoch = epoch'
          => Committed(loc[e].got)'
    <2> SUFFICES ASSUME bind'[e] # None, loc'[e].pc \in {"fetch", "staged"}, bind'[e].epoch = epoch'
                 PROVE  Committed(loc[e].got)'
      OBVIOUS
    <2>1. loc[e].pc \in {"fetch", "staged"} /\ loc'[e].got = loc[e].got BY DEF QuietLoc
    <2>2. bind[e] # None /\ bind[e].epoch = epoch OBVIOUS
    <2>3. PICK s : s = loc[e].got OBVIOUS
    <2>4. Committed(s)' BY <2>1, <2>2, <2>3 DEF PinOK
    <2> QED BY <2>1, <2>3, <2>4
  <1>3. loc'[e].pc = "wait" /\ loc'[e].req.kind = "COMMIT" /\ loc'[e].ans # None =>
         (~loc'[e].ans.ok /\ loc'[e].ans.val # 0 => loc'[e].req.epoch < epoch')
    BY DEF PinOK, QuietLoc
  <1> QED BY <1>1, <1>2, <1>3 DEF PinOK, PinAfter

LEMMA PinStep ==
    ASSUME PinInv, NEW d \in Devices, Kept, PinOK(d)',
           \A e \in Devices \ {d} : bind'[e] = bind[e] /\ loc'[e] = loc[e]
    PROVE  PinInv'
  <1>1. \A s : Committed(s)' <=> Committed(s) BY DEF Committed, Kept
  <1>2. ASSUME NEW e \in Devices PROVE PinOK(e)'
    <2>1. CASE e = d BY <2>1
    <2>2. CASE e # d
      <3>1. PinOK(e) BY DEF PinInv
      <3>2. epoch' = epoch BY DEF Kept
      <3>3. SamePin(e) /\ QuietLoc(e) BY <2>2 DEF SamePin, QuietLoc
      <3>4. PinAfter(e) BY <1>1, <3>1, <3>2, <3>3, SamePinAfter
      <3> QED BY <1>1, <2>2, <3>1, <3>2, <3>3, <3>4, PinQuiet
    <2> QED BY <2>1, <2>2
  <1>3. \A r \in DOMAIN ledger' : r.kind = "COMMIT" /\ ~Committed(r.snap)' => r.epoch < epoch'
    BY <1>1 DEF PinInv, Kept
  <1> QED BY <1>2, <1>3 DEF PinInv

\* Steps that leave the rows alone.
LEMMA QuietStepPin ==
    ASSUME PinInv, NEW d \in Devices, Kept, bind' = bind, QuietLoc(d),
           \A e \in Devices \ {d} : loc'[e] = loc[e]
    PROVE  PinInv'
  <1>1. PinOK(d) /\ epoch' = epoch /\ \A s : Committed(s) => Committed(s)'
    BY DEF PinInv, Kept, Committed
  <1>2. SamePin(d) BY DEF SamePin
  <1>3. PinAfter(d) BY <1>1, <1>2, SamePinAfter
  <1>4. PinOK(d)' BY <1>1, <1>3, PinQuiet
  <1> QED BY <1>4, PinStep

LEMMA SendsPin ==
    ASSUME Base, PinInv, NEW d \in Devices,
           \/ Settle(d) \/ FailUpload(d) \/ Abandon(d) \/ ReleaseRefused(d) \/ AwaitRelease(d)
           \/ ReplayRelease(d) \/ Checkout(d) \/ ReplayCheckout(d) \/ SealSnapshot(d)
           \/ SealRefused(d) \/ CreateUpload(d) \/ PrepareCommit(d) \/ Transfer(d) \/ Finalize(d)
           \/ ResendFinalize(d) \/ Commit(d) \/ PullFails(d)
           \/ StorePublish(d) \/ SendPublish(d) \/ CancelPublish(d) \/ Crash(d)
    PROVE  PinInv'
  <1>1. TypeOK BY DEF Base
  <1>2. Kept /\ bind' = bind
    BY DEF Settle, FailUpload, Abandon, ReleaseRefused, AwaitRelease, ReplayRelease, Checkout,
           ReplayCheckout, SealSnapshot, SealRefused, CreateUpload, PrepareCommit, Transfer,
           Finalize, ResendFinalize, Commit, PullFails, StorePublish, SendPublish, CancelPublish,
           Crash, Resend, server, db, Kept
  <1>3. \/ Return(d) \/ UNCHANGED loc \/ Goto(d, "abandon") \/ Goto(d, "drop")
        \/ \E r, f : Send(d, r, f)
        \/ \E p \in {"abandon", "failed"} : \E r, g : loc' = [loc EXCEPT ![d] = Holding(p, r, g)]
    BY DEF Settle, FailUpload, Abandon, ReleaseRefused, AwaitRelease, ReplayRelease, Checkout,
           ReplayCheckout, SealSnapshot, SealRefused, CreateUpload, PrepareCommit, Transfer,
           Finalize, ResendFinalize, Commit, PullFails, StorePublish, SendPublish, CancelPublish,
           Crash, Resend
  <1>4. QuietLoc(d) /\ \A e \in Devices \ {d} : loc'[e] = loc[e] BY <1>1, <1>3, MoveQuiet
  <1> QED BY <1>2, <1>4, QuietStepPin

\* A server at the binding's epoch shows the pin's line.
LEMMA NotRolledBack ==
    ASSUME Base, NEW d \in Devices, PinOK(d), bind[d] # None, bind[d].epoch = epoch
    PROVE  ~HeadRolledBack(d)
  <1>1. TypeOK /\ LogInv /\ RowOK(bind[d]) BY RowBefore DEF Base
  <1>2. log \in Seq(Snaps) /\ Len(log) \in Nat BY <1>1 DEF TypeOK
  <1>3. CASE bind[d].head # 0
    <2>1. PICK v \in DOMAIN log : log[v] = bind[d].head BY <1>3 DEF PinOK, Committed
    <2>2. bind[d].ver = v BY <1>1, <1>3, <2>1 DEF LogInv, RowOK
    <2>3. v \in Nat /\ v >= 1 /\ v <= Len(log) BY <1>1, LogType
    <2>4. Len(log) = v => HeadSnap = bind[d].head BY <1>2, <2>1, <2>3 DEF HeadSnap
    <2> QED BY <1>2, <2>2, <2>3, <2>4 DEF HeadRolledBack
  <1>4. CASE bind[d].head = 0
    <2>1. bind[d].ver = 0 BY <1>1, <1>4 DEF RowOK
    <2>2. Len(log) = 0 => HeadSnap = 0 BY <1>2 DEF HeadSnap
    <2> QED BY <1>2, <1>4, <2>1, <2>2 DEF HeadRolledBack
  <1> QED BY <1>3, <1>4

LEMMA RepliesPin ==
    ASSUME Base, DataInv, PinInv, NEW d \in Devices,
           UploadCreated(d) \/ Finalized(d) \/ CommitReplied(d)
    PROVE  PinInv'
  <1>1. PICK k \in UpKinds, next \in {"failed", "abandon"} : Replied(d, k, next)
    BY DEF UploadCreated, Finalized, CommitReplied, UpKinds
  <1>2. Kept /\ bind' = bind /\ Answered(d, k) BY <1>1 DEF Replied, server, Kept
  <1>3. TypeOK /\ loc \in [Devices -> Local] BY DEF Base, TypeOK
  <1>4. CASE Return(d)
    <2>1. QuietLoc(d) /\ \A e \in Devices \ {d} : loc'[e] = loc[e] BY <1>3, <1>4, MoveQuiet
    <2> QED BY <1>2, <2>1, QuietStepPin
  <1>5. CASE ~Return(d)
    <2>1. PICK x : x = [pc |-> next, req |-> loc[d].req, ans |-> loc[d].ans, fresh |-> loc[d].fresh,
                        got |-> bind[d].lease, super |-> (k = "COMMIT" /\ loc[d].ans.val # 0)]
      OBVIOUS
    <2>2. ~loc[d].ans.ok /\ loc' = [loc EXCEPT ![d] = x] BY <1>1, <1>5, <2>1 DEF Replied
    <2>3. loc'[d] = x /\ \A e \in Devices \ {d} : loc'[e] = loc[e] BY <1>3, <2>2
    <2>4. x.pc = next BY <2>1
    <2>5. x.super => k = "COMMIT" /\ loc[d].ans.val # 0 BY <2>1
    <2>6. PinOK(d) /\ bind[d] # None /\ epoch' = epoch
      <3>1. k # "PUBLISH" BY DEF UpKinds
      <3>2. bind[d] # None BY <1>2, <3>1, AnsweredFacts
      <3> QED BY <1>2, <3>2 DEF PinInv, Kept
    <2>7. x.super => bind[d].epoch < epoch
      <3> SUFFICES ASSUME k = "COMMIT", loc[d].ans.val # 0 PROVE bind[d].epoch < epoch BY <2>5
      <3>1. loc[d].req.epoch < epoch BY <1>2, <2>2, <2>6 DEF PinOK, Answered, At
      <3>2. PICK r : r = loc[d].req OBVIOUS
      <3>3. Known(r) /\ r.kind \in UpKinds /\ bind[d].lease = r.fence
        BY <1>2, <3>2, AnsweredFacts
      <3>4. r.snap \in DOMAIN made /\ r = Asks(r.kind, r.dev, r.snap) BY <3>3 DEF Known
      <3>5. r.epoch = made[r.snap].epoch /\ r.fence = made[r.snap].fence BY <3>4 DEF Asks
      <3>6. SealedOK(d) BY DEF DataInv, SealedInv
      <3>7. made[r.snap].epoch = bind[d].epoch BY <2>6, <3>3, <3>4, <3>5, <3>6 DEF SealedOK
      <3> QED BY <3>1, <3>2, <3>5, <3>7
    <2>8. \A s : Committed(s) => Committed(s)' BY <1>2 DEF Kept, Committed
    <2>9. PinAfter(d)
      <3>1. SamePin(d) BY <1>2 DEF SamePin
      <3> QED BY <2>6, <2>8, <3>1, SamePinAfter
    <2>10. PinOK(d)'
      <3>1. bind'[d] = bind[d] BY <1>2
      <3>2. loc'[d].super => bind'[d].epoch < epoch' BY <2>3, <2>6, <2>7, <3>1
      <3>3. loc'[d].pc \in {"failed", "abandon"} BY <2>3, <2>4
      <3> QED BY <2>9, <3>2, <3>3 DEF PinOK, PinAfter
    <2> QED BY <1>2, <2>3, <2>10, PinStep
  <1> QED BY <1>4, <1>5

LEMMA PullsPin ==
    ASSUME Base, PinInv, NEW d \in Devices, PullBegin(d) \/ PullFetch(d)
    PROVE  PinInv'
  <1>1. TypeOK /\ LogInv /\ loc \in [Devices -> Local] BY DEF Base, TypeOK
  <1>2. Kept /\ bind' = bind BY DEF PullBegin, PullFetch, server, db, Kept
  <1>3. CASE PullFetch(d)
    <2>1. loc[d].pc = "fetch" /\ Goto(d, "staged") /\ "staged" \in PCs
      BY <1>3 DEF PullFetch, At, PCs
    <2>2. /\ loc'[d].pc = "staged" /\ loc'[d].got = loc[d].got /\ loc'[d].super = loc[d].super
          /\ \A e \in Devices \ {d} : loc'[e] = loc[e]
      BY <1>1, <2>1, Gone
    <2>3. QuietLoc(d) BY <2>1, <2>2 DEF QuietLoc
    <2> QED BY <1>2, <2>2, <2>3, QuietStepPin
  <1>4. CASE PullBegin(d)
    <2>1. PICK x : x = Holding("fetch", None, HeadSnap) OBVIOUS
    <2>2. log # <<>> /\ loc' = [loc EXCEPT ![d] = x] BY <1>4, <2>1 DEF PullBegin
    <2>3. x.pc = "fetch" /\ x.got = HeadSnap BY <2>1 DEF Holding
    <2>4. ~x.super BY <2>1 DEF Holding
    <2>5. loc'[d] = x /\ \A e \in Devices \ {d} : loc'[e] = loc[e] BY <1>1, <2>2
    <2>6. \A s : Committed(s) => Committed(s)' BY <1>2 DEF Kept, Committed
    <2>7. Committed(loc[d].got)'
      <3>1. Len(log) \in DOMAIN log /\ HeadSnap = log[Len(log)] BY <1>1, <2>2, HeadLogged
      <3>2. PICK s : s = HeadSnap OBVIOUS
      <3>3. Committed(s)' BY <2>6, <3>1, <3>2 DEF Committed
      <3>4. loc'[d].got = s BY <2>3, <2>5, <3>2
      <3> QED BY <3>3, <3>4
    <2>8. PinAfter(d)
      <3>1. SamePin(d) BY <1>2 DEF SamePin
      <3>2. PinOK(d) /\ epoch' = epoch BY <1>2 DEF PinInv, Kept
      <3> QED BY <2>6, <3>1, <3>2, SamePinAfter
    <2>9. PinOK(d)'
      <3>1. ~loc'[d].super BY <2>4, <2>5
      <3>2. loc'[d].pc = "fetch" BY <2>3, <2>5
      <3> QED BY <2>7, <2>8, <3>1, <3>2 DEF PinOK, PinAfter
    <2> QED BY <1>2, <2>5, <2>9, PinStep
  <1> QED BY <1>3, <1>4

\* Steps that return and change the row.
LEMMA RowPin ==
    ASSUME Base, PinInv, NEW d \in Devices, Kept, QuietLoc(d), PinAfter(d),
           bind'[d] # None => \/ bind[d] # None /\ bind'[d].epoch = bind[d].epoch
                              \/ ~loc'[d].super /\ loc'[d].pc \notin {"fetch", "staged"},
           \A e \in Devices \ {d} : bind'[e] = bind[e] /\ loc'[e] = loc[e]
    PROVE  PinInv'
  <1>1. PinOK(d) /\ epoch' = epoch BY DEF PinInv, Kept
  <1>2. \A s : Committed(s) => Committed(s)' BY DEF Kept, Committed
  <1>3. PinOK(d)' BY <1>1, <1>2, PinQuiet
  <1> QED BY <1>3, PinStep

LEMMA NewRowsPin ==
    ASSUME Base, PinInv, NEW d \in Devices, Join(d) \/ Unbind(d) \/ Published(d)
    PROVE  PinInv'
  <1>1. Kept BY DEF Join, Unbind, Published, server, Kept
  <1>2. TypeOK /\ BindOK(d) BY RowBefore
  <1>3. CASE Join(d)
    <2>1. UNCHANGED loc BY <1>3 DEF Join
    <2>2. /\ bind'[d].head = 0 /\ bind'[d].q = "" /\ bind[d] = None
          /\ \A e \in Devices \ {d} : bind'[e] = bind[e]
      BY <1>3, JoinRow
    <2>3. QuietLoc(d) BY <2>1 DEF QuietLoc
    <2>4. PinAfter(d) BY <2>2 DEF PinAfter
    <2>5. ~loc'[d].super /\ loc'[d].pc \notin {"fetch", "staged"} BY <1>2, <2>1, <2>2 DEF BindOK
    <2> QED BY <1>1, <2>1, <2>2, <2>3, <2>4, <2>5, RowPin
  <1>4. CASE Unbind(d)
    <2>1. UNCHANGED loc /\ bind' = [bind EXCEPT ![d] = None] BY <1>4 DEF Unbind
    <2>2. bind'[d] = None /\ \A e \in Devices \ {d} : bind'[e] = bind[e] BY <1>2, <2>1, SetBind
    <2>3. QuietLoc(d) BY <2>1 DEF QuietLoc
    <2>4. PinAfter(d) BY <2>2 DEF PinAfter
    <2> QED BY <1>1, <2>1, <2>2, <2>3, <2>4, RowPin
  <1>5. CASE Published(d)
    <2>1. \A e \in Devices \ {d} : ops'[e] = ops[e] /\ bind'[e] = bind[e] /\ loc'[e] = loc[e]
      BY ONLY Base, d \in Devices, <1>5, PublishedRow, Zenon
    <2>2. bind[d] = None BY <1>5, PublishedRow
    <2>3. bind'[d] # None => bind'[d].head = 0 /\ bind'[d].q = "" BY <1>5, <2>2, PublishedRow
    <2>4. PinAfter(d) BY <2>3 DEF PinAfter
    <2>5. loc'[d] = Idle \/ (loc'[d].pc = "abandon" /\ ~loc'[d].super) BY <1>5, PublishedRow
    <2>6. ~loc'[d].super /\ loc'[d].pc \in {"idle", "abandon"}
      <3>1. CASE loc'[d] = Idle BY <3>1, IdleLoc
      <3> QED BY <2>5, <3>1
    <2>7. QuietLoc(d) BY <2>6 DEF QuietLoc
    <2> QED BY <1>1, <2>1, <2>4, <2>6, <2>7, RowPin
  <1> QED BY <1>3, <1>4, <1>5

LEMMA RowsPin ==
    ASSUME Base, PinInv, NEW d \in Devices, CheckedOut(d) \/ Drop(d) \/ Lose(d) \/ ListedQuarantines(d)
    PROVE  PinInv'
  <1>1. Kept BY DEF CheckedOut, Drop, Lose, ListedQuarantines, server, Kept
  <1>2. TypeOK /\ BindOK(d) /\ LocOK(d) /\ PinOK(d) BY RowBefore DEF PinInv
  <1>3. epoch' = epoch BY <1>1 DEF Kept
  <1>4. \A s : Committed(s) => Committed(s)' BY <1>1 DEF Kept, Committed
  <1>5. CASE CheckedOut(d)
    <2>1. \A e \in Devices \ {d} : bind'[e] = bind[e] /\ loc'[e] = loc[e] BY <1>5, CheckedOutRow
    <2>2. SamePin(d) /\ (bind'[d] # None => bind[d] # None /\ bind'[d].epoch = bind[d].epoch)
      BY <1>5, CheckedOutRow DEF SamePin
    <2>3. PinAfter(d) BY <1>2, <1>3, <1>4, <2>2, SamePinAfter
    <2>4. QuietLoc(d)
      <3>1. Return(d) \/ \E r, f : Send(d, r, f) BY <1>5 DEF CheckedOut
      <3> QED BY <1>2, <3>1, MoveQuiet
    <2> QED BY <1>1, <2>1, <2>2, <2>3, <2>4, RowPin
  <1>6. CASE Lose(d) \/ ListedQuarantines(d)
    <2>1. Return(d) \/ UNCHANGED loc BY <1>6 DEF Lose, End, ListedQuarantines
    <2>2. QuietLoc(d) /\ \A e \in Devices \ {d} : loc'[e] = loc[e] BY <1>2, <2>1, MoveQuiet
    <2>3. bind' = bind \/ (bind[d] # None /\ bind[d].epoch < epoch /\ Quarantine(d, "transition"))
      <3>1. CASE Lose(d)
        <4>1. loc[d].super => bind[d] # None BY <1>2 DEF BindOK
        <4>2. loc[d].super => bind[d].epoch < epoch BY <1>2, <4>1 DEF PinOK
        <4> QED BY <3>1, <4>1, <4>2 DEF Lose, End, Quarantine
      <3>2. CASE ListedQuarantines(d)
        <4>1. bind[d] # None BY <3>2 DEF ListedQuarantines, Lists, Current, Bound
        <4>2. RowOK(bind[d]) /\ epoch \in Nat /\ bind[d].epoch \in Nat
          BY <1>2, <4>1, RowTypes DEF BindOK, TypeOK
        <4>3. bind[d].epoch <= epoch BY <4>2 DEF RowOK
        <4>4. bind[d].epoch # epoch BY <1>2, <3>2, <4>1, NotRolledBack DEF ListedQuarantines, EpochMoved
        <4>5. epoch > bind[d].epoch BY <4>2, <4>3, <4>4
        <4> QED BY <3>2, <4>1, <4>5, <4>2 DEF ListedQuarantines
      <3> QED BY <1>6, <3>1, <3>2
    <2>4. CASE bind' = bind BY <1>1, <2>2, <2>4, QuietStepPin
    <2>5. CASE bind[d] # None /\ bind[d].epoch < epoch /\ Quarantine(d, "transition")
      <3>1. /\ bind'[d].head = bind[d].head /\ bind'[d].epoch = bind[d].epoch
            /\ bind'[d].q = "transition" /\ \A e \in Devices \ {d} : bind'[e] = bind[e]
        BY <1>2, <2>5, Quarantined
      <3>2. epoch \in Nat /\ bind[d].epoch \in Nat BY <1>2, <2>5, RowTypes DEF TypeOK
      <3>3. PinAfter(d) BY <1>3, <2>5, <3>1, <3>2 DEF PinAfter
      <3> QED BY <1>1, <2>2, <2>5, <3>1, <3>3, RowPin
    <2> QED BY <2>3, <2>4, <2>5
  <1>7. CASE Drop(d)
    <2>1. PICK f : f = loc[d].req.fence OBVIOUS
    <2>2. /\ Return(d) /\ bind' = [bind EXCEPT ![d] = Unleased(bind[d], f, loc[d].super)]
          /\ At(d, "drop") \/ Answered(d, "RELEASE")
      BY <1>7, <2>1 DEF Drop
    <2>3. QuietLoc(d) /\ \A e \in Devices \ {d} : loc'[e] = loc[e] BY <1>2, <2>2, MoveQuiet
    <2>4. loc[d].req # None /\ bind[d] # None
      <3>1. loc[d].req # None BY <1>2, <2>2, AnsweredFacts DEF At, LocOK
      <3>2. bind[d] # None BY <1>2, <2>2, AnsweredFacts DEF At, BindOK
      <3> QED BY <3>1, <3>2
    <2>5. loc[d].req \in Request /\ bind[d] \in Binding /\ loc[d].super \in BOOLEAN
      BY <1>2, <2>4, RowTypes
    <2>6. f \in Nat BY <2>1, <2>5 DEF Request
    <2>7. PICK x : x = Unleased(bind[d], f, loc[d].super) OBVIOUS
    <2>8. x \in Binding /\ x.head = bind[d].head /\ x.epoch = bind[d].epoch
      BY <2>5, <2>6, <2>7, UnleasedRow
    <2>9. x.q = IF loc[d].super THEN "transition" ELSE bind[d].q BY <2>5, <2>6, <2>7, UnleasedRow
    <2>10. bind'[d] = x /\ \A e \in Devices \ {d} : bind'[e] = bind[e]
      BY <1>2, <2>2, <2>7, <2>8, SetRow
    <2>11. CASE ~loc[d].super
      <3>1. SamePin(d) BY <2>4, <2>8, <2>9, <2>10, <2>11 DEF SamePin
      <3>2. PinAfter(d) BY <1>2, <1>3, <1>4, <3>1, SamePinAfter
      <3> QED BY <1>1, <2>3, <2>4, <2>8, <2>10, <3>2, RowPin
    <2>12. CASE loc[d].super
      <3>1. bind[d].epoch < epoch BY <1>2, <2>4, <2>12 DEF PinOK
      <3>2. epoch \in Nat /\ bind[d].epoch \in Nat BY <1>2, <2>4, RowTypes DEF TypeOK
      <3>3. bind'[d].q = "transition" BY <2>9, <2>10, <2>12
      <3>4. PinAfter(d) BY <1>3, <2>8, <2>10, <3>1, <3>2, <3>3 DEF PinAfter
      <3> QED BY <1>1, <2>3, <2>4, <2>8, <2>10, <3>4, RowPin
    <2> QED BY <2>11, <2>12
  <1> QED BY <1>5, <1>6, <1>7

LEMMA AcceptTransitionsPin ==
    ASSUME Base, DataInv, PinInv, NEW d \in Devices, AcceptTransitions(d) PROVE PinInv'
  <1>1. Kept /\ loc' = loc BY DEF AcceptTransitions, server, Kept
  <1>2. /\ loc[d].pc = "idle" /\ bind[d] # None /\ bind[d].q = "transition"
        /\ \A e \in Devices \ {d} : bind'[e] = bind[e]
    BY AcceptRow
  <1>3. PinOK(d) /\ epoch' = epoch /\ TypeOK /\ loc[d] = Idle /\ RowOK(bind[d])
    BY <1>1, <1>2, RowBefore DEF PinInv, Kept
  <1>4. bind[d].epoch < epoch /\ bind[d].epoch \in Nat /\ epoch \in Nat
    BY <1>2, <1>3, RowTypes DEF PinOK, TypeOK
  <1>5. \A s : Committed(s) => Committed(s)' BY <1>1 DEF Kept, Committed
  <1>6. CASE bind'[d].q = "invalid" /\ bind'[d].head = bind[d].head /\ bind'[d].epoch = bind[d].epoch
    <2>1. PinAfter(d) BY <1>3, <1>4, <1>6 DEF PinAfter
    <2>2. QuietLoc(d) BY <1>1 DEF QuietLoc
    <2> QED BY <1>1, <1>2, <1>6, <2>1, <2>2, RowPin
  <1>7. CASE bind'[d].epoch = epoch /\ bind'[d].q = "" /\ (bind'[d].head # 0 => Committed(bind'[d].head))
    <2>1. PICK s : s = bind'[d].head OBVIOUS
    <2>2. s # 0 => Committed(s)' BY <1>5, <1>7, <2>1
    <2>3. PinAfter(d) BY <1>7, <2>1, <2>2 DEF PinAfter
    <2>4. QuietLoc(d) BY <1>1 DEF QuietLoc
    <2>5. ~loc'[d].super BY <1>1, <1>3 DEF Idle, Holding
    <2> QED BY <1>1, <1>2, <2>3, <2>4, <2>5, RowPin
  <1>8. \/ bind'[d].q = "invalid" /\ bind'[d].head = bind[d].head /\ bind'[d].epoch = bind[d].epoch
        \/ /\ bind'[d].epoch = epoch /\ bind'[d].q = "" /\ bind'[d].head = LeafHead(bind[d])
           /\ \/ bind'[d].head = bind[d].head
              \/ bind'[d].ver \in DOMAIN log /\ log[bind'[d].ver] = bind'[d].head
    <2>1. ~(epoch <= bind[d].epoch) BY <1>4
    <2> QED BY <2>1, AcceptRow
  <1>9. bind'[d].head # 0 /\ bind'[d].head = bind[d].head /\ bind'[d].head = LeafHead(bind[d])
          => Committed(bind'[d].head)
    <2> SUFFICES ASSUME bind[d].head # 0, bind[d].head = LeafHead(bind[d]) PROVE Committed(bind[d].head)
      OBVIOUS
    <2>1. bind[d] \in Binding /\ bind[d].head \in DOMAIN made /\ bind[d].head \in Nat
      BY <1>2, <1>3, RowTypes DEF RowOK
    <2>2. LeafHead(bind[d]) # None BY <2>1, NoneIsNew
    <2>3. LeafHead(bind[d]) = leaves[epoch].new BY <1>4, <2>1, <2>2, LeafChain DEF DataInv
    <2>4. Committed(leaves[epoch].new) BY <1>4, SMTT(40) DEF DataInv, HistoryInv
    <2> QED BY <2>3, <2>4
  <1> QED BY <1>6, <1>7, <1>8, <1>9 DEF Committed

LEMMA FinishPin ==
    ASSUME Base, PinInv, NEW d \in Devices, Finish(d) PROVE PinInv'
  <1>1. Kept /\ loc' = loc /\ bind[d] # None
    BY DEF Finish, Working, Current, Bound, server, Kept
  <1>2. PinOK(d) /\ epoch' = epoch /\ TypeOK /\ RowOK(bind[d]) BY <1>1, RowBefore DEF PinInv, Kept
  <1>3. QuietLoc(d) BY <1>1 DEF QuietLoc
  <1>4. epoch \in Nat /\ bind[d].epoch \in Nat BY <1>1, <1>2, RowTypes DEF TypeOK
  <1>5. CASE EpochMoved(d)
    <2>1. Quarantine(d, "transition") BY <1>5 DEF Finish
    <2>2. /\ bind'[d].epoch = bind[d].epoch /\ bind'[d].q = "transition"
          /\ \A e \in Devices \ {d} : bind'[e] = bind[e]
      BY <1>1, <1>2, <2>1, Quarantined
    <2>3. bind[d].epoch < epoch BY <1>2, <1>4, <1>5 DEF RowOK, EpochMoved
    <2>4. PinAfter(d) BY <1>2, <1>4, <2>2, <2>3 DEF PinAfter
    <2> QED BY <1>1, <1>3, <2>2, <2>4, RowPin
  <1>6. CASE ~EpochMoved(d)
    <2>1. PICK s : s = ops[d]["COMMIT"].req.snap OBVIOUS
    <2>2. /\ bind'[d].head = s /\ bind'[d].epoch = bind[d].epoch /\ bind'[d].q = bind[d].q
          /\ made[s].ver \in DOMAIN log /\ log[made[s].ver] = s
          /\ \A e \in Devices \ {d} : bind'[e] = bind[e]
      BY <1>6, <2>1, FinishRow
    <2>3. Committed(s)' BY <1>1, <2>2 DEF Committed, Kept
    <2>4. PinAfter(d) BY <1>1, <1>2, <2>2, <2>3 DEF PinAfter, PinOK
    <2> QED BY <1>1, <1>3, <2>2, <2>4, RowPin
  <1> QED BY <1>5, <1>6

LEMMA PinPin ==
    ASSUME Base, PinInv, NEW d \in Devices, Pin(d) PROVE PinInv'
  <1>1. Kept /\ Return(d) BY DEF Pin, server, Kept
  <1>2. /\ loc[d].pc = "staged" /\ bind[d] # None
        /\ bind'[d].head = loc[d].got /\ bind'[d].epoch = bind[d].epoch /\ bind'[d].q = bind[d].q
        /\ \A e \in Devices \ {d} : bind'[e] = bind[e] /\ loc'[e] = loc[e]
    BY PinRow
  <1>3. PinOK(d) /\ epoch' = epoch /\ TypeOK BY <1>1 DEF PinInv, Kept, Base
  <1>4. \A s : Committed(s) => Committed(s)' BY <1>1 DEF Kept, Committed
  <1>5. QuietLoc(d) BY <1>1, <1>3, MoveQuiet
  <1>6. PICK s : s = loc[d].got OBVIOUS
  <1>7. bind[d].epoch = epoch => Committed(s)' BY <1>2, <1>3, <1>4, <1>6 DEF PinOK
  <1>8. PinAfter(d) BY <1>2, <1>3, <1>6, <1>7 DEF PinAfter, PinOK
  <1> QED BY <1>1, <1>2, <1>5, <1>8, RowPin

LEMMA ServePin ==
    ASSUME Base, PinInv, NEW r \in net, Serve(r) PROVE PinInv'
  <1>1. UNCHANGED <<made, bind, ops>> /\ epoch' = epoch
    BY DEF Serve, db, server
  <1>2. TypeOK /\ LogInv /\ LedgerInv /\ WireInv BY DEF Base
  <1>3. r \in Request /\ Known(r) BY <1>2 DEF TypeOK, WireInv
  <1>4. r.kind \in UpKinds => r.snap \in DOMAIN made BY <1>3 DEF Known
  <1>5. \/ /\ UNCHANGED server
        \/ r \notin DOMAIN ledger /\ Accepts(r) /\ Effect(r)
    BY DEF Serve
  <1>6. /\ \A x \in DOMAIN ledger' : x \in DOMAIN ledger \cup {r}
        /\ \A s : Committed(s) => Committed(s)'
        /\ r \notin DOMAIN ledger /\ r \in DOMAIN ledger' /\ r.kind = "COMMIT" => Committed(r.snap)'
    <2>1. CASE UNCHANGED server BY <2>1 DEF server, Committed
    <2>2. CASE r \notin DOMAIN ledger /\ Accepts(r) /\ Effect(r)
      <3>1. DOMAIN ledger' = DOMAIN ledger \cup {r} BY <1>2, <1>3, <1>4, <2>2, EffectTypes
      <3>2. CASE r.kind # "COMMIT"
        <4>1. log' = log BY <2>2, <3>2 DEF Effect, DropLease, MoveUpload, AppendHead
        <4> QED BY <3>1, <3>2, <4>1 DEF Committed
      <3>3. CASE r.kind = "COMMIT"
        <4>1. log' = Append(log, r.snap) BY <2>2, <3>3 DEF Effect, DropLease, MoveUpload, AppendHead
        <4>2. r.snap \in Snaps BY <1>2, <1>4, <3>3, MadeType DEF UpKinds
        <4>3. log \in Seq(Snaps) /\ Len(log) \in Nat BY <1>2 DEF TypeOK
        <4>4. /\ DOMAIN log' = DOMAIN log \cup {Len(log) + 1} /\ log'[Len(log) + 1] = r.snap
              /\ \A v \in DOMAIN log : log'[v] = log[v]
          BY ONLY <4>1, <4>2, <4>3
        <4> QED BY <3>1, <4>4 DEF Committed
      <3> QED BY <3>2, <3>3
    <2> QED BY <1>5, <2>1, <2>2
  <1>7. PICK a : a \in Reply /\ Deliver(r, a)
                 /\ (r.kind = "COMMIT" /\ ~a.ok /\ a.val # 0 => r.epoch < epoch)
    <2>1. CASE r \in DOMAIN ledger
      <3>1. PICK a : a = [ok |-> Answers(r), val |-> ledger[r]] OBVIOUS
      <3>2. Deliver(r, a) BY <2>1, <3>1 DEF Serve
      <3>3. a \in Reply
        <4>1. Answers(r) \in BOOLEAN BY DEF Answers
        <4>2. ledger[r] \in Nat BY <1>2, <2>1 DEF TypeOK
        <4> QED BY <3>1, <4>1, <4>2, ReplyType
      <3>4. a.ok = Answers(r) BY <3>1
      <3>5. r.kind = "COMMIT" /\ ~a.ok => ~Committed(r.snap) BY <3>4 DEF Answers
      <3>6. r.kind = "COMMIT" /\ ~a.ok => r.epoch < epoch BY <2>1, <3>5 DEF PinInv
      <3> QED BY <3>2, <3>3, <3>6
    <2>2. CASE r \notin DOMAIN ledger /\ Accepts(r)
      <3>1. PICK a : a = [ok |-> TRUE, val |-> ledger'[r]] OBVIOUS
      <3>2. Deliver(r, a) BY <2>2, <3>1 DEF Serve
      <3>3. a \in Reply
        <4>1. TypeOK' BY ServeBase DEF Base
        <4>2. r \in DOMAIN ledger'
          <5>1. Effect(r) BY <2>2 DEF Serve
          <5> QED BY <1>2, <1>3, <1>4, <2>2, <5>1, EffectTypes
        <4>3. ledger'[r] \in Nat BY <4>1, <4>2 DEF TypeOK
        <4> QED BY <3>1, <4>3, ReplyType
      <3>4. a.ok BY <3>1
      <3> QED BY <3>2, <3>3, <3>4
    <2>3. CASE r \notin DOMAIN ledger /\ ~Accepts(r)
      <3>1. PICK a : a = [ok |-> FALSE, val |-> 0] OBVIOUS
      <3>2. Deliver(r, a) BY <2>3, <3>1 DEF Serve
      <3>3. a \in Reply BY <3>1, ReplyType
      <3>4. a.val = 0 BY <3>1
      <3> QED BY <3>2, <3>3, <3>4
    <2> QED BY <2>1, <2>2, <2>3
  <1>8. ASSUME NEW e \in Devices PROVE PinOK(e)'
    <2>1. PinOK(e) BY DEF PinInv
    <2>2. /\ loc'[e].pc = loc[e].pc /\ loc'[e].req = loc[e].req /\ loc'[e].got = loc[e].got
          /\ loc'[e].super = loc[e].super
          /\ \/ loc'[e] = loc[e]
             \/ loc[e].req = r /\ loc[e].ans = None /\ loc'[e].ans = a
      BY <1>2, <1>3, <1>7, Delivered
    <2>3. SamePin(e) BY <1>1 DEF SamePin
    <2>4. PinAfter(e) BY <1>1, <1>6, <2>1, <2>3, SamePinAfter
    <2>5. bind'[e] # None /\ loc'[e].super => bind'[e].epoch < epoch' BY <1>1, <2>1, <2>2 DEF PinOK
    <2>6. bind'[e] # None /\ loc'[e].pc \in {"fetch", "staged"} /\ bind'[e].epoch = epoch'
            => Committed(loc[e].got)'
      <3>1. PICK s : s = loc[e].got OBVIOUS
      <3>2. bind[e] # None /\ loc[e].pc \in {"fetch", "staged"} /\ bind[e].epoch = epoch => Committed(s)'
        BY <1>6, <2>1, <3>1 DEF PinOK
      <3>3. loc'[e].got = s BY <2>2, <3>1
      <3> QED BY <1>1, <2>2, <3>2, <3>3
    <2>7. loc'[e].pc = "wait" /\ loc'[e].req.kind = "COMMIT" /\ loc'[e].ans # None =>
           (~loc'[e].ans.ok /\ loc'[e].ans.val # 0 => loc'[e].req.epoch < epoch')
      <3>1. CASE loc'[e] = loc[e] BY <1>1, <2>1, <3>1 DEF PinOK
      <3>2. CASE loc[e].req = r /\ loc'[e].ans = a BY <1>1, <1>7, <2>2, <3>2
      <3> QED BY <2>2, <3>1, <3>2
    <2> QED BY <2>4, <2>5, <2>6, <2>7 DEF PinOK, PinAfter
  <1>9. ASSUME NEW x \in DOMAIN ledger', x.kind = "COMMIT", ~Committed(x.snap)' PROVE x.epoch < epoch'
    <2>1. x \in DOMAIN ledger BY <1>6, <1>9
    <2>2. ~Committed(x.snap)
      <3>1. PICK s : s = x.snap OBVIOUS
      <3> QED BY <1>6, <1>9, <3>1
    <2> QED BY <1>1, <1>9, <2>1, <2>2 DEF PinInv
  <1> QED BY <1>8, <1>9 DEF PinInv

LEMMA RestorePin ==
    ASSUME Base, NEW keep \in DOMAIN log, ServerRestore(keep), PinInv PROVE PinInv'
  <1>1. epoch' = epoch + 1 /\ UNCHANGED <<ledger, made, bind, loc>> BY DEF ServerRestore, db
  <1>2. TypeOK /\ WireInv BY DEF Base
  <1>3. epoch \in Nat BY <1>2 DEF TypeOK
  <1>4. \A x \in Request : Known(x) => x.epoch < epoch' BY <1>1, <1>3 DEF Known, Request
  <1>5. ASSUME NEW e \in Devices PROVE PinOK(e)'
    <2>1. PinOK(e) /\ LocOK(e) BY RowBefore DEF PinInv
    <2>2. bind[e] # None => bind[e].epoch \in Nat /\ bind[e].epoch <= epoch
      <3>1. bind[e] # None => RowOK(bind[e]) BY RowBefore
      <3> QED BY <1>2, <3>1, RowTypes DEF RowOK
    <2>3. bind'[e] # None => bind'[e].epoch < epoch' /\ bind'[e].epoch # epoch' BY <1>1, <1>3, <2>2
    <2>4. loc[e].pc = "wait" => loc[e].req.epoch < epoch'
      <3> SUFFICES ASSUME loc[e].pc = "wait" PROVE loc[e].req.epoch < epoch' OBVIOUS
      <3>1. loc[e].req # None BY <2>1 DEF LocOK, WaitOK
      <3>2. loc[e].req \in Request /\ Known(loc[e].req) BY <1>2, <2>1, <3>1, RowTypes DEF LocOK
      <3> QED BY <1>4, <3>2
    <2>5. bind'[e] # None => bind'[e].q # "rollback" BY <1>1, <2>1 DEF PinOK
    <2> QED BY <1>1, <2>3, <2>4, <2>5 DEF PinOK
  <1>6. ASSUME NEW x \in DOMAIN ledger' PROVE x.epoch < epoch'
    BY <1>1, <1>2, <1>4 DEF WireInv, TypeOK
  <1> QED BY <1>5, <1>6 DEF PinInv

LEMMA InitPin == Init => PinInv
  <1> SUFFICES ASSUME Init PROVE PinInv OBVIOUS
  <1>1. \A d \in Devices : bind[d] = None /\ loc[d] = Idle BY DEF Init
  <1>2. DOMAIN ledger = {} BY DEF Init
  <1>3. Idle.pc = "idle" BY DEF Idle, Holding
  <1> QED BY <1>1, <1>2, <1>3 DEF PinInv, PinOK

LEMMA StepPin == ASSUME Base, DataInv, PinInv, [Next]_vars PROVE PinInv'
  <1>1. ASSUME NEW d \in Devices, PushStep(d) PROVE PinInv'
    <2>1. CASE \/ Settle(d) \/ FailUpload(d) \/ Abandon(d) \/ ReleaseRefused(d) \/ AwaitRelease(d)
               \/ ReplayRelease(d) \/ Checkout(d) \/ ReplayCheckout(d) \/ SealSnapshot(d)
               \/ SealRefused(d) \/ CreateUpload(d) \/ PrepareCommit(d) \/ Transfer(d) \/ Finalize(d)
               \/ ResendFinalize(d) \/ Commit(d) \/ PullFails(d)
      BY <2>1, SendsPin
    <2>2. CASE UploadCreated(d) \/ Finalized(d) \/ CommitReplied(d) BY <2>2, RepliesPin
    <2>3. CASE Published(d) BY <2>3, NewRowsPin
    <2>4. CASE CheckedOut(d) \/ Drop(d) \/ ListedQuarantines(d) BY <2>4, RowsPin
    <2>5. CASE AcceptTransitions(d) BY <2>5, AcceptTransitionsPin
    <2>6. CASE Finish(d) BY <2>6, FinishPin
    <2>7. CASE Pin(d) BY <2>7, PinPin
    <2>8. CASE PullFetch(d) BY <2>8, PullsPin
    <2> QED BY <1>1, <2>1, <2>2, <2>3, <2>4, <2>5, <2>6, <2>7, <2>8 DEF PushStep
  <1>2. ASSUME NEW d \in Devices,
               \/ StorePublish(d) \/ SendPublish(d) \/ CancelPublish(d)
               \/ Join(d) \/ PullBegin(d) \/ Unbind(d) \/ Crash(d) \/ Lose(d)
        PROVE  PinInv'
    BY <1>2, SendsPin, NewRowsPin, PullsPin, RowsPin
  <1>3. ASSUME NEW r \in net, Serve(r) PROVE PinInv' BY <1>3, ServePin
  <1>4. CASE Expire
    BY <1>4 DEF Expire, db, PinInv, PinOK, Committed
  <1>5. ASSUME NEW keep \in DOMAIN log, ServerRestore(keep) PROVE PinInv' BY <1>5, RestorePin
  <1>6. CASE UNCHANGED vars
    BY <1>6 DEF vars, server, db, PinInv, PinOK, Committed
  <1> QED BY <1>1, <1>2, <1>3, <1>4, <1>5, <1>6 DEF Next

----------------------------------------------------------------------------
(* The fourth part: uploads and sessions.                                   *)

\* What a request for an upload says.
LEMMA UpRequest ==
    ASSUME NEW r, Known(r), r.kind \in UpKinds
    PROVE  /\ r.snap \in DOMAIN made /\ r.epoch = made[r.snap].epoch /\ r.fence = made[r.snap].fence
           /\ r.base = made[r.snap].ver - 1 /\ Owns(r.dev, made[r.snap].fence)
           /\ r = Asks(r.kind, r.dev, r.snap)
  <1>1. r.snap \in DOMAIN made /\ r = Asks(r.kind, r.dev, r.snap) /\ Owns(r.dev, r.fence)
    BY DEF Known
  <1>2. /\ r.epoch = made[r.snap].epoch /\ r.fence = made[r.snap].fence
        /\ r.base = made[r.snap].ver - 1
    BY <1>1 DEF Asks
  <1> QED BY <1>1, <1>2

\* There is one request of a kind for a snapshot.
LEMMA OneRequest ==
    ASSUME Base, NEW r, NEW x, Known(r), Known(x), r.kind \in UpKinds, x.kind = r.kind, x.snap = r.snap
    PROVE  x = r
  <1>1. Owns(r.dev, made[r.snap].fence) /\ Owns(x.dev, made[r.snap].fence) BY UpRequest
  <1>2. r.dev = x.dev BY <1>1, OwnerUnique DEF Base
  <1>3. r = Asks(r.kind, r.dev, r.snap) /\ x = Asks(x.kind, x.dev, x.snap) BY UpRequest
  <1> QED BY <1>2, <1>3

\* How a lease may change: it ends, or a new one gets the next fence.
LeaseMoves ==
    lease' # None =>
      \/ lease # None /\ lease'.fence = lease.fence /\ lease'.dev = lease.dev /\ (lease.over => lease'.over)
      \/ lease'.fence = fence + 1

LEMMA NotHeldStays ==
    ASSUME Base, NEW r, Known(r), r.kind \in UpKinds, LeaseMoves, ~Held(r)
    PROVE  ~Held(r)'
  <1> SUFFICES ASSUME Held(r)' PROVE FALSE OBVIOUS
  <1>1. lease' # None /\ lease'.dev = r.dev /\ lease'.fence = r.fence /\ ~lease'.over BY DEF Held
  <1>2. r.fence \in 1 .. fence /\ fence \in Nat
    <2>1. r.snap \in DOMAIN made /\ r.fence = made[r.snap].fence BY UpRequest
    <2> QED BY <2>1, SealFence DEF Base, TypeOK
  <1>3. lease'.fence # fence + 1 BY <1>1, <1>2
  <1>4. lease # None /\ lease'.fence = lease.fence /\ lease'.dev = lease.dev BY <1>1, <1>3 DEF LeaseMoves
  <1>5. lease.over => lease'.over BY <1>1, <1>3 DEF LeaseMoves
  <1> QED BY <1>1, <1>4, <1>5 DEF Held

LEMMA DoomedStays ==
    ASSUME Base, TypeOK', NEW s, Doomed(s), Committed(s)' => Committed(s), epoch <= epoch',
           DOMAIN ledger \subseteq DOMAIN ledger', LeaseMoves,
           \A r \in net' : r.kind = "COMMIT" /\ r.snap = s => r \in net
    PROVE  Doomed(s)'
  <1>1. ~Committed(s)' BY DEF Doomed
  <1>2. ASSUME NEW r \in net', r.kind = "COMMIT", r.snap = s
        PROVE  r \in DOMAIN ledger' \/ r.epoch < epoch' \/ ~Held(r)'
    <2>1. r \in net BY <1>2
    <2>2. Known(r) /\ r \in Request BY <2>1 DEF Base, WireInv, TypeOK
    <2>3. r.epoch \in Nat /\ epoch \in Nat /\ epoch' \in Nat BY <2>2 DEF Request, Base, TypeOK
    <2>4. CASE r \in DOMAIN ledger BY <2>4
    <2>5. CASE r.epoch < epoch BY <2>3, <2>5
    <2>6. CASE ~Held(r) BY <1>2, <2>2, <2>6, NotHeldStays DEF UpKinds
    <2> QED BY <1>2, <2>1, <2>4, <2>5, <2>6 DEF Doomed
  <1> QED BY <1>1, <1>2 DEF Doomed

\* A snapshot without a session that was prepared has no commit on its way.
LEMMA OpenDoomed ==
    ASSUME NEW s, UploadOK(s), sess[s] \in {"none", "OPEN"}
    PROVE  Doomed(s)
  BY DEF UploadOK, Doomed

\* One device's step and a snapshot whose session it leaves alone.
LEMMA UploadSame ==
    ASSUME Base, TypeOK', NEW s \in DOMAIN made, UploadOK(s), Kept, up'[s] = up[s], sess'[s] = sess[s],
           made'[s] = made[s],
           \A r \in net' : r.kind = "COMMIT" /\ r.snap = s => r \in net \/ sess[s] = "READY"
    PROVE  UploadOK(s)'
  <1>1. /\ \A k : InLedger(k, s)' <=> InLedger(k, s)
        /\ Committed(s)' <=> Committed(s)
        /\ epoch' = epoch /\ ledger' = ledger
    BY DEF Kept, InLedger, Committed
  <1>2. sess'[s] = "ABORTED" => Doomed(s)'
    <2> SUFFICES ASSUME sess[s] = "ABORTED" PROVE Doomed(s)' OBVIOUS
    <2>1. Doomed(s) BY DEF UploadOK
    <2>2. LeaseMoves BY DEF LeaseMoves, Kept
    <2>3. epoch <= epoch' BY <1>1 DEF Base, TypeOK
    <2> QED BY <1>1, <2>1, <2>2, <2>3, DoomedStays
  <1>3. ASSUME NEW r \in net' \cup DOMAIN ledger', r.kind = "COMMIT", r.snap = s
        PROVE  sess'[s] \in {"READY", "COMMITTED", "ABORTED"}
    <2>1. CASE r \in net \cup DOMAIN ledger BY <1>3, <2>1 DEF UploadOK
    <2> QED BY <1>1, <1>3, <2>1
  <1> QED BY <1>1, <1>2, <1>3 DEF UploadOK

LEMMA UploadStep ==
    ASSUME Base, TypeOK', UploadInv, Kept, made' = made,
           \A s \in DOMAIN made : \/ UploadOK(s)'
                                  \/ up'[s] = up[s] /\ sess'[s] = sess[s],
           \A r \in net' : r \in net \/ r.kind # "COMMIT" \/ sess[r.snap] = "READY"
    PROVE  UploadInv'
  <1> SUFFICES ASSUME NEW s \in DOMAIN made PROVE UploadOK(s)' BY DEF UploadInv
  <1>1. CASE up'[s] = up[s] /\ sess'[s] = sess[s]
    <2>1. UploadOK(s) BY DEF UploadInv
    <2>2. \A r \in net' : r.kind = "COMMIT" /\ r.snap = s => r \in net \/ sess[s] = "READY" OBVIOUS
    <2> QED BY <1>1, <2>1, <2>2, UploadSame
  <1> QED BY <1>1

----------------------------------------------------------------------------
(* The steps of other devices.                                              *)

\* What a step of d does to the sessions.
OwnSessions(d) ==
    /\ \A s \in DOMAIN made : sess'[s] = sess[s] \/ Owns(d, made[s].fence)
    /\ \A s \in DOMAIN made' \ DOMAIN made : sess'[s] = "none"
    /\ \A s \in DOMAIN made : s \in DOMAIN made' /\ made'[s] = made[s]
    /\ \A r \in net' : r \in net \/ r.dev = d

LEMMA OthersQuit ==
    ASSUME Base, NEW d, NEW e, e # d, OwnSessions(d), NEW f, f = 0 \/ Owns(e, f), Quit(f)
    PROVE  Quit(f)'
  <1> SUFFICES ASSUME NEW s \in DOMAIN made', made'[s].fence = f PROVE sess'[s] \notin {"OPEN", "READY"}
    BY DEF Quit
  <1>1. CASE s \in DOMAIN made
    <2>1. made[s].fence = f /\ f # 0 BY <1>1, SealFence DEF OwnSessions
    <2>2. ~Owns(d, f) BY <2>1, OwnerUnique DEF Base
    <2>3. sess'[s] = sess[s] BY <1>1, <2>1, <2>2 DEF OwnSessions
    <2> QED BY <1>1, <2>1, <2>3 DEF Quit
  <1>2. CASE s \notin DOMAIN made BY <1>2 DEF OwnSessions
  <1> QED BY <1>1, <1>2

LEMMA OthersDoomed ==
    ASSUME Base, Base', NEW d, NEW e, e # d, OwnSessions(d), Kept, NEW s \in DOMAIN made,
           Owns(e, made[s].fence), Doomed(s)
    PROVE  Doomed(s)'
  <1>1. \A r \in net' : r.kind = "COMMIT" /\ r.snap = s => r \in net
    <2> SUFFICES ASSUME NEW r \in net', r.kind = "COMMIT", r.snap = s, r.dev = d PROVE FALSE
      BY DEF OwnSessions
    <2>1. Known(r)' BY DEF Base, WireInv
    <2>2. r.kind \in UpKinds BY DEF UpKinds
    <2>3. /\ r = [kind |-> r.kind, dev |-> r.dev, n |-> 0, epoch |-> made'[s].epoch,
                  fence |-> made'[s].fence, base |-> made'[s].ver - 1, head |-> 0, snap |-> s]
          /\ Owns(r.dev, r.fence)'
      BY <2>1, <2>2 DEF Known, Asks
    <2>4. r.fence = made[s].fence BY <2>3 DEF OwnSessions
    <2>5. Owns(d, made[s].fence) BY <2>3, <2>4 DEF Owns, Kept
    <2> QED BY <2>5, OwnerUnique DEF Base
  <1>2. Committed(s)' => Committed(s) BY DEF Kept, Committed
  <1>3. epoch <= epoch' /\ DOMAIN ledger \subseteq DOMAIN ledger' /\ LeaseMoves
    BY DEF Kept, LeaseMoves, Base, TypeOK
  <1> QED BY <1>1, <1>2, <1>3, DoomedStays DEF Base

LEMMA OthersSession ==
    ASSUME Base, Base', NEW d \in Devices, NEW e \in Devices, e # d, OwnSessions(d), Kept,
           bind'[e] = bind[e], ops'[e] = ops[e], loc'[e] = loc[e], CommandOK(e), HolderOK(e)
    PROVE  CommandOK(e)' /\ HolderOK(e)'
  <1>1. TypeOK /\ BindOK(e) /\ OpsOK(e) /\ LocOK(e) BY RowBefore
  <1>2. \A f : (f = 0 \/ Owns(e, f)) /\ Quit(f) => Quit(f)' BY OthersQuit
  <1>3. \A s \in DOMAIN made : Owns(e, made[s].fence) => sess'[s] = sess[s]
    BY OwnerUnique DEF Base, OwnSessions
  <1>4. \A s \in DOMAIN made : Owns(e, made[s].fence) /\ Doomed(s) => Doomed(s)' BY OthersDoomed
  <1>5. ASSUME NEW r, Known(r), r.dev = e, r.kind \in UpKinds
        PROVE  r.snap \in DOMAIN made /\ Owns(e, made[r.snap].fence) /\ sess'[r.snap] = sess[r.snap]
    BY <1>3, <1>5, UpRequest
  <1>6. bind[e] # None => bind[e].lease = 0 \/ Owns(e, bind[e].lease) BY <1>1 DEF BindOK
  <1>7. CommandOK(e)'
    <2>1. loc[e].req # None => Known(loc[e].req) /\ loc[e].req.dev = e BY <1>1 DEF LocOK
    <2>2. PICK r : r = loc[e].req OBVIOUS
    <2>3. r # None /\ r.kind \in UpKinds =>
            sess'[r.snap] = sess[r.snap] /\ (Doomed(r.snap) => Doomed(r.snap)')
      BY <1>4, <1>5, <2>1, <2>2
    <2>4. loc[e].pc = "wait" => r # None BY <1>1, <2>2 DEF LocOK, WaitOK
    <2>5. loc'[e].pc = "wait" /\ loc'[e].req.kind = "FINALIZE" => sess'[loc'[e].req.snap] = "OPEN"
      BY <2>2, <2>3, <2>4 DEF CommandOK, UpKinds
    <2>6. PICK s : s = r.snap OBVIOUS
    <2>7. loc[e].pc = "wait" /\ r.kind = "COMMIT" =>
            /\ sess'[s] = "READY"
            /\ loc[e].ans # None /\ ~loc[e].ans.ok => Doomed(s)'
      BY <2>2, <2>3, <2>4, <2>6 DEF CommandOK, UpKinds
    <2>8. loc[e].pc = "failed" => sess'[s] \in {"OPEN", "READY"} /\ Doomed(s)'
      <3>1. loc[e].pc = "failed" => r # None /\ r.kind \in UpKinds BY <1>1, <2>2 DEF LocOK
      <3> QED BY <2>2, <2>3, <2>6, <3>1 DEF CommandOK
    <2>9. loc[e].pc = "abandon" => Quit(loc[e].got)'
      <3>1. PICK f : f = loc[e].got OBVIOUS
      <3>2. loc[e].pc = "abandon" => Quit(f)' BY <1>1, <1>2, <3>1 DEF LocOK, CommandOK
      <3> QED BY <3>1, <3>2
    <2>10. loc[e].pc = "drop" => Quit(loc[e].req.fence)'
      <3>1. PICK f : f = loc[e].req.fence OBVIOUS
      <3>2. loc[e].pc = "drop" => Owns(e, f) BY <1>1, <2>1, <3>1 DEF LocOK, Known
      <3>3. loc[e].pc = "drop" => Quit(f)' BY <1>2, <3>1, <3>2 DEF CommandOK
      <3> QED BY <3>1, <3>3
    <2>11. loc[e].super /\ loc[e].pc # "failed" => Quit(bind[e].lease)'
      <3>1. PICK f : f = bind[e].lease OBVIOUS
      <3>2. loc[e].super => f = 0 \/ Owns(e, f) BY <1>1, <1>6, <3>1 DEF BindOK
      <3>3. loc[e].super /\ loc[e].pc # "failed" => Quit(f)' BY <1>2, <3>1, <3>2 DEF CommandOK
      <3> QED BY <3>1, <3>3
    <2>12. loc'[e].req.snap = s BY <2>2, <2>6
    <2> QED BY <2>2, <2>5, <2>7, <2>8, <2>9, <2>10, <2>11, <2>12 DEF CommandOK
  <1>8. HolderOK(e)'
    <2>1. ASSUME NEW k \in Kinds, ops[e][k] # None
          PROVE  Known(ops[e][k].req) /\ ops[e][k].req.dev = e /\ ops[e][k].req.kind = k
      BY <1>1, <2>1 DEF OpsOK, Live
    <2>2. ops'[e]["RELEASE"] # None => Quit(ops[e]["RELEASE"].req.fence)'
      <3>1. PICK f : f = ops[e]["RELEASE"].req.fence OBVIOUS
      <3>2. ops[e]["RELEASE"] # None => Owns(e, f) BY <2>1, <3>1 DEF Known, Kinds
      <3>3. ops[e]["RELEASE"] # None => Quit(f)' BY <1>2, <3>1, <3>2 DEF HolderOK, Live
      <3> QED BY <3>1, <3>3
    <2>3. bind'[e] # None /\ bind'[e].q = "transition" => Quit(bind[e].lease)'
      <3>1. PICK f : f = bind[e].lease OBVIOUS
      <3>2. bind[e] # None /\ bind[e].q = "transition" => Quit(f)' BY <1>2, <1>6, <3>1 DEF HolderOK
      <3> QED BY <3>1, <3>2
    <2>4. \A k \in {"FINALIZE", "COMMIT"} : ops'[e][k] # None =>
            sess'[ops'[e][k].req.snap] = sess[ops[e][k].req.snap]
      BY <1>5, <2>1 DEF UpKinds, Kinds
    <2>5. ASSUME NEW s \in DOMAIN made', bind'[e] # None, made'[s].fence = bind'[e].lease, sess'[s] # "none"
          PROVE  Live(e, "UPLOAD")' /\ ops'[e]["UPLOAD"].done /\ ops'[e]["UPLOAD"].req.snap = s
      <3>1. s \in DOMAIN made /\ made[s].fence = bind[e].lease BY <2>5 DEF OwnSessions
      <3>2. Owns(e, made[s].fence) BY <1>6, <2>5, <3>1, SealFence
      <3>3. sess[s] # "none" BY <1>3, <2>5, <3>1, <3>2
      <3>4. Live(e, "UPLOAD") /\ ops[e]["UPLOAD"].done /\ ops[e]["UPLOAD"].req.snap = s
        BY <2>5, <3>1, <3>3 DEF HolderOK
      <3> QED BY <3>4 DEF Live
    <2>6. \A k \in {"FINALIZE", "COMMIT"} : Live(e, k)' => sess'[ops'[e][k].req.snap] # "none"
      BY <2>4 DEF HolderOK, Live
    <2>7. Live(e, "COMMIT")' /\ ops'[e]["COMMIT"].done => sess'[ops'[e]["COMMIT"].req.snap] = "COMMITTED"
      BY <2>4 DEF HolderOK, Live
    <2> QED BY <2>2, <2>3, <2>5, <2>6, <2>7 DEF HolderOK, Live
  <1> QED BY <1>7, <1>8

----------------------------------------------------------------------------
(* The fourth part: steps of a device that leave the sessions alone.        *)

\* The operations and the lease of d: a new release is of a fence that was
\* given up, a new lease has nothing sealed under it.
SameHolder(d) ==
    /\ \/ ops'[d]["UPLOAD"] = ops[d]["UPLOAD"]
       \/ \A s \in DOMAIN made : bind'[d] # None /\ made[s].fence = bind'[d].lease => sess[s] = "none"
    /\ \A k \in {"FINALIZE", "COMMIT"} : ops'[d][k] = ops[d][k] \/ ops'[d][k] = None
    /\ \/ ops'[d]["RELEASE"] = ops[d]["RELEASE"] \/ ops'[d]["RELEASE"] = None
       \/ Quit(ops'[d]["RELEASE"].req.fence)
    /\ bind'[d] # None =>
         \/ \A s \in DOMAIN made : made[s].fence # bind'[d].lease
         \/ /\ bind[d] # None /\ bind'[d].lease = bind[d].lease
            /\ bind'[d].q = "transition" => bind[d].q = "transition" \/ Quit(bind[d].lease)

LEMMA HolderKept ==
    ASSUME NEW d \in Devices, HolderOK(d), UNCHANGED <<made, sess>>, SameHolder(d)
    PROVE  HolderOK(d)'
  <1>1. \A f : Quit(f) <=> Quit(f)' BY DEF Quit
  <1>2. ops'[d]["RELEASE"] # None => Quit(ops[d]["RELEASE"].req.fence)'
    <2>1. PICK f : f = ops'[d]["RELEASE"].req.fence OBVIOUS
    <2>2. ops'[d]["RELEASE"] # None => Quit(f)' BY <1>1, <2>1 DEF SameHolder, HolderOK, Live
    <2> QED BY <2>1, <2>2
  <1>3. bind'[d] # None /\ bind'[d].q = "transition" => Quit(bind[d].lease)'
    <2>1. PICK f : f = bind'[d].lease OBVIOUS
    <2>2. bind'[d] # None /\ bind'[d].q = "transition" => Quit(f)
      <3>1. CASE \A s \in DOMAIN made : made[s].fence # f BY <3>1 DEF Quit
      <3> QED BY <2>1, <3>1 DEF SameHolder, HolderOK
    <2> QED BY <1>1, <2>1, <2>2
  <1>4. \A k \in {"FINALIZE", "COMMIT"} : ops'[d][k] # None => sess'[ops'[d][k].req.snap] # "none"
    BY DEF SameHolder, HolderOK, Live
  <1>5. ops'[d]["COMMIT"] # None /\ ops'[d]["COMMIT"].done => sess'[ops'[d]["COMMIT"].req.snap] = "COMMITTED"
    BY DEF SameHolder, HolderOK, Live
  <1>6. \A s \in DOMAIN made' :
         bind'[d] # None /\ made'[s].fence = bind'[d].lease /\ sess'[s] # "none" =>
           ops'[d]["UPLOAD"] # None /\ ops'[d]["UPLOAD"].done /\ ops'[d]["UPLOAD"].req.snap = s
    BY DEF SameHolder, HolderOK, Live
  <1> QED BY <1>2, <1>3, <1>4, <1>5, <1>6 DEF HolderOK, Live

LEMMA CalmCommand ==
    ASSUME NEW d \in Devices, CommandOK(d), UNCHANGED <<made, sess>>,
           loc'[d].pc \in {"idle", "wait", "fetch", "staged"},
           loc'[d].pc = "wait" => loc'[d].req.kind \notin {"FINALIZE", "COMMIT"},
           loc'[d].super => loc[d].super /\ loc[d].pc # "failed" /\ bind'[d] = bind[d]
    PROVE  CommandOK(d)'
  <1>1. \A f : Quit(f) <=> Quit(f)' BY DEF Quit
  <1>2. loc'[d].super => Quit(bind[d].lease)'
    <2>1. PICK f : f = bind[d].lease OBVIOUS
    <2>2. loc'[d].super => Quit(f)' /\ bind'[d].lease = f BY <1>1, <2>1 DEF CommandOK
    <2> QED BY <2>2
  <1> QED BY <1>2 DEF CommandOK

LEMMA IdleCommand ==
    ASSUME NEW d \in Devices, loc'[d] = Idle PROVE CommandOK(d)'
  <1>1. ~loc'[d].super /\ loc'[d].pc = "idle" BY IdleLoc
  <1> QED BY <1>1 DEF CommandOK

LEMMA SessionStep ==
    ASSUME Base, Base', SessionInv, NEW d \in Devices, OwnSessions(d), Kept,
           \A e \in Devices \ {d} : bind'[e] = bind[e] /\ ops'[e] = ops[e] /\ loc'[e] = loc[e],
           CommandOK(d)', HolderOK(d)'
    PROVE  SessionInv'
  <1> SUFFICES ASSUME NEW e \in Devices PROVE CommandOK(e)' /\ HolderOK(e)' BY DEF SessionInv
  <1>1. CASE e # d
    <2>1. CommandOK(e) /\ HolderOK(e) BY DEF SessionInv
    <2>2. bind'[e] = bind[e] /\ ops'[e] = ops[e] /\ loc'[e] = loc[e] BY <1>1
    <2> QED BY <1>1, <2>1, <2>2, OthersSession
  <1> QED BY <1>1

LEMMA CalmStep ==
    ASSUME Base, Base', UploadInv, SessionInv, NEW d \in Devices, Kept, UNCHANGED <<made, sess, up>>,
           \A e \in Devices \ {d} : bind'[e] = bind[e] /\ ops'[e] = ops[e] /\ loc'[e] = loc[e],
           \A r \in net' : \/ r \in net
                           \/ r.dev = d /\ (r.kind = "COMMIT" => sess[r.snap] = "READY"),
           CommandOK(d)', SameHolder(d)
    PROVE  UploadInv' /\ SessionInv'
  <1>1. HolderOK(d)' BY HolderKept DEF SessionInv
  <1>2. OwnSessions(d) BY DEF OwnSessions
  <1>3. SessionInv' BY <1>1, <1>2, SessionStep
  <1>4. TypeOK' BY DEF Base
  <1>5. \A r \in net' : r \in net \/ r.kind # "COMMIT" \/ sess[r.snap] = "READY" OBVIOUS
  <1>6. UploadInv' BY <1>4, <1>5, UploadStep
  <1> QED BY <1>3, <1>6

\* Steps that return, or send something else than an upload's request.
LEMMA SentCalm ==
    ASSUME TypeOK, NEW d \in Devices, NEW r, NEW f, Send(d, r, f)
    PROVE  /\ loc'[d].pc = "wait" /\ loc'[d].req = r /\ loc'[d].ans = None /\ loc'[d].super = loc[d].super
           /\ net' = net \cup {r} /\ \A e \in Devices \ {d} : loc'[e] = loc[e]
  <1>1. loc \in [Devices -> Local] BY DEF TypeOK
  <1>2. PICK x : x = [pc |-> "wait", req |-> r, ans |-> None, fresh |-> f, got |-> 0,
                        super |-> loc[d].super]
    OBVIOUS
  <1>3. x.pc = "wait" /\ x.req = r /\ x.ans = None BY <1>2
  <1>4. x.super = loc[d].super BY <1>2
  <1>5. loc'[d] = x /\ \A e \in Devices \ {d} : loc'[e] = loc[e] BY <1>1, <1>2 DEF Send
  <1>6. net' = net \cup {r} BY DEF Send
  <1> QED BY <1>3, <1>4, <1>5, <1>6

LEMMA IdleCalm ==
    ASSUME Base, NEW d \in Devices, loc[d].pc = "idle" PROVE ~loc[d].super /\ loc[d] = Idle
  <1>1. loc[d] = Idle BY RowBefore
  <1>2. ~Idle.super BY DEF Idle, Holding
  <1> QED BY <1>1, <1>2

LEMMA ResendsSession ==
    ASSUME Base, Base', UploadInv, SessionInv, NEW d \in Devices,
           SendPublish(d) \/ ReplayRelease(d) \/ ReplayCheckout(d) \/ CreateUpload(d) \/ Commit(d)
           \/ ResendFinalize(d)
    PROVE  UploadInv' /\ SessionInv'
  <1>1. PICK k \in Kinds : /\ Resend(d, k) /\ Pending(d, k) /\ loc[d].pc = "idle"
                           /\ k = "COMMIT" => sess[ops[d][k].req.snap] = "READY"
                           /\ k = "FINALIZE" => /\ OfLease(d, "COMMIT") /\ OfLease(d, "FINALIZE")
                                                /\ sess[ops[d]["COMMIT"].req.snap] = "OPEN"
                                                /\ bind[d] # None
    BY DEF SendPublish, ReplayRelease, ReplayCheckout, CreateUpload, Commit, ResendFinalize,
           InSession, Working, Current, Bound, Free, Listed, Lists, At, Kinds
  <1>2. /\ Kept /\ UNCHANGED <<made, bind, ops, sess, up>> BY <1>1 DEF Resend, server, db, Kept
  <1>3. PICK r : r = ops[d][k].req OBVIOUS
  <1>4. TypeOK /\ OpsOK(d) /\ CommandOK(d) /\ HolderOK(d) BY RowBefore DEF SessionInv
  <1>5. r.dev = d /\ r.kind = k /\ Known(r) BY <1>1, <1>3, <1>4 DEF OpsOK, Pending
  <1>6. /\ loc'[d].pc = "wait" /\ loc'[d].req = r /\ loc'[d].ans = None /\ loc'[d].super = loc[d].super
        /\ net' = net \cup {r} /\ \A e \in Devices \ {d} : loc'[e] = loc[e]
    <2>1. Send(d, r, FALSE) BY <1>1, <1>3 DEF Resend
    <2> QED BY <1>4, <2>1, SentCalm
  <1>7. ~loc'[d].super BY <1>1, <1>6, IdleCalm
  <1>8. k = "FINALIZE" => sess[r.snap] = "OPEN"
    <2> SUFFICES ASSUME k = "FINALIZE" PROVE sess[r.snap] = "OPEN" OBVIOUS
    <2>1. PICK c : c = ops[d]["COMMIT"].req OBVIOUS
    <2>2. Known(c) /\ c.kind = "COMMIT" /\ c.fence = bind[d].lease /\ r.fence = bind[d].lease
      BY <1>1, <1>3, <1>4, <2>1 DEF OfLease, OpsOK, Kinds
    <2>3. c.snap \in DOMAIN made /\ made[c.snap].fence = bind[d].lease
          /\ r.snap \in DOMAIN made /\ made[r.snap].fence = bind[d].lease
      BY <1>5, <2>2, UpRequest DEF UpKinds
    <2>4. sess[c.snap] = "OPEN" BY <1>1, <2>1
    <2>5. sess[r.snap] # "none" BY <1>1, <1>3, <1>4 DEF HolderOK, Pending
    <2>6. ops[d]["UPLOAD"].req.snap = c.snap BY <1>1, <1>4, <2>3, <2>4 DEF HolderOK
    <2>7. ops[d]["UPLOAD"].req.snap = r.snap BY <1>1, <1>4, <2>3, <2>5 DEF HolderOK
    <2> QED BY <2>4, <2>6, <2>7
  <1>9. CommandOK(d)' BY <1>1, <1>2, <1>3, <1>5, <1>6, <1>7, <1>8 DEF CommandOK
  <1>10. SameHolder(d) BY <1>2 DEF SameHolder
  <1>11. \A x \in net' : \/ x \in net
                         \/ x.dev = d /\ (x.kind = "COMMIT" => sess[x.snap] = "READY")
    BY <1>1, <1>3, <1>5, <1>6
  <1> QED BY <1>2, <1>6, <1>9, <1>10, <1>11, CalmStep

\* Steps that return or look at the disk and the listing only.
LEMMA ReturnsSession ==
    ASSUME Base, Base', UploadInv, SessionInv, NEW d \in Devices,
           \/ Settle(d) \/ Crash(d) \/ PullBegin(d) \/ PullFetch(d) \/ PullFails(d) \/ CancelPublish(d)
    PROVE  UploadInv' /\ SessionInv'
  <1>1. /\ Kept /\ UNCHANGED <<made, bind, sess, up, net>>
    BY DEF Settle, Crash, PullBegin, PullFetch, PullFails, CancelPublish, server, db, Kept
  <1>2. TypeOK /\ CommandOK(d) /\ loc \in [Devices -> Local] BY DEF SessionInv, Base, TypeOK
  <1>3. /\ \A k \in Kinds \ {"PUBLISH"} : ops'[d][k] = ops[d][k]
        /\ \A e \in Devices \ {d} : ops'[e] = ops[e]
    <2>1. CASE ops' = ops BY <2>1
    <2>2. CASE CancelPublish(d)
      <3>1. ops' = [ops EXCEPT ![d]["PUBLISH"] = Done(ops[d]["PUBLISH"])] /\ ops[d]["PUBLISH"] # None
        BY <2>2 DEF CancelPublish, Pending, Live
      <3> QED BY <1>2, <3>1, PublishDone
    <2> QED BY <2>1, <2>2 DEF Settle, Crash, PullBegin, PullFetch, PullFails, db
  <1>4. SameHolder(d) BY <1>1, <1>3 DEF SameHolder, Kinds
  <1>5. CommandOK(d)' /\ \A e \in Devices \ {d} : loc'[e] = loc[e]
    <2>1. CASE Settle(d) \/ CancelPublish(d)
      <3>1. loc' = loc /\ loc[d].pc = "idle" BY <2>1 DEF Settle, CancelPublish, Free, At
      <3>2. loc'[d] = Idle BY <3>1, IdleCalm
      <3> QED BY <3>1, <3>2, IdleCommand
    <2>2. CASE Crash(d) \/ PullFails(d)
      <3>1. Return(d) BY <2>2 DEF Crash, PullFails
      <3> QED BY <1>2, <3>1, Returned, IdleCommand
    <2>3. CASE PullFetch(d)
      <3>1. loc[d].pc = "fetch" /\ Goto(d, "staged") /\ "staged" \in PCs BY <2>3 DEF PullFetch, At, PCs
      <3>2. /\ loc'[d].pc = "staged" /\ loc'[d].super = loc[d].super
            /\ \A e \in Devices \ {d} : loc'[e] = loc[e]
        BY <1>2, <3>1, Gone
      <3> QED BY <1>1, <1>2, <3>1, <3>2, CalmCommand
    <2>4. CASE PullBegin(d)
      <3>1. PICK x : x = Holding("fetch", None, HeadSnap) OBVIOUS
      <3>2. loc' = [loc EXCEPT ![d] = x] BY <2>4, <3>1 DEF PullBegin
      <3>3. loc'[d] = x /\ \A e \in Devices \ {d} : loc'[e] = loc[e] BY <1>2, <3>2
      <3>4. x.pc = "fetch" BY <3>1 DEF Holding
      <3>5. ~x.super BY <3>1 DEF Holding
      <3> QED BY <1>1, <1>2, <3>3, <3>4, <3>5, CalmCommand
    <2> QED BY <2>1, <2>2, <2>3, <2>4
  <1> QED BY <1>1, <1>3, <1>4, <1>5, CalmStep

LEMMA QuitZero == ASSUME Base PROVE Quit(0) /\ \A s \in DOMAIN made : made[s].fence # 0
  BY SealFence DEF Quit

\* An operation is stored and its request sent.
LEMMA StoresSession ==
    ASSUME Base, Base', UploadInv, SessionInv, NEW d \in Devices,
           StorePublish(d) \/ Checkout(d) \/ Abandon(d) \/ AwaitRelease(d)
    PROVE  UploadInv' /\ SessionInv'
  <1>1. /\ Kept /\ UNCHANGED <<made, bind, sess, up>>
    BY DEF StorePublish, Checkout, Abandon, AwaitRelease, server, Kept
  <1>2. /\ TypeOK /\ BindOK(d) /\ LocOK(d) /\ OpsOK(d) /\ CommandOK(d) /\ HolderOK(d)
        /\ ops \in [Devices -> [Kinds -> Operation \cup {None}]]
    BY RowBefore DEF SessionInv, Base, TypeOK
  <1>2a. \E k \in {"PUBLISH", "CHECKOUT", "RELEASE"} : \E r, f :
          /\ ops' = [ops EXCEPT ![d][k] = Anew(r)] /\ Send(d, r, f) /\ r.kind = k /\ r.dev = d
          /\ k = "RELEASE" => Quit(r.fence)
    <2>1. CASE StorePublish(d)
      <3>1. PICK r : r = Blank("PUBLISH", d, epoch) OBVIOUS
      <3>2. r.kind = "PUBLISH" /\ r.dev = d BY <3>1 DEF Blank
      <3> QED BY <2>1, <3>1, <3>2 DEF StorePublish
    <2>2. CASE Checkout(d)
      <3>1. PICK r : r = [kind |-> "CHECKOUT", dev |-> d, n |-> tries[d] + 1, epoch |-> bind[d].epoch,
              fence |-> 0, base |-> bind[d].ver, head |-> bind[d].head, snap |-> 0] OBVIOUS
      <3>2. r.kind = "CHECKOUT" /\ r.dev = d BY <3>1
      <3> QED BY <2>2, <3>1, <3>2 DEF Checkout
    <2>3. CASE Abandon(d)
      <3>1. PICK r : r = Release(d, loc[d].got) OBVIOUS
      <3>2. loc[d].pc = "abandon" BY <2>3 DEF Abandon, At
      <3>3. loc[d].got \in Nat /\ bind[d] # None BY <1>2, <3>2, RowTypes DEF BindOK
      <3>4. r = [kind |-> "RELEASE", dev |-> d, n |-> 0, epoch |-> bind[d].epoch,
                 fence |-> loc[d].got, base |-> 0, head |-> 0, snap |-> 0]
        BY <1>2, <3>1, <3>3, ReleaseType
      <3>5. r.kind = "RELEASE" /\ r.dev = d /\ r.fence = loc[d].got BY <3>4
      <3>6. Quit(r.fence) BY <1>2, <3>2, <3>5 DEF CommandOK
      <3> QED BY <2>3, <3>1, <3>5, <3>6 DEF Abandon
    <2>4. CASE AwaitRelease(d)
      <3>1. PICK r : r = IF Pending(d, "RELEASE") /\ OfLease(d, "RELEASE")
                         THEN ops[d]["RELEASE"].req ELSE Release(d, bind[d].lease) OBVIOUS
      <3>2. bind[d] # None /\ bind[d].q = "transition" BY <2>4 DEF AwaitRelease, Awaits, Bound
      <3>3. r.kind = "RELEASE" /\ r.dev = d /\ Quit(r.fence)
        <4>1. CASE Pending(d, "RELEASE") /\ OfLease(d, "RELEASE")
          <5>1. r = ops[d]["RELEASE"].req /\ Live(d, "RELEASE") BY <3>1, <4>1 DEF Pending
          <5> QED BY <1>2, <5>1 DEF OpsOK, HolderOK, Kinds
        <4>2. CASE ~(Pending(d, "RELEASE") /\ OfLease(d, "RELEASE"))
          <5>1. bind[d].lease \in Nat BY <1>2, <3>2, RowTypes
          <5>2. r = Release(d, bind[d].lease) BY <3>1, <4>2
          <5>3. r = [kind |-> "RELEASE", dev |-> d, n |-> 0, epoch |-> bind[d].epoch,
                     fence |-> bind[d].lease, base |-> 0, head |-> 0, snap |-> 0]
            BY <1>2, <3>2, <5>1, <5>2, ReleaseType
          <5>4. r.kind = "RELEASE" /\ r.dev = d /\ r.fence = bind[d].lease BY <5>3
          <5> QED BY <1>2, <3>2, <5>4 DEF HolderOK
        <4> QED BY <4>1, <4>2
      <3>4. ops' = [ops EXCEPT ![d]["RELEASE"] = Anew(r)] /\ Send(d, r, FALSE)
        BY <2>4, <3>1 DEF AwaitRelease
      <3> QED BY <3>3, <3>4
    <2> QED BY <2>1, <2>2, <2>3, <2>4
  <1>3. PICK k \in {"PUBLISH", "CHECKOUT", "RELEASE"} : \E r, f :
          /\ ops' = [ops EXCEPT ![d][k] = Anew(r)] /\ Send(d, r, f) /\ r.kind = k /\ r.dev = d
          /\ k = "RELEASE" => Quit(r.fence)
    BY <1>2a
  <1>3a. PICK r, f :
          /\ ops' = [ops EXCEPT ![d][k] = Anew(r)] /\ Send(d, r, f) /\ r.kind = k /\ r.dev = d
          /\ k = "RELEASE" => Quit(r.fence)
    BY <1>3
  <1>4. /\ loc'[d].pc = "wait" /\ loc'[d].req = r /\ loc'[d].super = loc[d].super
        /\ net' = net \cup {r} /\ \A e \in Devices \ {d} : loc'[e] = loc[e]
    BY <1>2, <1>3, <1>3a, SentCalm
  <1>5. loc[d].super => loc[d].pc # "failed"
    BY DEF StorePublish, Checkout, Abandon, AwaitRelease, Free, Listed, Lists, Current, Awaits, Bound, At
  <1>6. CommandOK(d)' BY <1>1, <1>2, <1>3, <1>3a, <1>4, <1>5, CalmCommand
  <1>7. PICK x : x = Anew(r) OBVIOUS
  <1>8. x.req = r BY <1>7 DEF Anew
  <1>9. k \in Kinds /\ ops' = [ops EXCEPT ![d][k] = x] BY <1>3, <1>3a, <1>7 DEF Kinds
  <1>10. /\ ops'[d][k] = x /\ \A j \in Kinds \ {k} : ops'[d][j] = ops[d][j]
         /\ \A e \in Devices \ {d} : ops'[e] = ops[e]
    BY ONLY <1>2, <1>9, d \in Devices
  <1>11. SameHolder(d)
    <2>1. ops'[d]["UPLOAD"] = ops[d]["UPLOAD"] /\ ops'[d]["FINALIZE"] = ops[d]["FINALIZE"]
          /\ ops'[d]["COMMIT"] = ops[d]["COMMIT"]
      BY <1>3, <1>3a, <1>10 DEF Kinds
    <2>2. ops'[d]["RELEASE"] = ops[d]["RELEASE"] \/ Quit(ops'[d]["RELEASE"].req.fence)
      <3>1. CASE k = "RELEASE" BY <1>3, <1>3a, <1>8, <1>10, <3>1
      <3>2. CASE k # "RELEASE" BY <1>10, <3>2 DEF Kinds
      <3> QED BY <3>1, <3>2
    <2> QED BY <1>1, <2>1, <2>2 DEF SameHolder
  <1>12. \A y \in net' : \/ y \in net
                         \/ y.dev = d /\ (y.kind = "COMMIT" => sess[y.snap] = "READY")
    BY <1>3, <1>3a, <1>4
  <1> QED BY <1>1, <1>4, <1>6, <1>10, <1>11, <1>12, CalmStep

LEMMA ReleaseRefusedSession ==
    ASSUME Base, Base', UploadInv, SessionInv, NEW d \in Devices, ReleaseRefused(d)
    PROVE  UploadInv' /\ SessionInv'
  <1>1. /\ Kept /\ UNCHANGED <<made, bind, sess, up, net>> /\ Answered(d, "RELEASE")
        /\ Goto(d, "drop") /\ ops' = [ops EXCEPT ![d]["RELEASE"] = None]
    BY DEF ReleaseRefused, server, Kept
  <1>2. TypeOK /\ CommandOK(d) /\ HolderOK(d) BY DEF SessionInv, Base
  <1>3. "drop" \in PCs /\ "RELEASE" \in Kinds BY DEF PCs, Kinds
  <1>4. /\ loc'[d].pc = "drop" /\ loc'[d].req = loc[d].req /\ loc'[d].super = loc[d].super
        /\ \A e \in Devices \ {d} : loc'[e] = loc[e]
    BY <1>1, <1>2, <1>3, Gone
  <1>5. \A f : Quit(f) <=> Quit(f)' BY <1>1 DEF Quit
  <1>6. CommandOK(d)'
    <2>1. loc[d].pc = "wait" /\ ops[d]["RELEASE"] # None /\ ops[d]["RELEASE"].req = loc[d].req
      BY <1>1, AnsweredFacts
    <2>2. PICK f : f = loc[d].req.fence OBVIOUS
    <2>3. Quit(f)' /\ loc'[d].req.fence = f BY <1>2, <1>4, <1>5, <2>1, <2>2 DEF HolderOK, Live
    <2>4. PICK g : g = bind[d].lease OBVIOUS
    <2>5. bind'[d].lease = g /\ (loc'[d].super => Quit(g)') BY <1>1, <1>2, <1>4, <1>5, <2>1, <2>4 DEF CommandOK
    <2> QED BY <1>4, <2>3, <2>5 DEF CommandOK
  <1>7. /\ ops'[d]["RELEASE"] = None /\ \A j \in Kinds \ {"RELEASE"} : ops'[d][j] = ops[d][j]
        /\ \A e \in Devices \ {d} : ops'[e] = ops[e]
    BY <1>1, <1>2, <1>3, SetOp, ZenonT(60)
  <1>8. SameHolder(d) BY <1>1, <1>7 DEF SameHolder, Kinds
  <1> QED BY <1>1, <1>4, <1>6, <1>7, <1>8, CalmStep

\* A granted fence that was not taken up has nothing sealed under it.
LEMMA FreshQuit ==
    ASSUME Base, DataInv, NEW d \in Devices, NEW k \in Grants, Answered(d, k), loc[d].ans.ok
    PROVE  Quit(loc[d].ans.val) /\ \A s \in DOMAIN made : made[s].fence # loc[d].ans.val
  <1>1. /\ ops[d][k] # None /\ ~ops[d][k].done /\ ops[d][k].req = loc[d].req
        /\ loc[d].req \in DOMAIN ledger /\ loc[d].ans.val = ledger[loc[d].req]
    BY AnsweredFacts
  <1>2. Pending(d, k) BY <1>1 DEF Pending, Live
  <1>3. Fresh(ledger[ops[d][k].req]) BY <1>1, <1>2 DEF DataInv, GrantInv
  <1>4. Fresh(loc[d].ans.val) BY <1>1, <1>3
  <1> QED BY <1>4 DEF Fresh, Quit

LEMMA PublishedSession ==
    ASSUME Base, Base', DataInv, UploadInv, SessionInv, NEW d \in Devices, Published(d)
    PROVE  UploadInv' /\ SessionInv'
  <1>1. Kept /\ UNCHANGED <<made, sess, up, net>> BY DEF Published, server, Kept
  <1>2. \A e \in Devices \ {d} : ops'[e] = ops[e] /\ bind'[e] = bind[e] /\ loc'[e] = loc[e]
    BY ONLY Base, d \in Devices, Published(d), PublishedRow, Zenon
  <1>3. Answered(d, "PUBLISH") /\ bind[d] = None BY PublishedRow
  <1>4. \A j \in Kinds \ {"PUBLISH"} : ops'[d][j] = ops[d][j] BY PublishedRow
  <1>5. \A f : Quit(f) <=> Quit(f)' BY <1>1 DEF Quit
  <1>6. CommandOK(d)'
    <2>1. CASE loc'[d] = Idle BY <2>1, IdleCommand
    <2>2. CASE loc'[d] # Idle
      <3>1. loc'[d].pc = "abandon" /\ loc'[d].got = loc[d].ans.val /\ loc[d].ans.ok
        BY <2>2, PublishedRow
      <3>2. ~loc'[d].super BY <2>2, PublishedRow
      <3>3. PICK f : f = loc[d].ans.val OBVIOUS
      <3>4. Quit(f)' /\ loc'[d].got = f BY <1>3, <1>5, <3>1, <3>3, FreshQuit DEF Grants
      <3> QED BY <3>1, <3>2, <3>4 DEF CommandOK
    <2> QED BY <2>1, <2>2
  <1>7. bind'[d] # None => \A s \in DOMAIN made : made[s].fence # bind'[d].lease
    <2> SUFFICES ASSUME bind'[d] # None PROVE \A s \in DOMAIN made : made[s].fence # bind'[d].lease
      OBVIOUS
    <2>1. loc[d].ans.ok BY <1>3, PublishedRow
    <2>2. bind'[d].lease = loc[d].ans.val \/ bind'[d].lease = 0 BY <1>3, PublishedRow
    <2> QED BY <1>3, <2>1, <2>2, FreshQuit, QuitZero DEF Grants
  <1>8. SameHolder(d) BY <1>4, <1>7 DEF SameHolder, Kinds
  <1> QED BY <1>1, <1>2, <1>6, <1>8, CalmStep

LEMMA CheckedOutSession ==
    ASSUME Base, Base', DataInv, UploadInv, SessionInv, NEW d \in Devices, CheckedOut(d)
    PROVE  UploadInv' /\ SessionInv'
  <1>1. Kept /\ UNCHANGED <<made, sess, up>> BY DEF CheckedOut, server, Kept
  <1>2. /\ Answered(d, "CHECKOUT") /\ bind[d] # None /\ bind[d].lease = 0
        /\ \A e \in Devices \ {d} : ops'[e] = ops[e] /\ bind'[e] = bind[e] /\ loc'[e] = loc[e]
        /\ \A j \in Kinds \ {"CHECKOUT", "RELEASE"} : ops'[d][j] = ops[d][j]
    BY CheckedOutRow
  <1>3. TypeOK /\ CommandOK(d) /\ loc[d].pc = "wait" BY <1>2 DEF SessionInv, Base, Answered, At
  <1>4. loc[d].ans.ok => Quit(loc[d].ans.val) /\ \A s \in DOMAIN made : made[s].fence # loc[d].ans.val
    BY <1>2, FreshQuit DEF Grants
  <1>5. CASE loc'[d] = Idle
    <2>1. CommandOK(d)' BY <1>5, IdleCommand
    <2>2. loc'[d].pc # "wait" BY <1>5 DEF Idle, Holding
    <2>3. net' = net /\ ops'[d]["RELEASE"] = ops[d]["RELEASE"] BY <2>2, CheckedOutRow
    <2>4. bind'[d] = bind[d] \/ (loc[d].ans.ok /\ bind'[d].lease = loc[d].ans.val)
      BY <2>2, CheckedOutRow
    <2>5. SameHolder(d) BY <1>2, <1>4, <2>3, <2>4 DEF SameHolder, Kinds
    <2> QED BY <1>1, <1>2, <2>1, <2>3, <2>5, CalmStep
  <1>6. CASE loc'[d] # Idle
    <2>1. /\ loc[d].ans.ok /\ bind' = bind /\ ops'[d]["RELEASE"] # None
          /\ net' = net \cup {ops'[d]["RELEASE"].req}
          /\ ops'[d]["RELEASE"].req.kind = "RELEASE"
          /\ ops'[d]["RELEASE"].req.fence = loc[d].ans.val
          /\ loc'[d].pc = "wait" /\ loc'[d].req = ops'[d]["RELEASE"].req
      BY <1>6, CheckedOutRow
    <2>2. loc'[d].super = loc[d].super BY <1>6, CheckedOutRow
    <2>3. CommandOK(d)' BY <1>1, <1>3, <2>1, <2>2, CalmCommand
    <2>4. SameHolder(d) BY <1>2, <1>4, <2>1 DEF SameHolder, Kinds
    <2>5. ops'[d]["RELEASE"].req.dev = d
      <3>1. OpsOK(d)' BY DEF Base, DeviceOK
      <3> QED BY <2>1, <3>1 DEF OpsOK, Live, Kinds
    <2>6. \A y \in net' : \/ y \in net
                          \/ y.dev = d /\ (y.kind = "COMMIT" => sess[y.snap] = "READY")
      BY <2>1, <2>5
    <2> QED BY <1>1, <1>2, <2>3, <2>4, <2>6, CalmStep
  <1> QED BY <1>5, <1>6

\* Steps that change the row and hold nothing afterwards.
LEMMA RowsSession ==
    ASSUME Base, Base', UploadInv, SessionInv, NEW d \in Devices,
           \/ Join(d) \/ Unbind(d) \/ Lose(d) \/ ListedQuarantines(d) \/ AcceptTransitions(d) \/ Pin(d)
    PROVE  UploadInv' /\ SessionInv'
  <1>1. Kept /\ UNCHANGED <<made, sess, up, net, ops>>
    BY DEF Join, Unbind, Lose, ListedQuarantines, AcceptTransitions, Pin, server, Kept
  <1>2. TypeOK /\ BindOK(d) /\ CommandOK(d) /\ HolderOK(d) BY RowBefore DEF SessionInv
  <1>3. loc'[d] = Idle /\ \A e \in Devices \ {d} : loc'[e] = loc[e]
    <2>1. CASE Lose(d) \/ Pin(d)
      <3>1. Return(d) BY <2>1 DEF Lose, End, Pin
      <3> QED BY <1>2, <3>1, Returned
    <2>2. CASE Join(d) \/ Unbind(d) \/ ListedQuarantines(d) \/ AcceptTransitions(d)
      <3>1. loc' = loc /\ loc[d].pc = "idle"
        BY <2>2 DEF Join, Unbind, ListedQuarantines, AcceptTransitions, Free, Bound, Lists, Current,
                    Awaits, At
      <3> QED BY <3>1, IdleCalm
    <2> QED BY <2>1, <2>2
  <1>4. CommandOK(d)' BY <1>3, IdleCommand
  <1>5. CASE bind' = bind
    <2>1. SameHolder(d) BY <1>1, <1>5 DEF SameHolder
    <2> QED BY <1>1, <1>3, <1>4, <1>5, <2>1, CalmStep
  <1>6. CASE bind[d] # None /\ Quit(bind[d].lease) /\ \E w \in {"transition", "rollback"} : Quarantine(d, w)
    <2>1. bind'[d].lease = bind[d].lease /\ \A e \in Devices \ {d} : bind'[e] = bind[e]
      BY <1>2, <1>6, Quarantined
    <2>2. SameHolder(d) BY <1>1, <1>6, <2>1 DEF SameHolder
    <2> QED BY <1>1, <1>3, <1>4, <2>1, <2>2, CalmStep
  <1>7. CASE (bind'[d] # None => bind'[d].lease = 0) /\ \A e \in Devices \ {d} : bind'[e] = bind[e]
    <2>1. SameHolder(d) BY <1>1, <1>7, QuitZero DEF SameHolder
    <2> QED BY <1>1, <1>3, <1>4, <1>7, <2>1, CalmStep
  <1>8. CASE Lose(d)
    <2>1. CASE ~loc[d].super
      <3>1. bind' = bind BY <1>8, <2>1 DEF Lose, End
      <3> QED BY <1>5, <3>1
    <2>2. CASE loc[d].super
      <3>1. bind[d] # None /\ Quit(bind[d].lease) BY <1>2, <1>8, <2>2 DEF BindOK, CommandOK, Lose, At
      <3>2. Quarantine(d, "transition") BY <1>8, <2>2 DEF Lose, End, Quarantine
      <3> QED BY <1>6, <3>1, <3>2
    <2> QED BY <2>1, <2>2
  <1>9. CASE ListedQuarantines(d)
    <2>1. bind[d] # None /\ bind[d].lease = 0 BY <1>9 DEF ListedQuarantines, Lists, Current, Bound
    <2>2. \E w \in {"transition", "rollback"} : Quarantine(d, w) BY <1>9 DEF ListedQuarantines
    <2> QED BY <1>6, <2>1, <2>2, QuitZero
  <1>10. CASE Join(d) BY <1>7, <1>10, JoinRow
  <1>11. CASE Unbind(d)
    <2>1. bind' = [bind EXCEPT ![d] = None] BY <1>11 DEF Unbind
    <2>2. bind'[d] = None /\ \A e \in Devices \ {d} : bind'[e] = bind[e] BY <1>2, <2>1, SetBind
    <2> QED BY <1>7, <2>2
  <1>12. CASE AcceptTransitions(d) BY <1>7, <1>12, AcceptRow
  <1>13. CASE Pin(d) BY <1>7, <1>13, PinRow
  <1> QED BY <1>8, <1>9, <1>10, <1>11, <1>12, <1>13

----------------------------------------------------------------------------
(* The fourth part: the steps of an upload.                                 *)

\* The one upload of a lease that has a session.
LEMMA SoleUpload ==
    ASSUME Base, NEW d \in Devices, HolderOK(d), bind[d] # None, NEW s \in DOMAIN made,
           made[s].fence = bind[d].lease, sess[s] # "none"
    PROVE  OfLease(d, "UPLOAD") /\ ops[d]["UPLOAD"].done /\ ops[d]["UPLOAD"].req.snap = s
  <1>1. Live(d, "UPLOAD") /\ ops[d]["UPLOAD"].req.snap = s BY DEF HolderOK
  <1>2. ops[d]["UPLOAD"].done BY DEF HolderOK
  <1>3. OpsOK(d) BY RowBefore
  <1>4. PICK r : r = ops[d]["UPLOAD"].req OBVIOUS
  <1>5. Known(r) /\ r.kind = "UPLOAD" BY <1>1, <1>3, <1>4 DEF OpsOK, Kinds
  <1>6. r.fence = bind[d].lease BY <1>1, <1>4, <1>5, UpRequest DEF UpKinds
  <1> QED BY <1>1, <1>2, <1>4, <1>6 DEF OfLease

\* A stored request of an upload under the device's lease.
LEMMA StoredUpload ==
    ASSUME Base, NEW d \in Devices, NEW k \in UpKinds, OfLease(d, k), NEW r, r = ops[d][k].req
    PROVE  /\ Known(r) /\ r.kind = k /\ r.dev = d /\ r.snap \in DOMAIN made /\ r.snap \in Snaps
           /\ made[r.snap].fence = bind[d].lease /\ Owns(d, made[r.snap].fence)
  <1>1. TypeOK /\ OpsOK(d) /\ k \in Kinds BY RowBefore DEF UpKinds, Kinds
  <1>2. Known(r) /\ r.kind = k /\ r.dev = d /\ r.fence = bind[d].lease
    BY <1>1 DEF OpsOK, OfLease
  <1> QED BY <1>1, <1>2, UpRequest, MadeType

LEMMA SealRefusedSession ==
    ASSUME Base, Base', UploadInv, SessionInv, NEW d \in Devices, SealRefused(d)
    PROVE  UploadInv' /\ SessionInv'
  <1>1. /\ Kept /\ UNCHANGED <<made, bind, ops, sess, up, net>> /\ bind[d] # None
        /\ ~OfLease(d, "UPLOAD") /\ loc' = [loc EXCEPT ![d] = Holding("abandon", None, bind[d].lease)]
    BY DEF SealRefused, Sealing, Working, Current, Bound, server, db, Kept
  <1>2. TypeOK /\ HolderOK(d) /\ loc \in [Devices -> Local] BY DEF SessionInv, Base, TypeOK
  <1>3. PICK f : f = bind[d].lease OBVIOUS
  <1>4. Quit(f)' BY <1>1, <1>2, <1>3, SoleUpload DEF Quit
  <1>5. PICK x : x = Holding("abandon", None, f) OBVIOUS
  <1>6. x.pc = "abandon" /\ x.got = f BY <1>5 DEF Holding
  <1>7. ~x.super BY <1>5 DEF Holding
  <1>8. loc'[d] = x /\ \A e \in Devices \ {d} : loc'[e] = loc[e] BY <1>1, <1>2, <1>3, <1>5
  <1>9. loc'[d].got = f /\ loc'[d].pc = "abandon" BY <1>6, <1>8
  <1>10. ~loc'[d].super BY <1>7, <1>8
  <1>11. CommandOK(d)' BY <1>4, <1>9, <1>10 DEF CommandOK
  <1>12. SameHolder(d) BY <1>1 DEF SameHolder
  <1> QED BY <1>1, <1>8, <1>11, <1>12, CalmStep

LEMMA TransferSession ==
    ASSUME Base, Base', UploadInv, SessionInv, NEW d \in Devices, Transfer(d)
    PROVE  UploadInv' /\ SessionInv'
  <1>1. PICK r : r = ops[d]["COMMIT"].req OBVIOUS
  <1>2. /\ Kept /\ UNCHANGED <<made, bind, ops, sess, net>> /\ bind[d] # None /\ loc[d].pc = "idle"
        /\ OfLease(d, "COMMIT") /\ sess[r.snap] = "OPEN"
    BY <1>1 DEF Transfer, Untransferred, InSession, Working, Current, Bound, At, db, Kept
  <1>3. TypeOK /\ TypeOK' /\ loc \in [Devices -> Local] BY DEF Base, TypeOK
  <1>4. /\ Known(r) /\ r.snap \in DOMAIN made /\ r.snap \in Snaps
        /\ UploadOK(r.snap)
    BY <1>1, <1>2, StoredUpload DEF UploadInv, UpKinds
  <1>5. SameHolder(d) BY <1>2 DEF SameHolder
  <1>6. CASE up' = up /\ loc' = [loc EXCEPT ![d] = Holding("failed", r, bind[d].lease)]
    <2>1. PICK x : x = Holding("failed", r, bind[d].lease) OBVIOUS
    <2>2. x.pc = "failed" /\ x.req = r BY <2>1 DEF Holding
    <2>3. loc'[d] = x /\ \A e \in Devices \ {d} : loc'[e] = loc[e] BY <1>3, <1>6, <2>1
    <2>4. PICK s : s = r.snap OBVIOUS
    <2>5. Doomed(s) BY <1>2, <1>4, <2>4, OpenDoomed
    <2>6. Doomed(s)' BY <1>2, <2>5 DEF Doomed, Kept, Committed, Held
    <2>7. loc'[d].pc = "failed" /\ loc'[d].req.snap = s BY <2>2, <2>3, <2>4
    <2>8. CommandOK(d)' BY <1>2, <2>4, <2>6, <2>7 DEF CommandOK
    <2> QED BY <1>2, <1>5, <1>6, <2>3, <2>8, CalmStep
  <1>7. CASE loc' = loc /\ up[r.snap] = "OPEN" /\ up' = [up EXCEPT ![r.snap] = "FULL"]
    <2>1. CommandOK(d)'
      <3>1. loc'[d] = Idle BY <1>2, <1>7, IdleCalm
      <3> QED BY <3>1, IdleCommand
    <2>2. HolderOK(d)' BY <1>2, <1>5, HolderKept DEF SessionInv
    <2>3. OwnSessions(d) BY <1>2 DEF OwnSessions
    <2>4. SessionInv' BY <1>2, <1>7, <2>1, <2>2, <2>3, SessionStep
    <2>5. up'[r.snap] = "FULL" /\ \A s \in Snaps \ {r.snap} : up'[s] = up[s]
      BY <1>3, <1>4, <1>7 DEF TypeOK
    <2>6. UploadOK(r.snap)'
      <3>1. PICK s : s = r.snap /\ UploadOK(s) BY <1>4
      <3>2. \A k : InLedger(k, s)' <=> InLedger(k, s) BY <1>2 DEF InLedger, Kept
      <3>3. /\ epoch' = epoch /\ made' = made /\ sess' = sess /\ net' = net /\ ledger' = ledger
            /\ Committed(s)' <=> Committed(s)
        BY <1>2 DEF Kept, Committed
      <3>4. sess[s] = "OPEN" /\ up[s] = "OPEN" /\ up'[s] = "FULL" BY <1>2, <1>7, <2>5, <3>1
      <3>5. UploadOK(s)' BY <3>1, <3>2, <3>3, <3>4 DEF UploadOK
      <3> QED BY <3>1, <3>5
    <2>7. \A s \in DOMAIN made : UploadOK(s)' \/ (up'[s] = up[s] /\ sess'[s] = sess[s])
      <3> SUFFICES ASSUME NEW s \in DOMAIN made PROVE UploadOK(s)' \/ (up'[s] = up[s] /\ sess'[s] = sess[s])
        OBVIOUS
      <3>1. CASE s = r.snap BY <2>6, <3>1
      <3>2. CASE s # r.snap BY <1>2, <1>3, <2>5, <3>2, MadeType
      <3> QED BY <3>1, <3>2
    <2>8. UploadInv' BY <1>2, <1>3, <2>7, UploadStep
    <2> QED BY <2>4, <2>8
  <1> QED BY <1>1, <1>6, <1>7 DEF Transfer

LEMMA FinalizeSession ==
    ASSUME Base, Base', UploadInv, SessionInv, NEW d \in Devices, Finalize(d)
    PROVE  UploadInv' /\ SessionInv'
  <1>1. PICK c : c = ops[d]["COMMIT"].req OBVIOUS
  <1>2. PICK r : r = [c EXCEPT !.kind = "FINALIZE"] OBVIOUS
  <1>3. /\ Kept /\ UNCHANGED <<made, bind, sess, up>> /\ bind[d] # None /\ loc[d].pc = "idle"
        /\ OfLease(d, "COMMIT") /\ sess[c.snap] = "OPEN"
        /\ ops' = [ops EXCEPT ![d]["FINALIZE"] = Anew(r)] /\ Send(d, r, TRUE)
    BY <1>1, <1>2 DEF Finalize, Untransferred, InSession, Working, Current, Bound, At, server, Kept
  <1>4. TypeOK /\ TypeOK' /\ ops \in [Devices -> [Kinds -> Operation \cup {None}]]
    BY DEF Base, TypeOK
  <1>5. c.dev = d /\ c \in Request
    <2>1. c \in Request BY <1>1, <1>3, <1>4, RowTypes DEF OfLease, Live, Kinds
    <2> QED BY <1>1, <1>3, <2>1, StoredUpload DEF UpKinds
  <1>6. r.kind = "FINALIZE" /\ r.dev = d /\ r.snap = c.snap BY <1>2, <1>5 DEF Request
  <1>7. /\ loc'[d].pc = "wait" /\ loc'[d].req = r /\ loc'[d].super = loc[d].super
        /\ net' = net \cup {r} /\ \A e \in Devices \ {d} : loc'[e] = loc[e]
    BY <1>3, <1>4, SentCalm
  <1>8. ~loc'[d].super BY <1>3, <1>7, IdleCalm
  <1>9. CommandOK(d)' BY <1>3, <1>6, <1>7, <1>8 DEF CommandOK
  <1>10. PICK x : x = Anew(r) OBVIOUS
  <1>11. x.req = r BY <1>10 DEF Anew
  <1>12. "FINALIZE" \in Kinds /\ ops' = [ops EXCEPT ![d]["FINALIZE"] = x] BY <1>3, <1>10 DEF Kinds
  <1>13. /\ ops'[d]["FINALIZE"] = x /\ \A j \in Kinds \ {"FINALIZE"} : ops'[d][j] = ops[d][j]
         /\ \A e \in Devices \ {d} : ops'[e] = ops[e]
    BY ONLY <1>4, <1>12, d \in Devices
  <1>14. HolderOK(d)'
    <2>1. HolderOK(d) BY DEF SessionInv
    <2>2. \A f : Quit(f) <=> Quit(f)' BY <1>3 DEF Quit
    <2>3. /\ ops'[d]["RELEASE"] = ops[d]["RELEASE"] /\ ops'[d]["UPLOAD"] = ops[d]["UPLOAD"]
          /\ ops'[d]["COMMIT"] = ops[d]["COMMIT"]
      BY <1>13 DEF Kinds
    <2>4. sess'[ops'[d]["FINALIZE"].req.snap] # "none" BY <1>3, <1>6, <1>11, <1>13
    <2>5. Live(d, "RELEASE")' => Quit(ops[d]["RELEASE"].req.fence)'
      <3>1. PICK f : f = ops[d]["RELEASE"].req.fence OBVIOUS
      <3>2. Live(d, "RELEASE")' => Quit(f)' BY <2>1, <2>2, <2>3, <3>1 DEF HolderOK, Live
      <3> QED BY <2>3, <3>1, <3>2
    <2>6. bind'[d] # None /\ bind'[d].q = "transition" => Quit(bind[d].lease)'
      <3>1. PICK f : f = bind[d].lease OBVIOUS
      <3>2. bind[d].q = "transition" => Quit(f)' BY <1>3, <2>1, <2>2, <3>1 DEF HolderOK
      <3> QED BY <1>3, <3>1, <3>2
    <2> QED BY <1>3, <2>1, <2>3, <2>4, <2>5, <2>6 DEF HolderOK, Live
  <1>15. OwnSessions(d) BY <1>3, <1>6, <1>7 DEF OwnSessions
  <1>16. SessionInv' BY <1>3, <1>7, <1>9, <1>13, <1>14, <1>15, SessionStep
  <1>17. UploadInv' BY <1>3, <1>4, <1>6, <1>7, UploadStep
  <1> QED BY <1>16, <1>17

\* The session of one snapshot of d goes on.
LEMMA HolderMoved ==
    ASSUME Base, NEW d \in Devices, HolderOK(d), UNCHANGED <<made, bind>>, NEW c \in DOMAIN made,
           sess[c] \in {"OPEN", "READY"}, sess'[c] # "none",
           \A s \in DOMAIN made \ {c} : sess'[s] = sess[s],
           ops'[d]["UPLOAD"] = ops[d]["UPLOAD"], ops'[d]["RELEASE"] = ops[d]["RELEASE"],
           \A k \in {"FINALIZE", "COMMIT"} :
             ops'[d][k] # None => ops[d][k] # None /\ ops'[d][k].req = ops[d][k].req,
           \/ ops'[d]["COMMIT"] = ops[d]["COMMIT"]
           \/ ops'[d]["COMMIT"] # None => sess'[ops'[d]["COMMIT"].req.snap] = "COMMITTED"
    PROVE  HolderOK(d)'
  <1>1. \A f : Quit(f) => Quit(f)' BY DEF Quit
  <1>2. OpsOK(d) BY RowBefore
  <1>3. \A k \in {"FINALIZE", "COMMIT"} : ops[d][k] # None => ops[d][k].req.snap \in DOMAIN made
    <2> SUFFICES ASSUME NEW k \in {"FINALIZE", "COMMIT"}, ops[d][k] # None
                 PROVE  ops[d][k].req.snap \in DOMAIN made
      OBVIOUS
    <2>1. Known(ops[d][k].req) /\ ops[d][k].req.kind = k BY <1>2 DEF OpsOK, Live, Kinds
    <2> QED BY <2>1, UpRequest DEF UpKinds
  <1>4. Live(d, "RELEASE")' => Quit(ops[d]["RELEASE"].req.fence)'
    <2>1. PICK f : f = ops[d]["RELEASE"].req.fence OBVIOUS
    <2>2. Live(d, "RELEASE")' => Quit(f)' BY <1>1, <2>1 DEF HolderOK, Live
    <2> QED BY <2>1, <2>2
  <1>5. bind'[d] # None /\ bind'[d].q = "transition" => Quit(bind[d].lease)'
    <2>1. PICK f : f = bind[d].lease OBVIOUS
    <2>2. bind[d] # None /\ bind[d].q = "transition" => Quit(f)' BY <1>1, <2>1 DEF HolderOK
    <2> QED BY <2>1, <2>2
  <1>6. \A k \in {"FINALIZE", "COMMIT"} : ops'[d][k] # None => sess'[ops'[d][k].req.snap] # "none"
    BY <1>3 DEF HolderOK, Live
  <1>7. ops'[d]["COMMIT"] # None /\ ops'[d]["COMMIT"].done => sess'[ops'[d]["COMMIT"].req.snap] = "COMMITTED"
    <2>1. CASE ops'[d]["COMMIT"] = ops[d]["COMMIT"]
      <3> SUFFICES ASSUME ops[d]["COMMIT"] # None, ops[d]["COMMIT"].done
                   PROVE  sess'[ops[d]["COMMIT"].req.snap] = "COMMITTED"
        BY <2>1
      <3>1. sess[ops[d]["COMMIT"].req.snap] = "COMMITTED" BY DEF HolderOK, Live
      <3> QED BY <1>3, <3>1
    <2> QED BY <2>1
  <1>8. ASSUME NEW s \in DOMAIN made', bind'[d] # None, made'[s].fence = bind'[d].lease, sess'[s] # "none"
        PROVE  ops'[d]["UPLOAD"] # None /\ ops'[d]["UPLOAD"].done /\ ops'[d]["UPLOAD"].req.snap = s
    <2>1. sess[s] # "none" BY <1>8
    <2> QED BY <1>8, <2>1 DEF HolderOK, Live
  <1> QED BY <1>4, <1>5, <1>6, <1>7, <1>8 DEF HolderOK, Live

\* The steps that write one session.
LEMMA MovedStep ==
    ASSUME Base, Base', UploadInv, SessionInv, NEW d \in Devices, Kept, UNCHANGED <<made, up, net>>,
           NEW c \in DOMAIN made, Owns(d, made[c].fence),
           \A s \in DOMAIN made \ {c} : sess'[s] = sess[s],
           \A e \in Devices \ {d} : bind'[e] = bind[e] /\ ops'[e] = ops[e] /\ loc'[e] = loc[e],
           UploadOK(c)', CommandOK(d)', HolderOK(d)'
    PROVE  UploadInv' /\ SessionInv'
  <1>1. OwnSessions(d) BY DEF OwnSessions
  <1>2. SessionInv' BY <1>1, SessionStep
  <1>3. TypeOK' BY DEF Base
  <1>4. UploadInv' BY <1>3, UploadStep
  <1> QED BY <1>2, <1>4

\* A request for an upload that was answered.
LEMMA RepliedRow ==
    ASSUME Base, NEW d \in Devices, NEW k \in UpKinds, NEW next, Replied(d, k, next)
    PROVE  /\ Kept /\ UNCHANGED <<made, bind, up, net>>
           /\ Answered(d, k) /\ bind[d] # None /\ k \in Kinds
           /\ \A e \in Devices \ {d} : bind'[e] = bind[e] /\ ops'[e] = ops[e] /\ loc'[e] = loc[e]
           /\ \A j \in Kinds \ {k} : ops'[d][j] = ops[d][j]
           /\ loc[d].req.snap \in DOMAIN made /\ loc[d].req.snap \in Snaps
           /\ Owns(d, made[loc[d].req.snap].fence) /\ made[loc[d].req.snap].fence = bind[d].lease
           /\ ops[d][k] # None /\ ~ops[d][k].done /\ ops[d][k].req = loc[d].req
           /\ \/ /\ loc[d].ans.ok /\ loc[d].req \in DOMAIN ledger
                 /\ loc'[d] = Idle /\ ops'[d][k] # None /\ ops'[d][k].req = ops[d][k].req
              \/ /\ ~loc[d].ans.ok /\ ops'[d][k] = None
                 /\ loc'[d].pc = next /\ loc'[d].req = loc[d].req /\ loc'[d].got = bind[d].lease
                 /\ loc'[d].super => k = "COMMIT"
  <1>1. Kept /\ UNCHANGED <<made, bind, up, net>> /\ Answered(d, k) BY DEF Replied, server, Kept
  <1>2. TypeOK /\ loc \in [Devices -> Local] BY DEF Base, TypeOK
  <1>3. /\ k \in Kinds /\ Known(loc[d].req) /\ loc[d].req.dev = d /\ loc[d].req.kind = k
        /\ ops[d][k] # None /\ ops[d][k].req = loc[d].req
        /\ bind[d].lease = loc[d].req.fence /\ bind[d] # None
    <2>1. k # "PUBLISH" BY DEF UpKinds
    <2> QED BY <1>1, <2>1, AnsweredFacts
  <1>4. ~ops[d][k].done /\ (loc[d].ans.ok => loc[d].req \in DOMAIN ledger) BY <1>1, AnsweredFacts
  <1>5. /\ loc[d].req.snap \in DOMAIN made /\ loc[d].req.snap \in Snaps
        /\ Owns(d, made[loc[d].req.snap].fence) /\ made[loc[d].req.snap].fence = bind[d].lease
    <2>1. PICK r : r = loc[d].req OBVIOUS
    <2>2. r.snap \in DOMAIN made /\ r.fence = made[r.snap].fence /\ Owns(d, made[r.snap].fence)
      BY <1>3, <2>1, UpRequest
    <2>3. r.snap \in Snaps BY <1>2, <2>2, MadeType
    <2> QED BY <1>3, <2>1, <2>2, <2>3
  <1>6. CASE loc[d].ans.ok
    <2>1. PICK x : x = Done(ops[d][k]) OBVIOUS
    <2>2. ops' = [ops EXCEPT ![d][k] = x] /\ Return(d) BY <1>6, <2>1 DEF Replied
    <2>3. /\ ops'[d][k] # None /\ ops'[d][k].req = ops[d][k].req
          /\ \A j \in Kinds \ {k} : ops'[d][j] = ops[d][j]
          /\ \A e \in Devices \ {d} : ops'[e] = ops[e]
      <3>1. x \in Operation \cup {None} /\ x # None /\ x.req = ops[d][k].req
        <4>1. TypeOK /\ k \in Kinds /\ ops[d][k] # None BY <1>2, <1>3
        <4> QED BY ONLY <4>1, d \in Devices, <2>1, DoneType
      <3>2. /\ ops'[d][k] = x /\ \A j \in Kinds \ {k} : ops'[d][j] = ops[d][j]
            /\ \A e \in Devices \ {d} : ops'[e] = ops[e]
        BY <1>2, <1>3, <2>2, <3>1, SetOp, ZenonT(60)
      <3> QED BY <3>1, <3>2
    <2>4. loc'[d] = Idle /\ \A e \in Devices \ {d} : loc'[e] = loc[e] BY <1>2, <2>2, Returned
    <2> QED BY <1>1, <1>3, <1>4, <1>5, <1>6, <2>3, <2>4
  <1>7. CASE ~loc[d].ans.ok
    <2>1. PICK x : x = [pc |-> next, req |-> loc[d].req, ans |-> loc[d].ans, fresh |-> loc[d].fresh,
                        got |-> bind[d].lease, super |-> (k = "COMMIT" /\ loc[d].ans.val # 0)]
      OBVIOUS
    <2>2. loc' = [loc EXCEPT ![d] = x] /\ ops' = [ops EXCEPT ![d][k] = None]
      BY <1>7, <2>1 DEF Replied
    <2>3. loc'[d] = x /\ \A e \in Devices \ {d} : loc'[e] = loc[e] BY <1>2, <2>2
    <2>4. x.pc = next /\ x.req = loc[d].req /\ x.got = bind[d].lease BY <2>1
    <2>5. x.super => k = "COMMIT" BY <2>1
    <2>6. /\ ops'[d][k] = None /\ \A j \in Kinds \ {k} : ops'[d][j] = ops[d][j]
          /\ \A e \in Devices \ {d} : ops'[e] = ops[e]
      BY <1>2, <1>3, <2>2, SetOp, ZenonT(60)
    <2> QED BY <1>1, <1>3, <1>4, <1>5, <1>7, <2>3, <2>4, <2>5, <2>6
  <1> QED BY <1>6, <1>7

LEMMA UploadCreatedSession ==
    ASSUME Base, Base', UploadInv, SessionInv, NEW d \in Devices, UploadCreated(d)
    PROVE  UploadInv' /\ SessionInv'
  <1>1. Replied(d, "UPLOAD", "abandon") /\ sess' = sess /\ "UPLOAD" \in UpKinds
    BY DEF UploadCreated, UpKinds
  <1>2. /\ Kept /\ UNCHANGED <<made, bind, up, net>> /\ bind[d] # None
        /\ \A e \in Devices \ {d} : bind'[e] = bind[e] /\ ops'[e] = ops[e] /\ loc'[e] = loc[e]
        /\ \A j \in Kinds \ {"UPLOAD"} : ops'[d][j] = ops[d][j]
    BY <1>1, RepliedRow
  <1>3. ~ops[d]["UPLOAD"].done BY <1>1, RepliedRow
  <1>4. HolderOK(d) BY DEF SessionInv
  <1>5. \A s \in DOMAIN made : made[s].fence = bind[d].lease => sess[s] = "none"
    BY <1>2, <1>3, <1>4, SoleUpload
  <1>6. PICK f : f = bind[d].lease OBVIOUS
  <1>7. Quit(f)' BY <1>1, <1>2, <1>5, <1>6 DEF Quit
  <1>8. CommandOK(d)'
    <2>1. CASE loc'[d] = Idle BY <2>1, IdleCommand
    <2>2. CASE loc'[d] # Idle
      <3>1. loc'[d].pc = "abandon" /\ loc'[d].got = f BY <1>1, <1>6, <2>2, RepliedRow
      <3>2. ~loc'[d].super BY <1>1, <2>2, RepliedRow
      <3> QED BY <1>7, <3>1, <3>2 DEF CommandOK
    <2> QED BY <2>1, <2>2
  <1>9. SameHolder(d)
    <2>1. ops'[d]["RELEASE"] = ops[d]["RELEASE"] /\ ops'[d]["FINALIZE"] = ops[d]["FINALIZE"]
          /\ ops'[d]["COMMIT"] = ops[d]["COMMIT"]
      BY <1>2 DEF Kinds
    <2> QED BY <1>2, <1>5, <2>1 DEF SameHolder
  <1> QED BY <1>1, <1>2, <1>8, <1>9, CalmStep

\* A refusal leaves the session to fail_upload.
LEMMA RefusedSession ==
    ASSUME Base, Base', UploadInv, SessionInv, NEW d \in Devices, NEW k \in {"FINALIZE", "COMMIT"},
           Replied(d, k, "failed"), ~loc[d].ans.ok, sess' = sess
    PROVE  UploadInv' /\ SessionInv'
  <1>1. k \in UpKinds BY DEF UpKinds
  <1>2. /\ Kept /\ UNCHANGED <<made, bind, up, net>> /\ Answered(d, k) /\ ops'[d][k] = None
        /\ \A e \in Devices \ {d} : bind'[e] = bind[e] /\ ops'[e] = ops[e] /\ loc'[e] = loc[e]
        /\ \A j \in Kinds \ {k} : ops'[d][j] = ops[d][j]
        /\ loc'[d].pc = "failed" /\ loc'[d].req = loc[d].req /\ loc[d].req.snap \in DOMAIN made
    BY <1>1, RepliedRow
  <1>3. CommandOK(d) /\ loc[d].pc = "wait" /\ loc[d].req.kind = k /\ loc[d].ans # None
    BY <1>2 DEF SessionInv, Answered, At
  <1>4. PICK s : s = loc[d].req.snap OBVIOUS
  <1>5. sess[s] \in {"OPEN", "READY"} /\ Doomed(s)
    <2>1. CASE k = "COMMIT" BY <1>3, <1>4, <2>1 DEF CommandOK
    <2>2. CASE k = "FINALIZE"
      <3>1. sess[s] = "OPEN" BY <1>3, <1>4, <2>2 DEF CommandOK
      <3>2. UploadOK(s) BY <1>2, <1>4 DEF UploadInv
      <3> QED BY <3>1, <3>2, OpenDoomed
    <2> QED BY <2>1, <2>2
  <1>6. Doomed(s)' BY <1>2, <1>5 DEF Doomed, Kept, Committed, Held
  <1>7. loc'[d].req.snap = s BY <1>2, <1>4
  <1>8. CommandOK(d)' BY <1>2, <1>5, <1>6, <1>7 DEF CommandOK
  <1>9. SameHolder(d)
    <2>1. ops'[d]["RELEASE"] = ops[d]["RELEASE"] /\ ops'[d]["UPLOAD"] = ops[d]["UPLOAD"]
      BY <1>2 DEF Kinds
    <2>2. \A j \in {"FINALIZE", "COMMIT"} : ops'[d][j] = ops[d][j] \/ ops'[d][j] = None
      BY <1>2 DEF Kinds
    <2> QED BY <1>2, <2>1, <2>2 DEF SameHolder
  <1> QED BY <1>2, <1>8, <1>9, CalmStep

LEMMA RepliesSession ==
    ASSUME Base, Base', UploadInv, SessionInv, NEW d \in Devices, Finalized(d) \/ CommitReplied(d)
    PROVE  UploadInv' /\ SessionInv'
  <1>1. PICK k \in {"FINALIZE", "COMMIT"}, st \in {"READY", "COMMITTED"} :
          /\ Replied(d, k, "failed") /\ st = (IF k = "FINALIZE" THEN "READY" ELSE "COMMITTED")
          /\ sess' = IF loc[d].ans.ok THEN [sess EXCEPT ![loc[d].req.snap] = st] ELSE sess
    BY DEF Finalized, CommitReplied
  <1>2. k \in UpKinds BY DEF UpKinds
  <1>3. CASE ~loc[d].ans.ok
    <2>1. sess' = sess BY <1>1, <1>3
    <2> QED BY <1>1, <1>3, <2>1, RefusedSession
  <1>4. CASE loc[d].ans.ok
    <2>1. PICK c : c = loc[d].req.snap OBVIOUS
    <2>2. /\ Kept /\ UNCHANGED <<made, bind, up, net>> /\ Answered(d, k)
          /\ \A e \in Devices \ {d} : bind'[e] = bind[e] /\ ops'[e] = ops[e] /\ loc'[e] = loc[e]
          /\ \A j \in Kinds \ {k} : ops'[d][j] = ops[d][j]
      BY <1>1, <1>2, RepliedRow
    <2>3. /\ c \in DOMAIN made /\ c \in Snaps /\ Owns(d, made[c].fence)
          /\ ops[d][k] # None /\ ops[d][k].req = loc[d].req
      BY <1>1, <1>2, <2>1, RepliedRow
    <2>4. loc[d].req \in DOMAIN ledger /\ loc'[d] = Idle BY <1>1, <1>2, <1>4, RepliedRow
    <2>5. ops'[d][k] # None /\ ops'[d][k].req = ops[d][k].req BY <1>1, <1>2, <1>4, RepliedRow
    <2>6. sess'[c] = st /\ \A s \in Snaps \ {c} : sess'[s] = sess[s]
      <3>1. sess \in [Snaps -> {"none", "OPEN", "READY", "COMMITTED", "ABORTED"}] BY DEF Base, TypeOK
      <3>2. sess' = [sess EXCEPT ![c] = st] BY <1>1, <1>4, <2>1
      <3> QED BY <2>3, <3>1, <3>2
    <2>7. \A s \in DOMAIN made \ {c} : sess'[s] = sess[s] BY <2>6, MadeType DEF Base
    <2>8. CommandOK(d) /\ HolderOK(d) /\ UploadOK(c) BY <2>3 DEF SessionInv, UploadInv
    <2>9. sess[c] = IF k = "FINALIZE" THEN "OPEN" ELSE "READY"
      BY <2>1, <2>2, <2>8 DEF CommandOK, Answered, At
    <2>10. CommandOK(d)' BY <2>4, IdleCommand
    <2>11. HolderOK(d)'
      <3>1. sess[c] \in {"OPEN", "READY"} /\ sess'[c] # "none" BY <1>1, <2>6, <2>9
      <3>2. ops'[d]["UPLOAD"] = ops[d]["UPLOAD"] /\ ops'[d]["RELEASE"] = ops[d]["RELEASE"]
        BY <2>2 DEF Kinds
      <3>3. \A j \in {"FINALIZE", "COMMIT"} :
             ops'[d][j] # None => ops[d][j] # None /\ ops'[d][j].req = ops[d][j].req
        BY <2>2, <2>3, <2>5 DEF Kinds
      <3>4. \/ ops'[d]["COMMIT"] = ops[d]["COMMIT"]
            \/ ops'[d]["COMMIT"] # None => sess'[ops'[d]["COMMIT"].req.snap] = "COMMITTED"
        <4>1. CASE k = "FINALIZE" BY <2>2, <4>1 DEF Kinds
        <4>2. CASE k = "COMMIT" BY <1>1, <2>1, <2>3, <2>5, <2>6, <4>2
        <4> QED BY <4>1, <4>2
      <3> QED BY <2>2, <2>3, <2>7, <2>8, <3>1, <3>2, <3>3, <3>4, HolderMoved
    <2>12. UploadOK(c)'
      <3>1. /\ \A j : InLedger(j, c)' <=> InLedger(j, c)
            /\ Committed(c)' <=> Committed(c)
            /\ epoch' = epoch /\ up' = up /\ made' = made /\ sess'[c] = st
        BY <2>2, <2>6 DEF Kept, InLedger, Committed
      <3>2. st = "READY" => InLedger("FINALIZE", c)
        BY <1>1, <2>1, <2>2, <2>4 DEF InLedger, Answered
      <3>3. st \in {"READY", "COMMITTED"} BY <1>1
      <3> QED BY <2>8, <3>1, <3>2, <3>3 DEF UploadOK
    <2> QED BY <2>2, <2>3, <2>7, <2>10, <2>11, <2>12, MovedStep
  <1> QED BY <1>3, <1>4

----------------------------------------------------------------------------
(* The fourth part: giving up, preparing and finishing.                     *)

LEMMA FailUploadSession ==
    ASSUME Base, Base', UploadInv, SessionInv, NEW d \in Devices, FailUpload(d)
    PROVE  UploadInv' /\ SessionInv'
  <1>1. PICK c : c = loc[d].req.snap OBVIOUS
  <1>2. /\ Kept /\ UNCHANGED <<made, bind, ops, up, net>> /\ loc[d].pc = "failed" /\ Goto(d, "abandon")
        /\ sess' = [s \in Snaps |-> IF s = c THEN "ABORTED" ELSE sess[s]]
    BY <1>1 DEF FailUpload, At, server, Kept
  <1>3. TypeOK /\ BindOK(d) /\ LocOK(d) /\ CommandOK(d) /\ HolderOK(d) BY RowBefore DEF SessionInv
  <1>4. /\ c \in DOMAIN made /\ c \in Snaps /\ Owns(d, made[c].fence) /\ bind[d] # None
        /\ made[c].fence = bind[d].lease /\ loc[d].got = bind[d].lease
    <2>1. PICK r : r = loc[d].req OBVIOUS
    <2>2. /\ Known(r) /\ r.kind \in UpKinds /\ r.dev = d /\ bind[d].lease = r.fence
          /\ loc[d].got = bind[d].lease /\ bind[d] # None
      BY <1>2, <1>3, <2>1 DEF LocOK, BindOK
    <2> QED BY <1>1, <1>3, <2>1, <2>2, UpRequest, MadeType
  <1>5. sess[c] \in {"OPEN", "READY"} /\ Doomed(c) /\ UploadOK(c)
    BY <1>1, <1>2, <1>3, <1>4 DEF CommandOK, UploadInv
  <1>6. sess'[c] = "ABORTED" /\ \A s \in DOMAIN made \ {c} : sess'[s] = sess[s]
    BY <1>2, <1>3, <1>4, MadeType
  <1>7. HolderOK(d)'
    <2>1. ops'[d] = ops[d] BY <1>2
    <2> QED BY <1>2, <1>3, <1>4, <1>5, <1>6, <2>1, HolderMoved
  <1>8. UploadOK(c)'
    <2>1. /\ \A j : InLedger(j, c)' <=> InLedger(j, c)
          /\ Committed(c)' <=> Committed(c)
          /\ epoch' = epoch /\ up' = up /\ made' = made /\ sess'[c] = "ABORTED"
      BY <1>2, <1>6 DEF Kept, InLedger, Committed
    <2>2. Doomed(c)' /\ ~Committed(c) BY <1>2, <1>5 DEF Doomed, Kept, Committed, Held
    <2> QED BY <1>5, <2>1, <2>2 DEF UploadOK
  <1>9. PICK f : f = bind[d].lease OBVIOUS
  <1>10. Quit(f)'
    <2> SUFFICES ASSUME NEW s \in DOMAIN made, made[s].fence = f, sess'[s] \in {"OPEN", "READY"}
                 PROVE  FALSE
      BY <1>2 DEF Quit
    <2>1. s # c /\ sess[s] # "none" BY <1>6
    <2>2. ops[d]["UPLOAD"].req.snap = s BY <1>3, <1>4, <1>9, <2>1, SoleUpload
    <2>3. ops[d]["UPLOAD"].req.snap = c BY <1>3, <1>4, <1>5, <1>9, SoleUpload
    <2> QED BY <2>1, <2>2, <2>3
  <1>11. /\ loc'[d].pc = "abandon" /\ loc'[d].got = f /\ bind'[d].lease = f
         /\ \A e \in Devices \ {d} : loc'[e] = loc[e]
    BY <1>2, <1>3, <1>4, <1>9, Gone DEF PCs
  <1>12. CommandOK(d)' BY <1>10, <1>11 DEF CommandOK
  <1> QED BY <1>2, <1>4, <1>6, <1>7, <1>8, <1>11, <1>12, MovedStep

LEMMA PrepareCommitSession ==
    ASSUME Base, Base', UploadInv, SessionInv, NEW d \in Devices, PrepareCommit(d)
    PROVE  UploadInv' /\ SessionInv'
  <1>1. PICK u : u = ops[d]["UPLOAD"].req OBVIOUS
  <1>2. PICK r : r = [u EXCEPT !.kind = "COMMIT"] OBVIOUS
  <1>3. PICK c : c = u.snap OBVIOUS
  <1>4. /\ Kept /\ UNCHANGED <<up, made, bind, loc, net>>
        /\ loc[d].pc = "idle" /\ bind[d] # None /\ bind[d].q = "" /\ OfLease(d, "UPLOAD")
        /\ sess[c] = "none" /\ sess' = [sess EXCEPT ![c] = "OPEN"]
        /\ ops' = [ops EXCEPT ![d]["COMMIT"] = Anew(r)]
    BY <1>1, <1>2, <1>3 DEF PrepareCommit, Working, Current, Bound, At, server, Kept
  <1>5. ops[d]["UPLOAD"].done /\ ~Pending(d, "RELEASE")
    BY DEF PrepareCommit, Working, Pending, OfLease
  <1>6. TypeOK /\ OpsOK(d) /\ HolderOK(d) /\ sess \in [Snaps -> {"none", "OPEN", "READY", "COMMITTED", "ABORTED"}]
    BY RowBefore DEF SessionInv, Base, TypeOK
  <1>7. /\ u.kind = "UPLOAD" /\ c \in DOMAIN made /\ c \in Snaps /\ u \in Request
        /\ made[c].fence = bind[d].lease /\ Owns(d, made[c].fence)
    <2>1. u \in Request BY <1>1, <1>4, <1>6, RowTypes DEF OfLease, Live, Kinds
    <2>2. "UPLOAD" \in UpKinds BY DEF UpKinds
    <2>3. /\ u.kind = "UPLOAD" /\ u.snap \in DOMAIN made /\ u.snap \in Snaps
          /\ made[u.snap].fence = bind[d].lease /\ Owns(d, made[u.snap].fence)
      <3>1. OfLease(d, "UPLOAD") BY <1>4
      <3> QED BY ONLY Base, d \in Devices, <1>1, <2>2, <3>1, StoredUpload
    <2> QED BY <1>3, <2>1, <2>3
  <1>8. r.snap = c /\ r \in Request BY <1>2, <1>3, <1>7 DEF Request, Kinds
  <1>9. sess'[c] = "OPEN" /\ \A s \in DOMAIN made \ {c} : sess'[s] = sess[s]
    BY <1>4, <1>6, <1>7, MadeType
  <1>10. PICK x : x = Anew(r) OBVIOUS
  <1>11. x \in Operation \cup {None} /\ x.req = r /\ ~x.done
    <2>1. x \in Operation \cup {None} /\ x.req = r BY <1>8, <1>10, AnewType
    <2>2. ~x.done BY <1>10 DEF Anew
    <2> QED BY <2>1, <2>2
  <1>12. /\ ops'[d]["COMMIT"] = x
         /\ \A j \in Kinds \ {"COMMIT"} : ops'[d][j] = ops[d][j]
         /\ \A e \in Devices \ {d} : ops'[e] = ops[e]
    <2>1. "COMMIT" \in Kinds BY DEF Kinds
    <2>2. ops' = [ops EXCEPT ![d]["COMMIT"] = x] BY <1>4, <1>10
    <2> QED BY <1>6, <1>11, <2>1, <2>2, SetOp, ZenonT(60)
  <1>13. CommandOK(d)'
    <2>1. loc'[d] = Idle BY <1>4, IdleCalm
    <2> QED BY <2>1, IdleCommand
  <1>14. HolderOK(d)'
    <2>1. /\ ops'[d]["RELEASE"] = ops[d]["RELEASE"] /\ ops'[d]["UPLOAD"] = ops[d]["UPLOAD"]
          /\ ops'[d]["FINALIZE"] = ops[d]["FINALIZE"]
      BY <1>12 DEF Kinds
    <2>2. ops'[d]["RELEASE"] = None BY <1>5, <1>6, <2>1 DEF OpsOK, Pending, Live
    <2>3. ops[d]["FINALIZE"] # None => sess'[ops[d]["FINALIZE"].req.snap] # "none"
      <3> SUFFICES ASSUME ops[d]["FINALIZE"] # None PROVE sess'[ops[d]["FINALIZE"].req.snap] # "none"
        OBVIOUS
      <3>1. sess[ops[d]["FINALIZE"].req.snap] # "none" BY <1>6 DEF HolderOK, Live
      <3>2. PICK y : y = ops[d]["FINALIZE"].req OBVIOUS
      <3>3. Known(y) /\ y.kind = "FINALIZE" BY <1>6, <3>2 DEF OpsOK, Live, Kinds
      <3>4. y.snap \in DOMAIN made BY <3>3, UpRequest DEF UpKinds
      <3> QED BY <1>9, <3>1, <3>2, <3>4
    <2>4. sess'[ops'[d]["COMMIT"].req.snap] # "none" /\ ~ops'[d]["COMMIT"].done
      BY <1>8, <1>9, <1>11, <1>12
    <2>5. ASSUME NEW s \in DOMAIN made', made'[s].fence = bind'[d].lease, sess'[s] # "none"
          PROVE  ops'[d]["UPLOAD"] # None /\ ops'[d]["UPLOAD"].done /\ ops'[d]["UPLOAD"].req.snap = s
      <3>1. CASE s = c BY <1>1, <1>3, <1>4, <1>5, <2>1, <3>1 DEF OfLease, Live
      <3>2. CASE s # c
        <4>1. s \in DOMAIN made /\ made[s].fence = bind[d].lease /\ sess[s] # "none"
          BY <1>4, <1>9, <2>5, <3>2
        <4> QED BY <1>4, <1>6, <2>1, <4>1, ZenonT(60) DEF HolderOK, Live
      <3> QED BY <3>1, <3>2
    <2>6. bind'[d].q # "transition" BY <1>4
    <2> QED BY <2>1, <2>2, <2>3, <2>4, <2>5, <2>6 DEF HolderOK, Live
  <1>15. UploadOK(c)'
    <2>1. UploadOK(c) BY <1>7 DEF UploadInv
    <2>2. /\ \A j : InLedger(j, c)' <=> InLedger(j, c)
          /\ Committed(c)' <=> Committed(c)
          /\ epoch' = epoch /\ up' = up /\ made' = made /\ sess'[c] = "OPEN" /\ net' = net
          /\ ledger' = ledger
      BY <1>4, <1>9 DEF Kept, InLedger, Committed
    <2> QED BY <1>4, <2>1, <2>2 DEF UploadOK
  <1>16. \A e \in Devices \ {d} : bind'[e] = bind[e] /\ ops'[e] = ops[e] /\ loc'[e] = loc[e]
    BY <1>4, <1>12
  <1> QED BY <1>4, <1>7, <1>9, <1>13, <1>14, <1>15, <1>16, MovedStep

\* Dropping a lease whose uploads were given up leaves the sessions alone.
LEMMA DroppedQuit ==
    ASSUME Base, NEW d \in Devices, NEW f, Dropped(d, f), Quit(f)
    PROVE  sess' = sess
  <1>1. sess \in [Snaps -> {"none", "OPEN", "READY", "COMMITTED", "ABORTED"}] BY DEF Base, TypeOK
  <1>2. sess' = [s \in Snaps |-> IF s \in DOMAIN made /\ made[s].fence = f
                                    /\ sess[s] \in {"OPEN", "READY"}
                                 THEN "ABORTED" ELSE sess[s]]
    BY DEF Dropped
  <1>3. \A s \in Snaps : sess'[s] = sess[s] BY <1>2 DEF Quit
  <1>4. sess' \in [Snaps -> {"none", "OPEN", "READY", "COMMITTED", "ABORTED"}]
    BY DroppedRows DEF Base
  <1> QED BY <1>1, <1>3, <1>4

LEMMA DropSession ==
    ASSUME Base, Base', UploadInv, SessionInv, NEW d \in Devices, Drop(d)
    PROVE  UploadInv' /\ SessionInv'
  <1>1. PICK f : f = loc[d].req.fence OBVIOUS
  <1>2. /\ Kept /\ UNCHANGED <<up, made, net>>
        /\ At(d, "drop") \/ Answered(d, "RELEASE")
        /\ Dropped(d, f) /\ Return(d)
        /\ bind' = [bind EXCEPT ![d] = Unleased(bind[d], f, loc[d].super)]
    BY <1>1 DEF Drop, server, Kept
  <1>3. TypeOK /\ CommandOK(d) /\ HolderOK(d) BY RowBefore DEF SessionInv
  <1>4. Quit(f) /\ bind[d] # None /\ loc[d].req \in Request /\ loc[d].pc # "failed"
    <2>1. CASE At(d, "drop")
      <3>1. loc[d].pc = "drop" /\ BindOK(d) /\ LocOK(d) BY <2>1, RowBefore DEF At
      <3> QED BY <1>1, <1>3, <3>1, RowTypes DEF CommandOK, BindOK, LocOK
    <2>2. CASE Answered(d, "RELEASE")
      <3>1. /\ ops[d]["RELEASE"] # None /\ ops[d]["RELEASE"].req = loc[d].req /\ bind[d] # None
            /\ loc[d].req \in Request /\ loc[d].pc = "wait"
        BY <2>2, AnsweredFacts
      <3> QED BY <1>1, <1>3, <3>1 DEF HolderOK, Live
    <2> QED BY <1>2, <2>1, <2>2
  <1>5. sess' = sess BY <1>2, <1>4, DroppedQuit
  <1>6. f \in Nat /\ loc[d].super \in BOOLEAN /\ bind[d] \in Binding
    BY <1>1, <1>3, <1>4, RowTypes DEF Request
  <1>7. PICK x : x = Unleased(bind[d], f, loc[d].super) OBVIOUS
  <1>8. /\ x \in Binding /\ x.lease = (IF bind[d].lease = f THEN 0 ELSE bind[d].lease)
        /\ x.q = (IF loc[d].super THEN "transition" ELSE bind[d].q)
    BY <1>6, <1>7, UnleasedRow
  <1>9. bind'[d] = x /\ \A e \in Devices \ {d} : bind'[e] = bind[e]
    <2>1. bind' = [bind EXCEPT ![d] = x] /\ x \in Binding \cup {None} BY <1>2, <1>7, <1>8
    <2> QED BY <1>3, <2>1, SetBind
  <1>10. loc'[d] = Idle /\ \A e \in Devices \ {d} : loc'[e] = loc[e] BY <1>2, <1>3, Returned
  <1>11. CommandOK(d)' BY <1>10, IdleCommand
  <1>12. /\ \A k \in Kinds : ops'[d][k] = IF k # "PUBLISH" /\ Live(d, k) /\ ops[d][k].req.fence = f
                                          THEN None ELSE ops[d][k]
         /\ \A e \in Devices \ {d} : ops'[e] = ops[e]
    BY <1>2, <1>3, DroppedRows
  <1>13. \/ ops'[d]["UPLOAD"] = ops[d]["UPLOAD"]
         \/ \A s \in DOMAIN made : bind'[d] # None /\ made[s].fence = bind'[d].lease => sess[s] = "none"
    <2>1. CASE bind[d].lease = f
      <3>1. bind'[d].lease = 0 BY <1>8, <1>9, <2>1
      <3> QED BY <3>1, QuitZero
    <2>2. CASE bind[d].lease # f
      <3>1. bind'[d].lease = bind[d].lease BY <1>8, <1>9, <2>2
      <3>2. OfLease(d, "UPLOAD") => ops'[d]["UPLOAD"] = ops[d]["UPLOAD"]
        BY <1>12, <2>2 DEF OfLease, Kinds
      <3> QED BY <1>3, <1>4, <3>1, <3>2, SoleUpload
    <2> QED BY <2>1, <2>2
  <1>14. SameHolder(d)
    <2>1. \A k \in {"FINALIZE", "COMMIT", "RELEASE"} : ops'[d][k] = ops[d][k] \/ ops'[d][k] = None
      BY <1>12 DEF Kinds
    <2>2. \/ \A s \in DOMAIN made : made[s].fence # bind'[d].lease
          \/ /\ bind'[d].lease = bind[d].lease
             /\ bind'[d].q = "transition" => bind[d].q = "transition" \/ Quit(bind[d].lease)
      <3>1. CASE bind[d].lease = f
        <4>1. bind'[d].lease = 0 BY <1>8, <1>9, <3>1
        <4> QED BY <4>1, QuitZero
      <3>2. CASE bind[d].lease # f
        <4>1. bind'[d].lease = bind[d].lease BY <1>8, <1>9, <3>2
        <4>2. loc[d].super => Quit(bind[d].lease) BY <1>3, <1>4 DEF CommandOK
        <4>3. loc[d].super \/ bind'[d].q = bind[d].q BY <1>8, <1>9
        <4> QED BY <4>1, <4>2, <4>3
      <3> QED BY <3>1, <3>2
    <2> QED BY <1>4, <1>13, <2>1, <2>2 DEF SameHolder
  <1> QED BY <1>2, <1>5, <1>9, <1>10, <1>11, <1>12, <1>14, CalmStep

LEMMA FinishSession ==
    ASSUME Base, Base', UploadInv, SessionInv, NEW d \in Devices, Finish(d)
    PROVE  UploadInv' /\ SessionInv'
  <1>1. PICK r : r = ops[d]["COMMIT"].req OBVIOUS
  <1>2. /\ Kept /\ UNCHANGED <<made, up, loc, net>> /\ loc[d].pc = "idle" /\ bind[d] # None
        /\ OfLease(d, "COMMIT")
    BY ZenonT(60) DEF Finish, Working, Current, Bound, At, server, Kept
  <1>3. ops[d]["COMMIT"].done BY DEF Finish, OfLease, Pending
  <1>4. TypeOK /\ HolderOK(d) BY DEF SessionInv, Base
  <1>5. r.snap \in DOMAIN made /\ made[r.snap].fence = bind[d].lease BY <1>1, <1>2, StoredUpload DEF UpKinds
  <1>6. sess[r.snap] = "COMMITTED" BY <1>1, <1>2, <1>3, <1>4 DEF HolderOK, OfLease
  <1>7. Quit(bind[d].lease)
    <2> SUFFICES ASSUME NEW s \in DOMAIN made, made[s].fence = bind[d].lease, sess[s] # "none"
                 PROVE  sess[s] = "COMMITTED"
      BY DEF Quit
    <2>1. ops[d]["UPLOAD"].req.snap = s BY <1>2, <1>4, SoleUpload
    <2>2. ops[d]["UPLOAD"].req.snap = r.snap BY <1>2, <1>4, <1>5, <1>6, SoleUpload
    <2> QED BY <1>6, <2>1, <2>2
  <1>8. CommandOK(d)'
    <2>1. loc'[d] = Idle BY <1>2, IdleCalm
    <2> QED BY <2>1, IdleCommand
  <1>9. CASE EpochMoved(d)
    <2>1. Quarantine(d, "transition") /\ UNCHANGED <<ops, sess>> BY <1>9 DEF Finish
    <2>2. bind'[d].lease = bind[d].lease /\ \A e \in Devices \ {d} : bind'[e] = bind[e]
      BY <1>2, <1>4, <2>1, Quarantined
    <2>3. SameHolder(d) BY <1>2, <1>7, <2>1, <2>2 DEF SameHolder
    <2> QED BY <1>2, <1>8, <2>1, <2>2, <2>3, CalmStep
  <1>10. CASE ~EpochMoved(d)
    <2>1. PICK s : s = ops[d]["COMMIT"].req.snap OBVIOUS
    <2>2. /\ bind'[d].lease = 0 /\ \A e \in Devices \ {d} : bind'[e] = bind[e]
          /\ Dropped(d, bind[d].lease)
      BY <1>10, <2>1, FinishRow
    <2>3. sess' = sess BY <1>7, <2>2, DroppedQuit
    <2>4. /\ \A k \in Kinds : ops'[d][k] \in {ops[d][k], None}
          /\ \A e \in Devices \ {d} : ops'[e] = ops[e]
      BY <1>4, <2>2, DroppedRows
    <2>5. \A k \in {"FINALIZE", "COMMIT", "RELEASE"} : ops'[d][k] = ops[d][k] \/ ops'[d][k] = None
      BY <2>4 DEF Kinds
    <2>6. SameHolder(d) BY <2>2, <2>5, QuitZero DEF SameHolder
    <2>7. \A e \in Devices \ {d} : loc'[e] = loc[e] BY <1>2
    <2> QED BY <1>2, <1>8, <2>2, <2>3, <2>4, <2>6, <2>7, CalmStep
  <1> QED BY <1>9, <1>10, SMTT(40)

LEMMA SealSnapshotSession ==
    ASSUME Base, Base', UploadInv, SessionInv, NEW d \in Devices, SealSnapshot(d)
    PROVE  UploadInv' /\ SessionInv'
  <1>1. PICK c : c = Len(made) + 1 OBVIOUS
  <1>2. PICK r : r = ops'[d]["UPLOAD"].req OBVIOUS
  <1>3. /\ Kept /\ UNCHANGED <<up, bind, sess>> /\ loc[d] = Idle /\ bind[d] # None /\ bind[d].q = ""
        /\ DOMAIN made' = DOMAIN made \cup {c} /\ c \notin DOMAIN made
        /\ \A t \in DOMAIN made : made'[t] = made[t]
        /\ \A j \in Kinds \ {"UPLOAD"} : ops'[d][j] = ops[d][j]
        /\ \A e \in Devices \ {d} : ops'[e] = ops[e] /\ loc'[e] = loc[e]
        /\ ~OfLease(d, "UPLOAD")
    BY <1>1, SealRow
  <1>4. /\ r.kind = "UPLOAD" /\ net' = net \cup {r} /\ loc'[d].pc = "wait" /\ loc'[d].req = r
        /\ ops'[d]["UPLOAD"] # None
    BY <1>2, SealRow
  <1>5. loc'[d].super = loc[d].super BY SealRow
  <1>6. ~loc'[d].super
    <2>1. ~Idle.super BY DEF Idle, Holding
    <2> QED BY <1>3, <1>5, <2>1
  <1>7. r.dev = d
    <2>1. OpsOK(d)' BY DEF Base, DeviceOK
    <2> QED BY <1>2, <1>4, <2>1 DEF OpsOK, Live, Kinds
  <1>8. c \in Snaps /\ up[c] = "none" /\ sess[c] = "none" /\ ~Committed(c)
    <2>1. c \in Snaps BY <1>1 DEF SealSnapshot
    <2> QED BY <1>3, <2>1 DEF Base, LogInv, Committed
  <1>9. OwnSessions(d) BY <1>3, <1>4, <1>7, <1>8 DEF OwnSessions
  <1>10. CommandOK(d)' BY <1>4, <1>6 DEF CommandOK
  <1>11. HolderOK(d) BY DEF SessionInv
  <1>12. HolderOK(d)'
    <2>1. \A f : Quit(f) => Quit(f)' BY <1>3, <1>8 DEF Quit
    <2>2. /\ ops'[d]["RELEASE"] = ops[d]["RELEASE"] /\ ops'[d]["FINALIZE"] = ops[d]["FINALIZE"]
          /\ ops'[d]["COMMIT"] = ops[d]["COMMIT"]
      BY <1>3 DEF Kinds
    <2>3. Live(d, "RELEASE")' => Quit(ops[d]["RELEASE"].req.fence)'
      <3>1. PICK f : f = ops[d]["RELEASE"].req.fence OBVIOUS
      <3>2. Live(d, "RELEASE")' => Quit(f)' BY <1>11, <2>1, <2>2, <3>1 DEF HolderOK, Live
      <3> QED BY <2>2, <3>1, <3>2
    <2>4. ASSUME NEW s \in DOMAIN made', made'[s].fence = bind'[d].lease, sess'[s] # "none" PROVE FALSE
      <3>1. s \in DOMAIN made /\ made[s].fence = bind[d].lease /\ sess[s] # "none"
        BY <1>3, <1>8, <2>4
      <3> QED BY <1>3, <1>11, <3>1, SoleUpload
    <2>5. bind'[d].q # "transition" BY <1>3
    <2> QED BY <1>3, <1>11, <2>2, <2>3, <2>4, <2>5, ZenonT(60) DEF HolderOK, Live
  <1>13. SessionInv' BY <1>3, <1>9, <1>10, <1>12, SessionStep
  <1>14. ASSUME NEW s \in DOMAIN made' PROVE UploadOK(s)'
    <2>1. TypeOK' BY DEF Base
    <2>2. CASE s \in DOMAIN made
      <3>1. UploadOK(s) BY <2>2 DEF UploadInv
      <3>2. \A x \in net' : x.kind = "COMMIT" /\ x.snap = s => x \in net \/ sess[s] = "READY" BY <1>4
      <3> QED BY <1>3, <2>1, <2>2, <3>1, <3>2, UploadSame
    <2>3. CASE s = c
      <3>1. ASSUME NEW x \in net \cup DOMAIN ledger, x.kind \in UpKinds PROVE x.snap # c
        <4>1. Known(x) BY DEF Base, WireInv
        <4> QED BY <1>3, <3>1, <4>1, UpRequest
      <3>2. \A k \in UpKinds : ~InLedger(k, c)' BY <1>3, <3>1 DEF InLedger, Kept
      <3>3. \A x \in net' \cup DOMAIN ledger' : ~(x.kind = "COMMIT" /\ x.snap = c)
        BY <1>3, <1>4, <3>1 DEF Kept, UpKinds
      <3>4. up'[c] = "none" /\ sess'[c] = "none" /\ ~Committed(c)' BY <1>3, <1>8 DEF Kept, Committed
      <3>5. UploadOK(c)' BY <3>2, <3>3, <3>4 DEF UploadOK, UpKinds
      <3> QED BY <2>3, <3>5
    <2> QED BY <1>3, <2>2, <2>3
  <1>15. UploadInv' BY <1>14 DEF UploadInv
  <1> QED BY <1>13, <1>15

----------------------------------------------------------------------------
(* The fourth part: the server.                                             *)

\* What a step of the server does to one upload.
LEMMA ServerUpload ==
    ASSUME Base, TypeOK', NEW s \in DOMAIN made, UploadOK(s), UNCHANGED <<made, sess>>, net' \subseteq net,
           DOMAIN ledger \subseteq DOMAIN ledger', epoch <= epoch', LeaseMoves,
           Committed(s)' => Committed(s),
           up'[s] \in {"none", up[s]}, up'[s] = up[s] \/ epoch' = epoch + 1,
           \A x \in DOMAIN ledger' : x \in DOMAIN ledger \/ (x.kind \in UpKinds => x.snap # s)
    PROVE  UploadOK(s)'
  <1>1. \A k \in UpKinds : InLedger(k, s)' <=> InLedger(k, s) BY DEF InLedger
  <1>2. sess[s] = "ABORTED" => Doomed(s)' BY DoomedStays DEF UploadOK
  <1>3. made[s].epoch < epoch \/ up[s] \in {"READY", "COMMITTED"} =>
          made[s].epoch < epoch' \/ up'[s] \in {"READY", "COMMITTED"}
    <2>1. made[s].epoch \in Nat /\ epoch \in Nat /\ epoch' \in Nat /\ made[s].epoch <= epoch
      BY MadeType DEF Base, LogInv, TypeOK
    <2> QED BY <2>1
  <1>4. ASSUME NEW x \in net' \cup DOMAIN ledger', x.kind = "COMMIT", x.snap = s
        PROVE  sess[s] \in {"READY", "COMMITTED", "ABORTED"}
    <2>1. x \in net \cup DOMAIN ledger BY <1>4 DEF UpKinds
    <2> QED BY <1>4, <2>1 DEF UploadOK
  <1> QED BY <1>1, <1>2, <1>3, <1>4 DEF UploadOK, UpKinds

\* The same of the commands.
LEMMA ServerSession ==
    ASSUME Base, SessionInv, UNCHANGED <<made, bind, ops, sess>>,
           \A s \in DOMAIN made : sess[s] \in {"OPEN", "READY"} /\ Doomed(s) => Doomed(s)',
           \A e \in Devices : /\ loc'[e].pc = loc[e].pc /\ loc'[e].req = loc[e].req
                              /\ loc'[e].got = loc[e].got /\ loc'[e].super = loc[e].super,
           \A e \in Devices : \/ loc'[e].ans = loc[e].ans
                              \/ loc'[e].pc = "wait" /\ loc'[e].req.kind = "COMMIT" /\ ~loc'[e].ans.ok
                                   => Doomed(loc[e].req.snap)'
    PROVE  SessionInv'
  <1> SUFFICES ASSUME NEW e \in Devices PROVE CommandOK(e)' /\ HolderOK(e)' BY DEF SessionInv
  <1>1. CommandOK(e) /\ HolderOK(e) /\ LocOK(e) BY RowBefore DEF SessionInv
  <1>2. \A f : Quit(f) <=> Quit(f)' BY DEF Quit
  <1>3. SameHolder(e) BY DEF SameHolder
  <1>4. HolderOK(e)' BY <1>1, <1>3, HolderKept
  <1>5. PICK r : r = loc[e].req OBVIOUS
  <1>6. PICK s : s = r.snap OBVIOUS
  <1>7. PICK f : f = loc[e].got OBVIOUS
  <1>8. PICK g : g = r.fence OBVIOUS
  <1>9. PICK l : l = bind[e].lease OBVIOUS
  <1>10. r # None /\ r.kind \in UpKinds => s \in DOMAIN made
    <2>1. r # None => Known(r) BY <1>1, <1>5 DEF LocOK
    <2> QED BY <1>6, <2>1, UpRequest
  <1>11. /\ loc'[e].pc = loc[e].pc /\ loc'[e].req = r /\ loc'[e].got = f /\ loc'[e].req.snap = s
         /\ loc'[e].req.fence = g /\ bind'[e].lease = l
    BY <1>5, <1>6, <1>7, <1>8, <1>9
  <1>12. loc'[e].super = loc[e].super OBVIOUS
  <1>13. loc[e].pc = "wait" /\ r.kind = "FINALIZE" => sess'[s] = "OPEN"
    BY <1>1, <1>5, <1>6 DEF CommandOK
  <1>14. loc[e].pc = "wait" /\ r.kind = "COMMIT" =>
           sess'[s] = "READY" /\ (loc'[e].ans # None /\ ~loc'[e].ans.ok => Doomed(s)')
    <2> SUFFICES ASSUME loc[e].pc = "wait", r.kind = "COMMIT"
                 PROVE  sess'[s] = "READY" /\ (loc'[e].ans # None /\ ~loc'[e].ans.ok => Doomed(s)')
      OBVIOUS
    <2>1. sess[s] = "READY" /\ (loc[e].ans # None /\ ~loc[e].ans.ok => Doomed(s))
      BY <1>1, <1>5, <1>6 DEF CommandOK
    <2>2. s \in DOMAIN made
      <3>1. r # None BY <1>1, <1>5 DEF LocOK, WaitOK
      <3> QED BY <1>10, <3>1 DEF UpKinds
    <2>3. CASE loc'[e].ans = loc[e].ans BY <2>1, <2>2, <2>3
    <2>4. CASE loc'[e].pc = "wait" /\ loc'[e].req.kind = "COMMIT" /\ ~loc'[e].ans.ok
                 => Doomed(loc[e].req.snap)'
      <3>1. ~loc'[e].ans.ok => Doomed(loc[e].req.snap)' BY <1>11, <2>4
      <3>2. ~loc'[e].ans.ok => Doomed(s)' BY <1>11, <3>1
      <3> QED BY <2>1, <3>2
    <2> QED BY <2>3, <2>4
  <1>15. loc[e].pc = "failed" => sess'[s] \in {"OPEN", "READY"} /\ Doomed(s)'
    <2>1. loc[e].pc = "failed" => r # None /\ r.kind \in UpKinds BY <1>1, <1>5 DEF LocOK
    <2>2. loc[e].pc = "failed" => sess[s] \in {"OPEN", "READY"} /\ Doomed(s)
      BY <1>1, <1>5, <1>6 DEF CommandOK
    <2> QED BY <1>10, <2>1, <2>2
  <1>16. loc[e].pc = "abandon" => Quit(f)' BY <1>1, <1>2, <1>7 DEF CommandOK
  <1>17. loc[e].pc = "drop" => Quit(g)' BY <1>1, <1>2, <1>5, <1>8 DEF CommandOK
  <1>18. loc[e].super /\ loc[e].pc # "failed" => Quit(l)' BY <1>1, <1>2, <1>9 DEF CommandOK
  <1>19. CommandOK(e)'
    BY <1>11, <1>12, <1>13, <1>14, <1>15, <1>16, <1>17, <1>18 DEF CommandOK
  <1> QED BY <1>4, <1>19

LEMMA ExpireSession ==
    ASSUME Base, Base', UploadInv, SessionInv, Expire
    PROVE  UploadInv' /\ SessionInv'
  <1>1. /\ lease # None /\ lease' = [lease EXCEPT !.over = TRUE]
        /\ UNCHANGED <<epoch, log, fence, up, ledger, made, bind, ops, sess, loc, net>>
    BY DEF Expire, db
  <1>2. TypeOK /\ TypeOK' /\ epoch \in Nat /\ lease \in LeaseRow BY <1>1 DEF Base, TypeOK
  <1>3. LeaseMoves
    <2>1. lease'.fence = lease.fence /\ lease'.dev = lease.dev BY <1>1, <1>2 DEF LeaseRow
    <2>2. lease'.over BY <1>1, <1>2 DEF LeaseRow
    <2> QED BY <1>1, <2>1, <2>2 DEF LeaseMoves
  <1>4. \A s : Committed(s)' <=> Committed(s) BY <1>1 DEF Committed
  <1>5. epoch <= epoch' BY <1>1, <1>2
  <1>6. \A s : Doomed(s) => Doomed(s)' BY <1>1, <1>2, <1>3, <1>4, <1>5, DoomedStays
  <1>7. SessionInv' BY <1>1, <1>6, ServerSession
  <1>8. ASSUME NEW s \in DOMAIN made PROVE UploadOK(s)'
    <2>1. UploadOK(s) BY DEF UploadInv
    <2> QED BY <1>1, <1>2, <1>3, <1>4, <1>5, <2>1, ServerUpload
  <1> QED BY <1>1, <1>7, <1>8 DEF UploadInv

LEMMA RestoreSession ==
    ASSUME Base, Base', UploadInv, SessionInv, NEW keep \in DOMAIN log, ServerRestore(keep)
    PROVE  UploadInv' /\ SessionInv'
  <1>1. /\ epoch' = epoch + 1 /\ log' = SubSeq(log, 1, keep) /\ lease' = None
        /\ up' = [s \in Snaps |-> IF \E v \in 1 .. keep : log[v] = s THEN up[s] ELSE "none"]
        /\ UNCHANGED <<fence, ledger, made, bind, ops, sess, loc, net>>
    BY DEF ServerRestore, db
  <1>2. TypeOK /\ TypeOK' /\ epoch \in Nat /\ log \in Seq(Snaps) BY DEF Base, TypeOK
  <1>3. LeaseMoves /\ epoch <= epoch' BY <1>1, <1>2 DEF LeaseMoves
  <1>4. \A s : Committed(s)' => Committed(s)
    <2>1. DOMAIN log' \subseteq DOMAIN log /\ \A v \in DOMAIN log' : log'[v] = log[v]
      BY <1>1, <1>2, RestoredLog
    <2> QED BY <2>1 DEF Committed
  <1>5. \A s : Doomed(s) => Doomed(s)' BY <1>1, <1>2, <1>3, <1>4, DoomedStays
  <1>6. SessionInv' BY <1>1, <1>5, ServerSession
  <1>7. ASSUME NEW s \in DOMAIN made PROVE UploadOK(s)'
    <2>1. UploadOK(s) BY DEF UploadInv
    <2>2. s \in Snaps BY <1>2, MadeType
    <2>3. up'[s] \in {"none", up[s]} BY <1>1, <2>2
    <2> QED BY <1>1, <1>2, <1>3, <1>4, <2>1, <2>3, ServerUpload
  <1> QED BY <1>1, <1>6, <1>7 DEF UploadInv

LEMMA InitSession == Init => UploadInv /\ SessionInv
  <1> SUFFICES ASSUME Init PROVE UploadInv /\ SessionInv OBVIOUS
  <1>1. DOMAIN made = {} BY DEF Init
  <1>2. UploadInv BY <1>1 DEF UploadInv
  <1>3. ASSUME NEW d \in Devices PROVE CommandOK(d) /\ HolderOK(d)
    <2>1. bind[d] = None /\ ops[d] = NoOps /\ loc[d] = Idle BY DEF Init
    <2>2. ~Idle.super BY DEF Idle, Holding
    <2>3. Idle.pc = "idle" BY DEF Idle, Holding
    <2>4. \A k \in Kinds : ~Live(d, k) BY <2>1 DEF NoOps, Live
    <2>5. CommandOK(d) BY <2>1, <2>2, <2>3 DEF CommandOK
    <2>6. HolderOK(d) BY <2>1, <2>4 DEF HolderOK, Kinds
    <2> QED BY <2>5, <2>6
  <1> QED BY <1>2, <1>3 DEF SessionInv

\* A commit that is refused while its session is READY can never land.
LEMMA RefusedDoomed ==
    ASSUME Base, SealInv, NEW r \in net, r.kind = "COMMIT", UploadOK(r.snap), sess[r.snap] = "READY",
           \/ r \in DOMAIN ledger /\ ~Committed(r.snap)
           \/ r \notin DOMAIN ledger /\ ~Accepts(r)
    PROVE  Doomed(r.snap)
  <1>1. TypeOK /\ WireInv /\ epoch \in Nat BY DEF Base, TypeOK
  <1>2. r \in Request /\ Known(r) /\ r.kind \in UpKinds BY <1>1 DEF TypeOK, WireInv, UpKinds
  <1>3. /\ r.snap \in DOMAIN made /\ r.epoch = made[r.snap].epoch /\ r.fence = made[r.snap].fence
        /\ r.base = made[r.snap].ver - 1
    BY <1>2, UpRequest
  <1>4. ASSUME NEW x \in net \cup DOMAIN ledger, x.kind = "COMMIT", x.snap = r.snap PROVE x = r
    <2>1. Known(x) BY <1>1 DEF WireInv
    <2> QED BY <1>2, <1>4, <2>1, OneRequest
  <1>5. InLedger("COMMIT", r.snap) => r \in DOMAIN ledger BY <1>4 DEF InLedger
  <1>6. ~Committed(r.snap) BY <1>5 DEF UploadOK
  <1>7. r \in DOMAIN ledger \/ r.epoch < epoch \/ ~Held(r)
    <2> SUFFICES ASSUME r \notin DOMAIN ledger, ~(r.epoch < epoch), Held(r) PROVE FALSE OBVIOUS
    <2>1. r.epoch \in Nat /\ r.epoch <= epoch BY <1>2 DEF Request, Known
    <2>2. r.epoch = epoch BY <1>1, <2>1
    <2>3. InLedger("FINALIZE", r.snap) BY DEF UploadOK
    <2>4. up[r.snap] \in {"READY", "COMMITTED"} BY <1>1, <1>3, <2>2, <2>3 DEF UploadOK
    <2>5. up[r.snap] # "COMMITTED" BY <1>5 DEF UploadOK
    <2>6. made[r.snap].ver = Len(log) + 1 BY <1>3 DEF SealInv, Held
    <2>7. Len(log) \in Nat BY <1>1 DEF TypeOK
    <2>8. r.base = Len(log) BY <1>3, <2>6, <2>7
    <2>9. Accepts(r) BY <2>2, <2>4, <2>5, <2>8 DEF Accepts, AcceptsCommit
    <2> QED BY <2>9
  <1> QED BY <1>4, <1>6, <1>7 DEF Doomed

\* What an accepted request does to the lease, the log and the uploads.
LEMMA EffectUpload ==
    ASSUME Base, NEW r \in net, r \notin DOMAIN ledger, Accepts(r), Effect(r)
    PROVE  /\ LeaseMoves /\ DOMAIN ledger' = DOMAIN ledger \cup {r}
           /\ \A s : Committed(s)' => Committed(s) \/ (r.kind = "COMMIT" /\ r.snap = s)
           /\ \A s : Committed(s) => Committed(s)'
           /\ r.kind = "COMMIT" => Held(r) /\ r.epoch = epoch
           /\ r.kind \notin UpKinds => up' = up
           /\ \A s \in DOMAIN made : s # r.snap => up'[s] = up[s]
           /\ r.kind = "UPLOAD" => up'[r.snap] = "OPEN"
           /\ r.kind = "FINALIZE" => up[r.snap] = "FULL" /\ up'[r.snap] = "READY"
           /\ r.kind = "COMMIT" => up[r.snap] = "READY" /\ up'[r.snap] = "COMMITTED"
  <1>1. TypeOK /\ WireInv BY DEF Base
  <1>2. r \in Request /\ Known(r) BY <1>1 DEF TypeOK, WireInv
  <1>3. r.kind \in UpKinds => r.snap \in DOMAIN made /\ r.snap \in Snaps BY <1>1, <1>2, UpRequest, MadeType
  <1>4. DOMAIN ledger' = DOMAIN ledger \cup {r} BY <1>1, <1>2, <1>3, EffectTypes
  <1>5. LeaseMoves
    <2>1. CASE lease' = lease \/ lease' = None BY <2>1 DEF LeaseMoves
    <2>2. CASE lease' = [dev |-> r.dev, fence |-> fence + 1, over |-> FALSE] BY <2>2 DEF LeaseMoves
    <2> QED BY <2>1, <2>2 DEF Effect, DropLease, MoveUpload, AppendHead, Grant
  <1>6. /\ \A s : Committed(s)' => Committed(s) \/ (r.kind = "COMMIT" /\ r.snap = s)
        /\ \A s : Committed(s) => Committed(s)'
    <2>1. CASE log' = log BY <2>1 DEF Committed
    <2>2. CASE r.kind = "COMMIT" /\ log' = Append(log, r.snap)
      <3>1. r.snap \in Snaps /\ log \in Seq(Snaps) /\ Len(log) \in Nat BY <1>1, <1>3, <2>2 DEF UpKinds, TypeOK
      <3>2. /\ DOMAIN log' = DOMAIN log \cup {Len(log) + 1} /\ log'[Len(log) + 1] = r.snap
            /\ \A v \in DOMAIN log : log'[v] = log[v]
        BY ONLY <2>2, <3>1
      <3> QED BY <2>2, <3>2 DEF Committed
    <2> QED BY <2>1, <2>2 DEF Effect, DropLease, MoveUpload, AppendHead
  <1>7. r.kind = "COMMIT" => Held(r) /\ r.epoch = epoch /\ up[r.snap] = "READY" BY DEF Accepts, AcceptsCommit
  <1>8. r.kind = "FINALIZE" => up[r.snap] = "FULL" BY DEF Accepts, AcceptsFinalize
  <1>9. r.kind \notin UpKinds => up' = up BY DEF Effect, DropLease, MoveUpload, AppendHead, UpKinds
  <1>10. up \in [Snaps -> {"none", "OPEN", "FULL", "READY", "COMMITTED"}] BY <1>1 DEF TypeOK
  <1>11. ASSUME r.kind \in UpKinds
         PROVE  /\ \A s \in DOMAIN made : s # r.snap => up'[s] = up[s]
                /\ r.kind = "UPLOAD" => up'[r.snap] = "OPEN"
                /\ r.kind = "FINALIZE" => up'[r.snap] = "READY"
                /\ r.kind = "COMMIT" => up'[r.snap] = "COMMITTED"
    <2>1. PICK x : /\ up' = [up EXCEPT ![r.snap] = x]
                   /\ r.kind = "UPLOAD" => x = "OPEN"
                   /\ r.kind = "FINALIZE" => x = "READY"
                   /\ r.kind = "COMMIT" => x = "COMMITTED"
      BY <1>11 DEF Effect, DropLease, MoveUpload, AppendHead, UpKinds
    <2>2. up'[r.snap] = x /\ \A s \in Snaps \ {r.snap} : up'[s] = up[s] BY <1>3, <1>10, <1>11, <2>1
    <2> QED BY <1>1, <2>1, <2>2, MadeType
  <1>12. \A s \in DOMAIN made : s # r.snap => up'[s] = up[s] BY <1>9, <1>11
  <1> QED BY <1>4, <1>5, <1>6, <1>7, <1>8, <1>9, <1>11, <1>12 DEF UpKinds

\* The upload that an accepted request is about.
LEMMA EffectOwn ==
    ASSUME Base, TypeOK', NEW r \in net, r.kind \in UpKinds, UploadOK(r.snap),
           r \notin DOMAIN ledger, Accepts(r), Effect(r),
           UNCHANGED <<made, sess, epoch>>, net' \subseteq net
    PROVE  UploadOK(r.snap)'
  <1>1. PICK s : s = r.snap OBVIOUS
  <1>2. WireInv /\ epoch \in Nat BY DEF Base, TypeOK
  <1>3. Known(r) /\ UploadOK(s) BY <1>1, <1>2 DEF WireInv
  <1>4. /\ LeaseMoves /\ DOMAIN ledger' = DOMAIN ledger \cup {r}
        /\ Committed(s)' => Committed(s) \/ r.kind = "COMMIT"
        /\ Committed(s) => Committed(s)'
        /\ r.kind = "COMMIT" => Held(r) /\ r.epoch = epoch
        /\ r.kind = "UPLOAD" => up'[s] = "OPEN"
        /\ r.kind = "FINALIZE" => up[s] = "FULL" /\ up'[s] = "READY"
        /\ r.kind = "COMMIT" => up[s] = "READY" /\ up'[s] = "COMMITTED"
    BY <1>1, EffectUpload
  <1>5. InLedger(r.kind, s)' BY <1>1, <1>4 DEF InLedger
  <1>6. \A k : InLedger(k, s) => InLedger(k, s)' BY <1>4 DEF InLedger
  <1>7. \A k : InLedger(k, s)' => InLedger(k, s) \/ k = r.kind BY <1>4 DEF InLedger
  <1>8. ~InLedger(r.kind, s)
    <2> SUFFICES ASSUME NEW x \in DOMAIN ledger, x.kind = r.kind, x.snap = s PROVE FALSE BY DEF InLedger
    <2>1. Known(x) BY <1>2 DEF WireInv
    <2> QED BY <1>1, <1>3, <2>1, OneRequest
  <1>9. r.kind = "COMMIT" => sess[s] \in {"READY", "COMMITTED"}
    <2> SUFFICES ASSUME r.kind = "COMMIT" PROVE sess[s] \in {"READY", "COMMITTED"} OBVIOUS
    <2>1. sess[s] \in {"READY", "COMMITTED", "ABORTED"} BY <1>1, <1>3 DEF UploadOK
    <2>2. ~Doomed(s) BY <1>1, <1>2, <1>4 DEF Doomed
    <2> QED BY <1>3, <2>1, <2>2 DEF UploadOK
  <1>10. sess[s] = "ABORTED" => Doomed(s)'
    <2> SUFFICES ASSUME sess[s] = "ABORTED" PROVE Doomed(s)' OBVIOUS
    <2>1. Doomed(s) /\ r.kind # "COMMIT" BY <1>3, <1>9 DEF UploadOK
    <2>2. epoch <= epoch' BY <1>2
    <2> QED BY <1>4, <2>1, <2>2, DoomedStays
  <1>11. ASSUME NEW x \in net' \cup DOMAIN ledger', x.kind = "COMMIT", x.snap = s
         PROVE  sess[s] \in {"READY", "COMMITTED", "ABORTED"}
    <2>1. x \in net \cup DOMAIN ledger BY <1>4, <1>11
    <2> QED BY <1>3, <1>11, <2>1 DEF UploadOK
  <1>12. CASE r.kind = "UPLOAD"
    <2>1. ~InLedger("UPLOAD", s) /\ ~InLedger("FINALIZE", s) BY <1>3, <1>8, <1>12 DEF UploadOK
    <2>2. ~InLedger("FINALIZE", s)' BY <1>7, <1>12, <2>1
    <2>3. InLedger("UPLOAD", s)' /\ up'[s] = "OPEN" BY <1>4, <1>5, <1>12
    <2>4. sess[s] # "READY" BY <1>3, <2>1 DEF UploadOK
    <2>5. Committed(s)' => InLedger("COMMIT", s)' /\ sess[s] \in {"READY", "COMMITTED"}
      BY <1>3, <1>4, <1>6, <1>12 DEF UploadOK
    <2>6. UploadOK(s)' BY <1>10, <1>11, <2>2, <2>3, <2>4, <2>5 DEF UploadOK
    <2> QED BY <1>1, <2>6
  <1>13. CASE r.kind \in {"FINALIZE", "COMMIT"}
    <2>1. InLedger("UPLOAD", s) BY <1>3, <1>4, <1>13 DEF UploadOK
    <2>2. InLedger("UPLOAD", s)' BY <1>6, <2>1
    <2>3. up'[s] \in {"READY", "COMMITTED"} BY <1>4, <1>13
    <2>4. up'[s] = "COMMITTED" \/ Committed(s)' => InLedger("COMMIT", s)'
      BY <1>3, <1>4, <1>5, <1>6, <1>13 DEF UploadOK
    <2>5. sess[s] = "READY" => InLedger("FINALIZE", s)' BY <1>3, <1>6 DEF UploadOK
    <2>6. Committed(s)' => sess[s] \in {"READY", "COMMITTED"} BY <1>3, <1>4, <1>9 DEF UploadOK
    <2>7. UploadOK(s)' BY <1>10, <1>11, <2>2, <2>3, <2>4, <2>5, <2>6 DEF UploadOK
    <2> QED BY <1>1, <2>7
  <1> QED BY <1>12, <1>13 DEF UpKinds

LEMMA ServeSession ==
    ASSUME Base, Base', DataInv, UploadInv, SessionInv, NEW r \in net, Serve(r)
    PROVE  UploadInv' /\ SessionInv'
  <1>1. /\ UNCHANGED <<made, bind, ops, sess>> /\ epoch' = epoch /\ net' \subseteq net
    BY DEF Serve, db, server
  <1>2. TypeOK /\ TypeOK' /\ WireInv /\ epoch \in Nat /\ epoch <= epoch' BY <1>1, SMTT(40) DEF Base, TypeOK
  <1>3. r \in Request /\ Known(r) BY <1>2 DEF TypeOK, WireInv
  <1>4. r.kind \in UpKinds => r.snap \in DOMAIN made BY <1>3, UpRequest
  <1>5. ASSUME NEW a \in Reply, Deliver(r, a),
               \A s \in DOMAIN made : Doomed(s) => Doomed(s)',
               \/ a.ok \/ r.kind # "COMMIT"
               \/ r \in DOMAIN ledger /\ ~Committed(r.snap)
               \/ r \notin DOMAIN ledger /\ ~Accepts(r)
        PROVE  SessionInv'
    <2>1. \A e \in Devices : /\ loc'[e].pc = loc[e].pc /\ loc'[e].req = loc[e].req
                             /\ loc'[e].got = loc[e].got /\ loc'[e].super = loc[e].super
      BY <1>2, <1>3, <1>5, Delivered
    <2>2. ASSUME NEW e \in Devices, loc'[e].ans # loc[e].ans, loc'[e].pc = "wait",
                 loc'[e].req.kind = "COMMIT", ~loc'[e].ans.ok
          PROVE  Doomed(loc[e].req.snap)'
      <3>1. loc[e].req = r /\ loc'[e].ans = a BY <1>2, <1>3, <1>5, <2>2, Delivered
      <3>2. loc[e].pc = "wait" /\ r.kind = "COMMIT" BY <2>1, <2>2, <3>1
      <3>3. ~a.ok BY <2>2, <3>1
      <3>4. CommandOK(e) BY DEF SessionInv
      <3>5. sess[r.snap] = "READY" BY <3>1, <3>2, <3>4 DEF CommandOK
      <3>6. r.snap \in DOMAIN made /\ UploadOK(r.snap) BY <1>4, <3>2 DEF UpKinds, UploadInv
      <3>7. SealInv BY DEF DataInv
      <3>8. Doomed(r.snap) BY <1>5, <3>2, <3>3, <3>5, <3>6, <3>7, RefusedDoomed
      <3>9. PICK s : s = r.snap OBVIOUS
      <3>10. Doomed(s)' BY <1>5, <3>6, <3>8, <3>9
      <3>11. loc'[e].req.snap = s BY <2>1, <3>1, <3>9
      <3> QED BY <3>10, <3>11
    <2> QED BY <1>1, <1>5, <2>1, <2>2, ServerSession
  <1>6. ASSUME UNCHANGED server PROVE UploadInv' /\ \A s \in DOMAIN made : Doomed(s) => Doomed(s)'
    <2>1. Kept /\ up' = up BY <1>6 DEF server, Kept
    <2>2. \A x \in net' : x \in net \/ x.kind # "COMMIT" \/ sess[x.snap] = "READY" BY <1>1
    <2>3. UploadInv' BY <1>1, <1>2, <2>1, <2>2, UploadStep
    <2>4. \A s \in DOMAIN made : Doomed(s) => Doomed(s)' BY <1>1, <2>1 DEF Doomed, Kept, Committed, Held
    <2> QED BY <2>3, <2>4
  <1>7. CASE r \in DOMAIN ledger
    <2>1. PICK a : a = [ok |-> Answers(r), val |-> ledger[r]] OBVIOUS
    <2>2. Deliver(r, a) /\ UNCHANGED server BY <1>7, <2>1 DEF Serve
    <2>3. a \in Reply
      <3>1. Answers(r) \in BOOLEAN BY DEF Answers
      <3>2. ledger[r] \in Nat BY <1>2, <1>7 DEF TypeOK
      <3> QED BY <2>1, <3>1, <3>2, ReplyType
    <2>4. a.ok = Answers(r) BY <2>1
    <2>5. a.ok \/ r.kind # "COMMIT" \/ ~Committed(r.snap) BY <2>4 DEF Answers
    <2> QED BY <1>5, <1>6, <1>7, <2>2, <2>3, <2>5
  <1>8. CASE r \notin DOMAIN ledger /\ ~Accepts(r)
    <2>1. PICK a : a = [ok |-> FALSE, val |-> 0] OBVIOUS
    <2>2. Deliver(r, a) /\ UNCHANGED server BY <1>8, <2>1 DEF Serve
    <2>3. a \in Reply BY <2>1, ReplyType
    <2> QED BY <1>5, <1>6, <1>8, <2>2, <2>3
  <1>9. CASE r \notin DOMAIN ledger /\ Accepts(r)
    <2>1. PICK a : a = [ok |-> TRUE, val |-> ledger'[r]] OBVIOUS
    <2>2. Deliver(r, a) /\ Effect(r) BY <1>9, <2>1 DEF Serve
    <2>3. /\ LeaseMoves /\ DOMAIN ledger' = DOMAIN ledger \cup {r}
          /\ \A s : Committed(s)' => Committed(s) \/ (r.kind = "COMMIT" /\ r.snap = s)
          /\ r.kind = "COMMIT" => Held(r) /\ r.epoch = epoch
          /\ r.kind \notin UpKinds => up' = up
          /\ \A s \in DOMAIN made : s # r.snap => up'[s] = up[s]
      BY <1>9, <2>2, EffectUpload
    <2>4. a \in Reply
      <3>1. ledger'[r] \in Nat BY <1>2, <2>3 DEF TypeOK
      <3> QED BY <2>1, <3>1, ReplyType
    <2>5. a.ok BY <2>1
    <2>6. ASSUME NEW s \in DOMAIN made, Doomed(s) PROVE Doomed(s)'
      <3>1. ~(r.kind = "COMMIT" /\ r.snap = s) BY <1>2, <1>9, <2>3, <2>6 DEF Doomed
      <3>2. Committed(s)' => Committed(s) BY <2>3, <3>1
      <3> QED BY <1>1, <1>2, <2>3, <2>6, <3>2, DoomedStays
    <2>7. SessionInv' BY <1>5, <2>2, <2>4, <2>5, <2>6
    <2>8. ASSUME NEW s \in DOMAIN made PROVE UploadOK(s)'
      <3>1. UploadOK(s) BY DEF UploadInv
      <3>2. CASE r.kind \in UpKinds /\ r.snap = s
        <4>1. UploadOK(r.snap)' BY <1>1, <1>2, <1>9, <2>2, <3>1, <3>2, EffectOwn
        <4> QED BY <3>2, <4>1
      <3>3. CASE ~(r.kind \in UpKinds /\ r.snap = s)
        <4>1. up'[s] = up[s] /\ (Committed(s)' => Committed(s)) BY <2>3, <3>3 DEF UpKinds
        <4>2. \A x \in DOMAIN ledger' : x \in DOMAIN ledger \/ (x.kind \in UpKinds => x.snap # s)
          BY <2>3, <3>3
        <4> QED BY <1>1, <1>2, <2>3, <3>1, <4>1, <4>2, ServerUpload
      <3> QED BY <3>2, <3>3
    <2> QED BY <1>1, <2>7, <2>8 DEF UploadInv
  <1> QED BY <1>7, <1>8, <1>9

LEMMA StutterSession ==
    ASSUME UploadInv, SessionInv, UNCHANGED vars PROVE UploadInv' /\ SessionInv'
  <1>1. UNCHANGED <<epoch, log, lease, up, ledger, made, bind, ops, sess, loc, net>>
    BY DEF vars, server, db
  <1>2. UploadInv' BY <1>1 DEF UploadInv, UploadOK, InLedger, Doomed, Committed, Held
  <1>3. SessionInv' BY <1>1 DEF SessionInv, CommandOK, HolderOK, Live, Quit, Doomed, Committed, Held
  <1> QED BY <1>2, <1>3

LEMMA StepSession ==
    ASSUME Base, DataInv, UploadInv, SessionInv, [Next]_vars PROVE UploadInv' /\ SessionInv'
  <1>0. Base' BY StepBase
  <1>1. ASSUME NEW d \in Devices, PushStep(d) PROVE UploadInv' /\ SessionInv'
    <2>1. CASE Settle(d) \/ PullFetch(d) \/ PullFails(d) BY <1>0, <2>1, ReturnsSession
    <2>2. CASE ReplayRelease(d) \/ ReplayCheckout(d) \/ CreateUpload(d) \/ Commit(d) \/ ResendFinalize(d)
      BY <1>0, <2>2, ResendsSession
    <2>3. CASE Checkout(d) \/ Abandon(d) \/ AwaitRelease(d) BY <1>0, <2>3, StoresSession
    <2>4. CASE ListedQuarantines(d) \/ AcceptTransitions(d) \/ Pin(d) BY <1>0, <2>4, RowsSession
    <2>5. CASE Published(d) BY <1>0, <2>5, PublishedSession
    <2>6. CASE CheckedOut(d) BY <1>0, <2>6, CheckedOutSession
    <2>7. CASE ReleaseRefused(d) BY <1>0, <2>7, ReleaseRefusedSession
    <2>8. CASE Drop(d) BY <1>0, <2>8, DropSession
    <2>9. CASE FailUpload(d) BY <1>0, <2>9, FailUploadSession
    <2>10. CASE SealSnapshot(d) BY <1>0, <2>10, SealSnapshotSession
    <2>11. CASE SealRefused(d) BY <1>0, <2>11, SealRefusedSession
    <2>12. CASE UploadCreated(d) BY <1>0, <2>12, UploadCreatedSession
    <2>13. CASE PrepareCommit(d) BY <1>0, <2>13, PrepareCommitSession
    <2>14. CASE Transfer(d) BY <1>0, <2>14, TransferSession
    <2>15. CASE Finalize(d) BY <1>0, <2>15, FinalizeSession
    <2>16. CASE Finalized(d) \/ CommitReplied(d) BY <1>0, <2>16, RepliesSession
    <2>17. CASE Finish(d) BY <1>0, <2>17, FinishSession
    <2> QED BY <1>1, <2>1, <2>2, <2>3, <2>4, <2>5, <2>6, <2>7, <2>8, <2>9, <2>10, <2>11, <2>12,
               <2>13, <2>14, <2>15, <2>16, <2>17 DEF PushStep
  <1>2. ASSUME NEW d \in Devices, StorePublish(d) \/ SendPublish(d) \/ CancelPublish(d)
                                  \/ Join(d) \/ PullBegin(d) \/ Unbind(d) \/ Crash(d) \/ Lose(d)
        PROVE  UploadInv' /\ SessionInv'
    BY <1>0, <1>2, StoresSession, ResendsSession, ReturnsSession, RowsSession
  <1>3. ASSUME NEW r \in net, Serve(r) PROVE UploadInv' /\ SessionInv' BY <1>0, <1>3, ServeSession
  <1>4. CASE Expire BY <1>0, <1>4, ExpireSession
  <1>5. ASSUME NEW keep \in DOMAIN log, ServerRestore(keep) PROVE UploadInv' /\ SessionInv'
    BY <1>0, <1>5, RestoreSession
  <1>6. CASE UNCHANGED vars BY <1>6, StutterSession
  <1> QED BY <1>1, <1>2, <1>3, <1>4, <1>5, <1>6 DEF Next

----------------------------------------------------------------------------
(* The theorems.                                                            *)

LEMMA InvHistory == ASSUME DataInv, LogInv, TypeOK PROVE CommitKeepsData
  <1> SUFFICES ASSUME NEW v \in DOMAIN log, v > 1 PROVE made[log[v - 1]].data \subseteq made[log[v]].data
    BY DEF CommitKeepsData
  <1>1. log \in Seq(Snaps) BY DEF TypeOK
  <1>2. v \in Nat /\ v <= Len(log) /\ Len(log) \in Nat BY <1>1, SeqElement
  <1>3. v - 1 \in DOMAIN log /\ v - 1 <= v BY <1>1, <1>2
  <1> QED BY <1>3 DEF DataInv, HistoryInv

LEMMA InvPresent == ASSUME Base, DataInv PROVE PinnedDataPresent
  <1> SUFFICES ASSUME NEW d \in Devices
               PROVE  /\ DataOf(d) # None /\ DataOf(d) # Partial
                      /\ bind[d] # None => (bind[d].head # 0 /\ bind[d].base >= bind[d].ver
                                              => made[bind[d].head].data \subseteq DataOf(d))
    BY DEF PinnedDataPresent
  <1>1. DirOK(d) /\ HeadOK(d) BY RowBefore DEF DataInv, HeadInv
  <1>2. udd[d] \in Data \cup {None} BY DEF Base, TypeOK
  <1>3. Partial \notin Data BY DEF Partial, Data, Snaps
  <1>4. DataOf(d) # None BY <1>1 DEF DirOK, DataOf
  <1>5. DataOf(d) # Partial BY <1>1, <1>2, <1>3, NoneIsNew DEF DirOK, DataOf
  <1> QED BY <1>1, <1>4, <1>5 DEF HeadOK

LEMMA InvPinned == ASSUME Base, PinInv PROVE PinIsCommitted
  <1> SUFFICES ASSUME NEW d \in Devices, bind[d] # None
               PROVE  /\ bind[d].q # "rollback"
                      /\ bind[d].epoch = epoch /\ bind[d].head # 0
                           => bind[d].ver \in DOMAIN log /\ log[bind[d].ver] = bind[d].head
    BY DEF PinIsCommitted
  <1>1. PinOK(d) /\ RowOK(bind[d]) /\ LogInv BY RowBefore DEF PinInv, Base
  <1>2. ASSUME bind[d].epoch = epoch, bind[d].head # 0
        PROVE  bind[d].ver \in DOMAIN log /\ log[bind[d].ver] = bind[d].head
    <2>1. Committed(bind[d].head) BY <1>1, <1>2 DEF PinOK
    <2>2. PICK v \in DOMAIN log : log[v] = bind[d].head BY <2>1 DEF Committed
    <2>3. v = made[bind[d].head].ver BY <1>1, <2>2 DEF LogInv
    <2> QED BY <1>1, <1>2, <2>2, <2>3 DEF RowOK
  <1>3. bind[d].q # "rollback" BY <1>1 DEF PinOK
  <1> QED BY <1>2, <1>3

LEMMA InvGivenUp == ASSUME Base, UploadInv PROVE GivenUpNeverLands
  <1> SUFFICES ASSUME NEW s \in Snaps, sess[s] = "ABORTED" PROVE ~Committed(s) BY DEF GivenUpNeverLands
  <1>1. s \in DOMAIN made BY DEF Base, LogInv
  <1> QED BY <1>1 DEF UploadInv, UploadOK, Doomed

\* The inductive invariant: what is stored is well formed and every fence has
\* one owner, what is sealed under a lease extends the head, pins follow the
\* epochs, and what was given up is doomed.  It holds of sync.rs against the
\* server whatever is lost, repeated, delayed, crashed or restored.
THEOREM SyncInvariance == Spec => []Inv
  <1>1. Init => Inv BY InitBase, InitData, InitPin, InitSession DEF Inv
  <1>2. Inv /\ [Next]_vars => Inv'
    <2> SUFFICES ASSUME Inv, [Next]_vars PROVE Inv' OBVIOUS
    <2>1. Base /\ DataInv /\ PinInv /\ UploadInv /\ SessionInv BY DEF Inv
    <2>2. Base' BY <2>1, StepBase
    <2>3. DataInv' BY <2>1, StepData
    <2>4. PinInv' BY <2>1, StepPin
    <2>5. UploadInv' /\ SessionInv' BY <2>1, StepSession
    <2> QED BY <2>2, <2>3, <2>4, <2>5 DEF Inv
  <1> QED BY <1>1, <1>2, PTL DEF Spec

\* Type correctness of the team database, the directories, the running
\* commands, the network and the server.
THEOREM SyncTypes == Spec => []TypeOK
  <1>1. Inv => TypeOK BY DEF Inv, Base
  <1> QED BY <1>1, SyncInvariance, PTL

\* No lost update: whatever is replayed, lost, released, pulled, rolled back or
\* crashed, every committed version includes the data of the version below it
\* (checkout at the pinned head, prepare_commit, the server's base check).
THEOREM NoUpdateLost == Spec => []CommitKeepsData
  <1>1. Inv => CommitKeepsData BY InvHistory DEF Inv, Base
  <1> QED BY <1>1, SyncInvariance, PTL

\* The profile's directory is there or a whole restore will become it
\* (settle_revert_swap, pin), and it holds the data of the pinned head unless
\* only a transition moved the pin (store_transitions).
THEOREM PinnedDataKept == Spec => []PinnedDataPresent
  <1>1. Inv => PinnedDataPresent BY InvPresent DEF Inv
  <1> QED BY <1>1, SyncInvariance, PTL

\* A binding at the server's epoch pins a version of the server's log and an
\* honest server is never quarantined as one that rolled back (listed,
\* accept_transitions, finish, pin).
THEOREM PinsCommitted == Spec => []PinIsCommitted
  <1>1. Inv => PinIsCommitted BY InvPinned DEF Inv
  <1> QED BY <1>1, SyncInvariance, PTL

\* An upload that fail_upload or a release gave up is never in the log, whatever
\* request of it is still on its way.
THEOREM GivenUpStaysOut == Spec => []GivenUpNeverLands
  <1>1. Inv => GivenUpNeverLands BY InvGivenUp DEF Inv
  <1> QED BY <1>1, SyncInvariance, PTL
=============================================================================
