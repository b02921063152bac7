------------------------------ MODULE TeamSync ------------------------------
(***************************************************************************)
(* Launcher team sync (src-tauri/src/team/sync.rs): several devices publish,*)
(* join, push, pull and unbind one profile of the v2 control plane.        *)
(*                                                                         *)
(* Every request is stored as an operation before it is sent and is sent   *)
(* again as stored; a push therefore resumes from the team database alone. *)
(* `bind`, `ops`, `sess`, `swap` are that database, `udd`, `staging`, `old`*)
(* the profile's directories.  Between two steps of its loop a push keeps  *)
(* nothing in memory, so a push that stops there and one that has not begun*)
(* are the same state, `idle`; `loc` is what a command holds elsewhere and *)
(* a crash forgets.  The claim of begin_user_mutation allows one command   *)
(* per profile at a time.  A command that is refused changes nothing and   *)
(* is the absence of a step.                                               *)
(*                                                                         *)
(* The server is the one of ProfileUpload and Restore, reduced to what a   *)
(* client can tell apart: fenced leases, uploads, a log of snapshots, and  *)
(* stored responses that answer a repeated request.  The network loses     *)
(* replies and delivers a request late or twice.  Snapshots carry what     *)
(* their data includes, so a lost update is visible.                       *)
(***************************************************************************)
EXTENDS Naturals, Sequences, FiniteSets

CONSTANTS
    Devices,     \* devices with an approved session, each with one local profile
    None,        \* no binding, operation, lease, directory, request or answer
    MaxSnap,     \* bound on snapshots sealed
    MaxFence,    \* bound on leases granted
    MaxTries,    \* bound on checkouts a device stores
    MaxEpoch,    \* bound on server restores
    MaxFault     \* bound on faults: restores, crashes of a launcher, replies lost,
                 \* requests delivered twice

ASSUME BoundsOK ==
    /\ MaxSnap \in Nat /\ MaxFence \in Nat /\ MaxTries \in Nat
    /\ MaxEpoch \in Nat /\ MaxFault \in Nat

VARIABLES
    epoch,     \* the server's restore_epoch
    log,       \* its committed snapshots in order; the last is the head
    fence,     \* last fencing token; 0 before the publish
    lease,     \* its lease row, or None
    up,        \* state of the upload of each snapshot
    ledger,    \* stored responses: the fence or version each request got
    leaves,    \* by epoch reached: the leaf of the transition into it
    made,      \* snapshots sealed so far: data included, epoch, fence
    bind,      \* row of profile_bindings by device, or None
    ops,       \* newest live row of operations by device and kind, or None
    sess,      \* upload_sessions.state by snapshot
    swap,      \* devices with a row in revert_swaps
    udd,       \* data in the profile's directory, or None when it is absent
    staging,   \* the same of <udd>.revert-staging
    old,       \* the same of <udd>.revert-old
    loc,       \* the running command of each device
    tries,     \* checkouts each device stored
    net,       \* requests on their way to the server
    faults     \* faults so far

server == <<epoch, log, fence, lease, up, ledger, leaves>>
db     == <<bind, ops, sess, swap>>
dirs   == <<udd, staging, old>>
vars   == <<server, made, db, dirs, loc, tries, net, faults>>

Kinds  == {"PUBLISH", "CHECKOUT", "UPLOAD", "FINALIZE", "COMMIT", "RELEASE"}
Snaps  == 1 .. MaxSnap
Committed(s) == \E v \in DOMAIN log : log[v] = s
HeadSnap     == IF log = <<>> THEN 0 ELSE log[Len(log)]

\* The exact bytes of a request; two operations with equal requests share
\* their idempotency key.
Request == [kind : Kinds, dev : Devices, n : Nat, epoch : Nat, fence : Nat,
            base : Nat, head : Nat, snap : Nat]

Blank(k, d, e) == [kind |-> k, dev |-> d, n |-> 0, epoch |-> e, fence |-> 0,
                   base |-> 0, head |-> 0, snap |-> 0]

\* A row of profile_bindings; q is the reason of a quarantine.
Binding == [ver : Nat, base : Nat, head : Nat, epoch : Nat, lease : Nat,
            q : {"", "transition", "rollback", "invalid"}]

\* Rows of operations and of the server's leases, and a reply.
Operation == [req : Request, done : BOOLEAN]
LeaseRow  == [dev : Devices, fence : Nat, over : BOOLEAN]
Reply     == [ok : BOOLEAN, val : Nat]

\* Directories that are being filled hold Partial data.
Partial == {0}
Data    == SUBSET Snaps

PCs == {"idle", "wait", "failed", "abandon", "drop", "fetch", "staged"}

\* req and ans: the request sent and its reply; fresh: this command stored it;
\* got: the lease to give up or the snapshot to restore; super: the commit was
\* superseded by a restore.
Local == [pc : PCs, req : Request \cup {None}, ans : Reply \cup {None}, fresh : BOOLEAN,
          got : Nat, super : BOOLEAN]

ASSUME NoneIsNew ==
    /\ None \notin Nat /\ None # Partial /\ \A x \in Data : None # x
    /\ None \notin Request /\ None \notin Operation /\ None \notin Binding
    /\ None \notin LeaseRow /\ None \notin Reply

Holding(p, r, g) == [pc |-> p, req |-> r, ans |-> None, fresh |-> FALSE, got |-> g,
                     super |-> FALSE]
Idle == Holding("idle", None, 0)

NoOps == [k \in Kinds |-> None]

Init ==
    /\ epoch = 0 /\ log = <<>> /\ fence = 0 /\ lease = None
    /\ up = [s \in Snaps |-> "none"]
    /\ ledger = << >> /\ leaves = << >> /\ made = << >>
    /\ bind = [d \in Devices |-> None]
    /\ ops = [d \in Devices |-> NoOps]
    /\ sess = [s \in Snaps |-> "none"]
    /\ swap = {}
    /\ udd = [d \in Devices |-> {}]
    /\ staging = [d \in Devices |-> None]
    /\ old = [d \in Devices |-> None]
    /\ loc = [d \in Devices |-> Idle]
    /\ tries = [d \in Devices |-> 0]
    /\ net = {}
    /\ faults = 0

Fault == faults < MaxFault /\ faults' = faults + 1

----------------------------------------------------------------------------
(* The server: one request of the network in one transaction.              *)

\* held_lease for the terms of the request.
Held(r) == lease # None /\ lease.dev = r.dev /\ lease.fence = r.fence /\ ~lease.over

\* The stored response of a request that was not answered before.
Store(r, val) ==
    ledger' = [x \in DOMAIN ledger \cup {r} |-> IF x = r THEN val ELSE ledger[x]]

Grant(r) ==
    /\ fence' = fence + 1
    /\ lease' = [dev |-> r.dev, fence |-> fence + 1, over |-> FALSE]
    /\ Store(r, fence + 1)

\* Whether a stored response still answers: the upload it created must exist,
\* the commit must not have been rolled back.
Answers(r) == /\ r.kind = "UPLOAD" => up[r.snap] # "none"
              /\ r.kind = "COMMIT" => Committed(r.snap)

\* What each handler asks of a new request; anything else is refused with a 4xx.
AcceptsPublish(r)  == fence = 0
AcceptsCheckout(r) == /\ fence \in 1 .. MaxFence - 1
                      /\ r.base = Len(log) /\ r.head = HeadSnap
                      /\ lease # None => lease.over
AcceptsRelease(r)  == lease # None /\ lease.dev = r.dev /\ lease.fence = r.fence
AcceptsUpload(r)   == /\ Held(r)
                      /\ \A s \in DOMAIN made : made[s].fence = r.fence =>
                           up[s] \notin {"OPEN", "FULL"}
AcceptsFinalize(r) == Held(r) /\ up[r.snap] = "FULL"
AcceptsCommit(r)   == Held(r) /\ up[r.snap] = "READY" /\ r.base = Len(log)

Accepts(r) ==
    /\ r.epoch = epoch
    /\ r.kind = "PUBLISH"  => AcceptsPublish(r)
    /\ r.kind = "CHECKOUT" => AcceptsCheckout(r)
    /\ r.kind = "RELEASE"  => AcceptsRelease(r)
    /\ r.kind = "UPLOAD"   => AcceptsUpload(r)
    /\ r.kind = "FINALIZE" => AcceptsFinalize(r)
    /\ r.kind = "COMMIT"   => AcceptsCommit(r)

\* What an accepted request does.
DropLease(r) == lease' = None /\ Store(r, r.fence) /\ UNCHANGED <<log, fence, up>>

MoveUpload(r) ==
    /\ up' = [up EXCEPT ![r.snap] = IF r.kind = "UPLOAD" THEN "OPEN" ELSE "READY"]
    /\ Store(r, r.fence)
    /\ UNCHANGED <<log, fence, lease>>

AppendHead(r) ==
    /\ log' = Append(log, r.snap)
    /\ lease' = None
    /\ up' = [up EXCEPT ![r.snap] = "COMMITTED"]
    /\ Store(r, Len(log) + 1)
    /\ UNCHANGED fence

Effect(r) ==
    \/ r.kind \in {"PUBLISH", "CHECKOUT"} /\ Grant(r) /\ UNCHANGED <<log, up>>
    \/ r.kind = "RELEASE" /\ DropLease(r)
    \/ r.kind \in {"UPLOAD", "FINALIZE"} /\ MoveUpload(r)
    \/ r.kind = "COMMIT" /\ AppendHead(r)

\* The reply reaches the command that still waits for this request.
Deliver(r, a) ==
    loc' = IF loc[r.dev].req = r /\ loc[r.dev].ans = None
           THEN [loc EXCEPT ![r.dev].ans = a] ELSE loc

\* A second copy stays on its way; only that of a refused request can do more
\* than read a stored response.
Serve(r) ==
    /\ r \in net
    /\ \/ net' = net \ {r} /\ UNCHANGED faults
       \/ r \notin DOMAIN ledger /\ ~Accepts(r) /\ Fault /\ UNCHANGED net
    /\ IF r \in DOMAIN ledger
       THEN /\ Deliver(r, [ok |-> Answers(r), val |-> ledger[r]])
            /\ UNCHANGED server
       ELSE IF Accepts(r)
       THEN /\ Effect(r)
            /\ Deliver(r, [ok |-> TRUE, val |-> ledger'[r]])
            /\ UNCHANGED <<epoch, leaves>>
       ELSE Deliver(r, [ok |-> FALSE, val |-> 0]) /\ UNCHANGED server
    /\ UNCHANGED <<made, db, dirs, tries>>

\* The TTL of the lease passes.
Expire ==
    /\ lease # None /\ ~lease.over
    /\ lease' = [lease EXCEPT !.over = TRUE]
    /\ UNCHANGED <<epoch, log, fence, up, ledger, leaves, made, db, dirs, loc, tries, net, faults>>

\* An offline restore (module Restore): the heads of a backup under the next
\* epoch, no lease, only uploads of kept snapshots, every stored response
\* kept; the signed transition maps the old head to the new one.
ServerRestore(keep) ==
    /\ epoch < MaxEpoch /\ keep \in DOMAIN log /\ Fault
    /\ epoch' = epoch + 1
    /\ leaves' = Append(leaves, [old |-> HeadSnap, new |-> log[keep]])
    /\ log' = SubSeq(log, 1, keep)
    /\ lease' = None
    /\ up' = [s \in Snaps |-> IF \E v \in 1 .. keep : log[v] = s THEN up[s] ELSE "none"]
    /\ UNCHANGED <<fence, ledger, made, db, dirs, loc, tries, net>>

----------------------------------------------------------------------------
(* Commands of a device.                                                   *)

At(d, p)      == loc[d].pc = p
Goto(d, p)    == loc' = [loc EXCEPT ![d].pc = p]
Return(d)     == loc' = [loc EXCEPT ![d] = Idle]
Live(d, k)    == ops[d][k] # None
Pending(d, k) == Live(d, k) /\ ~ops[d][k].done
AnyPending(d) == \E k \in Kinds : Pending(d, k)
Anew(r)       == [req |-> r, done |-> FALSE]
Done(op)      == [op EXCEPT !.done = TRUE]

\* find(kind, lease): the live operation of the lease the binding holds.
OfLease(d, k) == Live(d, k) /\ ops[d][k].req.fence = bind[d].lease

\* Sends r; `fresh` when this command stored it.
Send(d, r, fresh) ==
    /\ net' = net \cup {r}
    /\ loc' = [loc EXCEPT ![d] = [pc |-> "wait", req |-> r, ans |-> None, fresh |-> fresh,
                                  got |-> 0, super |-> loc[d].super]]

\* An operation stored before and sent as it is.
Resend(d, k) ==
    /\ Send(d, ops[d][k].req, FALSE)
    /\ UNCHANGED <<server, made, db, dirs, tries, faults>>

Answered(d, k) == At(d, "wait") /\ loc[d].req.kind = k /\ loc[d].ans # None

\* A command of an unbound or a bound profile begins or goes on; one of a
\* bound profile first settles a pending swap.
Free(d)  == At(d, "idle") /\ bind[d] = None
Bound(d) == At(d, "idle") /\ bind[d] # None /\ d \notin swap

\* The process dies, or the command returns an error without writing.
Crash(d) ==
    /\ ~At(d, "idle") /\ Fault
    /\ Return(d)
    /\ UNCHANGED <<server, made, db, dirs, tries, net>>

\* quarantine
Quarantine(d, why) == bind' = [bind EXCEPT ![d].q = why]

\* How a command that gave an upload up ends: a commit that a restore
\* superseded goes straight to its transition.
End(d) ==
    /\ Return(d)
    /\ bind' = IF loc[d].super THEN [bind EXCEPT ![d].q = "transition"] ELSE bind

\* Fault: no reply counts as a refusal and the upload is given up.
Lose_GivesUp(d) ==
    /\ At(d, "wait") /\ Fault
    /\ sess' = [s \in Snaps |-> IF s = loc[d].req.snap THEN "ABORTED" ELSE sess[s]]
    /\ End(d)
    /\ UNCHANGED <<server, made, ops, swap, dirs, tries, net>>

\* No reply in time, a 401, 408, 429 or 5xx: the operation stays PENDING.
Lose(d) ==
    /\ At(d, "wait") /\ Fault
    /\ End(d)
    /\ UNCHANGED <<server, made, ops, sess, swap, dirs, tries, net>>

----------------------------------------------------------------------------
(* settle_revert_swap: each step looks at the disk first.                  *)

SwapStep(d) ==
    IF staging[d] # None
    THEN IF udd[d] = None
         THEN /\ udd' = [udd EXCEPT ![d] = staging[d]]
              /\ staging' = [staging EXCEPT ![d] = None]
              /\ UNCHANGED <<old, swap>>
         ELSE IF old[d] # None
         THEN old' = [old EXCEPT ![d] = None] /\ UNCHANGED <<udd, staging, swap>>
         ELSE /\ old' = [old EXCEPT ![d] = udd[d]]
              /\ udd' = [udd EXCEPT ![d] = None]
              /\ UNCHANGED <<staging, swap>>
    ELSE IF old[d] # None
         THEN old' = [old EXCEPT ![d] = None] /\ UNCHANGED <<udd, staging, swap>>
         ELSE swap' = swap \ {d} /\ UNCHANGED dirs

\* At the start of a push, a pull and a launch, and at the end of a pull; a
\* browser that still runs holds the directory and keeps the swap pending.
Settle(d) ==
    /\ At(d, "idle") /\ d \in swap
    /\ SwapStep(d)
    /\ UNCHANGED <<server, made, bind, ops, sess, loc, tries, net, faults>>

----------------------------------------------------------------------------
(* publish, cancel_publish, join, unbind.                                  *)

NewBinding(e, f) == [ver |-> 0, base |-> 0, head |-> 0, epoch |-> e, lease |-> f, q |-> ""]

\* store_publish and send_publish; a later publish would name another profile.
StorePublish(d) ==
    LET r == Blank("PUBLISH", d, epoch) IN
    /\ Free(d) /\ ~Live(d, "PUBLISH") /\ fence = 0
    /\ ops' = [ops EXCEPT ![d]["PUBLISH"] = Anew(r)]
    /\ Send(d, r, TRUE)
    /\ UNCHANGED <<server, made, bind, sess, swap, dirs, tries, faults>>

SendPublish(d) == Free(d) /\ Pending(d, "PUBLISH") /\ Resend(d, "PUBLISH")

\* The stored reply always binds; a lease that is over by the device's own
\* clock is not held and is let go.
Published(d) ==
    LET f == loc[d].ans.val IN
    /\ Answered(d, "PUBLISH")
    /\ ops' = [ops EXCEPT ![d]["PUBLISH"] = Done(ops[d]["PUBLISH"])]
    /\ IF loc[d].ans.ok
       THEN \E held \in BOOLEAN :
              /\ bind' = [bind EXCEPT ![d] = NewBinding(loc[d].req.epoch, IF held THEN f ELSE 0)]
              /\ IF held THEN Return(d)
                 ELSE loc' = [loc EXCEPT ![d] = Holding("abandon", None, f)]
       ELSE Return(d) /\ UNCHANGED bind
    /\ UNCHANGED <<server, made, sess, swap, dirs, tries, net, faults>>

CancelPublish(d) ==
    /\ Free(d) /\ Pending(d, "PUBLISH")
    /\ ops' = [ops EXCEPT ![d]["PUBLISH"] = Done(ops[d]["PUBLISH"])]
    /\ UNCHANGED <<server, made, bind, sess, swap, dirs, loc, tries, net, faults>>

\* The epoch a new binding starts at: the one before the server's when the
\* first snapshot predates it.
StartEpoch == IF epoch > 0 /\ log # <<>> /\ made[log[1]].epoch < epoch THEN epoch - 1 ELSE epoch

\* The pull follows on its own.
Join(d) ==
    /\ Free(d) /\ ~Pending(d, "PUBLISH") /\ fence # 0
    /\ bind' = [bind EXCEPT ![d] = NewBinding(StartEpoch, 0)]
    /\ UNCHANGED <<server, made, ops, sess, swap, dirs, loc, tries, net, faults>>

\* discard_revert_staging: a pending swap, or an upload under the held lease
\* with no release pending, keeps the directories.
Discard(d) ==
    LET needed == d \in swap \/ (/\ bind[d].lease # 0 /\ OfLease(d, "UPLOAD")
                                 /\ ~Pending(d, "RELEASE")) IN
    /\ staging' = IF needed THEN staging ELSE [staging EXCEPT ![d] = None]
    /\ old' = IF needed THEN old ELSE [old EXCEPT ![d] = None]
    /\ UNCHANGED udd

\* A held lease or a pending operation refuses the unbind.
Unbind(d) ==
    /\ Bound(d)
    /\ Discard(d)
    /\ bind[d].lease = 0 /\ ~AnyPending(d)
    /\ bind' = [bind EXCEPT ![d] = None]
    /\ UNCHANGED <<server, made, ops, sess, swap, loc, tries, net, faults>>

----------------------------------------------------------------------------
(* Releases.                                                               *)

Release(d, f) == [Blank("RELEASE", d, bind[d].epoch) EXCEPT !.fence = f]

\* settle marked an operation FAILED; fail_upload aborts its session next.
FailUpload(d) ==
    /\ At(d, "failed")
    /\ sess' = [s \in Snaps |-> IF s = loc[d].req.snap THEN "ABORTED" ELSE sess[s]]
    /\ Goto(d, "abandon")
    /\ UNCHANGED <<server, made, bind, ops, swap, dirs, tries, net, faults>>

\* abandon: the release of the lease `got` is stored, then sent.
Abandon(d) ==
    LET r == Release(d, loc[d].got) IN
    /\ At(d, "abandon")
    /\ ops' = [ops EXCEPT ![d]["RELEASE"] = Anew(r)]
    /\ Send(d, r, TRUE)
    /\ UNCHANGED <<server, made, bind, sess, swap, dirs, tries, faults>>

\* Everything under the lease ends with it.  Operations of a lease no binding
\* holds are never found again, so completed ones go too.
Dropped(d, f) ==
    /\ ops' = [ops EXCEPT ![d] = [k \in Kinds |->
                  IF k # "PUBLISH" /\ Live(d, k) /\ ops[d][k].req.fence = f
                  THEN None ELSE ops[d][k]]]
    /\ sess' = [s \in Snaps |-> IF s \in DOMAIN made /\ made[s].fence = f
                                   /\ sess[s] \in {"OPEN", "READY"}
                                THEN "ABORTED" ELSE sess[s]]

\* The binding without the lease f, waiting for a transition when superseded.
Unleased(b, f, super) == [b EXCEPT !.lease = IF b.lease = f THEN 0 ELSE b.lease,
                                   !.q = IF super THEN "transition" ELSE b.q]

\* release_reply: a refusal is recorded first, the rest in one transaction.
ReleaseRefused(d) ==
    /\ Answered(d, "RELEASE") /\ ~loc[d].ans.ok
    /\ ops' = [ops EXCEPT ![d]["RELEASE"] = None]
    /\ Goto(d, "drop")
    /\ UNCHANGED <<server, made, bind, sess, swap, dirs, tries, net, faults>>

Drop(d) ==
    LET f == loc[d].req.fence IN
    /\ \/ At(d, "drop")
       \/ Answered(d, "RELEASE") /\ loc[d].ans.ok
    /\ Dropped(d, f)
    /\ bind' = [bind EXCEPT ![d] = Unleased(bind[d], f, loc[d].super)]
    /\ Return(d)
    /\ UNCHANGED <<server, made, swap, dirs, tries, net, faults>>

----------------------------------------------------------------------------
(* listed and accept_transitions, for a push and for a pull.               *)

\* refuse_quarantined: a quarantine under another reason than a transition
\* that is not served yet stays until an operator acts.
Current(d) == Bound(d) /\ bind[d].q = ""
Awaits(d)  == Bound(d) /\ bind[d].q = "transition"

\* The listing shows another epoch, or a head that is not the pin's line.
EpochMoved(d) == epoch # bind[d].epoch
HeadRolledBack(d) ==
    \/ Len(log) < bind[d].ver
    \/ Len(log) = bind[d].ver /\ HeadSnap # bind[d].head

\* A push lists when it is about to check out, a pull when nothing is in flight.
Lists(d) == Current(d) /\ bind[d].lease = 0 /\ ~Pending(d, "RELEASE")

ListedQuarantines(d) ==
    /\ Lists(d) /\ (EpochMoved(d) \/ HeadRolledBack(d))
    /\ Quarantine(d, IF epoch > bind[d].epoch THEN "transition" ELSE "rollback")
    /\ UNCHANGED <<server, made, ops, sess, swap, dirs, loc, tries, net, faults>>

Listed(d) == Lists(d) /\ ~EpochMoved(d) /\ ~HeadRolledBack(d)

\* A lease from before the restore is released before the binding moves.
AwaitRelease(d) ==
    LET r == IF Pending(d, "RELEASE") /\ OfLease(d, "RELEASE")
             THEN ops[d]["RELEASE"].req ELSE Release(d, bind[d].lease) IN
    /\ Awaits(d) /\ bind[d].lease # 0
    /\ ops' = [ops EXCEPT ![d]["RELEASE"] = Anew(r)]
    /\ Send(d, r, FALSE)
    /\ UNCHANGED <<server, made, bind, sess, swap, dirs, tries, faults>>

\* verify_proof along the transitions: each leaf starts or ends at the head
\* held so far; without a head the leaf's is taken.  None when one is refused.
LeafHead(b) ==
    LET Before(e) == IF e = b.epoch + 1 THEN b.head ELSE leaves[e - 1].new IN
    IF epoch <= b.epoch THEN b.head
    ELSE IF \A e \in b.epoch + 1 .. epoch : Before(e) \in {0, leaves[e].old, leaves[e].new}
    THEN leaves[epoch].new ELSE None

\* Where the leaf's head is looked for: at or below the pin, or with no pin
\* anywhere below heads of the new epoch.
LeafFound(b, v) ==
    /\ log[v] = LeafHead(b)
    /\ IF b.head # 0 THEN v <= b.ver
       ELSE \A w \in v + 1 .. Len(log) : made[log[w]].epoch = epoch

\* Fault: the version of the pin is kept.
Moved_KeepVersion(b, v) == [b EXCEPT !.epoch = epoch, !.head = LeafHead(b), !.q = ""]

\* store_transitions: the new epoch and the leaf's head; base_version stays.
Moved(b, v) == [b EXCEPT !.epoch = epoch, !.ver = v, !.head = LeafHead(b), !.q = ""]

AcceptTransitions(d) ==
    LET b == bind[d] IN
    /\ Awaits(d) /\ b.lease = 0
    /\ IF epoch <= b.epoch THEN Quarantine(d, "rollback")
       ELSE IF LeafHead(b) = b.head
       THEN bind' = [bind EXCEPT ![d] = Moved(b, b.ver)]
       ELSE IF \E v \in DOMAIN log : LeafFound(b, v)
       THEN \E v \in DOMAIN log : /\ LeafFound(b, v)
                                  /\ bind' = [bind EXCEPT ![d] = Moved(b, v)]
       ELSE Quarantine(d, "invalid")
    /\ UNCHANGED <<server, made, ops, sess, swap, dirs, loc, tries, net, faults>>

----------------------------------------------------------------------------
(* push: the loop looks only at the database.                              *)

ReplayRelease(d) == Current(d) /\ Pending(d, "RELEASE") /\ Resend(d, "RELEASE")

\* Fault: the pin alone decides.
Behind_Never(d) == FALSE

\* Local data never received the pinned head: only a transition moved the pin.
Behind(d) == bind[d].base < bind[d].ver

\* checkout: a new one at the pinned head, or the replay of a stored one.
Checkout(d) ==
    LET b == bind[d]
        r == [kind |-> "CHECKOUT", dev |-> d, n |-> tries[d] + 1, epoch |-> b.epoch,
              fence |-> 0, base |-> b.ver, head |-> b.head, snap |-> 0] IN
    /\ Listed(d) /\ ~Pending(d, "CHECKOUT")
    /\ ~Behind(d) /\ Len(log) = b.ver
    /\ tries[d] < MaxTries
    /\ tries' = [tries EXCEPT ![d] = @ + 1]
    /\ ops' = [ops EXCEPT ![d]["CHECKOUT"] = Anew(r)]
    /\ Send(d, r, TRUE)
    /\ UNCHANGED <<server, made, bind, sess, swap, dirs, faults>>

ReplayCheckout(d) == Listed(d) /\ Pending(d, "CHECKOUT") /\ Resend(d, "CHECKOUT")

\* A granted lease is used on the head and epoch the binding still has; one
\* a replay finds over is not.
Usable(d, over) ==
    LET r == loc[d].req IN
    /\ <<r.base, r.head>> = <<bind[d].ver, bind[d].head>>
    /\ r.epoch = bind[d].epoch
    /\ ~over
    /\ ~Behind(d)

\* `over` is the device's own clock against the stored expiry.  A lease that
\* is over in the first reply is an error and the operation stays PENDING.
CheckedOut(d) ==
    LET f == loc[d].ans.val
        r == Release(d, f) IN
    /\ Answered(d, "CHECKOUT")
    /\ \E over \in BOOLEAN :
         IF ~loc[d].ans.ok
         THEN /\ ops' = [ops EXCEPT ![d]["CHECKOUT"] = None]
              /\ Return(d) /\ UNCHANGED <<bind, net>>
         ELSE IF over /\ loc[d].fresh
         THEN Return(d) /\ UNCHANGED <<bind, ops, net>>
         ELSE IF Usable(d, over)
         THEN /\ ops' = [ops EXCEPT ![d]["CHECKOUT"] = None]
              /\ bind' = [bind EXCEPT ![d].lease = f]
              /\ Return(d) /\ UNCHANGED net
         ELSE /\ ops' = [ops EXCEPT ![d]["CHECKOUT"] = None, ![d]["RELEASE"] = Anew(r)]
              /\ Send(d, r, TRUE) /\ UNCHANGED bind
    /\ UNCHANGED <<server, made, sess, swap, dirs, tries, faults>>

\* The push of a held lease, no release pending.
Working(d) == Current(d) /\ bind[d].lease # 0 /\ ~Pending(d, "RELEASE")

Sealing(d) == Working(d) /\ ~OfLease(d, "COMMIT") /\ ~OfLease(d, "UPLOAD")

\* seal_snapshot: the data as it is now, the spool and the stored request.
SealSnapshot(d) ==
    LET s == Len(made) + 1
        b == bind[d]
        r == [kind |-> "UPLOAD", dev |-> d, n |-> 0, epoch |-> b.epoch, fence |-> b.lease,
              base |-> b.ver, head |-> 0, snap |-> s] IN
    /\ Sealing(d) /\ s \in Snaps
    /\ udd' = [udd EXCEPT ![d] = @ \cup {s}]
    /\ made' = Append(made, [data |-> udd'[d], epoch |-> b.epoch, fence |-> b.lease,
                             ver |-> b.ver + 1])
    /\ ops' = [ops EXCEPT ![d]["UPLOAD"] = Anew(r)]
    /\ Send(d, r, TRUE)
    /\ UNCHANGED <<server, bind, sess, swap, staging, old, tries, faults>>

\* No verified key, a compromised generation, or a withdrawn pin: the lease
\* is given back instead.
SealRefused(d) ==
    /\ Sealing(d)
    /\ loc' = [loc EXCEPT ![d] = Holding("abandon", None, bind[d].lease)]
    /\ UNCHANGED <<server, made, db, dirs, tries, net, faults>>

CreateUpload(d) ==
    /\ Working(d) /\ ~OfLease(d, "COMMIT") /\ OfLease(d, "UPLOAD") /\ Pending(d, "UPLOAD")
    /\ Resend(d, "UPLOAD")

\* A reply: on success done(op), on a refusal the operation is FAILED and the
\* upload or the lease is given up.
Replied(d, k, next) ==
    /\ Answered(d, k)
    /\ IF loc[d].ans.ok
       THEN ops' = [ops EXCEPT ![d][k] = Done(ops[d][k])] /\ Return(d)
       ELSE /\ ops' = [ops EXCEPT ![d][k] = None]
            /\ loc' = [loc EXCEPT ![d] =
                 [pc |-> next, req |-> loc[d].req, ans |-> loc[d].ans, fresh |-> loc[d].fresh,
                  got |-> bind[d].lease, super |-> (k = "COMMIT" /\ loc[d].ans.val # 0)]]
    /\ UNCHANGED <<server, made, bind, swap, dirs, tries, net, faults>>

UploadCreated(d) == Replied(d, "UPLOAD", "abandon") /\ UNCHANGED sess

\* prepare_commit: the signed commit request and the upload session.  A second
\* session of the same upload violates a UNIQUE constraint.
PrepareCommit(d) ==
    LET u == ops[d]["UPLOAD"].req IN
    /\ Working(d) /\ ~OfLease(d, "COMMIT") /\ OfLease(d, "UPLOAD") /\ ~Pending(d, "UPLOAD")
    /\ sess[u.snap] = "none"
    /\ ops' = [ops EXCEPT ![d]["COMMIT"] = Anew([u EXCEPT !.kind = "COMMIT"])]
    /\ sess' = [sess EXCEPT ![u.snap] = "OPEN"]
    /\ UNCHANGED <<server, made, bind, swap, dirs, loc, tries, net, faults>>

\* The session of the pending commit.
InSession(d, st) ==
    /\ Working(d) /\ OfLease(d, "COMMIT") /\ Pending(d, "COMMIT")
    /\ sess[ops[d]["COMMIT"].req.snap] = st

Untransferred(d) == InSession(d, "OPEN") /\ ~(OfLease(d, "FINALIZE") /\ Pending(d, "FINALIZE"))

\* transfer: HEAD, then the chunks.  HEAD refuses once the lease or the upload
\* is gone, which gives the upload up.
Transfer(d) ==
    LET r == ops[d]["COMMIT"].req IN
    /\ Untransferred(d)
    /\ \/ /\ up[r.snap] = "none" \/ ~Held(r)
          /\ loc' = [loc EXCEPT ![d] = Holding("failed", r, bind[d].lease)]
          /\ UNCHANGED up
       \/ /\ up[r.snap] = "OPEN" /\ Held(r)
          /\ up' = [up EXCEPT ![r.snap] = "FULL"]
          /\ UNCHANGED loc
    /\ UNCHANGED <<epoch, log, fence, lease, ledger, leaves, made, db, dirs, tries, net, faults>>

\* finalize, once HEAD shows every byte.
Finalize(d) ==
    LET r == [ops[d]["COMMIT"].req EXCEPT !.kind = "FINALIZE"] IN
    /\ Untransferred(d) /\ up[r.snap] = "FULL" /\ Held(r)
    /\ ops' = [ops EXCEPT ![d]["FINALIZE"] = Anew(r)]
    /\ Send(d, r, TRUE)
    /\ UNCHANGED <<server, made, bind, sess, swap, dirs, tries, faults>>

ResendFinalize(d) ==
    /\ InSession(d, "OPEN") /\ OfLease(d, "FINALIZE") /\ Pending(d, "FINALIZE")
    /\ Resend(d, "FINALIZE")

Finalized(d) ==
    /\ Replied(d, "FINALIZE", "failed")
    /\ sess' = IF loc[d].ans.ok THEN [sess EXCEPT ![loc[d].req.snap] = "READY"] ELSE sess

Commit(d) == InSession(d, "READY") /\ Resend(d, "COMMIT")

CommitReplied(d) ==
    /\ Replied(d, "COMMIT", "failed")
    /\ sess' = IF loc[d].ans.ok THEN [sess EXCEPT ![loc[d].req.snap] = "COMMITTED"] ELSE sess

\* The binding with its data at the version v, the snapshot s.
Pinned(b, v, s) == [b EXCEPT !.ver = v, !.base = v, !.head = s]

\* finish: the commit is read back, then the binding pins it and drops the
\* lease.  A version that is gone or another one is an error, every time.
Finish(d) ==
    LET r == ops[d]["COMMIT"].req
        v == made[r.snap].ver IN
    /\ Working(d) /\ OfLease(d, "COMMIT") /\ ~Pending(d, "COMMIT")
    /\ v \in DOMAIN log /\ log[v] = r.snap
    /\ IF EpochMoved(d) THEN Quarantine(d, "transition") /\ UNCHANGED <<ops, sess>>
       ELSE /\ bind' = [bind EXCEPT ![d] = [Pinned(bind[d], v, r.snap) EXCEPT !.lease = 0]]
            /\ Dropped(d, bind[d].lease)
    /\ UNCHANGED <<server, made, swap, dirs, loc, tries, net, faults>>

----------------------------------------------------------------------------
(* pull: restore into the staging, pin, swap.                              *)

\* Fault: only pending operations are looked at.
PushInFlight_PendingOnly(d) == AnyPending(d)

PushInFlight(d) == bind[d].lease # 0 \/ AnyPending(d)

\* fresh_staging for the listed head.
PullBegin(d) ==
    /\ Current(d) /\ ~PushInFlight(d)
    /\ ~EpochMoved(d) /\ ~HeadRolledBack(d) /\ log # <<>>
    /\ staging' = [staging EXCEPT ![d] = Partial]
    /\ loc' = [loc EXCEPT ![d] = Holding("fetch", None, HeadSnap)]
    /\ UNCHANGED <<server, made, db, udd, old, tries, net, faults>>

\* restore: the ciphertext is served while its version is in the log.
PullFetch(d) ==
    /\ At(d, "fetch") /\ Committed(loc[d].got)
    /\ staging' = [staging EXCEPT ![d] = made[loc[d].got].data]
    /\ Goto(d, "staged")
    /\ UNCHANGED <<server, made, db, udd, old, tries, net, faults>>

\* A download that fails discards the staging.
PullFails(d) ==
    /\ At(d, "fetch")
    /\ \/ ~Committed(loc[d].got) /\ UNCHANGED faults
       \/ Fault
    /\ Discard(d)
    /\ Return(d)
    /\ UNCHANGED <<server, made, db, tries, net>>

\* pin: the head and the row of the swap in one transaction.
Pin(d) ==
    LET s == loc[d].got
        v == made[s].ver IN
    /\ At(d, "staged")
    /\ bind' = [bind EXCEPT ![d] = Pinned(bind[d], v, s)]
    /\ swap' = swap \cup {d}
    /\ Return(d)
    /\ UNCHANGED <<server, made, ops, sess, dirs, tries, net, faults>>

----------------------------------------------------------------------------

\* A step of a push or of whatever holds the claim until it is done.
PushStep(d) ==
    \/ Settle(d) \/ Published(d)
    \/ FailUpload(d) \/ Abandon(d) \/ ReleaseRefused(d) \/ Drop(d)
    \/ ListedQuarantines(d) \/ AwaitRelease(d) \/ AcceptTransitions(d)
    \/ ReplayRelease(d) \/ Checkout(d) \/ ReplayCheckout(d) \/ CheckedOut(d)
    \/ SealSnapshot(d) \/ SealRefused(d) \/ CreateUpload(d) \/ UploadCreated(d)
    \/ PrepareCommit(d) \/ Transfer(d) \/ Finalize(d) \/ ResendFinalize(d) \/ Finalized(d)
    \/ Commit(d) \/ CommitReplied(d) \/ Finish(d)
    \/ PullFetch(d) \/ PullFails(d) \/ Pin(d)

Next ==
    \/ \E d \in Devices :
         \/ PushStep(d)
         \/ StorePublish(d) \/ SendPublish(d) \/ CancelPublish(d)
         \/ Join(d) \/ PullBegin(d) \/ Unbind(d)
         \/ Crash(d) \/ Lose(d)
    \/ \E r \in net : Serve(r)
    \/ Expire
    \/ \E keep \in DOMAIN log : ServerRestore(keep)

Spec == Init /\ [][Next]_vars

\* Pushes are asked for again and again and a command that runs goes on, the
\* server answers what is on its way, and a lease ends.
Fairness ==
    /\ \A d \in Devices : SF_vars(PushStep(d))
    /\ WF_vars(\E r \in net : Serve(r))
    /\ WF_vars(Expire)

FairSpec == Spec /\ Fairness

----------------------------------------------------------------------------
(* Properties.                                                             *)

\* Types of the team database, the directories and the server.
TypeOK ==
    /\ epoch \in Nat /\ fence \in Nat /\ log \in Seq(Snaps)
    /\ lease \in LeaseRow \cup {None}
    /\ up \in [Snaps -> {"none", "OPEN", "FULL", "READY", "COMMITTED"}]
    /\ DOMAIN ledger \subseteq Request /\ \A r \in DOMAIN ledger : ledger[r] \in Nat
    /\ leaves \in Seq([old : Snaps, new : Snaps]) /\ Len(leaves) = epoch
    /\ made \in Seq([data : Data, epoch : Nat, fence : Nat, ver : Nat]) /\ Len(made) <= MaxSnap
    /\ bind \in [Devices -> Binding \cup {None}]
    /\ ops \in [Devices -> [Kinds -> Operation \cup {None}]]
    /\ sess \in [Snaps -> {"none", "OPEN", "READY", "COMMITTED", "ABORTED"}]
    /\ swap \subseteq Devices
    /\ udd \in [Devices -> Data \cup {None}]
    /\ staging \in [Devices -> Data \cup {Partial, None}]
    /\ old \in [Devices -> Data \cup {None}]
    /\ loc \in [Devices -> Local]
    /\ tries \in [Devices -> Nat] /\ net \subseteq Request /\ faults \in Nat

\* No lost update: every committed version includes the data of the version
\* below it, whatever was replayed, lost, released, pulled or rolled back.
CommitKeepsData ==
    \A v \in DOMAIN log : v > 1 => made[log[v - 1]].data \subseteq made[log[v]].data

\* The directory that is or will become the profile's once the swap settles.
DataOf(d) == IF d \in swap /\ staging[d] # None THEN staging[d] ELSE udd[d]

\* The profile's directory never vanishes for good, never becomes a partial
\* restore, and holds the data of the pinned head unless a pull still has to
\* fetch it.
PinnedDataPresent ==
    \A d \in Devices :
      /\ DataOf(d) # None /\ DataOf(d) # Partial
      /\ bind[d] # None => (bind[d].head # 0 /\ bind[d].base >= bind[d].ver
                              => made[bind[d].head].data \subseteq DataOf(d))

\* A binding at the server's epoch pins a head of the server's log, so an
\* honest server is never taken for one that rolled back.
PinIsCommitted ==
    \A d \in Devices : bind[d] # None =>
      /\ bind[d].q # "rollback"
      /\ bind[d].epoch = epoch /\ bind[d].head # 0
           => bind[d].ver \in DOMAIN log /\ log[bind[d].ver] = bind[d].head

\* An upload the device gave up is not in the log, now or after a request of
\* it that was delayed arrives.
GivenUpNeverLands == \A s \in Snaps : sess[s] = "ABORTED" => ~Committed(s)

\* A device that holds a lease gets rid of it: the commit lands and is
\* pinned, or the lease is released or refused.
LeaseDropped ==
    \A d \in Devices :
      (bind[d] # None /\ bind[d].lease # 0) ~> (bind[d] = None \/ bind[d].lease = 0)
=============================================================================
