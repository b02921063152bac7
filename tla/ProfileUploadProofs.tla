------------------------ MODULE ProfileUploadProofs ------------------------
(***************************************************************************)
(* Proofs about ProfileUpload for every set of devices, uploads and        *)
(* handlers, every size, lifetime and bound:                               *)
(*   TypeCorrect     every variable keeps its type;                        *)
(*   LeaseCurrent    a lease holds the newest fence over the newest version*)
(*   OneChain        the committed versions form one fenced chain;         *)
(*   CommitsFenced   a version moves only under the newest, live lease;    *)
(*   Refinement      the whole implements FencedLog;                       *)
(*   OneSlot         a lease has one open upload, while nothing is damaged;*)
(*   UploadsMoveForward        no step asks for a move the trigger refuses;*)
(*   BytesKept                 the bytes behind the rows are on disk;      *)
(*   QuarantineJustified       only bad bytes of the client quarantine;    *)
(*   ServedWhole               what is served hashes to its terms;         *)
(*   SecondPassChangesNothing  the pass keeps what it has settled;         *)
(*   PassSettles               settle() never runs out of its rounds.      *)
(* The type invariant is not inductive alone: that a commit keeps the      *)
(* version within its type needs the versions to stay below the fences     *)
(* (ChainInv), and that a chunk fits needs the handlers' locals to fit     *)
(* (LocalInv).  The last five rest on DiskInv; its core (HandlerInv) is    *)
(* that a handler is the one writer of its uploads, which therefore stay   *)
(* in the state it found them in.                                          *)
(***************************************************************************)
EXTENDS ProfileUpload, TLAPS

PatchPCs == {"patch_write", "patch_orphan", "patch_tx", "patch_short", "patch_cut"}
FinPCs   == {"fin_promote", "fin_orphan", "fin_ready", "fin_refuse"}

\* A handler with the locals q may stand at p: it has an upload where it works
\* on one, and a chunk that fits where it writes one.
MayStand(p, q) ==
    /\ p \in PatchPCs => q.upload \in Uploads /\ q.at < Size
    /\ p \in FinPCs => q.upload \in Uploads

LocalInv == \A r \in Reqs : MayStand(pc[r], reqs[r])

TasksOK ==
    /\ writers \in SUBSET Uploads
    /\ pc \in [Reqs -> PCs] /\ reqs \in [Reqs -> Request]
    /\ LocalInv

\* The parts of the type invariant that an action disturbs together.
ProfileOK ==
    /\ now \in Nat /\ current \in Fences /\ fence \in Fences /\ lease \in Lease \cup {None}

RowsOK ==
    /\ state \in [Uploads -> States] /\ terms \in [Uploads -> Terms]
    /\ chunks \in [Uploads -> File] /\ snaps \in [Versions -> Uploads \cup {None}]
    /\ ledger \in [Uploads -> Fences] /\ held \in SUBSET Uploads

FilesOK ==
    /\ staging \in [Uploads -> File \cup {None}] /\ object \in [Uploads -> File \cup {None}]

EnvOK ==
    /\ mode \in {"down", "starting", "gc", "serving", "off"} /\ todo \in SUBSET Uploads
    /\ rounds \in [Uploads -> Nat] /\ crashes \in Nat /\ faults \in Nat

PartsOK == ProfileOK /\ RowsOK /\ FilesOK /\ TasksOK /\ EnvOK

\* The version in row v came from an upload with these terms, and from no other.
ChainRow(v) ==
    LET u == snaps[v] IN
    /\ state[u] # "none"
    /\ terms[u].base = v - 1
    /\ ledger[u] = v
    /\ terms[u].fence <= fence
    /\ lease # None => terms[u].fence < fence
    /\ \A w \in 1 .. v - 1 : terms[snaps[w]].fence < terms[u].fence

\* Versions stay behind the fences, strictly while there is a lease to commit
\* under, and every fence in the chain is older than a lease's.
ChainInv ==
    /\ LeaseIsCurrent
    /\ current <= fence
    /\ lease # None => current < fence
    /\ \A v \in Versions : v <= current <=> snaps[v] # None
    /\ \A v \in Versions : snaps[v] # None => ChainRow(v)

Inv == TypeOK /\ LocalInv /\ ChainInv

----------------------------------------------------------------------------
(* Files.                                                                  *)

\* The contents of a file are the sequences of at most Size chunks.
LEMMA FileIsSeq ==
    ASSUME NEW f PROVE f \in File <=> f \in Seq(Chunk) /\ Len(f) <= Size
  <1>1. ASSUME f \in File PROVE f \in Seq(Chunk) /\ Len(f) <= Size
    <2>1. PICK n \in 0 .. Size : f \in [1 .. n -> Chunk]
      BY <1>1 DEF File
    <2> QED BY <2>1, ConstantsOK
  <1>2. ASSUME f \in Seq(Chunk), Len(f) <= Size PROVE f \in File
    <2>1. f \in [1 .. Len(f) -> Chunk] /\ Len(f) \in 0 .. Size
      BY <1>2, ConstantsOK
    <2> QED BY <2>1 DEF File
  <1> QED BY <1>1, <1>2

\* Cutting a file, and writing one chunk after the cut, give a file.
LEMMA CutAndWrite ==
    ASSUME NEW f \in File, NEW n \in Nat, n <= Len(f), NEW c \in Chunk
    PROVE  /\ SubSeq(f, 1, n) \in File /\ Len(SubSeq(f, 1, n)) = n
           /\ n < Size => SubSeq(f, 1, n) \o <<c>> \in File
  <1>1. f \in Seq(Chunk) /\ Len(f) <= Size /\ Len(f) \in Nat
    BY FileIsSeq
  <1>2. SubSeq(f, 1, n) \in Seq(Chunk) /\ Len(SubSeq(f, 1, n)) = n
    BY <1>1
  <1>3. SubSeq(f, 1, n) \in File
    <2> DEFINE g == SubSeq(f, 1, n)
    <2>1. g \in Seq(Chunk) /\ Len(g) = n BY <1>2
    <2> HIDE DEF g
    <2>2. Len(g) <= Size BY <1>1, <2>1, ConstantsOK
    <2>3. g \in File BY <2>1, <2>2, FileIsSeq
    <2> QED BY <2>3 DEF g
  <1>4. ASSUME n < Size PROVE SubSeq(f, 1, n) \o <<c>> \in File
    <2> DEFINE g == SubSeq(f, 1, n)
    <2>1. g \in Seq(Chunk) /\ Len(g) = n BY <1>2
    <2> HIDE DEF g
    <2>2. g \o <<c>> \in Seq(Chunk) /\ Len(g \o <<c>>) = n + 1 BY <2>1
    <2>3. Len(g \o <<c>>) <= Size BY <2>2, <1>4, ConstantsOK
    <2>4. g \o <<c>> \in File BY <2>2, <2>3, FileIsSeq
    <2> QED BY <2>4 DEF g
  <1> QED BY <1>2, <1>3, <1>4

\* Appending a chunk that fits gives a file.
LEMMA AppendFits ==
    ASSUME NEW f \in File, Len(f) < Size, NEW c \in Chunk
    PROVE  Append(f, c) \in File
  <1>1. f \in Seq(Chunk) /\ Len(f) \in Nat BY FileIsSeq
  <1>2. Append(f, c) \in Seq(Chunk) /\ Len(Append(f, c)) = Len(f) + 1 BY <1>1
  <1>3. Len(Append(f, c)) <= Size BY <1>1, <1>2, ConstantsOK
  <1> QED BY <1>2, <1>3, FileIsSeq

\* The empty file and the expected object are files.
LEMMA KnownFiles == <<>> \in File /\ Whole \in File
  <1>1. <<>> \in File
    <2>1. <<>> \in [1 .. 0 -> Chunk] /\ 0 \in 0 .. Size BY ConstantsOK
    <2> QED BY <2>1 DEF File
  <1>2. Whole \in [1 .. Size -> Chunk]
    BY DEF Whole, Chunk
  <1>3. Whole \in File
    BY <1>2, ConstantsOK DEF File
  <1> QED BY <1>1, <1>3

----------------------------------------------------------------------------
(* The helpers the actions are built from.                                 *)

\* The locals of a handler that does nothing.
LEMMA IdleLocals ==
    /\ Idle \in Request
    /\ \A p \in PCs \ (PatchPCs \cup FinPCs), q \in Request : MayStand(p, q)
  BY ConstantsOK DEF Idle, Request, Chunk, MayStand

\* A handler that starts work keeps the handlers well-formed.
LEMMA TakeOK ==
    ASSUME TasksOK, NEW r \in Reqs, NEW us \in SUBSET Uploads, NEW p \in PCs,
           NEW q \in Request, MayStand(p, q), Take(r, us, p, q)
    PROVE  TasksOK'
  <1>1. writers' \in SUBSET Uploads BY DEF TasksOK, Take
  <1>2. pc' \in [Reqs -> PCs] /\ reqs' \in [Reqs -> Request] BY DEF TasksOK, Take
  <1>3. \A x \in Reqs : /\ x = r => pc'[x] = p /\ reqs'[x] = q
                        /\ x # r => pc'[x] = pc[x] /\ reqs'[x] = reqs[x]
    BY DEF TasksOK, Take
  <1>4. LocalInv'
    BY <1>3 DEF TasksOK, LocalInv, MayStand
  <1> QED BY <1>1, <1>2, <1>4 DEF TasksOK

\* So does one that goes on to its next step ...
LEMMA GotoOK ==
    ASSUME TasksOK, NEW r \in Reqs, NEW p \in PCs, MayStand(p, reqs[r]), Goto(r, p)
    PROVE  TasksOK'
  <1>1. pc' \in [Reqs -> PCs] /\ writers' = writers /\ reqs' = reqs BY DEF TasksOK, Goto
  <1>2. \A x \in Reqs : (x = r => pc'[x] = p) /\ (x # r => pc'[x] = pc[x])
    BY DEF TasksOK, Goto
  <1>3. LocalInv'
    BY <1>1, <1>2 DEF TasksOK, LocalInv, MayStand
  <1> QED BY <1>1, <1>3 DEF TasksOK

\* ... one that ends ...
LEMMA DoneOK ==
    ASSUME TasksOK, NEW r \in Reqs, Done(r)
    PROVE  TasksOK'
  <1>1. writers' \in SUBSET Uploads BY DEF TasksOK, Done
  <1>2. pc' \in [Reqs -> PCs] /\ reqs' \in [Reqs -> Request]
    BY IdleLocals DEF TasksOK, Done, PCs
  <1>3. \A x \in Reqs : /\ x = r => pc'[x] = "idle"
                        /\ x # r => pc'[x] = pc[x] /\ reqs'[x] = reqs[x]
    BY DEF TasksOK, Done
  <1>4. LocalInv'
    BY <1>3 DEF TasksOK, LocalInv, MayStand, PatchPCs, FinPCs
  <1> QED BY <1>1, <1>2, <1>4 DEF TasksOK

\* ... and a step of anybody else.
LEMMA SameTasks ==
    ASSUME TasksOK, UNCHANGED tasks PROVE TasksOK'
  BY DEF TasksOK, tasks, LocalInv, MayStand

\* A write at an offset within the size leaves a file behind.
LEMMA WriteOK ==
    ASSUME TypeOK, NEW u \in Uploads, NEW at \in Nat, NEW cs,
           at < Size, cs = <<>> \/ \E c \in Chunk : cs = <<c>>, WriteAt(u, at, cs)
    PROVE  staging' \in [Uploads -> File \cup {None}]
  <1>1. CASE ~CanWriteAt(u, at) BY <1>1 DEF TypeOK, WriteAt
  <1>2. CASE CanWriteAt(u, at)
    <2>1. Bytes(u) \in File /\ at <= Len(Bytes(u))
      BY <1>2, KnownFiles DEF TypeOK, CanWriteAt, Bytes
    <2>2. SubSeq(Bytes(u), 1, at) \in Seq(Chunk)
      BY <2>1, CutAndWrite, FileIsSeq DEF Chunk
    <2>3. Written(u, at, cs) \in File
      <3>1. CASE cs = <<>>
        <4> DEFINE g == SubSeq(Bytes(u), 1, at)
        <4>1. g \in Seq(Chunk) /\ g \in File BY <2>1, <2>2, CutAndWrite DEF Chunk
        <4> HIDE DEF g
        <4>2. g \o <<>> = g BY <4>1
        <4> QED BY <3>1, <4>1, <4>2 DEF Written, g
      <3>2. CASE \E c \in Chunk : cs = <<c>>
        BY <3>2, <2>1, CutAndWrite DEF Written
      <3> QED BY <3>1, <3>2
    <2>4. staging' = [staging EXCEPT ![u] = Written(u, at, cs)] BY <1>2 DEF WriteAt
    <2> HIDE DEF Written
    <2> QED BY <2>3, <2>4 DEF TypeOK
  <1> QED BY <1>1, <1>2

----------------------------------------------------------------------------
(* Every action keeps the types.                                           *)

\* The parts add up to the type invariant and the handlers' locals.
LEMMA PartsAreTypeOK == PartsOK <=> TypeOK /\ LocalInv
  BY DEF PartsOK, ProfileOK, RowsOK, FilesOK, TasksOK, EnvOK, TypeOK

\* A part keeps its type when its variables do not change.
LEMMA Frame ==
    ASSUME PartsOK
    PROVE  /\ UNCHANGED <<now, current, fence, lease>> => ProfileOK'
           /\ UNCHANGED rows => RowsOK'
           /\ UNCHANGED files => FilesOK'
           /\ UNCHANGED tasks => TasksOK'
           /\ UNCHANGED env => EnvOK'
           /\ state' \in [Uploads -> States] /\ UNCHANGED <<terms, chunks, snaps, ledger, held>>
              => RowsOK'
  BY SameTasks
     DEF PartsOK, ProfileOK, RowsOK, FilesOK, EnvOK, rows, files, env

\* The lease of a grant has its type.
LEMMA GrantOK ==
    ASSUME PartsOK, NEW d \in Devices, NEW f \in Fences, Grant(d, f), UNCHANGED <<now, current>>
    PROVE  ProfileOK'
  BY ConstantsOK DEF PartsOK, ProfileOK, Grant, Lease

\* The lease routes keep the types.
LEMMA LeaseTypes == PartsOK /\ LeaseStep => PartsOK'
  <1> SUFFICES ASSUME PartsOK, LeaseStep PROVE PartsOK'
    OBVIOUS
  <1>1. ASSUME NEW d \in Devices, Publish(d) PROVE PartsOK'
    <2>1. ProfileOK' BY <1>1, GrantOK, ConstantsOK DEF Publish, Fences
    <2> QED BY <1>1, <2>1, Frame DEF Publish, PartsOK
  <1>2. ASSUME NEW d \in Devices, Checkout(d) PROVE PartsOK'
    <2>1. NextFence \in Fences BY <1>2, ConstantsOK DEF Checkout, Fences, NextFence
    <2>2. ProfileOK' BY <1>2, <2>1, GrantOK DEF Checkout
    <2> QED BY <1>2, <2>2, Frame DEF Checkout, PartsOK
  <1>3. ASSUME NEW d \in Devices, Renew(d) PROVE PartsOK'
    <2>1. lease \in Lease /\ now + LeaseTTL \in Nat
      BY <1>3, ConstantsOK DEF Renew, PartsOK, ProfileOK
    <2>2. lease' \in Lease BY <1>3, <2>1 DEF Renew, Lease
    <2>3. ProfileOK' BY <1>3, <2>2 DEF Renew, PartsOK, ProfileOK
    <2> QED BY <1>3, <2>3, Frame DEF Renew, PartsOK
  <1>4. ASSUME (\E d \in Devices : Release(d)) \/ ForceExpire PROVE PartsOK'
    <2>1. ProfileOK' BY <1>4 DEF Release, ForceExpire, PartsOK, ProfileOK
    <2> QED BY <1>4, <2>1, Frame DEF Release, ForceExpire, PartsOK
  <1> QED BY <1>1, <1>2, <1>3, <1>4 DEF LeaseStep

\* The first step of a handler keeps the types.
LEMMA RequestTypes == \A r \in Reqs : PartsOK /\ Request_(r) => PartsOK'
  <1> SUFFICES ASSUME NEW r \in Reqs, PartsOK, NEW d \in Devices, NEW u \in Uploads,
                      \/ CreateUpload(r, d, u) \/ FinalizeBegin(r, d, u) \/ Abort(r, d, u)
                      \/ \E c \in Chunk : PatchBegin(r, d, u, c)
               PROVE  PartsOK'
    BY DEF Request_
  <1>1. ASSUME CreateUpload(r, d, u) PROVE PartsOK'
    <2>1. state' \in [Uploads -> States]
      BY <1>1 DEF CreateUpload, PartsOK, RowsOK, States
    <2>2. terms' \in [Uploads -> Terms]
      <3>1. lease \in Lease /\ now + UploadTTL \in Nat
        BY <1>1, ConstantsOK DEF CreateUpload, PartsOK, ProfileOK
      <3>2. [fence |-> lease.fence, base |-> lease.base, expires |-> now + UploadTTL] \in Terms
        BY <3>1 DEF Lease, Terms
      <3> QED BY <1>1, <3>2 DEF CreateUpload, NewUpload, PartsOK, RowsOK
    <2>3. RowsOK'
      BY <1>1, <2>1, <2>2 DEF CreateUpload, PartsOK, RowsOK
    <2>4. FilesOK'
      BY <1>1, KnownFiles DEF CreateUpload, NewUpload, PartsOK, FilesOK
    <2>5. TasksOK'
      <3>1. CASE Expired = {} BY <1>1, <3>1, Frame DEF CreateUpload
      <3>2. CASE Expired # {}
        <4> DEFINE q == [Idle EXCEPT !.sweep = Expired]
        <4>1. Expired \in SUBSET Uploads BY DEF Expired
        <4>2. q \in Request BY <4>1, IdleLocals DEF Request
        <4>3. Take(r, Expired, "remove", q) BY <1>1, <3>2 DEF CreateUpload
        <4>4. "remove" \in PCs \ (PatchPCs \cup FinPCs) BY DEF PCs, PatchPCs, FinPCs
        <4> HIDE DEF q
        <4>5. MayStand("remove", q) BY <4>2, <4>4, IdleLocals
        <4> QED BY <4>1, <4>2, <4>3, <4>4, <4>5, TakeOK DEF PartsOK
      <3> QED BY <3>1, <3>2
    <2> QED BY <1>1, <2>3, <2>4, <2>5, Frame DEF CreateUpload, PartsOK, profile
  <1>2. ASSUME FinalizeBegin(r, d, u) PROVE PartsOK'
    <2>1. RowsOK' BY <1>2, Frame DEF FinalizeBegin, PartsOK, RowsOK, States
    <2>2. TasksOK'
      <3> DEFINE q == [Idle EXCEPT !.dev = d, !.upload = u]
      <3>1. q \in Request /\ q.upload = u BY IdleLocals DEF Request, Idle
      <3>2. Take(r, {u}, "fin_promote", q) BY <1>2 DEF FinalizeBegin
      <3> HIDE DEF q
      <3>3. MayStand("fin_promote", q) /\ "fin_promote" \in PCs
        BY <3>1 DEF MayStand, PatchPCs, PCs
      <3> QED BY <3>1, <3>2, <3>3, TakeOK DEF PartsOK
    <2> QED BY <1>2, <2>1, <2>2, Frame DEF FinalizeBegin, PartsOK, profile
  <1>3. ASSUME Abort(r, d, u) PROVE PartsOK'
    <2>1. RowsOK' BY <1>3, Frame DEF Abort, PartsOK, RowsOK, States
    <2>2. TasksOK'
      <3> DEFINE q == [Idle EXCEPT !.sweep = {u}]
      <3>1. q \in Request BY IdleLocals DEF Request
      <3>2. Take(r, {u}, "remove", q) BY <1>3 DEF Abort
      <3>3. "remove" \in PCs \ (PatchPCs \cup FinPCs) BY DEF PCs, PatchPCs, FinPCs
      <3> HIDE DEF q
      <3>4. MayStand("remove", q) BY <3>1, <3>3, IdleLocals
      <3> QED BY <3>1, <3>2, <3>3, <3>4, TakeOK DEF PartsOK
    <2> QED BY <1>3, <2>1, <2>2, Frame DEF Abort, PartsOK, profile
  <1>4. ASSUME NEW c \in Chunk, PatchBegin(r, d, u, c) PROVE PartsOK'
    <2>1. Offset(u) \in 0 .. Size /\ Offset(u) < Size
      <3>1. chunks[u] \in File BY DEF PartsOK, RowsOK
      <3>2. chunks[u] \in Seq(Chunk) BY <3>1, FileIsSeq
      <3>3. Len(chunks[u]) \in Nat BY <3>2
      <3>4. Len(chunks[u]) < Size BY <1>4 DEF PatchBegin, Fits, Offset
      <3> QED BY <3>3, <3>4, ConstantsOK DEF Offset
    <2>2. TasksOK'
      <3> DEFINE q == [Idle EXCEPT !.dev = d, !.upload = u, !.at = Offset(u), !.chunk = c]
      <3>1. q \in Request /\ q.upload = u /\ q.at = Offset(u)
        BY <2>1, IdleLocals DEF Request, Idle
      <3>2. Take(r, {u}, "patch_write", q) BY <1>4 DEF PatchBegin
      <3> HIDE DEF q
      <3>3. MayStand("patch_write", q) /\ "patch_write" \in PCs
        BY <2>1, <3>1 DEF MayStand, FinPCs, PCs
      <3> QED BY <3>1, <3>2, <3>3, TakeOK DEF PartsOK
    <2> QED BY <1>4, <2>2, Frame DEF PatchBegin, PartsOK, profile
  <1> QED BY <1>1, <1>2, <1>3, <1>4

\* A handler that works on an upload has one, and its chunk fits.
LEMMA Locals ==
    ASSUME PartsOK, NEW r \in Reqs
    PROVE  /\ reqs[r] \in Request /\ pc[r] \in PCs
           /\ pc[r] \in PatchPCs =>
                reqs[r].upload \in Uploads /\ reqs[r].at \in Nat /\ reqs[r].at < Size
           /\ pc[r] \in FinPCs => reqs[r].upload \in Uploads
  BY ConstantsOK DEF PartsOK, TasksOK, LocalInv, MayStand, Request

\* The middle of a handler keeps the types.
LEMMA WorkTypes == \A r \in Reqs : PartsOK /\ (Work(r) \/ Drop(r)) => PartsOK'
  <1> SUFFICES ASSUME NEW r \in Reqs, PartsOK, Work(r) \/ Drop(r) PROVE PartsOK'
    OBVIOUS
  <1>0. TypeOK BY PartsAreTypeOK
  <1>1. ASSUME RemoveStaging(r) PROVE PartsOK'
    <2>1. PICK u \in reqs[r].sweep, gone \in BOOLEAN :
            /\ staging' = IF gone THEN [staging EXCEPT ![u] = None] ELSE staging
            /\ IF reqs[r].sweep = {u} THEN Done(r)
               ELSE /\ reqs' = [reqs EXCEPT ![r].sweep = @ \ {u}]
                    /\ writers' = writers \ {u}
                    /\ UNCHANGED pc
      BY <1>1 DEF RemoveStaging
    <2>2. FilesOK' BY <1>1, <2>1 DEF RemoveStaging, PartsOK, FilesOK
    <2>3. TasksOK'
      <3>1. CASE reqs[r].sweep = {u} BY <2>1, <3>1, DoneOK DEF PartsOK
      <3>2. CASE reqs[r].sweep # {u}
        <4> DEFINE q == [reqs[r] EXCEPT !.sweep = @ \ {u}]
        <4>1. q \in Request BY Locals DEF Request
        <4>2. reqs' = [reqs EXCEPT ![r] = q] /\ writers' = writers \ {u} /\ pc' = pc
          BY <2>1, <3>2
        <4>3. pc[r] = "remove" BY <1>1 DEF RemoveStaging, Step
        <4> HIDE DEF q
        <4>4. \A x \in Reqs : x # r => reqs'[x] = reqs[x]
          BY <4>2 DEF PartsOK, TasksOK
        <4>5. LocalInv'
          BY <4>2, <4>3, <4>4 DEF PartsOK, TasksOK, LocalInv, MayStand, PatchPCs, FinPCs
        <4>6. writers' \in SUBSET Uploads /\ pc' \in [Reqs -> PCs] /\ reqs' \in [Reqs -> Request]
          BY <4>1, <4>2 DEF PartsOK, TasksOK
        <4> QED BY <4>5, <4>6 DEF TasksOK
      <3> QED BY <3>1, <3>2
    <2> QED BY <1>1, <2>2, <2>3, Frame DEF RemoveStaging, PartsOK, profile
  <1>2. ASSUME PatchWrite(r) PROVE PartsOK'
    <2> DEFINE q == reqs[r]
    <2>1. q.upload \in Uploads /\ q.at \in Nat /\ q.at < Size /\ q.chunk \in Chunk
      BY <1>2, Locals DEF PatchWrite, PatchPCs, Request
    <2>2. FilesOK'
      <3>1. WriteAt(q.upload, q.at, <<q.chunk>>) /\ UNCHANGED object BY <1>2 DEF PatchWrite
      <3>2. staging' \in [Uploads -> File \cup {None}] BY <1>0, <2>1, <3>1, WriteOK
      <3> QED BY <3>1, <3>2 DEF PartsOK, FilesOK
    <2>3. TasksOK'
      <3>1. CASE pc[r] = "patch_orphan"
        <4>1. Done(r) BY <1>2, <3>1 DEF PatchWrite
        <4> QED BY <4>1, DoneOK DEF PartsOK
      <3>2. CASE pc[r] # "patch_orphan"
        <4>1. PICK p \in {"patch_tx", "patch_short"} : Goto(r, p)
          BY <1>2, <3>2 DEF PatchWrite
        <4>2. p \in PCs /\ MayStand(p, q) BY <2>1 DEF PCs, MayStand, FinPCs
        <4> QED BY <4>1, <4>2, GotoOK DEF PartsOK
      <3> QED BY <3>1, <3>2
    <2> QED BY <1>2, <2>2, <2>3, Frame DEF PatchWrite, PartsOK, profile
  <1>3. ASSUME PatchRecord(r) PROVE PartsOK'
    <2> DEFINE u == reqs[r].upload
    <2>1. u \in Uploads /\ reqs[r].at < Size /\ reqs[r].chunk \in Chunk
      BY <1>3, Locals DEF PatchRecord, Step, PatchPCs, Request
    <2>2. Len(chunks[u]) = reqs[r].at BY <1>3 DEF PatchRecord, StillWritable, Offset
    <2>3. chunks[u] \in File BY <2>1 DEF PartsOK, RowsOK
    <2>4. Append(chunks[u], reqs[r].chunk) \in File BY <2>1, <2>2, <2>3, AppendFits
    <2>5. chunks' = [chunks EXCEPT ![u] = Append(chunks[u], reqs[r].chunk)]
      BY <1>3, <2>1 DEF PatchRecord, PartsOK, RowsOK
    <2>6. chunks' \in [Uploads -> File] BY <2>4, <2>5 DEF PartsOK, RowsOK
    <2>7. RowsOK' BY <1>3, <2>6 DEF PatchRecord, PartsOK, RowsOK
    <2>8. TasksOK' BY <1>3, DoneOK DEF PatchRecord, PartsOK
    <2> QED BY <1>3, <2>7, <2>8, Frame DEF PatchRecord, PartsOK, profile
  <1>4. ASSUME PatchQuarantine(r) \/ FinalizeReady(r) \/ FinalizeRefused(r) PROVE PartsOK'
    <2>1. state' \in [Uploads -> States]
      BY <1>4 DEF PatchQuarantine, FinalizeReady, FinalizeRefused, Quarantine,
                  PartsOK, RowsOK, States
    <2>2. RowsOK'
      BY <1>4, <2>1, Frame DEF PatchQuarantine, FinalizeReady, FinalizeRefused
    <2>3. TasksOK'
      BY <1>4, DoneOK DEF PatchQuarantine, FinalizeReady, FinalizeRefused, PartsOK
    <2> QED BY <1>4, <2>2, <2>3, Frame
            DEF PatchQuarantine, FinalizeReady, FinalizeRefused, PartsOK, profile
  <1>5. ASSUME PatchRefused(r) PROVE PartsOK'
    <2>1. MayStand("patch_cut", reqs[r]) /\ "patch_cut" \in PCs
      BY <1>5, Locals DEF PatchRefused, PatchPCs, FinPCs, MayStand, PCs
    <2>2. TasksOK' BY <1>5, <2>1, GotoOK DEF PatchRefused, PartsOK
    <2> QED BY <1>5, <2>2, Frame DEF PatchRefused, PartsOK, profile
  <1>6. ASSUME PatchCut(r) PROVE PartsOK'
    <2>1. reqs[r].upload \in Uploads /\ reqs[r].at \in Nat /\ reqs[r].at < Size
      BY <1>6, Locals DEF PatchCut, Step, PatchPCs
    <2>2. FilesOK'
      <3>1. WriteAt(reqs[r].upload, reqs[r].at, <<>>) /\ UNCHANGED object
        BY <1>6 DEF PatchCut
      <3>2. staging' \in [Uploads -> File \cup {None}] BY <1>0, <2>1, <3>1, WriteOK
      <3> QED BY <3>1, <3>2 DEF PartsOK, FilesOK
    <2>3. TasksOK' BY <1>6, DoneOK DEF PatchCut, PartsOK
    <2> QED BY <1>6, <2>2, <2>3, Frame DEF PatchCut, PartsOK, profile
  <1>7. ASSUME Promote(r) PROVE PartsOK'
    <2> DEFINE u == reqs[r].upload
    <2>1. u \in Uploads BY <1>7, Locals DEF Promote, FinPCs
    <2>2. FilesOK'
      <3>1. CASE Candidate(u) = Whole
        BY <1>7, <2>1, <3>1, KnownFiles DEF Promote, Renamed, PartsOK, FilesOK
      <3>2. CASE Candidate(u) # Whole
        BY <1>7, <3>2, Frame DEF Promote
      <3> QED BY <3>1, <3>2
    <2>3. TasksOK'
      <3>1. CASE Done(r) BY <3>1, DoneOK DEF PartsOK
      <3>2. CASE \E p \in {"fin_ready", "fin_refuse"} : Goto(r, p)
        <4>1. PICK p \in {"fin_ready", "fin_refuse"} : Goto(r, p) BY <3>2
        <4>2. p \in PCs /\ MayStand(p, reqs[r]) BY <2>1 DEF PCs, MayStand, PatchPCs
        <4> QED BY <4>1, <4>2, GotoOK DEF PartsOK
      <3> QED BY <1>7, <3>1, <3>2 DEF Promote
    <2> QED BY <1>7, <2>2, <2>3, Frame DEF Promote, PartsOK, profile
  <1>8. ASSUME Drop(r) PROVE PartsOK'
    <2>1. CASE pc[r] = "patch_write"
      <3>1. Goto(r, "patch_orphan") BY <1>8, <2>1 DEF Drop
      <3>2. MayStand("patch_orphan", reqs[r]) /\ "patch_orphan" \in PCs
        BY <2>1, Locals DEF MayStand, PatchPCs, FinPCs, PCs
      <3>3. TasksOK' BY <3>1, <3>2, GotoOK DEF PartsOK
      <3> QED BY <1>8, <3>3, Frame DEF Drop, PartsOK, profile
    <2>2. CASE pc[r] = "fin_promote"
      <3>1. Goto(r, "fin_orphan") BY <1>8, <2>2 DEF Drop
      <3>2. MayStand("fin_orphan", reqs[r]) /\ "fin_orphan" \in PCs
        BY <2>2, Locals DEF MayStand, PatchPCs, FinPCs, PCs
      <3>3. TasksOK' BY <3>1, <3>2, GotoOK DEF PartsOK
      <3> QED BY <1>8, <3>3, Frame DEF Drop, PartsOK, profile
    <2>3. CASE pc[r] \notin {"patch_write", "fin_promote"}
      <3>1. Done(r) BY <1>8, <2>3 DEF Drop
      <3>2. TasksOK' BY <3>1, DoneOK DEF PartsOK
      <3> QED BY <1>8, <3>2, Frame DEF Drop, PartsOK, profile
    <2> QED BY <2>1, <2>2, <2>3
  <1> QED BY <1>1, <1>2, <1>3, <1>4, <1>5, <1>6, <1>7, <1>8 DEF Work

\* The startup pass keeps the types.
LEMMA StartupTypes == PartsOK /\ (Startup \/ \E u \in Uploads : SettleFails(u)) => PartsOK'
  <1> SUFFICES ASSUME PartsOK, Startup \/ \E u \in Uploads : SettleFails(u) PROVE PartsOK'
    OBVIOUS
  <1>1. ASSUME NEW u \in Uploads, CutTail(u), UNCHANGED object PROVE FilesOK'
    <2>1. CASE state[u] = "OPEN" /\ staging[u] # None /\ Len(staging[u]) > Offset(u)
      <3>1. staging[u] \in File /\ chunks[u] \in File
        BY <2>1 DEF PartsOK, FilesOK, RowsOK
      <3>2. chunks[u] \in Seq(Chunk) /\ staging[u] \in Seq(Chunk) BY <3>1, FileIsSeq
      <3>3. Offset(u) \in Nat /\ Offset(u) <= Len(staging[u]) BY <2>1, <3>2 DEF Offset
      <3>4. SubSeq(staging[u], 1, Offset(u)) \in File
        BY <3>1, <3>3, CutAndWrite DEF Chunk
      <3>5. staging' = [staging EXCEPT ![u] = SubSeq(staging[u], 1, Offset(u))]
        BY <1>1, <2>1 DEF CutTail, PartsOK, FilesOK
      <3> QED BY <1>1, <3>4, <3>5 DEF PartsOK, FilesOK
    <2>2. CASE ~(state[u] = "OPEN" /\ staging[u] # None /\ Len(staging[u]) > Offset(u))
      BY <1>1, <2>2 DEF CutTail, PartsOK, FilesOK
    <2> QED BY <2>1, <2>2
  <1>2. ASSUME NEW u \in Uploads, Settled(u) PROVE EnvOK'
    BY <1>2 DEF Settled, PartsOK, EnvOK
  <1>3. ASSUME NEW u \in Uploads, Hold(u), UNCHANGED <<terms, chunks, snaps, ledger>>
        PROVE  RowsOK'
    BY <1>3 DEF Hold, PartsOK, RowsOK, States
  <1>4. ASSUME NEW u \in Uploads, SettleKeep(u) PROVE PartsOK'
    <2>1. FilesOK' /\ EnvOK' BY <1>1, <1>2, <1>4 DEF SettleKeep
    <2> QED BY <1>4, <2>1, Frame DEF SettleKeep, PartsOK, profile
  <1>5. ASSUME NEW u \in Uploads, SettleQuarantine(u) PROVE PartsOK'
    <2>1. FilesOK' /\ EnvOK' /\ RowsOK' BY <1>1, <1>2, <1>3, <1>5 DEF SettleQuarantine
    <2> QED BY <1>5, <2>1, Frame DEF SettleQuarantine, PartsOK, profile
  <1>6. ASSUME NEW u \in Uploads, SettlePromote(u) PROVE PartsOK'
    <2>1. Candidate(u) \in File \cup {None} BY DEF Candidate, PartsOK, FilesOK
    <2>2. FilesOK' BY <1>6, <2>1 DEF SettlePromote, Renamed, PartsOK, FilesOK
    <2> QED BY <1>6, <2>2, Frame DEF SettlePromote, PartsOK, profile
  <1>7. ASSUME NEW u \in Uploads, SettleReady(u) \/ SettleCommit(u) PROVE PartsOK'
    <2>1. state' \in [Uploads -> States]
      BY <1>7 DEF SettleReady, SettleCommit, PartsOK, RowsOK, States
    <2>2. EnvOK' BY <1>7 DEF SettleReady, SettleCommit, NextRound, PartsOK, EnvOK
    <2> QED BY <1>7, <2>1, <2>2, Frame DEF SettleReady, SettleCommit, PartsOK, profile
  <1>8. ASSUME NEW u \in Uploads, SettleDrop(u) PROVE PartsOK'
    <2>1. FilesOK' BY <1>8 DEF SettleDrop, PartsOK, FilesOK
    <2>2. EnvOK' BY <1>8 DEF SettleDrop, NextRound, PartsOK, EnvOK
    <2> QED BY <1>8, <2>1, <2>2, Frame DEF SettleDrop, PartsOK, profile
  <1>9. ASSUME NEW u \in Uploads, SettleFails(u) PROVE PartsOK'
    <2>1. RowsOK'
      <3>1. CASE state[u] = "COMMITTED"
        BY <1>9, <3>1 DEF SettleFails, PartsOK, RowsOK
      <3>2. CASE state[u] # "COMMITTED"
        BY <1>3, <1>9, <3>2 DEF SettleFails
      <3> QED BY <3>1, <3>2
    <2>2. EnvOK' BY <1>9 DEF SettleFails, PartsOK, EnvOK
    <2> QED BY <1>9, <2>1, <2>2, Frame DEF SettleFails, PartsOK, profile
  <1>10. ASSUME Gc PROVE PartsOK'
    <2>1. state' \in [Uploads -> States] BY <1>10 DEF Gc, PartsOK, RowsOK, States
    <2>2. EnvOK' BY <1>10 DEF Gc, PartsOK, EnvOK
    <2> QED BY <1>10, <2>1, <2>2, Frame DEF Gc, PartsOK, profile
  <1>11. ASSUME Open PROVE PartsOK'
    <2>1. FilesOK' BY <1>11 DEF Open, PartsOK, FilesOK
    <2>2. EnvOK' BY <1>11 DEF Open, PartsOK, EnvOK
    <2> QED BY <1>11, <2>1, <2>2, Frame DEF Open, PartsOK, profile
  <1>12. ASSUME Start PROVE PartsOK'
    <2>1. EnvOK' BY <1>12 DEF Start, PartsOK, EnvOK
    <2> QED BY <1>12, <2>1, Frame DEF Start, PartsOK, profile
  <1> QED BY <1>4, <1>5, <1>6, <1>7, <1>8, <1>9, <1>10, <1>11, <1>12 DEF Startup, Settle

\* The clock, crashes and damage keep the types.
LEMMA WorldTypes ==
    PartsOK /\ (Tick \/ Crash \/ \E u \in Uploads : DamageStaging(u) \/ DamageObject(u) \/ Revert(u))
    => PartsOK'
  <1> SUFFICES ASSUME PartsOK,
                      Tick \/ Crash \/ \E u \in Uploads : DamageStaging(u) \/ DamageObject(u) \/ Revert(u)
               PROVE  PartsOK'
    OBVIOUS
  <1>1. ASSUME Tick PROVE PartsOK'
    <2>1. ProfileOK' BY <1>1 DEF Tick, profile, PartsOK, ProfileOK
    <2> QED BY <1>1, <2>1, Frame DEF Tick, PartsOK
  <1>2. ASSUME Crash PROVE PartsOK'
    <2>1. EnvOK' BY <1>2 DEF Crash, PartsOK, EnvOK
    <2>2. TasksOK'
      <3>1. "idle" \in PCs /\ MayStand("idle", Idle)
        BY DEF PCs, MayStand, PatchPCs, FinPCs
      <3>2. pc' \in [Reqs -> PCs] /\ reqs' \in [Reqs -> Request] /\ writers' \in SUBSET Uploads
        BY <1>2, <3>1, IdleLocals DEF Crash
      <3>3. LocalInv' BY <1>2 DEF Crash, LocalInv, MayStand, PatchPCs, FinPCs
      <3> QED BY <3>2, <3>3 DEF TasksOK
    <2> QED BY <1>2, <2>1, <2>2, Frame DEF Crash, PartsOK, profile
  <1>3. ASSUME NEW u \in Uploads, DamageStaging(u) \/ DamageObject(u) PROVE PartsOK'
    <2>1. Damaged \subseteq File \cup {None}
      <3> DEFINE b == [i \in 1 .. Size |-> "bad"]
      <3>1. b \in [1 .. Size -> Chunk] BY DEF Chunk
      <3> HIDE DEF b
      <3>2. b \in File BY <3>1, ConstantsOK DEF File
      <3> QED BY <3>2 DEF Damaged, b
    <2>2. FilesOK' BY <1>3, <2>1 DEF DamageStaging, DamageObject, PartsOK, FilesOK
    <2>3. EnvOK' BY <1>3 DEF DamageStaging, DamageObject, Fault, PartsOK, EnvOK
    <2> QED BY <1>3, <2>2, <2>3, Frame DEF DamageStaging, DamageObject, PartsOK, profile
  <1>4. ASSUME NEW u \in Uploads, Revert(u) PROVE PartsOK'
    <2>1. FilesOK' BY <1>4 DEF Revert, PartsOK, FilesOK
    <2>2. EnvOK' BY <1>4 DEF Revert, Fault, PartsOK, EnvOK
    <2>3. state' \in [Uploads -> States] BY <1>4 DEF Revert, PartsOK, RowsOK, States
    <2> QED BY <1>4, <2>1, <2>2, <2>3, Frame DEF Revert, PartsOK, profile
  <1> QED BY <1>1, <1>2, <1>3, <1>4

\* A commit keeps the types: the lease it needs leaves room for one more version.
LEMMA CommitTypes ==
    ASSUME PartsOK, ChainInv, NEW d \in Devices, NEW u \in Uploads, Commit(d, u)
    PROVE  PartsOK' /\ current + 1 \in Versions
  <1>1. current + 1 \in Versions /\ current + 1 \in Fences
    BY ConstantsOK
       DEF Commit, HeldLease, ChainInv, PartsOK, ProfileOK, Fences, Versions
  <1>2. ProfileOK' BY <1>1 DEF Commit, AfterCommit, PartsOK, ProfileOK
  <1>3. RowsOK' BY <1>1 DEF Commit, PartsOK, RowsOK, States
  <1> QED BY <1>1, <1>2, <1>3, Frame DEF Commit, PartsOK

----------------------------------------------------------------------------
(* The chain of versions.                                                  *)

\* What every step but a lease route and a commit does to the chain: nothing.
Quiet ==
    /\ UNCHANGED <<current, fence, lease, snaps, ledger>>
    /\ \A u \in Uploads : state[u] # "none" => state'[u] # "none" /\ terms'[u] = terms[u]

\* The version numbers of the chain.
LEMMA ChainRows ==
    ASSUME PartsOK, ChainInv, NEW v \in 1 .. current
    PROVE  v \in Versions /\ snaps[v] \in Uploads /\ ChainRow(v)
  <1>1. v \in Versions /\ v <= current
    BY ConstantsOK DEF PartsOK, ProfileOK, Fences, Versions
  <1> QED BY <1>1 DEF ChainInv, PartsOK, RowsOK

\* A quiet step keeps the chain, and FencedLog does not see it.
LEMMA QuietChain ==
    ASSUME PartsOK, ChainInv, Quiet
    PROVE  ChainInv' /\ UNCHANGED Log!vars
  <1>1. \A v \in 1 .. current : terms'[snaps[v]] = terms[snaps[v]] /\ state'[snaps[v]] # "none"
    BY ChainRows DEF Quiet, ChainRow
  <1>2. current \in Nat BY ConstantsOK DEF PartsOK, ProfileOK, Fences
  <1>3. ASSUME NEW v \in Versions, snaps[v] # None PROVE ChainRow(v)'
    <2>1. v \in 1 .. current BY <1>2, <1>3, ConstantsOK DEF ChainInv, Versions
    <2>2. \A w \in 1 .. v - 1 : w \in 1 .. current BY <1>2, <2>1
    <2>3. ChainRow(v) BY <2>1, ChainRows
    <2> QED BY <1>1, <2>1, <2>2, <2>3 DEF ChainRow, Quiet
  <1>4. ChainInv'
    BY <1>3 DEF ChainInv, LeaseIsCurrent, Quiet
  <1>5. [v \in 1 .. current |-> terms[snaps[v]].fence]' = [v \in 1 .. current |-> terms[snaps[v]].fence]
    BY <1>1 DEF Quiet
  <1>6. UNCHANGED Log!vars
    BY <1>5 DEF Quiet, Log!vars
  <1> QED BY <1>4, <1>6

\* A grant takes the next fence over the current version.
LEMMA GrantChain ==
    ASSUME PartsOK, ChainInv, NEW d \in Devices, fence + 1 \in Fences, Grant(d, fence + 1),
           UNCHANGED <<current, rows>>
    PROVE  ChainInv' /\ Log!Grant
  <1>1. current \in Nat /\ fence \in Nat BY ConstantsOK DEF PartsOK, ProfileOK, Fences
  <1>2. lease' # None /\ lease'.fence = fence + 1 /\ lease'.base = current /\ fence' = fence + 1
    <2>1. lease' \in Lease BY ConstantsOK DEF Grant, Lease, PartsOK, ProfileOK
    <2>2. lease' # None BY <2>1, NoneIsNew
    <2> QED BY <2>2 DEF Grant
  <1>3. ASSUME NEW v \in Versions, snaps[v] # None PROVE ChainRow(v)'
    <2>1. ChainRow(v) BY <1>3 DEF ChainInv
    <2>2. snaps[v] \in Uploads BY <1>3 DEF PartsOK, RowsOK
    <2>3. terms[snaps[v]].fence \in Nat
      BY <2>2, ConstantsOK DEF PartsOK, RowsOK, Terms, Fences
    <2> QED BY <1>1, <1>2, <2>1, <2>3 DEF ChainRow, rows
  <1>4. ChainInv'
    BY <1>1, <1>2, <1>3 DEF ChainInv, LeaseIsCurrent, rows
  <1>5. Log!Grant
    BY <1>2 DEF Log!Grant, rows
  <1> QED BY <1>4, <1>5

\* A lease route keeps the chain and is a step of FencedLog, or none.
LEMMA LeaseChain ==
    ASSUME PartsOK, ChainInv, LeaseStep
    PROVE  ChainInv' /\ [Log!Next]_(Log!vars) /\ UNCHANGED current
  <1>0. current \in Nat /\ fence \in Nat BY ConstantsOK DEF PartsOK, ProfileOK, Fences
  <1>1. ASSUME NEW d \in Devices, Publish(d)
        PROVE  ChainInv' /\ Log!Grant /\ UNCHANGED current
    <2>1. fence + 1 \in Fences /\ fence + 1 = 1 BY <1>1, ConstantsOK DEF Publish, Fences
    <2> QED BY <1>1, <2>1, GrantChain DEF Publish
  <1>2. ASSUME NEW d \in Devices, Checkout(d)
        PROVE  ChainInv' /\ Log!Grant /\ UNCHANGED current
    <2>1. fence + 1 \in Fences BY <1>2, ConstantsOK DEF Checkout, Fences
    <2> QED BY <1>2, <2>1, GrantChain DEF Checkout, NextFence
  <1>3. ASSUME NEW d \in Devices, Renew(d)
        PROVE  ChainInv' /\ UNCHANGED Log!vars /\ UNCHANGED current
    <2>1. lease \in Lease BY <1>3 DEF Renew, PartsOK, ProfileOK
    <2>2. now + LeaseTTL \in Nat BY ConstantsOK DEF PartsOK, ProfileOK
    <2>3. lease' \in Lease /\ lease'.fence = lease.fence /\ lease'.base = lease.base
      BY <1>3, <2>1, <2>2 DEF Renew, Lease
    <2>4. lease # None /\ lease' # None BY <2>1, <2>3, NoneIsNew
    <2>5. UNCHANGED <<current, fence, rows>> BY <1>3 DEF Renew
    <2>6. \A v \in Versions : ChainRow(v) => ChainRow(v)' BY <2>4, <2>5 DEF ChainRow, rows
    <2>7. ChainInv' BY <2>3, <2>4, <2>5, <2>6 DEF ChainInv, LeaseIsCurrent, rows
    <2>8. UNCHANGED Log!vars BY <2>3, <2>4, <2>5 DEF Log!vars, rows
    <2> QED BY <2>5, <2>7, <2>8
  <1>4. ASSUME (\E d \in Devices : Release(d)) \/ ForceExpire
        PROVE  ChainInv' /\ Log!Lose /\ UNCHANGED current
    <2>1. lease' = None /\ UNCHANGED <<current, fence, rows>> BY <1>4 DEF Release, ForceExpire
    <2>2. \A v \in Versions : ChainRow(v) => ChainRow(v)' BY <2>1 DEF ChainRow, rows
    <2>3. ChainInv' BY <2>1, <2>2 DEF ChainInv, LeaseIsCurrent, rows
    <2>4. Log!Lose BY <2>1 DEF Log!Lose, rows
    <2> QED BY <2>1, <2>3, <2>4
  <1> QED BY <1>1, <1>2, <1>3, <1>4 DEF LeaseStep, Log!Next

\* A commit extends the chain by the upload of the newest fence.
LEMMA CommitChain ==
    ASSUME PartsOK, ChainInv, NEW d \in Devices, NEW u \in Uploads, Commit(d, u)
    PROVE  /\ ChainInv' /\ Log!Extend
           /\ current' = current + 1 /\ snaps'[current'] = u /\ terms[u].fence = fence
           /\ lease # None /\ lease.expires > now
  <1>0. current \in Nat /\ fence \in Nat BY ConstantsOK DEF PartsOK, ProfileOK, Fences
  <1>1. current + 1 \in Versions BY CommitTypes
  <1>2. lease # None /\ terms[u].fence = fence /\ terms[u].base = current /\ lease.fence = fence
        /\ current < fence /\ lease.expires > now
    BY DEF Commit, HeldLease, ChainInv, LeaseIsCurrent
  <1>3. \A v \in 1 .. current : snaps[v] # u /\ terms[snaps[v]].fence < fence
    BY <1>0, <1>2, ChainRows DEF ChainRow
  <1>4. /\ current' = current + 1 /\ fence' = fence /\ lease' = None /\ terms' = terms
        /\ snaps'[current + 1] = u
        /\ \A v \in Versions : v # current + 1 => snaps'[v] = snaps[v]
        /\ state'[u] = "COMMITTED" /\ \A x \in Uploads : x # u => state'[x] = state[x]
        /\ ledger'[u] = current + 1 /\ \A x \in Uploads : x # u => ledger'[x] = ledger[x]
    BY <1>1 DEF Commit, AfterCommit, PartsOK, RowsOK
  <1>5. \A v \in Versions : v <= current + 1 <=> snaps'[v] # None
    BY <1>0, <1>4, NoneIsNew, ConstantsOK DEF ChainInv, Versions
  <1>6. ASSUME NEW v \in Versions, snaps'[v] # None PROVE ChainRow(v)'
    <2>1. v \in 1 .. current + 1 BY <1>0, <1>5, <1>6, ConstantsOK DEF Versions
    <2>2. \A w \in 1 .. v - 1 : w \in 1 .. current /\ w \in Versions /\ snaps'[w] = snaps[w]
      BY <1>0, <1>1, <1>4, <2>1, ConstantsOK DEF Versions
    <2>3. CASE v = current + 1
      <3>1. snaps'[v] = u BY <1>4, <2>3
      <3>2. u \in Uploads /\ state'[u] # "none" /\ ledger'[u] = v /\ terms'[u].base = v - 1
        BY <1>0, <1>2, <1>4, <2>3
      <3>3. \A w \in 1 .. v - 1 : terms'[snaps'[w]].fence < terms'[u].fence
        BY <1>2, <1>3, <1>4, <2>2
      <3>4. terms'[u].fence <= fence' BY <1>0, <1>2, <1>4
      <3> QED BY <1>4, <3>1, <3>2, <3>3, <3>4 DEF ChainRow
    <2>4. CASE v # current + 1
      <3>1. v \in 1 .. current BY <1>0, <2>1, <2>4
      <3>2. ChainRow(v) /\ snaps[v] \in Uploads BY <3>1, ChainRows
      <3>3. snaps'[v] = snaps[v] /\ snaps[v] # u BY <1>3, <1>4, <2>4, <3>1
      <3>4. state'[snaps[v]] = state[snaps[v]] /\ ledger'[snaps[v]] = ledger[snaps[v]]
        BY <1>4, <3>2, <3>3
      <3> QED BY <1>4, <2>2, <3>2, <3>3, <3>4 DEF ChainRow
    <2> QED BY <2>3, <2>4
  <1>7. ChainInv'
    BY <1>0, <1>2, <1>4, <1>5, <1>6 DEF ChainInv, LeaseIsCurrent
  <1>8. Log!Extend
    <2> DEFINE log == [v \in 1 .. current |-> terms[snaps[v]].fence]
    <2>1. [v \in 1 .. current |-> terms[snaps[v]].fence]'
          = [v \in 1 .. current + 1 |-> IF v <= current THEN log[v] ELSE fence]
      <3>1. \A v \in 1 .. current + 1 :
              terms'[snaps'[v]].fence = IF v <= current THEN log[v] ELSE fence
        <4>1. ASSUME NEW v \in 1 .. current + 1, v <= current
              PROVE  terms'[snaps'[v]].fence = log[v]
          <5>1. v \in 1 .. current /\ v \in Versions /\ v # current + 1
            BY <1>0, <1>1, <4>1, ConstantsOK DEF Versions
          <5> QED BY <1>4, <5>1
        <4>2. ASSUME NEW v \in 1 .. current + 1, ~(v <= current)
              PROVE  terms'[snaps'[v]].fence = fence
          <5>1. v = current + 1 BY <1>0, <4>2
          <5> QED BY <1>2, <1>4, <5>1
        <4> QED BY <4>1, <4>2
      <3> QED BY <1>4, <3>1
    <2> QED BY <1>0, <1>2, <1>4, <2>1 DEF Log!Extend
  <1> QED BY <1>2, <1>4, <1>7, <1>8

\* Everything else is quiet.
LEMMA OtherStepsQuiet ==
    ASSUME PartsOK,
           \/ \E r \in Reqs : Request_(r) \/ Work(r) \/ Drop(r)
           \/ Startup
           \/ \E u \in Uploads : SettleFails(u) \/ DamageStaging(u) \/ DamageObject(u) \/ Revert(u)
           \/ Tick \/ Crash
    PROVE  Quiet
  <1>1. ASSUME NEW r \in Reqs, NEW d \in Devices, NEW u \in Uploads, CreateUpload(r, d, u)
        PROVE  Quiet
    <2>1. \A x \in Uploads : x # u => terms'[x] = terms[x]
      BY <1>1 DEF CreateUpload, NewUpload, PartsOK, RowsOK
    <2>2. \A x \in Uploads : state[x] # "none" => state'[x] # "none" /\ x # u
      BY <1>1 DEF CreateUpload
    <2> QED BY <1>1, <2>1, <2>2 DEF CreateUpload, profile, Quiet
  <1>2. ASSUME NEW r \in Reqs, NEW d \in Devices, NEW u \in Uploads,
               FinalizeBegin(r, d, u) \/ Abort(r, d, u)
        PROVE  Quiet
    BY <1>2 DEF FinalizeBegin, Abort, profile, Quiet, PartsOK, RowsOK
  <1>3. ASSUME NEW r \in Reqs, NEW d \in Devices, NEW u \in Uploads, NEW c \in Chunk,
               PatchBegin(r, d, u, c)
        PROVE  Quiet
    BY <1>3 DEF PatchBegin, profile, rows, Quiet
  <1>4. ASSUME NEW r \in Reqs,
               RemoveStaging(r) \/ PatchWrite(r) \/ PatchRefused(r) \/ PatchCut(r)
               \/ Promote(r) \/ Drop(r)
        PROVE  Quiet
    BY <1>4 DEF RemoveStaging, PatchWrite, PatchRefused, PatchCut, Promote, Drop,
                profile, rows, Quiet
  <1>5. ASSUME NEW r \in Reqs, PatchRecord(r) PROVE Quiet
    BY <1>5 DEF PatchRecord, profile, Quiet
  <1>6. ASSUME NEW r \in Reqs, PatchQuarantine(r) \/ FinalizeReady(r) \/ FinalizeRefused(r)
        PROVE  Quiet
    BY <1>6 DEF PatchQuarantine, FinalizeReady, FinalizeRefused, Quarantine,
                profile, Quiet, PartsOK, RowsOK
  <1>7. ASSUME NEW u \in Uploads,
               SettleKeep(u) \/ SettlePromote(u) \/ SettleDrop(u)
               \/ DamageStaging(u) \/ DamageObject(u)
        PROVE  Quiet
    BY <1>7 DEF SettleKeep, SettlePromote, SettleDrop, DamageStaging, DamageObject,
                profile, rows, Quiet
  <1>8. ASSUME NEW u \in Uploads, SettleQuarantine(u) \/ SettleFails(u) PROVE Quiet
    BY <1>8 DEF SettleQuarantine, SettleFails, Hold, profile, Quiet, PartsOK, RowsOK
  <1>9. ASSUME NEW u \in Uploads, SettleReady(u) \/ SettleCommit(u) \/ Revert(u) PROVE Quiet
    BY <1>9 DEF SettleReady, SettleCommit, Revert, profile, Quiet, PartsOK, RowsOK
  <1>10. ASSUME Gc PROVE Quiet BY <1>10 DEF Gc, profile, Quiet
  <1>11. ASSUME Start \/ Open \/ Tick \/ Crash PROVE Quiet
    BY <1>11 DEF Start, Open, Tick, Crash, profile, rows, Quiet
  <1> QED
    BY <1>1, <1>2, <1>3, <1>4, <1>5, <1>6, <1>7, <1>8, <1>9, <1>10, <1>11
    DEF Request_, Work, Startup, Settle

----------------------------------------------------------------------------
(* The theorems.                                                           *)

\* The inductive invariant holds at first.
LEMMA InitInv == Init => Inv
  <1> SUFFICES ASSUME Init PROVE Inv OBVIOUS
  <1>1. ProfileOK BY ConstantsOK DEF Init, ProfileOK, Fences
  <1>2. NoTerms \in Terms BY ConstantsOK DEF NoTerms, Terms, Fences
  <1>3. RowsOK
    BY <1>2, KnownFiles, ConstantsOK DEF Init, RowsOK, States, Fences
  <1>4. FilesOK BY DEF Init, FilesOK
  <1>5. TasksOK
    <2>1. "idle" \in PCs BY DEF PCs
    <2>2. pc \in [Reqs -> PCs] /\ reqs \in [Reqs -> Request] BY <2>1, IdleLocals DEF Init
    <2>3. LocalInv BY DEF Init, LocalInv, MayStand, PatchPCs, FinPCs
    <2> QED BY <2>2, <2>3 DEF Init, TasksOK
  <1>6. EnvOK BY DEF Init, EnvOK
  <1>7. ChainInv
    BY ConstantsOK DEF Init, ChainInv, LeaseIsCurrent, Versions
  <1> QED BY <1>1, <1>3, <1>4, <1>5, <1>6, <1>7, PartsAreTypeOK DEF PartsOK, Inv

\* Every step keeps the inductive invariant, is a step of FencedLog or none, and
\* moves the version only as CommitIsFenced says.
LEMMA StepInv ==
    ASSUME Inv, [Next]_vars
    PROVE  /\ Inv' /\ [Log!Next]_(Log!vars)
           /\ current' # current =>
                /\ current' = current + 1
                /\ lease # None /\ lease.expires > now
                /\ terms[snaps'[current']].fence = fence
  <1>0. PartsOK /\ ChainInv BY PartsAreTypeOK DEF Inv
  <1> DEFINE Goal == /\ PartsOK' /\ ChainInv' /\ [Log!Next]_(Log!vars)
                     /\ current' # current =>
                          /\ current' = current + 1
                          /\ lease # None /\ lease.expires > now
                          /\ terms[snaps'[current']].fence = fence
  <1>1. ASSUME LeaseStep PROVE Goal
    BY <1>0, <1>1, LeaseTypes, LeaseChain
  <1>2. ASSUME NEW d \in Devices, NEW u \in Uploads, Commit(d, u) PROVE Goal
    <2>1. PartsOK' BY <1>0, <1>2, CommitTypes
    <2>2. /\ ChainInv' /\ Log!Extend
          /\ current' = current + 1 /\ snaps'[current'] = u /\ terms[u].fence = fence
          /\ lease # None /\ lease.expires > now
      BY <1>0, <1>2, CommitChain
    <2> QED BY <2>1, <2>2 DEF Log!Next
  <1>3. ASSUME \/ \E r \in Reqs : Request_(r) \/ Work(r) \/ Drop(r)
               \/ Startup
               \/ \E u \in Uploads : SettleFails(u) \/ DamageStaging(u) \/ DamageObject(u) \/ Revert(u)
               \/ Tick \/ Crash
        PROVE  Goal
    <2>1. Quiet BY <1>0, <1>3, OtherStepsQuiet
    <2>2. PartsOK' BY <1>0, <1>3, RequestTypes, WorkTypes, StartupTypes, WorldTypes
    <2>3. UNCHANGED current BY <2>1 DEF Quiet
    <2>4. ChainInv' /\ UNCHANGED Log!vars BY <1>0, <2>1, QuietChain
    <2> QED BY <2>2, <2>3, <2>4
  <1>4. ASSUME UNCHANGED vars PROVE Goal
    <2>1. Quiet BY <1>4 DEF vars, profile, rows, Quiet
    <2>2. PartsOK' BY <1>0, <1>4, Frame DEF vars, profile, PartsOK
    <2>3. UNCHANGED current BY <2>1 DEF Quiet
    <2>4. ChainInv' /\ UNCHANGED Log!vars BY <1>0, <2>1, QuietChain
    <2> QED BY <2>2, <2>3, <2>4
  <1>5. Goal BY <1>1, <1>2, <1>3, <1>4 DEF Next
  <1>6. PartsOK' => TypeOK' /\ LocalInv' BY PartsAreTypeOK, PTL
  <1> QED BY <1>5, <1>6 DEF Inv

\* The inductive invariant.
THEOREM Invariance == Spec => []Inv
  <1>1. Init => Inv BY InitInv
  <1>2. Inv /\ [Next]_vars => Inv' BY StepInv
  <1> QED BY <1>1, <1>2, PTL DEF Spec

\* Every variable keeps its type.
THEOREM TypeCorrect == Spec => []TypeOK
  <1>1. Inv => TypeOK BY DEF Inv
  <1> QED BY <1>1, Invariance, PTL

\* A lease in v2_profile_leases holds the newest fence and the newest version.
THEOREM LeaseCurrent == Spec => []LeaseIsCurrent
  <1>1. Inv => LeaseIsCurrent BY DEF Inv, ChainInv
  <1> QED BY <1>1, Invariance, PTL

\* The rows of v2_snapshots form one chain under growing fences, and a retried
\* commit gets the receipt of its own version.
THEOREM OneChain == Spec => []FencedHistory
  <1>1. ASSUME Inv PROVE FencedHistory
    <2>1. ChainInv BY <1>1 DEF Inv
    <2>2. ASSUME NEW v \in Versions, snaps[v] # None
          PROVE  /\ terms[snaps[v]].base = v - 1
                 /\ ReplayOf(snaps[v]) \in (IF snaps[v] \in held THEN {0} ELSE {v})
                 /\ \A w \in 1 .. v - 1 : terms[snaps[w]].fence < terms[snaps[v]].fence
      <3>1. ChainRow(v) BY <2>1, <2>2 DEF ChainInv
      <3>2. ledger[snaps[v]] = v BY <3>1 DEF ChainRow
      <3>3. ReplayOf(snaps[v]) \in (IF snaps[v] \in held THEN {0} ELSE {v})
        BY <3>2 DEF ReplayOf
      <3> QED BY <3>1, <3>3 DEF ChainRow
    <2> QED BY <2>1, <2>2 DEF FencedHistory, ChainInv
  <1> QED BY <1>1, Invariance, PTL

\* commit_upload moves the version only under the live lease of the newest fence.
THEOREM CommitsFenced == Spec => CommitIsFenced
  <1>1. Inv /\ [Next]_vars =>
          [current' # current =>
             /\ current' = current + 1
             /\ lease # None /\ lease.expires > now
             /\ terms[snaps'[current']].fence = fence]_vars
    BY StepInv
  <1> QED BY <1>1, Invariance, PTL DEF Spec, CommitIsFenced

\* The routes, the handlers, crashes and recovery implement FencedLog.
THEOREM Refinement == Spec => ImplementsLog
  <1>1. Init => Log!Init
    BY DEF Init, Log!Init
  <1>2. Inv /\ [Next]_vars => [Log!Next]_(Log!vars) BY StepInv
  <1> QED BY <1>1, <1>2, Invariance, PTL DEF Spec, ImplementsLog, Log!Spec

----------------------------------------------------------------------------
(* The upload slot of a lease.                                             *)

InSlot == {"OPEN", "FINALIZING"}

\* No upload enters a slot, and none in a slot changes its lease.
NoNewSlot ==
    \A u \in Uploads : state'[u] \in InSlot => state[u] \in InSlot /\ terms'[u] = terms[u]

\* No step brings a fault-free state back, and the steps of the environment
\* that do damage are faults.
LEMMA FaultFree ==
    ASSUME PartsOK, [Next]_vars, faults' = 0
    PROVE  /\ faults = 0
           /\ \A u \in Uploads : ~SettleFails(u) /\ ~DamageStaging(u) /\ ~DamageObject(u) /\ ~Revert(u)
  <1>1. \A u \in Uploads : ~SettleFails(u) /\ ~DamageStaging(u) /\ ~DamageObject(u) /\ ~Revert(u)
    BY DEF SettleFails, DamageStaging, DamageObject, Revert, Fault, PartsOK, EnvOK
  <1>2. faults' = faults
    <2>1. ASSUME NEW r \in Reqs, Request_(r) PROVE faults' = faults
      BY <2>1 DEF Request_, CreateUpload, FinalizeBegin, Abort, PatchBegin, env
    <2>2. ASSUME NEW r \in Reqs, Work(r) \/ Drop(r) PROVE faults' = faults
      BY <2>2 DEF Work, RemoveStaging, PatchWrite, PatchRecord, PatchQuarantine, PatchRefused,
                  PatchCut, Promote, FinalizeReady, FinalizeRefused, Drop, env
    <2>3. ASSUME Startup PROVE faults' = faults
      BY <2>3 DEF Startup, Start, Gc, Open, Settle, SettleKeep, SettleQuarantine,
                  SettlePromote, SettleReady, SettleCommit, SettleDrop, Settled, NextRound, env
    <2>4. ASSUME \/ LeaseStep \/ Tick \/ Crash \/ UNCHANGED vars
                 \/ \E d \in Devices, u \in Uploads : Commit(d, u)
          PROVE  faults' = faults
      BY <2>4 DEF LeaseStep, Publish, Checkout, Renew, Release, ForceExpire, Tick, Crash, Commit,
                  vars, env
    <2> QED BY <1>1, <2>1, <2>2, <2>3, <2>4 DEF Next
  <1> QED BY <1>1, <1>2

\* While nothing is damaged, only CREATE_UPLOAD puts an upload into a slot.
LEMMA OnlyCreateTakesSlot ==
    ASSUME PartsOK, faults' = 0, [Next]_vars,
           ~\E r \in Reqs, d \in Devices, u \in Uploads : CreateUpload(r, d, u)
    PROVE  NoNewSlot
  <1>0. state \in [Uploads -> States] BY DEF PartsOK, RowsOK
  <1>1. ~Fault /\ \A u \in Uploads : ~SettleFails(u)
    BY DEF PartsOK, EnvOK, Fault, SettleFails
  <1>2. ASSUME LeaseStep PROVE NoNewSlot
    BY <1>2 DEF LeaseStep, Publish, Checkout, Renew, Release, ForceExpire, rows, NoNewSlot
  <1>3. ASSUME NEW r \in Reqs, NEW d \in Devices, NEW u \in Uploads,
               FinalizeBegin(r, d, u) \/ Abort(r, d, u)
        PROVE  NoNewSlot
    BY <1>0, <1>3 DEF FinalizeBegin, Abort, NoNewSlot, InSlot
  <1>4. ASSUME NEW r \in Reqs, NEW d \in Devices, NEW u \in Uploads, NEW c \in Chunk,
               PatchBegin(r, d, u, c)
        PROVE  NoNewSlot
    BY <1>4 DEF PatchBegin, rows, NoNewSlot
  <1>5. ASSUME NEW r \in Reqs,
               RemoveStaging(r) \/ PatchWrite(r) \/ PatchRefused(r) \/ PatchCut(r)
               \/ Promote(r) \/ Drop(r) \/ PatchRecord(r)
        PROVE  NoNewSlot
    BY <1>5 DEF RemoveStaging, PatchWrite, PatchRefused, PatchCut, Promote, Drop, PatchRecord,
                rows, NoNewSlot
  <1>6. ASSUME NEW r \in Reqs, PatchQuarantine(r) \/ FinalizeReady(r) \/ FinalizeRefused(r)
        PROVE  NoNewSlot
    BY <1>0, <1>6 DEF PatchQuarantine, FinalizeReady, FinalizeRefused, Quarantine,
                      NoNewSlot, InSlot
  <1>7. ASSUME NEW d \in Devices, NEW u \in Uploads, Commit(d, u) PROVE NoNewSlot
    BY <1>0, <1>7 DEF Commit, NoNewSlot, InSlot
  <1>8. ASSUME NEW u \in Uploads, SettleKeep(u) \/ SettlePromote(u) \/ SettleDrop(u)
        PROVE  NoNewSlot
    BY <1>8 DEF SettleKeep, SettlePromote, SettleDrop, rows, NoNewSlot
  <1>9. ASSUME NEW u \in Uploads, SettleQuarantine(u) \/ SettleReady(u) \/ SettleCommit(u)
        PROVE  NoNewSlot
    BY <1>0, <1>9 DEF SettleQuarantine, Hold, SettleReady, SettleCommit, NoNewSlot, InSlot
  <1>10. ASSUME Gc PROVE NoNewSlot BY <1>10 DEF Gc, NoNewSlot, InSlot
  <1>11. ASSUME Start \/ Open \/ Tick \/ Crash \/ UNCHANGED vars PROVE NoNewSlot
    BY <1>11 DEF Start, Open, Tick, Crash, vars, rows, NoNewSlot
  <1>12. \A u \in Uploads : ~DamageStaging(u) /\ ~DamageObject(u) /\ ~Revert(u)
    BY <1>1 DEF DamageStaging, DamageObject, Revert
  <1> QED
    BY <1>1, <1>2, <1>3, <1>4, <1>5, <1>6, <1>7, <1>8, <1>9, <1>10, <1>11, <1>12
    DEF Next, Request_, Work, Startup, Settle

\* A lease has at most one OPEN or FINALIZING upload while no file or row is
\* damaged (UPLOAD_CAPACITY in create_upload).
THEOREM OneSlot == Spec => []OneUploadPerLease
  <1>1. Init => OneUploadPerLease
    BY DEF Init, OneUploadPerLease
  <1>2. ASSUME Inv, OneUploadPerLease, [Next]_vars PROVE OneUploadPerLease'
    <2> SUFFICES ASSUME faults' = 0 PROVE OneUploadPerLease' BY DEF OneUploadPerLease
    <2>0. PartsOK BY <1>2, PartsAreTypeOK DEF Inv
    <2>3. faults = 0 BY <1>2, <2>0, FaultFree
    <2>1. ASSUME NEW r \in Reqs, NEW d \in Devices, NEW u \in Uploads, CreateUpload(r, d, u)
          PROVE  OneUploadPerLease'
      <3>1. terms'[u].fence = lease.fence /\ \A x \in Uploads : x # u => terms'[x] = terms[x]
        BY <2>0, <2>1 DEF CreateUpload, NewUpload, PartsOK, RowsOK
      <3>2. \A x \in Uploads : x # u /\ state'[x] \in InSlot =>
              x \notin Expired /\ state'[x] = state[x]
        BY <2>1 DEF CreateUpload, InSlot
      <3>3. \A x \in Uploads : x # u /\ state'[x] \in InSlot => terms[x].fence # lease.fence
        BY <2>1, <3>2 DEF CreateUpload, Busy, InSlot
      <3> QED BY <1>2, <2>3, <3>1, <3>2, <3>3 DEF OneUploadPerLease, InSlot
    <2>2. ASSUME NoNewSlot PROVE OneUploadPerLease'
      BY <1>2, <2>2, <2>3 DEF OneUploadPerLease, NoNewSlot, InSlot
    <2> QED BY <1>2, <2>0, <2>1, <2>2, OnlyCreateTakesSlot
  <1> QED BY <1>1, <1>2, Invariance, PTL DEF Spec

----------------------------------------------------------------------------
(* Handlers and the states of their uploads.                               *)

\* The uploads a handler works on.
WorksOn(r) == ({reqs[r].upload} \cup reqs[r].sweep) \cap Uploads

\* What a handler may rely on between its transactions, because it is the one
\* writer of its uploads and handlers run only while the server serves.
HandlerOK(r) ==
    /\ WorksOn(r) \subseteq writers
    /\ pc[r] = "idle" => reqs[r] = Idle
    /\ pc[r] # "idle" => mode = "serving"
    /\ pc[r] \in PatchPCs => /\ reqs[r].sweep = {}
                             /\ state[reqs[r].upload] = "OPEN"
                             /\ reqs[r].at = Offset(reqs[r].upload)
    /\ pc[r] \in FinPCs => reqs[r].sweep = {} /\ state[reqs[r].upload] = "FINALIZING"
    /\ pc[r] = "remove" => /\ reqs[r].upload = None
                           /\ \A u \in reqs[r].sweep : state[u] = "ABORTED"

HandlerInv ==
    /\ \A r \in Reqs : HandlerOK(r)
    /\ \A r, x \in Reqs : r # x => WorksOn(r) \cap WorksOn(x) = {}

\* The states the startup pass looks at.
Pending == {"OPEN", "FINALIZING", "READY", "COMMITTED"}

\* The pass has not touched an upload it still has to settle.
TodoInv == \A u \in todo : u \notin held /\ state[u] \in Pending

\* The bytes behind the rows and behind the steps of the handlers.
UploadBytes(u) ==
    /\ state[u] = "none" => object[u] = None /\ chunks[u] = <<>>
    /\ object[u] # None => staging[u] = None
    /\ state[u] = "OPEN" =>
         object[u] = None /\ Len(Bytes(u)) >= Offset(u) /\ SubSeq(Bytes(u), 1, Offset(u)) = chunks[u]
    /\ state[u] = "FINALIZING" => Offset(u) = Size /\ Candidate(u) = chunks[u]
    /\ state[u] \in {"READY", "COMMITTED"} => object[u] = Whole

HandlerBytes(r) ==
    LET u == reqs[r].upload IN
    /\ pc[r] # "patch_short"
    /\ pc[r] = "patch_tx" => staging[u] = Append(chunks[u], reqs[r].chunk)
    /\ pc[r] = "fin_ready" => object[u] = Whole
    /\ pc[r] = "fin_refuse" => chunks[u] # Whole

BytesInv ==
    faults = 0 => (\A u \in Uploads : UploadBytes(u)) /\ (\A r \in Reqs : HandlerBytes(r))

\* The client sent bytes that are not the ones its terms promise.
HasBad(u) == \E i \in 1 .. Offset(u) : chunks[u][i] = "bad"

\* Only such an upload is quarantined, only it can be held, and the receipts are
\* those of the COMMITTED uploads.
CauseOf(u) ==
    /\ u \in held => state[u] = "QUARANTINED"
    /\ state[u] = "QUARANTINED" => HasBad(u)
    /\ IF state[u] = "COMMITTED" THEN ledger[u] \in 1 .. current /\ snaps[ledger[u]] = u
                                 ELSE ledger[u] = 0

CauseInv == faults = 0 => \A u \in Uploads : CauseOf(u)

\* A version came from the upload.
Versioned(u) == \E v \in Versions : snaps[v] = u

\* What the pass has settled, it would keep.
SettledInv ==
    mode \in {"starting", "gc"} =>
      \A u \in Uploads \ (held \cup todo) : state[u] \in Pending => Verdict(u) = "keep"

\* A version keeps its upload, and while the server serves the versions and the
\* READY uploads that are not quarantined have their whole object.
ServeInv ==
    /\ \A u \in Uploads \ held : Versioned(u) => state[u] \in {"FINALIZING", "READY", "COMMITTED"}
    /\ mode = "serving" =>
         /\ \A u \in Uploads \ held :
              /\ Versioned(u) => state[u] = "COMMITTED"
              /\ state[u] \in {"READY", "COMMITTED"} => object[u] = Whole
         /\ \A r \in Reqs : pc[r] = "fin_ready" => object[reqs[r].upload] = Whole

\* An idle handler works on nothing.
LEMMA IdleWorksOnNothing ==
    ASSUME NEW r, reqs[r] = Idle PROVE WorksOn(r) = {}
  BY NoneIsNew DEF WorksOn, Idle

\* The handlers keep what they rely on when one of them, r, takes a step and
\* nobody touches what the others work on.
LEMMA OthersKeep ==
    ASSUME PartsOK, HandlerInv, NEW r \in Reqs, mode' = mode, HandlerOK(r)',
           \A x \in Reqs \ {r} :
             /\ pc'[x] = pc[x] /\ reqs'[x] = reqs[x]
             /\ WorksOn(r)' \cap WorksOn(x) = {}
             /\ \A u \in WorksOn(x) : u \in writers' /\ state'[u] = state[u] /\ chunks'[u] = chunks[u]
    PROVE  HandlerInv'
  <1>1. \A x \in Reqs \ {r} : WorksOn(x)' = WorksOn(x) BY DEF WorksOn
  <1>2. ASSUME NEW x \in Reqs \ {r} PROVE HandlerOK(x)'
    <2>1. HandlerOK(x) /\ MayStand(pc[x], reqs[x])
      BY DEF HandlerInv, PartsOK, TasksOK, LocalInv
    <2>2. WorksOn(x)' \subseteq writers' BY <1>1, <1>2
    <2>3. \A u \in WorksOn(x) : state'[u] = state[u] /\ chunks'[u] = chunks[u] BY <1>2
    <2>4. pc[x] \in PatchPCs \cup FinPCs => reqs[x].upload \in WorksOn(x)
      BY <2>1 DEF MayStand, WorksOn
    <2>5. reqs[x].sweep \subseteq WorksOn(x) BY DEF WorksOn, PartsOK, TasksOK, Request
    <2>6. pc'[x] = pc[x] /\ reqs'[x] = reqs[x] BY <1>2
    <2> QED BY <2>1, <2>2, <2>3, <2>4, <2>5, <2>6 DEF HandlerOK, Offset
  <1>3. \A x, y \in Reqs : x # y => WorksOn(x)' \cap WorksOn(y)' = {}
    BY <1>1 DEF HandlerInv
  <1> QED BY <1>2, <1>3 DEF HandlerInv

\* The same when nobody takes a step.
LEMMA AllKeep ==
    ASSUME PartsOK, HandlerInv, mode' = mode, UNCHANGED tasks,
           \A x \in Reqs : \A u \in WorksOn(x) : state'[u] = state[u] /\ chunks'[u] = chunks[u]
    PROVE  HandlerInv'
  <1>1. \A x \in Reqs : WorksOn(x)' = WorksOn(x) BY DEF WorksOn, tasks
  <1>2. ASSUME NEW x \in Reqs PROVE HandlerOK(x)'
    <2>1. HandlerOK(x) /\ MayStand(pc[x], reqs[x])
      BY DEF HandlerInv, PartsOK, TasksOK, LocalInv
    <2>4. pc[x] \in PatchPCs \cup FinPCs => reqs[x].upload \in WorksOn(x)
      BY <2>1 DEF MayStand, WorksOn
    <2>5. reqs[x].sweep \subseteq WorksOn(x) BY DEF WorksOn, PartsOK, TasksOK, Request
    <2> QED BY <1>1, <2>1, <2>4, <2>5 DEF HandlerOK, Offset, tasks
  <1> QED BY <1>1, <1>2 DEF HandlerInv

\* Without handlers there is nothing to keep.
LEMMA NobodyKeeps ==
    ASSUME \A x \in Reqs : pc'[x] = "idle" /\ reqs'[x] = Idle
    PROVE  HandlerInv'
  <1>1. \A x \in Reqs : WorksOn(x)' = {} BY NoneIsNew DEF WorksOn, Idle
  <1>2. \A x \in Reqs : HandlerOK(x)' BY <1>1 DEF HandlerOK, PatchPCs, FinPCs
  <1> QED BY <1>1, <1>2 DEF HandlerInv

\* A handler that ends drops what it worked on and no more.
LEMMA DoneKeeps ==
    ASSUME PartsOK, HandlerInv, NEW r \in Reqs, mode' = mode, Done(r),
           \A x \in Reqs \ {r} : \A u \in WorksOn(x) : state'[u] = state[u] /\ chunks'[u] = chunks[u]
    PROVE  HandlerInv'
  <1>1. pc'[r] = "idle" /\ reqs'[r] = Idle BY DEF Done, PartsOK, TasksOK
  <1>2. WorksOn(r)' = {} BY <1>1, NoneIsNew DEF WorksOn, Idle
  <1>3. HandlerOK(r)' BY <1>1, <1>2 DEF HandlerOK, PatchPCs, FinPCs
  <1>4. \A x \in Reqs \ {r} : pc'[x] = pc[x] /\ reqs'[x] = reqs[x] BY DEF Done, PartsOK, TasksOK
  <1>5. \A x \in Reqs \ {r} : \A u \in WorksOn(x) : u \in writers'
    BY DEF Done, HandlerInv, HandlerOK, WorksOn
  <1> QED BY <1>2, <1>3, <1>4, <1>5, OthersKeep

\* A PATCH that goes on keeps what it works on ...
LEMMA PatchGoesOn ==
    ASSUME PartsOK, HandlerInv, NEW r \in Reqs, mode' = mode, state' = state, chunks' = chunks,
           pc[r] \in PatchPCs, NEW p \in PatchPCs, Goto(r, p)
    PROVE  HandlerInv'
  <1>1. pc'[r] = p /\ reqs' = reqs /\ writers' = writers BY DEF Goto, PartsOK, TasksOK
  <1>2. \A x \in Reqs : WorksOn(x)' = WorksOn(x) BY <1>1 DEF WorksOn
  <1>3. HandlerOK(r)'
    BY <1>1, <1>2 DEF HandlerInv, HandlerOK, PatchPCs, FinPCs, Offset
  <1>4. \A x \in Reqs \ {r} : pc'[x] = pc[x] /\ reqs'[x] = reqs[x]
    BY <1>1 DEF Goto, PartsOK, TasksOK
  <1>5. \A x \in Reqs \ {r} : WorksOn(r)' \cap WorksOn(x) = {} BY <1>2 DEF HandlerInv
  <1>6. \A x \in Reqs \ {r} : \A u \in WorksOn(x) : u \in writers'
    BY <1>1 DEF HandlerInv, HandlerOK
  <1> QED BY <1>3, <1>4, <1>5, <1>6, OthersKeep

\* ... and so does a FINALIZE.
LEMMA FinalizeGoesOn ==
    ASSUME PartsOK, HandlerInv, NEW r \in Reqs, mode' = mode, state' = state, chunks' = chunks,
           pc[r] \in FinPCs, NEW p \in FinPCs, Goto(r, p)
    PROVE  HandlerInv'
  <1>1. pc'[r] = p /\ reqs' = reqs /\ writers' = writers BY DEF Goto, PartsOK, TasksOK
  <1>2. \A x \in Reqs : WorksOn(x)' = WorksOn(x) BY <1>1 DEF WorksOn
  <1>3. HandlerOK(r)'
    BY <1>1, <1>2 DEF HandlerInv, HandlerOK, PatchPCs, FinPCs, Offset
  <1>4. \A x \in Reqs \ {r} : pc'[x] = pc[x] /\ reqs'[x] = reqs[x]
    BY <1>1 DEF Goto, PartsOK, TasksOK
  <1>5. \A x \in Reqs \ {r} : WorksOn(r)' \cap WorksOn(x) = {} BY <1>2 DEF HandlerInv
  <1>6. \A x \in Reqs \ {r} : \A u \in WorksOn(x) : u \in writers'
    BY <1>1 DEF HandlerInv, HandlerOK
  <1> QED BY <1>3, <1>4, <1>5, <1>6, OthersKeep

\* A handler that begins takes uploads nobody works on.
LEMMA TakeKeeps ==
    ASSUME PartsOK, HandlerInv, NEW r \in Reqs, mode' = mode,
           NEW us \in SUBSET Uploads, NEW p, NEW q, Take(r, us, p, q),
           us \cap writers = {}, ({q.upload} \cup q.sweep) \cap Uploads = us, HandlerOK(r)',
           \A u \in writers : state'[u] = state[u] /\ chunks'[u] = chunks[u]
    PROVE  HandlerInv'
  <1>1. pc'[r] = p /\ reqs'[r] = q /\ writers' = writers \cup us BY DEF Take, PartsOK, TasksOK
  <1>2. WorksOn(r)' = us BY <1>1 DEF WorksOn
  <1>3. \A x \in Reqs \ {r} : pc'[x] = pc[x] /\ reqs'[x] = reqs[x] BY DEF Take, PartsOK, TasksOK
  <1>4. \A x \in Reqs \ {r} : WorksOn(x) \subseteq writers BY DEF HandlerInv, HandlerOK
  <1> QED BY <1>1, <1>2, <1>3, <1>4, OthersKeep

\* An upload somebody works on has a row that is neither READY nor settled.
LEMMA WorkedOn ==
    ASSUME PartsOK, HandlerInv, NEW x \in Reqs, NEW u \in WorksOn(x)
    PROVE  /\ u \in writers /\ u \in Uploads /\ state[u] \in {"OPEN", "FINALIZING", "ABORTED"}
           /\ mode = "serving" /\ pc[x] # "idle"
           /\ pc[x] \in PatchPCs => u = reqs[x].upload
           /\ pc[x] \in FinPCs => u = reqs[x].upload
           /\ pc[x] = "remove" => u \in reqs[x].sweep
  <1>1. HandlerOK(x) /\ pc[x] \in PCs BY DEF HandlerInv, PartsOK, TasksOK
  <1>2. pc[x] # "idle" BY <1>1, IdleWorksOnNothing DEF HandlerOK
  <1>3. pc[x] \in PatchPCs \/ pc[x] \in FinPCs \/ pc[x] = "remove"
    BY <1>1, <1>2 DEF PCs, PatchPCs, FinPCs
  <1>4. u \in writers /\ u \in Uploads /\ mode = "serving" BY <1>1, <1>2 DEF HandlerOK, WorksOn
  <1>5. pc[x] \in PatchPCs => u = reqs[x].upload /\ state[u] = "OPEN" BY <1>1 DEF HandlerOK, WorksOn
  <1>6. pc[x] \in FinPCs => u = reqs[x].upload /\ state[u] = "FINALIZING"
    BY <1>1 DEF HandlerOK, WorksOn
  <1>7. pc[x] = "remove" => u \in reqs[x].sweep /\ state[u] = "ABORTED"
    BY <1>1, <1>4, NoneIsNew DEF HandlerOK, WorksOn
  <1> QED BY <1>2, <1>3, <1>4, <1>5, <1>6, <1>7

\* A route of the lease, the clock and damage do not touch the handlers or the
\* states of uploads; a commit touches a READY upload, which nobody works on.
LEMMA WorldHandlers ==
    ASSUME PartsOK, HandlerInv,
           \/ LeaseStep \/ Tick \/ Crash
           \/ \E d \in Devices, u \in Uploads : Commit(d, u)
           \/ \E u \in Uploads : DamageStaging(u) \/ DamageObject(u) \/ Revert(u)
    PROVE  HandlerInv'
  <1>1. ASSUME LeaseStep \/ Tick PROVE HandlerInv'
    <2>1. mode' = mode /\ UNCHANGED tasks /\ UNCHANGED <<state, chunks>>
      BY <1>1 DEF LeaseStep, Publish, Checkout, Renew, Release, ForceExpire, Tick, env, rows
    <2> QED BY <2>1, AllKeep
  <1>2. ASSUME NEW d \in Devices, NEW u \in Uploads, Commit(d, u) PROVE HandlerInv'
    <2>1. mode' = mode /\ UNCHANGED tasks /\ UNCHANGED chunks BY <1>2 DEF Commit, env
    <2>2. \A w \in Uploads : state[w] # "READY" => state'[w] = state[w]
      BY <1>2 DEF Commit, PartsOK, RowsOK
    <2>3. \A x \in Reqs : \A w \in WorksOn(x) : state'[w] = state[w] BY <2>2, WorkedOn
    <2> QED BY <2>1, <2>3, AllKeep
  <1>3. ASSUME NEW u \in Uploads, DamageStaging(u) \/ DamageObject(u) PROVE HandlerInv'
    <2>1. mode' = mode /\ UNCHANGED tasks /\ UNCHANGED <<state, chunks>>
      BY <1>3 DEF DamageStaging, DamageObject, rows
    <2> QED BY <2>1, AllKeep
  <1>4. ASSUME NEW u \in Uploads, Revert(u) PROVE HandlerInv'
    <2>1. mode = "down" /\ mode' = mode /\ UNCHANGED tasks /\ UNCHANGED chunks BY <1>4 DEF Revert
    <2>2. \A x \in Reqs : WorksOn(x) = {} BY <2>1, WorkedOn
    <2> QED BY <2>1, <2>2, AllKeep
  <1>5. ASSUME Crash PROVE HandlerInv'
    BY <1>5, NobodyKeeps DEF Crash
  <1> QED BY <1>1, <1>2, <1>3, <1>4, <1>5

\* The pass runs while there are no handlers.
LEMMA StartupHandlers ==
    ASSUME PartsOK, HandlerInv, Startup \/ \E u \in Uploads : SettleFails(u)
    PROVE  HandlerInv'
  <1>1. mode # "serving" /\ UNCHANGED tasks
    BY DEF Startup, Start, Gc, Open, Settle, SettleFails, SettleKeep, SettleQuarantine,
           SettlePromote, SettleReady, SettleCommit, SettleDrop, Settling
  <1>2. \A x \in Reqs : pc[x] = "idle" /\ reqs[x] = Idle BY <1>1 DEF HandlerInv, HandlerOK
  <1> QED BY <1>1, <1>2, NobodyKeeps DEF tasks

\* The first step of a handler takes an upload with no other writer.
LEMMA RequestHandlers ==
    ASSUME PartsOK, HandlerInv, NEW r \in Reqs, Request_(r)
    PROVE  HandlerInv'
  <1>1. ASSUME NEW d \in Devices, NEW u \in Uploads, CreateUpload(r, d, u) PROVE HandlerInv'
    <2>1. mode' = mode /\ UNCHANGED chunks /\ mode = "serving"
      BY <1>1 DEF CreateUpload, env, Step, Serving
    <2>2. \A w \in Uploads : w # u /\ w \notin Expired => state'[w] = state[w]
      BY <1>1 DEF CreateUpload
    <2>3. Expired \cap writers = {} /\ Expired \in SUBSET Uploads BY DEF Expired, FreeUpload
    <2>4. \A x \in Reqs : \A w \in WorksOn(x) : w \in writers /\ state'[w] = state[w]
      <3>1. state[u] = "none" BY <1>1 DEF CreateUpload
      <3> QED BY <2>2, <2>3, <3>1, WorkedOn
    <2>5. CASE Expired = {}
      BY <1>1, <2>1, <2>4, <2>5, AllKeep DEF CreateUpload
    <2>6. CASE Expired # {}
      <3> DEFINE q == [Idle EXCEPT !.sweep = Expired]
      <3>1. q.upload = None /\ q.sweep = Expired BY DEF Idle
      <3>2. Take(r, Expired, "remove", q) BY <1>1, <2>6 DEF CreateUpload
      <3> HIDE DEF q
      <3>3. pc'[r] = "remove" /\ reqs'[r] = q /\ writers' = writers \cup Expired
        BY <3>2 DEF Take, PartsOK, TasksOK
      <3>4. ({q.upload} \cup q.sweep) \cap Uploads = Expired BY <2>3, <3>1, NoneIsNew
      <3>5. \A w \in Expired : state'[w] = "ABORTED"
        BY <1>1 DEF CreateUpload, Expired
      <3>6. WorksOn(r)' = Expired BY <3>3, <3>4 DEF WorksOn
      <3>7. HandlerOK(r)'
        BY <2>1, <3>1, <3>3, <3>5, <3>6 DEF HandlerOK, PatchPCs, FinPCs
      <3>8. \A x \in Reqs \ {r} : pc'[x] = pc[x] /\ reqs'[x] = reqs[x]
        BY <3>2 DEF Take, PartsOK, TasksOK
      <3>9. \A x \in Reqs \ {r} : WorksOn(r)' \cap WorksOn(x) = {}
        BY <2>3, <2>4, <3>6
      <3>10. \A x \in Reqs \ {r} : \A w \in WorksOn(x) :
               w \in writers' /\ state'[w] = state[w] /\ chunks'[w] = chunks[w]
        BY <2>1, <2>4, <3>3
      <3> QED BY <2>1, <3>7, <3>8, <3>9, <3>10, OthersKeep
    <2> QED BY <2>5, <2>6
  <1>2. ASSUME NEW d \in Devices, NEW u \in Uploads, FinalizeBegin(r, d, u) PROVE HandlerInv'
    <2> DEFINE q == [Idle EXCEPT !.dev = d, !.upload = u]
    <2>1. q.upload = u /\ q.sweep = {} BY DEF Idle
    <2>2. Take(r, {u}, "fin_promote", q) /\ mode' = mode /\ UNCHANGED chunks /\ mode = "serving"
      BY <1>2 DEF FinalizeBegin, env, Step, Serving
    <2> HIDE DEF q
    <2>3. pc'[r] = "fin_promote" /\ reqs'[r] = q /\ writers' = writers \cup {u}
      BY <2>2 DEF Take, PartsOK, TasksOK
    <2>4. u \notin writers /\ state'[u] = "FINALIZING" /\ \A w \in Uploads : w # u => state'[w] = state[w]
      BY <1>2 DEF FinalizeBegin, FreeUpload, PartsOK, RowsOK
    <2>5. writers \in SUBSET Uploads BY DEF PartsOK, TasksOK
    <2>6. WorksOn(r)' = {u} BY <2>1, <2>3 DEF WorksOn
    <2>7. HandlerOK(r)'
      BY <2>1, <2>2, <2>3, <2>4, <2>6 DEF HandlerOK, PatchPCs, FinPCs
    <2> QED BY <2>1, <2>2, <2>4, <2>5, <2>7, TakeKeeps
  <1>3. ASSUME NEW d \in Devices, NEW u \in Uploads, Abort(r, d, u) PROVE HandlerInv'
    <2> DEFINE q == [Idle EXCEPT !.sweep = {u}]
    <2>1. q.upload = None /\ q.sweep = {u} BY DEF Idle
    <2>2. Take(r, {u}, "remove", q) /\ mode' = mode /\ UNCHANGED chunks /\ mode = "serving"
      BY <1>3 DEF Abort, env, Step, Serving
    <2> HIDE DEF q
    <2>3. pc'[r] = "remove" /\ reqs'[r] = q /\ writers' = writers \cup {u}
      BY <2>2 DEF Take, PartsOK, TasksOK
    <2>4. u \notin writers /\ state'[u] = "ABORTED" /\ \A w \in Uploads : w # u => state'[w] = state[w]
      BY <1>3 DEF Abort, FreeUpload, PartsOK, RowsOK
    <2>5. writers \in SUBSET Uploads BY DEF PartsOK, TasksOK
    <2>6. ({q.upload} \cup q.sweep) \cap Uploads = {u} BY <2>1, NoneIsNew
    <2>7. WorksOn(r)' = {u} BY <2>3, <2>6 DEF WorksOn
    <2>8. HandlerOK(r)'
      BY <2>1, <2>2, <2>3, <2>4, <2>7 DEF HandlerOK, PatchPCs, FinPCs
    <2> QED BY <2>2, <2>4, <2>5, <2>6, <2>8, TakeKeeps
  <1>4. ASSUME NEW d \in Devices, NEW u \in Uploads, NEW c \in Chunk, PatchBegin(r, d, u, c)
        PROVE  HandlerInv'
    <2> DEFINE q == [Idle EXCEPT !.dev = d, !.upload = u, !.at = Offset(u), !.chunk = c]
    <2>1. q.upload = u /\ q.sweep = {} /\ q.at = Offset(u) BY DEF Idle
    <2>2. Take(r, {u}, "patch_write", q) /\ mode' = mode /\ UNCHANGED <<state, chunks>> /\ mode = "serving"
      BY <1>4 DEF PatchBegin, env, rows, Step, Serving
    <2> HIDE DEF q
    <2>3. pc'[r] = "patch_write" /\ reqs'[r] = q /\ writers' = writers \cup {u}
      BY <2>2 DEF Take, PartsOK, TasksOK
    <2>4. u \notin writers /\ state[u] = "OPEN"
      BY <1>4 DEF PatchBegin, FreeUpload, Writable
    <2>5. WorksOn(r)' = {u} BY <2>1, <2>3 DEF WorksOn
    <2>6. HandlerOK(r)'
      BY <2>1, <2>2, <2>3, <2>4, <2>5 DEF HandlerOK, PatchPCs, FinPCs, Offset
    <2> QED BY <2>1, <2>2, <2>4, <2>6, TakeKeeps
  <1> QED BY <1>1, <1>2, <1>3, <1>4 DEF Request_

\* The middle of a handler touches its own upload only.
LEMMA WorkHandlers ==
    ASSUME PartsOK, HandlerInv, NEW r \in Reqs, Work(r) \/ Drop(r)
    PROVE  HandlerInv'
  <1>0. mode' = mode /\ mode = "serving"
    BY DEF Work, Drop, RemoveStaging, PatchWrite, PatchRecord, PatchQuarantine, PatchRefused,
           PatchCut, Promote, FinalizeReady, FinalizeRefused, Step, Serving, env
  <1>00. \A x \in Reqs \ {r} : WorksOn(r) \cap WorksOn(x) = {} BY DEF HandlerInv
  <1>01. pc[r] \in PatchPCs \cup FinPCs => reqs[r].upload \in WorksOn(r)
    BY Locals DEF WorksOn
  <1>1. ASSUME RemoveStaging(r) PROVE HandlerInv'
    <2>1. PICK u \in reqs[r].sweep : IF reqs[r].sweep = {u} THEN Done(r)
               ELSE /\ reqs' = [reqs EXCEPT ![r].sweep = @ \ {u}]
                    /\ writers' = writers \ {u}
                    /\ UNCHANGED pc
      BY <1>1 DEF RemoveStaging
    <2>2. UNCHANGED <<state, chunks>> /\ pc[r] = "remove" BY <1>1 DEF RemoveStaging, rows, Step
    <2>3. CASE reqs[r].sweep = {u} BY <1>0, <2>1, <2>2, <2>3, DoneKeeps
    <2>4. CASE reqs[r].sweep # {u}
      <3> DEFINE q == [reqs[r] EXCEPT !.sweep = @ \ {u}]
      <3>1. q.upload = reqs[r].upload /\ q.sweep = reqs[r].sweep \ {u} BY Locals DEF Request
      <3>2. reqs' = [reqs EXCEPT ![r] = q] /\ writers' = writers \ {u} /\ pc' = pc BY <2>1, <2>4
      <3> HIDE DEF q
      <3>3. reqs'[r] = q /\ \A x \in Reqs \ {r} : reqs'[x] = reqs[x] BY <3>2 DEF PartsOK, TasksOK
      <3>4. HandlerOK(r) BY DEF HandlerInv
      <3>5. u \in WorksOn(r) BY <2>1 DEF WorksOn, PartsOK, TasksOK, Request
      <3>6. WorksOn(r)' = WorksOn(r) \ {u}
        BY <2>2, <3>1, <3>3, <3>4, NoneIsNew DEF WorksOn, HandlerOK
      <3>7. HandlerOK(r)'
        BY <1>0, <2>2, <3>1, <3>2, <3>3, <3>4, <3>6 DEF HandlerOK, PatchPCs, FinPCs
      <3>8. \A x \in Reqs \ {r} : \A w \in WorksOn(x) : w \in writers'
        BY <1>00, <3>2, <3>5 DEF HandlerInv, HandlerOK
      <3> QED BY <1>0, <1>00, <2>2, <3>2, <3>3, <3>6, <3>7, <3>8, OthersKeep
    <2> QED BY <2>3, <2>4
  <1>2. ASSUME PatchWrite(r) PROVE HandlerInv'
    <2>1. UNCHANGED <<state, chunks>> /\ pc[r] \in PatchPCs BY <1>2 DEF PatchWrite, rows, PatchPCs
    <2>2. CASE Done(r) BY <1>0, <2>1, <2>2, DoneKeeps
    <2>3. CASE \E p \in {"patch_tx", "patch_short"} : Goto(r, p)
      BY <1>0, <2>1, <2>3, PatchGoesOn DEF PatchPCs
    <2> QED BY <1>2, <2>2, <2>3 DEF PatchWrite
  <1>3. ASSUME PatchRecord(r) PROVE HandlerInv'
    <2>1. UNCHANGED state /\ Done(r) /\ reqs[r].upload \in WorksOn(r)
      BY <1>01, <1>3 DEF PatchRecord, Step, PatchPCs
    <2>2. \A w \in Uploads : w # reqs[r].upload => chunks'[w] = chunks[w]
      BY <1>3 DEF PatchRecord, PartsOK, RowsOK
    <2>3. \A x \in Reqs \ {r} : \A w \in WorksOn(x) : chunks'[w] = chunks[w]
      BY <1>00, <2>1, <2>2, WorkedOn
    <2> QED BY <1>0, <2>1, <2>3, DoneKeeps
  <1>4. ASSUME PatchQuarantine(r) \/ FinalizeReady(r) \/ FinalizeRefused(r) PROVE HandlerInv'
    <2>1. UNCHANGED chunks /\ Done(r) /\ reqs[r].upload \in WorksOn(r)
      BY <1>01, <1>4 DEF PatchQuarantine, FinalizeReady, FinalizeRefused, Step, PatchPCs, FinPCs
    <2>2. \A w \in Uploads : w # reqs[r].upload => state'[w] = state[w]
      BY <1>4 DEF PatchQuarantine, FinalizeReady, FinalizeRefused, Quarantine, PartsOK, RowsOK
    <2>3. \A x \in Reqs \ {r} : \A w \in WorksOn(x) : state'[w] = state[w]
      BY <1>00, <2>1, <2>2, WorkedOn
    <2> QED BY <1>0, <2>1, <2>3, DoneKeeps
  <1>5. ASSUME PatchRefused(r) PROVE HandlerInv'
    <2>1. UNCHANGED <<state, chunks>> /\ pc[r] \in PatchPCs /\ Goto(r, "patch_cut")
      BY <1>5 DEF PatchRefused, rows, PatchPCs
    <2> QED BY <1>0, <2>1, PatchGoesOn DEF PatchPCs
  <1>6. ASSUME PatchCut(r) PROVE HandlerInv'
    <2>1. UNCHANGED <<state, chunks>> /\ Done(r) BY <1>6 DEF PatchCut, rows
    <2> QED BY <1>0, <2>1, DoneKeeps
  <1>7. ASSUME Promote(r) PROVE HandlerInv'
    <2>1. UNCHANGED <<state, chunks>> /\ pc[r] \in FinPCs BY <1>7 DEF Promote, rows, FinPCs
    <2>2. CASE Done(r) BY <1>0, <2>1, <2>2, DoneKeeps
    <2>3. CASE \E p \in {"fin_ready", "fin_refuse"} : Goto(r, p)
      BY <1>0, <2>1, <2>3, FinalizeGoesOn DEF FinPCs
    <2> QED BY <1>7, <2>2, <2>3 DEF Promote
  <1>8. ASSUME Drop(r) PROVE HandlerInv'
    <2>1. UNCHANGED <<state, chunks>> BY <1>8 DEF Drop, rows
    <2>2. CASE pc[r] = "patch_write"
      <3>1. Goto(r, "patch_orphan") BY <1>8, <2>2 DEF Drop
      <3> QED BY <1>0, <2>1, <2>2, <3>1, PatchGoesOn DEF PatchPCs
    <2>3. CASE pc[r] = "fin_promote"
      BY <1>0, <1>8, <2>1, <2>3, FinalizeGoesOn DEF Drop, FinPCs
    <2>4. CASE pc[r] \notin {"patch_write", "fin_promote"}
      BY <1>0, <1>8, <2>1, <2>4, DoneKeeps DEF Drop
    <2> QED BY <2>2, <2>3, <2>4
  <1> QED BY <1>1, <1>2, <1>3, <1>4, <1>5, <1>6, <1>7, <1>8 DEF Work

----------------------------------------------------------------------------
(* The table of the pass.                                                  *)

\* A file is found valid exactly when it is the expected object.
LEMMA WholeFiles ==
    ASSUME NEW f
    PROVE  /\ WholeFile(f) \in {"absent", "valid", "invalid"}
           /\ WholeFile(f) = "absent" <=> f = None
           /\ WholeFile(f) = "valid" <=> f = Whole
  BY KnownFiles, NoneIsNew DEF WholeFile

\* What each action of decide() presupposes.
LEMMA Verdicts ==
    ASSUME NEW u
    PROVE  /\ Verdict(u) = "promote" =>
                state[u] = "FINALIZING" /\ (object[u] # None => object[u] = Whole)
           /\ Verdict(u) = "commit" => state[u] = "READY" /\ object[u] = Whole
           /\ Verdict(u) = "drop" => state[u] \in {"READY", "COMMITTED"} /\ object[u] = Whole
           /\ Verdict(u) = "keep" =>
                \/ state[u] = "OPEN" /\ Receipt(u) = "absent"
                   /\ object[u] = None /\ Staged(u) # "invalid"
                \/ state[u] = "READY" /\ Receipt(u) = "absent"
                   /\ object[u] = Whole /\ Staged(u) = "absent"
                \/ state[u] = "COMMITTED" /\ Receipt(u) = "valid"
                   /\ object[u] = Whole /\ Staged(u) = "absent"
  <1> DEFINE r == Receipt(u) i == WholeFile(object[u]) s == Staged(u)
  <1>1. /\ i \in {"absent", "valid", "invalid"}
        /\ i = "absent" <=> object[u] = None
        /\ i = "valid" <=> object[u] = Whole
    BY WholeFiles
  <1>2. r \in {"absent", "valid", "invalid"} BY DEF Receipt
  <1>3. s \in {"absent", "valid", "invalid"} BY WholeFiles DEF Staged, StagedOpen
  <1>4. Verdict(u) = Decide(state[u], r, i, s) BY DEF Verdict
  <1> HIDE DEF r, i, s
  <1>5. CASE state[u] = "OPEN"
    BY <1>1, <1>2, <1>3, <1>4, <1>5 DEF Decide, DecideOpen, r, s
  <1>6. CASE state[u] = "FINALIZING"
    <2>1. Verdict(u) = DecideFinalizing(r, i, s) BY <1>4, <1>6 DEF Decide
    <2>2. Verdict(u) \in {"promote", "quarantine"} BY <2>1 DEF DecideFinalizing
    <2>3. Verdict(u) = "promote" => i # "invalid" BY <2>1 DEF DecideFinalizing
    <2> QED BY <1>1, <1>6, <2>2, <2>3
  <1>7. CASE state[u] = "READY"
    <2>1. Verdict(u) = DecideReady(r, i, s) BY <1>4, <1>7 DEF Decide
    <2>2. Verdict(u) \in {"quarantine", "commit", "keep", "drop"} BY <2>1 DEF DecideReady
    <2>3. Verdict(u) # "quarantine" => i = "valid" /\ r # "invalid" BY <2>1 DEF DecideReady
    <2>4. Verdict(u) = "keep" => r # "valid" /\ s = "absent" BY <2>1 DEF DecideReady
    <2> QED BY <1>1, <1>2, <1>7, <2>2, <2>3, <2>4 DEF r, s
  <1>8. CASE state[u] = "COMMITTED"
    <2>1. Verdict(u) = DecideCommitted(r, i, s) BY <1>4, <1>8 DEF Decide
    <2>2. Verdict(u) \in {"quarantine", "keep", "drop"} BY <2>1 DEF DecideCommitted
    <2>3. Verdict(u) # "quarantine" => i = "valid" /\ r = "valid" BY <2>1 DEF DecideCommitted
    <2>4. Verdict(u) = "keep" => s = "absent" BY <2>1 DEF DecideCommitted
    <2> QED BY <1>1, <1>8, <2>2, <2>3, <2>4 DEF r, s
  <1>9. CASE state[u] \notin Pending
    <2>1. Verdict(u) = "quarantine" BY <1>4, <1>9 DEF Decide, Pending
    <2> QED BY <2>1
  <1> QED BY <1>5, <1>6, <1>7, <1>8, <1>9 DEF Pending

----------------------------------------------------------------------------
(* The states an upload moves through.                                     *)

\* Handlers and commits run while the server serves and leave the pass alone.
LEMMA OnlyWhileServing ==
    ASSUME \/ \E r \in Reqs : Request_(r) \/ Work(r) \/ Drop(r)
           \/ \E d \in Devices, u \in Uploads : Commit(d, u)
    PROVE  mode = "serving" /\ UNCHANGED env
  <1>1. ASSUME NEW r \in Reqs, Request_(r) PROVE mode = "serving" /\ UNCHANGED env
    BY <1>1 DEF Request_, CreateUpload, FinalizeBegin, Abort, PatchBegin, Step, Serving
  <1>2. ASSUME NEW r \in Reqs, Work(r) PROVE mode = "serving" /\ UNCHANGED env
    BY <1>2 DEF Work, RemoveStaging, PatchWrite, PatchRecord, PatchQuarantine, PatchRefused,
                PatchCut, Promote, FinalizeReady, FinalizeRefused, Step, Serving
  <1>3. ASSUME NEW r \in Reqs, Drop(r) PROVE mode = "serving" /\ UNCHANGED env
    BY <1>3 DEF Drop, Serving
  <1>4. ASSUME NEW d \in Devices, NEW u \in Uploads, Commit(d, u)
        PROVE  mode = "serving" /\ UNCHANGED env
    BY <1>4 DEF Commit, Serving
  <1> QED BY <1>1, <1>2, <1>3, <1>4

\* The uploads the pass has before it are not quarantined.
LEMMA TodoStep ==
    ASSUME PartsOK, TodoInv, mode # "starting" => todo = {}, [Next]_vars
    PROVE  TodoInv' /\ (mode' # "starting" => todo' = {})
  <1>1. ASSUME todo' = {} PROVE TodoInv' /\ (mode' # "starting" => todo' = {})
    BY <1>1 DEF TodoInv
  <1>2. ASSUME mode # "starting", todo' = todo PROVE TodoInv' /\ (mode' # "starting" => todo' = {})
    BY <1>1, <1>2
  <1>3. ASSUME NEW u \in Uploads, Settle(u) PROVE TodoInv' /\ (mode' # "starting" => todo' = {})
    <2>0. mode = "starting" /\ u \in todo /\ mode' = mode /\ todo' \subseteq todo
      BY <1>3 DEF Settle, SettleKeep, SettleQuarantine, SettlePromote, SettleReady, SettleCommit,
                  SettleDrop, Settling, Settled, NextRound, env
    <2>1. \A x \in todo' : x # u => x \notin held' /\ state'[x] = state[x]
      BY <1>3, <2>0 DEF TodoInv, Settle, SettleKeep, SettleQuarantine, SettlePromote, SettleReady,
                  SettleCommit, SettleDrop, Hold, rows, PartsOK, RowsOK, EnvOK
    <2>2. u \in todo' => u \notin held' /\ state'[u] \in Pending
      BY <1>3, <2>0 DEF TodoInv, Settle, SettleKeep, SettleQuarantine, SettlePromote, SettleReady,
                  SettleCommit, SettleDrop, Settled, rows, PartsOK, RowsOK, Pending
    <2> QED BY <2>0, <2>1, <2>2 DEF TodoInv
  <1>4. ASSUME NEW u \in Uploads, SettleFails(u) PROVE TodoInv' /\ (mode' # "starting" => todo' = {})
    <2>1. CASE state[u] = "COMMITTED" BY <1>1, <1>4, <2>1 DEF SettleFails
    <2>2. CASE state[u] # "COMMITTED"
      BY <1>4, <2>2 DEF SettleFails, Settling, Hold, TodoInv, PartsOK, RowsOK, EnvOK
    <2> QED BY <2>1, <2>2
  <1>5. ASSUME Gc \/ Crash PROVE TodoInv' /\ (mode' # "starting" => todo' = {})
    <2>1. todo' = {} BY <1>5 DEF Gc, Crash
    <2> QED BY <1>1, <2>1
  <1>6. ASSUME Start PROVE TodoInv' /\ (mode' # "starting" => todo' = {})
    BY <1>6 DEF Start, TodoInv, Pending, rows
  <1>7. ASSUME Open \/ \E u \in Uploads : DamageStaging(u) \/ DamageObject(u) \/ Revert(u)
        PROVE  TodoInv' /\ (mode' # "starting" => todo' = {})
    <2>1. mode # "starting" /\ todo' = todo BY <1>7 DEF Open, DamageStaging, DamageObject, Revert
    <2> QED BY <1>2, <2>1
  <1>8. ASSUME \/ \E r \in Reqs : Request_(r) \/ Work(r) \/ Drop(r)
               \/ \E d \in Devices, u \in Uploads : Commit(d, u)
        PROVE  TodoInv' /\ (mode' # "starting" => todo' = {})
    <2>1. mode = "serving" /\ UNCHANGED env BY <1>8, OnlyWhileServing
    <2> QED BY <1>2, <2>1 DEF env
  <1>9. ASSUME LeaseStep \/ Tick \/ UNCHANGED vars
        PROVE  TodoInv' /\ (mode' # "starting" => todo' = {})
    BY <1>9 DEF LeaseStep, Publish, Checkout, Renew, Release, ForceExpire, Tick, vars, rows, env,
                TodoInv
  <1> QED BY <1>3, <1>4, <1>5, <1>6, <1>7, <1>8, <1>9 DEF Next, Startup

\* The rounds an upload may still need after this one: FINALIZING, READY and a
\* staging file beside the object cost one each.
RoundsLeft(u) ==
    (IF state[u] = "FINALIZING" THEN 2 ELSE IF state[u] = "READY" THEN 1 ELSE 0)
    + (IF state[u] # "OPEN" /\ staging[u] # None THEN 1 ELSE 0)

RoundsInv ==
    \A u \in Uploads : IF u \in todo THEN rounds[u] + RoundsLeft(u) < STEPS ELSE rounds[u] = 0

\* A round of the pass costs an upload at least one of the rounds it has left.
LEMMA RoundsStep ==
    ASSUME PartsOK, TodoInv, mode # "starting" => todo = {}, RoundsInv, [Next]_vars
    PROVE  RoundsInv'
  <1>1. ASSUME mode # "starting", UNCHANGED <<todo, rounds>> PROVE RoundsInv'
    BY <1>1 DEF RoundsInv
  <1>2. ASSUME UNCHANGED <<todo, rounds, state, staging>> PROVE RoundsInv'
    BY <1>2 DEF RoundsInv, RoundsLeft
  <1>3. ASSUME NEW u \in Uploads, Settle(u) PROVE RoundsInv'
    <2>0. u \in todo /\ rounds \in [Uploads -> Nat] /\ staging \in [Uploads -> File \cup {None}]
          /\ state \in [Uploads -> States]
      BY <1>3 DEF Settle, SettleKeep, SettleQuarantine, SettlePromote, SettleReady, SettleCommit,
                  SettleDrop, Settling, PartsOK, EnvOK, FilesOK, RowsOK
    <2>1. ASSUME NEW y \in Uploads, y # u
          PROVE  /\ rounds'[y] = rounds[y] /\ state'[y] = state[y] /\ staging'[y] = staging[y]
                 /\ y \in todo' <=> y \in todo
      <3>1. rounds'[y] = rounds[y] /\ (y \in todo' <=> y \in todo)
        BY <1>3, <2>0, <2>1 DEF Settle, SettleKeep, SettleQuarantine, SettlePromote, SettleReady,
                    SettleCommit, SettleDrop, Settled, NextRound, env
      <3>2. state'[y] = state[y]
        BY <1>3, <2>0, <2>1 DEF Settle, SettleKeep, SettleQuarantine, SettlePromote, SettleReady,
                    SettleCommit, SettleDrop, Hold, rows
      <3>3. staging'[y] = staging[y]
        BY <1>3, <2>0, <2>1 DEF Settle, SettleKeep, SettleQuarantine, SettlePromote, SettleReady,
                    SettleCommit, SettleDrop, CutTail, Renamed, files
      <3> QED BY <3>1, <3>2, <3>3
    <2>2. IF u \in todo' THEN rounds'[u] + RoundsLeft(u)' < STEPS ELSE rounds'[u] = 0
      <3>0. rounds[u] \in Nat /\ rounds[u] + RoundsLeft(u) < STEPS BY <2>0 DEF RoundsInv
      <3>1. ASSUME SettleKeep(u) \/ SettleQuarantine(u) PROVE u \notin todo' /\ rounds'[u] = 0
        BY <2>0, <3>1 DEF SettleKeep, SettleQuarantine, Settled
      <3>2. ASSUME SettlePromote(u) PROVE rounds'[u] + RoundsLeft(u)' < STEPS
        <4>1. rounds'[u] = rounds[u] /\ state'[u] = state[u] /\ staging'[u] = None
          BY <2>0, <3>2 DEF SettlePromote, Renamed, rows, env
        <4> QED BY <3>0, <4>1 DEF RoundsLeft, STEPS
      <3>3. ASSUME SettleReady(u) \/ SettleCommit(u) PROVE rounds'[u] + RoundsLeft(u)' < STEPS
        <4>1. rounds'[u] = rounds[u] + 1 /\ staging'[u] = staging[u]
          BY <2>0, <3>3 DEF SettleReady, SettleCommit, NextRound, files
        <4>2. \/ state[u] = "FINALIZING" /\ state'[u] = "READY"
              \/ state[u] = "READY" /\ state'[u] = "COMMITTED"
          BY <2>0, <3>3, Verdicts DEF SettleReady, SettleCommit
        <4> QED BY <3>0, <4>1, <4>2 DEF RoundsLeft, STEPS
      <3>4. ASSUME SettleDrop(u) PROVE rounds'[u] + RoundsLeft(u)' < STEPS
        <4>1. rounds'[u] = rounds[u] + 1 /\ staging'[u] = None /\ state'[u] = state[u]
          BY <2>0, <3>4 DEF SettleDrop, NextRound, rows
        <4>2. state[u] \in {"READY", "COMMITTED"} /\ staging[u] # None
          <5>1. Verdict(u) = "drop" /\ state[u] \in {"READY", "COMMITTED"}
            BY <3>4, Verdicts DEF SettleDrop
          <5>2. Staged(u) # "absent"
            BY <5>1 DEF Verdict, Decide, DecideReady, DecideCommitted
          <5> QED BY <5>1, <5>2 DEF Staged, WholeFile
        <4> QED BY <3>0, <4>1, <4>2 DEF RoundsLeft, STEPS
      <3>5. ASSUME ~SettleKeep(u), ~SettleQuarantine(u) PROVE u \in todo'
        BY <1>3, <2>0, <3>5 DEF Settle, SettlePromote, SettleReady, SettleCommit, SettleDrop, NextRound, env
      <3> QED BY <1>3, <3>1, <3>2, <3>3, <3>4, <3>5 DEF Settle
    <2>3. ASSUME NEW y \in Uploads, y # u
          PROVE  IF y \in todo' THEN rounds'[y] + RoundsLeft(y)' < STEPS ELSE rounds'[y] = 0
      BY <2>1, <2>3 DEF RoundsInv, RoundsLeft
    <2> QED BY <2>2, <2>3 DEF RoundsInv
  <1>4. ASSUME NEW u \in Uploads, SettleFails(u) PROVE RoundsInv'
    <2>1. \A y \in todo' : y \in todo /\ y # u
      BY <1>4 DEF SettleFails, PartsOK, EnvOK
    <2>2. \A y \in todo' \cap Uploads : rounds'[y] = rounds[y] /\ state'[y] = state[y] /\ staging' = staging
      BY <1>4, <2>1 DEF SettleFails, Hold, files, PartsOK, RowsOK
    <2>3. \A y \in Uploads \ todo' : rounds'[y] = 0 BY <1>4 DEF SettleFails
    <2> QED BY <2>1, <2>2, <2>3 DEF RoundsInv, RoundsLeft
  <1>5. ASSUME Crash PROVE RoundsInv' BY <1>5 DEF Crash, RoundsInv
  <1>6. ASSUME Start PROVE RoundsInv'
    <2>1. \A u \in Uploads : rounds'[u] = 0 BY <1>6 DEF Start, RoundsInv
    <2>2. \A u \in Uploads : RoundsLeft(u)' \in 0 .. 3 BY DEF RoundsLeft
    <2> QED BY <2>1, <2>2 DEF RoundsInv, STEPS
  <1>7. ASSUME Gc PROVE RoundsInv'
    BY <1>7 DEF Gc, RoundsInv
  <1>8. ASSUME Open \/ \E u \in Uploads : DamageStaging(u) \/ DamageObject(u) \/ Revert(u)
        PROVE  RoundsInv'
    <2>1. mode # "starting" /\ UNCHANGED <<todo, rounds>>
      BY <1>8 DEF Open, DamageStaging, DamageObject, Revert
    <2> QED BY <1>1, <2>1
  <1>9. ASSUME \/ \E r \in Reqs : Request_(r) \/ Work(r) \/ Drop(r)
               \/ \E d \in Devices, u \in Uploads : Commit(d, u)
        PROVE  RoundsInv'
    <2>1. mode # "starting" /\ UNCHANGED env BY <1>9, OnlyWhileServing
    <2> QED BY <1>1, <2>1 DEF env
  <1>10. ASSUME LeaseStep \/ Tick \/ UNCHANGED vars PROVE RoundsInv'
    <2>1. UNCHANGED <<todo, rounds, state, staging>>
      BY <1>10 DEF LeaseStep, Publish, Checkout, Renew, Release, ForceExpire, Tick, vars, rows, files, env
    <2> QED BY <1>2, <2>1
  <1> QED BY <1>3, <1>4, <1>5, <1>6, <1>7, <1>8, <1>9, <1>10 DEF Next, Startup

\* What MovesForward says of one upload in one step.
MoveOK(u) ==
    /\ state'[u] # state[u] => <<state[u], state'[u]>> \in Moves
    /\ state[u] \in {"COMMITTED", "QUARANTINED"} => object'[u] = object[u]
    /\ state[u] = "QUARANTINED" => staging'[u] = staging[u]

\* A step that keeps the states and the files makes no move.
LEMMA StillMoves ==
    ASSUME UNCHANGED <<state, staging, object>> PROVE \A u \in Uploads : MoveOK(u)
  BY DEF MoveOK

\* The first step of a handler.
LEMMA RequestMoves ==
    ASSUME PartsOK, NEW r \in Reqs, Request_(r) PROVE \A u \in Uploads : MoveOK(u)
  <1>1. ASSUME NEW d \in Devices, NEW u \in Uploads, CreateUpload(r, d, u)
        PROVE  \A x \in Uploads : MoveOK(x)
    <2>1. UNCHANGED object /\ state[u] = "none" /\ staging' = [staging EXCEPT ![u] = <<>>]
      BY <1>1 DEF CreateUpload, NewUpload
    <2>2. \A x \in Uploads : \/ state'[x] = state[x]
                             \/ state[x] = "none" /\ state'[x] = "OPEN"
                             \/ state[x] = "OPEN" /\ state'[x] = "ABORTED"
      BY <1>1 DEF CreateUpload, Expired
    <2>3. \A x \in Uploads : x # u => staging'[x] = staging[x] BY <2>1 DEF PartsOK, FilesOK
    <2> QED BY <2>1, <2>2, <2>3 DEF MoveOK, Moves
  <1>2. ASSUME NEW d \in Devices, NEW u \in Uploads, FinalizeBegin(r, d, u) \/ Abort(r, d, u)
        PROVE  \A x \in Uploads : MoveOK(x)
    <2>1. UNCHANGED files BY <1>2 DEF FinalizeBegin, Abort
    <2>2. \A x \in Uploads : \/ state'[x] = state[x]
                             \/ state[x] = "OPEN" /\ state'[x] \in {"FINALIZING", "ABORTED"}
                             \/ state[x] = "READY" /\ state'[x] = "ABORTED"
      BY <1>2 DEF FinalizeBegin, Abort, Abortable, PartsOK, RowsOK
    <2> QED BY <2>1, <2>2 DEF MoveOK, Moves, files
  <1>3. ASSUME NEW d \in Devices, NEW u \in Uploads, NEW c \in Chunk, PatchBegin(r, d, u, c)
        PROVE  \A x \in Uploads : MoveOK(x)
    BY <1>3, StillMoves DEF PatchBegin, rows, files
  <1> QED BY <1>1, <1>2, <1>3 DEF Request_

\* The middle of a handler: its upload is still in the state it began with.
LEMMA WorkMoves ==
    ASSUME PartsOK, HandlerInv, NEW r \in Reqs, Work(r) \/ Drop(r)
    PROVE  \A u \in Uploads : MoveOK(u)
  <1> DEFINE w == reqs[r].upload
  <1>0. HandlerOK(r) BY DEF HandlerInv
  <1>00. pc[r] \in PatchPCs => w \in Uploads /\ state[w] = "OPEN"
    BY <1>0, Locals DEF HandlerOK
  <1>01. pc[r] \in FinPCs => w \in Uploads /\ state[w] = "FINALIZING"
    BY <1>0, Locals DEF HandlerOK
  <1>1. ASSUME RemoveStaging(r) PROVE \A u \in Uploads : MoveOK(u)
    <2>1. PICK u \in reqs[r].sweep, gone \in BOOLEAN :
            staging' = IF gone THEN [staging EXCEPT ![u] = None] ELSE staging
      BY <1>1 DEF RemoveStaging
    <2>2. state[u] = "ABORTED" BY <1>0, <1>1 DEF HandlerOK, RemoveStaging, Step
    <2>3. \A x \in Uploads : x # u => staging'[x] = staging[x] BY <2>1 DEF PartsOK, FilesOK
    <2>4. UNCHANGED <<state, object>> BY <1>1 DEF RemoveStaging, rows
    <2> QED BY <2>2, <2>3, <2>4 DEF MoveOK
  <1>2. ASSUME PatchWrite(r) \/ PatchCut(r) PROVE \A u \in Uploads : MoveOK(u)
    <2>1. pc[r] \in PatchPCs /\ UNCHANGED <<state, object>>
      BY <1>2 DEF PatchWrite, PatchCut, Step, PatchPCs, rows
    <2>2. \A x \in Uploads : x # w => staging'[x] = staging[x]
      BY <1>2 DEF PatchWrite, PatchCut, WriteAt, PartsOK, FilesOK
    <2> QED BY <1>00, <2>1, <2>2 DEF MoveOK
  <1>3. ASSUME PatchRecord(r) \/ PatchRefused(r) \/ Drop(r) PROVE \A u \in Uploads : MoveOK(u)
    <2>1. UNCHANGED <<state, staging, object>>
      BY <1>3 DEF PatchRecord, PatchRefused, Drop, files, rows
    <2> QED BY <2>1, StillMoves
  <1>4. ASSUME PatchQuarantine(r) \/ FinalizeReady(r) \/ FinalizeRefused(r)
        PROVE  \A u \in Uploads : MoveOK(u)
    <2>1. UNCHANGED <<staging, object>> /\ pc[r] \in PatchPCs \cup FinPCs
      BY <1>4 DEF PatchQuarantine, FinalizeReady, FinalizeRefused, files, Step, PatchPCs, FinPCs
    <2>2. \A x \in Uploads : \/ state'[x] = state[x]
                             \/ state[x] \in {"OPEN", "FINALIZING"} /\ state'[x] = "QUARANTINED"
                             \/ state[x] = "FINALIZING" /\ state'[x] = "READY"
      BY <1>00, <1>01, <1>4, <2>1 DEF PatchQuarantine, FinalizeReady, FinalizeRefused, Quarantine,
                                     PartsOK, RowsOK
    <2> QED BY <2>1, <2>2 DEF MoveOK, Moves
  <1>5. ASSUME Promote(r) PROVE \A u \in Uploads : MoveOK(u)
    <2>1. pc[r] \in FinPCs /\ UNCHANGED state BY <1>5 DEF Promote, FinPCs, rows
    <2>2. \A x \in Uploads : x # w => staging'[x] = staging[x] /\ object'[x] = object[x]
      BY <1>5 DEF Promote, Renamed, files, PartsOK, FilesOK
    <2> QED BY <1>01, <2>1, <2>2 DEF MoveOK
  <1> QED BY <1>1, <1>2, <1>3, <1>4, <1>5 DEF Work

\* The pass: what it settles is OPEN, FINALIZING, READY or COMMITTED.
LEMMA StartupMoves ==
    ASSUME PartsOK, TodoInv, Startup PROVE \A u \in Uploads : MoveOK(u)
  <1>1. ASSUME NEW u \in Uploads, SettleKeep(u) \/ SettleQuarantine(u)
        PROVE  \A x \in Uploads : MoveOK(x)
    <2>1. UNCHANGED object /\ state[u] \in Pending
      BY <1>1 DEF SettleKeep, SettleQuarantine, Settling, TodoInv
    <2>2. \A x \in Uploads : \/ state'[x] = state[x]
                             \/ x = u /\ state[x] # "COMMITTED" /\ state'[x] = "QUARANTINED"
      BY <1>1 DEF SettleKeep, SettleQuarantine, Hold, rows, PartsOK, RowsOK
    <2>3. \A x \in Uploads : staging'[x] = staging[x] \/ state[x] = "OPEN"
      BY <1>1 DEF SettleKeep, SettleQuarantine, CutTail, PartsOK, FilesOK
    <2> QED BY <2>1, <2>2, <2>3 DEF MoveOK, Moves, Pending
  <1>2. ASSUME NEW u \in Uploads, SettlePromote(u) PROVE \A x \in Uploads : MoveOK(x)
    <2>1. UNCHANGED state /\ state[u] = "FINALIZING"
      BY <1>2, Verdicts DEF SettlePromote, rows
    <2>2. \A x \in Uploads : x # u => staging'[x] = staging[x] /\ object'[x] = object[x]
      BY <1>2 DEF SettlePromote, Renamed, PartsOK, FilesOK
    <2> QED BY <2>1, <2>2 DEF MoveOK
  <1>3. ASSUME NEW u \in Uploads, SettleReady(u) \/ SettleCommit(u)
        PROVE  \A x \in Uploads : MoveOK(x)
    <2>1. UNCHANGED <<staging, object>> BY <1>3 DEF SettleReady, SettleCommit, files
    <2>2. \A x \in Uploads : \/ state'[x] = state[x]
                             \/ state[x] = "FINALIZING" /\ state'[x] = "READY"
                             \/ state[x] = "READY" /\ state'[x] = "COMMITTED"
      BY <1>3, Verdicts DEF SettleReady, SettleCommit, PartsOK, RowsOK
    <2> QED BY <2>1, <2>2 DEF MoveOK, Moves
  <1>4. ASSUME NEW u \in Uploads, SettleDrop(u) PROVE \A x \in Uploads : MoveOK(x)
    <2>1. UNCHANGED <<state, object>> /\ state[u] \in {"READY", "COMMITTED"}
      BY <1>4, Verdicts DEF SettleDrop, rows
    <2>2. \A x \in Uploads : x # u => staging'[x] = staging[x]
      BY <1>4 DEF SettleDrop, PartsOK, FilesOK
    <2> QED BY <2>1, <2>2 DEF MoveOK
  <1>5. ASSUME Gc PROVE \A x \in Uploads : MoveOK(x)
    BY <1>5 DEF Gc, MoveOK, Moves, files
  <1>6. ASSUME Open PROVE \A x \in Uploads : MoveOK(x)
    BY <1>6 DEF Open, MoveOK, rows
  <1>7. ASSUME Start PROVE \A x \in Uploads : MoveOK(x)
    BY <1>7, StillMoves DEF Start, rows, files
  <1> QED BY <1>1, <1>2, <1>3, <1>4, <1>5, <1>6, <1>7 DEF Startup, Settle

\* Every step without a fault moves every upload forward.
LEMMA ForwardStep ==
    ASSUME PartsOK, HandlerInv, TodoInv, [Next]_vars, faults' = faults
    PROVE  \A u \in Uploads : MoveOK(u)
  <1>1. ASSUME LeaseStep \/ Tick \/ Crash \/ UNCHANGED vars PROVE \A u \in Uploads : MoveOK(u)
    <2>1. UNCHANGED <<state, staging, object>>
      BY <1>1 DEF LeaseStep, Publish, Checkout, Renew, Release, ForceExpire, Tick, Crash, vars,
                  rows, files
    <2> QED BY <2>1, StillMoves
  <1>2. ASSUME NEW d \in Devices, NEW x \in Uploads, Commit(d, x) PROVE \A u \in Uploads : MoveOK(u)
    <2>1. UNCHANGED <<staging, object>> BY <1>2 DEF Commit, files
    <2>2. \A u \in Uploads : \/ state'[u] = state[u]
                             \/ state[u] = "READY" /\ state'[u] = "COMMITTED"
      BY <1>2 DEF Commit, PartsOK, RowsOK
    <2> QED BY <2>1, <2>2 DEF MoveOK, Moves
  <1>3. \A u \in Uploads : ~SettleFails(u) /\ ~DamageStaging(u) /\ ~DamageObject(u) /\ ~Revert(u)
    BY DEF SettleFails, DamageStaging, DamageObject, Revert, Fault, PartsOK, EnvOK
  <1> QED BY <1>1, <1>2, <1>3, RequestMoves, WorkMoves, StartupMoves DEF Next

----------------------------------------------------------------------------
(* The bytes on disk.                                                      *)

AllBytes == (\A u \in Uploads : UploadBytes(u)) /\ (\A r \in Reqs : HandlerBytes(r))

\* Sequences of chunks: a file that holds c at its start, cut there, is c; one
\* more chunk after the cut extends c.
LEMMA Prefixes ==
    ASSUME NEW f \in Seq(Chunk), NEW c \in Seq(Chunk), Len(f) >= Len(c), SubSeq(f, 1, Len(c)) = c,
           NEW x \in Chunk
    PROVE  /\ SubSeq(f, 1, Len(c)) \o <<>> = c
           /\ SubSeq(f, 1, Len(c)) \o <<x>> = Append(c, x)
           /\ Len(f) = Len(c) => f = c
  <1>1. c \o <<>> = c OBVIOUS
  <1>2. c \o <<x>> = Append(c, x) OBVIOUS
  <1>3. Len(f) = Len(c) => f = c
    <2> SUFFICES ASSUME Len(f) = Len(c) PROVE f = c OBVIOUS
    <2>1. SubSeq(f, 1, Len(f)) = f OBVIOUS
    <2> QED BY <2>1
  <1> QED BY <1>1, <1>2, <1>3

\* A sequence starts with itself, and one that was extended with what it was.
LEMMA OwnPrefix ==
    ASSUME NEW c \in Seq(Chunk), NEW x \in Chunk
    PROVE  /\ SubSeq(c, 1, Len(c)) = c
           /\ Append(c, x) \in Seq(Chunk) /\ Len(Append(c, x)) = Len(c) + 1
           /\ SubSeq(Append(c, x), 1, Len(c)) = c
  <1>1. SubSeq(c, 1, Len(c)) = c OBVIOUS
  <1>2. Append(c, x) \in Seq(Chunk) /\ Len(Append(c, x)) = Len(c) + 1 OBVIOUS
  <1>3. SubSeq(Append(c, x), 1, Len(c)) = c
    <2> DEFINE g == Append(c, x) h == SubSeq(g, 1, Len(c))
    <2>1. Len(c) \in Nat /\ Len(g) = Len(c) + 1 /\ g \in Seq(Chunk) OBVIOUS
    <2>2. h \in Seq(Chunk) /\ Len(h) = Len(c) BY <2>1
    <2>3. \A i \in 1 .. Len(c) : h[i] = c[i] BY <2>1
    <2> HIDE DEF g, h
    <2>4. h = c BY <2>2, <2>3
    <2> QED BY <2>4 DEF g, h
  <1> QED BY <1>1, <1>2, <1>3

\* What the types say about an upload's bytes.
LEMMA ByteTypes ==
    ASSUME PartsOK, NEW u \in Uploads
    PROVE  /\ chunks[u] \in File /\ chunks[u] \in Seq(Chunk) /\ Offset(u) \in Nat
           /\ Offset(u) = Len(chunks[u]) /\ Len(chunks[u]) <= Size
           /\ Bytes(u) \in File /\ Bytes(u) \in Seq(Chunk) /\ Len(Bytes(u)) <= Size
           /\ chunks[u] # None /\ Bytes(u) # None
  <1>1. chunks[u] \in File BY DEF PartsOK, RowsOK
  <1>2. Bytes(u) \in File BY KnownFiles DEF Bytes, PartsOK, FilesOK
  <1>3. chunks[u] \in Seq(Chunk) /\ Bytes(u) \in Seq(Chunk) /\ Len(chunks[u]) <= Size
        /\ Len(Bytes(u)) <= Size
    BY <1>1, <1>2, FileIsSeq
  <1>4. Len(chunks[u]) \in Nat BY <1>3
  <1> QED BY <1>1, <1>2, <1>3, <1>4, NoneIsNew DEF Offset

\* An upload nothing happens to keeps its bytes.
LEMMA SameUpload ==
    ASSUME NEW u, UploadBytes(u), state'[u] = state[u] \/ state'[u] \in {"ABORTED", "QUARANTINED"},
           chunks'[u] = chunks[u], staging'[u] = staging[u], object'[u] = object[u]
    PROVE  UploadBytes(u)'
  BY DEF UploadBytes, Bytes, Offset, Candidate

\* A step of the handler r, or of nobody, on the upload w.
LEMMA OneUpload ==
    ASSUME PartsOK, HandlerInv, AllBytes, NEW r \in Reqs, NEW w \in Uploads,
           \A u \in Uploads \ {w} :
             /\ state'[u] = state[u] /\ chunks'[u] = chunks[u]
             /\ staging'[u] = staging[u] /\ object'[u] = object[u],
           \A x \in Reqs \ {r} : pc'[x] = pc[x] /\ reqs'[x] = reqs[x] /\ w \notin WorksOn(x),
           UploadBytes(w)', HandlerBytes(r)'
    PROVE  AllBytes'
  <1>1. \A u \in Uploads : UploadBytes(u)' BY SameUpload DEF AllBytes
  <1>2. ASSUME NEW x \in Reqs \ {r} PROVE HandlerBytes(x)'
    <2>1. HandlerBytes(x) BY DEF AllBytes
    <2>2. pc[x] \in PatchPCs \cup FinPCs => reqs[x].upload \in WorksOn(x)
      BY Locals DEF WorksOn
    <2>3. pc[x] \in PatchPCs \cup FinPCs => reqs[x].upload \in Uploads \ {w}
      BY <2>2 DEF WorksOn
    <2> QED BY <2>1, <2>3 DEF HandlerBytes, PatchPCs, FinPCs
  <1> QED BY <1>1, <1>2 DEF AllBytes

\* A step that touches no row and no file, after which the handlers stand where
\* there is nothing to say about them or where they stood.
LEMMA SameBytes ==
    ASSUME AllBytes, UNCHANGED <<state, chunks, staging, object>>,
           \A x \in Reqs : \/ pc'[x] = pc[x] /\ reqs'[x] = reqs[x]
                           \/ pc'[x] \notin {"patch_short", "patch_tx", "fin_ready", "fin_refuse"}
    PROVE  AllBytes'
  <1>1. \A u \in Uploads : UploadBytes(u)' BY SameUpload DEF AllBytes
  <1>2. \A x \in Reqs : HandlerBytes(x)' BY DEF AllBytes, HandlerBytes
  <1> QED BY <1>1, <1>2 DEF AllBytes

\* The middle of a handler.
LEMMA WorkBytes ==
    ASSUME PartsOK, PartsOK', HandlerInv, AllBytes, NEW r \in Reqs, Work(r) \/ Drop(r),
           NEW q, q = reqs[r], NEW w, w = reqs[r].upload
    PROVE  AllBytes'
  <1>0. HandlerOK(r) /\ HandlerBytes(r) BY DEF HandlerInv, AllBytes
  <1>00. /\ pc[r] \in PatchPCs => /\ w \in Uploads /\ state[w] = "OPEN" /\ q.at = Offset(w)
                                  /\ q.chunk \in Chunk
         /\ pc[r] \in FinPCs => w \in Uploads /\ state[w] = "FINALIZING"
    BY <1>0, Locals DEF HandlerOK, Request
  <1>01. pc[r] \in PatchPCs \cup FinPCs => \A x \in Reqs \ {r} : w \notin WorksOn(x)
    BY <1>00 DEF HandlerInv, WorksOn
  <1>02. w \in Uploads => UploadBytes(w) BY DEF AllBytes
  <1>03. ASSUME Done(r) PROVE HandlerBytes(r)' /\ \A x \in Reqs \ {r} : pc'[x] = pc[x] /\ reqs'[x] = reqs[x]
    BY <1>03 DEF Done, PartsOK, TasksOK, HandlerBytes
  <1>04. ASSUME NEW p, Goto(r, p)
         PROVE pc'[r] = p /\ reqs' = reqs /\ \A x \in Reqs \ {r} : pc'[x] = pc[x] /\ reqs'[x] = reqs[x]
    BY <1>04 DEF Goto, PartsOK, TasksOK
  <1>05. w \in Uploads /\ state[w] = "OPEN" =>
           /\ object[w] = None
           /\ SubSeq(Bytes(w), 1, Offset(w)) \o <<>> = chunks[w]
           /\ \A c \in Chunk : SubSeq(Bytes(w), 1, Offset(w)) \o <<c>> = Append(chunks[w], c)
           /\ CanWriteAt(w, Offset(w))
    <2> SUFFICES ASSUME w \in Uploads, state[w] = "OPEN"
                 PROVE  /\ object[w] = None
                        /\ SubSeq(Bytes(w), 1, Offset(w)) \o <<>> = chunks[w]
                        /\ \A c \in Chunk : SubSeq(Bytes(w), 1, Offset(w)) \o <<c>> = Append(chunks[w], c)
                        /\ CanWriteAt(w, Offset(w))
      OBVIOUS
    <2>1. /\ object[w] = None /\ Len(Bytes(w)) >= Offset(w)
          /\ SubSeq(Bytes(w), 1, Offset(w)) = chunks[w]
      BY <1>02 DEF UploadBytes
    <2>2. chunks[w] \in Seq(Chunk) /\ Bytes(w) \in Seq(Chunk) /\ Offset(w) = Len(chunks[w])
          /\ Offset(w) \in Nat
      BY ByteTypes
    <2>3. SubSeq(Bytes(w), 1, Offset(w)) \o <<>> = chunks[w]
      BY <2>1, <2>2, Prefixes DEF Chunk
    <2>4. ASSUME NEW c \in Chunk
          PROVE  SubSeq(Bytes(w), 1, Offset(w)) \o <<c>> = Append(chunks[w], c)
      <3> DEFINE f == Bytes(w) g == chunks[w]
      <3>1. f \in Seq(Chunk) /\ g \in Seq(Chunk) /\ Len(f) >= Len(g) /\ SubSeq(f, 1, Len(g)) = g
        BY <2>1, <2>2
      <3> HIDE DEF f, g
      <3>2. g \o <<c>> = Append(g, c) BY <3>1
      <3> QED BY <2>1, <3>2 DEF g
    <2>5. CanWriteAt(w, Offset(w))
      BY <2>1, <2>2 DEF CanWriteAt, Bytes
    <2> QED BY <2>1, <2>3, <2>4, <2>5
  <1>1. ASSUME RemoveStaging(r) PROVE AllBytes'
    <2>1. PICK u \in q.sweep, gone \in BOOLEAN :
            /\ staging' = IF gone THEN [staging EXCEPT ![u] = None] ELSE staging
            /\ IF q.sweep = {u} THEN Done(r)
               ELSE /\ reqs' = [reqs EXCEPT ![r].sweep = @ \ {u}]
                    /\ writers' = writers \ {u}
                    /\ UNCHANGED pc
      BY <1>1 DEF RemoveStaging
    <2>2. UNCHANGED <<state, chunks, object>> /\ pc[r] = "remove" BY <1>1 DEF RemoveStaging, rows, Step
    <2>3. u \in Uploads /\ u \in WorksOn(r) /\ state[u] = "ABORTED" /\ UploadBytes(u)
      BY <1>0, <2>1, <2>2 DEF WorksOn, PartsOK, TasksOK, Request, HandlerOK, AllBytes
    <2>4. \A x \in Reqs \ {r} : pc'[x] = pc[x] /\ reqs'[x] = reqs[x] /\ u \notin WorksOn(x)
      BY <2>1, <2>3 DEF Done, PartsOK, TasksOK, HandlerInv
    <2>5. HandlerBytes(r)'
      BY <1>03, <2>1, <2>2 DEF HandlerBytes
    <2>6. \A x \in Uploads \ {u} : staging'[x] = staging[x] BY <2>1 DEF PartsOK, FilesOK
    <2>7. staging'[u] \in {staging[u], None} BY <2>1, <2>3 DEF PartsOK, FilesOK
    <2>8. UploadBytes(u)' BY <2>2, <2>3, <2>7 DEF UploadBytes
    <2> QED BY <2>2, <2>3, <2>4, <2>5, <2>6, <2>8, OneUpload
  <1>2. ASSUME PatchWrite(r) PROVE AllBytes'
    <2>1. pc[r] \in PatchPCs /\ UNCHANGED <<state, chunks, object>>
      BY <1>2 DEF PatchWrite, PatchPCs, rows
    <2>2. WriteAt(w, q.at, <<q.chunk>>) BY <1>2 DEF PatchWrite
    <2>3. staging' = [staging EXCEPT ![w] = Append(chunks[w], q.chunk)]
      BY <1>00, <1>05, <2>1, <2>2 DEF WriteAt, Written
    <2>4. /\ staging'[w] = Append(chunks[w], q.chunk)
          /\ \A x \in Uploads \ {w} : staging'[x] = staging[x]
      BY <1>00, <2>1, <2>3 DEF PartsOK, FilesOK
    <2>5. CASE pc[r] = "patch_orphan"
      <3>1. Done(r) BY <1>2, <2>5 DEF PatchWrite
      <3>2. UploadBytes(w)'
        <4>1. /\ chunks'[w] = chunks[w] /\ object'[w] = None /\ state'[w] = "OPEN"
              /\ Append(chunks[w], q.chunk) # None
          <5>1. Append(chunks[w], q.chunk) = staging'[w] BY <2>4
          <5>2. Append(chunks[w], q.chunk) \in File
            BY <1>00, <2>1, <1>0, AppendFits, ByteTypes, Locals
          <5> QED BY <1>00, <1>05, <2>1, <5>2, NoneIsNew
        <4>2. Bytes(w)' = Append(chunks[w], q.chunk) /\ Offset(w)' = Len(chunks[w])
          BY <2>4, <4>1 DEF Bytes, Offset
        <4>3. Len(Bytes(w)') >= Offset(w)' /\ SubSeq(Bytes(w)', 1, Offset(w)') = chunks[w]
          BY <1>00, <2>1, <4>2, OwnPrefix, ByteTypes
        <4> QED BY <4>1, <4>3 DEF UploadBytes
      <3> QED BY <1>00, <1>01, <1>03, <2>1, <2>4, <3>1, <3>2, OneUpload
    <2>6. CASE pc[r] # "patch_orphan"
      <3>1. Goto(r, "patch_tx") BY <1>00, <1>05, <1>2, <2>1, <2>6 DEF PatchWrite
      <3>2. HandlerBytes(r)' BY <1>04, <2>1, <2>4, <3>1 DEF HandlerBytes
      <3>3. UploadBytes(w)'
        <4>1. /\ chunks'[w] = chunks[w] /\ object'[w] = None /\ state'[w] = "OPEN"
              /\ Append(chunks[w], q.chunk) # None
          <5>2. Append(chunks[w], q.chunk) \in File
            BY <1>00, <2>1, <1>0, AppendFits, ByteTypes, Locals
          <5> QED BY <1>00, <1>05, <2>1, <5>2, NoneIsNew
        <4>2. Bytes(w)' = Append(chunks[w], q.chunk) /\ Offset(w)' = Len(chunks[w])
          BY <2>4, <4>1 DEF Bytes, Offset
        <4>3. Len(Bytes(w)') >= Offset(w)' /\ SubSeq(Bytes(w)', 1, Offset(w)') = chunks[w]
          BY <1>00, <2>1, <4>2, OwnPrefix, ByteTypes
        <4> QED BY <4>1, <4>3 DEF UploadBytes
      <3> QED BY <1>00, <1>01, <1>04, <2>1, <2>4, <3>1, <3>2, <3>3, OneUpload
    <2> QED BY <2>5, <2>6
  <1>3. ASSUME PatchRecord(r) PROVE AllBytes'
    <2>1. pc[r] = "patch_tx" /\ pc[r] \in PatchPCs /\ UNCHANGED <<state, staging, object>> /\ Done(r)
      BY <1>3 DEF PatchRecord, Step, PatchPCs, files
    <2>2. staging[w] = Append(chunks[w], q.chunk) BY <1>0, <2>1 DEF HandlerBytes
    <2>3. /\ chunks'[w] = Append(chunks[w], q.chunk)
          /\ \A x \in Uploads \ {w} : chunks'[x] = chunks[x]
      BY <1>00, <1>3, <2>1 DEF PatchRecord, PartsOK, RowsOK
    <2>4. UploadBytes(w)'
      <3>1. staging'[w] = chunks'[w] /\ chunks'[w] # None /\ chunks'[w] \in Seq(Chunk)
        BY <1>00, <2>1, <2>2, <2>3, ByteTypes, OwnPrefix, NoneIsNew, FileIsSeq DEF PartsOK, RowsOK
      <3>2. Bytes(w)' = chunks'[w] /\ Offset(w)' = Len(chunks'[w]) BY <3>1 DEF Bytes, Offset
      <3>3. SubSeq(Bytes(w)', 1, Offset(w)') = chunks'[w] /\ Len(Bytes(w)') >= Offset(w)'
        BY <3>1, <3>2, OwnPrefix DEF Chunk
      <3> QED BY <1>00, <1>05, <2>1, <3>3 DEF UploadBytes
    <2> QED BY <1>00, <1>01, <1>03, <2>1, <2>3, <2>4, OneUpload
  <1>4. ASSUME PatchQuarantine(r) PROVE AllBytes'
    BY <1>0, <1>4 DEF PatchQuarantine, Step, HandlerBytes
  <1>5. ASSUME PatchRefused(r) PROVE AllBytes'
    <2>1. UNCHANGED <<state, chunks, staging, object>> /\ Goto(r, "patch_cut")
      BY <1>5 DEF PatchRefused, rows, files
    <2> QED BY <1>04, <2>1, SameBytes
  <1>6. ASSUME PatchCut(r) PROVE AllBytes'
    <2>1. pc[r] \in PatchPCs /\ UNCHANGED <<state, chunks, object>> /\ Done(r) /\ WriteAt(w, q.at, <<>>)
      BY <1>6 DEF PatchCut, Step, PatchPCs, rows
    <2>2. staging' = [staging EXCEPT ![w] = chunks[w]]
      BY <1>00, <1>05, <2>1 DEF WriteAt, Written
    <2>3. staging'[w] = chunks[w] /\ \A x \in Uploads \ {w} : staging'[x] = staging[x]
      BY <1>00, <2>1, <2>2 DEF PartsOK, FilesOK
    <2>4. UploadBytes(w)'
      <3>1. chunks[w] # None /\ chunks[w] \in Seq(Chunk) BY <1>00, <2>1, ByteTypes
      <3>2. Bytes(w)' = chunks[w] /\ Offset(w)' = Len(chunks[w]) BY <2>1, <2>3, <3>1 DEF Bytes, Offset
      <3>3. SubSeq(Bytes(w)', 1, Offset(w)') = chunks[w] /\ Len(Bytes(w)') >= Offset(w)'
        BY <3>1, <3>2, OwnPrefix DEF Chunk
      <3> QED BY <1>00, <1>05, <2>1, <3>3 DEF UploadBytes
    <2> QED BY <1>00, <1>01, <1>03, <2>1, <2>3, <2>4, OneUpload
  <1>7. ASSUME Promote(r) PROVE AllBytes'
    <2>1. pc[r] \in FinPCs /\ UNCHANGED <<state, chunks>> BY <1>7 DEF Promote, FinPCs, rows
    <2>2. w \in Uploads /\ state[w] = "FINALIZING" /\ Candidate(w) = chunks[w] /\ Offset(w) = Size
          /\ (object[w] # None => staging[w] = None)
      BY <1>00, <1>02, <2>1 DEF UploadBytes
    <2>3. Candidate(w) # None BY <2>2, ByteTypes
    <2>4. CASE Candidate(w) = Whole
      <3>1. Renamed(w) BY <1>7, <2>4 DEF Promote
      <3>2. /\ object'[w] = Whole /\ (object[w] = None => staging'[w] = None)
            /\ (object[w] # None => staging'[w] = staging[w])
            /\ \A x \in Uploads \ {w} : staging'[x] = staging[x] /\ object'[x] = object[x]
        BY <2>2, <2>4, <3>1 DEF Renamed, PartsOK, FilesOK
      <3>3. UploadBytes(w)'
        BY <2>1, <2>2, <2>3, <2>4, <3>2 DEF UploadBytes, Candidate, Offset
      <3>4. HandlerBytes(r)' /\ \A x \in Reqs \ {r} : pc'[x] = pc[x] /\ reqs'[x] = reqs[x]
        <4>1. CASE Done(r) BY <1>03, <4>1
        <4>2. CASE Goto(r, "fin_ready") BY <1>04, <3>2, <4>2 DEF HandlerBytes
        <4> QED BY <1>7, <2>4, <4>1, <4>2 DEF Promote
      <3> QED BY <1>01, <2>1, <2>2, <3>2, <3>3, <3>4, OneUpload
    <2>5. CASE Candidate(w) # Whole
      <3>1. UNCHANGED <<staging, object>> BY <1>7, <2>5 DEF Promote, files
      <3>2. UploadBytes(w)' BY <1>02, <2>1, <2>2, <3>1, SameUpload
      <3>3. HandlerBytes(r)' /\ \A x \in Reqs \ {r} : pc'[x] = pc[x] /\ reqs'[x] = reqs[x]
        <4>1. CASE Done(r) BY <1>03, <4>1
        <4>2. CASE Goto(r, "fin_refuse") BY <1>04, <2>1, <2>2, <2>5, <4>2 DEF HandlerBytes
        <4> QED BY <1>7, <2>5, <4>1, <4>2 DEF Promote
      <3> QED BY <1>01, <2>1, <2>2, <3>1, <3>2, <3>3, OneUpload
    <2> QED BY <2>4, <2>5
  <1>8. ASSUME FinalizeReady(r) \/ FinalizeRefused(r) PROVE AllBytes'
    <2>1. pc[r] \in FinPCs /\ UNCHANGED <<chunks, staging, object>> /\ Done(r)
      BY <1>8 DEF FinalizeReady, FinalizeRefused, Step, FinPCs, files
    <2>2. /\ state'[w] = "QUARANTINED" \/ (state'[w] = "READY" /\ object[w] = Whole)
          /\ \A x \in Uploads \ {w} : state'[x] = state[x]
      <3>1. w \in Uploads /\ state[w] = "FINALIZING" /\ state \in [Uploads -> States]
        BY <1>00, <2>1 DEF PartsOK, RowsOK
      <3>2. CASE FinalizeReady(r)
        <4>1. state' = [state EXCEPT ![w] = "READY"] /\ pc[r] = "fin_ready"
          BY <3>1, <3>2 DEF FinalizeReady, Step
        <4>2. object[w] = Whole BY <1>0, <4>1 DEF HandlerBytes
        <4> QED BY <3>1, <4>1, <4>2
      <3>3. CASE FinalizeRefused(r)
        <4>1. state' = [state EXCEPT ![w] = "QUARANTINED"] BY <3>3 DEF FinalizeRefused, Quarantine
        <4>2. state'[w] = "QUARANTINED" BY <3>1, <4>1
        <4>3. \A x \in Uploads \ {w} : state'[x] = state[x] BY <3>1, <4>1
        <4> QED BY <4>2, <4>3
      <3> QED BY <1>8, <3>2, <3>3
    <2>3. UploadBytes(w)' BY <1>00, <1>02, <2>1, <2>2 DEF UploadBytes
    <2> QED BY <1>00, <1>01, <1>03, <2>1, <2>2, <2>3, OneUpload
  <1>9. ASSUME Drop(r) PROVE AllBytes'
    <2>1. UNCHANGED <<state, chunks, staging, object>> BY <1>9 DEF Drop, rows, files
    <2>2. CASE pc[r] = "patch_write" BY <1>04, <1>9, <2>1, <2>2, SameBytes DEF Drop
    <2>3. CASE pc[r] = "fin_promote" BY <1>04, <1>9, <2>1, <2>3, SameBytes DEF Drop
    <2>4. CASE pc[r] \notin {"patch_write", "fin_promote"}
      <3>1. Done(r) BY <1>9, <2>4 DEF Drop
      <3>2. pc'[r] = "idle" BY <3>1 DEF Done, PartsOK, TasksOK
      <3> QED BY <1>03, <2>1, <3>1, <3>2, SameBytes
    <2> QED BY <2>2, <2>3, <2>4
  <1> QED BY <1>1, <1>2, <1>3, <1>4, <1>5, <1>6, <1>7, <1>8, <1>9 DEF Work

\* Without handlers only the uploads count.
LEMMA NobodyBytes ==
    ASSUME \A x \in Reqs : pc'[x] = "idle", \A u \in Uploads : UploadBytes(u)'
    PROVE  AllBytes'
  BY DEF AllBytes, HandlerBytes

\* The first step of a handler: a new upload is empty, and a complete OPEN one
\* has exactly its chunks in its staging file.
LEMMA RequestBytes ==
    ASSUME PartsOK, PartsOK', HandlerInv, AllBytes, NEW r \in Reqs, Request_(r)
    PROVE  AllBytes'
  <1>1. ASSUME NEW d \in Devices, NEW u \in Uploads, CreateUpload(r, d, u) PROVE AllBytes'
    <2>1. UNCHANGED <<chunks, object>> /\ state[u] = "none" /\ staging' = [staging EXCEPT ![u] = <<>>]
      BY <1>1 DEF CreateUpload, NewUpload
    <2>2. /\ state'[u] = "OPEN"
          /\ \A x \in Uploads \ {u} : state'[x] = state[x] \/ state'[x] = "ABORTED"
      BY <1>1 DEF CreateUpload
    <2>3. /\ staging'[u] = <<>> /\ \A x \in Uploads \ {u} : staging'[x] = staging[x]
      BY <2>1 DEF PartsOK, FilesOK
    <2>4. UploadBytes(u)'
      <3>1. object'[u] = None /\ chunks'[u] = <<>> BY <2>1 DEF AllBytes, UploadBytes
      <3>2. Bytes(u)' = <<>> /\ Offset(u)' = 0 BY <2>3, <3>1 DEF Bytes, Offset
      <3>3. Len(<<>>) = 0 /\ SubSeq(<<>>, 1, 0) = <<>> OBVIOUS
      <3> QED BY <2>2, <3>1, <3>2, <3>3 DEF UploadBytes
    <2>5. \A x \in Uploads : UploadBytes(x)' BY <2>1, <2>2, <2>3, <2>4, SameUpload DEF AllBytes
    <2>6. ASSUME NEW x \in Reqs PROVE HandlerBytes(x)'
      <3>1. HandlerBytes(x) BY DEF AllBytes
      <3>2. CASE pc'[x] = pc[x] /\ reqs'[x] = reqs[x]
        <4>1. pc[x] \in PatchPCs \cup FinPCs => reqs[x].upload \in WorksOn(x) BY Locals DEF WorksOn
        <4>2. pc[x] \in PatchPCs \cup FinPCs => reqs[x].upload \in Uploads \ {u}
          BY <2>1, <4>1, WorkedOn DEF WorksOn
        <4> QED BY <2>1, <2>3, <3>1, <3>2, <4>2 DEF HandlerBytes, PatchPCs, FinPCs
      <3>3. CASE pc'[x] = "remove" BY <3>3 DEF HandlerBytes
      <3>4. \/ pc'[x] = pc[x] /\ reqs'[x] = reqs[x]
            \/ pc'[x] = "remove"
        BY <1>1 DEF CreateUpload, Take, tasks, PartsOK, TasksOK
      <3> QED BY <3>2, <3>3, <3>4
    <2> QED BY <2>5, <2>6 DEF AllBytes
  <1>2. ASSUME NEW d \in Devices, NEW u \in Uploads, FinalizeBegin(r, d, u) \/ Abort(r, d, u)
        PROVE  AllBytes'
    <2>1. UNCHANGED <<chunks, staging, object>> /\ u \notin writers
      BY <1>2 DEF FinalizeBegin, Abort, files, FreeUpload
    <2>2. /\ pc'[r] \in {"fin_promote", "remove"}
          /\ \A x \in Reqs \ {r} : pc'[x] = pc[x] /\ reqs'[x] = reqs[x]
      BY <1>2 DEF FinalizeBegin, Abort, Take, PartsOK, TasksOK
    <2>3. \A x \in Reqs \ {r} : u \notin WorksOn(x) BY <2>1, WorkedOn
    <2>4. HandlerBytes(r)' BY <2>2 DEF HandlerBytes
    <2>5. \A x \in Uploads \ {u} : state'[x] = state[x]
      BY <1>2 DEF FinalizeBegin, Abort, PartsOK, RowsOK
    <2>6. UploadBytes(u)'
      <3>0. UploadBytes(u) BY DEF AllBytes
      <3>1. CASE Abort(r, d, u)
        <4>1. state'[u] = "ABORTED" BY <3>1 DEF Abort, PartsOK, RowsOK
        <4> QED BY <2>1, <3>0, <4>1, SameUpload
      <3>2. CASE FinalizeBegin(r, d, u)
        <4>1. state'[u] = "FINALIZING" /\ Offset(u) = Size /\ state[u] \in {"OPEN", "FINALIZING"}
          BY <3>2 DEF FinalizeBegin, PartsOK, RowsOK
        <4>2. CASE state[u] = "FINALIZING" BY <2>1, <3>0, <4>1, <4>2, SameUpload
        <4>3. CASE state[u] = "OPEN"
          <5>1. /\ object[u] = None /\ Len(Bytes(u)) >= Size /\ SubSeq(Bytes(u), 1, Size) = chunks[u]
            BY <3>0, <4>1, <4>3 DEF UploadBytes
          <5>2. Bytes(u) \in Seq(Chunk) /\ Len(Bytes(u)) \in Nat /\ Len(Bytes(u)) <= Size
            BY ByteTypes
          <5>3. Len(Bytes(u)) = Size BY <5>1, <5>2, ConstantsOK
          <5>4. Bytes(u) = chunks[u]
            <6> DEFINE f == Bytes(u)
            <6>1. f \in Seq(Chunk) /\ SubSeq(f, 1, Len(f)) = chunks[u] BY <5>1, <5>2, <5>3
            <6> HIDE DEF f
            <6>2. SubSeq(f, 1, Len(f)) = f BY <6>1
            <6>3. f = chunks[u] BY <6>1, <6>2
            <6> QED BY <6>3 DEF f
          <5>5. staging[u] # None
            <6>1. Len(<<>>) = 0 OBVIOUS
            <6> QED BY <5>3, <6>1, ConstantsOK DEF Bytes
          <5>6. Candidate(u) = chunks[u] BY <5>1, <5>4, <5>5 DEF Candidate, Bytes
          <5>7. Candidate(u)' = chunks'[u] BY <2>1, <5>6 DEF Candidate
          <5> QED BY <2>1, <4>1, <5>1, <5>7 DEF UploadBytes, Offset
        <4> QED BY <4>1, <4>2, <4>3
      <3> QED BY <1>2, <3>1, <3>2
    <2> QED BY <2>1, <2>2, <2>3, <2>4, <2>5, <2>6, OneUpload
  <1>3. ASSUME NEW d \in Devices, NEW u \in Uploads, NEW c \in Chunk, PatchBegin(r, d, u, c)
        PROVE  AllBytes'
    <2>1. UNCHANGED <<state, chunks, staging, object>> BY <1>3 DEF PatchBegin, rows, files
    <2>2. \A x \in Reqs : \/ pc'[x] = pc[x] /\ reqs'[x] = reqs[x]
                          \/ pc'[x] = "patch_write"
      BY <1>3 DEF PatchBegin, Take, PartsOK, TasksOK
    <2> QED BY <2>1, <2>2, SameBytes
  <1> QED BY <1>1, <1>2, <1>3 DEF Request_

\* The pass: it cuts what no row records and renames what the rows record.
LEMMA StartupBytes ==
    ASSUME PartsOK, PartsOK', HandlerInv, AllBytes, Startup
    PROVE  AllBytes'
  <1>0. mode # "serving" /\ UNCHANGED <<tasks, chunks>>
    BY DEF Startup, Start, Gc, Open, Settle, SettleKeep, SettleQuarantine,
           SettlePromote, SettleReady, SettleCommit, SettleDrop, Settling, rows
  <1>00. \A x \in Reqs : pc'[x] = "idle" BY <1>0 DEF HandlerInv, HandlerOK, tasks
  <1>01. SUFFICES ASSUME NEW x \in Uploads PROVE UploadBytes(x)'
    BY <1>00, NobodyBytes
  <1>02. UploadBytes(x) /\ chunks'[x] = chunks[x] BY <1>0 DEF AllBytes
  <1>1. ASSUME Start PROVE UploadBytes(x)'
    BY <1>1, <1>02, SameUpload DEF Start, rows, files
  <1>2. ASSUME Gc PROVE UploadBytes(x)'
    <2>1. state'[x] = state[x] \/ state'[x] = "ABORTED" BY <1>2 DEF Gc
    <2>2. staging'[x] = staging[x] /\ object'[x] = object[x] BY <1>2 DEF Gc, files
    <2> QED BY <1>02, <2>1, <2>2, SameUpload
  <1>3. ASSUME Open PROVE UploadBytes(x)'
    <2>1. state' = state /\ object' = object BY <1>3 DEF Open, rows
    <2>2. staging'[x] = staging[x] \/ (state[x] = "ABORTED" /\ staging'[x] = None)
      BY <1>3 DEF Open
    <2>3. CASE staging'[x] = staging[x] BY <1>02, <2>1, <2>3, SameUpload
    <2>4. CASE state[x] = "ABORTED" /\ staging'[x] = None BY <1>02, <2>1, <2>4 DEF UploadBytes
    <2> QED BY <2>2, <2>3, <2>4
  <1>4. ASSUME NEW u \in Uploads, Settle(u) PROVE UploadBytes(x)'
    <2>1. ASSUME x # u PROVE UploadBytes(x)'
      <3>1. state'[x] = state[x]
        BY <1>4, <2>1 DEF Settle, SettleKeep, SettleQuarantine, SettlePromote, SettleReady,
                          SettleCommit, SettleDrop, Hold, rows, PartsOK, RowsOK
      <3>2. staging'[x] = staging[x]
        BY <1>4, <2>1 DEF Settle, SettleKeep, SettleQuarantine, SettlePromote, SettleReady,
                          SettleCommit, SettleDrop, CutTail, Renamed, files, PartsOK, FilesOK
      <3>3. object'[x] = object[x]
        BY <1>4, <2>1 DEF Settle, SettleKeep, SettleQuarantine, SettlePromote, SettleReady,
                          SettleCommit, SettleDrop, Renamed, files, PartsOK, FilesOK
      <3> QED BY <1>02, <3>1, <3>2, <3>3, SameUpload
    <2>2. ASSUME x = u, SettleKeep(u) \/ SettleQuarantine(u) PROVE UploadBytes(u)'
      <3>0. UploadBytes(u) /\ chunks'[u] = chunks[u] BY <1>02, <2>2
      <3>1. object'[u] = object[u] /\ CutTail(u) BY <2>2 DEF SettleKeep, SettleQuarantine
      <3>2. state'[u] = state[u] \/ state'[u] = "QUARANTINED"
        BY <2>2 DEF SettleKeep, SettleQuarantine, Hold, rows, PartsOK, RowsOK
      <3>3. CASE staging' = staging BY <3>0, <3>1, <3>2, <3>3, SameUpload
      <3>4. CASE staging' # staging
        <4>1. /\ state[u] = "OPEN" /\ staging[u] # None
              /\ staging' = [staging EXCEPT ![u] = SubSeq(@, 1, Offset(u))]
          BY <3>1, <3>4 DEF CutTail
        <4>2. object[u] = None /\ SubSeq(staging[u], 1, Offset(u)) = chunks[u]
          BY <3>0, <4>1 DEF UploadBytes, Bytes
        <4>3. staging'[u] = chunks[u] BY <4>1, <4>2 DEF PartsOK, FilesOK
        <4>4. /\ chunks[u] \in Seq(Chunk) /\ chunks[u] # None BY ByteTypes
        <4>5. Bytes(u)' = chunks[u] /\ Offset(u)' = Len(chunks[u])
          BY <3>0, <4>3, <4>4 DEF Bytes, Offset
        <4>6. Len(chunks[u]) >= Len(chunks[u]) /\ SubSeq(chunks[u], 1, Len(chunks[u])) = chunks[u]
          BY <4>4, OwnPrefix DEF Chunk
        <4> QED BY <3>0, <3>1, <3>2, <4>1, <4>2, <4>5, <4>6 DEF UploadBytes
      <3> QED BY <3>3, <3>4
    <2>3. ASSUME x = u, SettlePromote(u) PROVE UploadBytes(u)'
      <3>1. object[u] = None /\ Renamed(u) /\ state[u] = "FINALIZING" /\ state' = state
        BY <2>3, Verdicts DEF SettlePromote, rows
      <3>2. Candidate(u) = chunks[u] /\ Offset(u) = Size BY <1>02, <2>3, <3>1 DEF UploadBytes
      <3>3. object'[u] = chunks[u] /\ staging'[u] = None
        BY <3>1, <3>2 DEF Renamed, PartsOK, FilesOK
      <3>4. chunks[u] # None /\ chunks'[u] = chunks[u] BY <1>02, <2>3, ByteTypes
      <3> QED BY <3>1, <3>2, <3>3, <3>4 DEF UploadBytes, Candidate, Offset
    <2>4. ASSUME x = u, SettleReady(u) \/ SettleCommit(u) PROVE UploadBytes(u)'
      <3>1. object[u] = Whole /\ state'[u] \in {"READY", "COMMITTED"}
        BY <2>4, Verdicts DEF SettleReady, SettleCommit, PartsOK, RowsOK
      <3>2. staging'[u] = staging[u] /\ object'[u] = object[u]
        BY <2>4 DEF SettleReady, SettleCommit, files
      <3> QED BY <1>02, <2>4, <3>1, <3>2 DEF UploadBytes
    <2>5. ASSUME x = u, SettleDrop(u) PROVE UploadBytes(u)'
      <3>1. /\ state[u] \in {"READY", "COMMITTED"} /\ object[u] = Whole /\ state'[u] = state[u]
            /\ object'[u] = object[u] /\ staging'[u] = None
        BY <2>5, Verdicts DEF SettleDrop, rows, PartsOK, FilesOK
      <3> QED BY <3>1 DEF UploadBytes
    <2> QED BY <1>4, <2>1, <2>2, <2>3, <2>4, <2>5 DEF Settle
  <1> QED BY <1>1, <1>2, <1>3, <1>4 DEF Startup

\* Every step without a fault keeps the bytes behind the rows.
LEMMA BytesStep ==
    ASSUME PartsOK, PartsOK', HandlerInv, BytesInv, [Next]_vars
    PROVE  BytesInv'
  <1> SUFFICES ASSUME faults' = 0 PROVE AllBytes' BY DEF BytesInv, AllBytes
  <1>1. AllBytes BY FaultFree DEF BytesInv, AllBytes
  <1>2. ASSUME LeaseStep \/ Tick \/ UNCHANGED vars PROVE AllBytes'
    <2>1. UNCHANGED <<state, chunks, staging, object>> /\ UNCHANGED <<pc, reqs>>
      BY <1>2 DEF LeaseStep, Publish, Checkout, Renew, Release, ForceExpire, Tick, vars, rows,
                  files, tasks
    <2> QED BY <1>1, <2>1, SameBytes
  <1>3. ASSUME Crash PROVE AllBytes'
    <2>1. UNCHANGED <<state, chunks, staging, object>> /\ \A x \in Reqs : pc'[x] = "idle"
      BY <1>3 DEF Crash, rows, files
    <2> QED BY <1>1, <2>1, SameBytes
  <1>4. ASSUME NEW d \in Devices, NEW u \in Uploads, Commit(d, u) PROVE AllBytes'
    <2>1. /\ UNCHANGED <<chunks, staging, object, pc, reqs>> /\ state[u] = "READY"
          /\ state' = [state EXCEPT ![u] = "COMMITTED"]
      BY <1>4 DEF Commit, files, tasks
    <2>2. state'[u] = "COMMITTED" /\ \A x \in Uploads \ {u} : state'[x] = state[x]
      BY <2>1 DEF PartsOK, RowsOK
    <2>3. UploadBytes(u)' BY <1>1, <2>1, <2>2 DEF AllBytes, UploadBytes
    <2>4. \A x \in Uploads : UploadBytes(x)' BY <1>1, <2>1, <2>2, <2>3, SameUpload DEF AllBytes
    <2>5. \A x \in Reqs : HandlerBytes(x)' BY <1>1, <2>1 DEF AllBytes, HandlerBytes
    <2> QED BY <2>4, <2>5 DEF AllBytes
  <1> QED BY <1>1, <1>2, <1>3, <1>4, FaultFree, RequestBytes, WorkBytes, StartupBytes DEF Next

----------------------------------------------------------------------------
(* The cause of a quarantine.                                              *)

\* Complete bytes that are not the expected object have a bad chunk.
LEMMA BadChunk ==
    ASSUME NEW c \in File, Len(c) = Size, c # Whole
    PROVE  \E i \in 1 .. Len(c) : c[i] = "bad"
  <1> SUFFICES ASSUME \A i \in 1 .. Len(c) : c[i] # "bad" PROVE c = Whole OBVIOUS
  <1>1. c \in [1 .. Size -> Chunk] BY FileIsSeq
  <1>2. \A i \in 1 .. Size : c[i] = "good" BY <1>1 DEF Chunk
  <1> QED BY <1>1, <1>2 DEF Whole

\* Without damage the receipts are those of the COMMITTED uploads.
LEMMA Receipts ==
    ASSUME PartsOK, ChainInv, NEW u \in Uploads, CauseOf(u)
    PROVE  Receipt(u) = IF state[u] = "COMMITTED" THEN "valid" ELSE "absent"
  <1> DEFINE own == {v \in Versions : snaps[v] = u}
  <1>1. \A v \in Versions : snaps[v] = u => ledger[u] = v
    BY NoneIsNew DEF ChainInv, ChainRow
  <1>2. CASE state[u] = "COMMITTED"
    <2>1. ledger[u] \in 1 .. current /\ snaps[ledger[u]] = u BY <1>2 DEF CauseOf
    <2>2. ledger[u] \in Versions /\ ledger[u] <= current
      BY <2>1, ConstantsOK DEF PartsOK, ProfileOK, Fences, Versions
    <2>3. own = {ledger[u]} BY <1>1, <2>1, <2>2
    <2>4. ledger[u] # 0 /\ own # {} BY <2>1, <2>3 DEF PartsOK, ProfileOK, Fences
    <2> QED BY <1>2, <2>2, <2>3, <2>4 DEF Receipt
  <1>3. CASE state[u] # "COMMITTED"
    <2>1. ledger[u] = 0 BY <1>3 DEF CauseOf
    <2>2. 0 \notin Versions BY DEF Versions
    <2>3. own = {} BY <1>1, <2>1, <2>2
    <2> QED BY <1>3, <2>1, <2>3 DEF Receipt
  <1> QED BY <1>2, <1>3

\* Without damage the table quarantines only an upload whose client sent bad
\* bytes, and finds no READY upload with a receipt.
LEMMA GoodVerdict ==
    ASSUME PartsOK, ChainInv, NEW u \in Uploads, CauseOf(u), UploadBytes(u), state[u] \in Pending
    PROVE  Verdict(u) # "commit" /\ (Verdict(u) = "quarantine" => HasBad(u))
  <1> DEFINE r == Receipt(u) i == WholeFile(object[u]) s == Staged(u)
  <1>1. Verdict(u) = Decide(state[u], r, i, s) BY DEF Verdict
  <1>2. r = IF state[u] = "COMMITTED" THEN "valid" ELSE "absent" BY Receipts
  <1>3. /\ i = "absent" <=> object[u] = None
        /\ i = "valid" <=> object[u] = Whole
    BY WholeFiles
  <1>4. state[u] # "OPEN" => /\ s = "absent" <=> staging[u] = None
                             /\ s = "valid" <=> staging[u] = Whole
    BY WholeFiles DEF Staged
  <1>5. Whole # None BY KnownFiles, NoneIsNew
  <1>6. CASE state[u] = "OPEN"
    <2>1. object[u] = None /\ Len(Bytes(u)) >= Offset(u) /\ SubSeq(Bytes(u), 1, Offset(u)) = chunks[u]
      BY <1>6 DEF UploadBytes
    <2>2. s # "invalid"
      <3>1. CASE staging[u] = None
        <4>1. Len(<<>>) = 0 OBVIOUS
        <4>2. Offset(u) = 0 BY <2>1, <3>1, <4>1, ByteTypes DEF Bytes
        <4> QED BY <1>6, <3>1, <4>2 DEF Staged, StagedOpen
      <3>2. CASE staging[u] # None BY <1>6, <2>1, <3>2 DEF Staged, StagedOpen, Bytes
      <3> QED BY <3>1, <3>2
    <2> HIDE DEF r, i, s
    <2>3. Verdict(u) = "keep" BY <1>1, <1>2, <1>3, <1>6, <2>1, <2>2 DEF Decide, DecideOpen
    <2> QED BY <2>3
  <1>7. CASE state[u] = "FINALIZING"
    <2>1. Offset(u) = Size /\ Candidate(u) = chunks[u] /\ (object[u] # None => staging[u] = None)
      BY <1>7 DEF UploadBytes
    <2>2. CASE chunks[u] # Whole
      <3>1. HasBad(u)
        <4>1. chunks[u] \in File /\ Len(chunks[u]) = Size /\ Offset(u) = Len(chunks[u])
          BY <2>1, ByteTypes
        <4>2. \E j \in 1 .. Len(chunks[u]) : chunks[u][j] = "bad" BY <2>2, <4>1, BadChunk
        <4> QED BY <4>1, <4>2 DEF HasBad
      <3>2. Verdict(u) # "commit" BY Verdicts, <1>7
      <3> QED BY <3>1, <3>2
    <2>3. CASE chunks[u] = Whole
      <3>1. (i = "valid" /\ s = "absent") \/ (i = "absent" /\ s = "valid")
        BY <1>3, <1>4, <1>5, <1>7, <2>1, <2>3 DEF Candidate
      <3> HIDE DEF r, i, s
      <3>2. r = "absent" BY <1>2, <1>7
      <3>3. Verdict(u) = DecideFinalizing(r, i, s) BY <1>1, <1>7 DEF Decide
      <3>4. Verdict(u) = "promote" BY <3>1, <3>2, <3>3 DEF DecideFinalizing
      <3> QED BY <3>4
    <2> QED BY <2>2, <2>3
  <1>8. CASE state[u] \in {"READY", "COMMITTED"}
    <2>1. object[u] = Whole /\ staging[u] = None BY <1>5, <1>8 DEF UploadBytes
    <2>2. i = "valid" /\ s = "absent" BY <1>3, <1>4, <1>8, <2>1
    <2> HIDE DEF r, i, s
    <2>3. Verdict(u) = "keep"
      BY <1>1, <1>2, <1>8, <2>2 DEF Decide, DecideReady, DecideCommitted
    <2> QED BY <2>3
  <1> QED BY <1>6, <1>7, <1>8 DEF Pending

\* An upload whose row keeps its state, or moves where neither a receipt nor a
\* cause is asked for, keeps its cause.
LEMMA SameCause ==
    ASSUME PartsOK, NEW u \in Uploads, CauseOf(u),
           \/ state'[u] = state[u] /\ chunks'[u] = chunks[u]
           \/ /\ state[u] \notin {"QUARANTINED", "COMMITTED"}
              /\ state'[u] \notin {"QUARANTINED", "COMMITTED"},
           u \in held' => u \in held, ledger'[u] = ledger[u], current' >= current, current' \in Nat,
           \A v \in 1 .. current : snaps'[v] = snaps[v]
    PROVE  CauseOf(u)'
  <1>1. CASE state'[u] = state[u] /\ chunks'[u] = chunks[u]
    <2>1. HasBad(u)' <=> HasBad(u) BY <1>1 DEF HasBad, Offset
    <2>2. ledger[u] \in 1 .. current => ledger[u] \in 1 .. current'
      BY DEF PartsOK, ProfileOK, Fences
    <2> QED BY <1>1, <2>1, <2>2 DEF CauseOf
  <1>2. CASE /\ state[u] \notin {"QUARANTINED", "COMMITTED"}
             /\ state'[u] \notin {"QUARANTINED", "COMMITTED"}
    BY <1>2 DEF CauseOf
  <1> QED BY <1>1, <1>2

\* Every step without a fault quarantines only for a cause.
LEMMA CauseStep ==
    ASSUME PartsOK, PartsOK', ChainInv, HandlerInv, TodoInv, BytesInv, CauseInv, [Next]_vars
    PROVE  CauseInv'
  <1> SUFFICES ASSUME faults' = 0, NEW x \in Uploads PROVE CauseOf(x)' BY DEF CauseInv
  <1>0. /\ AllBytes /\ \A u \in Uploads : CauseOf(u)
        /\ \A u \in Uploads : ~SettleFails(u) /\ ~DamageStaging(u) /\ ~DamageObject(u) /\ ~Revert(u)
    BY FaultFree DEF BytesInv, AllBytes, CauseInv
  <1>00. current \in Nat /\ current >= current BY DEF PartsOK, ProfileOK, Fences
  <1>1. ASSUME UNCHANGED <<state, chunks, held, ledger, snaps, current>> PROVE CauseOf(x)'
    BY <1>0, <1>00, <1>1, SameCause
  <1>2. ASSUME LeaseStep \/ Tick \/ Crash \/ UNCHANGED vars \/ Start \/ Open PROVE CauseOf(x)'
    <2>1. UNCHANGED <<state, chunks, held, ledger, snaps, current>>
      BY <1>2 DEF LeaseStep, Publish, Checkout, Renew, Release, ForceExpire, Tick, Crash, vars,
                  Start, Open, rows, profile
    <2> QED BY <1>1, <2>1
  <1>3. ASSUME NEW d \in Devices, NEW u \in Uploads, Commit(d, u) PROVE CauseOf(x)'
    <2>1. /\ UNCHANGED <<chunks, held>> /\ state[u] = "READY" /\ current' = current + 1
          /\ state' = [state EXCEPT ![u] = "COMMITTED"]
          /\ ledger' = [ledger EXCEPT ![u] = current + 1]
          /\ snaps' = [snaps EXCEPT ![current + 1] = u] /\ lease # None
      BY <1>3 DEF Commit, HeldLease
    <2>2. current + 1 \in Versions
      BY <2>1, ConstantsOK DEF ChainInv, PartsOK, ProfileOK, Fences, Versions
    <2>3. /\ snaps'[current + 1] = u /\ current' \in Nat /\ current' >= current
          /\ \A v \in 1 .. current : snaps'[v] = snaps[v]
      BY <1>00, <2>1, <2>2, ConstantsOK DEF PartsOK, RowsOK, Versions
    <2>4. CASE x = u
      <3>1. state'[x] = "COMMITTED" /\ ledger'[x] = current + 1 /\ x \notin held'
        BY <1>0, <2>1, <2>4 DEF PartsOK, RowsOK, CauseOf
      <3> QED BY <1>00, <2>1, <2>3, <2>4, <3>1 DEF CauseOf
    <2>5. CASE x # u
      <3>1. state'[x] = state[x] /\ ledger'[x] = ledger[x] BY <2>1, <2>5 DEF PartsOK, RowsOK
      <3> QED BY <1>0, <2>1, <2>3, <3>1, SameCause
    <2> QED BY <2>4, <2>5
  <1>4. ASSUME UNCHANGED <<held, ledger, snaps, current>>,
               \/ state'[x] = state[x] /\ chunks'[x] = chunks[x]
               \/ /\ state[x] \notin {"QUARANTINED", "COMMITTED"}
                  /\ state'[x] \notin {"QUARANTINED", "COMMITTED"}
        PROVE  CauseOf(x)'
    BY <1>0, <1>00, <1>4, SameCause
  <1>5. ASSUME NEW r \in Reqs, Request_(r) PROVE CauseOf(x)'
    <2>1. UNCHANGED <<held, ledger, snaps, current, chunks>>
      BY <1>5 DEF Request_, CreateUpload, FinalizeBegin, Abort, PatchBegin, rows, profile
    <2>2. \/ state'[x] = state[x]
          \/ /\ state[x] \notin {"QUARANTINED", "COMMITTED"}
             /\ state'[x] \notin {"QUARANTINED", "COMMITTED"}
      <3>1. ASSUME NEW d \in Devices, NEW u \in Uploads, CreateUpload(r, d, u)
            PROVE  \/ state'[x] = state[x]
                   \/ state[x] \in {"none", "OPEN"} /\ state'[x] \in {"OPEN", "ABORTED"}
        BY <3>1 DEF CreateUpload, Expired
      <3>2. ASSUME NEW d \in Devices, NEW u \in Uploads, FinalizeBegin(r, d, u) \/ Abort(r, d, u)
            PROVE  \/ state'[x] = state[x]
                   \/ /\ state[x] \in {"OPEN", "FINALIZING", "READY"}
                      /\ state'[x] \in {"FINALIZING", "ABORTED"}
        BY <3>2 DEF FinalizeBegin, Abort, Abortable, PartsOK, RowsOK
      <3>3. ASSUME NEW d \in Devices, NEW u \in Uploads, NEW c \in Chunk, PatchBegin(r, d, u, c)
            PROVE  state'[x] = state[x]
        BY <3>3 DEF PatchBegin, rows
      <3> QED BY <1>5, <3>1, <3>2, <3>3 DEF Request_
    <2> QED BY <1>4, <2>1, <2>2
  <1>6. ASSUME NEW r \in Reqs, Work(r) \/ Drop(r), NEW w, w = reqs[r].upload PROVE CauseOf(x)'
    <2>0. HandlerOK(r) /\ HandlerBytes(r) BY <1>0 DEF HandlerInv, AllBytes
    <2>1. /\ pc[r] \in PatchPCs => w \in Uploads /\ state[w] = "OPEN"
          /\ pc[r] \in FinPCs => w \in Uploads /\ state[w] = "FINALIZING"
      BY <1>6, <2>0, Locals DEF HandlerOK
    <2>2. UNCHANGED <<held, ledger, snaps, current>>
      BY <1>6 DEF Work, RemoveStaging, PatchWrite, PatchRecord, PatchQuarantine, PatchRefused,
                  PatchCut, Promote, FinalizeReady, FinalizeRefused, Drop, rows, profile
    <2>3. ~PatchQuarantine(r) BY <2>0 DEF PatchQuarantine, HandlerBytes, Step
    <2>4. ASSUME RemoveStaging(r) \/ PatchWrite(r) \/ PatchRefused(r) \/ PatchCut(r) \/ Promote(r)
                 \/ Drop(r)
          PROVE  CauseOf(x)'
      <3>1. state' = state /\ chunks' = chunks
        BY <2>4 DEF RemoveStaging, PatchWrite, PatchRefused, PatchCut, Promote, Drop, rows
      <3> QED BY <1>4, <2>2, <3>1
    <2>5. ASSUME PatchRecord(r) PROVE CauseOf(x)'
      <3>1. /\ state' = state /\ chunks' = [chunks EXCEPT ![w] = Append(@, reqs[r].chunk)]
            /\ w \in Uploads /\ state[w] = "OPEN"
        BY <1>6, <2>1, <2>5 DEF PatchRecord, Step, PatchPCs
      <3>2. x = w \/ chunks'[x] = chunks[x] BY <3>1 DEF PartsOK, RowsOK
      <3> QED BY <1>4, <2>2, <3>1, <3>2
    <2>6. ASSUME FinalizeReady(r) PROVE CauseOf(x)'
      <3>1. /\ chunks' = chunks /\ w \in Uploads /\ state[w] = "FINALIZING"
            /\ state' = [state EXCEPT ![w] = "READY"]
        BY <1>6, <2>1, <2>6 DEF FinalizeReady, Step, FinPCs
      <3>2. state'[x] = state[x] \/ (state[x] = "FINALIZING" /\ state'[x] = "READY")
        BY <3>1 DEF PartsOK, RowsOK
      <3> QED BY <1>4, <2>2, <3>1, <3>2
    <2>7. ASSUME FinalizeRefused(r) PROVE CauseOf(x)'
      <3>1. /\ chunks' = chunks /\ w \in Uploads /\ state[w] = "FINALIZING"
            /\ state' = [state EXCEPT ![w] = "QUARANTINED"] /\ pc[r] = "fin_refuse"
        BY <1>6, <2>1, <2>7 DEF FinalizeRefused, Quarantine, Step, FinPCs
      <3>2. CASE x # w
        <4>1. state'[x] = state[x] BY <3>1, <3>2 DEF PartsOK, RowsOK
        <4> QED BY <1>4, <2>2, <3>1, <4>1
      <3>3. CASE x = w
        <4>1. chunks[x] # Whole BY <1>6, <2>0, <3>1, <3>3 DEF HandlerBytes
        <4>2. Offset(x) = Size BY <1>0, <3>1, <3>3 DEF AllBytes, UploadBytes
        <4>3. chunks[x] \in File /\ Len(chunks[x]) = Size /\ Offset(x) = Len(chunks[x])
          BY <4>2, ByteTypes
        <4>4. \E j \in 1 .. Len(chunks[x]) : chunks[x][j] = "bad" BY <4>1, <4>3, BadChunk
        <4>5. HasBad(x)' BY <3>1, <4>3, <4>4 DEF HasBad, Offset
        <4>6. state'[x] = "QUARANTINED" /\ ledger'[x] = 0
          BY <1>0, <2>2, <3>1, <3>3 DEF PartsOK, RowsOK, CauseOf
        <4> QED BY <4>5, <4>6 DEF CauseOf
      <3> QED BY <3>2, <3>3
    <2> QED BY <1>6, <2>3, <2>4, <2>5, <2>6, <2>7 DEF Work
  <1>7. ASSUME Gc PROVE CauseOf(x)'
    <2>1. /\ UNCHANGED <<held, ledger, snaps, current, chunks>>
          /\ state'[x] = state[x] \/ (state[x] = "OPEN" /\ state'[x] = "ABORTED")
      BY <1>7 DEF Gc, profile
    <2> QED BY <1>4, <2>1
  <1>8. ASSUME NEW u \in Uploads, Settle(u) PROVE CauseOf(x)'
    <2>0. state[u] \in Pending /\ u \in todo
      BY <1>8 DEF Settle, SettleKeep, SettleQuarantine, SettlePromote, SettleReady,
                  SettleCommit, SettleDrop, Settling, TodoInv
    <2>1. Verdict(u) # "commit" /\ (Verdict(u) = "quarantine" => HasBad(u))
      BY <1>0, <2>0, GoodVerdict DEF AllBytes
    <2>2. ASSUME SettleKeep(u) \/ SettlePromote(u) \/ SettleDrop(u) PROVE CauseOf(x)'
      <3>1. UNCHANGED <<state, chunks, held, ledger, snaps, current>>
        BY <2>2 DEF SettleKeep, SettlePromote, SettleDrop, rows, profile
      <3> QED BY <1>1, <3>1
    <2>3. ASSUME SettleReady(u) PROVE CauseOf(x)'
      <3>1. UNCHANGED <<held, ledger, snaps, current, chunks>> BY <2>3 DEF SettleReady, profile
      <3>2. state'[x] = state[x] \/ (state[x] = "FINALIZING" /\ state'[x] = "READY")
        BY <2>3, Verdicts DEF SettleReady, PartsOK, RowsOK
      <3> QED BY <1>4, <3>1, <3>2
    <2>4. ASSUME SettleQuarantine(u) PROVE CauseOf(x)'
      <3>1. UNCHANGED <<ledger, snaps, current, chunks>> /\ HasBad(u)
        BY <2>1, <2>4 DEF SettleQuarantine, profile
      <3>2. state[u] # "COMMITTED"
        <4> SUFFICES ASSUME state[u] = "COMMITTED" PROVE FALSE OBVIOUS
        <4>1. Receipt(u) = "valid" BY <1>0, Receipts
        <4>2. object[u] = Whole /\ staging[u] = None
          BY <1>0, KnownFiles, NoneIsNew DEF AllBytes, UploadBytes
        <4>3. WholeFile(object[u]) = "valid" /\ Staged(u) = "absent"
          BY <4>2, WholeFiles DEF Staged
        <4>4. Verdict(u) = "keep" BY <4>1, <4>3 DEF Verdict, Decide, DecideCommitted
        <4> QED BY <2>4, <4>4 DEF SettleQuarantine
      <3>3. held' = held \cup {u} /\ state' = [state EXCEPT ![u] = "QUARANTINED"]
        BY <2>4, <3>2 DEF SettleQuarantine, Hold
      <3>4. CASE x # u
        <4>1. state'[x] = state[x] /\ (x \in held' => x \in held) BY <3>3, <3>4 DEF PartsOK, RowsOK
        <4> QED BY <1>0, <1>00, <3>1, <4>1, SameCause
      <3>5. CASE x = u
        <4>1. state'[x] = "QUARANTINED" /\ ledger'[x] = 0
          BY <1>0, <3>1, <3>2, <3>3, <3>5 DEF PartsOK, RowsOK, CauseOf
        <4>2. HasBad(x)' BY <3>1, <3>5 DEF HasBad, Offset
        <4> QED BY <4>1, <4>2 DEF CauseOf
      <3> QED BY <3>4, <3>5
    <2> QED BY <1>8, <2>1, <2>2, <2>3, <2>4 DEF Settle, SettleCommit
  <1> QED BY <1>0, <1>2, <1>3, <1>5, <1>6, <1>7, <1>8 DEF Next, Startup

----------------------------------------------------------------------------
(* What a pass settles, and what the server then serves.                   *)

\* The verdict on an upload depends on its own rows and files.
LEMMA SameVerdict ==
    ASSUME NEW u, state'[u] = state[u], chunks'[u] = chunks[u], staging'[u] = staging[u],
           object'[u] = object[u], UNCHANGED <<snaps, ledger, current>>
    PROVE  Verdict(u)' = Verdict(u)
  <1>1. Receipt(u)' = Receipt(u) BY DEF Receipt
  <1>2. Staged(u)' = Staged(u) BY DEF Staged, StagedOpen, Offset
  <1>3. WholeFile(object[u])' = WholeFile(object[u]) BY DEF WholeFile
  <1> QED BY <1>1, <1>2, <1>3 DEF Verdict

\* A kept upload is kept again: the cut leaves a staging file that its chunk
\* receipts still tile.
LEMMA KeptAgain ==
    ASSUME PartsOK, NEW u \in Uploads, SettleKeep(u) PROVE Verdict(u)' = "keep"
  <1>1. UNCHANGED <<state, chunks, object, snaps, ledger, current>> /\ CutTail(u)
        /\ Verdict(u) = "keep"
    BY DEF SettleKeep, rows, profile
  <1>2. CASE staging' = staging
    BY <1>1, <1>2, SameVerdict
  <1>3. CASE staging' # staging
    <2>1. /\ state[u] = "OPEN" /\ staging[u] # None
          /\ staging' = [staging EXCEPT ![u] = SubSeq(@, 1, Offset(u))]
      BY <1>1, <1>3 DEF CutTail
    <2>2. Receipt(u) = "absent" /\ object[u] = None /\ Staged(u) # "invalid"
      BY <1>1, <2>1, Verdicts
    <2>3. SubSeq(staging[u], 1, Offset(u)) = chunks[u] BY <2>1, <2>2 DEF Staged, StagedOpen
    <2>4. staging'[u] = chunks[u] BY <2>1, <2>3 DEF PartsOK, FilesOK
    <2>5. chunks[u] \in Seq(Chunk) /\ chunks[u] # None /\ Offset(u) = Len(chunks[u])
      BY ByteTypes
    <2>6. SubSeq(chunks[u], 1, Len(chunks[u])) = chunks[u] /\ Len(chunks[u]) \in Nat
      BY <2>5, OwnPrefix DEF Chunk
    <2>7. Staged(u)' = "valid"
      <3>1. state'[u] = "OPEN" /\ staging'[u] = chunks'[u] /\ chunks'[u] = chunks[u]
        BY <1>1, <2>1, <2>4
      <3>2. Offset(u)' = Len(chunks[u]) /\ Len(chunks[u]) >= Len(chunks[u]) BY <2>6, <3>1 DEF Offset
      <3>3. StagedOpen(u)' = "valid" BY <2>5, <2>6, <3>1, <3>2 DEF StagedOpen
      <3> QED BY <3>1, <3>3 DEF Staged
    <2>8. Receipt(u)' = "absent" BY <1>1, <2>2 DEF Receipt
    <2>9. WholeFile(object[u])' = "absent" BY <1>1, <2>2, WholeFiles DEF WholeFile
    <2> QED BY <1>1, <2>1, <2>7, <2>8, <2>9 DEF Verdict, Decide, DecideOpen
  <1> QED BY <1>2, <1>3

\* Every step keeps that the pass would keep what it has settled.
LEMMA SettledStep ==
    ASSUME PartsOK, TodoInv, SettledInv, [Next]_vars
    PROVE  SettledInv'
  <1>1. ASSUME mode' \notin {"starting", "gc"} PROVE SettledInv' BY <1>1 DEF SettledInv
  <1>2. ASSUME UNCHANGED <<mode, todo, held, state, chunks, staging, object, snaps, ledger, current>>
        PROVE  SettledInv'
    BY <1>2, SameVerdict DEF SettledInv
  <1>3. ASSUME Tick \/ UNCHANGED vars PROVE SettledInv'
    <2>1. UNCHANGED <<mode, todo, held, state, chunks, staging, object, snaps, ledger, current>>
      BY <1>3 DEF Tick, vars, env, rows, files, profile
    <2> QED BY <1>2, <2>1
  <1>4. ASSUME \/ LeaseStep \/ Crash \/ Open
               \/ \E r \in Reqs : Request_(r) \/ Work(r) \/ Drop(r)
               \/ \E d \in Devices, u \in Uploads : Commit(d, u)
               \/ \E u \in Uploads : DamageStaging(u) \/ DamageObject(u) \/ Revert(u)
        PROVE  SettledInv'
    <2>1. ASSUME LeaseStep \/ Crash \/ Open PROVE mode' \notin {"starting", "gc"}
      BY <2>1 DEF LeaseStep, Publish, Checkout, Renew, Release, ForceExpire, Crash, Open, Serving, env
    <2>2. ASSUME NEW r \in Reqs, Request_(r) PROVE mode' \notin {"starting", "gc"}
      BY <2>2 DEF Request_, CreateUpload, FinalizeBegin, Abort, PatchBegin, Step, Serving, env
    <2>3. ASSUME NEW r \in Reqs, Work(r) \/ Drop(r) PROVE mode' \notin {"starting", "gc"}
      BY <2>3 DEF Work, RemoveStaging, PatchWrite, PatchRecord, PatchQuarantine, PatchRefused,
                  PatchCut, Promote, FinalizeReady, FinalizeRefused, Drop, Step, Serving, env
    <2>4. ASSUME NEW d \in Devices, NEW u \in Uploads, Commit(d, u)
          PROVE  mode' \notin {"starting", "gc"}
      BY <2>4 DEF Commit, Serving, env
    <2>5. ASSUME NEW u \in Uploads, DamageStaging(u) \/ DamageObject(u) \/ Revert(u)
          PROVE  mode' \notin {"starting", "gc"}
      BY <2>5 DEF DamageStaging, DamageObject, Revert
    <2> QED BY <1>1, <1>4, <2>1, <2>2, <2>3, <2>4, <2>5
  <1>5. ASSUME Start PROVE SettledInv'
    BY <1>5 DEF Start, SettledInv, Pending, rows
  <1>6. ASSUME Gc PROVE SettledInv'
    <2>1. SUFFICES ASSUME NEW x \in Uploads \ (held' \cup todo'), state'[x] \in Pending
                   PROVE  Verdict(x)' = "keep"
      BY DEF SettledInv
    <2>2. UNCHANGED <<held, todo, chunks, staging, object, snaps, ledger, current>>
          /\ state'[x] = state[x] /\ mode = "starting"
      BY <1>6, <2>1 DEF Gc, Pending, files, profile
    <2>3. Verdict(x) = "keep" BY <2>1, <2>2 DEF SettledInv
    <2> QED BY <2>2, <2>3, SameVerdict
  <1>7. ASSUME NEW u \in Uploads, Settle(u) \/ SettleFails(u) PROVE SettledInv'
    <2>1. SUFFICES ASSUME mode' \in {"starting", "gc"}, NEW x \in Uploads \ (held' \cup todo'),
                          state'[x] \in Pending
                   PROVE  Verdict(x)' = "keep"
      BY DEF SettledInv
    <2>2. mode = "starting" /\ u \in todo /\ UNCHANGED <<snaps, ledger, current, chunks>>
      BY <1>7 DEF Settle, SettleKeep, SettleQuarantine, SettlePromote, SettleReady,
                  SettleCommit, SettleDrop, SettleFails, Settling, rows, profile
    <2>3. CASE x # u
      <3>1. state'[x] = state[x]
        BY <1>7, <2>3 DEF Settle, SettleKeep, SettleQuarantine, SettlePromote, SettleReady,
                          SettleCommit, SettleDrop, SettleFails, Hold, rows, PartsOK, RowsOK
      <3>2. staging'[x] = staging[x]
        BY <1>7, <2>3 DEF Settle, SettleKeep, SettleQuarantine, SettlePromote, SettleReady,
                          SettleCommit, SettleDrop, SettleFails, CutTail, Renamed, files, PartsOK, FilesOK
      <3>3. object'[x] = object[x]
        BY <1>7, <2>3 DEF Settle, SettleKeep, SettleQuarantine, SettlePromote, SettleReady,
                          SettleCommit, SettleDrop, SettleFails, Renamed, files, PartsOK, FilesOK
      <3>4. x \notin held /\ x \notin todo
        BY <1>7, <2>1, <2>3 DEF Settle, SettleKeep, SettleQuarantine, SettlePromote, SettleReady,
                          SettleCommit, SettleDrop, SettleFails, Settled, NextRound, Hold, rows, env
      <3>5. Verdict(x) = "keep" BY <2>1, <2>2, <3>1, <3>4 DEF SettledInv
      <3> QED BY <2>2, <3>1, <3>2, <3>3, <3>5, SameVerdict
    <2>4. CASE x = u
      <3>1. SettleKeep(u)
        BY <1>7, <2>1, <2>2, <2>4 DEF Settle, SettleQuarantine, SettlePromote, SettleReady,
                          SettleCommit, SettleDrop, SettleFails, NextRound, Hold, env
      <3> QED BY <2>4, <3>1, KeptAgain
    <2> QED BY <2>3, <2>4
  <1> QED BY <1>3, <1>4, <1>5, <1>6, <1>7 DEF Next, Startup

\* Rows and files that no step touched.
LEMMA SameServe ==
    ASSUME ServeInv, UNCHANGED <<held, state, object, snaps>>, mode' = "serving" => mode = "serving",
           \A r \in Reqs : pc'[r] = "fin_ready" => pc[r] = "fin_ready" /\ reqs'[r] = reqs[r]
    PROVE  ServeInv'
  <1>1. \A u : Versioned(u)' <=> Versioned(u) BY DEF Versioned
  <1> QED BY <1>1 DEF ServeInv

\* A step outside serving that leaves the versions with an upload in one of
\* their states.
LEMMA NotServing ==
    ASSUME ServeInv, mode' # "serving", snaps' = snaps, held \subseteq held',
           \A u \in Uploads \ held' : \/ state'[u] = state[u]
                                     \/ state[u] = "OPEN"
                                     \/ state'[u] \in {"FINALIZING", "READY", "COMMITTED"}
    PROVE  ServeInv'
  <1>1. \A u : Versioned(u)' <=> Versioned(u) BY DEF Versioned
  <1> QED BY <1>1 DEF ServeInv

\* A step of a handler while the server serves: uploads that are not COMMITTED
\* are nobody's version and may move.
LEMMA StillServing ==
    ASSUME PartsOK, ServeInv, mode = "serving", UNCHANGED <<held, snaps>>,
           \A u \in Uploads \ held :
             \/ state'[u] = state[u] /\ object'[u] = object[u]
             \/ state[u] # "COMMITTED" /\ ~Versioned(u)
                /\ (state'[u] \in {"READY", "COMMITTED"} => object'[u] = Whole),
           \A r \in Reqs : pc'[r] = "fin_ready" => object'[reqs'[r].upload] = Whole
    PROVE  ServeInv'
  <1>1. \A u : Versioned(u)' <=> Versioned(u) BY DEF Versioned
  <1> QED BY <1>1 DEF ServeInv

\* Every step keeps what the server serves whole.
LEMMA ServeStep ==
    ASSUME PartsOK, PartsOK', ChainInv, HandlerInv, TodoInv, mode # "starting" => todo = {},
           SettledInv, ServeInv, [Next]_vars
    PROVE  ServeInv'
  <1>0. \A u \in Uploads : state[u] = "none" => ~Versioned(u)
    BY NoneIsNew DEF ChainInv, ChainRow, Versioned
  <1>1. ASSUME LeaseStep \/ Tick \/ UNCHANGED vars PROVE ServeInv'
    <2>1. UNCHANGED <<held, state, object, snaps, mode, pc, reqs>>
      BY <1>1 DEF LeaseStep, Publish, Checkout, Renew, Release, ForceExpire, Tick, vars, rows,
                  files, tasks, env
    <2> QED BY <2>1, SameServe
  <1>2. ASSUME Start PROVE ServeInv'
    <2>1. UNCHANGED <<held, state, snaps>> /\ mode' # "serving" BY <1>2 DEF Start, rows
    <2> QED BY <2>1, NotServing
  <1>3. ASSUME Crash PROVE ServeInv'
    <2>1. UNCHANGED <<held, state, snaps>> /\ mode' # "serving" BY <1>3 DEF Crash, rows
    <2> QED BY <2>1, NotServing
  <1>4. ASSUME NEW u \in Uploads, DamageStaging(u) PROVE ServeInv'
    <2>1. UNCHANGED <<held, state, object, snaps, mode, pc, reqs>>
      BY <1>4 DEF DamageStaging, rows, tasks
    <2> QED BY <2>1, SameServe
  <1>5. ASSUME NEW u \in Uploads, DamageObject(u) \/ Revert(u) PROVE ServeInv'
    <2>1. UNCHANGED <<held, snaps>> /\ mode' # "serving" BY <1>5 DEF DamageObject, Revert, rows
    <2>2. \A x \in Uploads : state'[x] = state[x] \/ state'[x] \in {"READY", "FINALIZING"}
      BY <1>5 DEF DamageObject, Revert, rows, PartsOK, RowsOK
    <2> QED BY <2>1, <2>2, NotServing
  <1>6. ASSUME NEW u \in Uploads, Settle(u) \/ SettleFails(u) PROVE ServeInv'
    <2>1. snaps' = snaps /\ held \subseteq held' /\ mode' # "serving"
      BY <1>6 DEF Settle, SettleKeep, SettleQuarantine, SettlePromote, SettleReady,
                  SettleCommit, SettleDrop, SettleFails, Settling, Settled, NextRound, Hold, rows, env
    <2>2. \A x \in Uploads \ held' : state'[x] = state[x] \/ state'[x] \in {"READY", "COMMITTED"}
      BY <1>6 DEF Settle, SettleKeep, SettleQuarantine, SettlePromote, SettleReady,
                  SettleCommit, SettleDrop, SettleFails, Hold, rows, PartsOK, RowsOK
    <2> QED BY <2>1, <2>2, NotServing
  <1>7. ASSUME Gc PROVE ServeInv'
    <2>1. /\ UNCHANGED <<held, snaps>> /\ mode' # "serving"
          /\ \A x \in Uploads : state'[x] = state[x] \/ state[x] = "OPEN"
      BY <1>7 DEF Gc
    <2> QED BY <2>1, NotServing
  <1>8. ASSUME Open PROVE ServeInv'
    <2>1. UNCHANGED <<held, state, object, snaps, pc, reqs>> /\ mode = "gc"
      BY <1>8 DEF Open, rows, tasks
    <2>2. CASE mode' # "serving" BY <2>1, <2>2, NotServing
    <2>3. CASE mode' = "serving"
      <3>1. \A u \in Uploads : state[u] # "FINALIZING" BY <1>8, <2>3 DEF Open
      <3>2. \A u : Versioned(u)' <=> Versioned(u) BY <2>1 DEF Versioned
      <3>3. ASSUME NEW u \in Uploads \ held
            PROVE  /\ Versioned(u) => state[u] = "COMMITTED"
                   /\ state[u] \in {"READY", "COMMITTED"} => object[u] = Whole
        <4>1. Versioned(u) => state[u] \in {"READY", "COMMITTED"} BY <3>1 DEF ServeInv
        <4>2. state[u] \in {"READY", "COMMITTED"} => Verdict(u) = "keep"
          BY <2>1 DEF SettledInv, Pending
        <4>3. state[u] \in {"READY", "COMMITTED"} => object[u] = Whole BY <4>2, Verdicts
        <4>4. state[u] = "READY" => Receipt(u) = "absent" BY <4>2, Verdicts
        <4>5. Receipt(u) = "absent" => ~Versioned(u) BY DEF Receipt, Versioned
        <4> QED BY <4>1, <4>3, <4>4, <4>5
      <3>4. \A r \in Reqs : pc'[r] = "idle" BY <2>1 DEF HandlerInv, HandlerOK
      <3> QED BY <2>1, <3>1, <3>2, <3>3, <3>4 DEF ServeInv
    <2> QED BY <2>2, <2>3
  <1>9. ASSUME NEW d \in Devices, NEW u \in Uploads, Commit(d, u) PROVE ServeInv'
    <2>1. /\ UNCHANGED <<held, object, pc, reqs, mode>> /\ state[u] = "READY" /\ mode = "serving"
          /\ state' = [state EXCEPT ![u] = "COMMITTED"]
          /\ snaps' = [snaps EXCEPT ![current + 1] = u]
      BY <1>9 DEF Commit, Serving, files, tasks, env
    <2>2. \A x \in Uploads \ {u} : Versioned(x)' => Versioned(x)
      BY <2>1 DEF Versioned, PartsOK, RowsOK
    <2>3. state'[u] = "COMMITTED" /\ \A x \in Uploads \ {u} : state'[x] = state[x]
      BY <2>1 DEF PartsOK, RowsOK
    <2>4. \A x \in Uploads \ held' : /\ Versioned(x)' => state'[x] = "COMMITTED"
                                     /\ state'[x] \in {"READY", "COMMITTED"} => object'[x] = Whole
      BY <2>1, <2>2, <2>3 DEF ServeInv
    <2>5. \A r \in Reqs : pc'[r] = "fin_ready" => object'[reqs'[r].upload] = Whole
      BY <2>1 DEF ServeInv
    <2> QED BY <2>4, <2>5 DEF ServeInv
  <1>10. ASSUME NEW r \in Reqs, Request_(r) PROVE ServeInv'
    <2>1. UNCHANGED <<held, snaps, object>> /\ mode = "serving"
      BY <1>10 DEF Request_, CreateUpload, FinalizeBegin, Abort, PatchBegin, rows, files, Step, Serving
    <2>2. \A x \in Uploads :
            \/ state'[x] = state[x]
            \/ state[x] \in {"none", "OPEN", "FINALIZING", "READY"}
               /\ state'[x] \in {"OPEN", "ABORTED", "FINALIZING"}
      <3>1. ASSUME NEW d \in Devices, NEW u \in Uploads, NEW x \in Uploads, CreateUpload(r, d, u)
            PROVE  \/ state'[x] = state[x]
                   \/ state[x] \in {"none", "OPEN"} /\ state'[x] \in {"OPEN", "ABORTED"}
        BY <3>1 DEF CreateUpload, Expired
      <3>2. ASSUME NEW d \in Devices, NEW u \in Uploads, NEW x \in Uploads,
                   FinalizeBegin(r, d, u) \/ Abort(r, d, u)
            PROVE  \/ state'[x] = state[x]
                   \/ /\ state[x] \in {"OPEN", "FINALIZING", "READY"}
                      /\ state'[x] \in {"FINALIZING", "ABORTED"}
        BY <3>2 DEF FinalizeBegin, Abort, Abortable, PartsOK, RowsOK
      <3>3. ASSUME NEW d \in Devices, NEW u \in Uploads, NEW c \in Chunk, PatchBegin(r, d, u, c)
            PROVE  state' = state
        BY <3>3 DEF PatchBegin, rows
      <3> QED BY <1>10, <3>1, <3>2, <3>3 DEF Request_
    <2>3. \A x \in Uploads \ held : state[x] # "COMMITTED" => ~Versioned(x) BY <2>1 DEF ServeInv
    <2>4. \A x \in Reqs : pc'[x] = "fin_ready" => pc[x] = "fin_ready" /\ reqs'[x] = reqs[x]
      <3>0. pc \in [Reqs -> PCs] /\ reqs \in [Reqs -> Request] BY DEF PartsOK, TasksOK
      <3>1. \/ pc' = pc /\ reqs' = reqs
            \/ \E us, q : \E p \in {"remove", "fin_promote", "patch_write"} : Take(r, us, p, q)
        <4>1. ASSUME NEW d \in Devices, NEW u \in Uploads, CreateUpload(r, d, u)
              PROVE  (pc' = pc /\ reqs' = reqs) \/ \E us, q : Take(r, us, "remove", q)
          BY <4>1, Zenon DEF CreateUpload, tasks
        <4>2. ASSUME NEW d \in Devices, NEW u \in Uploads, FinalizeBegin(r, d, u)
              PROVE  \E us, q : Take(r, us, "fin_promote", q)
          BY <4>2, Zenon DEF FinalizeBegin
        <4>3. ASSUME NEW d \in Devices, NEW u \in Uploads, Abort(r, d, u)
              PROVE  \E us, q : Take(r, us, "remove", q)
          BY <4>3, Zenon DEF Abort
        <4>4. ASSUME NEW d \in Devices, NEW u \in Uploads, NEW c \in Chunk, PatchBegin(r, d, u, c)
              PROVE  \E us, q : Take(r, us, "patch_write", q)
          BY <4>4, Zenon DEF PatchBegin
        <4> QED BY <1>10, <4>1, <4>2, <4>3, <4>4, Zenon DEF Request_
      <3>2. ASSUME NEW us, NEW q, NEW p \in {"remove", "fin_promote", "patch_write"},
                   Take(r, us, p, q)
            PROVE  \A x \in Reqs : pc'[x] = "fin_ready" => pc[x] = "fin_ready" /\ reqs'[x] = reqs[x]
        BY <3>0, <3>2 DEF Take
      <3> QED BY <3>1, <3>2
    <2>5. \A x \in Reqs : pc'[x] = "fin_ready" => object'[reqs'[x].upload] = Whole
      BY <2>1, <2>4 DEF ServeInv
    <2> QED BY <2>1, <2>2, <2>3, <2>5, StillServing
  <1>11. ASSUME NEW r \in Reqs, Work(r) \/ Drop(r), NEW w, w = reqs[r].upload PROVE ServeInv'
    <2>0. HandlerOK(r) /\ mode = "serving" /\ UNCHANGED <<held, snaps>>
      BY <1>11 DEF HandlerInv, Work, RemoveStaging, PatchWrite, PatchRecord, PatchQuarantine,
                   PatchRefused, PatchCut, Promote, FinalizeReady, FinalizeRefused, Drop, rows, Step,
                   Serving
    <2>1. /\ pc[r] \in PatchPCs => w \in Uploads /\ state[w] = "OPEN"
          /\ pc[r] \in FinPCs => w \in Uploads /\ state[w] = "FINALIZING"
      BY <1>11, <2>0, Locals DEF HandlerOK
    <2>2. \A x \in Reqs \ {r} : pc'[x] = pc[x] /\ reqs'[x] = reqs[x]
      BY <1>11 DEF Work, RemoveStaging, PatchWrite, PatchRecord, PatchQuarantine,
                   PatchRefused, PatchCut, Promote, FinalizeReady, FinalizeRefused, Drop, Done, Goto,
                   PartsOK, TasksOK
    <2>3. \A x \in Uploads \ held : state[x] # "COMMITTED" => ~Versioned(x) BY <2>0 DEF ServeInv
    <2>4. \A x \in Reqs : pc[x] = "fin_ready" => object[reqs[x].upload] = Whole
      BY <2>0 DEF ServeInv
    <2>5. ASSUME RemoveStaging(r) \/ PatchWrite(r) \/ PatchRecord(r) \/ PatchRefused(r) \/ PatchCut(r)
                 \/ Drop(r)
          PROVE  ServeInv'
      <3>1. UNCHANGED <<state, object>>
        BY <2>5 DEF RemoveStaging, PatchWrite, PatchRecord, PatchRefused, PatchCut, Drop, rows, files
      <3>2. pc'[r] # "fin_ready"
        BY <2>5 DEF RemoveStaging, PatchWrite, PatchRecord, PatchRefused, PatchCut, Drop, Done, Goto,
                    Step, PartsOK, TasksOK
      <3> QED BY <2>0, <2>2, <2>4, <3>1, <3>2, StillServing
    <2>6. ASSUME PatchQuarantine(r) \/ FinalizeReady(r) \/ FinalizeRefused(r) PROVE ServeInv'
      <3>1. /\ object' = object /\ pc[r] \in PatchPCs \cup FinPCs /\ Done(r)
        BY <2>6 DEF PatchQuarantine, FinalizeReady, FinalizeRefused, files, Step, PatchPCs, FinPCs
      <3>2. pc'[r] # "fin_ready" BY <3>1 DEF Done, PartsOK, TasksOK
      <3>3. /\ \A x \in Uploads \ {w} : state'[x] = state[x]
            /\ state'[w] = "READY" => object[w] = Whole
            /\ state'[w] \in {"READY", "QUARANTINED"}
        <4>0. w \in Uploads /\ state[w] # "COMMITTED" /\ state \in [Uploads -> States]
          BY <2>1, <3>1 DEF PartsOK, RowsOK
        <4>1. CASE FinalizeReady(r)
          <5>1. pc[r] = "fin_ready" /\ state' = [state EXCEPT ![w] = "READY"]
            BY <1>11, <2>1, <4>1 DEF FinalizeReady, Step, FinPCs
          <5>2. object[w] = Whole BY <1>11, <2>4, <5>1
          <5> QED BY <4>0, <5>1, <5>2
        <4>2. CASE PatchQuarantine(r) \/ FinalizeRefused(r)
          <5>1. state' = [state EXCEPT ![w] = "QUARANTINED"]
            BY <1>11, <4>2 DEF PatchQuarantine, FinalizeRefused, Quarantine
          <5>2. state'[w] = "QUARANTINED" BY <4>0, <5>1
          <5>3. \A x \in Uploads \ {w} : state'[x] = state[x] BY <4>0, <5>1
          <5> QED BY <5>2, <5>3
        <4> QED BY <2>6, <4>1, <4>2
      <3>4. state[w] # "COMMITTED" BY <2>1, <3>1
      <3>5. \A x \in Reqs : pc'[x] = "fin_ready" => object'[reqs'[x].upload] = Whole
        BY <2>2, <2>4, <3>1, <3>2
      <3> QED BY <2>0, <2>3, <3>1, <3>3, <3>4, <3>5, StillServing
    <2>7. ASSUME Promote(r) PROVE ServeInv'
      <3>1. pc[r] \in FinPCs /\ state' = state BY <2>7 DEF Promote, FinPCs, rows
      <3>2. w \in Uploads /\ state[w] = "FINALIZING" BY <2>1, <3>1
      <3>3. /\ \A x \in Uploads \ {w} : object'[x] = object[x]
            /\ object'[w] = object[w] \/ object'[w] = Whole
        BY <1>11, <2>7, <3>2 DEF Promote, Renamed, files, PartsOK, FilesOK
      <3>4. pc'[r] = "fin_ready" => reqs'[r].upload = w /\ object'[w] = Whole
        BY <1>11, <2>7, <3>2 DEF Promote, Renamed, files, Goto, Done, PartsOK, FilesOK, TasksOK
      <3>5. ASSUME NEW x \in Reqs, pc'[x] = "fin_ready" PROVE object'[reqs'[x].upload] = Whole
        <4>1. CASE x = r BY <3>4, <3>5, <4>1
        <4>2. CASE x # r
          <5>1. pc[x] = "fin_ready" /\ reqs'[x] = reqs[x] BY <2>2, <3>5, <4>2
          <5>2. reqs[x].upload \in Uploads BY <5>1, Locals DEF FinPCs
          <5>3. object[reqs[x].upload] = Whole BY <2>4, <5>1
          <5> QED BY <3>3, <5>1, <5>2, <5>3
        <4> QED BY <4>1, <4>2
      <3> QED BY <2>0, <2>3, <3>1, <3>2, <3>3, <3>5, StillServing
    <2> QED BY <1>11, <2>5, <2>6, <2>7 DEF Work
  <1> QED BY <1>1, <1>2, <1>3, <1>4, <1>5, <1>6, <1>7, <1>8, <1>9, <1>10, <1>11 DEF Next, Startup

----------------------------------------------------------------------------
(* The theorems about bytes, causes and the pass.                          *)

\* Everything the theorems below rest on.
DiskInv ==
    /\ HandlerInv
    /\ TodoInv /\ (mode # "starting" => todo = {})
    /\ BytesInv /\ CauseInv
    /\ SettledInv /\ ServeInv

\* It holds at first: nothing was uploaded and nothing runs.
LEMMA InitDisk == Init => DiskInv
  <1> SUFFICES ASSUME Init PROVE DiskInv OBVIOUS
  <1>1. HandlerInv
    <2>1. \A r \in Reqs : pc[r] = "idle" /\ reqs[r] = Idle BY DEF Init
    <2>2. \A r \in Reqs : WorksOn(r) = {} BY <2>1, IdleWorksOnNothing
    <2>3. \A r \in Reqs : HandlerOK(r) BY <2>1, <2>2 DEF HandlerOK, PatchPCs, FinPCs
    <2> QED BY <2>2, <2>3 DEF HandlerInv
  <1>2. TodoInv /\ (mode # "starting" => todo = {}) BY DEF Init, TodoInv
  <1>3. BytesInv
    <2>1. \A u \in Uploads : UploadBytes(u) BY DEF Init, UploadBytes
    <2>2. \A r \in Reqs : HandlerBytes(r) BY DEF Init, HandlerBytes
    <2> QED BY <2>1, <2>2 DEF BytesInv
  <1>4. CauseInv BY DEF Init, CauseInv, CauseOf
  <1>5. SettledInv BY DEF Init, SettledInv
  <1>6. ServeInv
    <2>1. \A u \in Uploads : ~Versioned(u) BY NoneIsNew DEF Init, Versioned
    <2> QED BY <2>1 DEF Init, ServeInv
  <1> QED BY <1>1, <1>2, <1>3, <1>4, <1>5, <1>6 DEF DiskInv

\* Every step keeps it and, without a fault, moves every upload forward.
LEMMA DiskStep ==
    ASSUME Inv, Inv', DiskInv, [Next]_vars
    PROVE  DiskInv' /\ (faults' = faults => \A u \in Uploads : MoveOK(u))
  <1>1. PartsOK /\ ChainInv BY PartsAreTypeOK DEF Inv
  <1>2. PartsOK'
    <2>1. TypeOK' /\ LocalInv' BY DEF Inv
    <2>2. (TypeOK /\ LocalInv)' => PartsOK' BY PartsAreTypeOK, PTL
    <2> QED BY <2>1, <2>2
  <1>3. HandlerInv'
    <2>1. CASE UNCHANGED vars
      BY <1>1, <2>1, AllKeep DEF DiskInv, vars, env, tasks, rows
    <2>2. CASE Next
      BY <1>1, <2>2, WorldHandlers, StartupHandlers, RequestHandlers, WorkHandlers DEF DiskInv, Next
    <2> QED BY <2>1, <2>2
  <1>4. TodoInv' /\ (mode' # "starting" => todo' = {}) BY <1>1, TodoStep DEF DiskInv
  <1>5. BytesInv' BY <1>1, <1>2, BytesStep DEF DiskInv
  <1>6. CauseInv' BY <1>1, <1>2, CauseStep DEF DiskInv
  <1>7. SettledInv' BY <1>1, SettledStep DEF DiskInv
  <1>8. ServeInv' BY <1>1, <1>2, ServeStep DEF DiskInv
  <1>9. faults' = faults => \A u \in Uploads : MoveOK(u) BY <1>1, ForwardStep DEF DiskInv
  <1> QED BY <1>3, <1>4, <1>5, <1>6, <1>7, <1>8, <1>9 DEF DiskInv

\* The inductive invariant about bytes, causes and the pass.
THEOREM DiskInvariance == Spec => []DiskInv
  <1>1. Init => DiskInv BY InitDisk
  <1>2. Inv /\ Inv' /\ DiskInv /\ [Next]_vars => DiskInv' BY DiskStep
  <1> QED BY <1>1, <1>2, Invariance, PTL DEF Spec

\* Without a fault every step moves an upload only as the trigger
\* v2_uploads_state_moves_forward allows and leaves the objects of COMMITTED and
\* all files of QUARANTINED uploads alone.
THEOREM UploadsMoveForward == Spec => MovesForward
  <1>1. Inv /\ Inv' /\ DiskInv /\ [Next]_vars =>
          [faults' = faults => \A u \in Uploads :
             /\ state'[u] # state[u] => <<state[u], state'[u]>> \in Moves
             /\ state[u] \in {"COMMITTED", "QUARANTINED"} => object'[u] = object[u]
             /\ state[u] = "QUARANTINED" => staging'[u] = staging[u]]_vars
    BY DiskStep DEF MoveOK
  <1> QED BY <1>1, Invariance, DiskInvariance, PTL DEF Spec, MovesForward

\* While no file is damaged the bytes behind every row are on disk, through every
\* crash, disconnect and interleaving of handlers (patch, finalize, the pass).
THEOREM BytesKept == Spec => []BytesOnDisk
  <1>1. DiskInv => BytesOnDisk
    BY DEF DiskInv, BytesInv, UploadBytes, BytesOnDisk
  <1> QED BY <1>1, DiskInvariance, PTL

\* While nothing is damaged only the client's own bytes quarantine an upload.
THEOREM QuarantineJustified == Spec => []QuarantineHasCause
  <1>1. DiskInv => QuarantineHasCause
    BY DEF DiskInv, CauseInv, CauseOf, HasBad, QuarantineHasCause
  <1> QED BY <1>1, DiskInvariance, PTL

\* Whatever was damaged while the server was down, what read_snapshot serves
\* hashes to its terms.
THEOREM ServedWhole == Spec => []ServedIsIntact
  <1>1. Inv /\ DiskInv => ServedIsIntact
    <2> SUFFICES ASSUME Inv, DiskInv, mode = "serving", NEW v \in Versions, Served(v)
                 PROVE  object[snaps[v]] = Whole
      BY DEF ServedIsIntact
    <2>1. snaps[v] \in Uploads \ held /\ Versioned(snaps[v])
      BY DEF Inv, TypeOK, Served, Versioned
    <2> QED BY <2>1 DEF DiskInv, ServeInv
  <1> QED BY <1>1, Invariance, DiskInvariance, PTL

\* "A second pass changes nothing": when the pass has settled every upload, the
\* table keeps each one that is not quarantined (the reconciler's contract).
THEOREM SecondPassChangesNothing == Spec => []SecondPassKeeps
  <1>1. DiskInv => SecondPassKeeps
    BY DEF DiskInv, SettledInv, SecondPassKeeps, Pending
  <1> QED BY <1>1, DiskInvariance, PTL

\* Whatever the disk came back as, settle() needs at most STEPS rounds for an
\* upload: its "did not settle" is never reached.
THEOREM PassSettles == Spec => []SettlesInSteps
  <1>1. Init => RoundsInv BY DEF Init, RoundsInv
  <1>2. Inv /\ DiskInv /\ RoundsInv /\ [Next]_vars => RoundsInv'
    BY RoundsStep, PartsAreTypeOK DEF Inv, DiskInv
  <1>3. Inv /\ RoundsInv => SettlesInSteps
    <2> SUFFICES ASSUME Inv, RoundsInv, NEW u \in todo PROVE rounds[u] < STEPS
      BY DEF SettlesInSteps
    <2>1. u \in Uploads /\ rounds[u] \in Nat BY DEF Inv, TypeOK
    <2>2. rounds[u] + RoundsLeft(u) < STEPS BY <2>1 DEF RoundsInv
    <2>3. RoundsLeft(u) \in 0 .. 3 BY DEF RoundsLeft
    <2> QED BY <2>1, <2>2, <2>3 DEF STEPS
  <1> QED BY <1>1, <1>2, <1>3, Invariance, DiskInvariance, PTL DEF Spec
============================================================================
