------------------------ MODULE FleetTransferProofs ------------------------
(***************************************************************************)
(* Proofs about FleetTransfer, for any number of uploads, devices, chunks  *)
(* and power losses.                                                       *)
(***************************************************************************)
EXTENDS FleetTransfer, FiniteSetTheorems, TLAPS

----------------------------------------------------------------------------
(* The parts of the inductive invariant.                                   *)

\* What the proofs need of the types; tokens are numbers, one of them the largest.
Types ==
    /\ current \in 0..Cardinality(Uploads)
    /\ manifests \in [Versions -> Uploads \cup {None}]
    /\ files \in [Versions -> [of : Uploads, chunks : 0..Size] \cup {None}]
    /\ token \in [Uploads -> Nat]
    /\ held \subseteq Uploads
    /\ status \in [Uploads -> {"open", "committed", "aborted", None}]
    /\ staging \in [Uploads -> 0..Size \cup {None}]
    /\ received \in [Uploads -> 0..Size]
    /\ base \in [Uploads -> 0..(Cardinality(Uploads) - 1)]
    /\ client \in [Uploads -> ClientPc]
    /\ commit \in [Uploads -> CommitPc]
    /\ raced \subseteq Versions

Highest ==
    \E m \in {0} \cup {token[u] : u \in Uploads} : \A u \in Uploads : token[u] <= m

\* Where a client that has sent its commit may stand.
Sent == {"committing", "release", "done"}

\* Client and server of an upload keep step: nothing before the commit happens
\* to it once it was sent, and it is sent under a lease.
StepInv ==
    \A u \in Uploads :
      /\ commit[u] # "none" \/ status[u] = "committed" => client[u] \in Sent
      /\ client[u] \in {"idle", "lease"} => token[u] = 0
      /\ client[u] \in {"open", "create", "stage", "record", "commit"} \/ commit[u] # "none"
            => token[u] # 0
      /\ client[u] = "record" => received[u] < Size
      /\ client[u] = "record" => staging[u] = None \/ staging[u] <= received[u] + 1
      /\ client[u] = "stage" => staging[u] = None \/ staging[u] <= received[u]

\* A transaction that has read holds the version it read: no other commits.
TxInv ==
    \A u \in Uploads : base[u] <= current /\ (commit[u] \in InTx => current = base[u])

\* Nobody can publish on the current version with a token older than one of the
\* chain: whatever was published since its push has moved the version on.
TokenInv ==
    \A u \in Uploads : token[u] # 0 /\ base[u] = current =>
        \A v \in 1..current : token[manifests[v]] < token[u]

ChainInv == TxInv /\ TokenInv /\ OneChain

Checked == {"hash", "begin"} \cup InTx \cup Late

\* Unless a lease ended under a commit of the version, a commit past its check is
\* the holder's, so there is one, and the version it writes is the next one.
LeaseInv ==
    /\ \A u, w \in held : u = w
    /\ \A u \in Uploads : commit[u] \in Checked /\ Target(u) \notin raced => u \in held
    /\ \A u \in Uploads : commit[u] \in Late /\ Target(u) \notin raced => current = base[u]

\* What was hashed is what gets renamed, and what is published is the file.
FileInv ==
    /\ \A u \in Uploads : commit[u] \in {"begin", "remove", "rename"} => staging[u] = Size
    /\ \A u \in Uploads : commit[u] \in {"insert", "publish"} /\ Target(u) \notin raced =>
          files[Target(u)] = Whole(u)

BlobInv == LeaseInv /\ FileInv /\ UnracedBlobKept

----------------------------------------------------------------------------
(* Tokens, torn files.                                                     *)

\* A new lease gets a token above every one that was issued.
LEMMA TokenAbove ==
  ASSUME Types, Highest
  PROVE  NextToken \in Nat /\ \A w \in Uploads : token[w] < NextToken
  <1> DEFINE S == {0} \cup {token[u] : u \in Uploads}
  <1>1. PICK m \in S : \A u \in Uploads : token[u] <= m
        BY DEF Highest
  <1>2. S \subseteq Nat
        BY DEF Types
  <1>3. \A y \in S : m >= y
        BY <1>1, <1>2 DEF Types
  <1> HIDE DEF S
  <1>4. Max(S) \in S /\ \A y \in S : Max(S) >= y
        BY <1>1, <1>3 DEF Max
  <1>5. NextToken = 1 + Max(S)
        BY DEF NextToken, S
  <1>6. \A w \in Uploads : token[w] \in S
        BY DEF S
  <1>7. Max(S) \in Nat
        BY <1>2, <1>4
  <1>8. ASSUME NEW w \in Uploads PROVE token[w] < NextToken
    <2>1. token[w] \in Nat /\ Max(S) >= token[w]
          BY <1>2, <1>4, <1>6
    <2> QED BY <1>5, <1>7, <2>1
  <1> QED BY <1>5, <1>7, <1>8

\* A power loss only shortens a staging file or loses it.
LEMMA TornShorter ==
  ASSUME Types, NEW u \in Uploads, NEW t \in Torn(u)
  PROVE  /\ t \in [Uploads -> 0..Size \cup {None}]
         /\ \A w \in Uploads : \/ t[w] = staging[w] \/ t[w] = None
                               \/ staging[w] \in 0..Size \ {None} /\ t[w] \in 0..staging[w]
  <1>1. CASE staging[u] = None
        BY <1>1 DEF Torn, Types
  <1>2. CASE staging[u] # None
    <2>1. PICK k \in {None} \cup 0..staging[u] : t = [staging EXCEPT ![u] = k]
          BY <1>2 DEF Torn
    <2>2. staging[u] \in 0..Size \ {None} /\ Size \in Nat
          BY <1>2, ConstantsOK DEF Types
    <2>3. k = None \/ (k \in 0..Size /\ k \in 0..staging[u])
          BY <2>1, <2>2
    <2> QED BY <2>1, <2>2, <2>3 DEF Types
  <1> QED BY <1>1, <1>2

\* There is a number of versions.
LEMMA CountIsNat == Cardinality(Uploads) \in Nat
  BY ConstantsOK, FS_CardinalityType

----------------------------------------------------------------------------
(* Types, and the order of a client's steps.                               *)

Base == Types /\ Highest /\ StepInv

\* Nothing is pushed at the start.
LEMMA InitBase == Init => Base
  <1> SUFFICES ASSUME Init PROVE Base
      OBVIOUS
  <1> USE CountIsNat, ConstantsOK DEF Init
  <1>0. Cardinality(Uploads) > 0 \/ Uploads = {}
        BY FS_EmptySet
  <1>1. base \in [Uploads -> 0..(Cardinality(Uploads) - 1)]
        BY <1>0
  <1>2. /\ current \in 0..Cardinality(Uploads)
        /\ client \in [Uploads -> ClientPc] /\ commit \in [Uploads -> CommitPc]
        /\ received \in [Uploads -> 0..Size]
        BY DEF ClientPc, CommitPc
  <1>5. Types
        BY <1>1, <1>2 DEF Types
  <1>3. Highest
        BY DEF Highest
  <1>4. StepInv
        BY DEF StepInv
  <1> QED BY <1>3, <1>4, <1>5 DEF Base

\* Every step keeps the types and the order.
LEMMA NextBase == Base /\ [Next]_vars => Base'
  <1> SUFFICES ASSUME Base, [Next]_vars PROVE Base'
      OBVIOUS
  <1>n. Cardinality(Uploads) \in Nat /\ Size \in Nat
        BY CountIsNat, ConstantsOK
  <1>v. \A us : LeftRunning(us) \subseteq Versions
        BY <1>n DEF Base, Types, LeftRunning, Target, Versions
  <1> USE ConstantsOK DEF Base, Types, StepInv, ClientPc, CommitPc, InTx, Late
  <1>1. ASSUME NEW u \in Uploads, NEW d \in Devices, NEW b \in 0..current, Push(u, d, b)
        PROVE  Base'
    <2>1. /\ UNCHANGED <<current, manifests, files, token, held, status, received, staging, commit, raced>>
          /\ client[u] = "idle" /\ client' = [client EXCEPT ![u] = "lease"]
          /\ base' = [base EXCEPT ![u] = b]
          /\ b \in 0..(Cardinality(Uploads) - 1)
          BY <1>1, <1>n DEF Push, At, Goto, snapshots, leases, sessions
    <2>2. Types'
          BY <2>1
    <2>3. Highest' /\ StepInv'
          BY <2>1 DEF Highest, Sent
    <2> QED BY <2>2, <2>3
  <1>2. ASSUME NEW u \in Uploads, Acquire(u) PROVE Base'
    <2>1. NextToken \in Nat /\ \A w \in Uploads : token[w] < NextToken
          BY TokenAbove
    <2>2. /\ token' = [token EXCEPT ![u] = NextToken] /\ held' = {u}
          /\ client[u] = "lease" /\ client' = [client EXCEPT ![u] = "open"]
          /\ UNCHANGED <<current, manifests, files, status, received, staging, base, commit, raced>>
          BY <1>2 DEF Acquire, At, Goto, snapshots, sessions, call
    <2>3. token' \in [Uploads -> Nat] /\ \A w \in Uploads : w # u => token'[w] = token[w]
          BY <2>1, <2>2
    <2>4. Highest'
      <3>1. token'[u] = NextToken /\ \A w \in Uploads : token'[w] <= token'[u]
            BY <2>1, <2>2, <2>3
      <3> QED BY <3>1 DEF Highest
    <2>5. Types'
          BY <2>2, <2>3
    <2>6. StepInv'
          BY <2>1, <2>2, <2>3 DEF Sent
    <2> QED BY <2>4, <2>5, <2>6
  <1>3. ASSUME NEW u \in Uploads, OpenRow(u) PROVE Base'
        BY <1>3 DEF OpenRow, At, Goto, Serve, Sent, snapshots, leases, sessions, call, Highest
  <1>4. ASSUME NEW u \in Uploads, OpenFile(u) PROVE Base'
        BY <1>4 DEF OpenFile, At, Goto, Serve, Sent, snapshots, leases, sessions, call, Highest
  <1>5. ASSUME NEW u \in Uploads, OpenFails(u) PROVE Base'
        BY <1>5 DEF OpenFails, At, Goto, Serve, Sent, snapshots, leases, sessions, call, Highest
  <1>6. ASSUME NEW u \in Uploads, ChunkWrite(u) PROVE Base'
        BY <1>6 DEF ChunkWrite, At, Goto, Serve, Sent, snapshots, leases, sessions, call, Highest
  <1>7. ASSUME NEW u \in Uploads, ChunkRecord(u) PROVE Base'
        BY <1>7 DEF ChunkRecord, At, Goto, Serve, Sent, snapshots, leases, sessions, call, Highest
  <1>8. ASSUME NEW u \in Uploads, AbortRemove(u) PROVE Base'
        BY <1>8 DEF AbortRemove, At, Goto, Serve, Sent, snapshots, leases, sessions, call, Highest
  <1>9. ASSUME NEW u \in Uploads, AbortMark(u) PROVE Base'
        BY <1>9 DEF AbortMark, At, Goto, Serve, Sent, snapshots, leases, sessions, call, Highest
  <1>10. ASSUME NEW u \in Uploads, SendCommit(u) PROVE Base'
        BY <1>10 DEF SendCommit, At, Goto, Serve, Sent, snapshots, leases, sessions, call, Highest
  <1>11. ASSUME NEW u \in Uploads, Answered(u) PROVE Base'
        BY <1>11 DEF Answered, At, Goto, Serve, Sent, snapshots, leases, sessions, call, Highest
  <1>12. ASSUME NEW u \in Uploads, Release(u) PROVE Base'
        BY <1>12, <1>v DEF Release, At, Goto, Serve, Sent, snapshots, leases, sessions, call, Highest
  <1>13. ASSUME NEW u \in Uploads, RequestFails(u) PROVE Base'
    <2>1. /\ AfterError(client[u]) \in {"abort", "done", "release"}
          /\ client[u] \in Sent => AfterError(client[u]) \in Sent
          BY DEF AfterError, Sent
    <2>2. /\ UNCHANGED <<current, manifests, files, token, held, status, received, staging,
                         base, commit, raced>>
          /\ client' = [client EXCEPT ![u] = AfterError(client[u])]
          BY <1>13 DEF RequestFails, Goto, snapshots, leases, sessions, call
    <2>3. Types'
          BY <2>1, <2>2
    <2>4. Highest' /\ StepInv'
          BY <2>1, <2>2 DEF Highest, Sent
    <2> QED BY <2>3, <2>4
  <1>14. ASSUME NEW u \in Uploads, Quit(u) PROVE Base'
        BY <1>14 DEF Quit, At, Goto, Serve, Sent, snapshots, leases, sessions, call, Highest
  <1>15. ASSUME NEW u \in Uploads, CommitCheck(u) PROVE Base'
        BY <1>15 DEF CommitCheck, At, Goto, Serve, Sent, snapshots, leases, sessions, call, Highest
  <1>16. ASSUME NEW u \in Uploads, CommitHash(u) PROVE Base'
        BY <1>16 DEF CommitHash, At, Goto, Serve, Sent, snapshots, leases, sessions, call, Highest
  <1>17. ASSUME NEW u \in Uploads, CommitBegin(u) PROVE Base'
        BY <1>17 DEF CommitBegin, At, Goto, Serve, Sent, snapshots, leases, sessions, call, Highest
  <1>18. ASSUME NEW u \in Uploads, CommitRemove(u) PROVE Base'
        BY <1>18, ZenonT(60) DEF CommitRemove, RemoveFile, Serve, Highest, leases, sessions, call
  <1>19. ASSUME NEW u \in Uploads, CommitRename(u) PROVE Base'
    <2>1. /\ files' = [files EXCEPT ![Target(u)] = [of |-> u, chunks |-> staging[u]]]
          /\ staging' = [staging EXCEPT ![u] = None] /\ staging[u] # None
          /\ commit[u] # "none" /\ commit' = [commit EXCEPT ![u] = "insert"]
          /\ UNCHANGED <<current, manifests, token, held, status, received, base, client, raced>>
          BY <1>19 DEF CommitRename, RenameFile, Serve, leases, call
    <2>2. files' \in [Versions -> [of : Uploads, chunks : 0..Size] \cup {None}]
          BY <2>1
    <2>3. Types'
          BY <2>1, <2>2
    <2>4. Highest' /\ StepInv'
          BY <2>1 DEF Highest
    <2> QED BY <2>3, <2>4
  <1>20. ASSUME NEW u \in Uploads, CommitInsert(u) PROVE Base'
        BY <1>20 DEF CommitInsert, At, Goto, Serve, Sent, snapshots, leases, sessions, call, Highest
  <1>21. ASSUME NEW u \in Uploads, CommitPublish(u) PROVE Base'
    <2>1. /\ commit[u] = "publish" /\ commit' = [commit EXCEPT ![u] = "none"]
          /\ manifests' = [manifests EXCEPT ![Target(u)] = u] /\ current' = Target(u)
          /\ status' = [status EXCEPT ![u] = "committed"]
          /\ UNCHANGED <<files, token, held, received, staging, base, client, raced>>
          BY <1>21 DEF CommitPublish, Serve, leases, call
    <2>2. Target(u) \in Versions
          BY <1>n DEF Target, Versions
    <2>3. Types'
      <3>1. current' \in 0..Cardinality(Uploads)
            BY <1>n, <2>1, <2>2 DEF Versions
      <3>2. manifests' \in [Versions -> Uploads \cup {None}]
            BY <2>1, <2>2
      <3>3. /\ commit' \in [Uploads -> CommitPc]
            /\ status' \in [Uploads -> {"open", "committed", "aborted", None}]
            BY <2>1
      <3> QED BY <2>1, <3>1, <3>2, <3>3
    <2>4. Highest' /\ StepInv'
          BY <2>1 DEF Highest
    <2> QED BY <2>3, <2>4
  <1>22. ASSUME NEW u \in Uploads, CommitStops(u) PROVE Base'
        BY <1>22 DEF CommitStops, At, Goto, Serve, Sent, snapshots, leases, sessions, call, Highest
  <1>23. ASSUME NEW u \in Uploads, CommitDropped(u) PROVE Base'
        BY <1>23 DEF CommitDropped, At, Goto, Serve, Sent, snapshots, leases, sessions, call, Highest
  <1>24. ASSUME NEW u \in Uploads, LateRemove(u) PROVE Base'
        BY <1>24, ZenonT(60) DEF LateRemove, RemoveFile, Serve, Highest, leases, sessions, call
  <1>25. ASSUME NEW u \in Uploads, LateRename(u) PROVE Base'
    <2>1. /\ files' = [files EXCEPT ![Target(u)] = [of |-> u, chunks |-> staging[u]]]
          /\ staging' = [staging EXCEPT ![u] = None] /\ staging[u] # None
          /\ commit[u] # "none" /\ commit' = [commit EXCEPT ![u] = "none"]
          /\ UNCHANGED <<current, manifests, token, held, status, received, base, client, raced>>
          BY <1>25 DEF LateRename, RenameFile, Serve, leases, call
    <2>2. files' \in [Versions -> [of : Uploads, chunks : 0..Size] \cup {None}]
          BY <2>1
    <2>3. Types'
          BY <2>1, <2>2
    <2>4. Highest' /\ StepInv'
          BY <2>1 DEF Highest
    <2> QED BY <2>3, <2>4
  <1>26. ASSUME NEW u \in Uploads, Expire(u) PROVE Base'
        BY <1>26 DEF Expire, At, Goto, Serve, Sent, snapshots, leases, sessions, call, Highest
  <1>27. ASSUME NEW d \in Devices, Revoke(d) PROVE Base'
        BY <1>27, <1>v DEF Revoke, At, Goto, Serve, Sent, snapshots, leases, sessions, call, Highest
  <1>28. CASE Crash
    <2>1. /\ UNCHANGED <<current, manifests, files, token, held, status, received, base, raced>>
          /\ commit' = [u \in Uploads |-> "none"]
          BY <1>28 DEF Crash, snapshots, leases, call
    <2>2. /\ client' \in [Uploads -> ClientPc]
          /\ \A u \in Uploads : \/ client'[u] = client[u]
                                \/ client[u] \notin Sent /\ client'[u] \in {"abort", "done", "release"}
      <3>1. client' = [u \in Uploads |-> IF client[u] \in {"create", "record", "aborting"}
                                         THEN AfterError(client[u]) ELSE client[u]]
            BY <1>28 DEF Crash
      <3>2. \A u \in Uploads : client[u] \in {"create", "record", "aborting"} =>
               client[u] \notin Sent /\ AfterError(client[u]) \in {"abort", "done", "release"}
            BY DEF AfterError, Sent
      <3> QED BY <3>1, <3>2
    <2>3. /\ staging' \in [Uploads -> 0..Size \cup {None}]
          /\ \A u \in Uploads : \/ staging'[u] = staging[u] \/ staging'[u] = None
                                \/ staging[u] \in 0..Size \ {None} /\ staging'[u] \in 0..staging[u]
          BY <1>28, TornShorter DEF Crash
    <2>4. Types'
          BY <2>1, <2>2, <2>3
    <2>5. Highest'
          BY <2>1 DEF Highest
    <2>6. ASSUME NEW u \in Uploads, client'[u] = "stage"
          PROVE  staging'[u] = None \/ staging'[u] <= received'[u]
      <3>1. client[u] = "stage" /\ received'[u] \in 0..Size
            BY <2>1, <2>2, <2>6
      <3>2. staging[u] = None \/ staging[u] <= received[u]
            BY <3>1
      <3> QED BY <1>n, <2>1, <2>3, <3>1, <3>2
    <2>7. \A u \in Uploads : client'[u] # "record"
      <3>1. \A u \in Uploads : client'[u] = IF client[u] \in {"create", "record", "aborting"}
                                           THEN AfterError(client[u]) ELSE client[u]
            BY <1>28 DEF Crash
      <3> QED BY <3>1 DEF AfterError
    <2>8. StepInv'
          BY <2>1, <2>2, <2>6, <2>7
    <2> QED BY <2>4, <2>5, <2>8
  <1>29. CASE UNCHANGED vars
        BY <1>29 DEF vars, Highest
  <1> QED BY <1>1, <1>2, <1>3, <1>4, <1>5, <1>6, <1>7, <1>8, <1>9, <1>10, <1>11,
         <1>12, <1>13, <1>14, <1>15, <1>16, <1>17, <1>18, <1>19, <1>20, <1>21, <1>22,
         <1>23, <1>24, <1>25, <1>26, <1>27, <1>28, <1>29 DEF Next, ClientStep,
         CommitStep

----------------------------------------------------------------------------
(* The chain of versions.                                                  *)

\* A step that publishes, pushes and leases nothing.
Same ==
    /\ UNCHANGED <<current, manifests, base, token>>
    /\ \A u \in Uploads : commit'[u] \in InTx => commit[u] \in InTx
    /\ \A u \in Uploads : status[u] = "committed" => status'[u] = "committed"

\* There is no version at the start.
LEMMA InitChain == Init => ChainInv
  BY CountIsNat DEF Init, ChainInv, TxInv, TokenInv, OneChain, InTx, Versions

\* Every step keeps the history one chain.
LEMMA NextChain == Base /\ ChainInv /\ [Next]_vars => ChainInv'
  <1> SUFFICES ASSUME Base, ChainInv, [Next]_vars PROVE ChainInv'
      OBVIOUS
  <1>n. Cardinality(Uploads) \in Nat /\ Size \in Nat
        BY CountIsNat, ConstantsOK
  <1> USE ConstantsOK DEF Base, Types, StepInv, ChainInv, CommitPc, InTx, Late
  <1>p. \A v \in 1..current : v \in Versions /\ manifests[v] \in Uploads
    <2>1. \A v \in 1..current : v \in Versions /\ v <= current
          BY <1>n DEF Versions
    <2> QED BY <2>1 DEF OneChain
  <1>k. ASSUME Same PROVE ChainInv'
    <2>1. TxInv'
          BY <1>k DEF Same, TxInv
    <2>2. TokenInv'
          BY <1>k DEF Same, TokenInv
    <2>3. OneChain'
          BY <1>k, <1>p DEF Same, OneChain, Target
    <2> QED BY <2>1, <2>2, <2>3
  <1>1. ASSUME NEW u \in Uploads, NEW d \in Devices, NEW b \in 0..current, Push(u, d, b)
        PROVE  ChainInv'
    <2>1. /\ UNCHANGED <<current, manifests, token, status, commit>>
          /\ base' = [base EXCEPT ![u] = b] /\ b <= current /\ client[u] = "idle"
          BY <1>1 DEF Push, At, snapshots, leases, sessions
    <2>2. commit[u] = "none" /\ token[u] = 0 /\ status[u] # "committed"
          BY <2>1 DEF Sent
    <2>3. \A w \in Uploads : w # u => base'[w] = base[w]
          BY <2>1
    <2>4. TxInv'
          BY <2>1, <2>2, <2>3 DEF TxInv
    <2>5. TokenInv'
          BY <2>1, <2>2, <2>3 DEF TokenInv
    <2>6. \A v \in 1..current : manifests[v] # u
          BY <2>2 DEF OneChain
    <2>7. OneChain'
          BY <1>p, <2>1, <2>3, <2>6 DEF OneChain, Target
    <2> QED BY <2>4, <2>5, <2>7
  <1>2. ASSUME NEW u \in Uploads, Acquire(u) PROVE ChainInv'
    <2>1. /\ UNCHANGED <<current, manifests, base, status, commit>>
          /\ token' = [token EXCEPT ![u] = NextToken] /\ client[u] = "lease"
          BY <1>2 DEF Acquire, At, snapshots, sessions, call
    <2>2. NextToken \in Nat /\ \A w \in Uploads : token[w] < NextToken
          BY TokenAbove
    <2>3. token'[u] = NextToken /\ \A w \in Uploads : w # u => token'[w] = token[w]
          BY <2>1
    <2>4. status[u] # "committed"
          BY <2>1 DEF Sent
    <2>5. \A v \in 1..current : manifests[v] # u /\ token'[manifests[v]] = token[manifests[v]]
          BY <1>p, <2>3, <2>4 DEF OneChain
    <2>6. TxInv'
          BY <2>1 DEF TxInv
    <2>7. TokenInv'
      <3>1. SUFFICES ASSUME NEW w \in Uploads, token'[w] # 0, base[w] = current, NEW v \in 1..current
                     PROVE  token[manifests[v]] < token'[w]
            BY <2>1, <2>5 DEF TokenInv
      <3>2. CASE w = u
            BY <1>p, <2>2, <2>3, <3>2
      <3>3. CASE w # u
            BY <2>3, <3>1, <3>3 DEF TokenInv
      <3> QED BY <3>2, <3>3
    <2>8. OneChain'
          BY <2>1, <2>5 DEF OneChain, Target
    <2> QED BY <2>6, <2>7, <2>8
  <1>3. ASSUME NEW u \in Uploads, OpenRow(u) PROVE ChainInv'
    <2>1. status[u] # "committed"
          BY <1>3 DEF OpenRow, At, Sent
    <2>2. Same
          BY <1>3, <2>1 DEF OpenRow, Same, Goto, snapshots, leases, call
    <2> QED BY <2>2, <1>k
  <1>4. ASSUME NEW u \in Uploads, OpenFile(u) PROVE ChainInv'
    <2>1. Same
          BY <1>4 DEF OpenFile, Same, At, Goto, Serve, snapshots, leases, sessions, call
    <2> QED BY <2>1, <1>k
  <1>5. ASSUME NEW u \in Uploads, OpenFails(u) PROVE ChainInv'
    <2>1. status[u] # "committed"
          BY <1>5 DEF OpenFails, At, Sent
    <2>2. Same
          BY <1>5, <2>1 DEF OpenFails, Same, Goto, snapshots, leases, call
    <2> QED BY <2>2, <1>k
  <1>6. ASSUME NEW u \in Uploads, ChunkWrite(u) PROVE ChainInv'
    <2>1. Same
          BY <1>6 DEF ChunkWrite, Same, At, Goto, Serve, snapshots, leases, sessions, call
    <2> QED BY <2>1, <1>k
  <1>7. ASSUME NEW u \in Uploads, ChunkRecord(u) PROVE ChainInv'
    <2>1. Same
          BY <1>7 DEF ChunkRecord, Same, At, Goto, Serve, snapshots, leases, sessions, call
    <2> QED BY <2>1, <1>k
  <1>8. ASSUME NEW u \in Uploads, AbortRemove(u) PROVE ChainInv'
    <2>1. Same
          BY <1>8 DEF AbortRemove, Same, At, Goto, Serve, snapshots, leases, sessions, call
    <2> QED BY <2>1, <1>k
  <1>9. ASSUME NEW u \in Uploads, AbortMark(u) PROVE ChainInv'
    <2>1. status[u] # "committed"
          BY <1>9 DEF AbortMark, At, Sent
    <2>2. Same
          BY <1>9, <2>1 DEF AbortMark, Same, Goto, snapshots, leases, call
    <2> QED BY <2>2, <1>k
  <1>10. ASSUME NEW u \in Uploads, SendCommit(u) PROVE ChainInv'
    <2>1. Same
          BY <1>10 DEF SendCommit, Same, At, Goto, Serve, snapshots, leases, sessions, call
    <2> QED BY <2>1, <1>k
  <1>11. ASSUME NEW u \in Uploads, Answered(u) PROVE ChainInv'
    <2>1. Same
          BY <1>11 DEF Answered, Same, At, Goto, Serve, snapshots, leases, sessions, call
    <2> QED BY <2>1, <1>k
  <1>12. ASSUME NEW u \in Uploads, Release(u) PROVE ChainInv'
    <2>1. Same
          BY <1>12 DEF Release, Same, At, Goto, Serve, snapshots, leases, sessions, call
    <2> QED BY <2>1, <1>k
  <1>13. ASSUME NEW u \in Uploads, RequestFails(u) PROVE ChainInv'
    <2>1. Same
          BY <1>13 DEF RequestFails, Same, At, Goto, Serve, snapshots, leases, sessions, call
    <2> QED BY <2>1, <1>k
  <1>14. ASSUME NEW u \in Uploads, Quit(u) PROVE ChainInv'
    <2>1. Same
          BY <1>14 DEF Quit, Same, At, Goto, Serve, snapshots, leases, sessions, call
    <2> QED BY <2>1, <1>k
  <1>15. ASSUME NEW u \in Uploads, CommitCheck(u) PROVE ChainInv'
    <2>1. Same
          BY <1>15 DEF CommitCheck, Same, At, Goto, Serve, snapshots, leases, sessions, call
    <2> QED BY <2>1, <1>k
  <1>16. ASSUME NEW u \in Uploads, CommitHash(u) PROVE ChainInv'
    <2>1. Same
          BY <1>16 DEF CommitHash, Same, At, Goto, Serve, snapshots, leases, sessions, call
    <2> QED BY <2>1, <1>k
  <1>17. ASSUME NEW u \in Uploads, CommitBegin(u) PROVE ChainInv'
    <2>1. /\ UNCHANGED <<current, manifests, base, token, status>>
          /\ commit' = [commit EXCEPT ![u] = "remove"] /\ current = base[u]
          BY <1>17 DEF CommitBegin, Serve, snapshots, leases, sessions, call
    <2>2. TxInv'
          BY <2>1 DEF TxInv
    <2>3. TokenInv' /\ OneChain'
          BY <2>1 DEF TokenInv, OneChain, Target
    <2> QED BY <2>2, <2>3
  <1>18. ASSUME NEW u \in Uploads, CommitRemove(u) PROVE ChainInv'
    <2>1. Same
          BY <1>18 DEF CommitRemove, Same, At, Goto, Serve, snapshots, leases, sessions, call, RemoveFile, RenameFile
    <2> QED BY <2>1, <1>k
  <1>19. ASSUME NEW u \in Uploads, CommitRename(u) PROVE ChainInv'
    <2>1. Same
          BY <1>19 DEF CommitRename, Same, At, Goto, Serve, snapshots, leases, sessions, call, RemoveFile, RenameFile
    <2> QED BY <2>1, <1>k
  <1>20. ASSUME NEW u \in Uploads, CommitInsert(u) PROVE ChainInv'
    <2>1. Same
          BY <1>20 DEF CommitInsert, Same, At, Goto, Serve, snapshots, leases, sessions, call
    <2> QED BY <2>1, <1>k
  <1>21. ASSUME NEW u \in Uploads, CommitPublish(u) PROVE ChainInv'
    <2>1. /\ commit[u] = "publish" /\ commit' = [commit EXCEPT ![u] = "none"]
          /\ \A w \in Uploads \ {u} : commit[w] \notin InTx
          /\ manifests' = [manifests EXCEPT ![Target(u)] = u] /\ current' = Target(u)
          /\ status' = [status EXCEPT ![u] = "committed"]
          /\ UNCHANGED <<token, base>>
          BY <1>21 DEF CommitPublish, Serve, Writable, leases, call
    <2>2. base[u] = current /\ current' = current + 1 /\ current + 1 \in Versions
      <3>1. base[u] = current
            BY <2>1 DEF TxInv
      <3> QED BY <1>n, <2>1, <3>1 DEF Target, Versions
    <2>3. TxInv'
      <3>1. \A w \in Uploads : base[w] <= current' /\ commit'[w] \notin InTx
            BY <2>1, <2>2 DEF TxInv
      <3> QED BY <2>1, <3>1 DEF TxInv
    <2>4. TokenInv'
          BY <1>n, <2>1, <2>2 DEF TokenInv, TxInv
    <2>5. manifests'[current + 1] = u /\ \A v \in Versions : v <= current => manifests'[v] = manifests[v]
          BY <1>n, <2>1, <2>2
    <2>6. 1..current' = 1..current \cup {current + 1} /\ 1..current \subseteq Versions
          BY <1>n, <2>2 DEF Versions
    <2>7. \A v \in Versions : manifests'[v] # None <=> v <= current'
          BY <1>n, <2>1, <2>2, <2>5 DEF OneChain, Versions
    <2>8. \A v \in 1..current' : base'[manifests'[v]] + 1 = v /\ status'[manifests'[v]] = "committed"
      <3>1. SUFFICES ASSUME NEW v \in 1..current'
                     PROVE  base'[manifests'[v]] + 1 = v /\ status'[manifests'[v]] = "committed"
            OBVIOUS
      <3>2. CASE v = current + 1
            BY <2>1, <2>2, <2>5, <3>2
      <3>3. CASE v # current + 1
        <4>1. v \in 1..current /\ manifests'[v] = manifests[v] /\ manifests[v] \in Uploads
              BY <1>n, <1>p, <2>2, <2>5, <2>6, <3>3
        <4>2. base[manifests[v]] + 1 = v /\ status[manifests[v]] = "committed"
              BY <4>1 DEF OneChain, Target
        <4> QED BY <2>1, <4>1, <4>2
      <3> QED BY <3>2, <3>3
    <2>9. token[u] # 0
          BY <2>1
    <2>10. \A v \in 1..current : token[manifests[v]] < token[u]
          BY <2>2, <2>9 DEF TokenInv
    <2>11. ASSUME NEW v \in 1..current', NEW w \in 1..current', v < w
           PROVE  token'[manifests'[v]] < token'[manifests'[w]]
      <3>1. v \in 1..current /\ manifests'[v] = manifests[v]
            BY <1>n, <2>2, <2>5, <2>6, <2>11
      <3>2. CASE w = current + 1
            BY <2>1, <2>5, <2>10, <3>1, <3>2
      <3>3. CASE w # current + 1
        <4>1. w \in 1..current /\ manifests'[w] = manifests[w]
              BY <2>5, <2>6, <3>3
        <4> QED BY <2>1, <2>11, <3>1, <4>1 DEF OneChain
      <3> QED BY <3>2, <3>3
    <2>12. OneChain'
          BY <2>7, <2>8, <2>11 DEF OneChain, Target
    <2> QED BY <2>3, <2>4, <2>12
  <1>22. ASSUME NEW u \in Uploads, CommitStops(u) PROVE ChainInv'
    <2>1. Same
          BY <1>22 DEF CommitStops, Same, At, Goto, Serve, snapshots, leases, sessions, call
    <2> QED BY <2>1, <1>k
  <1>23. ASSUME NEW u \in Uploads, CommitDropped(u) PROVE ChainInv'
    <2>1. Same
          BY <1>23 DEF CommitDropped, Same, At, Goto, Serve, snapshots, leases, sessions, call
    <2> QED BY <2>1, <1>k
  <1>24. ASSUME NEW u \in Uploads, LateRemove(u) PROVE ChainInv'
    <2>1. Same
          BY <1>24 DEF LateRemove, Same, At, Goto, Serve, snapshots, leases, sessions, call, RemoveFile, RenameFile
    <2> QED BY <2>1, <1>k
  <1>25. ASSUME NEW u \in Uploads, LateRename(u) PROVE ChainInv'
    <2>1. Same
          BY <1>25 DEF LateRename, Same, At, Goto, Serve, snapshots, leases, sessions, call, RemoveFile, RenameFile
    <2> QED BY <2>1, <1>k
  <1>26. ASSUME NEW u \in Uploads, Expire(u) PROVE ChainInv'
    <2>1. Same
          BY <1>26 DEF Expire, Same, At, Goto, Serve, snapshots, leases, sessions, call
    <2> QED BY <2>1, <1>k
  <1>27. ASSUME NEW d \in Devices, Revoke(d) PROVE ChainInv'
    <2>1. Same
          BY <1>27 DEF Revoke, Same, At, Goto, Serve, snapshots, leases, sessions, call
    <2> QED BY <2>1, <1>k
  <1>28. CASE Crash
    <2>1. Same
          BY <1>28 DEF Crash, Same, snapshots, leases, call
    <2> QED BY <2>1, <1>k
  <1>29. CASE UNCHANGED vars
    <2>1. Same
          BY <1>29 DEF vars, Same
    <2> QED BY <2>1, <1>k
  <1> QED BY <1>1, <1>2, <1>3, <1>4, <1>5, <1>6, <1>7, <1>8, <1>9, <1>10, <1>11,
         <1>12, <1>13, <1>14, <1>15, <1>16, <1>17, <1>18, <1>19, <1>20, <1>21, <1>22,
         <1>23, <1>24, <1>25, <1>26, <1>27, <1>28, <1>29 DEF Next, ClientStep,
         CommitStep

----------------------------------------------------------------------------
(* Leases and files.                                                       *)

\* A step that ends no lease and writes no published file: a commit stays where
\* it is with what it works on, is sent, or stops.
Calm ==
    /\ UNCHANGED <<current, manifests, files, held, raced>>
    /\ \A u \in Uploads :
          \/ commit'[u] \in {"none", "check"}
          \/ commit'[u] = commit[u] /\ base'[u] = base[u] /\ staging'[u] = staging[u]

\* There is no lease and no file at the start.
LEMMA InitBlob == Init => BlobInv
  BY DEF Init, BlobInv, LeaseInv, FileInv, UnracedBlobKept, Checked, InTx, Late

\* Every step keeps the files of the chain whole, while no lease ends under a
\* commit.
LEMMA NextBlob == Base /\ ChainInv /\ BlobInv /\ [Next]_vars => BlobInv'
  <1> SUFFICES ASSUME Base, ChainInv, BlobInv, [Next]_vars PROVE BlobInv'
      OBVIOUS
  <1>n. Cardinality(Uploads) \in Nat /\ Size \in Nat
        BY CountIsNat, ConstantsOK
  <1> USE ConstantsOK
      DEF Base, Types, StepInv, ChainInv, BlobInv, CommitPc, Checked, InTx, Late
  <1>t. \A u \in Uploads : Target(u) \in Versions
        BY <1>n DEF Target, Versions
  <1>k. ASSUME Calm PROVE BlobInv'
    <2>1. LeaseInv'
          BY <1>k DEF Calm, LeaseInv, Target
    <2>2. FileInv'
          BY <1>k DEF Calm, FileInv, Target, Whole
    <2>3. UnracedBlobKept'
          BY <1>k DEF Calm, UnracedBlobKept, Whole
    <2> QED BY <2>1, <2>2, <2>3
  <1>h. ASSUME held' \subseteq held,
               raced \subseteq raced',
               \A w \in Uploads : w \in held /\ commit[w] # "none" /\ Target(w) \notin raced' => w \in held',
               UNCHANGED <<current, manifests, files, staging, base, commit>>
        PROVE  BlobInv'
    <2>1. LeaseInv'
          BY <1>h DEF LeaseInv, Target
    <2>2. FileInv' /\ UnracedBlobKept'
          BY <1>h DEF FileInv, UnracedBlobKept, Target, Whole
    <2> QED BY <2>1, <2>2
  <1>w. ASSUME NEW u \in Uploads, NEW pc \in {"none", "rename", "insert"},
               commit[u] \in {"remove", "rename", "lateRemove", "lateRename"},
               commit' = [commit EXCEPT ![u] = pc],
               pc = "rename" => commit[u] = "remove" /\ staging'[u] = staging[u],
               pc = "insert" => files'[Target(u)] = Whole(u),
               \A v \in Versions : v # Target(u) => files'[v] = files[v],
               \A w \in Uploads : w # u => staging'[w] = staging[w],
               UNCHANGED <<current, manifests, held, base, raced>>
        PROVE  BlobInv'
    <2>1. Target(u) \notin raced =>
             /\ current = base[u]
             /\ \A w \in Uploads : commit[w] \in Checked /\ Target(w) = Target(u) => w = u
          BY <1>w DEF LeaseInv, TxInv
    <2>2. LeaseInv'
          BY <1>w DEF LeaseInv, Target
    <2>3. \A w \in Uploads : commit'[w] \in {"begin", "remove", "rename"} => staging'[w] = Size
          BY <1>w DEF FileInv
    <2>4. \A w \in Uploads : commit'[w] \in {"insert", "publish"} /\ Target(w) \notin raced =>
             files'[Target(w)] = Whole(w)
          BY <1>w, <1>t, <2>1 DEF FileInv
    <2>5. FileInv'
          BY <1>w, <2>3, <2>4 DEF FileInv, Target, Whole
    <2>6. \A v \in 1..current : v \in Versions /\ (v = Target(u) => v \in raced)
          BY <1>n, <2>1 DEF Target, Versions
    <2>7. UnracedBlobKept'
          BY <1>w, <2>6 DEF UnracedBlobKept, Whole
    <2> QED BY <2>2, <2>5, <2>7
  <1>1. ASSUME NEW u \in Uploads, NEW d \in Devices, NEW b \in 0..current, Push(u, d, b)
        PROVE  BlobInv'
    <2>1. commit[u] = "none"
          BY <1>1 DEF Push, At, Sent
    <2>2. Calm
          BY <1>1, <2>1 DEF Push, Calm, Goto, snapshots, leases, sessions, call
    <2> QED BY <2>2, <1>k
  <1>2. ASSUME NEW u \in Uploads, Acquire(u) PROVE BlobInv'
    <2>1. /\ held = {} /\ held' = {u}
          /\ UNCHANGED <<current, manifests, files, staging, base, commit, raced>>
          BY <1>2 DEF Acquire, snapshots, sessions, call
    <2>2. LeaseInv'
          BY <2>1 DEF LeaseInv, Target
    <2>3. FileInv' /\ UnracedBlobKept'
          BY <2>1 DEF FileInv, UnracedBlobKept, Target, Whole
    <2> QED BY <2>2, <2>3
  <1>3. ASSUME NEW u \in Uploads, OpenRow(u) PROVE BlobInv'
    <2>1. Calm
          BY <1>3 DEF OpenRow, Calm, At, Goto, Serve, snapshots, leases, sessions, call
    <2> QED BY <2>1, <1>k
  <1>4. ASSUME NEW u \in Uploads, OpenFile(u) PROVE BlobInv'
    <2>1. commit[u] = "none"
          BY <1>4 DEF OpenFile, At, Sent
    <2>2. Calm
          BY <1>4, <2>1 DEF OpenFile, Calm, Goto, snapshots, leases, sessions, call
    <2> QED BY <2>2, <1>k
  <1>5. ASSUME NEW u \in Uploads, OpenFails(u) PROVE BlobInv'
    <2>1. Calm
          BY <1>5 DEF OpenFails, Calm, At, Goto, Serve, snapshots, leases, sessions, call
    <2> QED BY <2>1, <1>k
  <1>6. ASSUME NEW u \in Uploads, ChunkWrite(u) PROVE BlobInv'
    <2>1. commit[u] = "none"
          BY <1>6 DEF ChunkWrite, At, Sent
    <2>2. Calm
          BY <1>6, <2>1 DEF ChunkWrite, Calm, Goto, snapshots, leases, sessions, call
    <2> QED BY <2>2, <1>k
  <1>7. ASSUME NEW u \in Uploads, ChunkRecord(u) PROVE BlobInv'
    <2>1. Calm
          BY <1>7 DEF ChunkRecord, Calm, At, Goto, Serve, snapshots, leases, sessions, call
    <2> QED BY <2>1, <1>k
  <1>8. ASSUME NEW u \in Uploads, AbortRemove(u) PROVE BlobInv'
    <2>1. commit[u] = "none"
          BY <1>8 DEF AbortRemove, At, Sent
    <2>2. Calm
          BY <1>8, <2>1 DEF AbortRemove, Calm, Goto, snapshots, leases, sessions, call
    <2> QED BY <2>2, <1>k
  <1>9. ASSUME NEW u \in Uploads, AbortMark(u) PROVE BlobInv'
    <2>1. Calm
          BY <1>9 DEF AbortMark, Calm, At, Goto, Serve, snapshots, leases, sessions, call
    <2> QED BY <2>1, <1>k
  <1>10. ASSUME NEW u \in Uploads, SendCommit(u) PROVE BlobInv'
    <2>1. Calm
          BY <1>10 DEF SendCommit, Calm, At, Goto, Serve, snapshots, leases, sessions, call
    <2> QED BY <2>1, <1>k
  <1>11. ASSUME NEW u \in Uploads, Answered(u) PROVE BlobInv'
    <2>1. Calm
          BY <1>11 DEF Answered, Calm, At, Goto, Serve, snapshots, leases, sessions, call
    <2> QED BY <2>1, <1>k
  <1>12. ASSUME NEW u \in Uploads, Release(u) PROVE BlobInv'
    <2>1. /\ held' = held \ {u} /\ raced' = raced \cup LeftRunning({u})
          /\ UNCHANGED <<current, manifests, files, staging, base, commit>>
          BY <1>12 DEF Release, snapshots, sessions, call
    <2>2. \A w \in Uploads : w \in held /\ commit[w] # "none" /\ Target(w) \notin raced' => w \in held'
          BY <2>1 DEF LeftRunning
    <2> QED BY <2>1, <2>2, <1>h
  <1>13. ASSUME NEW u \in Uploads, RequestFails(u) PROVE BlobInv'
    <2>1. Calm
          BY <1>13 DEF RequestFails, Calm, At, Goto, Serve, snapshots, leases, sessions, call
    <2> QED BY <2>1, <1>k
  <1>14. ASSUME NEW u \in Uploads, Quit(u) PROVE BlobInv'
    <2>1. Calm
          BY <1>14 DEF Quit, Calm, At, Goto, Serve, snapshots, leases, sessions, call
    <2> QED BY <2>1, <1>k
  <1>15. ASSUME NEW u \in Uploads, CommitCheck(u) PROVE BlobInv'
    <2>1. /\ commit[u] = "check" /\ commit' = [commit EXCEPT ![u] = "hash"] /\ u \in held
          /\ UNCHANGED <<current, manifests, files, held, staging, base, raced>>
          BY <1>15 DEF CommitCheck, Serve, Valid, snapshots, leases, sessions, call
    <2>2. LeaseInv'
          BY <2>1 DEF LeaseInv, Target
    <2>3. FileInv' /\ UnracedBlobKept'
          BY <2>1 DEF FileInv, UnracedBlobKept, Target, Whole
    <2> QED BY <2>2, <2>3
  <1>16. ASSUME NEW u \in Uploads, CommitHash(u) PROVE BlobInv'
    <2>1. /\ commit[u] = "hash" /\ commit' = [commit EXCEPT ![u] = "begin"] /\ staging[u] = Size
          /\ UNCHANGED <<current, manifests, files, held, staging, base, raced>>
          BY <1>16 DEF CommitHash, Serve, snapshots, leases, sessions, call
    <2>2. LeaseInv'
          BY <2>1 DEF LeaseInv, Target
    <2>3. FileInv' /\ UnracedBlobKept'
          BY <2>1 DEF FileInv, UnracedBlobKept, Target, Whole
    <2> QED BY <2>2, <2>3
  <1>17. ASSUME NEW u \in Uploads, CommitBegin(u) PROVE BlobInv'
    <2>1. /\ commit[u] = "begin" /\ commit' = [commit EXCEPT ![u] = "remove"]
          /\ UNCHANGED <<current, manifests, files, held, staging, base, raced>>
          BY <1>17 DEF CommitBegin, Serve, snapshots, leases, sessions, call
    <2>2. LeaseInv'
          BY <2>1 DEF LeaseInv, Target
    <2>3. FileInv' /\ UnracedBlobKept'
          BY <2>1 DEF FileInv, UnracedBlobKept, Target, Whole
    <2> QED BY <2>2, <2>3
  <1>18. ASSUME NEW u \in Uploads, CommitRemove(u) PROVE BlobInv'
    <2>1. /\ commit[u] = "remove" /\ commit' = [commit EXCEPT ![u] = "rename"]
          /\ \A v \in Versions : v # Target(u) => files'[v] = files[v]
          /\ UNCHANGED <<current, manifests, held, staging, base, raced>>
          BY <1>18 DEF CommitRemove, Serve, RemoveFile, leases, sessions, call
    <2> QED BY <2>1, <1>w
  <1>19. ASSUME NEW u \in Uploads, CommitRename(u) PROVE BlobInv'
    <2>1. /\ commit[u] = "rename" /\ commit' = [commit EXCEPT ![u] = "insert"]
          /\ files' = [files EXCEPT ![Target(u)] = [of |-> u, chunks |-> staging[u]]]
          /\ \A w \in Uploads : w # u => staging'[w] = staging[w]
          /\ UNCHANGED <<current, manifests, held, base, raced>>
          BY <1>19 DEF CommitRename, Serve, RenameFile, leases, call
    <2>2. staging[u] = Size
          BY <2>1 DEF FileInv
    <2>3. files'[Target(u)] = Whole(u)
          BY <1>t, <2>1, <2>2 DEF Whole
    <2>4. \A v \in Versions : v # Target(u) => files'[v] = files[v]
          BY <2>1
    <2> QED BY <2>1, <2>3, <2>4, <1>w
  <1>20. ASSUME NEW u \in Uploads, CommitInsert(u) PROVE BlobInv'
    <2>1. /\ commit[u] = "insert" /\ commit' = [commit EXCEPT ![u] = "publish"]
          /\ UNCHANGED <<current, manifests, files, held, staging, base, raced>>
          BY <1>20 DEF CommitInsert, Serve, snapshots, leases, sessions, call
    <2>2. LeaseInv'
          BY <2>1 DEF LeaseInv, Target
    <2>3. FileInv' /\ UnracedBlobKept'
          BY <2>1 DEF FileInv, UnracedBlobKept, Target, Whole
    <2> QED BY <2>2, <2>3
  <1>21. ASSUME NEW u \in Uploads, CommitPublish(u) PROVE BlobInv'
    <2>1. /\ commit[u] = "publish" /\ commit' = [commit EXCEPT ![u] = "none"]
          /\ manifests' = [manifests EXCEPT ![Target(u)] = u] /\ current' = Target(u)
          /\ UNCHANGED <<files, held, staging, base, raced>>
          BY <1>21 DEF CommitPublish, Serve, leases, call
    <2>2. base[u] = current /\ current' = current + 1 /\ Target(u) = current + 1
          BY <2>1 DEF TxInv, Target
    <2>3. \A w \in Uploads : commit[w] \in Checked /\ Target(w) = Target(u) /\ Target(u) \notin raced
             => w = u
          BY <2>1 DEF LeaseInv, Checked
    <2>4. LeaseInv'
          BY <2>1, <2>2, <2>3 DEF LeaseInv, Checked, Target
    <2>5. FileInv'
          BY <2>1 DEF FileInv, Target, Whole
    <2>6. ASSUME NEW v \in 1..current', v \notin raced PROVE files'[v] = Whole(manifests'[v])
      <3>1. CASE v = current + 1
            BY <1>t, <2>1, <2>2, <2>6, <3>1 DEF FileInv
      <3>2. CASE v # current + 1
        <4>1. v \in 1..current /\ v \in Versions
              BY <1>n, <2>2, <3>2 DEF Versions
        <4> QED BY <2>1, <2>2, <2>6, <3>2, <4>1 DEF UnracedBlobKept
      <3> QED BY <3>1, <3>2
    <2>7. UnracedBlobKept'
          BY <2>1, <2>6 DEF UnracedBlobKept, Whole
    <2> QED BY <2>4, <2>5, <2>7
  <1>22. ASSUME NEW u \in Uploads, CommitStops(u) PROVE BlobInv'
    <2>1. Calm
          BY <1>22 DEF CommitStops, Calm, At, Goto, Serve, snapshots, leases, sessions, call
    <2> QED BY <2>1, <1>k
  <1>23. ASSUME NEW u \in Uploads, CommitDropped(u) PROVE BlobInv'
    <2>1. /\ \/ commit[u] = "remove" /\ commit' = [commit EXCEPT ![u] = "lateRemove"]
             \/ commit[u] = "rename" /\ commit' = [commit EXCEPT ![u] = "lateRename"]
          /\ UNCHANGED <<current, manifests, files, held, staging, base, raced>>
          BY <1>23 DEF CommitDropped, Serve, snapshots, leases, sessions, call
    <2>2. current = base[u]
          BY <2>1 DEF TxInv
    <2>3. LeaseInv'
          BY <2>1, <2>2 DEF LeaseInv, Target
    <2>4. FileInv' /\ UnracedBlobKept'
          BY <2>1 DEF FileInv, UnracedBlobKept, Target, Whole
    <2> QED BY <2>3, <2>4
  <1>24. ASSUME NEW u \in Uploads, LateRemove(u) PROVE BlobInv'
    <2>1. /\ commit[u] = "lateRemove" /\ commit' = [commit EXCEPT ![u] = "none"]
          /\ \A v \in Versions : v # Target(u) => files'[v] = files[v]
          /\ UNCHANGED <<current, manifests, held, staging, base, raced>>
          BY <1>24 DEF LateRemove, Serve, RemoveFile, leases, sessions, call
    <2> QED BY <2>1, <1>w
  <1>25. ASSUME NEW u \in Uploads, LateRename(u) PROVE BlobInv'
    <2>1. /\ commit[u] = "lateRename" /\ commit' = [commit EXCEPT ![u] = "none"]
          /\ \A v \in Versions : v # Target(u) => files'[v] = files[v]
          /\ \A w \in Uploads : w # u => staging'[w] = staging[w]
          /\ UNCHANGED <<current, manifests, held, base, raced>>
          BY <1>25 DEF LateRename, Serve, RenameFile, leases, call
    <2> QED BY <2>1, <1>w
  <1>26. ASSUME NEW u \in Uploads, Expire(u) PROVE BlobInv'
    <2>1. Calm
          BY <1>26 DEF Expire, Calm, At, Goto, Serve, snapshots, leases, sessions, call
    <2> QED BY <2>1, <1>k
  <1>27. ASSUME NEW d \in Devices, Revoke(d) PROVE BlobInv'
    <2>1. /\ held' = held \ {u \in held : device[u] = d}
          /\ raced' = raced \cup LeftRunning({u \in held : device[u] = d})
          /\ UNCHANGED <<current, manifests, files, staging, base, commit>>
          BY <1>27 DEF Revoke, snapshots, sessions, call
    <2>2. \A w \in Uploads : w \in held /\ commit[w] # "none" /\ Target(w) \notin raced' => w \in held'
          BY <2>1 DEF LeftRunning
    <2> QED BY <2>1, <2>2, <1>h
  <1>28. CASE Crash
    <2>1. Calm
          BY <1>28 DEF Crash, Calm, snapshots, leases, call
    <2> QED BY <2>1, <1>k
  <1>29. CASE UNCHANGED vars
    <2>1. Calm
          BY <1>29 DEF vars, Calm
    <2> QED BY <2>1, <1>k
  <1> QED BY <1>1, <1>2, <1>3, <1>4, <1>5, <1>6, <1>7, <1>8, <1>9, <1>10, <1>11,
         <1>12, <1>13, <1>14, <1>15, <1>16, <1>17, <1>18, <1>19, <1>20, <1>21, <1>22,
         <1>23, <1>24, <1>25, <1>26, <1>27, <1>28, <1>29 DEF Next, ClientStep,
         CommitStep

----------------------------------------------------------------------------
(* The theorems.                                                           *)

\* The inductive invariant: order of steps, chain of versions, leases and files.
IInv == Base /\ ChainInv /\ BlobInv

\* Every reachable state satisfies it.
LEMMA Reachable == Spec => []IInv
  <1>1. Init => IInv
        BY InitBase, InitChain, InitBlob DEF IInv
  <1>2. IInv /\ [Next]_vars => IInv'
        BY NextBase, NextChain, NextBlob DEF IInv
  <1> QED BY <1>1, <1>2, PTL DEF Spec

\* What commit_upload (server/src/fleet.rs) published stays one chain, in every
\* interleaving of pushes, lost answers, revocations and power losses.
THEOREM PublishedStays == Spec => []OneChain
  <1>1. IInv => OneChain
        BY DEF IInv, ChainInv
  <1> QED BY <1>1, Reachable, PTL

\* The file of a published version is whole, unless a lease ended under a commit
\* of that version (validate_lease is asked before the hash, not after).
THEOREM UnracedFilesWhole == Spec => []UnracedBlobKept
  <1>1. IInv => UnracedBlobKept
        BY DEF IInv, BlobInv
  <1> QED BY <1>1, Reachable, PTL
=============================================================================
