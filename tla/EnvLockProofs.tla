--------------------------- MODULE EnvLockProofs ---------------------------
(***************************************************************************)
(* Proofs about EnvLock, for any number of clients, handlers, contents and *)
(* versions and for any lease time and retention.                          *)
(***************************************************************************)
EXTENDS EnvLock, FiniteSetTheorems, TLAPS

----------------------------------------------------------------------------
(* Types.                                                                  *)

\* The locals of a handler that has not started are well typed.
LEMMA IdleRequest == Idle \in Request
  BY ConstantsOK DEF Idle, Request, Tokens, Versions

\* The initial state is well typed.
LEMMA InitTypeOK == Init => TypeOK
  BY ConstantsOK, NoneIsNew, IdleRequest
  DEF Init, TypeOK, Tokens, Versions, PCs, HasVer, HasData, InTx

\* Every step of the server and of its environment keeps the types, and the
\* write lock with the handler that is in its transaction.
LEMMA NextTypeOK == TypeOK /\ [Next]_vars => TypeOK'
  <1> SUFFICES ASSUME TypeOK, [Next]_vars PROVE TypeOK'
      OBVIOUS
  <1> USE ConstantsOK, NoneIsNew, IdleRequest
  <1>1. ASSUME NEW r \in Reqs, NEW c \in Clients, CheckoutRead(r, c) PROVE TypeOK'
    <2> DEFINE q == [Idle EXCEPT !.client = c, !.token = Presented(c).token,
                              !.at = now]
    <2>1. Presented(c).token \in Tokens /\ now \in Nat
          BY <1>1 DEF TypeOK, Presented, Session, Lock, Tokens
    <2>2. q \in Request /\ q.client = c
          BY <2>1 DEF Request, Versions
    <2>3. reqs' = [reqs EXCEPT ![r] = q]
          BY <1>1 DEF CheckoutRead, TypeOK
    <2> HIDE DEF q
    <2> QED BY <1>1, <2>1, <2>2, <2>3 DEF CheckoutRead, At, Goto, Presented,
       TypeOK, PCs, HasVer, HasData, InTx
  <1>2. ASSUME NEW r \in Reqs, CheckoutUpsert(r) PROVE TypeOK'
    <2> DEFINE q == [reqs[r] EXCEPT !.token = minted + 1]
    <2>1. minted + 1 \in Tokens /\ reqs[r] \in Request
          BY <1>2 DEF CheckoutUpsert, TypeOK, Lock, Tokens
    <2>2. q \in Request /\ q.client = reqs[r].client /\ q.at \in Nat
          BY <2>1 DEF Request, Versions
    <2>3. reqs' = [reqs EXCEPT ![r] = q]
          BY <1>2 DEF CheckoutUpsert, TypeOK
    <2>4. lock' \in Lock
          BY <1>2, <2>1 DEF CheckoutUpsert, At, TypeOK, Lock, Request
    <2>5. /\ At(r, "co_upsert") /\ Goto(r, "co_version") /\ minted' = minted + 1
          /\ UNCHANGED <<now, env, current, rows, blobs, session, dbw, late, struck, up>>
          BY <1>2 DEF CheckoutUpsert
    <2> HIDE DEF q
    <2> QED BY <2>1, <2>2, <2>3, <2>4, <2>5 DEF At, Goto, TypeOK, PCs, HasVer,
       HasData, InTx
  <1>3. ASSUME NEW r \in Reqs, CheckoutRefused(r) PROVE TypeOK'
        BY <1>3 DEF CheckoutRefused, At, Done, Goto, TypeOK, PCs, HasVer, HasData, InTx
  <1>4. ASSUME NEW r \in Reqs, CheckoutAnswer(r) PROVE TypeOK'
        BY <1>4 DEF CheckoutAnswer, At, Done, Goto, Session, Tokens, Request,
           TypeOK, PCs, HasVer, HasData, InTx
  <1>5. ASSUME NEW r \in Reqs, NEW c \in Clients, LeaseBegin(r, c) PROVE TypeOK'
    <2> DEFINE q == [Idle EXCEPT !.client = c, !.token = session[c].token, !.at = now]
    <2>1. session[c].token \in Tokens /\ now \in Nat
          BY <1>5 DEF LeaseBegin, TypeOK, Session, Tokens
    <2>2. q \in Request /\ q.client = c
          BY <2>1 DEF Request, Versions
    <2>3. reqs' = [reqs EXCEPT ![r] = q]
          BY <1>5 DEF LeaseBegin, TypeOK
    <2> HIDE DEF q
    <2> QED BY <1>5, <2>1, <2>2, <2>3 DEF LeaseBegin, At, Goto, TypeOK, PCs,
       HasVer, HasData, InTx
  <1>6. ASSUME NEW r \in Reqs, LeaseUpdate(r) PROVE TypeOK'
    <2>1. lock' \in Lock \cup {None}
          BY <1>6 DEF LeaseUpdate, Holds, TypeOK, Lock, Request
    <2> QED BY <1>6, <2>1 DEF LeaseUpdate, At, Done, Goto, TypeOK, PCs, HasVer,
       HasData, InTx
  <1>7. ASSUME NEW r \in Reqs, CheckinStreamed(r) PROVE TypeOK'
        BY <1>7 DEF CheckinStreamed, At, Goto, TypeOK, PCs, HasVer, HasData, InTx
  <1>8. ASSUME NEW r \in Reqs, CheckinTx(r) PROVE TypeOK'
    <2> DEFINE q == [reqs[r] EXCEPT !.version = current + 1]
    <2>1. current + 1 \in Versions /\ reqs[r] \in Request
          BY <1>8 DEF CheckinTx, TypeOK, Versions
    <2>2. q \in Request /\ q.client = reqs[r].client /\ q.data = reqs[r].data /\ q.version = current + 1
          BY <2>1 DEF Request, Versions
    <2>3. reqs' = [reqs EXCEPT ![r] = q]
          BY <1>8 DEF CheckinTx, TypeOK
    <2> HIDE DEF q
    <2> QED BY <1>8, <2>1, <2>2, <2>3 DEF CheckinTx, At, CanWrite, Goto, TypeOK,
       PCs, HasVer, HasData, InTx
  <1>9. ASSUME NEW r \in Reqs, CheckinLost(r) PROVE TypeOK'
        BY <1>9 DEF CheckinLost, At, Done, Goto, TypeOK, PCs, HasVer, HasData, InTx
  <1>10. ASSUME NEW r \in Reqs, PromoteRemove(r) PROVE TypeOK'
        BY <1>10 DEF PromoteRemove, At, Goto, TypeOK, PCs, HasVer, HasData, InTx
  <1>11. ASSUME NEW r \in Reqs, PromoteRename(r) PROVE TypeOK'
        BY <1>11 DEF PromoteRename, At, Goto, Request, TypeOK, PCs, HasVer, HasData, InTx
  <1>12. ASSUME NEW r \in Reqs, CheckinCommit(r) PROVE TypeOK'
        BY <1>12 DEF CheckinCommit, At, Goto, Row, Request, Versions, TypeOK,
           PCs, HasVer, HasData, InTx
  <1>13. ASSUME NEW r \in Reqs, GcSelect(r) PROVE TypeOK'
    <2> DEFINE S == {v \in Stale(reqs[r].version) : rows[v] # None}
               q == [reqs[r] EXCEPT !.stale = S]
    <2>1. q \in Request /\ q.client = reqs[r].client /\ q.data = reqs[r].data
             /\ q.version = reqs[r].version
          BY DEF TypeOK, Request, Stale
    <2>2. CASE Done(r)
          BY <1>13, <2>2 DEF GcSelect, At, Done, Goto, TypeOK, PCs, HasVer, HasData, InTx
    <2>3. CASE Goto(r, "gc_delete") /\ reqs' = [reqs EXCEPT ![r] = q]
      <3> HIDE DEF q
      <3> QED BY <1>13, <2>1, <2>3 DEF GcSelect, At, Goto, TypeOK, PCs, HasVer,
         HasData, InTx
    <2> QED BY <1>13, <2>2, <2>3 DEF GcSelect, TypeOK
  <1>14. ASSUME NEW r \in Reqs, GcDelete(r) PROVE TypeOK'
        BY <1>14 DEF GcDelete, At, Goto, TypeOK, PCs, HasVer, HasData, InTx
  <1>15. ASSUME NEW r \in Reqs, GcUnlink(r) PROVE TypeOK'
    <2>1. CASE reqs[r].stale = {}
          BY <1>15, <2>1 DEF GcUnlink, At, Done, Goto, TypeOK, PCs, HasVer, HasData, InTx
    <2>2. ASSUME NEW v \in reqs[r].stale, blobs' = [blobs EXCEPT ![v] = None],
                 reqs' = [reqs EXCEPT ![r].stale = @ \ {v}], UNCHANGED pc
          PROVE  TypeOK'
      <3> DEFINE q == [reqs[r] EXCEPT !.stale = @ \ {v}]
      <3>1. q \in Request /\ q.client = reqs[r].client /\ q.data = reqs[r].data
             /\ q.version = reqs[r].version
            BY DEF TypeOK, Request
      <3>2. reqs' = [reqs EXCEPT ![r] = q] /\ blobs' \in [Versions -> Data \cup {None}]
            BY <2>2 DEF TypeOK, Request
      <3>3. UNCHANGED <<now, lock, env, current, rows, pc, session, minted, dbw, late, struck, up>>
            BY <1>15, <2>2 DEF GcUnlink
      <3> HIDE DEF q
      <3> QED BY <3>1, <3>2, <3>3 DEF TypeOK, PCs, HasVer, HasData, InTx
    <2> QED BY <1>15, <2>1, <2>2 DEF GcUnlink
  <1>16. ASSUME NEW r \in Reqs, DownloadOpen(r) PROVE TypeOK'
        BY <1>16 DEF DownloadOpen, At, Done, Goto, TypeOK, PCs, HasVer, HasData, InTx
  <1>17. ASSUME NEW r \in Reqs, Abandon(r) PROVE TypeOK'
        BY <1>17 DEF Abandon, Done, Goto, FsCall, Request, TypeOK, PCs,
           HasVer, HasData, InTx
  <1>18. ASSUME NEW r \in Reqs, NEW c \in Clients, NEW d \in Data, CheckinBegin(r, c, d) PROVE TypeOK'
    <2> DEFINE q == [Idle EXCEPT !.client = c, !.token = session[c].token,
                              !.base = session[c].base, !.data = d]
    <2>1. session[c].token \in Tokens /\ session[c].base \in 0 .. MaxVersion
          BY <1>18 DEF CheckinBegin, TypeOK, Session, Tokens
    <2>2. q \in Request /\ q.client = c /\ q.data = d
          BY <2>1 DEF Request, Versions
    <2>3. reqs' = [reqs EXCEPT ![r] = q]
          BY <1>18 DEF CheckinBegin, TypeOK
    <2> HIDE DEF q
    <2> QED BY <1>18, <2>1, <2>2, <2>3 DEF CheckinBegin, At, Goto, TypeOK, PCs,
       HasVer, HasData, InTx
  <1>19. ASSUME NEW r \in Reqs, NEW c \in Clients, NEW v \in Versions, DownloadRow(r, c, v) PROVE TypeOK'
    <2> DEFINE q == [Idle EXCEPT !.client = c, !.version = v, !.data = rows[v].data]
    <2>1. rows[v].data \in Data /\ v \in 0 .. MaxVersion
          BY <1>19 DEF DownloadRow, TypeOK, Row, Versions
    <2>2. q \in Request /\ q.client = c /\ q.version = v
          BY <2>1 DEF Request, Versions
    <2>3. reqs' = [reqs EXCEPT ![r] = q]
          BY <1>19 DEF DownloadRow, TypeOK
    <2> HIDE DEF q
    <2> QED BY <1>19, <2>1, <2>2, <2>3 DEF DownloadRow, At, Goto, Row, TypeOK,
       PCs, HasVer, HasData, InTx
  <1>20. ASSUME NEW c \in Clients, Release(c) PROVE TypeOK'
        BY <1>20 DEF Release, TypeOK, PCs, HasVer, HasData, InTx
  <1>21. ASSUME NEW c \in Clients, ClientForgets(c) PROVE TypeOK'
        BY <1>21 DEF ClientForgets, TypeOK, PCs, HasVer, HasData, InTx
  <1>22. CASE ForceUnlock
        BY <1>22 DEF ForceUnlock, TypeOK, PCs, HasVer, HasData, InTx
  <1>23. ASSUME NEW f \in late, LateCall(f) PROVE TypeOK'
        BY <1>23 DEF LateCall, FsCall, TypeOK, PCs, HasVer, HasData, InTx
  <1>24. CASE DeleteEnv
        BY <1>24 DEF DeleteEnv, TypeOK, PCs, HasVer, HasData, InTx
  <1>25. CASE Tick
        BY <1>25 DEF Tick, TypeOK, PCs, HasVer, HasData, InTx
  <1>26. CASE Crash
        BY <1>26 DEF Crash, TypeOK, PCs, HasVer, HasData, InTx
  <1>27. CASE Restart
        BY <1>27 DEF Restart, Orphans, TypeOK, PCs, HasVer, HasData, InTx
  <1>28. CASE UNCHANGED vars
        BY <1>28 DEF vars, TypeOK, PCs, HasVer, HasData, InTx
  <1> QED BY <1>1, <1>2, <1>3, <1>4, <1>5, <1>6, <1>7, <1>8, <1>9, <1>10, <1>11,
     <1>12, <1>13, <1>14, <1>15, <1>16, <1>17, <1>18, <1>19, <1>20, <1>21, <1>22,
     <1>23, <1>24, <1>25, <1>26, <1>27, <1>28 DEF Next, Step, Start

\* The variables keep their types, and SQLite's write lock is held exactly by
\* the check-in that is between its DELETE and its commit.
THEOREM TypeCorrect == Spec => []TypeOK
  BY InitTypeOK, NextTypeOK, PTL DEF Spec

----------------------------------------------------------------------------
(* The version history.                                                    *)

\* What is true of every handler: its token was minted; a session that still
\* holds the lock builds on the current version; inside the transaction the
\* lock is still held and the new version is the next one; a collector works
\* for a version that is committed.
HandlerInv(r) ==
    /\ reqs[r].token <= minted
    /\ pc[r] \in HasData /\ Holds(reqs[r].client, reqs[r].token)
          => reqs[r].base = current
    /\ pc[r] \in InTx
          => Holds(reqs[r].client, reqs[r].token) /\ reqs[r].version = current + 1
    /\ pc[r] \in {"gc_select", "gc_delete", "gc_unlink"} => reqs[r].version <= current

\* The same of what a client remembers.
ClientInv(c) ==
    session[c] # None =>
        /\ session[c].token <= minted
        /\ Holds(c, session[c].token) => session[c].base = current

RowInv(v) == rows[v] # None => v <= current /\ rows[v].base = v - 1

\* The inductive strengthening of NoLostUpdate and NewestKept.
HistoryInv ==
    /\ TypeOK
    /\ lock # None => env /\ lock.token <= minted
    /\ \A r \in Reqs : HandlerInv(r)
    /\ \A c \in Clients : ClientInv(c)
    /\ \A v \in Versions : RowInv(v)
    /\ NewestKept

\* The inductive invariant of the version history holds at first.
LEMMA InitHistory == Init => HistoryInv
  BY InitTypeOK, ConstantsOK, NoneIsNew
  DEF Init, HistoryInv, HandlerInv, ClientInv, RowInv, NewestKept, Idle, HasData,
      InTx, Versions

\* A step that touches the locals of one handler only.
LEMMA LocalStep ==
  ASSUME HistoryInv, TypeOK', NEW r \in Reqs,
         UNCHANGED <<lock, env, current, rows, session, minted>>,
         \A s \in Reqs \ {r} : pc'[s] = pc[s] /\ reqs'[s] = reqs[s],
         HandlerInv(r)'
  PROVE  HistoryInv'
  <1>1. \A s \in Reqs : HandlerInv(s)'
        BY DEF HistoryInv, HandlerInv, Holds
  <1>2. \A c \in Clients : ClientInv(c)'
        BY DEF HistoryInv, ClientInv, Holds
  <1>3. (\A v \in Versions : RowInv(v)') /\ NewestKept'
        BY DEF HistoryInv, RowInv, NewestKept
  <1> QED BY <1>1, <1>2, <1>3 DEF HistoryInv

\* Every step keeps the version history linear.
LEMMA NextHistory == HistoryInv /\ [Next]_vars => HistoryInv'
  <1> SUFFICES ASSUME HistoryInv, [Next]_vars PROVE HistoryInv'
      OBVIOUS
  <1>0. TypeOK /\ TypeOK'
        BY NextTypeOK DEF HistoryInv
  <1> USE ConstantsOK, NoneIsNew
  <1>1. ASSUME NEW r \in Reqs, NEW c \in Clients, CheckoutRead(r, c) PROVE HistoryInv'
    <2>1. HandlerInv(r)'
          BY <1>0, <1>1 DEF CheckoutRead, At, Goto, HistoryInv, HandlerInv,
             Holds, InTx, HasData, TypeOK, Request, Presented, Session,
             ClientInv, Idle, Tokens
    <2>2. \A s \in Reqs \ {r} : pc'[s] = pc[s] /\ reqs'[s] = reqs[s]
          BY <1>0, <1>1 DEF CheckoutRead, Goto, TypeOK
    <2>3. UNCHANGED <<lock, env, current, rows, session, minted>>
          BY <1>1 DEF CheckoutRead
    <2> QED BY <1>0, <2>1, <2>2, <2>3, LocalStep
  <1>2. ASSUME NEW r \in Reqs, CheckoutUpsert(r) PROVE HistoryInv'
    <2>1. \A s \in Reqs : HandlerInv(s)'
          BY <1>0, <1>2 DEF CheckoutUpsert, At, Goto, CanWrite,
             HistoryInv, HandlerInv, Holds, InTx, HasData, TypeOK, Request,
             Lock, Tokens, Idle
    <2>2. \A k \in Clients : ClientInv(k)'
          BY <1>0, <1>2 DEF CheckoutUpsert, At, Goto, CanWrite,
             HistoryInv, HandlerInv, ClientInv, Holds, TypeOK, Session,
             Lock, Tokens, Request
    <2>3. (\A k \in Versions : RowInv(k)') /\ NewestKept'
          BY <1>0, <1>2 DEF CheckoutUpsert, At, Goto, CanWrite,
             HistoryInv, HandlerInv, Holds, RowInv, NewestKept, InTx,
             HasData, TypeOK, Row, Versions, Request
    <2>4. lock' # None => env' /\ lock'.token <= minted'
          BY <1>0, <1>2 DEF CheckoutUpsert, At, Goto, CanWrite,
             HistoryInv, TypeOK, Lock, Holds, Tokens
    <2> QED BY <1>0, <2>1, <2>2, <2>3, <2>4 DEF HistoryInv
  <1>3. ASSUME NEW r \in Reqs, CheckoutRefused(r) PROVE HistoryInv'
    <2>1. HandlerInv(r)'
          BY <1>0, <1>3 DEF CheckoutRefused, At, Goto, HistoryInv,
             HandlerInv, Holds, InTx, HasData, TypeOK, Request, Done, Idle,
             Tokens
    <2>2. \A s \in Reqs \ {r} : pc'[s] = pc[s] /\ reqs'[s] = reqs[s]
          BY <1>0, <1>3 DEF CheckoutRefused, Goto, Done, TypeOK
    <2>3. UNCHANGED <<lock, env, current, rows, session, minted>>
          BY <1>3 DEF CheckoutRefused
    <2> QED BY <1>0, <2>1, <2>2, <2>3, LocalStep
  <1>4. ASSUME NEW r \in Reqs, CheckoutAnswer(r) PROVE HistoryInv'
    <2>1. \A s \in Reqs : HandlerInv(s)'
          BY <1>0, <1>4 DEF CheckoutAnswer, At, Done, Goto, HistoryInv,
             HandlerInv, Holds, InTx, HasData, TypeOK, Request, Lock,
             Tokens, Idle
    <2>2. \A k \in Clients : ClientInv(k)'
          BY <1>0, <1>4 DEF CheckoutAnswer, At, Done, Goto, HistoryInv,
             HandlerInv, ClientInv, Holds, TypeOK, Session, Lock, Tokens,
             Request
    <2>3. (\A k \in Versions : RowInv(k)') /\ NewestKept'
          BY <1>0, <1>4 DEF CheckoutAnswer, At, Done, Goto, HistoryInv,
             HandlerInv, Holds, RowInv, NewestKept, InTx, HasData, TypeOK,
             Row, Versions, Request
    <2>4. lock' # None => env' /\ lock'.token <= minted'
          BY <1>0, <1>4 DEF CheckoutAnswer, At, Done, Goto, HistoryInv,
             TypeOK, Lock, Holds, Tokens
    <2> QED BY <1>0, <2>1, <2>2, <2>3, <2>4 DEF HistoryInv
  <1>5. ASSUME NEW r \in Reqs, NEW c \in Clients, LeaseBegin(r, c) PROVE HistoryInv'
    <2>1. HandlerInv(r)'
          BY <1>0, <1>5 DEF LeaseBegin, At, Goto, HistoryInv, HandlerInv,
             Holds, InTx, HasData, TypeOK, Request, ClientInv, Idle
    <2>2. \A s \in Reqs \ {r} : pc'[s] = pc[s] /\ reqs'[s] = reqs[s]
          BY <1>0, <1>5 DEF LeaseBegin, Goto, TypeOK
    <2>3. UNCHANGED <<lock, env, current, rows, session, minted>>
          BY <1>5 DEF LeaseBegin
    <2> QED BY <1>0, <2>1, <2>2, <2>3, LocalStep
  <1>6. ASSUME NEW r \in Reqs, LeaseUpdate(r) PROVE HistoryInv'
    <2>1. \A s \in Reqs : HandlerInv(s)'
          BY <1>0, <1>6 DEF LeaseUpdate, At, CanWrite, Done, Goto,
             HistoryInv, HandlerInv, Holds, InTx, HasData, TypeOK, Request,
             Lock, Tokens, Idle
    <2>2. \A k \in Clients : ClientInv(k)'
          BY <1>0, <1>6 DEF LeaseUpdate, At, CanWrite, Done, Goto,
             HistoryInv, HandlerInv, ClientInv, Holds, TypeOK, Session,
             Lock, Tokens, Request
    <2>3. (\A k \in Versions : RowInv(k)') /\ NewestKept'
          BY <1>0, <1>6 DEF LeaseUpdate, At, CanWrite, Done, Goto,
             HistoryInv, HandlerInv, Holds, RowInv, NewestKept, InTx,
             HasData, TypeOK, Row, Versions, Request
    <2>4. lock' # None => env' /\ lock'.token <= minted'
          BY <1>0, <1>6 DEF LeaseUpdate, At, CanWrite, Done, Goto,
             HistoryInv, TypeOK, Lock, Holds, Tokens
    <2> QED BY <1>0, <2>1, <2>2, <2>3, <2>4 DEF HistoryInv
  <1>7. ASSUME NEW r \in Reqs, CheckinStreamed(r) PROVE HistoryInv'
    <2>1. HandlerInv(r)'
          BY <1>0, <1>7 DEF CheckinStreamed, At, Goto, HistoryInv,
             HandlerInv, Holds, InTx, HasData, TypeOK, Request
    <2>2. \A s \in Reqs \ {r} : pc'[s] = pc[s] /\ reqs'[s] = reqs[s]
          BY <1>0, <1>7 DEF CheckinStreamed, Goto, TypeOK
    <2>3. UNCHANGED <<lock, env, current, rows, session, minted>>
          BY <1>7 DEF CheckinStreamed
    <2> QED BY <1>0, <2>1, <2>2, <2>3, LocalStep
  <1>8. ASSUME NEW r \in Reqs, CheckinTx(r) PROVE HistoryInv'
    <2>1. HandlerInv(r)'
          BY <1>0, <1>8 DEF CheckinTx, At, Goto, HistoryInv, HandlerInv,
             Holds, InTx, HasData, TypeOK, Request, CanWrite
    <2>2. \A s \in Reqs \ {r} : pc'[s] = pc[s] /\ reqs'[s] = reqs[s]
          BY <1>0, <1>8 DEF CheckinTx, Goto, TypeOK
    <2>3. UNCHANGED <<lock, env, current, rows, session, minted>>
          BY <1>8 DEF CheckinTx
    <2> QED BY <1>0, <2>1, <2>2, <2>3, LocalStep
  <1>9. ASSUME NEW r \in Reqs, CheckinLost(r) PROVE HistoryInv'
    <2>1. HandlerInv(r)'
          BY <1>0, <1>9 DEF CheckinLost, At, Goto, HistoryInv, HandlerInv,
             Holds, InTx, HasData, TypeOK, Request, Done, Idle, Tokens
    <2>2. \A s \in Reqs \ {r} : pc'[s] = pc[s] /\ reqs'[s] = reqs[s]
          BY <1>0, <1>9 DEF CheckinLost, Goto, Done, TypeOK
    <2>3. UNCHANGED <<lock, env, current, rows, session, minted>>
          BY <1>9 DEF CheckinLost
    <2> QED BY <1>0, <2>1, <2>2, <2>3, LocalStep
  <1>10. ASSUME NEW r \in Reqs, PromoteRemove(r) PROVE HistoryInv'
    <2>1. HandlerInv(r)'
          BY <1>0, <1>10 DEF PromoteRemove, At, Goto, HistoryInv,
             HandlerInv, Holds, InTx, HasData, TypeOK, Request
    <2>2. \A s \in Reqs \ {r} : pc'[s] = pc[s] /\ reqs'[s] = reqs[s]
          BY <1>0, <1>10 DEF PromoteRemove, Goto, TypeOK
    <2>3. UNCHANGED <<lock, env, current, rows, session, minted>>
          BY <1>10 DEF PromoteRemove
    <2> QED BY <1>0, <2>1, <2>2, <2>3, LocalStep
  <1>11. ASSUME NEW r \in Reqs, PromoteRename(r) PROVE HistoryInv'
    <2>1. HandlerInv(r)'
          BY <1>0, <1>11 DEF PromoteRename, At, Goto, HistoryInv,
             HandlerInv, Holds, InTx, HasData, TypeOK, Request
    <2>2. \A s \in Reqs \ {r} : pc'[s] = pc[s] /\ reqs'[s] = reqs[s]
          BY <1>0, <1>11 DEF PromoteRename, Goto, TypeOK
    <2>3. UNCHANGED <<lock, env, current, rows, session, minted>>
          BY <1>11 DEF PromoteRename
    <2> QED BY <1>0, <2>1, <2>2, <2>3, LocalStep
  <1>12. ASSUME NEW r \in Reqs, CheckinCommit(r) PROVE HistoryInv'
    <2>1. \A s \in Reqs : HandlerInv(s)'
          BY <1>0, <1>12 DEF CheckinCommit, At, Goto, HistoryInv,
             HandlerInv, Holds, InTx, HasData, TypeOK, Request, Lock,
             Tokens, Idle
    <2>2. \A k \in Clients : ClientInv(k)'
          BY <1>0, <1>12 DEF CheckinCommit, At, Goto, HistoryInv,
             HandlerInv, ClientInv, Holds, TypeOK, Session, Lock, Tokens,
             Request
    <2>3. (\A k \in Versions : RowInv(k)') /\ NewestKept'
          BY <1>0, <1>12 DEF CheckinCommit, At, Goto, HistoryInv,
             HandlerInv, Holds, RowInv, NewestKept, InTx, HasData, TypeOK,
             Row, Versions, Request
    <2>4. lock' # None => env' /\ lock'.token <= minted'
          BY <1>0, <1>12 DEF CheckinCommit, At, Goto, HistoryInv, TypeOK,
             Lock, Holds, Tokens
    <2> QED BY <1>0, <2>1, <2>2, <2>3, <2>4 DEF HistoryInv
  <1>13. ASSUME NEW r \in Reqs, GcSelect(r) PROVE HistoryInv'
    <2>1. HandlerInv(r)'
          BY <1>0, <1>13, SMTT(40) DEF GcSelect, At, Goto, HistoryInv, HandlerInv,
             Holds, InTx, HasData, TypeOK, Request, Done, Idle, Tokens
    <2>2. \A s \in Reqs \ {r} : pc'[s] = pc[s] /\ reqs'[s] = reqs[s]
          BY <1>0, <1>13 DEF GcSelect, Goto, Done, TypeOK
    <2>3. UNCHANGED <<lock, env, current, rows, session, minted>>
          BY <1>13 DEF GcSelect
    <2> QED BY <1>0, <2>1, <2>2, <2>3, LocalStep
  <1>14. ASSUME NEW r \in Reqs, GcDelete(r) PROVE HistoryInv'
    <2>1. \A s \in Reqs : HandlerInv(s)'
          BY <1>0, <1>14 DEF GcDelete, At, Goto, HistoryInv, HandlerInv,
             Holds, InTx, HasData, TypeOK, Request, Lock, Tokens, Idle
    <2>2. \A k \in Clients : ClientInv(k)'
          BY <1>0, <1>14 DEF GcDelete, At, Goto, HistoryInv, HandlerInv,
             ClientInv, Holds, TypeOK, Session, Lock, Tokens, Request
    <2>3. (\A k \in Versions : RowInv(k)') /\ NewestKept'
      <3>1. /\ rows' = [v \in Versions |-> IF v \in Stale(reqs[r].version) THEN None ELSE rows[v]]
            /\ UNCHANGED <<env, current>>
            BY <1>14 DEF GcDelete
      <3>2. reqs[r].version <= current /\ reqs[r].version \in Int /\ current \in Int
            BY <1>0, <1>14 DEF GcDelete, At, HistoryInv, HandlerInv, TypeOK, Request
      <3>3. \A v \in Versions : v \in Int /\ (v \in Stale(reqs[r].version) => v + Keep <= current)
            BY <3>2, ConstantsOK DEF Stale, Versions
      <3> QED BY <1>0, <3>1, <3>2, <3>3, ConstantsOK DEF HistoryInv, RowInv, NewestKept
    <2>4. lock' # None => env' /\ lock'.token <= minted'
          BY <1>0, <1>14 DEF GcDelete, At, Goto, HistoryInv, TypeOK, Lock, Holds, Tokens
    <2> QED BY <1>0, <2>1, <2>2, <2>3, <2>4 DEF HistoryInv
  <1>15. ASSUME NEW r \in Reqs, GcUnlink(r) PROVE HistoryInv'
    <2>1. HandlerInv(r)'
          BY <1>0, <1>15 DEF GcUnlink, At, Goto, HistoryInv, HandlerInv,
             Holds, InTx, HasData, TypeOK, Request, Done, Idle, Tokens
    <2>2. \A s \in Reqs \ {r} : pc'[s] = pc[s] /\ reqs'[s] = reqs[s]
          BY <1>0, <1>15 DEF GcUnlink, Goto, Done, TypeOK
    <2>3. UNCHANGED <<lock, env, current, rows, session, minted>>
          BY <1>15 DEF GcUnlink
    <2> QED BY <1>0, <2>1, <2>2, <2>3, LocalStep
  <1>16. ASSUME NEW r \in Reqs, DownloadOpen(r) PROVE HistoryInv'
    <2>1. HandlerInv(r)'
          BY <1>0, <1>16 DEF DownloadOpen, At, Goto, HistoryInv, HandlerInv,
             Holds, InTx, HasData, TypeOK, Request, Done, Idle, Tokens
    <2>2. \A s \in Reqs \ {r} : pc'[s] = pc[s] /\ reqs'[s] = reqs[s]
          BY <1>0, <1>16 DEF DownloadOpen, Goto, Done, TypeOK
    <2>3. UNCHANGED <<lock, env, current, rows, session, minted>>
          BY <1>16 DEF DownloadOpen
    <2> QED BY <1>0, <2>1, <2>2, <2>3, LocalStep
  <1>17. ASSUME NEW r \in Reqs, Abandon(r) PROVE HistoryInv'
    <2>1. HandlerInv(r)'
          BY <1>0, <1>17 DEF Abandon, At, Goto, HistoryInv, HandlerInv,
             Holds, InTx, HasData, TypeOK, Request, Done, Idle, Tokens
    <2>2. \A s \in Reqs \ {r} : pc'[s] = pc[s] /\ reqs'[s] = reqs[s]
          BY <1>0, <1>17 DEF Abandon, Goto, Done, TypeOK
    <2>3. UNCHANGED <<lock, env, current, rows, session, minted>>
          BY <1>17 DEF Abandon
    <2> QED BY <1>0, <2>1, <2>2, <2>3, LocalStep
  <1>18. ASSUME NEW r \in Reqs, NEW c \in Clients, NEW d \in Data, CheckinBegin(r, c, d) PROVE HistoryInv'
    <2>1. HandlerInv(r)'
          BY <1>0, <1>18 DEF CheckinBegin, At, Goto, HistoryInv, HandlerInv,
             Holds, InTx, HasData, TypeOK, Request, ClientInv, Idle
    <2>2. \A s \in Reqs \ {r} : pc'[s] = pc[s] /\ reqs'[s] = reqs[s]
          BY <1>0, <1>18 DEF CheckinBegin, Goto, TypeOK
    <2>3. UNCHANGED <<lock, env, current, rows, session, minted>>
          BY <1>18 DEF CheckinBegin
    <2> QED BY <1>0, <2>1, <2>2, <2>3, LocalStep
  <1>19. ASSUME NEW r \in Reqs, NEW c \in Clients, NEW v \in Versions, DownloadRow(r, c, v) PROVE HistoryInv'
    <2>1. HandlerInv(r)'
          BY <1>0, <1>19 DEF DownloadRow, At, Goto, HistoryInv, HandlerInv,
             Holds, InTx, HasData, TypeOK, Request, Idle, Tokens
    <2>2. \A s \in Reqs \ {r} : pc'[s] = pc[s] /\ reqs'[s] = reqs[s]
          BY <1>0, <1>19 DEF DownloadRow, Goto, TypeOK
    <2>3. UNCHANGED <<lock, env, current, rows, session, minted>>
          BY <1>19 DEF DownloadRow
    <2> QED BY <1>0, <2>1, <2>2, <2>3, LocalStep
  <1>20. ASSUME NEW c \in Clients, Release(c) PROVE HistoryInv'
    <2>1. \A s \in Reqs : HandlerInv(s)'
          BY <1>0, <1>20 DEF Release, CanWrite, HistoryInv, HandlerInv,
             Holds, InTx, HasData, TypeOK, Request, Lock, Tokens, Idle
    <2>2. \A k \in Clients : ClientInv(k)'
          BY <1>0, <1>20 DEF Release, CanWrite, HistoryInv, HandlerInv,
             ClientInv, Holds, TypeOK, Session, Lock, Tokens, Request
    <2>3. (\A k \in Versions : RowInv(k)') /\ NewestKept'
          BY <1>0, <1>20 DEF Release, CanWrite, HistoryInv, HandlerInv,
             Holds, RowInv, NewestKept, InTx, HasData, TypeOK, Row,
             Versions, Request
    <2>4. lock' # None => env' /\ lock'.token <= minted'
          BY <1>0, <1>20 DEF Release, CanWrite, HistoryInv, TypeOK, Lock, Holds, Tokens
    <2> QED BY <1>0, <2>1, <2>2, <2>3, <2>4 DEF HistoryInv
  <1>21. ASSUME NEW c \in Clients, ClientForgets(c) PROVE HistoryInv'
    <2>1. \A s \in Reqs : HandlerInv(s)'
          BY <1>0, <1>21 DEF ClientForgets, HistoryInv, HandlerInv, Holds,
             InTx, HasData, TypeOK, Request, Lock, Tokens, Idle
    <2>2. \A k \in Clients : ClientInv(k)'
          BY <1>0, <1>21 DEF ClientForgets, HistoryInv, HandlerInv,
             ClientInv, Holds, TypeOK, Session, Lock, Tokens, Request
    <2>3. (\A k \in Versions : RowInv(k)') /\ NewestKept'
          BY <1>0, <1>21 DEF ClientForgets, HistoryInv, HandlerInv, Holds,
             RowInv, NewestKept, InTx, HasData, TypeOK, Row, Versions,
             Request
    <2>4. lock' # None => env' /\ lock'.token <= minted'
          BY <1>0, <1>21 DEF ClientForgets, HistoryInv, TypeOK, Lock, Holds, Tokens
    <2> QED BY <1>0, <2>1, <2>2, <2>3, <2>4 DEF HistoryInv
  <1>22. CASE ForceUnlock
    <2>1. \A s \in Reqs : HandlerInv(s)'
          BY <1>0, <1>22 DEF ForceUnlock, CanWrite, HistoryInv, HandlerInv,
             Holds, InTx, HasData, TypeOK, Request, Lock, Tokens, Idle
    <2>2. \A k \in Clients : ClientInv(k)'
          BY <1>0, <1>22 DEF ForceUnlock, CanWrite, HistoryInv, HandlerInv,
             ClientInv, Holds, TypeOK, Session, Lock, Tokens, Request
    <2>3. (\A k \in Versions : RowInv(k)') /\ NewestKept'
          BY <1>0, <1>22 DEF ForceUnlock, CanWrite, HistoryInv, HandlerInv,
             Holds, RowInv, NewestKept, InTx, HasData, TypeOK, Row,
             Versions, Request
    <2>4. lock' # None => env' /\ lock'.token <= minted'
          BY <1>0, <1>22 DEF ForceUnlock, CanWrite, HistoryInv, TypeOK,
             Lock, Holds, Tokens
    <2> QED BY <1>0, <2>1, <2>2, <2>3, <2>4 DEF HistoryInv
  <1>23. ASSUME NEW f \in late, LateCall(f) PROVE HistoryInv'
    <2>1. \A s \in Reqs : HandlerInv(s)'
          BY <1>0, <1>23 DEF LateCall, HistoryInv, HandlerInv, Holds, InTx,
             HasData, TypeOK, Request, Lock, Tokens, Idle
    <2>2. \A k \in Clients : ClientInv(k)'
          BY <1>0, <1>23 DEF LateCall, HistoryInv, HandlerInv, ClientInv,
             Holds, TypeOK, Session, Lock, Tokens, Request
    <2>3. (\A k \in Versions : RowInv(k)') /\ NewestKept'
          BY <1>0, <1>23 DEF LateCall, HistoryInv, HandlerInv, Holds,
             RowInv, NewestKept, InTx, HasData, TypeOK, Row, Versions,
             Request
    <2>4. lock' # None => env' /\ lock'.token <= minted'
          BY <1>0, <1>23 DEF LateCall, HistoryInv, TypeOK, Lock, Holds, Tokens
    <2> QED BY <1>0, <2>1, <2>2, <2>3, <2>4 DEF HistoryInv
  <1>24. CASE DeleteEnv
    <2>1. \A s \in Reqs : HandlerInv(s)'
          BY <1>0, <1>24 DEF DeleteEnv, CanWrite, HistoryInv, HandlerInv,
             Holds, InTx, HasData, TypeOK, Request, Lock, Tokens, Idle
    <2>2. \A k \in Clients : ClientInv(k)'
          BY <1>0, <1>24 DEF DeleteEnv, CanWrite, HistoryInv, HandlerInv,
             ClientInv, Holds, TypeOK, Session, Lock, Tokens, Request
    <2>3. (\A k \in Versions : RowInv(k)') /\ NewestKept'
          BY <1>0, <1>24 DEF DeleteEnv, CanWrite, HistoryInv, HandlerInv,
             Holds, RowInv, NewestKept, InTx, HasData, TypeOK, Row,
             Versions, Request
    <2>4. lock' # None => env' /\ lock'.token <= minted'
          BY <1>0, <1>24 DEF DeleteEnv, CanWrite, HistoryInv, TypeOK, Lock, Holds, Tokens
    <2> QED BY <1>0, <2>1, <2>2, <2>3, <2>4 DEF HistoryInv
  <1>25. CASE Tick
    <2>1. \A s \in Reqs : HandlerInv(s)'
          BY <1>0, <1>25 DEF Tick, HistoryInv, HandlerInv, Holds, InTx,
             HasData, TypeOK, Request, Lock, Tokens, Idle
    <2>2. \A k \in Clients : ClientInv(k)'
          BY <1>0, <1>25 DEF Tick, HistoryInv, HandlerInv, ClientInv, Holds,
             TypeOK, Session, Lock, Tokens, Request
    <2>3. (\A k \in Versions : RowInv(k)') /\ NewestKept'
          BY <1>0, <1>25 DEF Tick, HistoryInv, HandlerInv, Holds, RowInv,
             NewestKept, InTx, HasData, TypeOK, Row, Versions, Request
    <2>4. lock' # None => env' /\ lock'.token <= minted'
          BY <1>0, <1>25 DEF Tick, HistoryInv, TypeOK, Lock, Holds, Tokens
    <2> QED BY <1>0, <2>1, <2>2, <2>3, <2>4 DEF HistoryInv
  <1>26. CASE Crash
    <2>1. \A s \in Reqs : HandlerInv(s)'
          BY <1>0, <1>26 DEF Crash, HistoryInv, HandlerInv, Holds, InTx,
             HasData, TypeOK, Request, Lock, Tokens, Idle
    <2>2. \A k \in Clients : ClientInv(k)'
          BY <1>0, <1>26 DEF Crash, HistoryInv, HandlerInv, ClientInv,
             Holds, TypeOK, Session, Lock, Tokens, Request
    <2>3. (\A k \in Versions : RowInv(k)') /\ NewestKept'
          BY <1>0, <1>26 DEF Crash, HistoryInv, HandlerInv, Holds, RowInv,
             NewestKept, InTx, HasData, TypeOK, Row, Versions, Request
    <2>4. lock' # None => env' /\ lock'.token <= minted'
          BY <1>0, <1>26 DEF Crash, HistoryInv, TypeOK, Lock, Holds, Tokens
    <2> QED BY <1>0, <2>1, <2>2, <2>3, <2>4 DEF HistoryInv
  <1>27. CASE Restart
    <2>1. \A s \in Reqs : HandlerInv(s)'
          BY <1>0, <1>27 DEF Restart, Orphans, HistoryInv, HandlerInv,
             Holds, InTx, HasData, TypeOK, Request, Lock, Tokens, Idle
    <2>2. \A k \in Clients : ClientInv(k)'
          BY <1>0, <1>27 DEF Restart, Orphans, HistoryInv, HandlerInv,
             ClientInv, Holds, TypeOK, Session, Lock, Tokens, Request
    <2>3. (\A k \in Versions : RowInv(k)') /\ NewestKept'
          BY <1>0, <1>27 DEF Restart, Orphans, HistoryInv, HandlerInv,
             Holds, RowInv, NewestKept, InTx, HasData, TypeOK, Row,
             Versions, Request
    <2>4. lock' # None => env' /\ lock'.token <= minted'
          BY <1>0, <1>27 DEF Restart, Orphans, HistoryInv, TypeOK, Lock, Holds, Tokens
    <2> QED BY <1>0, <2>1, <2>2, <2>3, <2>4 DEF HistoryInv
  <1>28. CASE UNCHANGED vars
        BY <1>0, <1>28 DEF vars, HistoryInv, HandlerInv, ClientInv, RowInv,
           NewestKept, Holds
  <1> QED BY <1>1, <1>2, <1>3, <1>4, <1>5, <1>6, <1>7, <1>8, <1>9, <1>10, <1>11,
     <1>12, <1>13, <1>14, <1>15, <1>16, <1>17, <1>18, <1>19, <1>20, <1>21, <1>22,
     <1>23, <1>24, <1>25, <1>26, <1>27, <1>28 DEF Next, Step, Start

\* No update is lost and no version is built on anything but its predecessor,
\* whatever handlers are dropped, delayed or crashed (checkout reads the version
\* after its upsert; checkin deletes the lock by token in its transaction).
THEOREM LinearHistory == Spec => []NoLostUpdate
  <1>1. HistoryInv => NoLostUpdate
        BY DEF HistoryInv, RowInv, NoLostUpdate
  <1> QED BY InitHistory, NextHistory, <1>1, PTL DEF Spec

\* The newest Keep versions survive every order of late collectors.
THEOREM Retention == Spec => []NewestKept
  <1>1. HistoryInv => NewestKept
        BY DEF HistoryInv
  <1> QED BY InitHistory, NextHistory, <1>1, PTL DEF Spec

----------------------------------------------------------------------------
(* The files, with any number of file calls that outlive their handler.     *)

\* What is true of the files a handler works on: the promoted file has the
\* uploaded bytes until the commit, if no late call struck it; a download works
\* on a committed version; a collector only lists versions behind its cutoff
\* and unlinks files whose row is gone.
FileInv(r) ==
    /\ pc[r] = "ci_commit" /\ reqs[r].version \notin struck
          => blobs[reqs[r].version] = reqs[r].data
    /\ pc[r] = "dl_open" =>
          /\ reqs[r].version <= current
          /\ reqs[r].version \notin struck
                => blobs[reqs[r].version] \in {reqs[r].data, None}
    /\ pc[r] \in {"gc_delete", "gc_unlink"} => reqs[r].stale \subseteq Stale(reqs[r].version)
    /\ pc[r] = "gc_unlink" => \A v \in reqs[r].stale : rows[v] = None

\* The inductive strengthening of UnstruckRowHasBlob and DownloadHonest.
BlobInv ==
    /\ HistoryInv
    /\ ~up => \A r \in Reqs : pc[r] = "idle"
    /\ UnstruckRowHasBlob
    /\ \A r \in Reqs : FileInv(r)

\* The inductive invariant of the files holds at first.
LEMMA InitBlob == Init => BlobInv
  BY InitHistory, NoneIsNew DEF Init, BlobInv, FileInv, UnstruckRowHasBlob

\* A step that moves one handler and touches neither rows nor files.
LEMMA LocalFileStep ==
  ASSUME BlobInv, HistoryInv', NEW r \in Reqs, UNCHANGED <<rows, blobs, struck, current>>,
         up' = up, up,
         \A s \in Reqs \ {r} : pc'[s] = pc[s] /\ reqs'[s] = reqs[s],
         FileInv(r)'
  PROVE  BlobInv'
  <1>1. \A s \in Reqs : FileInv(s)'
        BY DEF BlobInv, FileInv
  <1> QED BY <1>1 DEF BlobInv, UnstruckRowHasBlob

\* Every step keeps rows and files together.
LEMMA NextBlob == BlobInv /\ [Next]_vars => BlobInv'
  <1> SUFFICES ASSUME BlobInv, [Next]_vars PROVE BlobInv'
      OBVIOUS
  <1>0. HistoryInv /\ HistoryInv' /\ TypeOK /\ TypeOK'
        BY NextHistory DEF BlobInv, HistoryInv
  <1> USE ConstantsOK, NoneIsNew
  <1>1. ASSUME NEW r \in Reqs, NEW c \in Clients, CheckoutRead(r, c) PROVE BlobInv'
    <2>1. FileInv(r)'
          BY <1>0, <1>1 DEF CheckoutRead, At, Goto, FileInv, TypeOK, Request
    <2>2. \A s \in Reqs \ {r} : pc'[s] = pc[s] /\ reqs'[s] = reqs[s]
          BY <1>0, <1>1 DEF CheckoutRead, Goto, TypeOK
    <2>3. UNCHANGED <<rows, blobs, struck, current>> /\ up /\ up' = up
          BY <1>1 DEF CheckoutRead, At
    <2> QED BY <1>0, <2>1, <2>2, <2>3, LocalFileStep
  <1>2. ASSUME NEW r \in Reqs, CheckoutUpsert(r) PROVE BlobInv'
    <2>1. FileInv(r)'
          BY <1>0, <1>2 DEF CheckoutUpsert, At, Goto, FileInv, TypeOK, Request
    <2>2. \A s \in Reqs \ {r} : pc'[s] = pc[s] /\ reqs'[s] = reqs[s]
          BY <1>0, <1>2 DEF CheckoutUpsert, Goto, TypeOK
    <2>3. UNCHANGED <<rows, blobs, struck, current>> /\ up /\ up' = up
          BY <1>2 DEF CheckoutUpsert, At
    <2> QED BY <1>0, <2>1, <2>2, <2>3, LocalFileStep
  <1>3. ASSUME NEW r \in Reqs, CheckoutRefused(r) PROVE BlobInv'
    <2>1. FileInv(r)'
          BY <1>0, <1>3 DEF CheckoutRefused, At, Goto, FileInv, TypeOK, Request, Done
    <2>2. \A s \in Reqs \ {r} : pc'[s] = pc[s] /\ reqs'[s] = reqs[s]
          BY <1>0, <1>3 DEF CheckoutRefused, Goto, Done, TypeOK
    <2>3. UNCHANGED <<rows, blobs, struck, current>> /\ up /\ up' = up
          BY <1>3 DEF CheckoutRefused, At
    <2> QED BY <1>0, <2>1, <2>2, <2>3, LocalFileStep
  <1>4. ASSUME NEW r \in Reqs, CheckoutAnswer(r) PROVE BlobInv'
    <2>1. FileInv(r)'
          BY <1>0, <1>4 DEF CheckoutAnswer, At, Goto, FileInv, TypeOK, Request, Done
    <2>2. \A s \in Reqs \ {r} : pc'[s] = pc[s] /\ reqs'[s] = reqs[s]
          BY <1>0, <1>4 DEF CheckoutAnswer, Goto, Done, TypeOK
    <2>3. UNCHANGED <<rows, blobs, struck, current>> /\ up /\ up' = up
          BY <1>4 DEF CheckoutAnswer, At
    <2> QED BY <1>0, <2>1, <2>2, <2>3, LocalFileStep
  <1>5. ASSUME NEW r \in Reqs, NEW c \in Clients, LeaseBegin(r, c) PROVE BlobInv'
    <2>1. FileInv(r)'
          BY <1>0, <1>5 DEF LeaseBegin, At, Goto, FileInv, TypeOK, Request
    <2>2. \A s \in Reqs \ {r} : pc'[s] = pc[s] /\ reqs'[s] = reqs[s]
          BY <1>0, <1>5 DEF LeaseBegin, Goto, TypeOK
    <2>3. UNCHANGED <<rows, blobs, struck, current>> /\ up /\ up' = up
          BY <1>5 DEF LeaseBegin, At
    <2> QED BY <1>0, <2>1, <2>2, <2>3, LocalFileStep
  <1>6. ASSUME NEW r \in Reqs, LeaseUpdate(r) PROVE BlobInv'
    <2>1. FileInv(r)'
          BY <1>0, <1>6 DEF LeaseUpdate, At, Goto, FileInv, TypeOK, Request, Done
    <2>2. \A s \in Reqs \ {r} : pc'[s] = pc[s] /\ reqs'[s] = reqs[s]
          BY <1>0, <1>6 DEF LeaseUpdate, Goto, Done, TypeOK
    <2>3. UNCHANGED <<rows, blobs, struck, current>> /\ up /\ up' = up
          BY <1>6 DEF LeaseUpdate, At
    <2> QED BY <1>0, <2>1, <2>2, <2>3, LocalFileStep
  <1>7. ASSUME NEW r \in Reqs, CheckinStreamed(r) PROVE BlobInv'
    <2>1. FileInv(r)'
          BY <1>0, <1>7 DEF CheckinStreamed, At, Goto, FileInv, TypeOK, Request
    <2>2. \A s \in Reqs \ {r} : pc'[s] = pc[s] /\ reqs'[s] = reqs[s]
          BY <1>0, <1>7 DEF CheckinStreamed, Goto, TypeOK
    <2>3. UNCHANGED <<rows, blobs, struck, current>> /\ up /\ up' = up
          BY <1>7 DEF CheckinStreamed, At
    <2> QED BY <1>0, <2>1, <2>2, <2>3, LocalFileStep
  <1>8. ASSUME NEW r \in Reqs, CheckinTx(r) PROVE BlobInv'
    <2>1. FileInv(r)'
          BY <1>0, <1>8 DEF CheckinTx, At, Goto, FileInv, TypeOK, Request
    <2>2. \A s \in Reqs \ {r} : pc'[s] = pc[s] /\ reqs'[s] = reqs[s]
          BY <1>0, <1>8 DEF CheckinTx, Goto, TypeOK
    <2>3. UNCHANGED <<rows, blobs, struck, current>> /\ up /\ up' = up
          BY <1>8 DEF CheckinTx, At
    <2> QED BY <1>0, <2>1, <2>2, <2>3, LocalFileStep
  <1>9. ASSUME NEW r \in Reqs, CheckinLost(r) PROVE BlobInv'
    <2>1. FileInv(r)'
          BY <1>0, <1>9 DEF CheckinLost, At, Goto, FileInv, TypeOK, Request, Done
    <2>2. \A s \in Reqs \ {r} : pc'[s] = pc[s] /\ reqs'[s] = reqs[s]
          BY <1>0, <1>9 DEF CheckinLost, Goto, Done, TypeOK
    <2>3. UNCHANGED <<rows, blobs, struck, current>> /\ up /\ up' = up
          BY <1>9 DEF CheckinLost, At
    <2> QED BY <1>0, <2>1, <2>2, <2>3, LocalFileStep
  <1>10. ASSUME NEW r \in Reqs, PromoteRemove(r) PROVE BlobInv'
    <2>1. \A s \in Reqs : FileInv(s)'
          BY <1>0, <1>10 DEF PromoteRemove, At, Goto, BlobInv, FileInv,
             HistoryInv, HandlerInv, RowInv, Holds, InTx, HasVer, HasData,
             TypeOK, Request, Row, Versions, Stale
    <2>2. UnstruckRowHasBlob'
          BY <1>0, <1>10 DEF PromoteRemove, At, Goto, BlobInv, FileInv,
             UnstruckRowHasBlob, HistoryInv, HandlerInv, RowInv, Holds, InTx,
             HasVer, HasData, TypeOK, Request, Row, Versions, Stale
    <2>3. ~up' => \A s \in Reqs : pc'[s] = "idle"
          BY <1>0, <1>10 DEF PromoteRemove, At, Goto, BlobInv, TypeOK
    <2> QED BY <1>0, <2>1, <2>2, <2>3 DEF BlobInv
  <1>11. ASSUME NEW r \in Reqs, PromoteRename(r) PROVE BlobInv'
    <2>1. \A s \in Reqs : FileInv(s)'
          BY <1>0, <1>11 DEF PromoteRename, At, Goto, BlobInv, FileInv,
             HistoryInv, HandlerInv, RowInv, Holds, InTx, HasVer, HasData,
             TypeOK, Request, Row, Versions, Stale
    <2>2. UnstruckRowHasBlob'
          BY <1>0, <1>11 DEF PromoteRename, At, Goto, BlobInv, FileInv,
             UnstruckRowHasBlob, HistoryInv, HandlerInv, RowInv, Holds, InTx,
             HasVer, HasData, TypeOK, Request, Row, Versions, Stale
    <2>3. ~up' => \A s \in Reqs : pc'[s] = "idle"
          BY <1>0, <1>11 DEF PromoteRename, At, Goto, BlobInv, TypeOK
    <2> QED BY <1>0, <2>1, <2>2, <2>3 DEF BlobInv
  <1>12. ASSUME NEW r \in Reqs, CheckinCommit(r) PROVE BlobInv'
    <2>1. \A s \in Reqs : FileInv(s)'
          BY <1>0, <1>12 DEF CheckinCommit, At, Goto, BlobInv, FileInv,
             HistoryInv, HandlerInv, RowInv, Holds, InTx, HasVer, HasData,
             TypeOK, Request, Row, Versions, Stale
    <2>2. UnstruckRowHasBlob'
          BY <1>0, <1>12 DEF CheckinCommit, At, Goto, BlobInv, FileInv,
             UnstruckRowHasBlob, HistoryInv, HandlerInv, RowInv, Holds, InTx,
             HasVer, HasData, TypeOK, Request, Row, Versions, Stale
    <2>3. ~up' => \A s \in Reqs : pc'[s] = "idle"
          BY <1>0, <1>12 DEF CheckinCommit, At, Goto, BlobInv, TypeOK
    <2> QED BY <1>0, <2>1, <2>2, <2>3 DEF BlobInv
  <1>13. ASSUME NEW r \in Reqs, GcSelect(r) PROVE BlobInv'
    <2>1. FileInv(r)'
          BY <1>0, <1>13 DEF GcSelect, At, Goto, FileInv, TypeOK, Request, Done
    <2>2. \A s \in Reqs \ {r} : pc'[s] = pc[s] /\ reqs'[s] = reqs[s]
          BY <1>0, <1>13 DEF GcSelect, Goto, Done, TypeOK
    <2>3. UNCHANGED <<rows, blobs, struck, current>> /\ up /\ up' = up
          BY <1>13 DEF GcSelect, At
    <2> QED BY <1>0, <2>1, <2>2, <2>3, LocalFileStep
  <1>14. ASSUME NEW r \in Reqs, GcDelete(r) PROVE BlobInv'
    <2>1. \A s \in Reqs : FileInv(s)'
          BY <1>0, <1>14 DEF GcDelete, At, Goto, BlobInv, FileInv,
             HistoryInv, HandlerInv, RowInv, Holds, InTx, HasVer, HasData,
             TypeOK, Request, Row, Versions, Stale
    <2>2. UnstruckRowHasBlob'
          BY <1>0, <1>14 DEF GcDelete, At, Goto, BlobInv, FileInv,
             UnstruckRowHasBlob, HistoryInv, HandlerInv, RowInv, Holds, InTx,
             HasVer, HasData, TypeOK, Request, Row, Versions, Stale
    <2>3. ~up' => \A s \in Reqs : pc'[s] = "idle"
          BY <1>0, <1>14 DEF GcDelete, At, Goto, BlobInv, TypeOK
    <2> QED BY <1>0, <2>1, <2>2, <2>3 DEF BlobInv
  <1>15. ASSUME NEW r \in Reqs, GcUnlink(r) PROVE BlobInv'
    <2>1. CASE reqs[r].stale = {}
      <3>1. FileInv(r)'
            BY <1>0, <1>15, <2>1 DEF GcUnlink, Done, Goto, FileInv, TypeOK
      <3>2. \A s \in Reqs \ {r} : pc'[s] = pc[s] /\ reqs'[s] = reqs[s]
            BY <1>0, <1>15, <2>1 DEF GcUnlink, Done, Goto, TypeOK
      <3>3. UNCHANGED <<rows, blobs, struck, current>> /\ up /\ up' = up
            BY <1>15, <2>1 DEF GcUnlink, At
      <3> QED BY <1>0, <3>1, <3>2, <3>3, LocalFileStep
    <2>2. ASSUME NEW v \in reqs[r].stale, blobs' = [blobs EXCEPT ![v] = None],
                 reqs' = [reqs EXCEPT ![r].stale = @ \ {v}], UNCHANGED pc
          PROVE  BlobInv'
      <3>1. /\ pc[r] = "gc_unlink" /\ up /\ up' = up
            /\ UNCHANGED <<rows, struck, current, pc>>
            BY <1>15, <2>2 DEF GcUnlink, At
      <3>2. v \in Versions /\ rows[v] = None /\ v <= current
        <4>1. FileInv(r) /\ HandlerInv(r)
              BY <1>0 DEF BlobInv, HistoryInv
        <4>2. reqs[r].version \in Versions /\ current \in Nat /\ MaxVersion \in Nat
              BY <1>0, <3>1 DEF TypeOK, HasVer
        <4>3. v \in Stale(reqs[r].version) /\ rows[v] = None /\ reqs[r].version <= current
              BY <3>1, <4>1 DEF FileInv, HandlerInv
        <4> QED BY <4>2, <4>3 DEF Stale, Versions
      <3>3. \A s \in Reqs : /\ reqs'[s].version = reqs[s].version
                             /\ reqs'[s].data = reqs[s].data
                             /\ reqs'[s].stale \subseteq reqs[s].stale
            BY <1>0, <2>2 DEF TypeOK, Request
      <3>4. \A s \in Reqs : pc[s] = "ci_commit" => reqs[s].version # v
            BY <1>0, <3>2 DEF HistoryInv, HandlerInv, InTx, TypeOK, Versions
      <3>5. \A w \in Versions : blobs'[w] = blobs[w] \/ (w = v /\ blobs'[w] = None)
            BY <1>0, <2>2, <3>2 DEF TypeOK
      <3>6. \A s \in Reqs : pc[s] \in HasVer => reqs[s].version \in Versions
            BY <1>0 DEF TypeOK
      <3>7. ASSUME NEW s \in Reqs PROVE FileInv(s)'
        <4>1. FileInv(s)
              BY DEF BlobInv
        <4>2. pc[s] = "ci_commit" => blobs'[reqs[s].version] = blobs[reqs[s].version]
              BY <3>4, <3>5, <3>6 DEF HasVer, InTx
        <4>3. pc[s] = "dl_open" =>
                 blobs'[reqs[s].version] \in {blobs[reqs[s].version], None}
              BY <3>5, <3>6 DEF HasVer
        <4> QED BY <3>1, <3>3, <4>1, <4>2, <4>3 DEF FileInv, Stale
      <3> QED BY <1>0, <2>2, <3>1, <3>2, <3>7 DEF BlobInv, UnstruckRowHasBlob, TypeOK
    <2> QED BY <1>15, <2>1, <2>2 DEF GcUnlink
  <1>16. ASSUME NEW r \in Reqs, DownloadOpen(r) PROVE BlobInv'
    <2>1. FileInv(r)'
          BY <1>0, <1>16 DEF DownloadOpen, At, Goto, FileInv, TypeOK, Request, Done
    <2>2. \A s \in Reqs \ {r} : pc'[s] = pc[s] /\ reqs'[s] = reqs[s]
          BY <1>0, <1>16 DEF DownloadOpen, Goto, Done, TypeOK
    <2>3. UNCHANGED <<rows, blobs, struck, current>> /\ up /\ up' = up
          BY <1>16 DEF DownloadOpen, At
    <2> QED BY <1>0, <2>1, <2>2, <2>3, LocalFileStep
  <1>17. ASSUME NEW r \in Reqs, Abandon(r) PROVE BlobInv'
    <2>1. \A s \in Reqs : FileInv(s)'
          BY <1>0, <1>17 DEF Abandon, Done, Goto, BlobInv, FileInv,
             HistoryInv, HandlerInv, RowInv, Holds, InTx, HasVer, HasData,
             TypeOK, Request, Row, Versions, Stale
    <2>2. UnstruckRowHasBlob'
          BY <1>0, <1>17 DEF Abandon, Done, Goto, BlobInv, FileInv,
             UnstruckRowHasBlob, HistoryInv, HandlerInv, RowInv, Holds, InTx,
             HasVer, HasData, TypeOK, Request, Row, Versions, Stale
    <2>3. ~up' => \A s \in Reqs : pc'[s] = "idle"
          BY <1>0, <1>17 DEF Abandon, Done, Goto, BlobInv, TypeOK
    <2> QED BY <1>0, <2>1, <2>2, <2>3 DEF BlobInv
  <1>18. ASSUME NEW r \in Reqs, NEW c \in Clients, NEW d \in Data, CheckinBegin(r, c, d) PROVE BlobInv'
    <2>1. FileInv(r)'
          BY <1>0, <1>18 DEF CheckinBegin, At, Goto, FileInv, TypeOK, Request
    <2>2. \A s \in Reqs \ {r} : pc'[s] = pc[s] /\ reqs'[s] = reqs[s]
          BY <1>0, <1>18 DEF CheckinBegin, Goto, TypeOK
    <2>3. UNCHANGED <<rows, blobs, struck, current>> /\ up /\ up' = up
          BY <1>18 DEF CheckinBegin, At
    <2> QED BY <1>0, <2>1, <2>2, <2>3, LocalFileStep
  <1>19. ASSUME NEW r \in Reqs, NEW c \in Clients, NEW v \in Versions, DownloadRow(r, c, v) PROVE BlobInv'
    <2>1. FileInv(r)'
          BY <1>0, <1>19 DEF DownloadRow, At, Goto, FileInv, TypeOK,
             Request, Row, HistoryInv, RowInv, BlobInv, UnstruckRowHasBlob, Versions
    <2>2. \A s \in Reqs \ {r} : pc'[s] = pc[s] /\ reqs'[s] = reqs[s]
          BY <1>0, <1>19 DEF DownloadRow, Goto, TypeOK
    <2>3. UNCHANGED <<rows, blobs, struck, current>> /\ up /\ up' = up
          BY <1>19 DEF DownloadRow, At
    <2> QED BY <1>0, <2>1, <2>2, <2>3, LocalFileStep
  <1>20. ASSUME NEW c \in Clients, Release(c) PROVE BlobInv'
    <2>1. \A s \in Reqs : FileInv(s)'
          BY <1>0, <1>20 DEF Release, CanWrite, BlobInv, FileInv,
             HistoryInv, HandlerInv, RowInv, Holds, InTx, HasVer, HasData,
             TypeOK, Request, Row, Versions, Stale
    <2>2. UnstruckRowHasBlob'
          BY <1>0, <1>20 DEF Release, CanWrite, BlobInv, FileInv,
             UnstruckRowHasBlob, HistoryInv, HandlerInv, RowInv, Holds, InTx,
             HasVer, HasData, TypeOK, Request, Row, Versions, Stale
    <2>3. ~up' => \A s \in Reqs : pc'[s] = "idle"
          BY <1>0, <1>20 DEF Release, CanWrite, BlobInv, TypeOK
    <2> QED BY <1>0, <2>1, <2>2, <2>3 DEF BlobInv
  <1>21. ASSUME NEW c \in Clients, ClientForgets(c) PROVE BlobInv'
    <2>1. \A s \in Reqs : FileInv(s)'
          BY <1>0, <1>21 DEF ClientForgets, BlobInv, FileInv, HistoryInv,
             HandlerInv, RowInv, Holds, InTx, HasVer, HasData, TypeOK,
             Request, Row, Versions, Stale
    <2>2. UnstruckRowHasBlob'
          BY <1>0, <1>21 DEF ClientForgets, BlobInv, FileInv, UnstruckRowHasBlob,
             HistoryInv, HandlerInv, RowInv, Holds, InTx, HasVer, HasData,
             TypeOK, Request, Row, Versions, Stale
    <2>3. ~up' => \A s \in Reqs : pc'[s] = "idle"
          BY <1>0, <1>21 DEF ClientForgets, BlobInv, TypeOK
    <2> QED BY <1>0, <2>1, <2>2, <2>3 DEF BlobInv
  <1>22. CASE ForceUnlock
    <2>1. \A s \in Reqs : FileInv(s)'
          BY <1>0, <1>22 DEF ForceUnlock, CanWrite, BlobInv, FileInv,
             HistoryInv, HandlerInv, RowInv, Holds, InTx, HasVer, HasData,
             TypeOK, Request, Row, Versions, Stale
    <2>2. UnstruckRowHasBlob'
          BY <1>0, <1>22 DEF ForceUnlock, CanWrite, BlobInv, FileInv,
             UnstruckRowHasBlob, HistoryInv, HandlerInv, RowInv, Holds, InTx,
             HasVer, HasData, TypeOK, Request, Row, Versions, Stale
    <2>3. ~up' => \A s \in Reqs : pc'[s] = "idle"
          BY <1>0, <1>22 DEF ForceUnlock, CanWrite, BlobInv, TypeOK
    <2> QED BY <1>0, <2>1, <2>2, <2>3 DEF BlobInv
  <1>23. ASSUME NEW f \in late, LateCall(f) PROVE BlobInv'
    <2>1. f.version \in Versions
          BY <1>0, <1>23 DEF TypeOK, FsCall
    <2>2. \A v \in Versions : v \notin struck' => v \notin struck /\ blobs'[v] = blobs[v]
          BY <1>0, <1>23, <2>1 DEF LateCall, TypeOK
    <2>3. /\ UNCHANGED <<rows, current, pc, reqs, up>>
          /\ \A s \in Reqs : pc[s] \in HasVer => reqs[s].version \in Versions
          BY <1>0, <1>23 DEF LateCall, TypeOK
    <2>4. \A s \in Reqs : FileInv(s)'
          BY <2>2, <2>3 DEF BlobInv, FileInv, HasVer, InTx, Stale
    <2> QED BY <1>0, <2>2, <2>3, <2>4 DEF BlobInv, UnstruckRowHasBlob
  <1>24. CASE DeleteEnv
    <2>1. \A s \in Reqs : FileInv(s)'
          BY <1>0, <1>24 DEF DeleteEnv, CanWrite, BlobInv, FileInv,
             HistoryInv, HandlerInv, RowInv, Holds, InTx, HasVer, HasData,
             TypeOK, Request, Row, Versions, Stale
    <2>2. UnstruckRowHasBlob'
          BY <1>0, <1>24 DEF DeleteEnv, CanWrite, BlobInv, FileInv,
             UnstruckRowHasBlob, HistoryInv, HandlerInv, RowInv, Holds, InTx,
             HasVer, HasData, TypeOK, Request, Row, Versions, Stale
    <2>3. ~up' => \A s \in Reqs : pc'[s] = "idle"
          BY <1>0, <1>24 DEF DeleteEnv, CanWrite, BlobInv, TypeOK
    <2> QED BY <1>0, <2>1, <2>2, <2>3 DEF BlobInv
  <1>25. CASE Tick
    <2>1. \A s \in Reqs : FileInv(s)'
          BY <1>0, <1>25 DEF Tick, BlobInv, FileInv, HistoryInv, HandlerInv,
             RowInv, Holds, InTx, HasVer, HasData, TypeOK, Request, Row,
             Versions, Stale
    <2>2. UnstruckRowHasBlob'
          BY <1>0, <1>25 DEF Tick, BlobInv, FileInv, UnstruckRowHasBlob, HistoryInv,
             HandlerInv, RowInv, Holds, InTx, HasVer, HasData, TypeOK,
             Request, Row, Versions, Stale
    <2>3. ~up' => \A s \in Reqs : pc'[s] = "idle"
          BY <1>0, <1>25 DEF Tick, BlobInv, TypeOK
    <2> QED BY <1>0, <2>1, <2>2, <2>3 DEF BlobInv
  <1>26. CASE Crash
    <2>1. \A s \in Reqs : FileInv(s)'
          BY <1>0, <1>26 DEF Crash, BlobInv, FileInv, HistoryInv,
             HandlerInv, RowInv, Holds, InTx, HasVer, HasData, TypeOK,
             Request, Row, Versions, Stale
    <2>2. UnstruckRowHasBlob'
          BY <1>0, <1>26 DEF Crash, BlobInv, FileInv, UnstruckRowHasBlob,
             HistoryInv, HandlerInv, RowInv, Holds, InTx, HasVer, HasData,
             TypeOK, Request, Row, Versions, Stale
    <2>3. ~up' => \A s \in Reqs : pc'[s] = "idle"
          BY <1>0, <1>26 DEF Crash, BlobInv, TypeOK
    <2> QED BY <1>0, <2>1, <2>2, <2>3 DEF BlobInv
  <1>27. CASE Restart
    <2>1. \A s \in Reqs : FileInv(s)'
          BY <1>0, <1>27 DEF Restart, Orphans, BlobInv, FileInv, HistoryInv,
             HandlerInv, RowInv, Holds, InTx, HasVer, HasData, TypeOK,
             Request, Row, Versions, Stale
    <2>2. UnstruckRowHasBlob'
          BY <1>0, <1>27 DEF Restart, Orphans, BlobInv, FileInv, UnstruckRowHasBlob,
             HistoryInv, HandlerInv, RowInv, Holds, InTx, HasVer, HasData,
             TypeOK, Request, Row, Versions, Stale
    <2>3. ~up' => \A s \in Reqs : pc'[s] = "idle"
          BY <1>0, <1>27 DEF Restart, Orphans, BlobInv, TypeOK
    <2> QED BY <1>0, <2>1, <2>2, <2>3 DEF BlobInv
  <1>28. CASE UNCHANGED vars
        BY <1>0, <1>28 DEF vars, BlobInv, FileInv, UnstruckRowHasBlob
  <1> QED BY <1>1, <1>2, <1>3, <1>4, <1>5, <1>6, <1>7, <1>8, <1>9, <1>10, <1>11,
     <1>12, <1>13, <1>14, <1>15, <1>16, <1>17, <1>18, <1>19, <1>20, <1>21, <1>22,
     <1>23, <1>24, <1>25, <1>26, <1>27, <1>28 DEF Next, Step, Start

\* A committed snapshot row whose file no late call changed after its own
\* rename has the committed bytes, for any number of late calls.
THEOREM RowsHaveBlobs == Spec => []UnstruckRowHasBlob
  <1>1. BlobInv => UnstruckRowHasBlob
        BY DEF BlobInv
  <1> QED BY InitBlob, NextBlob, <1>1, PTL DEF Spec

\* A download of a version no late call changed serves the announced bytes or
\* fails.
THEOREM DownloadsAreHonest == Spec => []DownloadHonest
  <1>1. BlobInv => DownloadHonest
        BY DEF BlobInv, FileInv, DownloadHonest
  <1> QED BY InitBlob, NextBlob, <1>1, PTL DEF Spec

----------------------------------------------------------------------------
(* Leases that have not run out.                                           *)

\* A handler's clock is read before its statement runs, never after it.
ClockInv == \A r \in Reqs : reqs[r].at <= now

\* The body of LiveLeaseKept.
OwnerKept == lock # None /\ lock' # None /\ lock'.owner # lock.owner => lock.expires <= now

\* The clock of a handler that starts is the current one and nobody changes it.
LEMMA ClockStep ==
    ASSUME TypeOK, ClockInv, now' = now,
           \A r \in Reqs : reqs'[r].at \in {reqs[r].at, now, 0}
    PROVE  ClockInv'
  BY DEF ClockInv, TypeOK

LEMMA IdleClock == Idle.at = 0 BY DEF Idle

\* A step that changes one request of `reqs`.
LEMMA OneClock ==
    ASSUME TypeOK, ClockInv, now' = now, NEW r \in Reqs,
           reqs'[r].at \in {reqs[r].at, now, 0}, \A x \in Reqs \ {r} : reqs'[x] = reqs[x]
    PROVE  ClockInv'
  <1>1. \A x \in Reqs : reqs'[x].at \in {reqs[x].at, now, 0} OBVIOUS
  <1> QED BY <1>1, ClockStep

LEMMA DoneClock ==
    ASSUME TypeOK, ClockInv, now' = now, NEW r \in Reqs, Done(r) PROVE ClockInv'
  <1>1. reqs'[r] = Idle /\ \A x \in Reqs \ {r} : reqs'[x] = reqs[x] BY DEF Done, TypeOK
  <1> QED BY <1>1, IdleClock, OneClock

LEMMA SameClock ==
    ASSUME ClockInv, now' = now, reqs' = reqs PROVE ClockInv'
  BY DEF ClockInv

\* Only an upsert gives the row to another owner, and its clock is in the past.
LEMMA NextClock == TypeOK /\ ClockInv /\ [Next]_vars => ClockInv' /\ OwnerKept
  <1> SUFFICES ASSUME TypeOK, ClockInv, [Next]_vars PROVE ClockInv' /\ OwnerKept
      OBVIOUS
  <1>0. reqs \in [Reqs -> Request] /\ now \in Nat BY DEF TypeOK
  <1>1. ASSUME NEW r \in Reqs, NEW c \in Clients, CheckoutRead(r, c) \/ LeaseBegin(r, c)
        PROVE  ClockInv' /\ OwnerKept
    <2>1. reqs'[r].at = now
      <3>1. CASE CheckoutRead(r, c) BY <1>0, <3>1 DEF CheckoutRead, Idle
      <3>2. CASE LeaseBegin(r, c) BY <1>0, <3>2 DEF LeaseBegin, Idle
      <3> QED BY <1>1, <3>1, <3>2
    <2>3. \A x \in Reqs \ {r} : reqs'[x] = reqs[x] BY <1>0, <1>1 DEF CheckoutRead, LeaseBegin
    <2>4. now' = now /\ lock' = lock BY <1>1 DEF CheckoutRead, LeaseBegin
    <2>5. ClockInv' BY <2>1, <2>3, <2>4, OneClock
    <2> QED BY <2>4, <2>5 DEF OwnerKept
  <1>2. ASSUME NEW r \in Reqs, CheckoutUpsert(r) PROVE ClockInv' /\ OwnerKept
    <2>1. PICK q : q = [reqs[r] EXCEPT !.token = minted + 1] OBVIOUS
    <2>2. q.at = reqs[r].at BY <1>0, <2>1 DEF Request
    <2>3. reqs' = [reqs EXCEPT ![r] = q] /\ now' = now BY <1>2, <2>1 DEF CheckoutUpsert
    <2>4. ClockInv'
      <3>1. reqs'[r] = q /\ \A x \in Reqs \ {r} : reqs'[x] = reqs[x] BY <1>0, <2>3
      <3> QED BY <2>2, <2>3, <3>1, OneClock
    <2>5. reqs[r].at \in Nat /\ reqs[r].at <= now BY <1>0 DEF ClockInv, Request
    <2>6. MayTake(reqs[r].client, reqs[r].token, reqs[r].at) /\ lock'.owner = reqs[r].client
          BY <1>2 DEF CheckoutUpsert
    <2>7. CASE lock # None /\ lock'.owner # lock.owner
      <3>1. lock \in Lock BY <2>7 DEF TypeOK
      <3>2. lock.expires <= reqs[r].at BY <2>6, <2>7 DEF MayTake, Holds
      <3> QED BY <2>4, <2>5, <3>1, <3>2, <1>0 DEF OwnerKept, Lock
    <2> QED BY <2>4, <2>7 DEF OwnerKept
  <1>3. ASSUME NEW r \in Reqs,
               CheckoutRefused(r) \/ CheckoutAnswer(r) \/ CheckinLost(r) \/ DownloadOpen(r) \/ Abandon(r)
        PROVE  ClockInv' /\ OwnerKept
    <2>1. Done(r) /\ now' = now /\ lock' = lock
          BY <1>3 DEF CheckoutRefused, CheckoutAnswer, CheckinLost, DownloadOpen, Abandon
    <2> QED BY <2>1, DoneClock DEF OwnerKept
  <1>4. ASSUME NEW r \in Reqs, LeaseUpdate(r) PROVE ClockInv' /\ OwnerKept
    <2>1. Done(r) /\ now' = now BY <1>4 DEF LeaseUpdate
    <2>2. lock # None => lock'.owner = lock.owner
      <3>1. lock # None => lock \in Lock BY DEF TypeOK
      <3> QED BY <1>4, <3>1 DEF LeaseUpdate, Lock
    <2> QED BY <2>1, <2>2, DoneClock DEF OwnerKept
  <1>5. ASSUME NEW r \in Reqs,
               CheckinStreamed(r) \/ PromoteRemove(r) \/ PromoteRename(r) \/ GcDelete(r)
        PROVE  ClockInv' /\ OwnerKept
    <2>1. reqs' = reqs /\ now' = now /\ lock' = lock
          BY <1>5 DEF CheckinStreamed, PromoteRemove, PromoteRename, GcDelete
    <2> QED BY <2>1, SameClock DEF OwnerKept
  <1>6. ASSUME NEW r \in Reqs, CheckinCommit(r) PROVE ClockInv' /\ OwnerKept
    <2>1. reqs' = reqs /\ now' = now /\ lock' = None BY <1>6 DEF CheckinCommit
    <2> QED BY <2>1, SameClock DEF OwnerKept
  <1>7. ASSUME NEW r \in Reqs, CheckinTx(r) PROVE ClockInv' /\ OwnerKept
    <2>1. PICK q : q = [reqs[r] EXCEPT !.version = current + 1] OBVIOUS
    <2>2. q.at = reqs[r].at BY <1>0, <2>1 DEF Request
    <2>3. reqs' = [reqs EXCEPT ![r] = q] /\ now' = now /\ lock' = lock
          BY <1>7, <2>1 DEF CheckinTx
    <2>4. reqs'[r] = q /\ \A x \in Reqs \ {r} : reqs'[x] = reqs[x] BY <1>0, <2>3
    <2> QED BY <2>2, <2>3, <2>4, OneClock DEF OwnerKept
  <1>8. ASSUME NEW r \in Reqs, GcSelect(r) \/ GcUnlink(r) PROVE ClockInv' /\ OwnerKept
    <2>1. now' = now /\ lock' = lock BY <1>8 DEF GcSelect, GcUnlink
    <2>2. CASE Done(r) BY <2>1, <2>2, DoneClock DEF OwnerKept
    <2>3. CASE ~Done(r)
      <3>1. PICK S : reqs' = [reqs EXCEPT ![r].stale = S]
            BY <1>8, <2>3 DEF GcSelect, GcUnlink
      <3>2. PICK q : q = [reqs[r] EXCEPT !.stale = S] OBVIOUS
      <3>3. q.at = reqs[r].at BY <1>0, <3>2 DEF Request
      <3>4. reqs' = [reqs EXCEPT ![r] = q] BY <3>1, <3>2
      <3>5. reqs'[r] = q /\ \A x \in Reqs \ {r} : reqs'[x] = reqs[x] BY <1>0, <3>4
      <3> QED BY <2>1, <3>3, <3>5, OneClock DEF OwnerKept
    <2> QED BY <2>2, <2>3
  <1>9. ASSUME NEW r \in Reqs, NEW c \in Clients, NEW d \in Data, CheckinBegin(r, c, d)
        PROVE  ClockInv' /\ OwnerKept
    <2>1. PICK q : q = [Idle EXCEPT !.client = c, !.token = session[c].token,
                                    !.base = session[c].base, !.data = d] OBVIOUS
    <2>2. q.at = 0 BY <2>1 DEF Idle
    <2>3. reqs' = [reqs EXCEPT ![r] = q] /\ now' = now /\ lock' = lock
          BY <1>9, <2>1 DEF CheckinBegin
    <2>4. reqs'[r] = q /\ \A x \in Reqs \ {r} : reqs'[x] = reqs[x] BY <1>0, <2>3
    <2> QED BY <2>2, <2>3, <2>4, OneClock DEF OwnerKept
  <1>10. ASSUME NEW r \in Reqs, NEW c \in Clients, NEW v \in Versions, DownloadRow(r, c, v)
         PROVE  ClockInv' /\ OwnerKept
    <2>1. PICK q : q = [Idle EXCEPT !.client = c, !.version = v, !.data = rows[v].data] OBVIOUS
    <2>2. q.at = 0 BY <2>1 DEF Idle
    <2>3. reqs' = [reqs EXCEPT ![r] = q] /\ now' = now /\ lock' = lock
          BY <1>10, <2>1 DEF DownloadRow
    <2>4. reqs'[r] = q /\ \A x \in Reqs \ {r} : reqs'[x] = reqs[x] BY <1>0, <2>3
    <2> QED BY <2>2, <2>3, <2>4, OneClock DEF OwnerKept
  <1>11. ASSUME NEW c \in Clients, Release(c) \/ ClientForgets(c) PROVE ClockInv' /\ OwnerKept
    <2>1. reqs' = reqs /\ now' = now /\ (lock' = None \/ lock' = lock)
          BY <1>11 DEF Release, ClientForgets
    <2> QED BY <2>1, SameClock DEF OwnerKept
  <1>12. ASSUME NEW f \in late, LateCall(f) PROVE ClockInv' /\ OwnerKept
    <2>1. reqs' = reqs /\ now' = now /\ lock' = lock BY <1>12 DEF LateCall
    <2> QED BY <2>1, SameClock DEF OwnerKept
  <1>13. CASE ForceUnlock \/ DeleteEnv \/ Restart
    <2>1. reqs' = reqs /\ now' = now /\ (lock' = None \/ lock' = lock)
          BY <1>13 DEF ForceUnlock, DeleteEnv, Restart
    <2> QED BY <2>1, SameClock DEF OwnerKept
  <1>14. CASE Tick
    <2>1. reqs' = reqs /\ now' = now + 1 /\ lock' = lock BY <1>14 DEF Tick
    <2>2. \A r \in Reqs : reqs[r].at \in Nat /\ reqs[r].at <= now BY <1>0 DEF ClockInv, Request
    <2> QED BY <1>0, <2>1, <2>2 DEF ClockInv, OwnerKept
  <1>15. CASE Crash
    <2>1. /\ now' = now /\ lock' = lock
          /\ \A r \in Reqs : reqs'[r] = Idle
          BY <1>15 DEF Crash
    <2>2. ClockInv' BY <2>1, IdleClock, ClockStep
    <2> QED BY <2>1, <2>2 DEF OwnerKept
  <1>16. CASE UNCHANGED vars
    <2>1. reqs' = reqs /\ now' = now /\ lock' = lock BY <1>16 DEF vars
    <2> QED BY <2>1, SameClock DEF OwnerKept
  <1> QED BY <1>1, <1>2, <1>3, <1>4, <1>5, <1>6, <1>7, <1>8, <1>9, <1>10, <1>11, <1>12,
             <1>13, <1>14, <1>15, <1>16 DEF Next, Step, Start

\* A lease that has not run out is taken by nobody else, although a checkout
\* compares it with a clock it read before its statement waited for the write
\* lock and leases are extended by requests that were delayed as well.
THEOREM LiveLeasesKept == Spec => LiveLeaseKept
  <1>1. Init => TypeOK /\ ClockInv
    <2>1. Init => ClockInv BY IdleClock DEF Init, ClockInv
    <2> QED BY <2>1, InitTypeOK
  <1>2. TypeOK /\ ClockInv /\ [Next]_vars =>
          /\ TypeOK' /\ ClockInv'
          /\ [lock # None /\ lock' # None /\ lock'.owner # lock.owner => lock.expires <= now]_vars
        BY NextTypeOK, NextClock DEF OwnerKept
  <1> QED BY <1>1, <1>2, PTL DEF Spec, LiveLeaseKept
=============================================================================
