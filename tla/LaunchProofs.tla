---------------------------- MODULE LaunchProofs ----------------------------
(***************************************************************************)
(* Proofs about Launch, for any number of MCP calls, launches, process IDs, *)
(* browsers started by hand and deaths of the launcher.                     *)
(***************************************************************************)
EXTENDS Launch, TLAPS

----------------------------------------------------------------------------
(* The parts of the inductive invariant.                                   *)

Live == {"watch", "term", "lock", "final"}

\* Launches are numbered as they are spawned, and one on its way has a number
\* left and the claim.
LaunchInv ==
    /\ \A k \in Runs : task[k] = "none" <=> k > n
    /\ starter # None => claim = "launch" /\ n < MaxLaunch
    /\ \A h \in Helpers : starter = h => helper[h].pc = "launching"

\* The tracker's entry is the only one whose task has not ended, and a claim
\* excludes it: so tasks follow each other.
EntryInv ==
    /\ \A k \in Runs : task[k] \in Live => entry # None /\ entry.run = k
    /\ claim \in {"launch", "mutation", "bulk"} => entry = None

\* A browser of this launcher is watched by its task.
BrowserInv ==
    \A k \in procs : k = 0 \/ k \in orphans \/ task[k] \in {"watch", "term"}

\* An MCP call sends stops only to the launch it made, and only to one that was
\* spawned.
StopInv ==
    /\ \A h \in Helpers :
         /\ Mine(h) # 0 => by[Mine(h)] = h
         /\ helper[h].pc \in {"cdp", "stop", "send", "poll", "confirm"} => Mine(h) # 0
         /\ helper[h].outcome = "stopped" => helper[h].pc = "over" /\ Mine(h) # 0
    /\ \A k \in Runs : \A h \in Helpers : chan[k] = <<h>> => by[k] = h
    /\ \A k \in Runs : k > n => chan[k] = <<>>

----------------------------------------------------------------------------
(* What the operators that many actions share do.                          *)

Chans    == [Runs -> {<<>>} \cup {<<s>> : s \in Senders}]
Calls(m) == [Helpers -> [pc : HelperPCs, run : 0 .. m, outcome : Outcomes]]

\* A call that moves on keeps its launch and its outcome.
LEMMA MoveCall ==
  ASSUME NEW m, helper \in Calls(m), NEW h \in Helpers, NEW p \in HelperPCs, Move(h, p)
  PROVE  /\ helper' \in Calls(m)
         /\ \A g \in Helpers : g # h => helper'[g] = helper[g]
         /\ helper'[h].pc = p /\ helper'[h].run = helper[h].run
         /\ helper'[h].outcome = helper[h].outcome
  BY DEF Move, Calls

\* A call that ends keeps its launch.
LEMMA OverCall ==
  ASSUME NEW m, helper \in Calls(m), NEW h \in Helpers, NEW o \in Outcomes, Over(h, o)
  PROVE  /\ helper' \in Calls(m)
         /\ \A g \in Helpers : g # h => helper'[g] = helper[g]
         /\ helper'[h].pc = "over" /\ helper'[h].run = helper[h].run
         /\ helper'[h].outcome = o
  <1>1. "over" \in HelperPCs
        BY DEF HelperPCs
  <1> QED BY <1>1 DEF Over, Calls

\* A stop goes into an empty channel, or nowhere when the task is over.
LEMMA SendOne ==
  ASSUME chan \in Chans, NEW k, NEW s \in Senders, SendStop(s, k)
  PROVE  /\ chan' \in Chans
         /\ \A j \in Runs : chan'[j] = chan[j] \/ (j = k /\ chan'[j] = <<s>>)
  <1>1. CASE task[k] # "over" /\ Room(k) /\ chan' = [chan EXCEPT ![k] = Append(@, s)]
    <2>1. CASE k \in Runs
      <3>1. chan[k] = <<>>
        <4>1. ASSUME NEW t, chan[k] = <<t>> PROVE FALSE
              BY <1>1, <4>1 DEF Room
        <4> QED BY <2>1, <4>1 DEF Chans
      <3>2. chan' = [chan EXCEPT ![k] = <<s>>]
            BY <1>1, <3>1
      <3> QED BY <2>1, <3>2 DEF Chans
    <2>2. CASE k \notin Runs
      <3>1. chan' = chan
            BY <1>1, <2>2 DEF Chans
      <3> QED BY <3>1
    <2> QED BY <2>1, <2>2
  <1>2. CASE UNCHANGED chan
        BY <1>2
  <1> QED BY <1>1, <1>2 DEF SendStop

\* Taking the stop out of a channel leaves it empty.
LEMMA TakeOne ==
  ASSUME chan \in Chans, NEW k \in Runs, chan[k] # <<>>
  PROVE  /\ Head(chan[k]) \in Senders /\ chan[k] = <<Head(chan[k])>>
         /\ Tail(chan[k]) = <<>>
         /\ [chan EXCEPT ![k] = Tail(@)] = [chan EXCEPT ![k] = <<>>]
  <1>1. PICK s \in Senders : chan[k] = <<s>>
        BY DEF Chans
  <1>2. Head(<<s>>) = s /\ Tail(<<s>>) = <<>>
        OBVIOUS
  <1> QED BY <1>1, <1>2

----------------------------------------------------------------------------
(* Types.                                                                  *)

Base == TypeOK /\ LaunchInv

\* The launcher starts with no claim, entry, launch or browser.
LEMMA InitBase == Init => Base
  BY SendersOK, BoundsOK, NoneIsNew
  DEF Init, Base, TypeOK, LaunchInv, Runs, Senders, NoHelper, HelperPCs, Outcomes

\* The call whose browser is spawned owns launch m + 1.
LEMMA SpawnCall ==
  ASSUME NEW m \in Nat, helper \in Calls(m), NEW h \in Helpers,
         helper' = [helper EXCEPT ![h].pc = "cdp", ![h].run = m + 1]
  PROVE  /\ helper' \in Calls(m + 1)
         /\ \A g \in Helpers : g # h => helper'[g] = helper[g]
         /\ helper'[h].pc = "cdp" /\ helper'[h].run = m + 1
         /\ helper'[h].outcome = helper[h].outcome
  <1>1. 0 .. m \subseteq 0 .. (m + 1) /\ m + 1 \in 0 .. (m + 1) /\ "cdp" \in HelperPCs
        BY DEF HelperPCs
  <1>2. helper[h] \in [pc : HelperPCs, run : 0 .. m, outcome : Outcomes]
        BY DEF Calls
  <1>3. helper' = [helper EXCEPT ![h] =
                      [pc |-> "cdp", run |-> m + 1, outcome |-> helper[h].outcome]]
        BY <1>2 DEF Calls
  <1> HIDE DEF HelperPCs, Outcomes
  <1>4. [pc |-> "cdp", run |-> m + 1, outcome |-> helper[h].outcome] \in
            [pc : HelperPCs, run : 0 .. (m + 1), outcome : Outcomes]
        BY <1>1, <1>2
  <1>5. helper \in Calls(m + 1)
        BY <1>1 DEF Calls
  <1> QED BY <1>3, <1>4, <1>5 DEF Calls

Quiet == UNCHANGED <<up, claim, starter, tracker, run, ustop, env, told, orphans, count>>

Owning == {"cdp", "stop", "send", "poll", "confirm"}

\* The steps of a call that change nothing of the launcher: the launch stays, and
\* "stopped" is said only of a launch the tracker does not list.
LEMMA CallStep ==
  ASSUME TypeOK, NEW h \in Helpers,
         List(h) \/ HelperDies(h) \/ Opened(h) \/ Stop(h) \/ Poll(h) \/ Confirm(h)
  PROVE  /\ Quiet
         /\ helper' \in Calls(n)
         /\ \A g \in Helpers : g # h => helper'[g] = helper[g]
         /\ helper'[h].run = helper[h].run
         /\ helper[h].pc \notin {"launching", "over"}
         /\ helper'[h].pc \in Owning => helper[h].pc \in Owning \/ Mine(h) # 0
         /\ \/ helper'[h].outcome = helper[h].outcome
            \/ helper'[h].pc = "over" /\ helper'[h].outcome \in {"failed", "left"}
            \/ /\ helper[h].pc = "confirm" /\ helper'[h].pc = "over"
               /\ helper'[h].outcome = "stopped" /\ ~StillListed(h)
  <1> DEFINE Moved(p) == /\ helper' \in Calls(n)
                         /\ \A g \in Helpers : g # h => helper'[g] = helper[g]
                         /\ helper'[h].pc = p /\ helper'[h].run = helper[h].run
                         /\ helper'[h].outcome = helper[h].outcome
             Ended(o) == /\ helper' \in Calls(n)
                         /\ \A g \in Helpers : g # h => helper'[g] = helper[g]
                         /\ helper'[h].pc = "over" /\ helper'[h].run = helper[h].run
                         /\ helper'[h].outcome = o
  <1>a. helper \in Calls(n)
        BY DEF TypeOK, Calls
  <1>b. \A p \in HelperPCs : Move(h, p) => Moved(p)
        BY <1>a, MoveCall
  <1>c. \A o \in Outcomes : Over(h, o) => Ended(o)
        BY <1>a, OverCall
  <1>d. /\ "start" \in HelperPCs /\ "open" \in HelperPCs /\ "stop" \in HelperPCs
        /\ "poll" \in HelperPCs /\ "confirm" \in HelperPCs /\ "send" \in HelperPCs
        /\ "failed" \in Outcomes /\ "left" \in Outcomes /\ "stopped" \in Outcomes
        BY DEF HelperPCs, Outcomes
  <1>1. CASE List(h)
    <2>1. Moved("start") \/ Moved("open") \/ Ended("failed")
          BY <1>1, <1>b, <1>c, <1>d DEF List
    <2> QED BY <1>1, <2>1 DEF List, At, Quiet, Owning
  <1>2. CASE HelperDies(h)
    <2>1. Ended("failed")
          BY <1>2, <1>c, <1>d DEF HelperDies
    <2> QED BY <1>2, <2>1 DEF HelperDies, Quiet, Owning
  <1>3. CASE Opened(h)
    <2>1. Ended("left") \/ (Mine(h) # 0 /\ Moved("stop"))
          BY <1>3, <1>b, <1>c, <1>d DEF Opened
    <2> QED BY <1>3, <2>1 DEF Opened, At, Quiet, Owning
  <1>4. CASE Stop(h)
    <2>1. CASE ~up \/ entry = None
      <3>1. Moved("poll")
            BY <1>4, <2>1, <1>b, <1>d DEF Stop
      <3> QED BY <1>4, <3>1 DEF Stop, At, Quiet, Owning
    <2>2. CASE ~(~up \/ entry = None) /\ SameInstance(h)
      <3>1. helper' = [helper EXCEPT ![h].pc = "send", ![h].run = helper[h].run]
            BY <1>4, <2>2 DEF Stop, SameInstance, Mine
      <3>2. Moved("send")
            BY <3>1, <1>a, <1>d DEF Calls
      <3> QED BY <1>4, <3>2 DEF Stop, At, Quiet, Owning
    <2>3. CASE ~(~up \/ entry = None) /\ ~SameInstance(h)
      <3>1. Ended("failed")
            BY <1>4, <2>3, <1>c, <1>d DEF Stop
      <3> QED BY <1>4, <3>1 DEF Stop, At, Quiet, Owning
    <2> QED BY <2>1, <2>2, <2>3
  <1>5. CASE Poll(h)
    <2>1. Moved("confirm") \/ Ended("failed")
          BY <1>5, <1>b, <1>c, <1>d DEF Poll
    <2> QED BY <1>5, <2>1 DEF Poll, At, Quiet, Owning
  <1>6. CASE Confirm(h)
    <2>1. CASE ~up \/ StillListed(h)
      <3>1. Ended("failed")
            BY <1>6, <2>1, <1>c, <1>d DEF Confirm
      <3> QED BY <1>6, <3>1 DEF Confirm, At, Quiet, Owning
    <2>2. CASE ~(~up \/ StillListed(h))
      <3>1. Ended("stopped")
            BY <1>6, <2>2, <1>c, <1>d DEF Confirm
      <3> QED BY <1>6, <2>2, <3>1 DEF Confirm, At, Quiet, Owning
    <2> QED BY <2>1, <2>2
  <1> QED BY <1>1, <1>2, <1>3, <1>4, <1>5, <1>6

\* Every step keeps the types, the numbering of launches and the claim of the
\* one on its way.
LEMMA NextBase == Base /\ [Next]_vars => Base'
  <1> SUFFICES ASSUME Base, [Next]_vars PROVE Base'
      OBVIOUS
  <1> USE SendersOK, BoundsOK, NoneIsNew DEF Base, TypeOK, LaunchInv, Runs, Senders
  <1>a. helper \in Calls(n) /\ chan \in Chans
        BY DEF Calls, Chans
  <1>b. ASSUME NEW h \in Helpers,
               List(h) \/ HelperDies(h) \/ Opened(h) \/ Stop(h) \/ Poll(h) \/ Confirm(h)
        PROVE  Base'
    <2>1. Quiet /\ helper' \in Calls(n) /\ helper[h].pc # "launching"
          /\ \A g \in Helpers : g # h => helper'[g] = helper[g]
          BY <1>b, CallStep
    <2> QED BY <2>1 DEF Quiet, Calls, tracker, run, env, count
  <1>1. CASE BeginMutation
        BY <1>1 DEF BeginMutation, ClaimFree, tracker, run, env, count
  <1>2. CASE BeginBulk
        BY <1>2 DEF BeginBulk, tracker, run, env, count
  <1>3. CASE BulkCheck
        BY <1>3 DEF BulkCheck, tracker, run, env, count
  <1>4. CASE EndMutation
        BY <1>4 DEF EndMutation, tracker, run, env, count
  <1>5. CASE UserLaunch
        BY <1>5 DEF UserLaunch, BeginLaunch, MayLaunch, ClaimFree, tracker, run, env, count
  <1>6. CASE LaunchFails
    <2>1. CASE starter \in Helpers
      <3>1. /\ helper' \in Calls(n) /\ \A g \in Helpers : g # starter => helper'[g] = helper[g]
            BY <1>6, <2>1, <1>a, OverCall DEF LaunchFails, ToFailed, Outcomes
      <3> QED BY <1>6, <3>1 DEF LaunchFails, Calls, tracker, run, env, count
    <2>2. CASE starter \notin Helpers
          BY <1>6, <2>2 DEF LaunchFails, ToFailed, tracker, run, env, count
    <2> QED BY <2>1, <2>2
  <1>7. CASE UserStarted
        BY <1>7 DEF UserStarted, tracker, run, env, count
  <1>8. CASE UserStop
        BY <1>8 DEF UserStop, tracker, run, env, count
  <1>9. CASE UserSend
    <2>1. chan' \in Chans
          BY <1>a, <1>9, SendOne DEF UserSend
    <2> QED BY <1>9, <2>1 DEF UserSend, Chans, tracker, run, env, count
  <1>10. ASSUME NEW p \in Pids, Spawn(p) PROVE Base'
    <2>1. n + 1 \in Runs /\ n' = n + 1 /\ claim = "launch"
          BY <1>10 DEF Spawn
    <2>2. helper' \in Calls(n + 1)
      <3>1. helper \in Calls(n + 1)
            BY <1>a DEF Calls
      <3>2. CASE starter \in Helpers
        <4>1. helper' = [helper EXCEPT ![starter].pc = "cdp", ![starter].run = n + 1]
              BY <1>10, <3>2 DEF Spawn
        <4>2. n \in Nat
              OBVIOUS
        <4> QED BY <1>a, <3>2, <4>1, <4>2, SpawnCall
      <3>3. CASE starter \notin Helpers
            BY <1>10, <3>1, <3>3 DEF Spawn
      <3> QED BY <3>2, <3>3
    <2>3. /\ by' \in [Runs -> Senders \cup {None}] /\ pid' \in [Runs -> Pids \cup {None}]
          /\ task' \in [Runs -> {"none", "watch", "term", "lock", "final", "over"}]
          /\ \A j \in Runs : task'[j] = IF j = n + 1 THEN "watch" ELSE task[j]
          BY <1>10, <2>1 DEF Spawn
    <2>4. entry' \in [run : 1 .. n', cdp : BOOLEAN]
          BY <1>10, <2>1 DEF Spawn
    <2>5. procs' \subseteq 0 .. n' /\ holder' \in procs' \cup {None}
          BY <1>10, <2>1 DEF Spawn
    <2>6. told' \subseteq Senders \X (0 .. n') /\ orphans' \subseteq 1 .. n' /\ ustop' \in 0 .. n'
          BY <1>10, <2>1 DEF Spawn
    <2>7. TypeOK'
          BY <1>10, <2>1, <2>2, <2>3, <2>4, <2>5, <2>6 DEF Spawn, Calls, count
    <2>8. LaunchInv'
          BY <1>10, <2>1, <2>3 DEF Spawn
    <2> QED BY <2>7, <2>8
  <1>11. ASSUME NEW k \in Runs, TakeLock(k) PROVE Base'
        BY <1>11 DEF TakeLock, tracker, run, env, count
  <1>12. ASSUME NEW k \in Runs, HandOver(k) PROVE Base'
        BY <1>12 DEF HandOver, tracker, run, env, count
  <1>13. ASSUME NEW k \in Runs, WatchExit(k) PROVE Base'
        BY <1>13 DEF WatchExit, Task, tracker, run, env, count
  <1>14. ASSUME NEW k \in Runs, WatchStop(k) PROVE Base'
    <2>1. Head(chan[k]) \in Senders /\ [chan EXCEPT ![k] = Tail(@)] \in Chans
          BY <1>a, <1>14, TakeOne DEF WatchStop, Chans
    <2> QED BY <1>14, <2>1 DEF WatchStop, Task, Chans, tracker, run, env, count
  <1>15. ASSUME NEW k \in Runs, HardKill(k) PROVE Base'
        BY <1>15 DEF HardKill, Gone, tracker, run, env, count
  <1>16. ASSUME NEW k \in Runs, Terminated(k) PROVE Base'
        BY <1>16 DEF Terminated, Task, tracker, run, env, count
  <1>17. ASSUME NEW k \in Runs, LockFree(k) PROVE Base'
        BY <1>17 DEF LockFree, Task, tracker, run, env, count
  <1>18. ASSUME NEW k \in Runs, GiveUp(k) PROVE Base'
        BY <1>18 DEF GiveUp, Task, tracker, run, env, count
  <1>19. ASSUME NEW k \in Runs, LockStop(k) PROVE Base'
    <2>1. Head(chan[k]) \in Senders /\ [chan EXCEPT ![k] = Tail(@)] \in Chans
          BY <1>a, <1>19, TakeOne DEF LockStop, Chans
    <2> QED BY <1>19, <2>1 DEF LockStop, Task, Chans, tracker, run, env, count
  <1>20. ASSUME NEW k \in Runs, Finalize(k) PROVE Base'
        BY <1>20 DEF Finalize, Task, tracker, run, env, count
  <1>21. ASSUME NEW k \in Runs \cup {0}, Exit(k) PROVE Base'
        BY <1>21 DEF Exit, Gone, tracker, run, env, count
  <1>22. ASSUME NEW h \in Helpers, List(h) PROVE Base'
        BY <1>b, <1>22
  <1>23. ASSUME NEW h \in Helpers, StartProfile(h) PROVE Base'
    <2>1. CASE MayLaunch
      <3>1. /\ helper' \in Calls(n) /\ helper'[h].pc = "launching"
            /\ \A g \in Helpers : g # h => helper'[g] = helper[g]
            BY <1>23, <2>1, <1>a, MoveCall DEF StartProfile, HelperPCs
      <3> QED BY <1>23, <2>1, <3>1
              DEF StartProfile, BeginLaunch, MayLaunch, ClaimFree, Calls, tracker, run, env, count
    <2>2. CASE ~MayLaunch
      <3>1. /\ helper' \in Calls(n)
            /\ \A g \in Helpers : g # h => helper'[g] = helper[g]
            BY <1>23, <2>2, <1>a, OverCall DEF StartProfile, Outcomes
      <3> QED BY <1>23, <2>2, <3>1 DEF StartProfile, At, Calls, tracker, run, env, count
    <2> QED BY <2>1, <2>2
  <1>24. ASSUME NEW h \in Helpers, Started(h) PROVE Base'
    <2>1. /\ helper' \in Calls(n) /\ helper[h].pc = "cdp"
          /\ \A g \in Helpers : g # h => helper'[g] = helper[g]
          BY <1>24, <1>a, MoveCall DEF Started, At, HelperPCs
    <2>2. entry' = None \/ entry' \in [run : 1 .. n, cdp : BOOLEAN]
          BY <1>24 DEF Started
    <2> QED BY <1>24, <2>1, <2>2 DEF Started, Calls, tracker, run, env, count
  <1>25. ASSUME NEW h \in Helpers, HelperDies(h) PROVE Base'
        BY <1>b, <1>25
  <1>26. ASSUME NEW h \in Helpers, Opened(h) PROVE Base'
        BY <1>b, <1>26
  <1>27. ASSUME NEW h \in Helpers, Stop(h) PROVE Base'
        BY <1>b, <1>27
  <1>28. ASSUME NEW h \in Helpers, Send(h) PROVE Base'
    <2>1. /\ helper' \in Calls(n) /\ helper[h].pc = "send"
          /\ \A g \in Helpers : g # h => helper'[g] = helper[g]
          BY <1>28, <1>a, MoveCall DEF Send, At, HelperPCs
    <2>2. chan' \in Chans
          BY <1>28, <1>a, SendOne DEF Send
    <2> QED BY <1>28, <2>1, <2>2 DEF Send, Calls, Chans, tracker, run, env, count
  <1>29. ASSUME NEW h \in Helpers, Poll(h) PROVE Base'
        BY <1>b, <1>29
  <1>30. ASSUME NEW h \in Helpers, Confirm(h) PROVE Base'
        BY <1>b, <1>30
  <1>31. CASE HandStart
        BY <1>31 DEF HandStart, tracker, run, env, count
  <1>32. CASE Crash
    <2>1. helper' \in Calls(n)
      <3>1. "over" \in HelperPCs /\ "poll" \in HelperPCs /\ "failed" \in Outcomes
            BY DEF HelperPCs, Outcomes
      <3> QED BY <1>32, <1>a, <3>1 DEF Crash, Calls
    <2>2. /\ orphans' \subseteq 1 .. n
          /\ task' \in [Runs -> {"none", "watch", "term", "lock", "final", "over"}]
          /\ \A k \in Runs : task'[k] = "none" <=> task[k] = "none"
      <3>1. task' = [k \in Runs |-> IF task[k] = "none" THEN "none" ELSE "over"]
            BY <1>32 DEF Crash
      <3>2. orphans' = orphans \cup (procs \ {0})
            BY <1>32 DEF Crash
      <3> QED BY <3>1, <3>2
    <2>3. chan' \in Chans
          BY <1>32 DEF Crash, Chans
    <2>4. /\ up' = FALSE /\ claim' = "none" /\ starter' = None /\ entry' = None /\ ustop' = 0
          /\ UNCHANGED <<n, by, pid, procs, holder, told, hands>>
          BY <1>32 DEF Crash, run, env
    <2>5. crashes' \in 0 .. MaxCrash
      <3>1. crashes < MaxCrash /\ crashes' = crashes + 1
            BY <1>32 DEF Crash
      <3> QED BY <3>1
    <2>6. TypeOK'
      <3>1. /\ helper' \in [Helpers -> [pc : HelperPCs, run : 0 .. n', outcome : Outcomes]]
            /\ chan' \in [Runs -> {<<>>} \cup {<<s>> : s \in Senders}]
            BY <2>1, <2>3, <2>4 DEF Calls, Chans
      <3>2. /\ procs' \subseteq 0 .. n' /\ holder' \in procs' \cup {None}
            /\ told' \subseteq Senders \X (0 .. n') /\ orphans' \subseteq 1 .. n'
            BY <2>2, <2>4
      <3>3. /\ up' \in BOOLEAN
            /\ claim' \in {"none", "launch", "mutation", "bulkcheck", "bulk"}
            /\ starter' \in Senders \cup {None}
            BY <2>4
      <3>4. /\ n' \in 0 .. MaxLaunch /\ by' \in [Runs -> Senders \cup {None}]
            /\ pid' \in [Runs -> Pids \cup {None}] /\ hands' \in 0 .. MaxHand /\ ustop' \in 0 .. n'
            BY <2>4
      <3> QED BY <2>2, <2>4, <2>5, <3>1, <3>2, <3>3, <3>4
    <2>7. LaunchInv'
          BY <2>2, <2>4
    <2> QED BY <2>6, <2>7
  <1>33. CASE Restart
        BY <1>33 DEF Restart, tracker, run, env, count
  <1>34. CASE UNCHANGED vars
        BY <1>34 DEF vars, tracker, run, env, count
  <1> QED BY <1>1, <1>2, <1>3, <1>4, <1>5, <1>6, <1>7, <1>8, <1>9, <1>10, <1>11,
     <1>12, <1>13, <1>14, <1>15, <1>16, <1>17, <1>18, <1>19, <1>20, <1>21, <1>22, <1>23,
     <1>24, <1>25, <1>26, <1>27, <1>28, <1>29, <1>30, <1>31, <1>32, <1>33, <1>34 DEF
     Next, TaskStep, HelperStep

----------------------------------------------------------------------------
(* Claims, tasks and browsers.                                             *)

TrackInv == EntryInv /\ BrowserInv

\* A DevTools endpoint found later leaves the entry the same launch's.
LEMMA SetCdp ==
  ASSUME NEW m \in Nat, NEW e \in [run : 1 .. m, cdp : BOOLEAN]
  PROVE  [e EXCEPT !.cdp = TRUE] # None /\ [e EXCEPT !.cdp = TRUE].run = e.run
  <1>1. e \in [run : Nat, cdp : BOOLEAN]
        OBVIOUS
  <1>2. [e EXCEPT !.cdp = TRUE] \in [run : Nat, cdp : BOOLEAN]
        BY <1>1
  <1>3. [e EXCEPT !.cdp = TRUE].run = e.run
        OBVIOUS
  <1> QED BY <1>2, <1>3, NoneIsNew

\* At the start there is no claim, task or browser.
LEMMA InitTrack == Init => TrackInv
  BY DEF Init, TrackInv, EntryInv, BrowserInv, Live, Runs

\* Every step keeps claims, entry, tasks and browsers together.
LEMMA NextTrack == Base /\ TrackInv /\ [Next]_vars => TrackInv'
  <1> SUFFICES ASSUME Base, TrackInv, [Next]_vars PROVE TrackInv'
      OBVIOUS
  <1> USE SendersOK, BoundsOK, NoneIsNew
      DEF Base, TypeOK, LaunchInv, TrackInv, EntryInv, BrowserInv, Live, Runs
  <1>b. ASSUME NEW h \in Helpers,
               List(h) \/ HelperDies(h) \/ Opened(h) \/ Stop(h) \/ Poll(h) \/ Confirm(h)
        PROVE  TrackInv'
    <2>1. Quiet
          BY <1>b, CallStep
    <2> QED BY <2>1 DEF Quiet, tracker, env
  <1>c. ASSUME entry # None PROVE LET e == [entry EXCEPT !.cdp = TRUE]
                                  IN  e # None /\ e.run = entry.run
    <2>1. entry \in [run : 1 .. n, cdp : BOOLEAN] /\ n \in Nat
          BY <1>c
    <2> QED BY <2>1, SetCdp
  <1>1. CASE BeginMutation
        BY <1>1 DEF BeginMutation, ClaimFree, tracker, run, env, count
  <1>2. CASE BeginBulk
        BY <1>2 DEF BeginBulk, tracker, run, env, count
  <1>3. CASE BulkCheck
        BY <1>3 DEF BulkCheck, tracker, run, env, count
  <1>4. CASE EndMutation
        BY <1>4 DEF EndMutation, tracker, run, env, count
  <1>5. CASE UserLaunch
        BY <1>5 DEF UserLaunch, BeginLaunch, MayLaunch, ClaimFree, tracker, run, env, count
  <1>6. CASE LaunchFails
    <2>1. UNCHANGED <<entry, task, procs, orphans>> /\ claim' = "none"
          BY <1>6 DEF LaunchFails, tracker, env
    <2> QED BY <2>1
  <1>7. CASE UserStarted
    <2>1. UNCHANGED <<task, claim, procs, orphans>>
          BY <1>7 DEF UserStarted, env
    <2>2. entry' = entry \/ (entry # None /\ entry' = [entry EXCEPT !.cdp = TRUE])
          BY <1>7 DEF UserStarted
    <2> QED BY <2>1, <2>2, <1>c
  <1>8. CASE UserStop
        BY <1>8 DEF UserStop, tracker, run, env, count
  <1>9. CASE UserSend
    <2>1. UNCHANGED <<entry, task, claim, orphans, procs>>
          BY <1>9 DEF UserSend, env
    <2> QED BY <2>1
  <1>10. ASSUME NEW p \in Pids, Spawn(p) PROVE TrackInv'
    <2>1. n + 1 \in Runs /\ n \in Nat /\ claim = "launch" /\ entry = None
          BY <1>10 DEF Spawn
    <2>2. /\ procs' = procs \cup {n + 1} /\ claim' = "none" /\ orphans' = orphans
          /\ entry' = [run |-> n + 1, cdp |-> FALSE]
          BY <1>10 DEF Spawn
    <2>3. \A j \in Runs : task'[j] = IF j = n + 1 THEN "watch" ELSE task[j]
          BY <1>10 DEF Spawn
    <2>4. entry' \in [run : Nat, cdp : BOOLEAN] /\ entry'.run = n + 1
          BY <2>1, <2>2
    <2>5. \A j \in Runs : task[j] \notin Live
          BY <2>1
    <2>6. EntryInv'
          BY <2>2, <2>3, <2>4, <2>5
    <2>7. BrowserInv'
          BY <2>1, <2>2, <2>3
    <2> QED BY <2>6, <2>7
  <1>11. ASSUME NEW k \in Runs, TakeLock(k) PROVE TrackInv'
        BY <1>11 DEF TakeLock, tracker, run, env, count
  <1>12. ASSUME NEW k \in Runs, HandOver(k) PROVE TrackInv'
        BY <1>12 DEF HandOver, tracker, run, env, count
  <1>13. ASSUME NEW k \in Runs, WatchExit(k) PROVE TrackInv'
        BY <1>13 DEF WatchExit, Task, tracker, run, env, count
  <1>14. ASSUME NEW k \in Runs, WatchStop(k) PROVE TrackInv'
        BY <1>14 DEF WatchStop, Task, tracker, run, env, count
  <1>15. ASSUME NEW k \in Runs, HardKill(k) PROVE TrackInv'
        BY <1>15 DEF HardKill, Gone, tracker, run, env, count
  <1>16. ASSUME NEW k \in Runs, Terminated(k) PROVE TrackInv'
        BY <1>16 DEF Terminated, Task, tracker, run, env, count
  <1>17. ASSUME NEW k \in Runs, LockFree(k) PROVE TrackInv'
        BY <1>17 DEF LockFree, Task, tracker, run, env, count
  <1>18. ASSUME NEW k \in Runs, GiveUp(k) PROVE TrackInv'
        BY <1>18 DEF GiveUp, Task, tracker, run, env, count
  <1>19. ASSUME NEW k \in Runs, LockStop(k) PROVE TrackInv'
        BY <1>19 DEF LockStop, tracker, run, env, count
  <1>20. ASSUME NEW k \in Runs, Finalize(k) PROVE TrackInv'
        BY <1>20 DEF Finalize, Task, tracker, run, env, count
  <1>21. ASSUME NEW k \in Runs \cup {0}, Exit(k) PROVE TrackInv'
        BY <1>21 DEF Exit, Gone, tracker, run, env, count
  <1>22. ASSUME NEW h \in Helpers, List(h) PROVE TrackInv'
        BY <1>b, <1>22
  <1>23. ASSUME NEW h \in Helpers, StartProfile(h) PROVE TrackInv'
    <2>1. UNCHANGED <<entry, task, procs, orphans>> /\ (claim' = claim \/ entry = None)
          BY <1>23 DEF StartProfile, BeginLaunch, MayLaunch, ClaimFree, tracker, env
    <2> QED BY <2>1
  <1>24. ASSUME NEW h \in Helpers, Started(h) PROVE TrackInv'
    <2>1. UNCHANGED <<task, claim, procs, orphans>>
          BY <1>24 DEF Started, env
    <2>2. entry' = entry \/ (entry # None /\ entry' = [entry EXCEPT !.cdp = TRUE])
          BY <1>24 DEF Started
    <2> QED BY <2>1, <2>2, <1>c
  <1>25. ASSUME NEW h \in Helpers, HelperDies(h) PROVE TrackInv'
        BY <1>b, <1>25
  <1>26. ASSUME NEW h \in Helpers, Opened(h) PROVE TrackInv'
        BY <1>b, <1>26
  <1>27. ASSUME NEW h \in Helpers, Stop(h) PROVE TrackInv'
        BY <1>b, <1>27
  <1>28. ASSUME NEW h \in Helpers, Send(h) PROVE TrackInv'
    <2>1. UNCHANGED <<entry, task, claim, orphans, procs>>
          BY <1>28 DEF Send, env
    <2> QED BY <2>1
  <1>29. ASSUME NEW h \in Helpers, Poll(h) PROVE TrackInv'
        BY <1>b, <1>29
  <1>30. ASSUME NEW h \in Helpers, Confirm(h) PROVE TrackInv'
        BY <1>b, <1>30
  <1>31. CASE HandStart
        BY <1>31 DEF HandStart, tracker, run, env, count
  <1>32. CASE Crash
    <2>1. /\ claim' = "none" /\ entry' = None /\ orphans' = orphans \cup (procs \ {0})
          /\ procs' = procs
          /\ task' = [k \in Runs |-> IF task[k] = "none" THEN "none" ELSE "over"]
          BY <1>32 DEF Crash, env
    <2> QED BY <2>1
  <1>33. CASE Restart
        BY <1>33 DEF Restart, tracker, run, env, count
  <1>34. CASE UNCHANGED vars
        BY <1>34 DEF vars, tracker, run, env, count
  <1> QED BY <1>1, <1>2, <1>3, <1>4, <1>5, <1>6, <1>7, <1>8, <1>9, <1>10, <1>11,
     <1>12, <1>13, <1>14, <1>15, <1>16, <1>17, <1>18, <1>19, <1>20, <1>21, <1>22, <1>23,
     <1>24, <1>25, <1>26, <1>27, <1>28, <1>29, <1>30, <1>31, <1>32, <1>33, <1>34 DEF
     Next, TaskStep, HelperStep

\* A claimed profile has no running task and no browser of this launcher.
LEMMA ClaimAlone == Base /\ TrackInv => MutationAlone
  <1> SUFFICES ASSUME Base, TrackInv, claim \in {"mutation", "bulk"}
               PROVE  /\ \A k \in Runs : task[k] \in {"none", "over"}
                      /\ procs \subseteq orphans \cup {0}
      BY DEF MutationAlone
  <1>1. entry = None
        BY DEF TrackInv, EntryInv
  <1>2. \A k \in Runs : task[k] \in {"none", "over"}
        BY <1>1 DEF TrackInv, EntryInv, Live, Base, TypeOK
  <1>3. ASSUME NEW k \in procs, k # 0 PROVE k \in orphans
    <2>1. k \in Runs
          BY <1>3, BoundsOK DEF Base, TypeOK, Runs
    <2> QED BY <1>2, <1>3, <2>1 DEF TrackInv, BrowserInv
  <1> QED BY <1>2, <1>3

----------------------------------------------------------------------------
(* Stops.                                                                  *)

Own == StopInv /\ OwnershipKept

\* At the start nobody was told to end a browser.
LEMMA InitOwn == Init => Own
  BY DEF Init, Own, StopInv, OwnershipKept, NoHelper, Mine, Runs

\* What a step must keep of the calls and of the channels for StopInv to stay.
LEMMA KeepStop ==
  ASSUME Base, StopInv, UNCHANGED <<n, by>>,
         \A j \in Runs : \/ chan'[j] = chan[j] \/ chan'[j] = <<>>
                         \/ \E s \in Senders : /\ chan'[j] = <<s>> /\ j \in 1 .. n
                                               /\ s \in Helpers => by[j] = s,
         \A g \in Helpers : /\ helper'[g].run = helper[g].run
                            /\ helper'[g].pc \in Owning => Mine(g) # 0
                            /\ helper'[g].outcome = "stopped" =>
                                 helper'[g].pc = "over" /\ Mine(g) # 0
  PROVE  StopInv'
  <1>1. ASSUME NEW j \in Runs, NEW h \in Helpers, chan'[j] = <<h>> PROVE by[j] = h
    <2>1. CASE chan'[j] = chan[j]
          BY <1>1, <2>1 DEF StopInv
    <2>2. CASE chan'[j] = <<>>
      <3>1. <<>> # <<h>>
            OBVIOUS
      <3> QED BY <1>1, <2>2, <3>1
    <2>3. ASSUME NEW s \in Senders, chan'[j] = <<s>>, s \in Helpers => by[j] = s PROVE by[j] = h
      <3>1. <<s>>[1] = <<h>>[1]
            BY <1>1, <2>3
      <3> QED BY <2>3, <3>1
    <2> QED BY <2>1, <2>2, <2>3
  <1>2. \A j \in Runs : j > n => chan'[j] = <<>>
        BY BoundsOK DEF StopInv, Base, TypeOK, Runs
  <1>3. \A g \in Helpers : Mine(g) # 0 => by[Mine(g)] = g
        BY DEF StopInv
  <1> QED BY <1>1, <1>2, <1>3 DEF StopInv, Mine, Owning

\* A step that is not about stops: launches and calls stay, channels may close,
\* and of the launcher's browsers some may be gone.
Frame ==
    /\ UNCHANGED <<n, by, helper, told, orphans>>
    /\ \A j \in Runs : chan'[j] \in {chan[j], <<>>}
    /\ procs' \subseteq procs \cup {0}

\* A step of one call: it keeps its launch, moves on to a place that needs one
\* only when it has one, and ends without saying "stopped".
OneCall(h) ==
    /\ UNCHANGED <<n, by, told, orphans, procs>>
    /\ \A j \in Runs : chan'[j] = chan[j] \/ (j = Mine(h) /\ chan'[j] = <<h>>)
    /\ \A g \in Helpers : g # h => helper'[g] = helper[g]
    /\ helper'[h].run = helper[h].run /\ helper[h].pc # "over"
    /\ helper'[h].pc \in Owning => helper[h].pc \in Owning \/ Mine(h) # 0
    /\ \/ helper'[h].outcome = helper[h].outcome
       \/ helper'[h].pc = "over" /\ helper'[h].outcome \in {"failed", "left"}

\* Every step keeps stops with the calls that own what they stop.
LEMMA NextOwn == Base /\ TrackInv /\ Own /\ [Next]_vars => Own'
  <1> SUFFICES ASSUME Base, TrackInv, Own, [Next]_vars PROVE Own'
      OBVIOUS
  <1> USE SendersOK, BoundsOK, NoneIsNew
      DEF Base, TypeOK, LaunchInv, TrackInv, EntryInv, BrowserInv, Live, Runs, Senders,
          Own, StopInv, OwnershipKept, Mine
  <1>a. helper \in Calls(n) /\ chan \in Chans
        BY DEF Calls, Chans
  <1>o. \A g \in Helpers : helper[g].pc \in Owning => Mine(g) # 0
        BY DEF Owning
  <1>f. ASSUME Frame PROVE Own'
    <2>1. StopInv'
          BY <1>f, <1>o, KeepStop DEF Frame
    <2>2. OwnershipKept'
          BY <1>f DEF Frame
    <2> QED BY <2>1, <2>2
  <1>g. ASSUME NEW h \in Helpers, OneCall(h) PROVE Own'
    <2>1. \A g \in Helpers : /\ helper'[g].run = helper[g].run
                             /\ helper'[g].pc \in Owning => Mine(g) # 0
                             /\ helper'[g].outcome = "stopped" =>
                                  helper'[g] = helper[g] /\ helper'[g].pc = "over" /\ Mine(g) # 0
          BY <1>g, <1>o DEF OneCall
    <2>2. \A j \in Runs : \/ chan'[j] = chan[j]
                          \/ chan'[j] = <<h>> /\ j \in 1 .. n /\ by[j] = h
      <3>1. helper[h].run \in 0 .. n
            OBVIOUS
      <3>2. helper[h].run # 0 => by[helper[h].run] = h
            OBVIOUS
      <3> QED BY <1>g, <3>1, <3>2 DEF OneCall
    <2>3. StopInv'
          BY <1>g, <2>1, <2>2, KeepStop DEF OneCall
    <2>4. OwnershipKept'
          BY <1>g, <2>1 DEF OneCall
    <2> QED BY <2>3, <2>4
  <1>b. ASSUME NEW h \in Helpers,
               List(h) \/ HelperDies(h) \/ Opened(h) \/ Stop(h) \/ Poll(h) \/ Confirm(h)
        PROVE  Own'
    <2>1. /\ UNCHANGED <<n, by, chan, told, orphans, procs>>
          /\ \A g \in Helpers : g # h => helper'[g] = helper[g]
          /\ helper'[h].run = helper[h].run
          /\ helper[h].pc # "over"
          /\ helper'[h].pc \in Owning => helper[h].pc \in Owning \/ Mine(h) # 0
          /\ \/ helper'[h].outcome = helper[h].outcome
             \/ helper'[h].pc = "over" /\ helper'[h].outcome \in {"failed", "left"}
             \/ /\ helper[h].pc = "confirm" /\ helper'[h].pc = "over"
                /\ helper'[h].outcome = "stopped" /\ ~StillListed(h)
          BY <1>b, CallStep DEF Quiet, tracker, run, env
    <2>2. CASE ~(helper[h].pc = "confirm" /\ helper'[h].outcome = "stopped")
      <3>1. OneCall(h)
            BY <2>1, <2>2 DEF OneCall, Owning
      <3> QED BY <1>g, <3>1
    <2>3. CASE helper[h].pc = "confirm" /\ helper'[h].outcome = "stopped"
      <3>1. helper'[h].pc = "over" /\ ~StillListed(h) /\ Mine(h) \in Runs
            BY <2>1, <2>3
      <3>2. ASSUME Mine(h) \in procs \ orphans PROVE FALSE
        <4>1. task[Mine(h)] \in {"watch", "term"}
              BY <3>1, <3>2
        <4>2. entry # None /\ entry.run = Mine(h)
              BY <3>1, <4>1
        <4> QED BY <3>1, <4>2 DEF StillListed
      <3>3. \A g \in Helpers : /\ helper'[g].run = helper[g].run
                               /\ helper'[g].pc \in Owning => Mine(g) # 0
                               /\ helper'[g].outcome = "stopped" =>
                                    helper'[g].pc = "over" /\ Mine(g) # 0
            BY <1>o, <2>1, <3>1 DEF Owning
      <3>5. StopInv'
            BY <2>1, <3>3, KeepStop
      <3>4. OwnershipKept'
            BY <2>1, <3>2
      <3> QED BY <3>4, <3>5
    <2> QED BY <2>2, <2>3
  <1>1. CASE BeginMutation
    <2>1. Frame
          BY <1>1 DEF BeginMutation, Frame, tracker, run, env
    <2> QED BY <2>1, <1>f
  <1>2. CASE BeginBulk
    <2>1. Frame
          BY <1>2 DEF BeginBulk, Frame, tracker, run, env
    <2> QED BY <2>1, <1>f
  <1>3. CASE BulkCheck
    <2>1. Frame
          BY <1>3 DEF BulkCheck, Frame, tracker, run, env
    <2> QED BY <2>1, <1>f
  <1>4. CASE EndMutation
    <2>1. Frame
          BY <1>4 DEF EndMutation, Frame, tracker, run, env
    <2> QED BY <2>1, <1>f
  <1>5. CASE UserLaunch
    <2>1. Frame
          BY <1>5 DEF UserLaunch, BeginLaunch, Frame, tracker, run, env
    <2> QED BY <2>1, <1>f
  <1>6. CASE LaunchFails
    <2>1. UNCHANGED <<n, by, chan, told, orphans, procs>>
          BY <1>6 DEF LaunchFails, tracker, run, env
    <2>2. CASE starter \in Helpers
      <3>1. /\ \A g \in Helpers : g # starter => helper'[g] = helper[g]
            /\ helper'[starter].pc = "over" /\ helper'[starter].run = helper[starter].run
            /\ helper'[starter].outcome = "failed"
            BY <1>6, <1>a, <2>2, OverCall DEF LaunchFails, ToFailed, Outcomes
      <3>2. OneCall(starter)
            BY <2>1, <2>2, <3>1 DEF OneCall, Owning
      <3> QED BY <1>g, <2>2, <3>2
    <2>3. CASE starter \notin Helpers
          BY <1>6, <2>1, <2>3, <1>f DEF LaunchFails, ToFailed, Frame
    <2> QED BY <2>2, <2>3
  <1>7. CASE UserStarted
    <2>1. Frame
          BY <1>7 DEF UserStarted, Frame, tracker, run, env
    <2> QED BY <2>1, <1>f
  <1>8. CASE UserStop
    <2>1. Frame
          BY <1>8 DEF UserStop, Frame, tracker, run, env
    <2> QED BY <2>1, <1>f
  <1>9. CASE UserSend
    <2>1. /\ UNCHANGED <<n, by, helper, told, orphans, procs>>
          /\ ustop \in 1 .. n
          /\ \A j \in Runs : chan'[j] = chan[j] \/ (j = ustop /\ chan'[j] = <<User>>)
          BY <1>9, <1>a, SendOne DEF UserSend, run, env
    <2>2. \A j \in Runs : chan'[j] = chan[j] \/ (chan'[j] = <<User>> /\ j \in 1 .. n)
          BY <2>1
    <2>3. StopInv'
          BY <1>o, <2>1, <2>2, KeepStop
    <2>4. OwnershipKept'
          BY <2>1
    <2> QED BY <2>3, <2>4
  <1>10. ASSUME NEW p \in Pids, Spawn(p) PROVE Own'
    <2>1. n + 1 \in Runs /\ n' = n + 1 /\ starter \in Senders
          BY <1>10 DEF Spawn
    <2>2. /\ procs' = procs \cup {n + 1}
          /\ UNCHANGED <<chan, told, orphans>>
          /\ \A j \in Runs : by'[j] = IF j = n + 1 THEN starter ELSE by[j]
          BY <1>10, <2>1 DEF Spawn
    <2>3. \A g \in Helpers : \/ helper'[g] = helper[g]
                             \/ /\ g = starter /\ helper[g].pc = "launching"
                                /\ helper'[g].pc = "cdp" /\ helper'[g].run = n + 1
                                /\ helper'[g].outcome = helper[g].outcome
      <3>1. CASE starter \in Helpers
        <4>1. helper' = [helper EXCEPT ![starter].pc = "cdp", ![starter].run = n + 1]
              BY <1>10, <3>1 DEF Spawn
        <4>2. n \in Nat /\ helper[starter].pc = "launching"
              BY <3>1
        <4> QED BY <1>a, <3>1, <4>1, <4>2, SpawnCall
      <3>2. CASE starter \notin Helpers
            BY <1>10, <3>2 DEF Spawn
      <3> QED BY <3>1, <3>2
    <2>4. StopInv'
      <3>1. ASSUME NEW g \in Helpers
            PROVE  /\ helper'[g].run # 0 => by'[helper'[g].run] = g
                   /\ helper'[g].pc \in Owning => helper'[g].run # 0
                   /\ helper'[g].outcome = "stopped" =>
                        helper'[g].pc = "over" /\ helper'[g].run # 0
        <4>1. CASE helper'[g] = helper[g]
          <5>1. helper[g].run \in 0 .. n /\ helper[g].run # n + 1
                OBVIOUS
          <5>2. helper[g].run # 0 => by'[helper[g].run] = g
                BY <2>2, <5>1
          <5> QED BY <1>o, <4>1, <5>2
        <4>2. CASE helper'[g] # helper[g]
              BY <2>1, <2>2, <2>3, <4>2
        <4> QED BY <4>1, <4>2
      <3>2. ASSUME NEW j \in Runs, NEW g \in Helpers, chan'[j] = <<g>> PROVE by'[j] = g
        <4>1. chan[j] # <<>>
              BY <2>2, <3>2
        <4>2. j # n + 1
              BY <2>1, <4>1
        <4> QED BY <2>2, <3>2, <4>2
      <3> QED BY <2>1, <2>2, <3>1, <3>2 DEF Owning
    <2>5. ASSUME NEW g \in Helpers, NEW k \in 1 .. (n + 1), <<g, k>> \in told'
          PROVE  by'[k] = g \/ k \in orphans'
      <3>1. k \in 1 .. n
            BY <2>1, <2>2, <2>5
      <3> QED BY <2>1, <2>2, <2>5, <3>1
    <2>6. ASSUME NEW g \in Helpers, helper'[g].outcome = "stopped"
          PROVE  helper'[g].run \notin procs' \ orphans'
      <3>1. helper'[g] = helper[g] /\ helper[g].run \in 0 .. n
            BY <2>3, <2>6
      <3> QED BY <2>1, <2>2, <2>6, <3>1
    <2> QED BY <2>1, <2>4, <2>5, <2>6
  <1>11. ASSUME NEW k \in Runs, TakeLock(k) PROVE Own'
    <2>1. Frame
          BY <1>11 DEF TakeLock, Frame, tracker, run, env
    <2> QED BY <2>1, <1>f
  <1>12. ASSUME NEW k \in Runs, HandOver(k) PROVE Own'
    <2>1. Frame
          BY <1>12 DEF HandOver, Frame, tracker, run, env
    <2> QED BY <2>1, <1>f
  <1>13. ASSUME NEW k \in Runs, WatchExit(k) PROVE Own'
    <2>1. Frame
          BY <1>13 DEF WatchExit, Frame, tracker, run, env
    <2> QED BY <2>1, <1>f
  <1>14. ASSUME NEW k \in Runs, WatchStop(k) PROVE Own'
    <2>1. /\ UNCHANGED <<n, by, helper, orphans, procs>>
          /\ told' = told \cup {<<Head(chan[k]), k>>}
          BY <1>14 DEF WatchStop, run, env
    <2>2. /\ chan[k] = <<Head(chan[k])>>
          /\ \A j \in Runs : chan'[j] \in {chan[j], <<>>}
      <3>1. chan[k] = <<Head(chan[k])>> /\ chan' = [chan EXCEPT ![k] = <<>>]
            BY <1>14, <1>a, TakeOne DEF WatchStop
      <3>2. \A j \in Runs : chan'[j] = IF j = k THEN <<>> ELSE chan[j]
            BY <3>1, <1>a DEF Chans
      <3> QED BY <3>1, <3>2
    <2>3. StopInv'
          BY <1>o, <2>1, <2>2, KeepStop
    <2>4. \A h \in Helpers : <<h, k>> \in told' => by[k] = h \/ k \in orphans
          BY <2>1, <2>2
    <2>5. OwnershipKept'
          BY <2>1, <2>4
    <2> QED BY <2>3, <2>5
  <1>15. ASSUME NEW k \in Runs, HardKill(k) PROVE Own'
    <2>1. Frame
          BY <1>15 DEF HardKill, Gone, Frame, tracker, run, env
    <2> QED BY <2>1, <1>f
  <1>16. ASSUME NEW k \in Runs, Terminated(k) PROVE Own'
    <2>1. Frame
          BY <1>16 DEF Terminated, Frame, tracker, run, env
    <2> QED BY <2>1, <1>f
  <1>17. ASSUME NEW k \in Runs, LockFree(k) PROVE Own'
    <2>1. Frame
          BY <1>17 DEF LockFree, Frame, tracker, run, env
    <2> QED BY <2>1, <1>f
  <1>18. ASSUME NEW k \in Runs, GiveUp(k) PROVE Own'
    <2>1. Frame
          BY <1>18 DEF GiveUp, Frame, tracker, run, env
    <2> QED BY <2>1, <1>f
  <1>19. ASSUME NEW k \in Runs, LockStop(k) PROVE Own'
    <2>1. /\ UNCHANGED <<n, by, helper, orphans, procs>>
          /\ told' = told \cup {<<Head(chan[k]), holder>>}
          /\ task[k] = "lock" /\ holder \in procs
          BY <1>19 DEF LockStop, run, env
    <2>2. \A j \in Runs : chan'[j] \in {chan[j], <<>>}
      <3>1. chan' = [chan EXCEPT ![k] = <<>>]
            BY <1>19, <1>a, TakeOne DEF LockStop
      <3>2. \A j \in Runs : chan'[j] = IF j = k THEN <<>> ELSE chan[j]
            BY <3>1, <1>a DEF Chans
      <3> QED BY <3>2
    <2>3. StopInv'
          BY <1>o, <2>1, <2>2, KeepStop
    <2>4. holder = 0 \/ holder \in orphans
      <3>1. SUFFICES ASSUME holder # 0, holder \notin orphans PROVE FALSE
            OBVIOUS
      <3>2. holder \in Runs /\ task[holder] \in {"watch", "term"}
            BY <2>1, <3>1
      <3>3. entry.run = holder /\ entry.run = k
            BY <2>1, <3>2
      <3> QED BY <2>1, <3>2, <3>3
    <2>5. OwnershipKept'
          BY <2>1, <2>4
    <2> QED BY <2>3, <2>5
  <1>20. ASSUME NEW k \in Runs, Finalize(k) PROVE Own'
    <2>1. Frame
          BY <1>20 DEF Finalize, Frame, tracker, run, env
    <2> QED BY <2>1, <1>f
  <1>21. ASSUME NEW k \in Runs \cup {0}, Exit(k) PROVE Own'
    <2>1. Frame
          BY <1>21 DEF Exit, Gone, Frame, tracker, run, env
    <2> QED BY <2>1, <1>f
  <1>22. ASSUME NEW h \in Helpers, List(h) PROVE Own'
        BY <1>b, <1>22
  <1>23. ASSUME NEW h \in Helpers, StartProfile(h) PROVE Own'
    <2>1. UNCHANGED <<n, by, chan, told, orphans, procs>> /\ helper[h].pc = "start"
          BY <1>23 DEF StartProfile, At, BeginLaunch, tracker, run, env
    <2>2. /\ \A g \in Helpers : g # h => helper'[g] = helper[g]
          /\ helper'[h].run = helper[h].run
          /\ \/ helper'[h].pc = "launching" /\ helper'[h].outcome = helper[h].outcome
             \/ helper'[h].pc = "over" /\ helper'[h].outcome = "failed"
      <3>1. CASE MayLaunch
            BY <1>23, <1>a, <3>1, MoveCall DEF StartProfile, HelperPCs
      <3>2. CASE ~MayLaunch
            BY <1>23, <1>a, <3>2, OverCall DEF StartProfile, Outcomes
      <3> QED BY <3>1, <3>2
    <2>3. OneCall(h)
          BY <2>1, <2>2 DEF OneCall, Owning
    <2> QED BY <1>g, <2>3
  <1>24. ASSUME NEW h \in Helpers, Started(h) PROVE Own'
    <2>1. UNCHANGED <<n, by, chan, told, orphans, procs>> /\ helper[h].pc = "cdp"
          BY <1>24 DEF Started, At, run, env
    <2>2. /\ \A g \in Helpers : g # h => helper'[g] = helper[g]
          /\ helper'[h].run = helper[h].run /\ helper'[h].pc \in {"open", "stop"}
          /\ helper'[h].outcome = helper[h].outcome
          BY <1>24, <1>a, MoveCall DEF Started, HelperPCs
    <2>3. OneCall(h)
          BY <2>1, <2>2 DEF OneCall, Owning
    <2> QED BY <1>g, <2>3
  <1>25. ASSUME NEW h \in Helpers, HelperDies(h) PROVE Own'
        BY <1>b, <1>25
  <1>26. ASSUME NEW h \in Helpers, Opened(h) PROVE Own'
        BY <1>b, <1>26
  <1>27. ASSUME NEW h \in Helpers, Stop(h) PROVE Own'
        BY <1>b, <1>27
  <1>28. ASSUME NEW h \in Helpers, Send(h) PROVE Own'
    <2>1. UNCHANGED <<n, by, told, orphans, procs>> /\ helper[h].pc = "send"
          BY <1>28 DEF Send, At, run, env
    <2>2. /\ \A g \in Helpers : g # h => helper'[g] = helper[g]
          /\ helper'[h].run = helper[h].run /\ helper'[h].pc = "poll"
          /\ helper'[h].outcome = helper[h].outcome
          BY <1>28, <1>a, MoveCall DEF Send, HelperPCs
    <2>3. \A j \in Runs : chan'[j] = chan[j] \/ (j = Mine(h) /\ chan'[j] = <<h>>)
          BY <1>28, <1>a, SendOne DEF Send
    <2>4. OneCall(h)
          BY <2>1, <2>2, <2>3 DEF OneCall, Owning
    <2> QED BY <1>g, <2>4
  <1>29. ASSUME NEW h \in Helpers, Poll(h) PROVE Own'
        BY <1>b, <1>29
  <1>30. ASSUME NEW h \in Helpers, Confirm(h) PROVE Own'
        BY <1>b, <1>30
  <1>31. CASE HandStart
    <2>1. Frame
          BY <1>31 DEF HandStart, Frame, tracker, run, env
    <2> QED BY <2>1, <1>f
  <1>32. CASE Crash
    <2>1. /\ UNCHANGED <<n, by, told, procs>> /\ chan' = [k \in Runs |-> <<>>]
          /\ orphans' = orphans \cup (procs \ {0})
          BY <1>32 DEF Crash, run, env
    <2>2. \A h \in Helpers : /\ helper'[h].run = helper[h].run
                             /\ \/ helper'[h] = helper[h]
                                \/ helper'[h].pc = "over" /\ helper'[h].outcome = "failed"
                                \/ /\ helper[h].pc = "send" /\ helper'[h].pc = "poll"
                                   /\ helper'[h].outcome = helper[h].outcome
      <3>1. SUFFICES ASSUME NEW h \in Helpers
                     PROVE  /\ helper'[h].run = helper[h].run
                            /\ \/ helper'[h] = helper[h]
                               \/ helper'[h].pc = "over" /\ helper'[h].outcome = "failed"
                               \/ /\ helper[h].pc = "send" /\ helper'[h].pc = "poll"
                                  /\ helper'[h].outcome = helper[h].outcome
            OBVIOUS
      <3>2. helper[h] \in [pc : HelperPCs, run : 0 .. n, outcome : Outcomes]
            OBVIOUS
      <3>3. helper'[h] = CASE helper[h].pc \in {"launching", "cdp"} ->
                                [helper[h] EXCEPT !.pc = "over", !.outcome = "failed"]
                           [] helper[h].pc = "send" -> [helper[h] EXCEPT !.pc = "poll"]
                           [] OTHER -> helper[h]
            BY <1>32 DEF Crash
      <3> QED BY <3>2, <3>3
    <2>3. StopInv'
          BY <1>o, <2>1, <2>2, KeepStop DEF Owning
    <2>4. OwnershipKept'
          BY <2>1, <2>2
    <2> QED BY <2>3, <2>4
  <1>33. CASE Restart
    <2>1. Frame
          BY <1>33 DEF Restart, Frame, tracker, run, env
    <2> QED BY <2>1, <1>f
  <1>34. CASE UNCHANGED vars
    <2>1. Frame
          BY <1>34 DEF vars, Frame, tracker, run, env
    <2> QED BY <2>1, <1>f
  <1> QED BY <1>1, <1>2, <1>3, <1>4, <1>5, <1>6, <1>7, <1>8, <1>9, <1>10, <1>11,
     <1>12, <1>13, <1>14, <1>15, <1>16, <1>17, <1>18, <1>19, <1>20, <1>21, <1>22, <1>23,
     <1>24, <1>25, <1>26, <1>27, <1>28, <1>29, <1>30, <1>31, <1>32, <1>33, <1>34 DEF
     Next, TaskStep, HelperStep

----------------------------------------------------------------------------
(* The theorems.                                                           *)

\* The inductive invariant: types, numbers, claims, tasks, browsers and stops.
IInv == Base /\ TrackInv /\ Own

\* Every reachable state satisfies it.
LEMMA Reachable == Spec => []IInv
  <1>1. Init => IInv
        BY InitBase, InitTrack, InitOwn DEF IInv
  <1>2. IInv /\ [Next]_vars => IInv'
        BY NextBase, NextTrack, NextOwn DEF IInv
  <1> QED BY <1>1, <1>2, PTL DEF Spec

\* Tracker, launches, calls and browsers keep their types, and a killer channel
\* (process.rs, mpsc::channel(1)) never holds a second stop.
THEOREM TypeCorrect == Spec => []TypeOK
  <1>1. IInv => TypeOK
        BY DEF IInv, Base
  <1> QED BY <1>1, Reachable, PTL

\* Whoever holds a mutation or bulk claim (profile.rs begin_user_mutation,
\* begin_bulk_mutation) shares the profile with no browser and no tracking task of
\* the launcher run that gave the claim, however commands, launches, tasks and
\* stops interleave; browsers a dead launcher left behind are not covered.
THEOREM MutationsAlone == Spec => []MutationAlone
  <1>1. IInv => MutationAlone
        BY ClaimAlone DEF IInv
  <1> QED BY <1>1, Reachable, PTL

\* Through an MCP call (safe-open-lifecycle.js) the launcher ends only the browser
\* that call launched, process IDs used again included, and a call that reports a
\* stop has one.
THEOREM CallsStopTheirOwn == Spec => []OwnershipKept
  <1>1. IInv => OwnershipKept
        BY DEF IInv, Own
  <1> QED BY <1>1, Reachable, PTL
=============================================================================
