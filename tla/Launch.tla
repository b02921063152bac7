------------------------------- MODULE Launch -------------------------------
(***************************************************************************)
(* One profile of the launcher between Start and Stop: the lifecycle claims *)
(* (profile.rs), launch_profile_synced (launch.rs), the process tracker and *)
(* its task per browser (process.rs), the stop routes of the local API      *)
(* (api.rs), and MCP calls that open a profile for a while and close it     *)
(* again (mcp/safe-open-lifecycle.js, mcp/index.js).                        *)
(*                                                                          *)
(* A launch gets a number when its browser is spawned; the number stands    *)
(* for the launch_instance_token (never used again), pid for the process ID *)
(* (used again once the process was waited for).  Process 0 is a browser a  *)
(* person started on the same folder by hand.  Chromium keeps a lock in the *)
(* folder: a second browser hands its start over to the first and exits.    *)
(* Requests, tasks and commands interleave at their awaits and wherever a   *)
(* mutex is not held.                                                       *)
(***************************************************************************)
EXTENDS Naturals, Sequences, FiniteSets

CONSTANTS
    Helpers,    \* MCP calls, each safe_open_url or one of its kind
    User,       \* whoever launches and stops in the window or over the API
    None,       \* no entry, no lock holder, no starter
    Pids,       \* process IDs
    MaxLaunch,  \* bound on browsers spawned
    MaxHand,    \* bound on browsers started by hand
    MaxCrash    \* bound on deaths of the launcher

ASSUME SendersOK == User \notin Helpers /\ None \notin Helpers \cup {User}
ASSUME BoundsOK  == MaxLaunch \in Nat /\ MaxHand \in Nat /\ MaxCrash \in Nat
ASSUME NoneIsNew == None \notin Nat /\ None \notin [run : Nat, cdp : BOOLEAN]

VARIABLES
    up,        \* the launcher runs
    claim,     \* the profile's entry in lifecycle_claims, or the bulk claim
    starter,   \* whose launch holds the claim and probes the proxy
    entry,     \* the profile's ChildEntry in the tracker
    n,         \* browsers spawned so far
    by,        \* who asked for each launch
    pid,       \* process ID of each launch's child
    task,      \* where the tracking task of each launch is
    chan,      \* the killer channel of each launch: who sent the stops in it
    ustop,     \* the launch a Stop of the User is about to be sent to, or 0
    helper,    \* the MCP calls
    procs,     \* browsers alive
    holder,    \* the browser that holds the lock of the folder
    told,      \* who made the launcher tell which launch's browser to end
    orphans,   \* browsers whose launcher died
    hands,     \* browsers started by hand so far
    crashes

tracker == <<entry, task, chan>>
run     == <<n, by, pid>>
env     == <<procs, holder>>
count   == <<hands, crashes>>
vars    == <<up, claim, starter, tracker, run, ustop, helper, env, told, orphans, count>>

Runs    == 1 .. MaxLaunch
Senders == Helpers \cup {User}

HelperPCs == {"idle", "start", "launching", "cdp", "open", "stop", "send", "poll", "confirm", "over"}
Outcomes  == {"none", "failed", "left", "stopped"}
NoHelper  == [pc |-> "idle", run |-> 0, outcome |-> "none"]

Init ==
    /\ up = TRUE /\ claim = "none" /\ starter = None /\ entry = None
    /\ n = 0 /\ by = [k \in Runs |-> None] /\ pid = [k \in Runs |-> None]
    /\ task = [k \in Runs |-> "none"] /\ chan = [k \in Runs |-> <<>>]
    /\ ustop = 0 /\ helper = [h \in Helpers |-> NoHelper]
    /\ procs = {} /\ holder = None /\ told = {} /\ orphans = {}
    /\ hands = 0 /\ crashes = 0

----------------------------------------------------------------------------
(* Claims: begin_user_mutation and begin_bulk_mutation.                    *)

\* begin_claim: nobody else works on the profile and no browser is tracked.
ClaimFree == claim = "none" /\ entry = None

\* Edit, delete, push, pull, backup, clone: one claim for all of the command.
BeginMutation ==
    /\ up /\ ClaimFree
    /\ claim' = "mutation"
    /\ UNCHANGED <<up, starter, tracker, run, ustop, helper, env, told, orphans, count>>

\* A change of a folder or tag takes the claim on every profile first and looks
\* for running browsers under it.
BeginBulk ==
    /\ up /\ claim = "none"
    /\ claim' = "bulkcheck"
    /\ UNCHANGED <<up, starter, tracker, run, ustop, helper, env, told, orphans, count>>

\* Fault: nobody holds a claim, so nothing runs.
BulkCheck_Skips ==
    /\ claim = "bulkcheck"
    /\ claim' = "bulk"
    /\ UNCHANGED <<up, starter, tracker, run, ustop, helper, env, told, orphans, count>>

BulkCheck ==
    /\ claim = "bulkcheck"
    /\ claim' = IF entry = None THEN "bulk" ELSE "none"
    /\ UNCHANGED <<up, starter, tracker, run, ustop, helper, env, told, orphans, count>>

\* The guard is dropped.
EndMutation ==
    /\ claim \in {"mutation", "bulk"}
    /\ claim' = "none"
    /\ UNCHANGED <<up, starter, tracker, run, ustop, helper, env, told, orphans, count>>

----------------------------------------------------------------------------
(* launch_profile_synced.                                                  *)

\* An MCP call's next place, and how it ends.
Move(h, p)  == helper' = [helper EXCEPT ![h].pc = p]
Over(h, o)  == helper' = [helper EXCEPT ![h].pc = "over", ![h].outcome = o]
ToFailed(s) == IF s \in Helpers THEN Over(s, "failed") ELSE UNCHANGED helper

\* The launch claim, then the lock: a browser somebody else started is left
\* alone and the launch is refused.
MayLaunch == up /\ ClaimFree /\ holder = None

BeginLaunch(s) ==
    /\ MayLaunch /\ n < MaxLaunch
    /\ claim' = "launch" /\ starter' = s
    /\ UNCHANGED <<up, tracker, run, ustop, env, told, orphans, count>>

UserLaunch == BeginLaunch(User) /\ UNCHANGED helper

\* The probe, the geo lookup, the record or the spawn fails, the launch is
\* cancelled, or the request is dropped: the claim goes with it.
LaunchFails ==
    /\ starter # None
    /\ claim' = "none" /\ starter' = None
    /\ ToFailed(starter)
    /\ UNCHANGED <<up, tracker, run, ustop, env, told, orphans, count>>

\* A process ID is free when its process was waited for.
PidFree(p) == \A k \in 1 .. n : pid[k] = p => k \notin procs /\ task[k] \notin {"watch", "term"}

\* spawn, touch_launched, track_with_relay, and only then the claim is dropped.
Spawn(p) ==
    /\ starter # None /\ PidFree(p)
    /\ n' = n + 1
    /\ by' = [by EXCEPT ![n + 1] = starter]
    /\ pid' = [pid EXCEPT ![n + 1] = p]
    /\ procs' = procs \cup {n + 1}
    /\ entry' = [run |-> n + 1, cdp |-> FALSE]
    /\ task' = [task EXCEPT ![n + 1] = "watch"]
    /\ claim' = "none" /\ starter' = None
    /\ helper' = IF starter \in Helpers
                 THEN [helper EXCEPT ![starter].pc = "cdp", ![starter].run = n + 1]
                 ELSE helper
    /\ UNCHANGED <<up, chan, ustop, holder, told, orphans, count>>

----------------------------------------------------------------------------
(* Browsers.                                                               *)

\* Chromium's singleton: the first browser takes the lock; a later one hands
\* its start over to it and exits.
TakeLock(k) ==
    /\ k \in procs /\ holder = None
    /\ holder' = k
    /\ UNCHANGED <<up, claim, starter, tracker, run, ustop, helper, procs, told, orphans, count>>

HandOver(k) ==
    /\ k \in procs /\ holder \notin {None, k}
    /\ procs' = procs \ {k}
    /\ UNCHANGED <<up, claim, starter, tracker, run, ustop, helper, holder, told, orphans, count>>

HandStart ==
    /\ hands < MaxHand /\ 0 \notin procs /\ holder = None
    /\ hands' = hands + 1
    /\ procs' = procs \cup {0} /\ holder' = 0
    /\ UNCHANGED <<up, claim, starter, tracker, run, ustop, helper, told, orphans, crashes>>

Gone(k) == procs' = procs \ {k} /\ holder' = IF holder = k THEN None ELSE holder

\* A window is closed, a browser told to end does, or it crashes.
Exit(k) ==
    /\ k \in procs /\ Gone(k)
    /\ UNCHANGED <<up, claim, starter, tracker, run, ustop, helper, told, orphans, count>>

----------------------------------------------------------------------------
(* The task of track_with_relay.                                           *)

Task(k, s) == task' = [task EXCEPT ![k] = s]

\* child.wait() wins the select.
WatchExit(k) ==
    /\ task[k] = "watch" /\ k \notin procs
    /\ Task(k, "lock")
    /\ UNCHANGED <<up, claim, starter, entry, chan, run, ustop, helper, env, told, orphans, count>>

\* rx.recv() wins: SIGTERM or WM_CLOSE.
WatchStop(k) ==
    /\ task[k] = "watch" /\ chan[k] # <<>>
    /\ told' = told \cup {<<Head(chan[k]), k>>}
    /\ chan' = [chan EXCEPT ![k] = Tail(@)]
    /\ Task(k, "term")
    /\ UNCHANGED <<up, claim, starter, entry, run, ustop, helper, env, orphans, count>>

\* Fault: no fallback; a browser that ignores the signal is waited for.
HardKill_Missing(k) == FALSE

\* Not gone after five seconds.
HardKill(k) ==
    /\ task[k] = "term" /\ k \in procs /\ Gone(k)
    /\ UNCHANGED <<up, claim, starter, tracker, run, ustop, helper, told, orphans, count>>

Terminated(k) ==
    /\ task[k] = "term" /\ k \notin procs
    /\ Task(k, "final")
    /\ UNCHANGED <<up, claim, starter, entry, chan, run, ustop, helper, env, told, orphans, count>>

\* Our child is gone and it was not a Stop: wait for whoever holds the lock, for
\* at most twelve hours.
LockFree(k) ==
    /\ task[k] = "lock" /\ holder = None
    /\ Task(k, "final")
    /\ UNCHANGED <<up, claim, starter, entry, chan, run, ustop, helper, env, told, orphans, count>>

GiveUp(k) ==
    /\ task[k] = "lock" /\ holder # None
    /\ Task(k, "final")
    /\ UNCHANGED <<up, claim, starter, entry, chan, run, ustop, helper, env, told, orphans, count>>

\* stop_lock_holder: a Stop meanwhile is for the browser that took over.
LockStop(k) ==
    /\ task[k] = "lock" /\ holder # None /\ chan[k] # <<>>
    /\ told' = told \cup {<<Head(chan[k]), holder>>}
    /\ chan' = [chan EXCEPT ![k] = Tail(@)]
    /\ UNCHANGED <<up, claim, starter, entry, task, run, ustop, helper, env, orphans, count>>

\* The last writes of the record (or its deletion) are done; the entry goes if
\* it is still this launch's, and the channel closes.
Finalize(k) ==
    /\ task[k] = "final"
    /\ Task(k, "over")
    /\ entry' = IF entry # None /\ entry.run = k THEN None ELSE entry
    /\ chan' = [chan EXCEPT ![k] = <<>>]
    /\ UNCHANGED <<up, claim, starter, run, ustop, helper, env, told, orphans, count>>

TaskStep(k) ==
    \/ WatchExit(k) \/ WatchStop(k) \/ HardKill(k) \/ Terminated(k)
    \/ LockFree(k) \/ GiveUp(k) \/ LockStop(k) \/ Finalize(k)

----------------------------------------------------------------------------
(* Stop.                                                                   *)

\* The channel holds one stop; a further one waits for room.
Room(k) == Len(chan[k]) < 1

\* The send returns when the stop is in the channel or the task has ended.
SendStop(s, k) ==
    \/ task[k] # "over" /\ Room(k) /\ chan' = [chan EXCEPT ![k] = Append(@, s)]
    \/ task[k] = "over" /\ UNCHANGED chan

\* Tracker::kill: the sender is cloned under the mutex and used after it.
UserStop ==
    /\ up /\ entry # None /\ ustop = 0
    /\ ustop' = entry.run
    /\ UNCHANGED <<up, claim, starter, tracker, run, helper, env, told, orphans, count>>

UserSend ==
    /\ ustop # 0 /\ SendStop(User, ustop)
    /\ ustop' = 0
    /\ UNCHANGED <<up, claim, starter, entry, task, run, helper, env, told, orphans, count>>

----------------------------------------------------------------------------
(* MCP: runSafeOpenLifecycle.                                              *)

At(h, p) == helper[h].pc = p
Mine(h)  == helper[h].run

\* acquireSafeOpenProfile: a profile that runs with CDP is used and left
\* running; one without CDP is an error.
List(h) ==
    /\ At(h, "idle") /\ up
    /\ IF entry = None THEN Move(h, "start")
       ELSE IF entry.cdp THEN Move(h, "open") ELSE Over(h, "failed")
    /\ UNCHANGED <<up, claim, starter, tracker, run, ustop, env, told, orphans, count>>

StartProfile(h) ==
    /\ At(h, "start")
    /\ IF MayLaunch
       THEN BeginLaunch(h) /\ Move(h, "launching")
       ELSE Over(h, "failed") /\ UNCHANGED <<up, claim, starter, tracker, run, ustop, env, told, orphans, count>>

\* read_devtools_endpoint and set_cdp_if_instance; without CDP the call stops
\* what it started.
Started(h) ==
    /\ At(h, "cdp")
    /\ \/ /\ entry # None /\ entry.run = Mine(h)
          /\ entry' = [entry EXCEPT !.cdp = TRUE]
          /\ Move(h, "open")
       \/ UNCHANGED entry /\ Move(h, "stop")
    /\ UNCHANGED <<up, claim, starter, task, chan, run, ustop, env, told, orphans, count>>

\* The same for a launch of the User over the API.
UserStarted ==
    /\ entry # None /\ by[entry.run] = User /\ ~entry.cdp
    /\ entry' = [entry EXCEPT !.cdp = TRUE]
    /\ UNCHANGED <<up, claim, starter, task, chan, run, ustop, helper, env, told, orphans, count>>

\* The call loses the answer, or the MCP process dies: nothing is stopped.
HelperDies(h) ==
    /\ helper[h].pc \in {"cdp", "open", "stop", "send", "poll", "confirm"}
    /\ Over(h, "failed")
    /\ UNCHANGED <<up, claim, starter, tracker, run, ustop, env, told, orphans, count>>

\* The page was opened or not; finalizeSafeOpenLifecycle stops a profile this
\* call started, unless it is done and keep_running was asked for.
Opened(h) ==
    /\ At(h, "open")
    /\ \E completed, keep_running \in BOOLEAN :
         IF Mine(h) # 0 /\ (~keep_running \/ ~completed) THEN Move(h, "stop") ELSE Over(h, "left")
    /\ UNCHANGED <<up, claim, starter, tracker, run, ustop, env, told, orphans, count>>

\* Fault: the process ID identifies the browser.
SameInstance_Pid(h) == pid[entry.run] = pid[Mine(h)]

\* kill_if_instance: process ID and launch-instance token.
SameInstance(h) == pid[entry.run] = pid[Mine(h)] /\ entry.run = Mine(h)

\* stop-if-launch-instance: the stop is for the task of the entry it found; a
\* conflict ends the call, any other error does not.
Stop(h) ==
    /\ At(h, "stop")
    /\ IF ~up \/ entry = None THEN Move(h, "poll")
       ELSE IF SameInstance(h)
       THEN helper' = [helper EXCEPT ![h].pc = "send", ![h].run = entry.run]
       ELSE Over(h, "failed")
    /\ UNCHANGED <<up, claim, starter, tracker, run, ustop, env, told, orphans, count>>

Send(h) ==
    /\ At(h, "send") /\ SendStop(h, Mine(h))
    /\ Move(h, "poll")
    /\ UNCHANGED <<up, claim, starter, entry, task, run, ustop, env, told, orphans, count>>

StillListed(h) == entry # None /\ pid[entry.run] = pid[Mine(h)]

\* stopStartedProfile polls /running for fifteen seconds, also while the
\* launcher does not answer; a call that could not open its page ends in its
\* error here.
Poll(h) ==
    /\ At(h, "poll")
    /\ \/ up /\ ~StillListed(h) /\ Move(h, "confirm")
       \/ Over(h, "failed")
    /\ UNCHANGED <<up, claim, starter, tracker, run, ustop, env, told, orphans, count>>

\* finalizeSafeOpenLifecycle reads /running once more.
Confirm(h) ==
    /\ At(h, "confirm")
    /\ Over(h, IF ~up \/ StillListed(h) THEN "failed" ELSE "stopped")
    /\ UNCHANGED <<up, claim, starter, tracker, run, ustop, env, told, orphans, count>>

HelperStep(h) ==
    \/ List(h) \/ StartProfile(h) \/ Started(h) \/ HelperDies(h) \/ Opened(h)
    \/ Stop(h) \/ Send(h) \/ Poll(h) \/ Confirm(h)

----------------------------------------------------------------------------

\* The launcher dies; claims, tracker and requests go with it, browsers stay.
Crash ==
    /\ up /\ crashes < MaxCrash
    /\ crashes' = crashes + 1
    /\ up' = FALSE
    /\ claim' = "none" /\ starter' = None /\ entry' = None /\ ustop' = 0
    /\ task' = [k \in Runs |-> IF task[k] = "none" THEN "none" ELSE "over"]
    /\ chan' = [k \in Runs |-> <<>>]
    /\ orphans' = orphans \cup (procs \ {0})
    /\ helper' = [h \in Helpers |->
          CASE helper[h].pc \in {"launching", "cdp"} ->
                 [helper[h] EXCEPT !.pc = "over", !.outcome = "failed"]
            [] helper[h].pc = "send" -> [helper[h] EXCEPT !.pc = "poll"]
            [] OTHER -> helper[h]]
    /\ UNCHANGED <<run, env, told, hands>>

Restart ==
    /\ ~up /\ up' = TRUE
    /\ UNCHANGED <<claim, starter, tracker, run, ustop, helper, env, told, orphans, count>>

Next ==
    \/ BeginMutation \/ BeginBulk \/ BulkCheck \/ EndMutation
    \/ UserLaunch \/ LaunchFails \/ UserStarted \/ UserStop \/ UserSend
    \/ \E p \in Pids : Spawn(p)
    \/ \E k \in Runs : TakeLock(k) \/ HandOver(k) \/ TaskStep(k)
    \/ \E k \in Runs \cup {0} : Exit(k)
    \/ \E h \in Helpers : HelperStep(h)
    \/ HandStart \/ Crash \/ Restart

Spec == Init /\ [][Next]_vars

\* Tasks of the launcher run on and the timer of the wait fires, also between
\* Stops; nothing makes browsers, people or MCP calls do anything.
FairSpec == Spec /\ \A k \in Runs : WF_vars(TaskStep(k)) /\ WF_vars(GiveUp(k))

----------------------------------------------------------------------------
(* Properties.                                                             *)

\* Types of the tracker, the launches, the MCP calls and the browsers; a killer
\* channel holds at most one stop.
TypeOK ==
    /\ up \in BOOLEAN
    /\ claim \in {"none", "launch", "mutation", "bulkcheck", "bulk"}
    /\ starter \in Senders \cup {None}
    /\ entry = None \/ entry \in [run : 1 .. n, cdp : BOOLEAN]
    /\ n \in 0 .. MaxLaunch
    /\ by \in [Runs -> Senders \cup {None}]
    /\ pid \in [Runs -> Pids \cup {None}]
    /\ task \in [Runs -> {"none", "watch", "term", "lock", "final", "over"}]
    /\ chan \in [Runs -> {<<>>} \cup {<<s>> : s \in Senders}]
    /\ ustop \in 0 .. n
    /\ helper \in [Helpers -> [pc : HelperPCs, run : 0 .. n, outcome : Outcomes]]
    /\ procs \subseteq 0 .. n /\ holder \in procs \cup {None}
    /\ told \subseteq Senders \X (0 .. n) /\ orphans \subseteq 1 .. n
    /\ hands \in 0 .. MaxHand /\ crashes \in 0 .. MaxCrash

\* "A replacement process is never stopped solely because Windows reused its
\* PID" (mcp/README.md): through an MCP call the launcher ends only the browser
\* that call launched, also when launches follow each other, a launch is handed
\* over or a stop arrives late; and what a call reports as stopped is gone.
\* (Excepted are browsers no launch of this launcher run owns: one started by
\* hand or left by a launcher that died may take a launch over and is then what
\* its Stop ends.)
OwnershipKept ==
    \A h \in Helpers :
      /\ \A k \in 1 .. n : <<h, k>> \in told => by[k] = h \/ k \in orphans
      /\ helper[h].outcome = "stopped" => Mine(h) \notin procs \ orphans

\* A command that holds the profile (edit, delete, push, pull, folder change)
\* shares it with nothing this launcher run started: no browser of its launches
\* is alive, and no tracking task has its last write of the record before it.
\* (A browser that an earlier, dead launcher left, or one started by hand, is not
\* seen by a claim and may run beside it.)
MutationAlone ==
    claim \in {"mutation", "bulk"} =>
      /\ \A k \in Runs : task[k] \in {"none", "over"}
      /\ procs \subseteq orphans \cup {0}

\* No phantom Running row: a profile whose browser is gone or was told to stop
\* leaves the tracker, whatever the browser or a holder of its lock does.
EntryLeaves ==
    \A k \in Runs :
      (entry # None /\ entry.run = k /\ (chan[k] # <<>> \/ task[k] = "term" \/ k \notin procs))
        ~> (entry = None \/ entry.run # k)
=============================================================================
