--------------------------- MODULE MonitorLeases ---------------------------
(***************************************************************************)
(* One monitor, hosted by any of several processes that share a repository *)
(* (services/monitor.py with the lease tables of storage/database.py).     *)
(*                                                                         *)
(* A process runs five threads that matter: the session loop and the       *)
(* heartbeat loop of a session, one control thread (start, stop, pause,    *)
(* resume, dashboard), one run-now thread, and the run each of the first   *)
(* and last may be in.  A step is one section of _status_lock or of        *)
(* _condition, or one repository call: what the code does atomically.      *)
(*                                                                         *)
(* Time is a count of what is left: an expiry is the number of ticks until *)
(* it is reached, so time is unbounded.  The schedule is the bit "due":    *)
(* next_due_at has been reached.                                           *)
(***************************************************************************)
EXTENDS Naturals

CONSTANTS Hosts,    \* host ids, one per process: a restart gets a fresh one
          NoHost,   \* NULL in a host_id column
          Lease,    \* _lease_seconds, in ticks
          Busy,     \* the processes that requests are made of, and that fail
          Scenes    \* bound: which processes there are, and the requests and
                    \* failures, one each, that a behaviour may meet

ASSUME LeaseAssumption == Lease \in Nat \ {0} /\ NoHost \notin Hosts

VARIABLES lease,    \* the row of monitor_leases
          row,      \* the row of monitor_status
          enabled,  \* desired_state is ENABLED
          mem,      \* per host: what _condition guards
          pc,       \* per host: where its threads are
          job,      \* per host and kind: the run being executed
          plan,     \* requests and failures still to come
          lapsed,   \* history: hosts whose last lease expired or was released
          strays    \* history: hosts that named themselves without holding it

monitorVars == <<lease, row, enabled, mem, pc, job, plan, lapsed, strays>>

Kinds == {"session", "shot"}
Never == Lease + 1                  \* lease_expires_at IS NULL

NoLease == [host |-> NoHost, left |-> 0]
NoJob == [pc |-> "idle", left |-> 0, prev |-> FALSE, cancelled |-> FALSE]
NoMem == [stop |-> FALSE, held |-> FALSE, pend |-> FALSE, active |-> "none"]
NoThreads == [session |-> "off", beat |-> "off", control |-> "idle", at |-> ""]
Gone == [NoThreads EXCEPT !.control = "gone"]
Started == [NoThreads EXCEPT !.session = "loop", !.beat = "idle"]

MonitorTypeOK ==
  /\ lease \in [host : Hosts \cup {NoHost}, left : 0..Lease]
  /\ lease.host = NoHost => lease.left = 0
  /\ row \in [host : Hosts \cup {NoHost}, left : 0..Never, due : BOOLEAN]
  /\ enabled \in BOOLEAN
  /\ mem \in [Hosts -> [stop : BOOLEAN, held : BOOLEAN, pend : BOOLEAN,
                        active : Kinds \cup {"none"}]]
  /\ pc \in [Hosts -> [session : {"off", "loop", "taken", "held", "look",
                                  "run", "exit"},
                       beat    : {"off", "idle"},
                       control : {"idle", "stop", "pause", "gone"},
                       at      : {"", "drop", "free", "end"}]]
  /\ job \in [Hosts -> [Kinds ->
       [pc : {"idle", "go", "begin", "scan", "clear", "broken"}, left : 0..Lease,
        prev : BOOLEAN, cancelled : BOOLEAN]]]
  /\ plan \subseteq UNION {s.plan : s \in Scenes}
  /\ lapsed \subseteq Hosts
  /\ strays \subseteq Hosts

MonitorInit ==
  /\ lease = NoLease
  /\ row = [host |-> NoHost, left |-> Never, due |-> TRUE]
  /\ enabled = TRUE
  /\ mem = [h \in Hosts |-> NoMem]
  /\ job = [h \in Hosts |-> [k \in Kinds |-> NoJob]]
  /\ \E s \in Scenes : \E started \in SUBSET s.up :
       /\ plan = s.plan
       /\ pc = [h \in Hosts |-> IF h \in started THEN Started
                               ELSE IF h \in s.up THEN NoThreads ELSE Gone]
  /\ lapsed = {}
  /\ strays = {}

-----------------------------------------------------------------------------
(* The lease table.                                                        *)

\* acquire_monitor_lease: its WHERE clause, and the row it leaves
TakeableBeforeExpiry(h) == lease.host \in {NoHost, h} \/ lease.left <= 1
TakeableIfReleased(h) == lease.host \in {NoHost, h}
Takeable(h) == lease.host \in {NoHost, h} \/ lease.left = 0
Taken(h) == [host |-> h, left |-> Lease]

Executing(h, k) == job[h][k].pc = "scan"

\* release_monitor_lease: the lease of h, and the status row that names h
LeaseWithout(h) == IF lease.host = h THEN NoLease ELSE lease
Unhosted(r) == [r EXCEPT !.host = NoHost, !.left = Never]
RowWithout(h, r) == IF r.host = h THEN Unhosted(r) ELSE r
Release(h, r) ==
  /\ lease' = LeaseWithout(h)
  /\ row' = RowWithout(h, r)
  /\ lapsed' = lapsed \cup ({h} \cap {lease.host})

\* one of the bounded requests and failures
Asked(h, what) == h \in Busy /\ what \in plan /\ plan' = plan \ {what}

Strays(h) == strays' = strays \cup (IF mem[h].held THEN {} ELSE {h})

SessionAlive(h) == pc[h].session # "off"
session_running(h) == SessionAlive(h) \/ pc[h].beat # "off"
_session_accepting(h) == session_running(h) /\ ~mem[h].stop
Up(h) == pc[h].control # "gone"

SessionAt(h, here) == pc[h].session = here
SessionGoes(h, there) == pc' = [pc EXCEPT ![h].session = there]

-----------------------------------------------------------------------------
(* _session_loop.                                                          *)

\* the top of the loop: stop, or drop the lease of a monitor no longer enabled
LoopStop(h) ==
  /\ SessionAt(h, "loop") /\ mem[h].stop
  /\ SessionGoes(h, "exit")
  /\ UNCHANGED <<lease, row, enabled, mem, job, plan, lapsed, strays>>

LoopDrop(h) ==
  /\ SessionAt(h, "loop") /\ ~mem[h].stop /\ ~enabled /\ mem[h].held
  /\ mem' = [mem EXCEPT ![h].held = FALSE]
  /\ Release(h, row)
  /\ UNCHANGED <<enabled, pc, job, plan, strays>>

\* _acquire_session_lease: the repository call, the set, the status section
AcquireLease(h) ==
  /\ SessionAt(h, "loop") /\ ~mem[h].stop /\ enabled /\ ~mem[h].held
  /\ Takeable(h)
  /\ lease' = Taken(h)
  /\ lapsed' = lapsed \ {h}
  /\ SessionGoes(h, "taken")
  /\ UNCHANGED <<row, enabled, mem, job, plan, strays>>

AcquireHeld(h) ==
  /\ SessionAt(h, "taken")
  /\ mem' = [mem EXCEPT ![h].held = TRUE]
  /\ strays' = strays \ {h}
  /\ SessionGoes(h, "held")
  /\ UNCHANGED <<lease, row, enabled, job, plan, lapsed>>

LostIfStopping(h) == mem[h].stop
LostAcquired(h) == mem[h].stop \/ ~mem[h].held
RowWaiting(h) == [row EXCEPT !.host = h, !.left = Lease]

AcquireStatus(h) ==
  /\ SessionAt(h, "held")
  /\ IF LostAcquired(h)
     THEN /\ Release(h, RowWaiting(h))
          /\ mem' = [mem EXCEPT ![h].held = FALSE]
          /\ SessionGoes(h, "loop")
     ELSE /\ row' = RowWaiting(h)
          /\ SessionGoes(h, "look")
          /\ UNCHANGED <<lease, mem, lapsed>>
  /\ UNCHANGED <<enabled, job, plan, strays>>

\* an enabled monitor whose lease is held: a manual request first, then the
\* schedule; otherwise wait and loop
MayLook(h) ==
  \/ SessionAt(h, "look")
  \/ SessionAt(h, "loop") /\ ~mem[h].stop /\ enabled /\ mem[h].held

Look(h) ==
  /\ MayLook(h)
  /\ IF mem[h].pend \/ row.due
     THEN /\ mem' = [mem EXCEPT ![h].pend = FALSE]
          /\ job' = [job EXCEPT ![h]["session"].pc = "go"]
          /\ SessionGoes(h, "run")
     ELSE /\ SessionGoes(h, "loop")
          /\ UNCHANGED <<mem, job>>
  /\ UNCHANGED <<lease, row, enabled, plan, lapsed, strays>>

RunReturns(h) ==
  /\ SessionAt(h, "run") /\ job[h]["session"].pc = "idle"
  /\ SessionGoes(h, "loop")
  /\ UNCHANGED <<lease, row, enabled, mem, job, plan, lapsed, strays>>

\* an exception of the repository (a locked database) leaves the loop: no
\* handler, only the finally clause
SessionFails(h) ==
  /\ Asked(h, "fail")
  /\ pc[h].session \in {"loop", "look"}
  /\ SessionGoes(h, "exit")
  /\ UNCHANGED <<lease, row, enabled, mem, job, lapsed, strays>>

\* the finally clause: _release_all_leases
ExitLoop(h) ==
  /\ SessionAt(h, "exit")
  /\ mem' = [mem EXCEPT ![h].held = FALSE]
  /\ IF mem[h].held THEN Release(h, row) ELSE UNCHANGED <<lease, row, lapsed>>
  /\ SessionGoes(h, "off")
  /\ UNCHANGED <<enabled, job, plan, strays>>

SessionStep(h) ==
  \/ LoopStop(h)  \/ LoopDrop(h) 
  \/ AcquireLease(h) \/ AcquireHeld(h) \/ AcquireStatus(h)
  \/ Look(h) \/ RunReturns(h) \/ ExitLoop(h)

-----------------------------------------------------------------------------
(* _execute_definition, of the session loop or of a run-now thread.        *)

JobAt(h, k, here) == job[h][k].pc = here
JobGoes(h, k, there) == job' = [job EXCEPT ![h][k].pc = there]

\* the QUEUED section: the row names this host, and the due time is pushed
\* when it is the schedule's turn or has passed
MarkQueued(h, k) ==
  /\ JobAt(h, k, "go")
  /\ row' = [host |-> h, left |-> Lease, due |-> FALSE]
  /\ job' = [job EXCEPT ![h][k] = [pc |-> "begin", left |-> Lease,
                                   prev |-> row.due, cancelled |-> FALSE]]
  /\ UNCHANGED <<lease, enabled, mem, pc, plan, lapsed, strays>>

\* a run that ends without success leaves WAITING only while still hosted
HostedAfterFailure(h) ==
  row.host = h /\ mem[h].held /\ session_running(h) /\ ~mem[h].stop
FailedRow(h) == IF HostedAfterFailure(h) THEN row ELSE Unhosted(row)

\* create_run refuses the request: no run, the failed status and, for a
\* one-shot, the release are one section
RunRefused(h, k) ==
  /\ JobAt(h, k, "begin")
  /\ IF k = "shot" THEN Release(h, FailedRow(h))
     ELSE row' = FailedRow(h) /\ UNCHANGED <<lease, lapsed>>
  /\ job' = [job EXCEPT ![h][k] = NoJob]
  /\ UNCHANGED <<enabled, mem, pc, plan, strays>>

\* create_run, then the active run is set: only from here can a stop cancel it
RunCreated(h, k) ==
  /\ JobAt(h, k, "begin")
  /\ mem' = [mem EXCEPT ![h].active = k]
  /\ JobGoes(h, k, "scan")
  /\ UNCHANGED <<lease, row, enabled, pc, plan, lapsed, strays>>

\* _save_scan_progress: the host, expiry and due time captured when the run
\* was queued are written back with every progress event
SaveProgress(h, k) ==
  /\ JobAt(h, k, "scan")
  /\ row' = [host |-> h, left |-> job[h][k].left, due |-> FALSE]
  /\ UNCHANGED <<lease, enabled, mem, pc, job, plan, lapsed, strays>>

\* the status section at the end: success, a stop of the session, a failure
StillHosted(h, k) == k = "shot" \/ (mem[h].held /\ ~mem[h].stop)
SucceededRow(h, k) == IF StillHosted(h, k) THEN row ELSE Unhosted(row)
StoppedRow(h, k) == [Unhosted(row) EXCEPT !.due = job[h][k].prev]

FinishRun(h, k) ==
  /\ JobAt(h, k, "scan")
  /\ row' \in (IF job[h][k].cancelled THEN {StoppedRow(h, k)}
               ELSE {SucceededRow(h, k), FailedRow(h)})
  /\ JobGoes(h, k, "clear")
  /\ UNCHANGED <<lease, enabled, mem, pc, plan, lapsed, strays>>

\* an exception between the scan and that section: only the finally clause
RunBreaks(h, k) ==
  /\ Asked(h, "break")
  /\ JobAt(h, k, "scan")
  /\ JobGoes(h, k, "broken")
  /\ Strays(h)
  /\ UNCHANGED <<lease, row, enabled, mem, pc, lapsed>>

\* the finally clause: the active run is cleared and a one-shot releases; an
\* exception goes on to leave the session loop
ClearRun(h, k) ==
  /\ job[h][k].pc \in {"clear", "broken"}
  /\ mem' = [mem EXCEPT ![h].active = "none"]
  /\ IF k = "shot" THEN Release(h, row) ELSE UNCHANGED <<lease, row, lapsed>>
  /\ job' = [job EXCEPT ![h][k] = NoJob]
  /\ pc' = IF k = "session" /\ JobAt(h, k, "broken")
           THEN [pc EXCEPT ![h].session = "exit"] ELSE pc
  /\ UNCHANGED <<enabled, plan, strays>>

JobEnds(h, k) ==
  RunRefused(h, k) \/ FinishRun(h, k) \/ ClearRun(h, k)
JobStep(h, k) ==
  \/ MarkQueued(h, k) \/ RunCreated(h, k) \/ SaveProgress(h, k)
  \/ RunBreaks(h, k) \/ JobEnds(h, k)

-----------------------------------------------------------------------------
(* _heartbeat_loop.                                                        *)

BeatAt(h, here) == pc[h].beat = here

BeatStops(h) ==
  /\ BeatAt(h, "idle") /\ mem[h].stop
  /\ pc' = [pc EXCEPT ![h].beat = "off"]
  /\ UNCHANGED <<lease, row, enabled, mem, job, plan, lapsed, strays>>

\* the repository call and what follows it: the expiry of the row, or the
\* discovery that the lease is no longer ours
BeatRenews(h) ==
  /\ BeatAt(h, "idle") /\ ~mem[h].stop /\ mem[h].held
  /\ IF lease.host = h
     THEN /\ lease' = Taken(h)
          /\ row' = [row EXCEPT !.left = Lease]
          /\ UNCHANGED <<mem, strays>>
     ELSE /\ mem' = [mem EXCEPT ![h].held = FALSE]
          /\ strays' = strays \cup {h}
          /\ UNCHANGED <<lease, row>>
  /\ UNCHANGED <<enabled, pc, job, plan, lapsed>>

BeatStep(h) == BeatStops(h) \/ BeatRenews(h)

-----------------------------------------------------------------------------
(* The control thread of a process, and its run-now thread.                *)

Idle(h) == pc[h].control = "idle"
ControlAt(h, here) == pc[h].at = here
ControlGoes(h, there) == pc' = [pc EXCEPT ![h].at = there]

\* start_session, after _await_stopping_session has joined what was stopping:
\* a session still draining, or still running, is left as it is
StartSession(h) ==
  /\ Idle(h) /\ Asked(h, "start")
  /\ ~session_running(h)
  /\ mem' = [mem EXCEPT ![h] =
       [@ EXCEPT !.stop = FALSE, !.pend = FALSE,
                 !.active = IF mem[h].stop THEN "none" ELSE mem[h].active]]
  /\ pc' = [pc EXCEPT ![h] = Started]
  /\ UNCHANGED <<lease, row, enabled, job, lapsed, strays>>

\* stop_session: the flag and the cancellation of the active run; then, after
\* a join that may time out or not be asked for, _release_all_leases; then
\* the requests still queued are dropped
StopSession(h) ==
  /\ Idle(h) /\ Asked(h, "stop")
  /\ session_running(h)
  /\ mem' = [mem EXCEPT ![h].stop = TRUE]
  /\ job' = [job EXCEPT ![h] = [k \in Kinds |->
               [job[h][k] EXCEPT !.cancelled = @ \/ (k = mem[h].active
                                                     /\ Executing(h, k))]]]
  /\ pc' = [pc EXCEPT ![h] = [@ EXCEPT !.control = "stop", !.at = "drop"]]
  /\ UNCHANGED <<lease, row, enabled, lapsed, strays>>

\* pause_monitor: the definition, then _release_held_lease, then the requests
PauseMonitor(h) ==
  /\ Idle(h) /\ Asked(h, "pause") /\ enabled
  /\ enabled' = FALSE
  /\ pc' = [pc EXCEPT ![h] = [@ EXCEPT !.control = "pause", !.at = "drop"]]
  /\ UNCHANGED <<lease, row, mem, job, lapsed, strays>>

DropHeld(h) ==
  /\ ControlAt(h, "drop")
  /\ mem' = [mem EXCEPT ![h].held = FALSE]
  /\ ControlGoes(h, IF mem[h].held THEN "free" ELSE "end")
  /\ UNCHANGED <<lease, row, enabled, job, plan, lapsed, strays>>

FreeLease(h) ==
  /\ ControlAt(h, "free")
  /\ Release(h, row)
  /\ ControlGoes(h, "end")
  /\ UNCHANGED <<enabled, mem, job, plan, strays>>

DropRequests(h) ==
  /\ ControlAt(h, "end")
  /\ mem' = [mem EXCEPT ![h] =
       [@ EXCEPT !.pend = FALSE,
                 !.active = IF pc[h].control = "stop" /\ ~session_running(h)
                            THEN "none" ELSE mem[h].active]]
  /\ pc' = [pc EXCEPT ![h] = [@ EXCEPT !.control = "idle", !.at = ""]]
  /\ UNCHANGED <<lease, row, enabled, job, plan, lapsed, strays>>

ResumeMonitor(h) ==
  /\ Idle(h) /\ Asked(h, "resume") /\ ~enabled
  /\ enabled' = TRUE
  /\ UNCHANGED <<lease, row, mem, pc, job, lapsed, strays>>

\* run_monitor_now in a process whose session will serve it: queued there,
\* whether or not that session holds the lease
RunQueued(h) ==
  /\ Up(h) /\ Asked(h, "queue")
  /\ _session_accepting(h) /\ enabled
  /\ mem' = [mem EXCEPT ![h].pend = TRUE]
  /\ row' = IF mem[h].active # "none" THEN row
            ELSE [row EXCEPT !.host = h]
  /\ Strays(h)
  /\ UNCHANGED <<lease, enabled, pc, job, lapsed>>

\* run_monitor_now elsewhere: a one-shot run on the caller's thread, under a
\* lease of its own that no heartbeat renews
RunOnce(h) ==
  /\ Up(h) /\ Asked(h, "run once")
  /\ ~(_session_accepting(h) /\ enabled)
  /\ JobAt(h, "shot", "idle")
  /\ Takeable(h)
  /\ lease' = Taken(h)
  /\ lapsed' = lapsed \ {h}
  /\ JobGoes(h, "shot", "go")
  /\ UNCHANGED <<row, enabled, mem, pc, strays>>

\* _normalized_status, from the dashboard of any process: a row whose expiry
\* has passed is taken for that of a dead host, and the lease of the host it
\* names is released
Dashboard ==
  /\ \E h \in Hosts : Up(h)
  /\ row.host # NoHost /\ row.left = 0
  /\ lease' = LeaseWithout(row.host)
  /\ lapsed' = lapsed \cup ({row.host} \cap {lease.host})
  /\ row' = Unhosted(row)
  /\ UNCHANGED <<enabled, mem, pc, job, plan, strays>>

\* a process dies: its memory goes, its rows stay
Crash(h) ==
  /\ Up(h) /\ Asked(h, "crash")
  /\ mem' = [mem EXCEPT ![h] = NoMem]
  /\ pc' = [pc EXCEPT ![h] = Gone]
  /\ job' = [job EXCEPT ![h] = [k \in Kinds |-> NoJob]]
  /\ UNCHANGED <<lease, row, enabled, lapsed, strays>>

ControlStep(h) == DropHeld(h) \/ FreeLease(h) \/ DropRequests(h)

Request(h) ==
  \/ StartSession(h) \/ StopSession(h) \/ PauseMonitor(h) \/ ResumeMonitor(h)
  \/ RunQueued(h) \/ RunOnce(h) \/ Crash(h)

-----------------------------------------------------------------------------
(* Time.                                                                   *)

Sooner(n) == IF n = 0 THEN 0 ELSE n - 1

\* a live session renews its lease in time, unless the host is slow once
OnTime(h) ==
  (mem[h].held \/ SessionAt(h, "taken")) /\ ~mem[h].stop /\ lease.host = h
     => lease.left > 1

Tick ==
  /\ \/ (\A h \in Hosts : OnTime(h)) /\ UNCHANGED plan
     \/ \E h \in Hosts : ~OnTime(h) /\ Asked(h, "slow")
  /\ lease' = [lease EXCEPT !.left = Sooner(@)]
  /\ row' = [row EXCEPT !.left = IF @ = Never THEN Never ELSE Sooner(@)]
  /\ job' = [h \in Hosts |-> [k \in Kinds |-> [job[h][k] EXCEPT !.left = Sooner(@)]]]
  /\ lapsed' = lapsed \cup (IF lease.left = 1 THEN {lease.host} ELSE {})
  /\ UNCHANGED <<enabled, mem, pc, strays>>

\* next_due_at is reached; an interval is longer than a run
DueArrives ==
  /\ ~row.due /\ \A h \in Hosts, k \in Kinds : JobAt(h, k, "idle")
  /\ row' = [row EXCEPT !.due = TRUE]
  /\ UNCHANGED <<lease, enabled, mem, pc, job, plan, lapsed, strays>>

MonitorNext ==
  \/ \E h \in Hosts :
       \/ SessionStep(h) \/ SessionFails(h) \/ BeatStep(h)
       \/ ControlStep(h) \/ Request(h)
       \/ \E k \in Kinds : JobStep(h, k)
  \/ Dashboard \/ Tick \/ DueArrives

\* threads are scheduled, a scan ends, time passes; nothing obliges a request,
\* a failure, a progress event, a dashboard, or a due time
JobAdvance(h, k) == MarkQueued(h, k) \/ RunCreated(h, k) \/ JobEnds(h, k)

MonitorFairness ==
  /\ \A h \in Hosts :
       /\ WF_monitorVars(SessionStep(h))
       /\ WF_monitorVars(BeatStep(h))
       /\ WF_monitorVars(ControlStep(h))
       /\ \A k \in Kinds : WF_monitorVars(JobAdvance(h, k))
  /\ WF_monitorVars(Tick)

MonitorSpec ==
  MonitorInit /\ [][MonitorNext]_monitorVars /\ MonitorFairness

-----------------------------------------------------------------------------
(* Properties.                                                             *)

(* docs/architecture.md: "One monitor never overlaps itself", under the    *)
(* lease every host acquires and heartbeats.                               *)
NeverOverlaps ==
  \A h, g \in Hosts : h # g =>
     \A j, k \in Kinds : ~(Executing(h, j) /\ Executing(g, k))

(* What the lease protocol does ensure: two hosts scan at once only if one *)
(* of them let its lease expire, gave it up, or had it taken for dead by a *)
(* dashboard, after it last acquired it.                                   *)
OverlapNeedsLapse ==
  \A h, g \in Hosts : h # g =>
     \A j, k \in Kinds : Executing(h, j) /\ Executing(g, k) =>
        h \in lapsed \/ g \in lapsed

(* A host whose threads have ended is named by no status row: the comments *)
(* of _acquire_session_lease and _await_stopping_session describe the      *)
(* "waiting" or "queued" row of a host that never comes back.              *)
Quiet(h) ==
  /\ ~session_running(h) /\ Idle(h) /\ mem[h].stop
  /\ \A k \in Kinds : JobAt(h, k, "idle")
NoGhostHost == \A h \in Hosts : Quiet(h) /\ h \notin strays => row.host # h

(* A due monitor is attempted as long as some session keeps serving it,    *)
(* whatever the other hosts did: a lease left behind expires.              *)
Serving(h) == SessionAlive(h) /\ ~mem[h].stop
DueIsAttempted ==
  (enabled /\ \E h \in Hosts : Serving(h)) /\ row.due ~>
     ~row.due \/ ~(enabled /\ \E h \in Hosts : Serving(h))
=============================================================================
