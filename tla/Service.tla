------------------------------- MODULE Service -------------------------------
(***************************************************************************)
(* The egress service process: Server (pkg/server), the process manager it *)
(* launches one handler process per egress with (pkg/service/process.go)   *)
(* and the request accounting of the monitor (pkg/stats/monitor.go).       *)
(*                                                                         *)
(* Each StartEgress call runs in a goroutine of its own.  A launched       *)
(* handler has a second goroutine that waits for its exit and calls        *)
(* processEnded.  Handlers are separate processes: they report over IPC,   *)
(* are killed, or crash.  A node shuts down by signal or because a handler *)
(* reported an internal error, and then drains.                            *)
(***************************************************************************)
EXTENDS Integers, FiniteSets

CONSTANTS
    Request,   \* the StartEgress calls
    Egress,    \* egress ids
    EgressOf,  \* the id each call asks for
    None       \* no handler

ASSUME ServiceAssumption ==
    /\ EgressOf \in [Request -> Egress]
    /\ None \notin Request
    /\ IsFiniteSet(Request)

VARIABLES
    start,          \* where each call of StartEgress is
    create,         \* what CreateEgress answered: "none", "inflight", "ok", "failed"
    waiter,         \* where the goroutine that waits for the process is
    proc,           \* the handler process: "none", "starting", "running", "exited"
    exitErr,        \* it exited with an error
    ready,          \* its ready channel is closed
    reason,         \* Process.killReason
    told,           \* its closed fuse is broken by kill: it was told to end
    active,         \* processManager.activeHandlers
    topics,         \* the egress ids with handler RPC topics
    activeRequests, \* Server.activeRequests
    pending,        \* Monitor.pending
    procStats,      \* the handlers in Monitor.procStats
    requests,       \* Monitor.requests
    shutdown,       \* the fuse
    killAll,        \* where Shutdown(_, TRUE) is: "no", "collected", "done"
    toKill,         \* the handlers KillAll collected
    drain,          \* Server.Run: "serving", "idle", "stopped"
    reports,        \* history: the terminal updates sent for each call
    panicked        \* history: the service process panicked

startVars == <<start, create>>
procVars == <<waiter, proc, exitErr, ready>>
killVars == <<reason, told>>
pmVars == <<active, topics>>
monitorVars == <<pending, procStats, requests>>
downVars == <<shutdown, killAll, toKill, drain>>
vars == <<startVars, procVars, killVars, pmVars, activeRequests, monitorVars, downVars,
          reports, panicked>>

Init ==
    /\ start = [r \in Request |-> "idle"]
    /\ create = [r \in Request |-> "none"]
    /\ waiter = [r \in Request |-> "none"]
    /\ proc = [r \in Request |-> "none"]
    /\ exitErr = [r \in Request |-> FALSE]
    /\ ready = [r \in Request |-> FALSE]
    /\ reason = [r \in Request |-> "none"]
    /\ told = [r \in Request |-> FALSE]
    /\ active = [e \in Egress |-> None]
    /\ topics = {}
    /\ activeRequests = 0
    /\ pending = {} /\ procStats = {} /\ requests = 0
    /\ shutdown = FALSE /\ killAll = "no" /\ toKill = {} /\ drain = "serving"
    /\ reports = [r \in Request |-> {}]
    /\ panicked = FALSE

\* The service process is up, and the step leaves it up.
Up == ~panicked /\ UNCHANGED panicked

Goto(r, where) == start' = [start EXCEPT ![r] = where]

-----------------------------------------------------------------------------
(* StartEgress *)

\* The call arrives, late calls included: it is counted before it is checked.
StartEgress(r) ==
    /\ Up
    /\ start[r] = "idle"
    /\ drain # "stopped"
    /\ activeRequests' = activeRequests + 1
    /\ Goto(r, "entered")
    /\ UNCHANGED <<create, procVars, killVars, pmVars, monitorVars, downVars, reports>>

\* An early return gives the count back.
Refuse(r) == activeRequests' = activeRequests - 1 /\ Goto(r, "refused")

\* Mutant of CheckDisabled: the early return keeps the count.
BugCheckDisabled(r) ==
    /\ Up
    /\ start[r] = "entered"
    /\ IF shutdown THEN Goto(r, "refused") ELSE Goto(r, "enabled")
    /\ UNCHANGED <<create, procVars, killVars, pmVars, activeRequests, monitorVars,
                   downVars, reports>>

CheckDisabled(r) ==
    /\ Up
    /\ start[r] = "entered"
    /\ IF shutdown THEN Refuse(r) ELSE Goto(r, "enabled") /\ UNCHANGED activeRequests
    /\ UNCHANGED <<create, procVars, killVars, pmVars, monitorVars, downVars, reports>>

AlreadyExists(r) ==
    /\ Up
    /\ start[r] = "enabled"
    /\ IF active[EgressOf[r]] # None
       THEN Refuse(r)
       ELSE Goto(r, "new") /\ UNCHANGED activeRequests
    /\ UNCHANGED <<create, procVars, killVars, pmVars, monitorVars, downVars, reports>>

\* Monitor.AcceptRequest: fits is the CPU, memory and pulse admission check.
AcceptRequest(r, fits) ==
    /\ Up
    /\ start[r] = "new"
    /\ IF fits /\ EgressOf[r] \notin pending
       THEN /\ pending' = pending \cup {EgressOf[r]}
            /\ requests' = requests + 1
            /\ Goto(r, "accepted")
            /\ UNCHANGED activeRequests
       ELSE Refuse(r) /\ UNCHANGED <<pending, requests>>
    /\ UNCHANGED <<create, procVars, killVars, pmVars, procStats, downVars, reports>>

\* Validation fails: Monitor.EgressAborted.
ValidationFails(r) ==
    /\ Up
    /\ start[r] = "accepted"
    /\ pending' = pending \ {EgressOf[r]}
    /\ requests' = requests - 1
    /\ Refuse(r)
    /\ UNCHANGED <<create, procVars, killVars, pmVars, procStats, downVars, reports>>

\* CreateEgress is issued and the launch begins.
CreateEgress(r) ==
    /\ Up
    /\ start[r] = "accepted"
    /\ create' = [create EXCEPT ![r] = "inflight"]
    /\ Goto(r, "launch")
    /\ UNCHANGED <<procVars, killVars, pmVars, activeRequests, monitorVars, downVars,
                   reports>>

CreateReturns(r, ok) ==
    /\ Up
    /\ create[r] = "inflight"
    /\ create' = [create EXCEPT ![r] = IF ok THEN "ok" ELSE "failed"]
    /\ UNCHANGED <<start, procVars, killVars, pmVars, activeRequests, monitorVars,
                   downVars, reports>>

\* Launch, up to the entry in activeHandlers.
LaunchInserts(r) ==
    /\ Up
    /\ start[r] = "launch"
    /\ active' = [active EXCEPT ![EgressOf[r]] = r]
    /\ Goto(r, "register")
    /\ UNCHANGED <<create, procVars, killVars, topics, activeRequests, monitorVars,
                   downVars, reports>>

\* Launch: register the topics and start the process.
LaunchStarts(r) ==
    /\ Up
    /\ start[r] = "register"
    /\ topics' = topics \cup {EgressOf[r]}
    /\ proc' = [proc EXCEPT ![r] = "starting"]
    /\ Goto(r, "waiting")
    /\ UNCHANGED <<create, waiter, exitErr, ready, killVars, active, activeRequests,
                   monitorVars, downVars, reports>>

\* No directory or IPC client; or no topics, or the process does not start.
LaunchFails(r) ==
    /\ Up
    /\ start[r] \in {"launch", "register"}
    /\ Goto(r, "launchFailed")
    /\ topics' \in IF start[r] = "register" THEN {topics, topics \cup {EgressOf[r]}} ELSE {topics}
    /\ UNCHANGED <<create, procVars, killVars, active, activeRequests, monitorVars,
                   downVars, reports>>

\* Mutant of LaunchReady: the cost is dropped instead of moved.
BugLaunchReady(r) ==
    /\ Up
    /\ start[r] = "waiting"
    /\ ready[r]
    /\ Goto(r, "launched")
    /\ waiter' = [waiter EXCEPT ![r] = "waiting"]
    /\ pending' = pending \ {EgressOf[r]}
    /\ UNCHANGED procStats
    /\ UNCHANGED <<create, proc, exitErr, ready, killVars, pmVars, activeRequests,
                   requests, downVars, reports>>

\* The handler is ready: Monitor.UpdatePID, and a goroutine waits for its exit.
LaunchReady(r) ==
    /\ Up
    /\ start[r] = "waiting"
    /\ ready[r]
    /\ Goto(r, "launched")
    /\ waiter' = [waiter EXCEPT ![r] = "waiting"]
    /\ pending' = pending \ {EgressOf[r]}
    /\ procStats' = procStats \cup {r}
    /\ UNCHANGED <<create, proc, exitErr, ready, killVars, pmVars, activeRequests,
                   requests, downVars, reports>>

\* It exited and was never ready.
LaunchExited(r) ==
    /\ Up
    /\ start[r] = "waiting"
    /\ proc[r] = "exited" /\ ~ready[r]
    /\ Goto(r, "launchFailed")
    /\ UNCHANGED <<create, procVars, killVars, pmVars, activeRequests, monitorVars,
                   downVars, reports>>

\* Mutant of LaunchTimeout: the process is left running.
BugLaunchTimeout(r) ==
    /\ Up
    /\ start[r] = "waiting"
    /\ Goto(r, "launchFailed")
    /\ UNCHANGED <<create, procVars, killVars, pmVars, activeRequests, monitorVars,
                   downVars, reports>>

\* launchTimeout: kill the process, wait for its exit and fail, even if it became
\* ready at that moment.
LaunchTimeout(r) ==
    /\ Up
    /\ start[r] = "waiting"
    /\ proc' = [proc EXCEPT ![r] = "exited"]
    /\ exitErr' = [exitErr EXCEPT ![r] = TRUE]
    /\ Goto(r, "launchFailed")
    /\ UNCHANGED <<create, waiter, ready, killVars, pmVars, activeRequests, monitorVars,
                   downVars, reports>>

(***************************************************************************)
(* kill, for the handlers hs: only the first call reaches the handler, by  *)
(* KillEgress or else by SIGINT.  A process that was not started has no    *)
(* cmd.Process to signal.                                                  *)
(***************************************************************************)
KillHandlers(hs) ==
    /\ told' = [r \in Request |-> told[r] \/ r \in hs]
    /\ panicked' = (panicked \/ \E r \in hs : ~told[r] /\ proc[r] = "none")

\* Monitor.EgressEnded, after the FAILED update when there is an error.
EndedInMonitor(r, failed) ==
    /\ reports' = IF failed THEN [reports EXCEPT ![r] = @ \cup {"failed"}] ELSE reports
    /\ pending' = pending \ {EgressOf[r]}
    /\ LET same == {q \in procStats : EgressOf[q] = EgressOf[r]}
       IN  IF same = {} THEN UNCHANGED procStats
           ELSE \E q \in same : procStats' = procStats \ {q}
    /\ requests' = requests - 1

\* ProcessFinished, SessionEnded and the end of the count.
EndedInManager(r) ==
    /\ topics' = topics \ {EgressOf[r]}
    /\ active' = [active EXCEPT ![EgressOf[r]] = None]
    /\ told' = [q \in Request |-> told[q] \/ active[EgressOf[r]] = q]
    /\ activeRequests' = activeRequests - 1

\* The launch failed: processEnded, with an update unless the create failed too.
StartFails(r) ==
    /\ Up
    /\ start[r] = "launchFailed"
    /\ create[r] \in {"ok", "failed"}
    /\ EndedInMonitor(r, create[r] = "ok")
    /\ Goto(r, "ending")
    /\ UNCHANGED <<create, procVars, killVars, pmVars, activeRequests, downVars>>

StartFailed(r) ==
    /\ Up
    /\ start[r] = "ending"
    /\ EndedInManager(r)
    /\ Goto(r, "returned")
    /\ UNCHANGED <<create, procVars, reason, monitorVars, downVars, reports>>

\* The handler runs and the egress is saved.
StartSucceeds(r) ==
    /\ Up
    /\ start[r] = "launched"
    /\ create[r] = "ok"
    /\ Goto(r, "returned")
    /\ UNCHANGED <<create, procVars, killVars, pmVars, activeRequests, monitorVars,
                   downVars, reports>>

\* It runs but is not saved: AbortProcess kills whatever handler has its id.
StartAborts(r) ==
    LET h == active[EgressOf[r]]
    IN  /\ ~panicked
        /\ start[r] = "launched"
        /\ create[r] = "failed"
        /\ Goto(r, "returned")
        /\ reason' = [q \in Request |-> IF q = h THEN "aborted" ELSE reason[q]]
        /\ KillHandlers({h} \ {None})
        /\ UNCHANGED <<create, procVars, pmVars, activeRequests, monitorVars, downVars, reports>>

-----------------------------------------------------------------------------
(* The goroutine that waits for the process *)

ProcessEnded(r) ==
    /\ Up
    /\ waiter[r] = "waiting"
    /\ proc[r] = "exited"
    /\ EndedInMonitor(r, exitErr[r])
    /\ waiter' = [waiter EXCEPT ![r] = "ending"]
    /\ UNCHANGED <<startVars, proc, exitErr, ready, killVars, pmVars, activeRequests,
                   downVars>>

ProcessFinished(r) ==
    /\ Up
    /\ waiter[r] = "ending"
    /\ EndedInManager(r)
    /\ waiter' = [waiter EXCEPT ![r] = "done"]
    /\ UNCHANGED <<startVars, proc, exitErr, ready, reason, monitorVars, downVars,
                   reports>>

-----------------------------------------------------------------------------
(* The handler process *)

Exits(r, failed) ==
    /\ proc' = [proc EXCEPT ![r] = "exited"]
    /\ exitErr' = [exitErr EXCEPT ![r] = failed]

\* HandlerReady: HandlerStarted closes the ready channel of the entry with its id;
\* closing a closed channel panics.
HandlerReady(r) ==
    LET h == active[EgressOf[r]]
    IN  /\ ~panicked
        /\ proc[r] = "starting"
        /\ \/ /\ h = None
              /\ Exits(r, TRUE)
              /\ UNCHANGED <<ready, panicked>>
           \/ /\ h # None
              /\ proc' = [proc EXCEPT ![r] = "running"]
              /\ ready' = [ready EXCEPT ![h] = TRUE]
              /\ panicked' = ready[h]
              /\ UNCHANGED exitErr
        /\ UNCHANGED <<startVars, waiter, killVars, pmVars, activeRequests, monitorVars,
                       downVars, reports>>

\* HandlerFinished with the final status, or silently; then a clean exit.
HandlerFinished(r, silent) ==
    LET h == active[EgressOf[r]]
    IN  /\ Up
        /\ proc[r] = "running"
        /\ Exits(r, FALSE)
        /\ reports' = IF silent THEN reports ELSE [reports EXCEPT ![r] = @ \cup {"final"}]
        /\ reason' = IF silent /\ h # None /\ reason[h] = "none"
                     THEN [reason EXCEPT ![h] = "duplicate"] ELSE reason
        /\ UNCHANGED <<startVars, waiter, ready, told, pmVars, activeRequests, monitorVars,
                       downVars>>

\* The pipeline is not built: HandlerUpdate with FAILED, then a clean exit.  An
\* internal error also shuts the node down.
HandlerUpdateFailed(r, internal) ==
    /\ Up
    /\ proc[r] = "running"
    /\ Exits(r, FALSE)
    /\ reports' = [reports EXCEPT ![r] = @ \cup {"final"}]
    /\ shutdown' = (shutdown \/ internal)
    /\ UNCHANGED <<startVars, waiter, ready, killVars, pmVars, activeRequests, monitorVars,
                   killAll, toKill, drain>>

\* The process crashes.
Crash(r) ==
    /\ Up
    /\ proc[r] \in {"starting", "running"}
    /\ Exits(r, TRUE)
    /\ UNCHANGED <<startVars, waiter, ready, killVars, pmVars, activeRequests, monitorVars,
                   downVars, reports>>

-----------------------------------------------------------------------------
(* Shutdown and the monitor's kills *)

\* Monitor: StopProcess (CPU), the graceful stop; the handler drains by itself.
StopProcess(r) ==
    LET h == active[EgressOf[r]]
    IN  /\ Up
        /\ r \in procStats
        /\ h # None
        /\ reason[h] = "none"
        /\ reason' = [reason EXCEPT ![h] = "stopped"]
        /\ UNCHANGED <<startVars, procVars, told, pmVars, activeRequests, monitorVars,
                       downVars, reports>>

\* Monitor: KillProcess (out of memory, or the CPU stop came to nothing).
KillProcess(r) ==
    LET h == active[EgressOf[r]]
    IN  /\ ~panicked
        /\ r \in procStats
        /\ h # None
        /\ reason' = [reason EXCEPT ![h] = "killed"]
        /\ KillHandlers({h})
        /\ UNCHANGED <<startVars, procVars, pmVars, activeRequests, monitorVars, downVars, reports>>

\* Shutdown(_, kill): break the fuse; KillAll collects the handlers it sees.
Shutdown(kill) ==
    /\ Up
    /\ drain = "serving"
    /\ killAll = "no" /\ (shutdown => kill)
    /\ shutdown' = TRUE
    /\ IF kill
       THEN /\ killAll' = "collected"
            /\ toKill' = {active[e] : e \in Egress} \ {None}
            /\ reason' = [r \in Request |-> IF r \in toKill' THEN "shutdown" ELSE reason[r]]
       ELSE UNCHANGED <<killAll, toKill, reason>>
    /\ UNCHANGED <<startVars, procVars, told, pmVars, activeRequests, monitorVars, drain,
                   reports>>

\* ... and kills them once it gave the lock back.
KillAll ==
    /\ ~panicked
    /\ killAll = "collected"
    /\ killAll' = "done"
    /\ toKill' = {}
    /\ KillHandlers(toKill)
    /\ UNCHANGED <<startVars, procVars, reason, pmVars, activeRequests, monitorVars,
                   shutdown, drain, reports>>

\* Drain: the node is idle; then the RPC servers shut down.
DrainIdle ==
    /\ Up
    /\ shutdown
    /\ drain = "serving"
    /\ activeRequests = 0
    /\ drain' = "idle"
    /\ UNCHANGED <<startVars, procVars, killVars, pmVars, activeRequests, monitorVars,
                   shutdown, killAll, toKill, reports>>

DrainStops ==
    /\ Up
    /\ drain = "idle"
    /\ drain' = "stopped"
    /\ UNCHANGED <<startVars, procVars, killVars, pmVars, activeRequests, monitorVars,
                   shutdown, killAll, toKill, reports>>

\* The service process ended.
Stopped == (drain = "stopped" \/ panicked) /\ UNCHANGED vars

Next ==
    \/ \E r \in Request :
          \/ StartEgress(r) \/ CheckDisabled(r) \/ AlreadyExists(r)
          \/ \E fits \in BOOLEAN : AcceptRequest(r, fits)
          \/ ValidationFails(r) \/ CreateEgress(r)
          \/ \E ok \in BOOLEAN : CreateReturns(r, ok)
          \/ LaunchInserts(r) \/ LaunchStarts(r) \/ LaunchFails(r)
          \/ LaunchReady(r) \/ LaunchExited(r) \/ LaunchTimeout(r)
          \/ StartFails(r) \/ StartFailed(r) \/ StartSucceeds(r) \/ StartAborts(r)
          \/ ProcessEnded(r) \/ ProcessFinished(r)
          \/ HandlerReady(r)
          \/ \E silent \in BOOLEAN : HandlerFinished(r, silent)
          \/ \E internal \in BOOLEAN : HandlerUpdateFailed(r, internal)
          \/ Crash(r)
          \/ StopProcess(r) \/ KillProcess(r)
    \/ \E kill \in BOOLEAN : Shutdown(kill)
    \/ KillAll \/ DrainIdle \/ DrainStops
    \/ Stopped

Spec == Init /\ [][Next]_vars

(***************************************************************************)
(* Fairness.  The goroutines of the service run; CreateEgress answers (its *)
(* RPC has a deadline), launchTimeout bounds the wait for the handler, and *)
(* a handler that was told to end does.  A recording need not end.         *)
(***************************************************************************)
Serves(r) ==
    \/ CheckDisabled(r) \/ AlreadyExists(r) \/ (\E fits \in BOOLEAN : AcceptRequest(r, fits))
    \/ CreateEgress(r) \/ LaunchInserts(r) \/ LaunchStarts(r) \/ LaunchReady(r)
    \/ LaunchExited(r) \/ LaunchTimeout(r) \/ StartFails(r) \/ StartFailed(r)
    \/ StartSucceeds(r) \/ StartAborts(r)

HandlerEnds(r) == \E silent \in BOOLEAN : HandlerFinished(r, silent)

Fairness ==
    /\ \A r \in Request : WF_vars(Serves(r))
    /\ \A r \in Request : WF_vars(\E ok \in BOOLEAN : CreateReturns(r, ok))
    /\ \A r \in Request : WF_vars(ProcessEnded(r) \/ ProcessFinished(r))
    /\ \A r \in Request : WF_vars(told[r] /\ HandlerEnds(r))
    /\ WF_vars(KillAll \/ DrainIdle \/ DrainStops)

FairSpec == Spec /\ Fairness

\* Recordings end by themselves, sooner or later.
RecordingsEnd == \A r \in Request : WF_vars(HandlerEnds(r))

EndingSpec == FairSpec /\ RecordingsEnd

-----------------------------------------------------------------------------
(***************************************************************************)
(* Every variable keeps its type; in particular neither request counter    *)
(* goes below zero.                                                        *)
(***************************************************************************)
TypeOK ==
    /\ start \in [Request -> {"idle", "entered", "enabled", "new", "accepted", "launch",
                              "register", "waiting", "launched", "launchFailed",
                              "ending", "returned", "refused"}]
    /\ create \in [Request -> {"none", "inflight", "ok", "failed"}]
    /\ waiter \in [Request -> {"none", "waiting", "ending", "done"}]
    /\ proc \in [Request -> {"none", "starting", "running", "exited"}]
    /\ exitErr \in [Request -> BOOLEAN] /\ ready \in [Request -> BOOLEAN]
    /\ reason \in [Request -> {"none", "aborted", "killed", "stopped", "shutdown", "duplicate"}]
    /\ told \in [Request -> BOOLEAN]
    /\ active \in [Egress -> Request \cup {None}] /\ topics \subseteq Egress
    /\ activeRequests \in Nat /\ requests \in Nat
    /\ pending \subseteq Egress /\ procStats \subseteq Request
    /\ shutdown \in BOOLEAN /\ killAll \in {"no", "collected", "done"}
    /\ toKill \subseteq Request /\ drain \in {"serving", "idle", "stopped"}
    /\ reports \in [Request -> SUBSET {"failed", "final"}] /\ panicked \in BOOLEAN

\* The call is over: refused, or its processEnded ran to the end.
Over(r) ==
    \/ start[r] \in {"idle", "refused"}
    \/ waiter[r] = "done"
    \/ start[r] = "returned" /\ waiter[r] = "none"

Alive(r) == proc[r] \in {"starting", "running"}

(***************************************************************************)
(* activeRequests counts exactly the calls that are not over, on every     *)
(* path through StartEgress, the launch, the wait and processEnded.  One   *)
(* too many and the node never drains; one too few and it exits under a    *)
(* recording.                                                              *)
(***************************************************************************)
RequestsBalanced == activeRequests = Cardinality({r \in Request : ~Over(r)})

(***************************************************************************)
(* Drain: once the node found itself idle after Shutdown, no handler       *)
(* process, entry, topic or held cost is left and no call can launch one,  *)
(* whatever StartEgress calls were in flight when the fuse broke.  (A call *)
(* whose handler already ended may still wait for CreateEgress.)           *)
(***************************************************************************)
DrainLeavesNothing ==
    drain # "serving" =>
        /\ \A r \in Request :
              /\ ~Alive(r)
              /\ start[r] \in {"idle", "entered", "refused", "launched", "returned"}
        /\ \A e \in Egress : active[e] = None
        /\ topics = {} /\ pending = {} /\ procStats = {} /\ requests = 0

(***************************************************************************)
(* The monitor holds the cost of every accepted egress until it ended:     *)
(* under its id while it starts, under its process afterwards, so that     *)
(* admission never counts it as free.                                      *)
(***************************************************************************)
CostsHeld ==
    \A r \in Request :
        /\ start[r] \in {"accepted", "launch", "register", "waiting", "launchFailed"}
               => EgressOf[r] \in pending
        /\ waiter[r] = "waiting" => r \in procStats

(***************************************************************************)
(* A live handler keeps its entry in activeHandlers: StopEgress, the kills *)
(* and ListActiveEgress find it for as long as its process runs.           *)
(***************************************************************************)
HandlerReachable == \A r \in Request : Alive(r) => active[EgressOf[r]] = r

(***************************************************************************)
(* An egress that was saved and whose handler did not start, or did not    *)
(* end cleanly, is reported failed by the service itself.                  *)
(***************************************************************************)
FailureReported ==
    \A r \in Request :
        (Over(r) /\ create[r] = "ok" /\ (waiter[r] = "none" \/ exitErr[r]))
            => "failed" \in reports[r]

(***************************************************************************)
(* If recordings end, a node that was told to shut down stops.             *)
(***************************************************************************)
DrainCompletes == shutdown ~> (drain = "stopped" \/ panicked)

(***************************************************************************)
(* "egress already exists": a node runs at most one handler per egress id, *)
(* however often it is asked to start it.                                  *)
(***************************************************************************)
OneHandlerPerEgress ==
    \A r, q \in Request : Alive(r) /\ Alive(q) /\ EgressOf[r] = EgressOf[q] => r = q

(***************************************************************************)
(* SIGINT, "stopping recording and shutting down": the node stops without  *)
(* waiting for recordings to end by themselves.                            *)
(***************************************************************************)
KillAllStops == (killAll = "done") ~> (drain = "stopped" \/ panicked)

(***************************************************************************)
(* SIGINT never crashes the service: KillAll finds no handler whose        *)
(* process was not started.                                                *)
(***************************************************************************)
KillFindsProcess == ~panicked

(***************************************************************************)
(* The service's books agree with what runs: its requests, the costs the   *)
(* monitor holds and, once drained, everything it keeps per handler        *)
(* (StartEgress, launchProcess, processEnded, Drain).                      *)
(***************************************************************************)
Accounted == TypeOK /\ RequestsBalanced /\ CostsHeld /\ DrainLeavesNothing

(***************************************************************************)
(* No handler escapes: while it lives it can be reached, and if it failed  *)
(* that is reported (Launch, launchProcess).                               *)
(***************************************************************************)
HandlersKnown == HandlerReachable /\ FailureReported
=============================================================================
