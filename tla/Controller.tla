------------------------------ MODULE Controller ------------------------------
(***************************************************************************)
(* One egress inside its handler process: Handler.Run, the pipeline        *)
(* Controller (pkg/pipeline/controller.go, watch.go) and the GStreamer     *)
(* pipeline it drives (pkg/gstreamer/pipeline.go, state.go).  The module   *)
(* starts when the pipeline is built and Controller.Run is called.         *)
(*                                                                         *)
(* Goroutines: Run, which also dispatches bus messages while it is in the  *)
(* GLib main loop; the one body of SendEOS (eosSent.Once); the winner of   *)
(* Pipeline.Stop; watchEndRecording; the limit, EOS and preroll timers;    *)
(* the output size monitor; and the RPC and error callbacks.               *)
(*                                                                         *)
(* Info.Status is a plain field that all of them read and write without a  *)
(* lock.  A goroutine that reads it, or a fuse, to decide what to write    *)
(* does the one and the other in two steps: the value that was read is in  *)
(* the place where the goroutine stands between them.                      *)
(***************************************************************************)
EXTENDS Naturals

CONSTANT
    Configs      \* the pipeline configurations to start from

\* live: c.Live; finalize: FinalizationRequired (a file, segments or images
\* output); trackOnly: video-only track or track composite; limits: the session
\* and storage limits that are configured; events (bound): which of a stop, a kill, an
\* error on the bus and an error outside it are explored.
Config == [live : BOOLEAN, finalize : BOOLEAN, trackOnly : BOOLEAN,
           limits : SUBSET {"session", "storage"},
           events : SUBSET {"stop", "kill", "bus", "error"}]

ASSUME ConfigsAssumption == Configs \subseteq Config

\* Who calls OnError: a bus message, the EOS timer, a callback.
Reporters == {"bus", "timer", "callback"}

Final == {"aborted", "failed", "complete", "limit"}
Statuses == {"starting", "active", "ending"} \cup Final

\* gstreamer.State
StateStarted == 1
StateRunning == 2
StateEOS == 3
StateStopping == 4
StateFinished == 5

VARIABLES
    conf,        \* the configuration
    status,      \* Info.Status
    run,         \* where Controller.Run is; "fails", "aborts", "ends": it is about to
                 \* write the status it chose in the sinks' or in Close's check
    srcEnd,      \* how the source ended: "no", "clean", "retryable", "duplicate"
    srcOpen,     \* src.Close was not called yet
    playing,     \* the fuse; "starts" and "body" while its Once body runs: "starts"
                 \* when updateStartTime read STARTING and ACTIVE is due
    eosSent,     \* the fuse; "body" while the body of SendEOS runs
    sender,      \* where the body of SendEOS is
    probes,      \* AddEOSProbe was called on the sinks
    eosTimer,    \* "off", "armed", "frozen" (its function calls OnError)
    eosGo,       \* the goroutine that calls Pipeline.SendEOS is due
    eosFlow,     \* an EOS event travels through the pipeline
    atSinks,     \* it reached the sinks
    sinkEOS,     \* a sink's probe saw it (Sink.EOSReceived)
    eosReceived, \* the fuse broken by the bus EOS message
    watch,       \* the bus watch is attached
    pstate,      \* the state of the StateManager
    stopReq,     \* a goroutine started to call Pipeline.Stop is due
    stopper,     \* where the one effective Pipeline.Stop is
    stopOld,     \* the state it upgraded from
    stopped,     \* the fuse broken by OnStop
    loop,        \* is_running of the GMainLoop
    failing,     \* the callers of OnError that passed its check: SetFailed is due
    limitTimer,  \* "off", "armed", or where its function is
    sizeMonitor, \* "off", "on", "walking" (inside getOutputDirStats), "over", "ends"
    watcher,     \* where watchEndRecording is
    kill,        \* where KillEgress is
    uploads,     \* uploads are enabled on the sinks
    sinksClosed, \* the sinks were closed, without error
    result,      \* the status reported by HandlerFinished
    cause,       \* history: what ended the egress besides its source: "none",
                 \* "other", "cut" (the limit timer stopped it unfinished)
    marked,      \* history: SetFailed or SetLimitReached was called
    lost         \* history: who wrote over a status other than the one it had read:
                 \* "eos" (SendEOS), "start" (updateStartTime), "close" (Close)

runVars == <<conf, run, srcOpen, uploads, sinksClosed, result>>
srcVars == <<srcEnd, watcher>>
eosVars == <<eosSent, sender, probes, eosTimer, eosGo>>
busVars == <<playing, eosFlow, atSinks, sinkEOS, eosReceived, watch>>
stopVars == <<pstate, stopper, stopOld>>
loopVars == <<stopReq, stopped, loop, failing>>
limitVars == <<limitTimer, sizeMonitor>>
statusVars == <<status, marked, lost>>
vars == <<runVars, srcVars, eosVars, busVars, stopVars, loopVars, limitVars,
          statusVars, kill, cause>>

Init ==
    /\ conf \in Configs
    /\ status = "starting" /\ run = "gate"
    /\ srcEnd = "no" /\ srcOpen = TRUE /\ watcher = "source"
    /\ playing = "open" /\ eosSent = "open" /\ sender = "idle"
    /\ probes = FALSE /\ eosTimer = "off" /\ eosGo = FALSE
    /\ eosFlow = FALSE /\ atSinks = FALSE /\ sinkEOS = FALSE /\ eosReceived = FALSE
    /\ watch = TRUE
    /\ pstate = StateStarted /\ stopper = "idle" /\ stopOld = StateStarted
    /\ stopReq = FALSE /\ stopped = FALSE /\ loop = FALSE /\ failing = {}
    /\ limitTimer = (IF "session" \in conf.limits THEN "armed" ELSE "off") /\ sizeMonitor = "off"
    /\ kill = "no" /\ uploads = TRUE /\ sinksClosed = FALSE /\ result = "none"
    /\ cause = "none" /\ marked = FALSE /\ lost = {}

-----------------------------------------------------------------------------
SetStatus(s) ==
    /\ status' = s
    /\ marked' = (marked \/ s \in {"failed", "limit"})
    /\ UNCHANGED lost

\* who writes s because it had read one of the statuses in old.
SetStatusRead(who, old, s) ==
    /\ status' = s
    /\ marked' = (marked \/ s \in {"failed", "limit"})
    /\ lost' = IF status \in old THEN lost ELSE lost \cup {who}

IsDuplicateIdentity == srcEnd = "duplicate"

\* Something other than the source asks the egress to end.
Asked == IF cause = "none" THEN "other" ELSE cause

\* Pipeline.Stop up to OnStop: only the first caller gets past UpgradeState.
Stop ==
    IF pstate < StateStopping
    THEN pstate' = StateStopping /\ stopOld' = pstate /\ stopper' = "onStop"
    ELSE UNCHANGED stopVars

\* A caller of SendEOS enters the body if nobody did.  Timer.Stop does not stop
\* a limit timer whose function already started.
BeginEOS ==
    IF eosSent = "open"
    THEN /\ eosSent' = "body" /\ sender' = "switch"
         /\ limitTimer' \in {limitTimer, IF limitTimer = "armed" THEN "off" ELSE limitTimer}
         /\ UNCHANGED <<probes, eosTimer, eosGo>>
    ELSE UNCHANGED <<eosVars, limitTimer>>

(***************************************************************************)
(* OnError, up to its check.  Once the EOS was sent, an error of an egress *)
(* that needs no finalization is ignored.  The pipeline is stopped from a  *)
(* new goroutine, after SetFailed where that is due.                       *)
(***************************************************************************)
OnError(who) ==
    IF status # "failed" /\ (eosSent # "broken" \/ conf.finalize)
    THEN failing' = failing \cup {who} /\ UNCHANGED stopReq
    ELSE stopReq' = TRUE /\ UNCHANGED failing

OnErrorFails(who) ==
    /\ who \in failing
    /\ failing' = failing \ {who}
    /\ SetStatus("failed")
    /\ stopReq' = TRUE
    /\ UNCHANGED <<runVars, srcVars, eosVars, busVars, stopVars, stopped, loop, limitVars,
                   kill, cause>>

-----------------------------------------------------------------------------
(* Controller.Run *)

\* The room is ready and the replay start time is reached.
GateOpens ==
    /\ run = "gate"
    /\ run' = "sinks"
    /\ UNCHANGED <<conf, srcOpen, uploads, sinksClosed, result, srcVars, eosVars,
                   busVars, stopVars, loopVars, limitVars, statusVars, kill, cause>>

\* The pipeline was stopped while Run waited for the start signal.
GateStopped ==
    /\ run = "gate"
    /\ stopped
    /\ run' = "close" /\ srcOpen' = FALSE
    /\ SetStatus("aborted")
    /\ UNCHANGED <<conf, uploads, sinksClosed, result, srcVars, eosVars, busVars,
                   stopVars, loopVars, limitVars, kill, cause>>

\* Start the sinks and the output size monitor.
SinksStart ==
    /\ run = "sinks"
    /\ run' = "setPlaying"
    /\ sizeMonitor' = IF "storage" \in conf.limits /\ conf.finalize THEN "on" ELSE "off"
    /\ UNCHANGED <<conf, srcOpen, uploads, sinksClosed, result, srcVars, eosVars,
                   busVars, stopVars, loopVars, limitTimer, statusVars, kill, cause>>

\* A sink does not start, or the pipeline does not go to PLAYING.
StartFails ==
    /\ run \in {"sinks", "setPlaying"}
    /\ run' = "close" /\ srcOpen' = FALSE
    /\ SetStatus("failed")
    /\ stopReq' = TRUE
    /\ cause' = Asked
    /\ UNCHANGED <<conf, uploads, sinksClosed, result, srcVars, eosVars, busVars,
                   stopVars, stopped, loop, failing, limitVars, kill>>

\* Pipeline.Run: SetState(PLAYING) returned; run the loop unless already stopping.
PlayingRequested ==
    /\ run = "setPlaying"
    /\ IF pstate < StateRunning
       THEN run' = "beforeLoop" /\ pstate' = StateRunning
       ELSE run' = "ended" /\ UNCHANGED pstate
    /\ UNCHANGED <<conf, srcOpen, uploads, sinksClosed, result, srcVars, eosVars,
                   busVars, stopper, stopOld, loopVars, limitVars, statusVars, kill, cause>>

\* g_main_loop_run sets is_running, whatever g_main_loop_quit did before it.
EnterLoop ==
    /\ run = "beforeLoop"
    /\ run' = "loop" /\ loop' = TRUE
    /\ UNCHANGED <<conf, srcOpen, uploads, sinksClosed, result, srcVars, eosVars,
                   busVars, stopVars, stopReq, stopped, failing, limitVars, statusVars, kill, cause>>

\* The callback of messageWatch that is running on this thread.
Busy == playing \in {"starts", "body"} \/ "bus" \in failing

LeaveLoop ==
    /\ run = "loop"
    /\ ~loop
    /\ ~Busy
    /\ run' = "ended"
    /\ UNCHANGED <<conf, srcOpen, uploads, sinksClosed, result, srcVars, eosVars,
                   busVars, stopVars, loopVars, limitVars, statusVars, kill, cause>>

\* Mutant of CloseSource: an evicted egress still uploads.
BugCloseSource ==
    /\ run = "ended"
    /\ srcOpen' = FALSE
    /\ run' = IF playing = "broken" THEN "closing" ELSE "close"
    /\ UNCHANGED <<conf, uploads, sinksClosed, result, srcVars, eosVars, busVars, stopVars,
                   loopVars, limitVars, statusVars, kill, cause>>

\* Close the source; an egress evicted by a duplicate does not upload.
CloseSource ==
    /\ run = "ended"
    /\ srcOpen' = FALSE
    /\ uploads' = ~IsDuplicateIdentity
    /\ run' = IF playing = "broken" THEN "closing" ELSE "close"
    /\ UNCHANGED <<conf, sinksClosed, result, srcVars, eosVars, busVars, stopVars,
                   loopVars, limitVars, statusVars, kill, cause>>

\* Mutant of CloseSinks: a sink that fails to close is only logged.
BugCloseSinks(ok) ==
    /\ run = "closing"
    /\ run' = "close"
    /\ sinksClosed' = IF eosReceived \/ sinkEOS THEN ok ELSE sinksClosed
    /\ UNCHANGED <<conf, srcOpen, uploads, result, srcVars, eosVars, busVars,
                   stopVars, loopVars, limitVars, statusVars, kill, cause>>

\* Close the sinks the EOS reached: finish the files and upload them.
CloseSinks(ok) ==
    /\ run = "closing"
    /\ IF eosReceived \/ sinkEOS
       THEN sinksClosed' = ok /\ run' = IF ok \/ status = "failed" THEN "close" ELSE "fails"
       ELSE run' = "close" /\ UNCHANGED sinksClosed
    /\ UNCHANGED <<conf, srcOpen, uploads, result, srcVars, eosVars, busVars,
                   stopVars, loopVars, limitVars, statusVars, kill, cause>>

CloseSinksFails ==
    /\ run = "fails"
    /\ run' = "close"
    /\ SetStatus("failed")
    /\ UNCHANGED <<conf, srcOpen, uploads, sinksClosed, result, srcVars, eosVars, busVars,
                   stopVars, loopVars, limitVars, kill, cause>>

\* Controller.Close, deferred by Run, reads the status ...
Close ==
    /\ run = "close"
    /\ run' = CASE status = "starting" -> "aborts"
                 [] status \in {"active", "ending"} -> "ends"
                 [] OTHER -> "finish"
    /\ sizeMonitor' = IF sizeMonitor = "on" THEN "off" ELSE sizeMonitor
    /\ UNCHANGED <<conf, srcOpen, uploads, sinksClosed, result, srcVars, eosVars,
                   busVars, stopVars, loopVars, limitTimer, statusVars, kill, cause>>

\* ... and leaves the egress in a final state.
CloseSets ==
    /\ \/ run = "aborts" /\ SetStatusRead("close", {"starting"}, "aborted")
       \/ /\ run = "ends"
          /\ SetStatusRead("close", {"active", "ending"},
                           IF srcEnd = "retryable" THEN "failed" ELSE "complete")
    /\ run' = "finish"
    /\ UNCHANGED <<conf, srcOpen, uploads, sinksClosed, result, srcVars, eosVars,
                   busVars, stopVars, loopVars, limitVars, kill, cause>>

\* Handler.Run reports the result, unless another egress owns the session.
HandlerFinished ==
    /\ run = "finish"
    /\ run' = "done"
    /\ result' = IF IsDuplicateIdentity THEN "silent" ELSE status
    /\ UNCHANGED <<conf, srcOpen, uploads, sinksClosed, srcVars, eosVars, busVars,
                   stopVars, loopVars, limitVars, statusVars, kill, cause>>

-----------------------------------------------------------------------------
(* messageWatch, dispatched by the main loop *)

Dispatching == run = "loop" /\ loop /\ watch /\ ~Busy

\* The pipeline reached PLAYING: updateStartTime, in the body of playing.Once ...
MessagePlaying ==
    /\ Dispatching
    /\ playing = "open"
    /\ playing' = IF status = "starting" THEN "starts" ELSE "body"
    /\ UNCHANGED <<runVars, srcVars, eosVars, eosFlow, atSinks, sinkEOS, eosReceived,
                   watch, stopVars, loopVars, limitVars, statusVars, kill, cause>>

\* ... makes an egress that was STARTING active.
PlayingSets ==
    /\ playing = "starts"
    /\ playing' = "body"
    /\ SetStatusRead("start", {"starting"}, "active")
    /\ UNCHANGED <<runVars, srcVars, eosVars, eosFlow, atSinks, sinkEOS, eosReceived,
                   watch, stopVars, loopVars, limitVars, kill, cause>>

PlayingReleased ==
    /\ playing = "body"
    /\ playing' = "broken"
    /\ UNCHANGED <<runVars, srcVars, eosVars, eosFlow, atSinks, sinkEOS, eosReceived,
                   watch, stopVars, loopVars, limitVars, statusVars, kill, cause>>

\* Every sink posted EOS: stop the EOS timer and the pipeline.  GStreamer posts
\* the EOS of a bin only once it posted that the bin is PLAYING.
MessageEOS ==
    /\ Dispatching
    /\ atSinks /\ playing = "broken"
    /\ watch' = FALSE
    /\ eosTimer' = IF eosTimer = "armed" THEN "off" ELSE eosTimer
    /\ eosReceived' = TRUE
    /\ Stop
    /\ UNCHANGED <<runVars, srcVars, eosSent, sender, probes, eosGo, playing,
                   eosFlow, atSinks, sinkEOS, loopVars, limitVars, statusVars, kill, cause>>

\* A warning, error or element message whose handler returns an error.
MessageError ==
    /\ "bus" \in conf.events
    /\ Dispatching
    /\ watch' = FALSE
    /\ OnError("bus")
    /\ cause' = Asked
    /\ UNCHANGED <<runVars, srcVars, eosVars, playing, eosFlow, atSinks, sinkEOS,
                   eosReceived, stopVars, stopped, loop, limitVars, statusVars, kill>>

\* The EOS event reaches the sinks; a probe sees it only if it was added before.
EOSArrives ==
    /\ eosFlow /\ ~atSinks
    /\ pstate >= StateRunning /\ stopper # "done"
    /\ atSinks' = TRUE
    /\ sinkEOS' = probes
    /\ UNCHANGED <<runVars, srcVars, eosVars, playing, eosFlow, eosReceived, watch,
                   stopVars, loopVars, limitVars, statusVars, kill, cause>>

-----------------------------------------------------------------------------
(* The body of SendEOS *)

\* What the body of SendEOS does next when it reads the status s.
Switch(s) ==
    CASE s = "starting" -> "aborts"
      [] s \in {"aborted", "failed"} -> "stops"
      [] s = "active" -> "drains"
      [] s \in {"ending", "limit"} -> "check"
      [] s = "complete" -> "release"

SenderReads ==
    /\ sender = "switch"
    /\ sender' = Switch(status)
    /\ UNCHANGED <<eosSent, probes, eosTimer, eosGo, runVars, srcVars, busVars, stopVars,
                   loopVars, limitVars, statusVars, kill, cause>>

SenderSets ==
    /\ \/ sender = "aborts" /\ sender' = "stops" /\ SetStatusRead("eos", {"starting"}, "aborted")
       \/ sender = "drains" /\ sender' = "check" /\ SetStatusRead("eos", {"active"}, "ending")
    /\ UNCHANGED <<eosSent, probes, eosTimer, eosGo, runVars, srcVars, busVars, stopVars,
                   loopVars, limitVars, kill, cause>>

\* Stop is synchronous: the winner waits for it.
SenderStops ==
    /\ sender = "stops"
    /\ sender' = IF pstate < StateStopping THEN "stopping" ELSE "release"
    /\ Stop
    /\ UNCHANGED <<eosSent, probes, eosTimer, eosGo, runVars, srcVars, busVars,
                   loopVars, limitVars, statusVars, kill, cause>>

\* sendEOS does nothing when the bus EOS already arrived.
SenderChecks ==
    /\ sender = "check"
    /\ sender' = IF eosReceived THEN "release" ELSE "arm"
    /\ UNCHANGED <<eosSent, probes, eosTimer, eosGo, runVars, srcVars, busVars,
                   stopVars, loopVars, limitVars, statusVars, kill, cause>>

\* Otherwise it adds the probes, arms the timer and sends the EOS.
SenderArms ==
    /\ sender = "arm"
    /\ sender' = "release"
    /\ probes' = TRUE /\ eosTimer' = "armed" /\ eosGo' = TRUE
    /\ UNCHANGED <<eosSent, runVars, srcVars, busVars, stopVars, loopVars,
                   limitVars, statusVars, kill, cause>>

SenderReleases ==
    /\ \/ sender = "release"
       \/ sender = "stopping" /\ stopper = "done"
    /\ sender' = "idle" /\ eosSent' = "broken"
    /\ UNCHANGED <<probes, eosTimer, eosGo, runVars, srcVars, busVars, stopVars,
                   loopVars, limitVars, statusVars, kill, cause>>

\* Pipeline.SendEOS: push the EOS, or stop a pipeline that does not run.
PipelineSendEOS ==
    /\ eosGo
    /\ eosGo' = FALSE
    /\ \/ pstate >= StateEOS /\ UNCHANGED <<stopVars, eosFlow>>
       \/ /\ pstate = StateRunning
          /\ pstate' = StateEOS /\ eosFlow' = TRUE
          /\ UNCHANGED <<stopper, stopOld>>
       \/ /\ pstate < StateRunning
          /\ pstate' = StateStopping /\ stopOld' = StateEOS /\ stopper' = "onStop"
          /\ UNCHANGED eosFlow
    /\ UNCHANGED <<eosSent, sender, probes, eosTimer, runVars, srcVars, playing,
                   atSinks, sinkEOS, eosReceived, watch, loopVars, limitVars,
                   statusVars, kill, cause>>

\* No EOS within eosTimeout: an output that must be finalized is lost ...
EOSTimerFires ==
    /\ eosTimer = "armed"
    /\ IF conf.finalize /\ ~eosReceived /\ ~sinkEOS
       THEN eosTimer' = "frozen" /\ UNCHANGED stopVars
       ELSE eosTimer' = "off" /\ Stop
    /\ UNCHANGED <<eosSent, sender, probes, eosGo, runVars, srcVars, busVars,
                   loopVars, limitVars, statusVars, kill, cause>>

\* ... and OnError is called, whatever arrived in between.
EOSTimerReports ==
    /\ eosTimer = "frozen"
    /\ eosTimer' = "off"
    /\ OnError("timer")
    /\ UNCHANGED <<eosSent, sender, probes, eosGo, runVars, srcVars, busVars, stopVars,
                   stopped, loop, limitVars, statusVars, kill, cause>>

-----------------------------------------------------------------------------
(* Pipeline.Stop *)

\* A goroutine started by "go c.p.Stop()" runs.
StopRuns ==
    /\ stopReq
    /\ stopReq' = FALSE
    /\ Stop
    /\ UNCHANGED <<runVars, srcVars, eosVars, busVars, stopped, loop, failing, limitVars,
                   statusVars, kill, cause>>

\* OnStop breaks the stopped fuse and cancels the size monitor.
StopCallbacks ==
    /\ stopper = "onStop"
    /\ stopper' = "setNull"
    /\ stopped' = TRUE
    /\ sizeMonitor' = IF sizeMonitor = "on" THEN "off" ELSE sizeMonitor
    /\ UNCHANGED <<pstate, stopOld, stopReq, loop, failing, limitTimer, runVars, srcVars, eosVars,
                   busVars, statusVars, kill, cause>>

\* Mutant of StopPipeline: a draining pipeline is not counted as running.
BugStopPipeline ==
    /\ stopper = "setNull"
    /\ stopper' = "done" /\ pstate' = StateFinished
    /\ loop' = IF stopOld = StateRunning THEN FALSE ELSE loop
    /\ UNCHANGED <<stopOld, stopReq, stopped, failing, runVars, srcVars, eosVars, busVars,
                   limitVars, statusVars, kill, cause>>

\* SetState(NULL), before or after Run's SetState(PLAYING); then quit the loop.
StopPipeline ==
    /\ stopper = "setNull"
    /\ stopper' = "done" /\ pstate' = StateFinished
    /\ loop' = IF stopOld >= StateRunning THEN FALSE ELSE loop
    /\ stopOld' = StateStarted   \* a local variable that is not used again
    /\ UNCHANGED <<stopReq, stopped, failing, runVars, srcVars, eosVars, busVars,
                   limitVars, statusVars, kill, cause>>

-----------------------------------------------------------------------------
(* The source and the goroutines that end the egress *)

\* EndRecording closes; the last writer may have pushed EOS by itself.
SourceEnds(how, pushed) ==
    /\ srcEnd = "no" /\ srcOpen
    /\ srcEnd' = how
    /\ eosFlow' = (eosFlow \/ pushed)
    /\ UNCHANGED <<watcher, runVars, eosVars, playing, atSinks, sinkEOS, eosReceived,
                   watch, stopVars, loopVars, limitVars, statusVars, kill, cause>>

\* onEOSSent: a video-only track ended, the EOS may already be on its way.
OnEOSSent ==
    /\ conf.trackOnly /\ eosFlow
    /\ conf.live \/ playing = "broken"
    /\ eosSent = "open"
    /\ BeginEOS
    /\ UNCHANGED <<sizeMonitor, runVars, srcVars, busVars, stopVars, loopVars,
                   statusVars, kill, cause>>

\* watchEndRecording: a live source ends the egress at once.
WatchSource ==
    /\ watcher = "source"
    /\ srcEnd # "no"
    /\ IF conf.live
       THEN watcher' = "done" /\ BeginEOS
       ELSE watcher' = "preroll" /\ UNCHANGED <<eosVars, limitTimer>>
    /\ UNCHANGED <<srcEnd, sizeMonitor, runVars, busVars, stopVars, loopVars, statusVars, kill, cause>>

\* Mutant of WatchPreroll: without the preroll timeout.
BugWatchPreroll ==
    /\ watcher = "preroll"
    /\ watcher' = "done"
    /\ \/ playing = "broken" /\ BeginEOS
       \/ stopped /\ UNCHANGED <<eosVars, limitTimer>>
    /\ UNCHANGED <<srcEnd, sizeMonitor, runVars, busVars, stopVars, loopVars, statusVars,
                   kill, cause>>

\* A replay waits for PLAYING, or gives up when stopped or after prerollTimeout.
WatchPreroll ==
    /\ watcher = "preroll"
    /\ watcher' = "done"
    /\ \/ playing = "broken" /\ BeginEOS /\ UNCHANGED cause
       \/ stopped /\ UNCHANGED <<eosVars, limitTimer, cause>>
       \/ playing # "broken" /\ ~stopped /\ BeginEOS /\ cause' = Asked
    /\ UNCHANGED <<srcEnd, sizeMonitor, runVars, busVars, stopVars, loopVars, statusVars, kill>>

\* StopEgress, StopHandler, Handler.Kill, and UpdateStream removing the last output.
StopRequested ==
    /\ "stop" \in conf.events
    /\ eosSent = "open"
    /\ run # "done"
    /\ BeginEOS
    /\ cause' = Asked
    /\ UNCHANGED <<sizeMonitor, runVars, srcVars, busVars, stopVars, loopVars, statusVars, kill>>

\* KillEgress sends the EOS and, once SendEOS returned, marks the egress failed.
KillEgress ==
    /\ "kill" \in conf.events /\ kill = "no"
    /\ run # "done"
    /\ kill' = "marks"
    /\ BeginEOS
    /\ cause' = Asked
    /\ UNCHANGED <<sizeMonitor, runVars, srcVars, busVars, stopVars, loopVars, statusVars>>

KillMarksFailed ==
    /\ kill = "marks"
    /\ eosSent = "broken"
    /\ kill' = "done"
    /\ SetStatus("failed")
    /\ UNCHANGED <<runVars, srcVars, eosVars, busVars, stopVars, loopVars, limitVars, cause>>

\* An error reported by the source, a bin or a sink (callbacks.OnError).
CallbackError ==
    /\ "error" \in conf.events
    /\ run # "done"
    /\ ~stopReq /\ failing = {}
    /\ OnError("callback")
    /\ cause' = Asked
    /\ UNCHANGED <<runVars, srcVars, eosVars, busVars, stopVars, stopped, loop, limitVars,
                   statusVars, kill>>

\* The session limit timer reads the status, ...
LimitFires ==
    /\ limitTimer = "armed"
    /\ limitTimer' = CASE status = "starting" -> "aborts"
                        [] status = "active" -> "limits"
                        [] OTHER -> "ends"
    /\ cause' = Asked
    /\ UNCHANGED <<sizeMonitor, runVars, srcVars, eosVars, busVars, stopVars, loopVars,
                   statusVars, kill>>

\* ... writes the one it chose, over whatever is there now, ...
LimitSets ==
    /\ \/ limitTimer = "aborts" /\ SetStatus("aborted")
       \/ limitTimer = "limits" /\ SetStatus("limit")
    /\ limitTimer' = "ends"
    /\ UNCHANGED <<sizeMonitor, runVars, srcVars, eosVars, busVars, stopVars, loopVars,
                   kill, cause>>

\* ... and sends the EOS, or cuts off an egress that was not playing yet.
LimitEnds ==
    /\ limitTimer = "ends"
    /\ IF playing = "broken"
       THEN /\ limitTimer' = "off"
            /\ IF eosSent = "open" THEN eosSent' = "body" /\ sender' = "switch"
                                   ELSE UNCHANGED <<eosSent, sender>>
            /\ UNCHANGED cause
       ELSE limitTimer' = "stops" /\ cause' = "cut" /\ UNCHANGED <<eosSent, sender>>
    /\ UNCHANGED <<probes, eosTimer, eosGo, sizeMonitor, runVars, srcVars, busVars, stopVars,
                   loopVars, statusVars, kill>>

LimitStops ==
    /\ limitTimer = "stops"
    /\ limitTimer' = "off"
    /\ Stop
    /\ UNCHANGED <<sizeMonitor, runVars, srcVars, eosVars, busVars, loopVars, statusVars,
                   kill, cause>>

\* The size monitor ticks and walks the output directory ...
SizeMonitorTicks ==
    /\ sizeMonitor = "on"
    /\ sizeMonitor' = "walking"
    /\ UNCHANGED <<limitTimer, runVars, srcVars, eosVars, busVars, stopVars, loopVars,
                   statusVars, kill, cause>>

\* ... and finds it below or over the limit.
SizeMonitorFinds(over) ==
    /\ sizeMonitor = "walking"
    /\ sizeMonitor' = CASE over -> "over"
                         [] ~over /\ (stopped \/ run \in {"aborts", "ends", "finish", "done"}) -> "off"
                         [] OTHER -> "on"
    /\ cause' = IF over THEN Asked ELSE cause
    /\ UNCHANGED <<limitTimer, runVars, srcVars, eosVars, busVars, stopVars, loopVars,
                   statusVars, kill>>

\* onStorageLimitReached marks the egress ...
StorageLimitSets ==
    /\ sizeMonitor = "over"
    /\ sizeMonitor' = "ends"
    /\ SetStatus("limit")
    /\ UNCHANGED <<limitTimer, runVars, srcVars, eosVars, busVars, stopVars, loopVars,
                   kill, cause>>

\* ... and ends it.
StorageLimitEnds ==
    /\ sizeMonitor = "ends"
    /\ sizeMonitor' = "off"
    /\ BeginEOS
    /\ UNCHANGED <<runVars, srcVars, busVars, stopVars, loopVars, statusVars, kill, cause>>

-----------------------------------------------------------------------------
\* The handler process exits once HandlerFinished returned.
Exited == run = "done" /\ UNCHANGED vars

\* The loop was entered after the stop had quit it: nothing will quit it again.
Hangs == run = "loop" /\ loop /\ stopper = "done" /\ UNCHANGED vars

Next ==
    \/ GateOpens \/ GateStopped \/ SinksStart \/ StartFails \/ PlayingRequested
    \/ EnterLoop \/ LeaveLoop \/ CloseSource
    \/ \E ok \in BOOLEAN : CloseSinks(ok)
    \/ CloseSinksFails \/ Close \/ CloseSets \/ HandlerFinished
    \/ MessagePlaying \/ PlayingSets \/ PlayingReleased \/ MessageEOS \/ MessageError
    \/ EOSArrives
    \/ SenderReads \/ SenderSets \/ SenderStops \/ SenderChecks \/ SenderArms
    \/ SenderReleases
    \/ PipelineSendEOS \/ EOSTimerFires \/ EOSTimerReports
    \/ \E who \in Reporters : OnErrorFails(who)
    \/ StopRuns \/ StopCallbacks \/ StopPipeline
    \/ \E how \in {"clean", "retryable", "duplicate"}, pushed \in BOOLEAN : SourceEnds(how, pushed)
    \/ OnEOSSent \/ WatchSource \/ WatchPreroll
    \/ StopRequested \/ KillEgress \/ KillMarksFailed \/ CallbackError
    \/ LimitFires \/ LimitSets \/ LimitEnds \/ LimitStops
    \/ SizeMonitorTicks
    \/ \E over \in BOOLEAN : SizeMonitorFinds(over)
    \/ StorageLimitSets \/ StorageLimitEnds
    \/ Exited \/ Hangs

Spec == Init /\ [][Next]_vars

(***************************************************************************)
(* Fairness.  A goroutine that can run does: Run, the body of SendEOS, the *)
(* stopper and the goroutines they start.  SetState is bounded by          *)
(* stateChangeTimeout and Sink.Start and Sink.Close return.  The EOS timer *)
(* fires unless it is stopped and the preroll timer fires.  Nothing is     *)
(* assumed of the room, of the media or of whoever may stop the egress.    *)
(***************************************************************************)
RunStep ==
    \/ GateStopped \/ SinksStart \/ StartFails \/ PlayingRequested \/ EnterLoop
    \/ LeaveLoop \/ CloseSource \/ (\E ok \in BOOLEAN : CloseSinks(ok))
    \/ CloseSinksFails \/ Close \/ CloseSets \/ HandlerFinished

BusStep == PlayingSets \/ PlayingReleased \/ OnErrorFails("bus")

SenderStep ==
    \/ SenderReads \/ SenderSets \/ SenderStops \/ SenderChecks \/ SenderArms
    \/ SenderReleases

TimerStep == EOSTimerFires \/ EOSTimerReports \/ OnErrorFails("timer")

Fairness ==
    /\ WF_vars(RunStep) /\ WF_vars(BusStep)
    /\ WF_vars(SenderStep) /\ WF_vars(PipelineSendEOS) /\ WF_vars(TimerStep)
    /\ WF_vars(StopRuns) /\ WF_vars(StopCallbacks) /\ WF_vars(StopPipeline)
    /\ WF_vars(WatchSource) /\ WF_vars(WatchPreroll)

FairSpec == Spec /\ Fairness

-----------------------------------------------------------------------------
(***************************************************************************)
(* Every variable keeps its type; in particular the StateManager never     *)
(* leaves the states of gstreamer.State.                                   *)
(***************************************************************************)
TypeOK ==
    /\ conf \in Configs /\ status \in Statuses
    /\ run \in {"gate", "sinks", "setPlaying", "beforeLoop", "loop", "ended", "closing",
                "fails", "close", "aborts", "ends", "finish", "done"}
    /\ srcEnd \in {"no", "clean", "retryable", "duplicate"}
    /\ watcher \in {"source", "preroll", "done"}
    /\ playing \in {"open", "starts", "body", "broken"}
    /\ eosSent \in {"open", "body", "broken"}
    /\ sender \in {"idle", "switch", "aborts", "stops", "drains", "stopping", "check", "arm",
                   "release"}
    /\ eosTimer \in {"off", "armed", "frozen"}
    /\ limitTimer \in {"off", "armed", "aborts", "limits", "ends", "stops"}
    /\ sizeMonitor \in {"off", "on", "walking", "over", "ends"}
    /\ {probes, eosGo, eosFlow, atSinks, sinkEOS, eosReceived, watch, stopReq, stopped,
        loop, srcOpen, uploads, sinksClosed, marked} \subseteq BOOLEAN
    /\ {pstate, stopOld} \subseteq StateStarted..StateFinished
    /\ stopper \in {"idle", "onStop", "setNull", "done"}
    /\ failing \subseteq Reporters /\ lost \subseteq {"eos", "start", "close"}
    /\ kill \in {"no", "marks", "done"}
    /\ result \in Statuses \cup {"none", "silent"}
    /\ cause \in {"none", "other", "cut"}

(***************************************************************************)
(* "ensure egress ends with a final state" (Controller.Close): whatever    *)
(* the other goroutines did, Run returns an egress that is over.           *)
(***************************************************************************)
FinalStateAtReturn == run = "finish" => status \in Final

(***************************************************************************)
(* A recording that must be finalized is reported complete only if the EOS *)
(* went through the muxers and every sink was closed without error.  The   *)
(* session limit timer is excepted when it fires before playing is broken: *)
(* it then stops the pipeline without an EOS, even if the egress is active *)
(* and a stop made it ENDING.                                              *)
(***************************************************************************)
CompleteIsFinalized ==
    result = "complete" /\ conf.finalize /\ cause # "cut" => atSinks /\ sinksClosed

(***************************************************************************)
(* A failure or a limit recorded by any goroutine is never turned into a   *)
(* success by the shutdown that follows it.                                *)
(***************************************************************************)
FailureNotComplete == run = "finish" /\ marked => status # "complete"

(***************************************************************************)
(* "a non-live source can finish before PLAYING, where SendEOS aborts a    *)
(* healthy egress": a replay that only its own source ended is not aborted.*)
(***************************************************************************)
ReplayNotAborted == ~conf.live /\ cause = "none" => status # "aborted"

(***************************************************************************)
(* Once the egress was evicted by a duplicate, neither its sinks nor its   *)
(* handler report or upload anything.                                      *)
(***************************************************************************)
EvictedStaysSilent == result = "silent" => ~uploads \/ ~sinksClosed

(***************************************************************************)
(* Once the main loop runs on a live pipeline, an egress that is asked to  *)
(* end, or whose pipeline is being stopped, returns from Run.              *)
(***************************************************************************)
EndsFromLoop ==
    (run = "loop" /\ stopper # "done" /\ (eosSent # "open" \/ stopper # "idle"))
        ~> run = "done"

(***************************************************************************)
(* A replay whose source ended leaves Run, even if PLAYING never comes.    *)
(***************************************************************************)
SourceEndEndsRun ==
    (run = "loop" /\ stopper = "idle" /\ srcEnd # "no") ~> run = "done"

(***************************************************************************)
(* "StopHandler triggers a graceful EOS drain ... so the recording         *)
(* finalizes": a stop at any moment makes Run return.                      *)
(***************************************************************************)
StopEndsRun == (eosSent # "open") ~> (run = "done")

(***************************************************************************)
(* What Run returns is true of the egress: it is over, not complete unless *)
(* it was finalized and nothing failed, and not aborted by its own end.    *)
(* Whatever the other goroutines do, each part can only be lost where      *)
(* SendEOS, updateStartTime or Close wrote a status over one it had not    *)
(* read: the first part by SendEOS, the second by SendEOS and              *)
(* updateStartTime, the third by any of the three, the last by none.       *)
(***************************************************************************)
ReportIsTrue ==
    /\ TypeOK
    /\ "eos" \notin lost => FinalStateAtReturn
    /\ lost \cap {"eos", "start"} = {} => CompleteIsFinalized
    /\ lost = {} => FailureNotComplete
    /\ ReplayNotAborted
=============================================================================
