------------------------------- MODULE AppWriter -------------------------------
(***************************************************************************)
(* AppWriter: the samples of one track, from the room into its appsrc.     *)
(* The reader (start, readNext) puts packets into the jitter buffer, which *)
(* hands samples to a queue; the pusher (pushSamples) takes them from the  *)
(* queue and pushes them once the pipeline plays; the worker of the track  *)
(* (SDKSource) marks the writer and drains it, and the goroutine that      *)
(* waits for the build reports a track that is inactive.  They meet in     *)
(* fuses, which break once, and in the condition variable of the queue.    *)
(*                                                                         *)
(* A sample is one packet.  A fuse that is broken is TRUE.                 *)
(***************************************************************************)
EXTENDS Integers, FiniteSets

CONSTANTS
    QueueDepth,         \* cSamplesQueueDepth
    FlushingThreshold,  \* flushingThreshold
    MaxPackets          \* bound: packets of the track

ASSUME WriterAssumption ==
    QueueDepth \in Nat \ {0} /\ FlushingThreshold \in Nat \ {0, 1} /\ MaxPackets \in Nat

VARIABLES
    removes,        \* shouldRemoveBeforeDrain
    pipeline,       \* "created", "built", "paused", "playing" or "stopping"
    appsrc,         \* "ok"; "stranded": it refuses buffers though the pipeline runs; "recovered"
    added, playing, draining, unsubscribed,   \* fuses
    signaled,       \* endStreamSignaled
    sourceDone,     \* endStreamSourceProcessed
    processed,      \* endStreamProcessed
    finished,
    timer,          \* Drain's timer is armed
    active,         \* active
    view,           \* what the pipeline was told of the track: "live" or "muted"
    watcher,        \* the goroutine that waits for the build: "wait", "active", "inactive" or "done"
    reader,         \* "read", "flush", "notify", "wait", "eos" or "done"
    pusher,         \* "start", "paused", "check", "wait", "push" or "done"
    jitter, queue,  \* packets in the jitter buffer, samples in the queue
    received, pushed, dropped,
    flushing,       \* flushingCount
    removed,        \* OnTrackRemoved was called by the writer
    eos,            \* the stream was ended: "no", "accepted" or "refused"
    outcome,        \* how pushSamples returned: "none", "drained", "gaveUp" or "failed"
    alarm,          \* OnError(ErrPersistentFlushing)
    unrecovered,    \* history: the appsrc stayed stranded after a recovery
    late            \* history: the stream was ended after drainingTimeout

fuses == <<added, playing, draining, unsubscribed, signaled, sourceDone, processed, finished>>
trackVars == <<active, view, watcher>>
sampleVars == <<jitter, queue, received, pushed, dropped>>
pushVars == <<pusher, flushing, outcome, alarm>>
endVars == <<removed, eos, late>>
srcVars == <<appsrc, unrecovered>>
vars == <<removes, pipeline, srcVars, fuses, timer, trackVars, reader, pushVars, sampleVars, endVars>>

Init ==
    /\ removes \in BOOLEAN
    /\ pipeline \in {"created", "built", "playing"}
    /\ appsrc = "ok" /\ unrecovered = FALSE
    /\ added = FALSE /\ playing = FALSE /\ draining = FALSE /\ unsubscribed = FALSE
    /\ signaled = FALSE /\ sourceDone = FALSE /\ processed = FALSE /\ finished = FALSE
    /\ timer = FALSE
    /\ active = TRUE /\ view = "live" /\ watcher = "wait"
    /\ reader = "read"
    /\ pusher = "start" /\ flushing = 0 /\ outcome = "none" /\ alarm = FALSE
    /\ jitter = 0 /\ queue = 0 /\ received = 0 /\ pushed = 0 /\ dropped = 0
    /\ removed = FALSE /\ eos = "no" /\ late = FALSE

Built == pipeline # "created"

\* samplesCond.Broadcast, which the pusher only hears if it waits.
Heard == IF pusher = "wait" THEN "check" ELSE pusher

-----------------------------------------------------------------------------
(* The pipeline and the appsrc (external) *)

PipelineGoes ==
    /\ \/ pipeline = "created" /\ pipeline' = "built"
       \/ pipeline = "built" /\ pipeline' = "paused"
       \/ pipeline = "paused" /\ pipeline' = "playing"
       \/ pipeline = "playing" /\ pipeline' = "stopping"
    /\ UNCHANGED <<removes, srcVars, fuses, timer, trackVars, reader, pushVars, sampleVars, endVars>>

\* Flushing is left set in an appsrc that is linked while the pipeline runs; bound: once.
Strands ==
    /\ pipeline = "playing" /\ appsrc = "ok"
    /\ appsrc' = "stranded"
    /\ UNCHANGED <<removes, pipeline, unrecovered, fuses, timer, trackVars, reader, pushVars,
                   sampleVars, endVars>>

Refuses == appsrc = "stranded" \/ pipeline = "stopping"

\* recoverFromFlushing: flush events restart the appsrc, unless they fail.
Recovers ==
    \/ appsrc' = (IF appsrc = "stranded" THEN "recovered" ELSE appsrc) /\ UNCHANGED unrecovered
    \/ appsrc' = appsrc /\ unrecovered' = (unrecovered \/ appsrc = "stranded")

-----------------------------------------------------------------------------
(* The worker of the track: MarkAddedToPipeline, Playing, OnUnsubscribed, Drain *)

MarkAddedToPipeline ==
    /\ ~added
    /\ added' = TRUE
    /\ UNCHANGED <<removes, pipeline, srcVars, playing, draining, unsubscribed, signaled, sourceDone,
                   processed, finished, timer, trackVars, reader, pushVars, sampleVars, endVars>>

Playing ==
    /\ pipeline \in {"playing", "stopping"} /\ added /\ ~playing
    /\ playing' = TRUE
    /\ UNCHANGED <<removes, pipeline, srcVars, added, draining, unsubscribed, signaled, sourceDone,
                   processed, finished, timer, trackVars, reader, pushVars, sampleVars, endVars>>

OnUnsubscribed ==
    /\ ~unsubscribed
    /\ unsubscribed' = TRUE
    /\ UNCHANGED <<removes, pipeline, srcVars, added, playing, draining, signaled, sourceDone,
                   processed, finished, timer, trackVars, reader, pushVars, sampleVars, endVars>>

\* The first one to break draining ends the stream, at once or after the latency of the pipeline.
Drain(force) ==
    /\ ~draining
    /\ draining' = TRUE
    /\ IF force \/ ~active
          THEN signaled' = TRUE /\ pusher' = Heard /\ UNCHANGED timer
          ELSE timer' = TRUE /\ UNCHANGED <<signaled, pusher>>
    /\ UNCHANGED <<removes, pipeline, srcVars, added, playing, unsubscribed, sourceDone, processed,
                   finished, trackVars, reader, flushing, outcome, alarm, sampleVars, endVars>>

TimerFires ==
    /\ timer
    /\ timer' = FALSE
    /\ signaled' = TRUE
    /\ pusher' = Heard
    /\ UNCHANGED <<removes, pipeline, srcVars, added, playing, draining, unsubscribed, sourceDone,
                   processed, finished, trackVars, reader, flushing, outcome, alarm, sampleVars, endVars>>

-----------------------------------------------------------------------------
(* The reader *)

\* onPacket: n more samples, of which the oldest are dropped when the queue overflows.
Enqueue(n) ==
    LET over == IF queue + n > QueueDepth THEN queue + n - QueueDepth ELSE 0 IN
    /\ queue' = queue + n - over
    /\ dropped' = dropped + over
    /\ pusher' = IF n > 0 THEN Heard ELSE pusher

\* A packet: the track is active again, the jitter buffer keeps some packets.
ReadsPacket ==
    /\ reader = "read" /\ ~signaled /\ received < MaxPackets
    /\ received' = received + 1
    /\ active' = TRUE
    /\ view' = IF ~active /\ watcher = "done" THEN "live" ELSE view
    /\ \E n \in 0..jitter + 1 : jitter' = jitter + 1 - n /\ Enqueue(n)
    /\ UNCHANGED <<removes, pipeline, srcVars, fuses, timer, watcher, reader, pushed,
                   flushing, outcome, alarm, endVars>>

\* ensureRemovedBeforeDrain, draining, endStreamSignaled and notifyPushSamples.
EndsReading ==
    /\ removed' = (removed \/ removes)
    /\ draining' = TRUE /\ signaled' = TRUE
    /\ pusher' = Heard

\* No packet for 500 ms: a delayed drain goes on reading; a track that was unsubscribed ends
\* after the grace period; one that is muted, or silent, becomes inactive.
ReadTimesOut ==
    /\ reader = "read" /\ ~signaled /\ ~draining
    /\ \/ /\ unsubscribed
          /\ EndsReading
          /\ UNCHANGED <<active, view>>
       \/ /\ active
          /\ active' = FALSE
          /\ view' = IF watcher = "done" THEN "muted" ELSE view
          /\ UNCHANGED <<removed, draining, signaled, pusher>>
    /\ UNCHANGED <<removes, pipeline, srcVars, added, playing, unsubscribed, sourceDone, processed,
                   finished, timer, watcher, reader, flushing, outcome, alarm, sampleVars, eos, late>>

\* The track ended: EOF, or an error of the connection.
ReadFails ==
    /\ reader = "read" /\ ~signaled
    /\ IF draining THEN signaled' = TRUE /\ pusher' = Heard /\ UNCHANGED <<draining, removed>>
                   ELSE EndsReading
    /\ UNCHANGED <<removes, pipeline, srcVars, added, playing, unsubscribed, sourceDone, processed,
                   finished, timer, trackVars, reader, flushing, outcome, alarm, sampleVars, eos, late>>

\* drainJitterBuffer: what is left in the jitter buffer, then the fuse, then the notification.
FlushesJitterBuffer ==
    /\ reader = "read" /\ signaled
    /\ reader' = "flush"
    /\ jitter' = 0
    /\ Enqueue(jitter)
    /\ UNCHANGED <<removes, pipeline, srcVars, fuses, timer, trackVars, received, pushed,
                   flushing, outcome, alarm, endVars>>

SourceProcessed ==
    /\ \/ reader = "flush" /\ reader' = "notify" /\ sourceDone' = TRUE /\ UNCHANGED pusher
       \/ reader = "notify" /\ reader' = "wait" /\ pusher' = Heard /\ UNCHANGED sourceDone
    /\ UNCHANGED <<removes, pipeline, srcVars, added, playing, draining, unsubscribed, signaled,
                   processed, finished, timer, trackVars, flushing, outcome, alarm, sampleVars, endVars>>

\* The samples are processed, or a push blocked for longer than drainingTimeout.
WaitsProcessed ==
    /\ reader = "wait"
    /\ processed \/ pusher = "push"
    /\ reader' = "eos"
    /\ late' = ~processed
    /\ UNCHANGED <<removes, pipeline, srcVars, fuses, timer, trackVars, pushVars, sampleVars, removed, eos>>

\* Mutant of OwesEOS: the stream is ended only if the appsrc was seen to play.
BugOwesEOS == playing

\* shouldSendEOS.
OwesEOS == added

\* An appsrc that refuses the end of the stream is recovered, once.
EndsStream ==
    /\ reader = "eos"
    /\ reader' = "done"
    /\ finished' = TRUE
    /\ IF ~OwesEOS THEN UNCHANGED <<eos, srcVars>>
       ELSE IF ~Refuses THEN eos' = "accepted" /\ UNCHANGED srcVars
       ELSE /\ Recovers
            /\ eos' = IF appsrc' = "stranded" \/ pipeline = "stopping" THEN "refused" ELSE "accepted"
    /\ UNCHANGED <<removes, pipeline, added, playing, draining, unsubscribed, signaled, sourceDone,
                   processed, timer, trackVars, pushVars, sampleVars, removed, late>>

\* buildReady.Once: the fuse breaks after the report.
WatcherSteps ==
    /\ \/ /\ watcher = "wait" /\ Built
          /\ watcher' = IF active THEN "active" ELSE "inactive"
          /\ UNCHANGED view
       \/ /\ watcher \in {"active", "inactive"}
          /\ watcher' = "done"
          /\ view' = IF watcher = "inactive" THEN "muted" ELSE view
    /\ UNCHANGED <<removes, pipeline, srcVars, fuses, timer, active, reader, pushVars, sampleVars, endVars>>

-----------------------------------------------------------------------------
(* The pusher *)

\* The deferred calls of pushSamples.
Returns(result) ==
    /\ pusher' = "done" /\ outcome' = result
    /\ signaled' = TRUE /\ processed' = TRUE

\* waitFor, for PAUSED and for PLAYING: of a drain and what it waits for, select takes either.
WaitsFor ==
    /\ \/ /\ pusher = "start" /\ pipeline \in {"paused", "playing", "stopping"}
          /\ pusher' = "paused" /\ UNCHANGED <<outcome, signaled, processed>>
       \/ /\ pusher = "paused" /\ playing
          /\ pusher' = "check" /\ UNCHANGED <<outcome, signaled, processed>>
       \/ /\ pusher \in {"start", "paused"} /\ draining
          /\ Returns("gaveUp")
    /\ UNCHANGED <<removes, pipeline, srcVars, added, playing, draining, unsubscribed, sourceDone,
                   finished, timer, trackVars, reader, flushing, alarm, sampleVars, endVars>>

\* Mutant of ChecksQueue: the end of the source is looked at first.
BugChecksQueue ==
    /\ pusher = "check"
    /\ \/ /\ sourceDone
          /\ Returns("drained") /\ UNCHANGED queue
       \/ /\ queue > 0 /\ ~sourceDone
          /\ queue' = queue - 1 /\ pusher' = "push" /\ UNCHANGED <<outcome, signaled, processed>>
       \/ /\ queue = 0 /\ ~sourceDone
          /\ pusher' = "wait" /\ UNCHANGED <<queue, outcome, signaled, processed>>
    /\ UNCHANGED <<removes, pipeline, srcVars, added, playing, draining, unsubscribed, sourceDone,
                   finished, timer, trackVars, reader, flushing, alarm, jitter, received, pushed,
                   dropped, endVars>>

\* Under samplesLock: a sample is taken; without one, the pusher waits for more, or is done.
ChecksQueue ==
    /\ pusher = "check"
    /\ \/ /\ queue > 0
          /\ queue' = queue - 1 /\ pusher' = "push" /\ UNCHANGED <<outcome, signaled, processed>>
       \/ /\ queue = 0 /\ sourceDone
          /\ Returns("drained") /\ UNCHANGED queue
       \/ /\ queue = 0 /\ ~sourceDone
          /\ pusher' = "wait" /\ UNCHANGED <<queue, outcome, signaled, processed>>
    /\ UNCHANGED <<removes, pipeline, srcVars, added, playing, draining, unsubscribed, sourceDone,
                   finished, timer, trackVars, reader, flushing, alarm, jitter, received, pushed,
                   dropped, endVars>>

\* pushPacket: the packet is pushed; or it has no usable timestamp and is dropped.
Pushes ==
    /\ pusher = "push" /\ pusher' = "check"
    /\ \/ ~Refuses /\ pushed' = pushed + 1 /\ flushing' = 0 /\ UNCHANGED dropped
       \/ dropped' = dropped + 1 /\ UNCHANGED <<pushed, flushing>>
    /\ UNCHANGED <<removes, pipeline, srcVars, fuses, timer, trackVars, reader, outcome, alarm,
                   jitter, queue, received, endVars>>

\* The writer gives up on an error of the synchronizer.
PushFails ==
    /\ pusher = "push"
    /\ Returns("failed")
    /\ draining' = TRUE
    /\ dropped' = dropped + 1
    /\ UNCHANGED <<removes, pipeline, srcVars, added, playing, unsubscribed, sourceDone, finished,
                   timer, trackVars, reader, flushing, alarm, jitter, queue, received, pushed, endVars>>

\* Mutant of RecoversAt: the threshold comes first.
BugRecoversAt(n) == n = FlushingThreshold

\* pushToSource tries to recover half way to the threshold.
RecoversAt(n) == n = FlushingThreshold \div 2

\* FlowFlushing: the packet is lost.  At the threshold the writer gives up, which is an error
\* of the egress unless the pipeline is stopping.
PushFlushes ==
    /\ pusher = "push" /\ Refuses
    /\ flushing' = flushing + 1
    /\ dropped' = dropped + 1
    /\ IF RecoversAt(flushing + 1) THEN Recovers ELSE UNCHANGED srcVars
    /\ IF flushing + 1 < FlushingThreshold
          THEN pusher' = "check" /\ UNCHANGED <<outcome, signaled, processed, draining, alarm>>
          ELSE /\ Returns("failed")
               /\ draining' = TRUE
               /\ alarm' = (pipeline # "stopping")
    /\ UNCHANGED <<removes, pipeline, added, playing, unsubscribed, sourceDone, finished, timer,
                   trackVars, reader, jitter, queue, received, pushed, endVars>>

-----------------------------------------------------------------------------
ReaderStep ==
    ReadsPacket \/ ReadTimesOut \/ ReadFails \/ FlushesJitterBuffer \/ SourceProcessed \/ WaitsProcessed
        \/ EndsStream

PusherStep == WaitsFor \/ ChecksQueue \/ Pushes \/ PushFails \/ PushFlushes

Next ==
    \/ PipelineGoes \/ Strands
    \/ MarkAddedToPipeline \/ Playing \/ OnUnsubscribed \/ (\E force \in BOOLEAN : Drain(force))
    \/ TimerFires \/ WatcherSteps
    \/ ReaderStep \/ PusherStep

\* The goroutines of the writer are scheduled, and a timer fires.
Fairness ==
    /\ WF_vars(FlushesJitterBuffer \/ SourceProcessed \/ WaitsProcessed \/ EndsStream)
    /\ WF_vars(PusherStep) /\ WF_vars(TimerFires)

Spec == Init /\ [][Next]_vars /\ Fairness

-----------------------------------------------------------------------------
(* Properties *)

TypeOK ==
    /\ pipeline \in {"created", "built", "paused", "playing", "stopping"}
    /\ reader \in {"read", "flush", "notify", "wait", "eos", "done"}
    /\ pusher \in {"start", "paused", "check", "wait", "push", "done"}
    /\ queue \in 0..QueueDepth
    /\ flushing \in 0..FlushingThreshold

Stuck ==
    \/ pusher = "wait"
    \/ pusher \in {"start", "paused"} /\ ~draining

\* "endStreamProcessed not broken after 3 seconds, bug in the draining logic!": when the reader
\* waits for the samples to be processed, the pusher never waits for the reader, or for the
\* pipeline.  Only a push that blocks can use up drainingTimeout.
DrainNeedsNoTimeout == reader = "wait" => ~Stuck

\* What was received of a track that was drained in order is in its appsrc, or was counted as
\* dropped, when the stream is ended: the end never overtakes a sample.
NothingLeftBehind ==
    outcome = "drained" => received = pushed + dropped /\ jitter = 0 /\ queue = 0

\* Persistent flushing fails the egress only if recovering the appsrc did not help.
AlarmAfterRecovery == alarm => unrecovered

\* What the source relies on: a writer that ends finishes, whoever ended it and whatever the
\* pipeline does, and then it has ended the stream if its appsrc was marked as added.
Contract == INSTANCE Writer WITH
    life <- IF finished THEN "finished" ELSE IF draining THEN "ending" ELSE "live",
    linked <- added,
    eos <- eos # "no"

\* The writer implements that contract.
KeepsContract == Contract!Spec

\* A writer that drains gets through, and leaves nothing behind (Drain, drainJitterBuffer).
DrainsAll == TypeOK /\ DrainNeedsNoTimeout /\ NothingLeftBehind
=============================================================================
