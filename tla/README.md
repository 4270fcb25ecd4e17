# TLA+ models of LiveKit egress

LiveKit egress records and streams rooms. A *service* process accepts requests
and launches one *handler* process per egress; the handler runs a GStreamer
pipeline fed by a source and drained by sinks, and reports every change of the
egress to the service, which forwards it to the IO service of the cluster. This
directory models the control of that program: who may change what, in which
order, and what must hold whatever the order.

Contents: [inventory](#inventory), [modules](#modules), [runs](#runs),
[bounds](#bounds), [fairness](#fairness), [proofs](#proofs),
[disagreements](#where-the-code-and-its-words-disagree),
[not modelled](#not-modelled), [plan](#plan).

## Inventory

| Part | State | Operations | Hard because | Correct when |
|---|---|---|---|---|
| Session reporter `pkg/info/io.go` | per-egress mailboxes, worker queues, retry timers, sessions being created | `CreateEgress`, `UpdateEgress`, send loop, retry, `Drain` | sends run with the lock released; timers, queues at their limit, drain | no update is lost without a log, reordered, or sent for a refused session; everyone drains |
| Pipeline controller `pkg/pipeline/controller.go`, `watch.go`, `pkg/gstreamer` | egress status, `playing`/`eosSent`/`stopped` fuses, timers, pipeline state | `Run`, `SendEOS`, `OnError`, `Close`, limits, bus messages | a dozen goroutines end the same egress in different ways | one final status that is true of the recording; `Run` returns |
| Handler `pkg/handler` | the controller, the IPC server | stop, kill, update stream, run | kill and stop race the end | the service hears the result exactly once |
| Service `pkg/server` | shutdown, drain | `StartEgress`, `processEnded`, IPC handlers, `Shutdown`, `Drain` | requests in flight while draining, partial failures | requests, costs and handlers balance; a drain ends |
| Process manager `pkg/service/process.go` | `activeHandlers`, processes | `Launch`, `StopProcess`, `KillProcess`, `KillAll`, `ProcessFinished` | launch timeout, exit and kill race | every running handler can be reached and is waited for |
| Resource monitor `pkg/stats/monitor.go` | pending requests, per-process samples, holds, counters of overload | admission, `AcceptRequest`, `UpdatePID`, `EgressAborted`, `EgressEnded`, sampling with kills | measurements lag reservations; timers outlive requests | what is reserved fits; overload is relieved, spikes are not punished |
| Stream outputs `controller.go`, `sink/stream.go`, `config/urls.go` | stream map, sink map, `OutputCount` | `UpdateStream`, stream failure, reports | RPC and bus goroutines take streams out without a common lock | the egress ends exactly when no output is left |
| Stream liveness `builder/stream.go` | byte counters, idle time, retry budget | poll, `Reset` | monitor goroutine and bus goroutine share atomics | a dead stream ends, a live one does not |
| Segment, file, image, MCAP, websocket sinks `pipeline/sink` | open files, upload queues, playlists | start, segment opened/closed, close, upload | uploads run behind the pipeline; close waits for them | playlists list only uploaded segments, in order |
| SDK source `source/sdk.go`, `track_worker.go` | tracks known, one worker per track with its channel and generation, `active`, `closing` | join, subscribe, unpublish, PLAYING, `CloseWriters` | callbacks of the room, the bus and the close race the build of the pipeline | the pipeline holds exactly the tracks that live; the egress ends with the last track; closing ends everything |
| App writer `source/sdk/appwriter.go` | fuses, sample queue, jitter buffer | read, push, drain, end of stream, recovery from flushing | four goroutines and a timer end the same writer | a drain loses nothing the pipeline could take; the appsrc is ended exactly if it was linked |
| RTP gap filler `source/sdk/rtp_gap_filler.go` | expected number and time stamp, offsets | fill, re-anchor | losses, strays, clock jumps and refused pushes at a counter's wrap | what reaches the decoder is contiguous |
| Web source `source/web.go` | Chrome, Xvfb, pulse sink | start, end markers | external processes | it starts and ends once |
| GStreamer bins `pkg/gstreamer/bin.go` | tree of bins and their states | add/remove source and sink bins | links change while states change | a removed source is unlinked after its EOS |
| Video bin and layout `builder/video.go`, `layout.go` | selected pad, pads, layout | add/remove/mute a track, active speakers, EOS | workers, writers, streaming threads and the GLib loop share the pads | no track ends the egress; what is shown is there; pictures fit |
| Audio pacer and tempo controller `builder/audio_pacer.go`, `tempo/controller.go` | drift, correction in flight, rate | sender report, buffer, flush | two locks, never held together | a correction is neither forgotten nor doubled, and converges |
| Metrics `service/metrics.go`, `stats/*` | gauges, accumulator of ended handlers | gather, merge, finalize | handlers end while gathered | counters do not run backwards |
| Configuration and construction `pkg/config`, `builder` | request, outputs, codecs | validation, codec choice, build, retry | many combinations | an accepted request can be built; a retry overwrites nothing |

## Modules

One module per component. A `\*` or boxed comment in front of each action names
the code; `PROJECT.json` maps each definition to its lines. Operators named
`Bug...` are deliberate defects of the operator they precede; each property is
known to catch one of them.

| Module | Models | State ↔ code | Actions ↔ code |
|---|---|---|---|
| `SessionReporter` | `sessionReporter` | `pending` = `worker.pending`, `queue` = `worker.queue`, `timer` = retry timers, `creating`/`createFailed`, `sending` = the update handed to `IOInfoClient` | one per critical section of `io.go`; the send itself is a window between `TakeUpdate` and `SendSucceeds/Fails/Retries` |
| `Controller` | `Controller` of one egress, `Pipeline`, the end of `Handler.Run` | `status` = `Info.Status`, `playing`, `eosSent`, `stopped` = fuses, `pstate` = `StateManager`, `run` = where `Run` is | `Run` and `SendEOS` step by step, bus messages, timers, IPC requests; a goroutine that reads the status or a fuse to decide what to write does so in two steps |
| `Service` | `Server`, `ProcessManager`, requests of the `Monitor` | `at` = where `StartEgress` is, `active` = `activeHandlers`, `proc` = the process, `activeRequests`, costs | one per blocking step of `StartEgress`, `Launch`, the wait goroutine, kills, `Run`'s drain |
| `StreamOutputs` | `UpdateStream` and stream failure | `streams`, `sink`, `count` = `OutputCount`, `status` = `StreamInfo` | one per atomic operation on the shared maps and the counter; an update is checked, sent and handled in three steps |
| `StreamLiveness` | one RTMP stream, its monitor and `Reset` | `total`, `last`, `idle`, `down` = `disconnectedAt` | poll read, poll apply, the three steps of `Reset`, the sink (external) |
| `Monitor` | `stats.Monitor` | `conf` = the node and its requests (never changes), `pending`, `procStats`, holds, `highCPUDuration`, `lowCPUDuration`, `cpuStop...`, `highMemoryStart` | one per operation; each holds `m.mu` |
| `Segments` | `SegmentSink`, the `m3u8` writers and the `Uploader` they share | `closedSegments`, `playlistUpdates` = channels, `job` = how far each upload is, `playlist`/`live` = local playlists, `lists`/`lives`/`stored`/`initAt` = what the storages hold, `primaryFailed` | the muxer's messages, the dispatcher, one upload goroutine per segment, the lister, `Close`; an upload is a load of `primaryFailed`, then one attempt per storage |
| `Streams` | an instance of `StreamOutputs` beside one of `StreamLiveness`, with what is assumed of their constants | the variables of both | the actions of both |
| `SDKSource` | `SDKSource`, the track workers | `ops` = `opChan`, `state` = the worker and the operation it is in, `pipe` = which generation of an appsrc the pipeline holds, `closing`, `active` | joining, one per step of a worker between two points where it may block, `submitOp`, `CloseWriters`, the room's callbacks |
| `AppWriter` | `AppWriter` of one track | its fuses by name, `queue`, `jitter`, `flushing` = `flushingCount`, `reader`/`pusher`/`watcher` = where the goroutines are | one per step of each goroutine, the drain timer, the pipeline (external) |
| `Writer` | what the source relies on of a writer | `life`, `linked`, `eos` | abstract |
| `RTPGapFiller` | `RTPGapFiller`, `pushPacket` | `f` = the filler, counters of the code's kind with small widths | a packet as the network delivers it, with every push it causes |
| `AudioPacing` | tempo controller and audio pacer | `drift`, `corrected`, `current`, `tier`; `active`, `target`, `rate`, `compensation`, `reanchor`; `thread` = the calls a thread still has to make | one per critical section of either lock |
| `AudioPath` | an instance of `RTPGapFiller` beside one of `AudioPacing`, with what is assumed of their constants | the variables of both | the actions of both |
| `LayoutManager` | the layouts and the fit of a picture | operators on a record | (operators) |
| `VideoBin` | the video bin with `gstreamer.Bin`, over `LayoutManager` | `selected`, `pending`, `names`, `pads`, `linked`, `parting` | one per critical section of `b.mu`, buffers and EOS on a pad, the end |
| `PipelineConfig` | `Update`: request to configuration, names, codecs | operators on a record; `ok` turns `FALSE` where the code returns an error | (operators) |
| `Pipeline` | a request from validation through codecs and construction to a retry, and the layout of a composited one | `req`, `attempt`, `phase`, `conf` = `PipelineConfig`, `written`, `manager` = the `LayoutManager` | validation, subscription, build, retry, each event of the layout |

`MC*` modules only give values to constants. The theorems are in modules of their
own that extend what they are about: `SessionReporterProofs`, `ControllerProofs`
(`Controller` and `Streams`), `ServiceProofs`, `SegmentsProofs`, `MonitorProofs`,
`SDKSourceProofs`, `AppWriterProofs` (`AppWriter` and the pacer of `AudioPath`) and
`VideoBinProofs` (`VideoBin`, `LayoutManager` and `Pipeline`).

The modules meet in what they share:

* `VideoBin` and `Pipeline` extend `LayoutManager`; `Pipeline` extends
  `PipelineConfig`: a request is taken through the same operators by validation,
  construction and retry.
* `AppWriter` implements `Writer`: `Contract == INSTANCE Writer WITH ...` maps the
  writer's fuses to the contract, and the run `AppWriter` checks its
  specification, liveness included, as the property `KeepsContract`. `SDKSource`
  uses the contract and no more: a writer that ends or is drained finishes.
* `Streams` and `AudioPath` put two components that share no variable side by
  side; `part` says which of the two moves. Nothing is lost by that:
  `StreamOutputs` lets any stream of `Failing` fail at any moment, which is all
  that the liveness poll can do to it, and the gap filler and the pacer only have
  the audio between them.
* The status a `Controller` returns is what the `Service` receives in
  `HandlerUpdateFailed` and `HandlerFinished` and hands to the `SessionReporter`;
  `Service` keeps of the `Monitor` its requests and costs and takes its kills as
  arriving at any moment, which the `Monitor` module details; `StreamOutputs` ends
  in `SendEOS` or `OnError`, and `SDKSource` ends its recording, which are inputs
  of `Controller`. The service sees of a handler its exit only.

## Runs

| Run | Question | Result |
|---|---|---|
| `SessionReporter` | are updates conserved, ordered, never sent for a refused session; has an egress with updates exactly one wake-up; does everything settle and `Drain` return? | holds, for one worker |
| `Controller` | is the report true: final, complete only if finalized, never after a failure or a limit, replays not aborted; is an evicted egress silent; does one that is asked to end leave `Run`? | holds, the last from the moment the loop runs; the report is true but where `SendEOS`, `updateStartTime` or `Close` writes over a status it had not read (`lost`, below) |
| `Service` | are requests, costs, handlers and failures accounted for; does a shutdown drain, if recordings end? | holds |
| `Streams` | is a working stream ever cut off, does an egress without outputs end, has the last update each change; is a stream that sends ever failed without a reset, does a dead one end? | holds when each stream is taken out by one goroutine; an older update may come in after the last (`raced`) |
| `StreamOutputsRace` | ... and when two goroutines take out the same stream? | violated |
| `Segments` | are playlists in order, do they list only what is stored, is an egress without an error complete, does `Close` return? | holds |
| `Monitor` | do CPU, memory and pulse clients fit; are spikes spared, is sustained overload relieved, does a stop hit a live egress? | holds |
| `SDKSource` | has the pipeline exactly the tracks that live, is no notice lost, do the tracks decide start and end, does a close end everything? | holds |
| `AppWriter` | does a drain need no timeout and leave no sample behind; does flushing fail an egress only after a recovery; does the writer implement `Writer`? | holds |
| `VideoBin` | does a track's EOS ever end a live egress, or take the selector behind the final EOS; is what is shown there; does the selector move on? | holds |
| `Pipeline` | is what is accepted built, does a retry keep the files of the attempts before, do pictures fit their places and pages hold the right tracks? | holds but for what `Unbuildable` names, a websocket without a URL, and two forms of path (below) |
| `AudioPath` | is what is bridged contiguous; is a correction forgotten or doubled, does a steady drift converge? | holds |

## Bounds

Every bound is a constant and its comment says `bound:`. They are chosen so that
the interesting cases occur.

* `SessionReporter`: two egresses on one worker share a queue of one entry
  (`QueueCap`), so the full queue occurs; `MaxPending` 2 makes coalescing occur
  with the third update (`MCUpdates`).
* `Controller`: recordings that may be stopped, be killed or fail on the bus or in a
  callback, one with a storage limit, a stream with a session limit, and the replay
  of a video track that may be stopped and fail. `events` of a configuration is a
  bound: it says which of a stop, a kill, an error on the bus and one outside it
  are explored with it; the other ends of an egress are possible in all of them.
  Everything else is finite already; the theorems have every set of events.
  `Exited` and `Hangs` stutter where nothing can happen any more: the handler has
  exited, or `Run` is in a loop that was quit before it ran (the case of
  `StopEndsRun` below).
* `Segments`: three segments slide a live window of two; `QueueCap` 1 makes both
  full queues occur (the code allows `MaxUploadQueue` minutes of segments). The
  configurations are fmp4, and TS segments with a live playlist, each with three
  segments on one storage and with two on a storage with a backup. The theorems
  about `Segments` have no such bound; `CloseReturns` is what rests on it.
* `Service`: two requests, which is what every race between a request and
  another, a kill and a drain needs.
* `StreamOutputs`: three streams, two of them initial, and one call, which may
  add some and remove some. `Removable` and `Failing` say which streams a call and
  which the bus may take out: disjoint in the passing run, overlapping in the run
  that shows the race. The caller, the bus and the log callback of each stream may
  have an update on its way at the same time. That `sendHandlerUpdate` encodes
  `Info` is one step: a write in the middle of the encoding is not modelled.
* `StreamLiveness`: time counts polls up to `Idle` + 1, bytes go up to
  `MaxBytes`, past the threshold twice; at most `MaxErrors` sink errors.
* `Monitor`: costs and usages are small integers, times count samples; ages
  saturate at the grace time they are compared with. Three workloads start the
  run: web requests that fill CPU and pulse clients, load over the CPU limit by two
  small egresses or by one that takes the whole machine, and memory over its limit
  with a cgroup that may be unreadable.
* `SDKSource`: one track that is subscribed twice, so that operations of an old
  generation meet a new writer, or an audio and a video track, which is what
  "the last track" and the subscriptions a join waits for need. `Plans` says which
  other events (PLAYING, a new time provider, a close) are explored with which.
  `OpCap` is not reached with so few callers, nor are the 100 entries of the code.
* `AppWriter`: three packets overrun a queue of two; two refused pushes reach the
  flushing threshold.
* `VideoBin`: two tracks and two pad names, so that a track may come back under a
  new name while its old bin is being detached; live, non-live and composited. One
  of two like tracks is muted.
  The canvas gives the speaker layout two places, so that there is a track
  without one.
* `Pipeline`: every type of request with one or two outputs of every kind, one
  retry, over every form of path and every suffix of image names;
  layouts of two cameras and a screen share through six changes.
* `AudioPath`: numbers wrap at 32 and time stamps at 128 instead of 2^16 and
  2^32, so that both wrap within five packets; two faults at most, one fewer than
  the strays that make the filler re-anchor (`behindPacketsToReanchor`). Drifts of no,
  one and more than two thresholds, three changes, two flushes.

## Fairness

* Goroutines that can run, run (weak fairness of their steps), and a timer that
  is armed fires. A call to the IO service returns, with an error if need be
  (`psrpc` requests have a timeout).
* No fairness is given to users, rooms, media, kills, limits or the IO service's
  success.
* `Service` (`EndingSpec`) assumes for `DrainCompletes` that recordings end: a
  drain waits for them, and without a kill nothing else ends them.
* `Segments`: a call of a storage returns, with an error if need be.
* `Monitor`: samples keep coming (a ticker), and an egress that is killed ends.
* `SDKSource`: its goroutines run, and a writer that ends or is drained finishes,
  which is the contract `AppWriter` is shown to keep.
* `AppWriter`: reader and pusher run, and the timer of `Drain` fires. The reader
  has no fairness while it waits for packets, nor has the pipeline.
* `VideoBin`: a call that a worker has begun ends, and a linked track produces
  buffers until its EOS (a live track does, and the filler always).
* `AudioPath`: sender reports and buffers keep coming.
* `CHECK_DEADLOCK FALSE` where the system stops: a stream, a track, a writer or
  an egress that is over (`Streams`, `StreamOutputsRace`, `SDKSource`,
  `AppWriter`, `VideoBin`), a request that is rejected or built (`Pipeline`), a
  publisher that has sent its packets (`AudioPath`).

## Proofs

Each theorem holds for every value of the constants that the assumption named in
the component's module allows: any sets of egresses, requests, workers and
tracks (finite where something is counted), any capacity, threshold and number
of updates, segments or packets. The assumptions exclude what cannot be
configured (a channel without room, a window of no segment) and what would be no
instance (a stand-in value that is also a real one). Some theorems have a further
hypothesis, a named definition that is part of their statement. It names a case
that the code lets happen and in which the property is not true:

* `UniqueIds` (`ServiceProofs`): no two requests carry the same egress id.
  Without it `OneHandlerPerEgress` fails.
* `EstimatesCover` (`MonitorProofs`): no request estimates less CPU than its type
  costs. Without it `ReservedCPUFits` fails.
* `EndedOnce` (`ControllerProofs`, about `Streams`): the streams that fail are of the
  request and no call removes them, and the calls of `UpdateStream` come one after
  another. Without the first part a stream is counted down twice, by the caller
  and by the bus (the run `StreamOutputsRace`), or fails before it is counted: a
  stream that is added goes to the sink before `OutputCount.Inc`
  (`controller.go:454`-`463`). Without the second, two calls that remove the same
  stream count it twice.
* `ChannelsSuffice` (`SDKSourceProofs`): every operation that the room, the bus and
  the close can submit for a track fits in its channel. A full `opChan` drops a
  notice. The code has 100 places, so 32 subscriptions of one track are covered
  even if its worker takes none of them.
* `RequestsSelect` (`SDKSourceProofs`): a request that ends with its tracks selects
  one, and a track composite request at most two.
* `CanvasSuffices`, `PicturesSuffice` (`VideoBinProofs`): the canvas leaves every cell,
  and each picture every crop, a pixel. The layouts divide whatever size they are
  given, and a cell of no pixels has no picture that fits it. `PictureFits` and
  `LayoutPlacesAll` state the same of one cell and one layout (`CropRemains`,
  `HasRoom`).

Other conditions are inside the properties, as histories of the cases in which the
code does otherwise. `ReportIsTrue` has `lost`, who of `SendEOS`, `updateStartTime`
and `Close` wrote the status over one it had not read: that the final status is
final needs that the first did not, that a complete recording is finalized that
the first two did not, that a failure or a limit does not become a success that none
did. `OutputsSettled` has `raced`: the last update was sent while another was on its
way. `AcceptedIsSound` and `RetryKeepsFiles` name the requests and the paths.

| Module | Theorem | Property of the run |
|---|---|---|
| `SessionReporterProofs` | `TypeCorrect`, `WakeUpUnique`, `Conservation`, `DeliveriesInOrder` | `TypeOK`, `OneWakeUp`, `NothingLostSilently`, `DeliveriesAllowed` |
| `ControllerProofs` | `ControllerReportIsTrue`, `ControllerEvictedSilent` | `ReportIsTrue`, `EvictedStaysSilent` |
| | `OutputsSettle`, `HealthyNeverEnded`, `SteadyStreamsStay` | `OutputsSettled`, `HealthyNotEnded`, `SteadyStreamStays` of `Streams` |
| `ServiceProofs` | `ServiceAccounted`, `ServiceKnowsHandlers` | `Accounted`, `HandlersKnown` |
| `SegmentsProofs` | `SegmentsPlaylistsTrue`, `SegmentsClosedIsComplete` | `PlaylistsTrue`, `ClosedIsComplete` |
| `MonitorProofs` | `MonitorBooksFit`, `MonitorStopsRightly` | `BooksFit`, `StopsRightly` |
| `AppWriterProofs` | `WriterDrainsAll`, `WriterAlarms`, `WriterImplementsContract` | `DrainsAll`, `AlarmAfterRecovery`, the safety part of `KeepsContract` |
| | `PacerCorrectionHeld` | `CorrectionHeld` of `AudioPath` |
| `SDKSourceProofs` | `SourceFollowsTracks`, `SourceTracksDecide` | `TracksFollowed`, `TracksDecide` |
| `VideoBinProofs` | `VideoNoEarlyEOS`, `VideoPictureAgrees`, `VideoNoTrackBehindEOS` | `NoEarlyEOS`, `PictureAgrees`, `NoTrackBehindEOS` |
| | `PipelineAcceptedIsSound`, `PipelineRetryKeepsFiles`, `PipelinePageIsIdeal`, `PipelineLayoutFits` | `AcceptedIsSound`, `RetryKeepsFiles`, `PageIsIdeal`, `LayoutFits` of `Pipeline` |
| | `PictureFits`, `LayoutPlacesAll`, `RetryNamesApart` | (of the operators that `LayoutFits` and `RetryKeepsFiles` use) |

Each module defines an inductive invariant, shows that `Init` implies it and that
every action keeps it (one lemma or step per action), and draws the theorems from
it. None of the properties is inductive by itself; this is what each lacks.

* **`SessionReporterProofs`.** `OneWakeUp` counts entries of queues, so `IInv`
  adds that a queue and a sender hold only egresses of their worker
  (`RightWorker`); the conservation law needs that a buffer is empty when no
  create is in flight (`BufferClosed`). `ScheduleEffect`, `EnqueueEffect` and
  `AdvanceEffect` say what the shared helpers do to queue, timer and mailbox. The
  order of delivery is a second invariant on top (`OrderInv`): the ranks of an
  egress rise through what was delivered, then through its mailbox, then through
  its buffer, and stay within the number of calls; coalescing takes some out and
  a retry leaves the rest where they are.
* **`ControllerProofs`.** The report is true because things happen in the order of
  the fuses, and the order is the invariant: what `Run`, the stopper and `SendEOS`
  have done by where they are (`RunOrder`, `EOSOrder`), that a final status stays
  unless one of the three wrote over it (`StatusOrder`), and that a recording is
  stopped only after a failure, an early end, or with its EOS at the sinks
  (`StoppedFinalized`), which is why a complete one is finalized. A goroutine between
  its read and its write is in a place of its own, so that each part also says what
  was true when it read.
* **`ControllerProofs`, `Streams`.** The two parts share no variable, so each has an
  invariant of its own. `OutputsInv` says that `OutputCount` is the number of streams
  counted and not yet counted down (`Counts`), and `CallHolds`, `BusHolds`,
  `MapHolds` and `CountedHold` which stream a call, the bus and the map hold by where
  they are, so that a stream on its way out is in one hand. That the one
  who counts down the last output also sees the zero is `LastSeen`. The updates have a
  second invariant (`UpdatesInv`): a change that the last update lacks has another one
  to come (`ReportPends`), and the one sent last, if alone, is the one on its way or
  the one that arrived (`LastArrives`). `ConnectionInv` says
  that of a steady stream each sample is larger than the one before by the media
  sent in between (`Sampled`), whatever `Reset` did before.
* **`ServiceProofs`.** `Stage(r)` says, for each place of a call and of its waiter,
  what is in the books under its id and what became of its process; `CountsRight`
  ties the counters to the sets of calls they count; `DrainedIsOver` keeps what a
  drained node has already let go. `Frame(r)` separates the calls, so that a step
  of one is checked against that one. It is here that distinct ids are needed.
* **`SegmentsProofs`.** A closed segment passes through five places on its way to the
  playlist (`closedSegments`, the dispatcher, `playlistUpdates`, the lister, the
  playlist). `InOrder` says that the numbers fall from each place to the one
  behind it, `NoneLost` that together they have every number unless the egress
  failed, `UploadsTrue`, `InitFirst` and `ListerUploads` what an upload goroutine
  has stored by where it is, `ListsFollow` that a stored playlist is an earlier one
  of the lister, and `CloseLast` what has ended before `Close` goes on.
* **`MonitorProofs`.** The books are sums over sets of egresses, a fold in an order
  that `CHOOSE` picks; the first part shows that the fold exists, that the order
  does not matter and how a sum changes with one summand. The invariant then says
  that each counter is the sum over those who hold a part of it (`Counted`), that
  a pulse client is open or on hold (`PulseFollows`), and that the sums fit.
  `MonitorStopsRightly` needs no hypothesis: `StopsInv` is the part of `IInv` that
  does not speak of sums.
* **`AppWriterProofs`.** The fuses break in the code's order (`FusesInOrder`), the
  notification that follows the last one leaves no pusher waiting
  (`NotLeftWaiting`), and every packet is somewhere (`Conserved`).
  `WriterImplementsContract` proves `Spec => Contract!Safety`: initial states map
  to initial states and every step to a step or a stutter of `Writer`, whose
  `Spec` is `Safety` and a fairness condition.
* **`AppWriterProofs`, the pacer.** The controller's lock and the pacer's are never held
  together, so a correction is handed over between them. `PacerInv` says that it is
  in one hand at most, in a call that a thread still has to make or in the pacer,
  and in one of them while the controller waits for it, unless the callback is not
  registered yet (`InOneHand`); registering it, the last call of the build
  (`RegistersLast`), replays the correction.
* **`SDKSourceProofs`.** The invariant follows each track by itself (`Each`): the
  generations of its subscriptions, its worker, its writer and its appsrc agree by
  where the worker is (`Generations`, `Lives`, `Piped`), a notice that was given is
  with the writer or in the channel (`Noticed`), and what is in the channel fits in
  what is left of the plan (`Budget`), which is why no operation is dropped.
  `Counting` ties `active` to the tracks it counts, `WillEnd` says that somebody
  still ends an egress without tracks, and `Joining` which subscriptions a join
  still waits for. A step of a worker disturbs its own track only.
* **`VideoBinProofs`, `VideoBin`.** What a layout computes plays no part; who owns a name does. A
  name is given once and leaves the track, the pads, the selector and the screen
  one by one (`NamesFollow`); a live track that is over has left the selector
  before its EOS gets there (`EOSFollows`), and the alpha of a pad is as the layout
  wants unless it is muted, also while its worker is between two steps
  (`AlphaFollows`).

* **`VideoBinProofs`, files.** Two attempts give the same output different names or the
  second is refused (`RetryNamesApart`). `FilesInv` adds that what was written was
  named by earlier attempts, and that the names of the configuration are of this
  one and may be retried.
* **`VideoBinProofs`, layouts.** `ManagerInv` says that the display order lists the
  tracks that are there, each once (`Orders`), which sorting and `stabilize` keep. From there the cells are arithmetic: rows and
  columns of a grid, the stage and the tiles of the speaker layouts lie within the
  canvas and apart (`LayoutPlacesAll`), and the scaled or cropped size of a picture
  keeps within its cell (`PictureFits`).
* **`VideoBinProofs`, requests.** `SoundInv` says what is true of a configuration in
  each phase. One that is accepted is `Configured`: it has the source of its request,
  and it passes one track through (`Remuxed`) or encodes what it asked for
  (`Planned`) with codecs that every output takes (`Coded`). One whose tracks are
  there is `Ready`: it can be built, or is an exception that `Unbuildable` names. A
  lemma says of each operator of `PipelineConfig` what it makes of a configuration,
  and the table of compatible codecs is compared with what the muxers take.

The library's induction theorems take a predicate, which the provers cannot
instantiate. Where a recursive function or a fold has to be evaluated (`AddEach` of the
session reporter, the sum of the monitor, the outputs of a request, the places of
a display order), the induction is stated for a *set* of
naturals or of subsets instead (`SetInduction`, `BySmaller`), and the
defining equation of the function is shown to have a solution first.

Only model-checked:

* Liveness, which needs fairness and `ENABLED`: `Settles`, `EndsFromLoop`,
  `SourceEndEndsRun`, `DrainCompletes`, `StalledStreamEnds`, `CloseReturns`,
  `OverloadRelieved`, `CloseCompletes`, `SelectorMovesOn`, `DriftConverges`, and of
  `KeepsContract` that a writer which ends or is drained finishes.
* `AudioPath`: `GapsBridged`. It is not true of every instance: it needs fewer faults
  than the three packets behind the position that make the filler re-anchor (see
  below), and counters wide enough for the longest gap that losses, pauses, jumps
  and refused pushes add up to. Under these hypotheses it would be arithmetic modulo
  widths that are constants, and a fold; this was not attempted.

## Where the code and its words disagree

The run `StreamOutputsRace` stands for the entry of `findings` in `PROJECT.json`:
two goroutines that take out one stream count it twice.

The modules state further properties that the code, or its comments, suggest and
that TLC refutes. They have no run of their own; to see the counterexample, take
the configuration of the row with the changes given and check only the property.

| Property | Configuration | What happens |
|---|---|---|
| `SessionReporter!DrainWaitsForPending` | `SessionReporter`, two workers, one egress each | a worker that is idle first closes the channel the others wait on (`io.go:273`; the test `TestDrainWaitsForPendingRetry`, `io_test.go:279`, has one worker) |
| `Controller!FinalStateAtReturn` | `Controller` | `SendEOS` reads the status, another goroutine writes a final one, `SendEOS` writes ENDING over it (`controller.go:571`) |
| `Controller!CompleteIsFinalized` | `Controller` | `updateStartTime` reads STARTING, `SendEOS` aborts and stops the pipeline, `updateStartTime` writes ACTIVE (`controller.go:935`-`936`), `Close` writes COMPLETE without an EOS |
| `Controller!FailureNotComplete` | `Controller` | `Close` reads a status that is not final, `OnError` fails the egress, `Close` writes COMPLETE (`controller.go:693`-`702`) |
| `Controller!StopEndsRun` | `Controller` | a stop just before the main loop runs is lost (`loop.Quit` before `loop.Run`) |
| `Service!KillFindsProcess` | `Service` | a kill during launch finds a handler without a process (`process.go:465`; `process.go:153` says that requests which arrive during startup wait on the connection) |
| `Service!OneHandlerPerEgress` | `Service`, `EgressOf <- Duplicate` | two requests with one egress id both pass the check before either is in the table |
| `Service!KillAllStops` | `Service`, `SPECIFICATION FairSpec` | a request in flight during `KillAll` is launched after it |
| `StreamOutputs!EmptyEnds` | `StreamOutputsRace`, `Initial = {a}`, `Removable = {a}`, `Failing = {}`, `Caller = {c1, c2}` | the count goes below zero and is never seen as zero |
| `StreamLiveness!SendingNotFailed` | `StreamLiveness` with the constants of `Streams` | the byte counter of before a reconnect is compared with the one after |
| `StreamLiveness!ProgressResetsBudget` | `StreamLiveness` with the constants of `Streams` | `Reset` loads `disconnectedAt` twice while the monitor clears it |
| `Monitor!ReservedCPUFits` | `Monitor`, `Workloads <- Estimates` | admission compares the estimate, the reservation takes the cost of the type |
| `Segments!BackupResolves` | `Segments` | the upload of the final playlist is the one at which primary storage fails: the playlist goes to backup storage, its init segment is not there, and the egress is complete |
| `Pipeline!WebsocketIsAudioOnly` | `Pipeline` | `output.go:311` says "websocket is audio-only"; a video track that is subscribed turns video on again |

Some narrower ones are part of properties that hold, as their exceptions.

* `PendingResolves` excepts a worker that exited: updates buffered behind a
  `CreateEgress` answered after `Drain` stay in `pending`. `PlaylistResolves`
  excepts a failed egress: the upload goroutine closes `uploadComplete` after an
  error too, so a playlist may list a segment that was never stored.
* `CompleteIsFinalized` excepts a session limit that fires before the `playing` fuse
  breaks: it stops the pipeline without an EOS.
* `AcceptedIsSound` excepts `Unbuildable`, requests that validation accepts and
  construction refuses: an MP3 file with another audio codec; a websocket among the
  streams of a first-version request, by its `ws://` URL or by its protocol without
  a URL, whose output type is then empty, which the table of codecs knows
  (`types.go:206`) and `BuildStreamBin` does not; images followed by a websocket
  (which turns video off after the images were accepted); a websocket or images
  whose subscribed tracks turn the other medium on again; and a remux whose track
  was not there after the three seconds that `awaitExpected` waits
  (`sdk.go:524`-`534`), so that its file has no type. A websocket without a URL
  (`WithoutUrl`) has nothing to dial and fails too.
* `RetryKeepsFiles` excepts images whose names have no suffix, of which
  `output_image.go:88` says that "NONE_OVERWRITE replaces the same file by design"
  and whose retry `retry_test.go:270` expects to be accepted; images named by
  time are accepted too and differ by the time. It also excepts a path that is
  `undone`: `replaceAndClean` cleans it once more after the names of room and
  participant were put in (`config/pipeline.go:1117`-`1123`), and a name with `../`
  takes the directory of the attempt away after the guard has seen it.
* `OutputsSettled` excepts an update that was sent while another was on its way:
  `streamUpdated` holds no lock, so an older one may come in last and stay.
* `NoEarlyEOS` is about live egresses: of a non-live one, a track whose EOS comes
  before it is made visible lets the EOS out early.

Reading and modelling met more that no property states. An EOS between the check of
the EOS timer and its `OnError` (`controller.go:617`-`618`) is reported as a frozen
pipeline, and a failure as a limit if the limit timer writes after it
(`Controller`). A mute that races the
end of `addAppSrcBin` is overwritten by its `setTrackVisible(true)`; an unmute
that races the removal of its track finds no pad and fails the egress; a stale
layout may be applied after a newer one; a non-live egress whose pipeline is at
EOS selects a pad that was never linked (`VideoBin`). An appsrc marked as added
after its writer finished gets no EOS, and what the pipeline was told about mute
may stay wrong (`AppWriter`). The last track may be counted as gone while another
is between `handleSubscribe` and `active.Inc`, and PLAYING of an old appsrc may be
taken by a newer writer (`SDKSource`). A re-anchor may be lost between the load
and the store of `reanchorBuffers`, and tier callbacks may be applied out of order
(`AudioPacing`). After a publisher's clock went back, a concealment packet may
reuse a number; so it does without that after three strays in a row, which the
filler takes for a restart of the clock: it re-anchors behind what was pushed and
conceals that again (`AudioPath` with `MaxFaults = 3` refutes `GapsBridged`). A playlist of fixed name below a prefix with
`{retry}` is overwritten by a retry, which `retry_test.go:127` expects
(`PipelineConfig`).

## Not modelled

`PROJECT.json` lists every part with its reason. In short: generated code, build
tools, logging and debug output have no state of interest; Chrome, Xvfb,
PulseAudio, storage services and GStreamer itself are external and appear as
what they may do; parsing, redaction and formatting appear only as the
identity of what they name. Of the configuration, replays, bit rates, key frame
intervals, credentials and the service's own file are left out, and so are the
deprecated fields for a single output.

Some modules simplify what they model, each at a place its comment names.

* `VideoBin!Init` has the selector on the filler. With tracks at the build the code
  sets `selectedPad` only and leaves `active-pad` to the selector until a handover
  (`video.go:1086`-`1089`).
* `AudioPacing!pacerRate` is exact. `applyTempoLocked` rounds the tempo to two
  decimals (`audio_pacer.go:136`), so nothing is said of rates below 0.005.
* `SDKSource!SubscribeFails` releases `subLock` and sends the result in one step
  (`track_worker.go:268`-`279`).
* `Monitor!HoldExpires` takes it that a web egress that lives has connected to pulse
  by the time its hold expires; `monitor.go:415`-`422` does not check.

## Plan

1. Sinks: image, file and MCAP sinks with the uploader, websocket; the web source.
2. Metrics accumulator, pulse reaper, replay requests.
3. `Service` composed with `Monitor` and a handler that may not answer.
4. Proofs: `GapsBridged`, for fewer faults than re-anchor the filler and any widths.
