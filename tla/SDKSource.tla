------------------------------- MODULE SDKSource -------------------------------
(***************************************************************************)
(* SDKSource: the tracks of a room that an egress without a browser        *)
(* records.  Every track has a worker, a goroutine that takes operations   *)
(* from its channel; callbacks of the room, the bus goroutine of the       *)
(* pipeline and the goroutine that closes the source submit them.  Joining *)
(* the room (joinRoom) waits for the first subscriptions; a track that is  *)
(* subscribed before the initialization ends is part of the pipeline that  *)
(* is built after it, a later one is added to the running pipeline.        *)
(*                                                                         *)
(* A writer is what the module AppWriter details; here it is live, it ends *)
(* by itself, or it has finished.  A worker never comes back once it       *)
(* exited: it exits on Close only, and submitOp creates none after that.   *)
(*                                                                         *)
(* The room (lksdk) calls back once at a time for one track.               *)
(***************************************************************************)
EXTENDS Integers, Sequences, FiniteSets

CONSTANTS
    Tracks,     \* the tracks of the room
    Video,      \* those that are video; the others are audio
    OpCap,      \* capacity of opChan
    Plans       \* the requests and the bounds under which each is explored

ASSUME SourceAssumption ==
    /\ IsFiniteSet(Tracks) /\ Tracks # {} /\ Video \subseteq Tracks
    /\ "bus" \notin Tracks                             \* Callers tells them apart
    /\ OpCap \in Nat \ {0}
    /\ \A p \in Plans : /\ p.kind \in {"composite", "passthrough", "room"}
                        /\ p.subs \in [Tracks -> Nat]      \* bound: subscriptions by the room
                        /\ p.events \subseteq {"playing", "provider", "stopped", "close"}  \* bound: what else happens

VARIABLES
    request,    \* the request, one of Plans
    join,       \* joinRoom: where it is, and initResultChan
    subLock,    \* the workers that hold subLock for reading
    known,      \* AudioTracks and VideoTracks
    built,      \* BuildReady is closed
    pipe,       \* the generation of the appsrc that the pipeline holds; 0: none
    worker,     \* the worker of each track: "none", "running" or "exited"
    ops,        \* its opChan
    state,      \* its state and the variables of the operation it processes
    writer,     \* the writer of each track
    active,     \* active
    closing,    \* closing
    closer,     \* CloseWriters: "idle", "snapshot", "send" or "closed"
    toClose,    \* its copy of the workers
    provider,   \* timeProvider is set
    tpSender,   \* SetTimeProvider: "idle", "send" or "done"
    call,       \* the call of submitOp that each caller is in
    room,       \* the room's view of each track
    ended,      \* endRecording
    handled     \* history: the generations whose PLAYING the bus goroutine handled

closeVars == <<closing, closer, toClose>>
tpVars == <<provider, tpSender>>
vars == <<request, join, subLock, known, built, pipe, worker, ops, state, writer, active,
          closeVars, tpVars, call, room, ended, handled>>

Bus == "bus"
Callers == Tracks \cup {Bus}

\* awaitTracks waits for every track of a track or track composite request and fails without
\* it; awaitExpected gives the tracks that are there some time.
Exact == request.kind = "composite"
\* The egress goes on when tracks leave: doCleanup's shouldContinue.
Continues == request.kind = "room"

\* The tracks that the request selects.
Selected == {t \in Tracks : request.subs[t] > 0}

Runs(t) == worker[t] = "running"

NoCall == [at |-> "idle", track |-> Bus, op |-> [type |-> "none"]]
IdleState == [at |-> "idle", gen |-> 0, postInit |-> FALSE, ch |-> FALSE, left |-> 0]
NoWriter == [life |-> "none", playing |-> FALSE, clock |-> FALSE]

Init ==
    /\ request \in Plans
    /\ join = [at |-> IF Exact THEN "await" ELSE "join", results |-> <<>>, got |-> 0,
               cap |-> IF Exact THEN Cardinality(Selected) ELSE 0]
    /\ subLock = {} /\ known = {} /\ built = FALSE
    /\ pipe = [t \in Tracks |-> 0]
    /\ worker = [t \in Tracks |-> "none"]
    /\ ops = [t \in Tracks |-> <<>>]
    /\ state = [t \in Tracks |-> IdleState]
    /\ writer = [t \in Tracks |-> NoWriter]
    /\ active = 0
    /\ closing = FALSE /\ closer = "idle" /\ toClose = {}
    /\ provider = FALSE /\ tpSender = "idle"
    /\ call = [c \in Callers |-> NoCall]
    /\ room = [t \in Tracks |-> [subs |-> 0, held |-> FALSE, failed |-> FALSE]]
    /\ ended = FALSE
    /\ handled = [t \in Tracks |-> {}]

-----------------------------------------------------------------------------
(* joinRoom *)

AwaitsResults == join.at = "await"

\* The results are no longer read.
JoinGoes(place) == [at |-> place, results |-> <<>>, got |-> 0, cap |-> 0]

\* awaitExpected: the tracks that are published are counted, and waited for unless there are none.
StartsAwaiting ==
    /\ join.at = "join"
    /\ \E n \in 0..Cardinality(Selected) :
           join' = [join EXCEPT !.at = IF n = 0 THEN "lock" ELSE "await", !.cap = n]
    /\ UNCHANGED <<request, subLock, known, built, pipe, worker, ops, state, writer, active,
                   closeVars, tpVars, call, room, ended, handled>>

\* The room is left when the source cannot be created.
ReceivesResult ==
    /\ AwaitsResults /\ join.results # <<>>
    /\ join' = IF ~Head(join.results) THEN JoinGoes("failed")
               ELSE IF join.got + 1 = join.cap THEN JoinGoes("lock")
               ELSE [join EXCEPT !.results = Tail(@), !.got = @ + 1]
    /\ UNCHANGED <<request, subLock, known, built, pipe, worker, ops, state, writer, active,
                   closeVars, tpVars, call, room, ended, handled>>

AwaitTimesOut ==
    /\ AwaitsResults
    /\ join' = JoinGoes(IF Exact THEN "failed" ELSE "lock")
    /\ UNCHANGED <<request, subLock, known, built, pipe, worker, ops, state, writer, active,
                   closeVars, tpVars, call, room, ended, handled>>

\* Mutant of CompletesInit: initialized is broken without subLock.
BugCompletesInit ==
    /\ join.at = "lock"
    /\ join' = [join EXCEPT !.at = "done"]
    /\ UNCHANGED <<request, subLock, known, built, pipe, worker, ops, state, writer, active,
                   closeVars, tpVars, call, room, ended, handled>>

\* completeInit waits for the subscriptions under way; a waiting writer of a RWMutex lets
\* no new reader in (SubscribeStarts).
CompletesInit ==
    /\ join.at = "lock" /\ subLock = {}
    /\ join' = [join EXCEPT !.at = "done"]
    /\ UNCHANGED <<request, subLock, known, built, pipe, worker, ops, state, writer, active,
                   closeVars, tpVars, call, room, ended, handled>>

\* The pipeline is built from the tracks that are known, then BuildReady is closed.
BuildsPipeline ==
    /\ join.at = "done" /\ ~built
    /\ built' = TRUE
    /\ pipe' = [t \in Tracks |-> IF t \in known THEN state[t].gen ELSE 0]
    /\ UNCHANGED <<request, join, subLock, known, worker, ops, state, writer, active,
                   closeVars, tpVars, call, room, ended, handled>>

-----------------------------------------------------------------------------
(* submitOp, and who calls it *)

Submits(c, t, op) ==
    /\ call[c].at = "idle" /\ join.at # "failed"
    /\ call' = [call EXCEPT ![c] = IF closing THEN NoCall ELSE [at |-> "submit", track |-> t, op |-> op]]

\* onTrackSubscribed.
TrackSubscribed(t) ==
    /\ ~room[t].held /\ room[t].subs < request.subs[t]
    /\ room' = [room EXCEPT ![t].held = TRUE, ![t].subs = @ + 1]
    /\ IF join.at = "done" /\ Exact
          THEN call[t].at = "idle" /\ UNCHANGED call
          ELSE Submits(t, t, [type |-> "Subscribe", ch |-> AwaitsResults])
    /\ UNCHANGED <<request, join, subLock, known, built, pipe, worker, ops, state, writer, active,
                   closeVars, tpVars, ended, handled>>

\* onTrackUnsubscribed.
TrackUnsubscribed(t) ==
    /\ room[t].held
    /\ room' = [room EXCEPT ![t].held = FALSE]
    /\ IF worker[t] = "none"
          THEN call[t].at = "idle" /\ UNCHANGED call
          ELSE Submits(t, t, [type |-> "Unsubscribe"])
    /\ UNCHANGED <<request, join, subLock, known, built, pipe, worker, ops, state, writer, active,
                   closeVars, tpVars, ended, handled>>

\* The appsrc of a generation was part of the pipeline.
Linked(t, g) == built /\ (g < state[t].gen \/ state[t].at \notin {"creating", "orphan", "linking"})

\* Playing: an appsrc posts that it plays, the bus goroutine handles that some time later.  The
\* message names the track; the generation is the one that the worker has at the call.
BusPlaying(t) ==
    /\ "playing" \in request.events
    /\ \E g \in 1..state[t].gen \ handled[t] :
           /\ Linked(t, g)
           /\ handled' = [handled EXCEPT ![t] = @ \cup {g}]
    /\ Submits(Bus, t, [type |-> "Playing", gen |-> state[t].gen])
    /\ UNCHANGED <<request, join, subLock, known, built, pipe, worker, ops, state, writer, active,
                   closeVars, tpVars, room, ended>>

\* StreamStopped: an appsrc could not negotiate.
BusStreamStopped(t) ==
    /\ "stopped" \in request.events /\ built /\ pipe[t] # 0 /\ ~room[t].failed
    /\ room' = [room EXCEPT ![t].failed = TRUE]
    /\ Submits(Bus, t, [type |-> "Finished"])
    /\ UNCHANGED <<request, join, subLock, known, built, pipe, worker, ops, state, writer, active,
                   closeVars, tpVars, ended, handled>>

\* Mutant of MayCreate: closing is only looked at before the lock.
BugMayCreate == TRUE

\* getOrCreateWorker: under workersMu, no worker is created once the source is closing.
MayCreate == ~closing

\* The operation is dropped without a worker, or when it exited.
SendsOp(c) ==
    LET t == call[c].track
        dropped == (worker[t] = "none" /\ ~MayCreate) \/ worker[t] = "exited"
    IN
    /\ call[c].at = "submit"
    /\ \/ dropped /\ UNCHANGED <<worker, ops>>
       \/ /\ ~dropped /\ Len(ops[t]) < OpCap
          /\ worker' = [worker EXCEPT ![t] = "running"]
          /\ ops' = [ops EXCEPT ![t] = Append(@, call[c].op)]
    /\ call' = [call EXCEPT ![c] = NoCall]
    /\ UNCHANGED <<request, join, subLock, known, built, pipe, state, writer, active,
                   closeVars, tpVars, room, ended, handled>>

\* SetTimeProvider, by the bus goroutine, when the pipeline plays.
StoresProvider ==
    /\ tpSender = "idle" /\ "provider" \in request.events /\ built /\ call[Bus].at = "idle"
    /\ provider' = TRUE /\ tpSender' = "send"
    /\ UNCHANGED <<request, join, subLock, known, built, pipe, worker, ops, state, writer, active,
                   closeVars, call, room, ended, handled>>

\* A full channel loses the operation.
ToldProvider(t) == Runs(t) /\ Len(ops[t]) < OpCap

SendsProvider ==
    /\ tpSender = "send"
    /\ tpSender' = "done"
    /\ ops' = [t \in Tracks |-> IF ToldProvider(t) THEN Append(ops[t], [type |-> "SetTimeProvider"])
                                                   ELSE ops[t]]
    /\ UNCHANGED <<request, join, subLock, known, built, pipe, worker, state, writer, active,
                   closeVars, provider, call, room, ended, handled>>

-----------------------------------------------------------------------------
(* CloseWriters *)

CloseStarts ==
    /\ closer = "idle" /\ "close" \in request.events /\ built
    /\ closing' = TRUE /\ closer' = "snapshot"
    /\ UNCHANGED <<request, join, subLock, known, built, pipe, worker, ops, state, writer, active,
                   toClose, tpVars, call, room, ended, handled>>

CloseSnapshots ==
    /\ closer = "snapshot"
    /\ closer' = "send"
    /\ toClose' = {t \in Tracks : worker[t] = "running"}
    /\ UNCHANGED <<request, join, subLock, known, built, pipe, worker, ops, state, writer, active,
                   closing, tpVars, call, room, ended, handled>>

CloseSends(t) ==
    /\ closer = "send" /\ t \in toClose /\ Len(ops[t]) < OpCap
    /\ toClose' = toClose \ {t}
    /\ ops' = [ops EXCEPT ![t] = Append(@, [type |-> "Close"])]
    /\ UNCHANGED <<request, join, subLock, known, built, pipe, worker, state, writer, active,
                   closing, closer, tpVars, call, room, ended, handled>>

Closed ==
    /\ closer = "send" /\ toClose = {}
    /\ closer' = "closed"
    /\ UNCHANGED <<request, join, subLock, known, built, pipe, worker, ops, state, writer, active,
                   closing, toClose, tpVars, call, room, ended, handled>>

-----------------------------------------------------------------------------
(* The worker of a track: processOp *)

outside == <<request, built, closeVars, tpVars, call, room, handled>>

At(t, place) == Runs(t) /\ state[t].at = place

\* The worker is at a place and takes an operation of this type.
Takes(t, place, type) ==
    /\ At(t, place) /\ ops[t] # <<>> /\ Head(ops[t]).type = type
    /\ ops' = [ops EXCEPT ![t] = Tail(@)]

Goes(t, place) == state' = [state EXCEPT ![t].at = place]

\* What it would not do in its state is logged and dropped.
Drops(t) ==
    /\ \/ Takes(t, "active", "Subscribe")
       \/ \E type \in {"Playing", "SetTimeProvider", "Unsubscribe", "Finished"} : Takes(t, "idle", type)
    /\ UNCHANGED <<outside, join, subLock, known, pipe, worker, state, writer, active, ended>>

\* sendInitResult: without a channel, or when it is full, the result is lost.
SendResult(t, ok) ==
    join' = IF state[t].ch /\ AwaitsResults /\ Len(join.results) < join.cap
               THEN [join EXCEPT !.results = Append(@, ok)] ELSE join

\* handleSubscribe takes subLock and sees whether the initialization is over.
SubscribeStarts(t) ==
    /\ Takes(t, "idle", "Subscribe")
    /\ join.at # "lock"
    /\ subLock' = subLock \cup {t}
    /\ state' = [state EXCEPT ![t].at = "creating", ![t].postInit = join.at = "done",
                              ![t].ch = Head(ops[t]).ch, ![t].gen = @ + 1]
    /\ UNCHANGED <<outside, join, known, pipe, worker, writer, active, ended>>

Forget(t) == [state EXCEPT ![t].at = "idle", ![t].postInit = FALSE, ![t].ch = FALSE]

\* Mutant of SubscribeFails: a failure is reported as a subscription.
BugSubscribeFails(t) ==
    /\ At(t, "creating")
    /\ subLock' = subLock \ {t}
    /\ SendResult(t, TRUE)
    /\ state' = Forget(t)
    /\ UNCHANGED <<outside, known, pipe, worker, ops, writer, active, ended>>

\* The request cannot take the track, or no writer can be created for it: joinRoom is told;
\* after the initialization, OnError (Controller).  The result is sent by a deferred call,
\* right after the lock is released; the two are one step.
SubscribeFails(t) ==
    /\ At(t, "creating")
    /\ subLock' = subLock \ {t}
    /\ IF state[t].postInit THEN UNCHANGED join ELSE SendResult(t, FALSE)
    /\ state' = Forget(t)
    /\ UNCHANGED <<outside, known, pipe, worker, ops, writer, active, ended>>

NewWriter == [life |-> "live", playing |-> FALSE, clock |-> provider]

\* The source closed meanwhile: the writer is an orphan.  Otherwise the track is known to the
\* build, if that is still to come, before subLock is released.
WriterCreated(t) ==
    /\ At(t, "creating")
    /\ writer' = [writer EXCEPT ![t] = NewWriter]
    /\ subLock' = subLock \ {t}
    /\ IF closing
          THEN Goes(t, "orphan") /\ UNCHANGED <<join, known>>
          ELSE /\ known' = IF state[t].postInit THEN known ELSE known \cup {t}
               /\ SendResult(t, TRUE)
               /\ Goes(t, IF state[t].postInit THEN "linking" ELSE "activating")
    /\ UNCHANGED <<outside, pipe, worker, ops, active, ended>>

\* handleOrphanedWriter, which drained it.
OrphanDrained(t) ==
    /\ At(t, "orphan") /\ writer[t].life = "finished"
    /\ state' = Forget(t)
    /\ writer' = [writer EXCEPT ![t] = NoWriter]
    /\ UNCHANGED <<outside, join, subLock, known, pipe, worker, ops, active, ended>>

\* OnTrackAdded, once the pipeline is built.
Links(t) ==
    /\ At(t, "linking") /\ built
    /\ pipe' = [pipe EXCEPT ![t] = state[t].gen]
    /\ Goes(t, "activating")
    /\ UNCHANGED <<outside, join, subLock, known, worker, ops, writer, active, ended>>

Activates(t) ==
    /\ At(t, "activating")
    /\ active' = active + 1
    /\ state' = [Forget(t) EXCEPT ![t].at = "active"]
    /\ UNCHANGED <<outside, join, subLock, known, pipe, worker, ops, writer, ended>>

TakesPlaying(t) ==
    /\ Takes(t, "active", "Playing")
    /\ writer' = [writer EXCEPT ![t].playing = @ \/ Head(ops[t]).gen = state[t].gen]
    /\ UNCHANGED <<outside, join, subLock, known, pipe, worker, state, active, ended>>

TakesProvider(t) ==
    /\ Takes(t, "active", "SetTimeProvider")
    /\ writer' = [writer EXCEPT ![t].clock = TRUE]
    /\ UNCHANGED <<outside, join, subLock, known, pipe, worker, state, active, ended>>

\* The operations that are still in the channel are never taken.
Exits(t) ==
    /\ worker' = [worker EXCEPT ![t] = "exited"]
    /\ ops' = [ops EXCEPT ![t] = <<>>]

\* OpClose: an active writer is drained first.
TakesClose(t) ==
    /\ \/ Takes(t, "active", "Close") /\ Goes(t, "closing") /\ UNCHANGED worker
       \/ /\ At(t, "idle") /\ ops[t] # <<>> /\ Head(ops[t]).type = "Close"
          /\ Exits(t) /\ UNCHANGED state
    /\ UNCHANGED <<outside, join, subLock, known, pipe, writer, active, ended>>

CloseDrained(t) ==
    /\ At(t, "closing") /\ writer[t].life = "finished"
    /\ active' = active - 1
    /\ state' = Forget(t)
    /\ writer' = [writer EXCEPT ![t] = NoWriter]
    /\ Exits(t)
    /\ UNCHANGED <<outside, join, subLock, known, pipe, ended>>

\* OpUnsubscribe: startCleanup waits for the writer to end by itself, or for the source to close.
TakesUnsubscribe(t) ==
    /\ Takes(t, "active", "Unsubscribe")
    /\ Goes(t, "unsubscribed")
    /\ UNCHANGED <<outside, join, subLock, known, pipe, worker, writer, active, ended>>

UnsubscribeCloses(t) ==
    /\ At(t, "unsubscribed") /\ closer = "closed"
    /\ Goes(t, "unsubscribedDrain")
    /\ UNCHANGED <<outside, join, subLock, known, pipe, worker, ops, writer, active, ended>>

\* doCleanup: the track is no longer counted.  An egress that continues drains audio first and
\* takes video out of the pipeline first.
CleanupStarts(t) ==
    /\ active' = active - 1
    /\ state' = [state EXCEPT ![t].left = active - 1,
                              ![t].at = IF Continues /\ t \in Video THEN "removing" ELSE "draining"]

TakesFinished(t) ==
    /\ Takes(t, "active", "Finished")
    /\ CleanupStarts(t)
    /\ UNCHANGED <<outside, join, subLock, known, pipe, worker, writer, ended>>

WriterEnded(t) ==
    /\ At(t, "unsubscribed") \/ At(t, "unsubscribedDrain")
    /\ writer[t].life = "finished"
    /\ CleanupStarts(t)
    /\ UNCHANGED <<outside, join, subLock, known, pipe, worker, ops, writer, ended>>

Clean(t) ==
    /\ state' = [Forget(t) EXCEPT ![t].left = 0]
    /\ writer' = [writer EXCEPT ![t] = NoWriter]

\* The last track of an egress that does not continue ends it.
Drained(t) ==
    /\ At(t, "draining") /\ writer[t].life = "finished"
    /\ IF Continues THEN Goes(t, "removing") /\ UNCHANGED <<writer, ended>>
                    ELSE Clean(t) /\ ended' = (ended \/ state[t].left = 0)
    /\ UNCHANGED <<outside, join, subLock, known, pipe, worker, ops, active>>

\* OnTrackRemoved, once the pipeline is built.
Removes(t) ==
    /\ At(t, "removing") /\ built
    /\ pipe' = [pipe EXCEPT ![t] = 0]
    /\ IF t \in Video THEN Goes(t, "removed") /\ UNCHANGED writer
                      ELSE Clean(t)
    /\ UNCHANGED <<outside, join, subLock, known, worker, ops, active, ended>>

RemovedDrained(t) ==
    /\ At(t, "removed") /\ writer[t].life = "finished"
    /\ Clean(t)
    /\ UNCHANGED <<outside, join, subLock, known, pipe, worker, ops, active, ended>>

-----------------------------------------------------------------------------
(* The writer of a track *)

Draining(t) == state[t].at \in {"orphan", "closing", "unsubscribedDrain", "draining", "removed"}

\* The track ended, or was unsubscribed for some time: its writer has a video taken out of the
\* pipeline before it ends the stream.
WriterEnds(t) ==
    /\ writer[t].life = "live" /\ ~Draining(t)
    /\ writer' = [writer EXCEPT ![t].life = "ending"]
    /\ pipe' = IF Continues /\ t \in Video THEN [pipe EXCEPT ![t] = 0] ELSE pipe
    /\ UNCHANGED <<outside, join, subLock, known, worker, ops, state, active, ended>>

WriterFinishes(t) ==
    /\ writer[t].life = "ending" \/ (writer[t].life = "live" /\ Draining(t))
    /\ writer' = [writer EXCEPT ![t].life = "finished"]
    /\ UNCHANGED <<outside, join, subLock, known, pipe, worker, ops, state, active, ended>>

-----------------------------------------------------------------------------
WorkerStep(t) ==
    \/ Drops(t) \/ SubscribeStarts(t) \/ SubscribeFails(t) \/ WriterCreated(t)
    \/ OrphanDrained(t) \/ Links(t) \/ Activates(t) \/ TakesPlaying(t) \/ TakesProvider(t)
    \/ TakesClose(t) \/ CloseDrained(t) \/ TakesUnsubscribe(t) \/ UnsubscribeCloses(t)
    \/ TakesFinished(t) \/ WriterEnded(t) \/ Drained(t) \/ Removes(t) \/ RemovedDrained(t)

RoomStep(t) == TrackSubscribed(t) \/ TrackUnsubscribed(t)

BusStep(t) == BusPlaying(t) \/ BusStreamStopped(t)

JoinStep == StartsAwaiting \/ ReceivesResult \/ AwaitTimesOut \/ CompletesInit \/ BuildsPipeline

CloseStep == CloseSnapshots \/ (\E t \in Tracks : CloseSends(t)) \/ Closed

Next ==
    \/ JoinStep \/ CloseStarts \/ CloseStep \/ StoresProvider \/ SendsProvider
    \/ \E t \in Tracks : RoomStep(t) \/ BusStep(t) \/ WorkerStep(t) \/ WriterEnds(t) \/ WriterFinishes(t)
    \/ \E c \in Callers : SendsOp(c)

\* Every goroutine is scheduled; a writer that is drained finishes (AppWriter).
Fairness ==
    /\ WF_vars(JoinStep) /\ WF_vars(CloseStep)
    /\ \A t \in Tracks : WF_vars(WorkerStep(t)) /\ WF_vars(WriterFinishes(t))
    /\ \A c \in Callers : WF_vars(SendsOp(c))

Spec == Init /\ [][Next]_vars /\ Fairness

-----------------------------------------------------------------------------
(* Properties *)

TypeOK ==
    /\ request \in Plans
    /\ join.at \in {"join", "await", "lock", "done", "failed"}
    /\ subLock \subseteq Tracks /\ known \subseteq Tracks
    /\ \A t \in Tracks : pipe[t] \in 0..request.subs[t]
    /\ worker \in [Tracks -> {"none", "running", "exited"}]
    /\ \A t \in Tracks : Len(ops[t]) <= OpCap
    /\ active \in 0..Cardinality(Tracks)
    /\ toClose \subseteq Tracks

\* Once the pipeline is built, it holds the appsrc of every active writer that lives: no track
\* is missed by both the build and the dynamic add, and the removal of an earlier writer never
\* takes out a later one.  A track of an egress that continues leaves nothing behind.
PipelineFollowsTracks ==
    built => \A t \in Tracks :
        /\ At(t, "active") /\ writer[t].life = "live" => pipe[t] = state[t].gen
        /\ Continues /\ At(t, "idle") => pipe[t] = 0

\* A track or track composite egress that starts has every track of its request, unless one
\* already left: results are only counted, and one track may send two.
StartsComplete == Exact /\ join.at = "done" => known = Selected \/ ended

\* When the last track of an egress that does not continue is gone, it ends.
AllGoneEnds ==
    /\ ~Continues /\ ~closing
    /\ known = Selected
    /\ \A t \in Selected : At(t, "idle") /\ ops[t] = <<>>
    => ended

Queued(t, type) ==
    \/ \E i \in 1..Len(ops[t]) : ops[t][i].type = type
    \/ \E c \in Callers : call[c].track = t /\ call[c].op.type = type

\* No notice is lost on the way to a writer that is being created: an active writer plays once
\* its appsrc does, and has the time provider once that is set.
NoticesArrive ==
    \A t \in Tracks : At(t, "active") /\ ~closing =>
        /\ state[t].gen \in handled[t] /\ ~Queued(t, "Playing") => writer[t].playing
        /\ tpSender = "done" /\ ~Queued(t, "SetTimeProvider") => writer[t].clock

\* Closing ends every worker and every writer, also those that were being created.
CloseCompletes ==
    closing ~> \A t \in Tracks : ~Runs(t) /\ writer[t].life = "none"

\* The pipeline has the writers the tracks have, and each of them has had its notices
\* (onTrackSubscribed, runWorker, SetTimeProvider).
TracksFollowed == TypeOK /\ PipelineFollowsTracks /\ NoticesArrive

\* The egress starts with all its tracks and ends with the last of them (awaitExpected,
\* doCleanup).
TracksDecide == StartsComplete /\ AllGoneEnds
=============================================================================
