---------------------------- MODULE AudioPacing ----------------------------
(***************************************************************************)
(* The correction of an audio track's clock drift: the tempo controller    *)
(* (pkg/pipeline/tempo/controller.go) decides what to correct, the audio   *)
(* pacer (pkg/pipeline/builder/audio_pacer.go) stretches the audio until   *)
(* it is.                                                                  *)
(*                                                                         *)
(* The actors: sender reports (SetDrift), the streaming thread of the      *)
(* pitch element (onInput), the thread that flushes it, and the worker     *)
(* that builds the track's bin and registers the callbacks.  The           *)
(* controller's lock and the pacer's lock are never held together over a   *)
(* callback: what a thread decided under one it applies later under the    *)
(* other.                                                                  *)
(*                                                                         *)
(* Time is counted in units of half a threshold.  A buffer is stretched by *)
(* one unit at the usual rate and by two at the boosted one.               *)
(***************************************************************************)
EXTENDS Integers, Sequences

CONSTANTS
    Sizes,      \* sizes of the drifts, either way, a sender report may measure
    SoftCap, HardCap,
    MaxChanges, \* bound: sender reports that measure another drift
    MaxFlushes  \* bound: flushes of the pitch element

VARIABLES
    drift, corrected, current, tier, \* the controller
    registered,                      \* the callbacks that are set
    active, target, rate, compensation, reanchor, \* the pacer
    thread,                          \* [Threads -> what the thread is to do next]
    changes, flushes

vars == <<drift, corrected, current, tier, registered, active, target, rate,
          compensation, reanchor, thread, changes, flushes>>
controller == <<drift, corrected, current, tier>>
pacer == <<active, target, rate, compensation, reanchor>>

DefaultThreshold == 2
Abs(n) == IF n < 0 THEN -n ELSE n

\* A thread's program: the calls it still has to make, in order.
Threads == {"report", "stream", "flush", "build"}
Call(op, n) == [op |-> op, n |-> n]
Todo(t, op) == thread[t] # <<>> /\ thread[t][1].op = op
Rest(t) == [i \in 1..(Len(thread[t]) - 1) |-> thread[t][i + 1]]
Then(t, calls) == thread' = [thread EXCEPT ![t] = calls \o Rest(t)]
Begins(t, calls) == thread[t] = <<>> /\ thread' = [thread EXCEPT ![t] = calls]

Init ==
    /\ drift = 0 /\ corrected = 0 /\ current = 0 /\ tier = "normal"
    /\ registered = {}
    /\ active = FALSE /\ target = 0 /\ rate = 0 /\ compensation = 0 /\ reanchor = 2
    /\ thread = [t \in Threads |-> IF t = "build"
                   THEN << Call("onTierChange", 0), Call("onDrift", 0) >> ELSE <<>>]
    /\ changes = 0 /\ flushes = 0

-----------------------------------------------------------------------------
\* The controller, under its lock.

tierFor(effective) ==
    IF Abs(effective) >= HardCap THEN "hard"
    ELSE IF Abs(effective) >= SoftCap THEN "soft" ELSE "normal"

\* The correction to start for what is still uncorrected, 0 if there is none.
Correction(effective) == IF Abs(effective) >= DefaultThreshold THEN effective ELSE 0

\* The callbacks a thread makes once it has released the lock.
Callbacks(toStart, newTier) ==
    (IF toStart # 0 /\ "drift" \in registered THEN << Call("start", toStart) >> ELSE <<>>)
    \o (IF newTier # tier /\ "tier" \in registered
        THEN << Call(newTier, 0) >> ELSE <<>>)

MayStart == current = 0

SetDrift(d) ==
    LET effective == d - corrected
        toStart   == IF MayStart THEN Correction(effective) ELSE 0
    IN /\ d # drift => changes < MaxChanges
       /\ changes' = IF d # drift THEN changes + 1 ELSE changes
       /\ drift' = d
       /\ current' = IF toStart # 0 THEN toStart ELSE current
       /\ tier' = tierFor(effective)
       /\ Begins("report", Callbacks(toStart, tierFor(effective)))
       /\ UNCHANGED <<corrected, registered, pacer, flushes>>

\* The mutation: the correction is finished without being credited.
BugCredits(actual) == corrected' = corrected

Credits(actual) == corrected' = corrected + actual

DriftProcessed ==
    /\ Todo("stream", "processed")
    /\ Credits(thread["stream"][1].n)
    /\ LET effective == drift - corrected'
           toStart   == Correction(effective)
       IN /\ current' = toStart
          /\ tier' = tierFor(effective)
          /\ Then("stream", Callbacks(toStart, tierFor(effective)))
    /\ UNCHANGED <<drift, registered, pacer, changes, flushes>>

CancelInFlight ==
    /\ Todo("flush", "cancel")
    /\ current' = 0
    /\ Then("flush", <<>>)
    /\ UNCHANGED <<drift, corrected, tier, registered, pacer, changes, flushes>>

\* OnTierChange and OnDriftDetectedCallback replay what is already decided.
OnTierChange ==
    /\ Todo("build", "onTierChange")
    /\ registered' = registered \cup {"tier"}
    /\ Then("build", IF tier # "normal" THEN << Call(tier, 0) >> ELSE <<>>)
    /\ UNCHANGED <<controller, pacer, changes, flushes>>

Replays == IF current # 0 THEN << Call("start", current) >> ELSE <<>>

OnDriftDetectedCallback ==
    /\ Todo("build", "onDrift")
    /\ registered' = registered \cup {"drift"}
    /\ Then("build", Replays)
    /\ UNCHANGED <<controller, pacer, changes, flushes>>

-----------------------------------------------------------------------------
\* The pacer, under its lock.

\* pacerRate: the stretch of a buffer, of the sign of the drift.  applyTempoLocked rounds
\* the tempo to two decimals: an AdjustmentRate below 0.005 would be no stretch at all,
\* and is not modelled.
pacerRate(d, adjustment) == IF d > 0 THEN adjustment ELSE -adjustment

\* start refuses a second correction, and refuses one until pitch has anchored
\* again after a flush: the controller then forgets it, and the next sender report
\* arms it again.
MayArm == ~active

Start(t) ==
    /\ Todo(t, "start")
    /\ LET d == thread[t][1].n
           boosted == tier # "normal"
       IN CASE MayArm /\ reanchor = 0 ->
                 /\ active' = TRUE /\ target' = d /\ compensation' = 0
                 /\ rate' = pacerRate(d, IF boosted THEN 2 ELSE 1)
                 /\ UNCHANGED <<current, reanchor>>
            [] MayArm /\ reanchor > 0 ->
                 /\ current' = 0
                 /\ UNCHANGED pacer
            [] OTHER -> UNCHANGED <<current, pacer>>
    /\ Then(t, <<>>)
    /\ UNCHANGED <<drift, corrected, tier, registered, changes, flushes>>

\* boost and brake, as the tier the caller saw says.
TierChanged(t) ==
    /\ \E op \in {"normal", "soft", "hard"} :
          /\ Todo(t, op)
          /\ rate' = IF active THEN pacerRate(target, IF op = "normal" THEN 1 ELSE 2)
                     ELSE rate
    /\ Then(t, <<>>)
    /\ UNCHANGED <<controller, registered, active, target, compensation, reanchor,
                   changes, flushes>>

\* onInput: the reanchor count is read and written in two steps.
InputReanchors ==
    /\ reanchor > 0
    /\ Begins("stream", << Call("reanchor", reanchor - 1) >>)
    /\ UNCHANGED <<controller, registered, pacer, changes, flushes>>

Reanchors ==
    /\ Todo("stream", "reanchor")
    /\ reanchor' = thread["stream"][1].n
    /\ Then("stream", <<>>)
    /\ UNCHANGED <<controller, registered, active, target, rate, compensation, changes,
                   flushes>>

\* A buffer that finds a correction running: it first completes one that has
\* covered its target.
Input ==
    /\ reanchor = 0 /\ active
    /\ Begins("stream", IF Abs(compensation) >= Abs(target)
                        THEN << Call("complete", compensation), Call("credit", 0) >>
                        ELSE << Call("credit", 0) >>)
    /\ UNCHANGED <<controller, registered, pacer, changes, flushes>>

\* complete: stop() answers whether it, and not a flush, ended the correction.
Complete ==
    /\ Todo("stream", "complete")
    /\ active' = FALSE
    /\ rate' = IF active THEN 0 ELSE rate
    /\ Then("stream", IF active THEN << Call("processed", thread["stream"][1].n) >>
                      ELSE <<>>)
    /\ UNCHANGED <<controller, registered, target, compensation, reanchor, changes,
                   flushes>>

Credit ==
    /\ Todo("stream", "credit")
    /\ compensation' = IF active THEN compensation + rate ELSE compensation
    /\ Then("stream", <<>>)
    /\ UNCHANGED <<controller, registered, active, target, rate, reanchor, changes,
                   flushes>>

\* The mutation: the correction is ended and the controller is not told.
BugCancelled == <<>>

Cancelled == IF active THEN << Call("cancel", 0) >> ELSE <<>>

\* cancelOnFlush, from the probe of a flush event.
CancelOnFlush ==
    /\ flushes < MaxFlushes /\ flushes' = flushes + 1
    /\ reanchor' = 2
    /\ active' = FALSE
    /\ rate' = IF active THEN 0 ELSE rate
    /\ Begins("flush", Cancelled)
    /\ UNCHANGED <<controller, registered, target, compensation, changes>>

-----------------------------------------------------------------------------
Report == \E d \in Sizes : SetDrift(d) \/ SetDrift(-d)
Repeats == thread["report"] = <<>> /\ SetDrift(drift)
Streams == InputReanchors \/ Reanchors \/ Input \/ Complete \/ Credit \/ DriftProcessed

Next ==
    \/ Report
    \/ \E t \in Threads : Start(t) \/ TierChanged(t)
    \/ Streams
    \/ CancelOnFlush \/ CancelInFlight
    \/ OnTierChange \/ OnDriftDetectedCallback

\* Sender reports and buffers keep coming; a call that was begun is finished.
Fairness ==
    /\ WF_vars(Repeats) /\ WF_vars(Streams)
    /\ WF_vars(CancelInFlight)
    /\ WF_vars(OnTierChange \/ OnDriftDetectedCallback)
    /\ \A t \in Threads : WF_vars(Start(t) \/ TierChanged(t))

Spec == Init /\ [][Next]_vars /\ Fairness

-----------------------------------------------------------------------------
\* Properties.

\* A call to start, or one that will finish or cancel the correction, is under way.
UnderWay ==
    \/ \E t \in Threads : \E i \in 1..Len(thread[t]) :
          thread[t][i].op \in {"start", "processed", "cancel"}
    \/ "drift" \notin registered

\* The controller never waits for a correction that nobody works on: it would start
\* no other, and the drift would grow for good.
NotForgotten == current # 0 => active \/ UnderWay

\* The pacer is never asked to begin a correction while one is running, which the
\* code calls a "tempo controller bug" (audio_pacer.go:85).
OneAtATime == \A t \in Threads : Todo(t, "start") => ~active

\* Once the drift is steady and no flush disturbs it, it is corrected to within the
\* threshold.
Converges == <>[](Abs(drift - corrected) < DefaultThreshold)
=============================================================================
