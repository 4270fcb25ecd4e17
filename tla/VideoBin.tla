------------------------------ MODULE VideoBin ------------------------------
(***************************************************************************)
(* The video bin of a running SDK egress (pkg/pipeline/builder/video.go)   *)
(* and the part of gstreamer.Bin it uses (pkg/gstreamer/bin.go).           *)
(*                                                                         *)
(* Decoded tracks meet in one element.  Without compositing it is an       *)
(* input-selector: one pad is active, the filler (videotestsrc) stands in  *)
(* when no track is.  With compositing it is a compositor: every track has *)
(* a cell of the layout, and a muted track is hidden by its pad's alpha.   *)
(*                                                                         *)
(* The actors: each track's worker (onTrackAdded, onTrackRemoved), each    *)
(* track's writer (onTrackMuted, onTrackUnmuted), the room's callback for  *)
(* active speakers, the streaming threads (buffers and EOS on a pad), the  *)
(* GLib loop that detaches bins, and the controller that sends EOS.  The   *)
(* bin's b.mu, the layout's lock and the pipeline's state lock make single *)
(* steps; everything between two of them is interleaved.                   *)
(*                                                                         *)
(* External: the input-selector forwards the EOS of its active pad and     *)
(* holds the EOS of another until that pad becomes active.                 *)
(***************************************************************************)
EXTENDS LayoutManager

CONSTANTS
    Canvas,   \* [w, h]: the size of the output
    Levels,   \* audio levels of a speaker, 0 for one who is silent
    MaxNames, \* bound: pads ever requested (nextID)
    Plans     \* egresses: [mode, layout, tracks, names, mutes, updates], the mode of
              \* "live", "nonlive", "compositing", the layout of a composited one, the
              \* tracks that take part, and bounds on the pads requested, on mute and
              \* unmute calls up to one of a track, and on active speaker updates

ASSUME BoundsAssumption ==
    /\ MaxNames \in Nat
    /\ \A p \in Plans : p.tracks \subseteq Tracks /\ p.names \in 0..MaxNames

VARIABLES
    plan,      \* of Plans: the egress
    state,     \* of the pipeline: "running" or "eos"
    ending,    \* markEnding was called
    selected,  \* selectedPad, and the selector's active-pad property
    pending,   \* pendingPad
    names,     \* [Tracks -> name or None]
    pads,      \* the names in b.pads, the filler's apart
    linked,    \* names whose source bin AddSourceBin linked to the selector
    parting,   \* names whose source bin waits for EOS, or a timeout, to be detached
    detached,  \* names whose pad was released
    eos,       \* [Names -> how far the EOS of the pad got]
    held,      \* pads whose EOS the selector holds
    out,       \* the selector's output: "open" or "eos"
    worker,    \* [Tracks -> what the track's worker does]
    writer,    \* [Tracks -> what the track's writer does]
    room,      \* what the room's callback does
    alpha,     \* [Names -> alpha of the compositor's pad]
    muted,     \* names of the tracks marked muted
    wanted,    \* layoutAlpha
    lm,        \* the LayoutManager
    failed,    \* OnError was called: the egress is aborted
    nextID, mutes, updates

barVars == <<plan, state, ending, selected, pending, names, pads, linked, parting,
             detached, eos, held, out, alpha, muted, wanted, lm, failed>>
vars == <<plan, state, ending, selected, pending, names, pads, linked, parting,
          detached, eos, held, out, worker, writer, room, alpha, muted, wanted, lm,
          failed, nextID, mutes, updates>>

None == -1
Filler == 0   \* videoTestSrcName
Names == 1..MaxNames
Mode == plan.mode
Compositing == Mode = "compositing"
Running == state = "running"

Idle == [pc |-> "idle", name |-> None, cells |-> <<>>]
At(pc, name) == [pc |-> pc, name |-> name, cells |-> <<>>]

\* The filler is on show from the start.  With tracks at the build the code sets
\* selectedPad alone and the selector chooses its pad itself until the first
\* handover: a simplification, since until then no gate lets a track's buffer through.
Init ==
    /\ plan \in Plans
    /\ state = "running" /\ ending = FALSE
    /\ selected = Filler /\ pending = None
    /\ names = [t \in Tracks |-> None]
    /\ pads = {} /\ linked = {} /\ parting = {} /\ detached = {}
    /\ eos = [n \in Names \cup {Filler} |-> "no"]
    /\ held = {} /\ out = "open"
    /\ worker = [t \in Tracks |-> Idle]
    /\ writer = [t \in Tracks |-> Idle]
    /\ room = Idle
    /\ alpha = [n \in Names |-> 1]
    /\ muted = {} /\ wanted = [n \in Names |-> 1]
    /\ lm = NewLayoutManager(plan.layout, Canvas.w, Canvas.h)
    /\ failed = FALSE
    /\ nextID = 1 /\ mutes = 0 /\ updates = 0

\* One step of the track's worker, of its writer, of the room's callback.
Worker(t, from, to) ==
    /\ worker[t].pc = from /\ ~failed
    /\ worker' = [worker EXCEPT ![t] = to]
    /\ UNCHANGED <<plan, state, ending, writer, room, mutes, updates>>

OnError == failed' = TRUE
NoError == failed' = failed

-----------------------------------------------------------------------------
\* The selector, under b.mu.

\* The active-pad property is set; an EOS the selector holds for that pad goes
\* out.
Activates(n) ==
    /\ selected' = n
    /\ out' = IF n \in held THEN "eos" ELSE out
    /\ held' = held \ {n}

KeepsSelection == UNCHANGED <<selected, out, held>>

\* setSelectorPadLocked: the filler takes over at once, and so does any pad of an
\* egress that is not live; a live track waits for its first buffer.
setSelectorPadLocked(n) ==
    IF n = Filler \/ Mode = "nonlive"
    THEN Activates(n) /\ pending' = pending
    ELSE KeepsSelection /\ pending' = n

\* The pad leaves the selector, as a track that is muted, removed or over.
Leaves(n) ==
    /\ pending' = IF pending = n THEN None ELSE pending
    /\ IF ~Compositing /\ selected = n THEN Activates(Filler) ELSE KeepsSelection

\* setTrackVisibleLocked.  A name whose pad is gone is an error, except when a
\* track that is not composited is hidden.
setTrackVisible(n, visible) ==
    CASE Compositing /\ n \in pads ->
            /\ alpha' = [alpha EXCEPT ![n] = IF visible THEN wanted[n] ELSE 0]
            /\ muted' = IF visible THEN muted \ {n} ELSE muted \cup {n}
            /\ KeepsSelection /\ pending' = pending /\ NoError
      [] ~Compositing /\ visible /\ n \in pads ->
            /\ setSelectorPadLocked(n)
            /\ NoError /\ UNCHANGED <<alpha, muted>>
      [] ~Compositing /\ ~visible ->
            /\ Leaves(n)
            /\ NoError /\ UNCHANGED <<alpha, muted>>
      [] OTHER ->
            /\ OnError
            /\ KeepsSelection /\ UNCHANGED <<pending, alpha, muted>>

\* The mutation: a layout that is applied shows the tracks that are muted.
BugShownAlpha(n, a) == a

\* applyLayoutLocked: the alpha of a cell, 0 while its track is muted.
ShownAlpha(n, a) == IF n \in muted THEN 0 ELSE a

\* applyLayout: the cells of tracks that left since they were computed are
\* skipped.
Applies(cells) ==
    LET alphaOf(n) == {cells[i].alpha : i \in {j \in 1..Len(cells) :
                          names[cells[j].track] = n /\ n \in pads}}
    IN /\ wanted' = [n \in Names |-> IF alphaOf(n) = {} THEN wanted[n]
                                     ELSE CHOOSE a \in alphaOf(n) : TRUE]
       /\ alpha' = [n \in Names |-> IF alphaOf(n) = {} THEN alpha[n]
                                    ELSE ShownAlpha(n, CHOOSE a \in alphaOf(n) : TRUE)]

-----------------------------------------------------------------------------
\* onTrackAdded, on the track's worker.

\* A track's app source bin is built; a codec that is not supported is an error.
AddStarts(t) ==
    /\ Running /\ names[t] = None /\ nextID <= plan.names
    /\ nextID' = nextID + 1
    /\ \/ Worker(t, "idle", At("pad", nextID)) /\ NoError
       \/ Worker(t, "idle", Idle) /\ OnError
    /\ KeepsSelection
    /\ UNCHANGED <<pending, names, pads, linked, parting, detached, eos, alpha, muted,
                   wanted, lm>>

createSrcPad(t) ==
    LET n == worker[t].name IN
    /\ Worker(t, "pad", At("bin", n))
    /\ names' = [names EXCEPT ![t] = n]
    /\ pads' = pads \cup {n}
    /\ KeepsSelection
    /\ UNCHANGED <<pending, linked, parting, detached, eos, alpha, muted, wanted, lm,
                   failed, nextID>>

\* addBin, under the pipeline's state lock: nothing is added once it ends.
AddSourceBin(t) ==
    LET n == worker[t].name IN
    /\ Worker(t, "bin", At("visible", n))
    /\ linked' = IF Running THEN linked \cup {n} ELSE linked
    /\ KeepsSelection
    /\ UNCHANGED <<pending, names, pads, parting, detached, eos, alpha, muted, wanted,
                   lm, failed, nextID>>

AddVisible(t) ==
    LET n == worker[t].name IN
    /\ Worker(t, "visible", IF Compositing THEN At("place", n) ELSE Idle)
    /\ setTrackVisible(n, TRUE)
    /\ UNCHANGED <<names, pads, linked, parting, detached, eos, wanted, lm, nextID>>

\* The layout's lock is released before b.mu is taken to apply the cells.
AddToLayout(t) ==
    /\ Worker(t, "place", [At("apply", worker[t].name) EXCEPT
                              !.cells = recalculate(AddTrack(lm, t))])
    /\ lm' = AddTrack(lm, t)
    /\ KeepsSelection
    /\ UNCHANGED <<pending, names, pads, linked, parting, detached, eos, alpha, muted,
                   wanted, failed, nextID>>

AddApplies(t) ==
    /\ Worker(t, "apply", Idle)
    /\ Applies(worker[t].cells)
    /\ KeepsSelection
    /\ UNCHANGED <<pending, names, pads, linked, parting, detached, eos, muted, lm,
                   failed, nextID>>

-----------------------------------------------------------------------------
\* onTrackRemoved, on the track's worker.

RemoveStarts(t) ==
    /\ Running /\ names[t] # None
    /\ Worker(t, "idle", At("forget", None))
    /\ KeepsSelection
    /\ UNCHANGED <<pending, names, pads, linked, parting, detached, eos, alpha, muted,
                   wanted, lm, failed, nextID>>

Forgets(n) == Leaves(n)

RemoveForgets(t) ==
    LET n == names[t] IN
    /\ Worker(t, "forget", At(IF Compositing THEN "hide" ELSE "unbin", n))
    /\ names' = [names EXCEPT ![t] = None]
    /\ pads' = pads \ {n}
    /\ muted' = muted \ {n}
    /\ Forgets(n)
    /\ UNCHANGED <<linked, parting, detached, eos, alpha, wanted, lm, failed, nextID>>

RemoveHides(t) ==
    LET n == worker[t].name IN
    /\ Worker(t, "hide", At("unplace", n))
    /\ alpha' = [alpha EXCEPT ![n] = 0]
    /\ KeepsSelection
    /\ UNCHANGED <<pending, names, pads, linked, parting, detached, eos, muted, wanted,
                   lm, failed, nextID>>

RemoveFromLayout(t) ==
    /\ lm' = RemoveTrack(lm, t)
    /\ Worker(t, "unplace",
              [At("reapply", worker[t].name) EXCEPT !.cells = recalculate(lm')])
    /\ KeepsSelection
    /\ UNCHANGED <<pending, names, pads, linked, parting, detached, eos, alpha, muted,
                   wanted, failed, nextID>>

RemoveApplies(t) ==
    /\ Worker(t, "reapply", At("unbin", worker[t].name))
    /\ Applies(worker[t].cells)
    /\ KeepsSelection
    /\ UNCHANGED <<pending, names, pads, linked, parting, detached, eos, muted, lm,
                   failed, nextID>>

\* removeBin and probeRemoveSource, under the state lock: the bin is detached once
\* its EOS was seen or the timeout passed.
RemoveSourceBin(t) ==
    LET n == worker[t].name IN
    /\ Worker(t, "unbin", Idle)
    /\ parting' = IF Running /\ n \in linked THEN parting \cup {n} ELSE parting
    /\ KeepsSelection
    /\ UNCHANGED <<pending, names, pads, linked, detached, eos, alpha, muted, wanted,
                   lm, failed, nextID>>

\* The GLib loop releases the selector's pad and removes the bin; EOS seen or the
\* removal's timer, whichever comes first, schedules it once.
DetachesSourceBin(n) ==
    /\ ~failed /\ n \in parting
    /\ parting' = parting \ {n}
    /\ detached' = detached \cup {n}
    /\ linked' = linked \ {n}
    /\ UNCHANGED <<plan, state, ending, selected, pending, names, pads, eos, held, out,
                   worker, writer, room, alpha, muted, wanted, lm, failed, nextID,
                   mutes, updates>>

-----------------------------------------------------------------------------
\* onTrackMuted and onTrackUnmuted, on the track's writer: the name is looked up
\* under one lock and used under the next.

MuteLooksUp(t, visible) ==
    /\ ~failed /\ Running /\ mutes < plan.mutes[t]
    /\ writer[t].pc = "idle" /\ names[t] # None
    /\ writer' = [writer EXCEPT ![t] = At(IF visible THEN "show" ELSE "hide", names[t])]
    /\ mutes' = mutes + 1
    /\ UNCHANGED <<barVars, worker, room, nextID, updates>>

MuteApplies(t) ==
    /\ ~failed /\ writer[t].pc # "idle"
    /\ setTrackVisible(writer[t].name, writer[t].pc = "show")
    /\ writer' = [writer EXCEPT ![t] = Idle]
    /\ UNCHANGED <<plan, state, ending, names, pads, linked, parting, detached, eos,
                   worker, room, wanted, lm, nextID, mutes, updates>>

-----------------------------------------------------------------------------
\* onActiveSpeakersChanged, on the room's callback.

SpeakersChange ==
    /\ ~failed /\ Running /\ Compositing /\ room.pc = "idle" /\ updates < plan.updates
    /\ \E levels \in [plan.tracks -> Levels] :
          LET next == UpdateSpeakers(lm, levels) IN
          /\ lm' = next
          /\ room' = IF next.displayOrder = lm.displayOrder THEN Idle
                     ELSE [At("apply", None) EXCEPT !.cells = recalculate(next)]
    /\ updates' = updates + 1
    /\ UNCHANGED <<plan, state, ending, selected, pending, names, pads, linked, parting,
                   detached, eos, held, out, worker, writer, alpha, muted, wanted,
                   failed, nextID, mutes>>

SpeakersApply ==
    /\ ~failed /\ room.pc = "apply"
    /\ Applies(room.cells)
    /\ room' = Idle
    /\ UNCHANGED <<plan, state, ending, selected, pending, names, pads, linked, parting,
                   detached, eos, held, out, worker, writer, muted, lm, failed, nextID,
                   mutes, updates>>

-----------------------------------------------------------------------------
\* The streaming threads (an egress that selects).

TakesHandover(n) == pending = n /\ ~ending

\* A buffer on a track's pad: its probe takes the handover that waits for it.
\* Whether the gate then drops the buffer changes nothing else.
Frame(n) ==
    /\ ~failed /\ n \in linked /\ eos[n] = "no"
    /\ TakesHandover(n)
    /\ Activates(n)
    /\ pending' = None
    /\ UNCHANGED <<plan, state, ending, names, pads, linked, parting, detached, eos,
                   worker, writer, room, alpha, muted, wanted, lm, failed, nextID,
                   mutes, updates>>

\* The writer ends its stream when it drains; onTrackEOS looks at the state, before
\* it takes b.mu.
TrackEOS(n) ==
    /\ ~failed /\ ~Compositing /\ n \in linked /\ eos[n] = "no"
    /\ eos' = [eos EXCEPT ![n] = IF Running THEN "leaving" ELSE "passing"]
    /\ UNCHANGED <<plan, state, ending, selected, pending, names, pads, linked, parting,
                   detached, held, out, worker, writer, room, alpha, muted, wanted, lm,
                   failed, nextID, mutes, updates>>

\* The mutation: the selector stays with a track that is over.
BugStepsAside(n) ==
    /\ pending' = IF pending = n THEN None ELSE pending
    /\ KeepsSelection

StepsAside(n) == Leaves(n)

onTrackEOS(n) ==
    /\ ~failed /\ eos[n] = "leaving"
    /\ eos' = [eos EXCEPT ![n] = "passing"]
    /\ StepsAside(n)
    /\ UNCHANGED <<plan, state, ending, names, pads, linked, parting, detached, worker,
                   writer, room, alpha, muted, wanted, lm, failed, nextID, mutes, updates>>

\* The EOS event reaches the selector, on a pad that was not released meanwhile.
SelectorEOS(n) ==
    /\ ~failed /\ eos[n] = "passing"
    /\ eos' = [eos EXCEPT ![n] = "done"]
    /\ out' = IF selected = n /\ n \notin detached THEN "eos" ELSE out
    /\ held' = IF selected # n /\ n \notin detached THEN held \cup {n} ELSE held
    /\ UNCHANGED <<plan, state, ending, selected, pending, names, pads, linked, parting,
                   detached, worker, writer, room, alpha, muted, wanted, lm, failed,
                   nextID, mutes, updates>>

-----------------------------------------------------------------------------
\* SendEOS of the pipeline: the state is upgraded, the source's writers are told to
\* close, the bin's EOS function runs, and EOS is pushed into the filler; the tracks'
\* bins send none of their own.

SendEOS ==
    /\ ~failed /\ Running
    /\ state' = "eos"
    /\ UNCHANGED <<plan, ending, selected, pending, names, pads, linked, parting,
                   detached, eos, held, out, worker, writer, room, alpha, muted, wanted,
                   lm, failed, nextID, mutes, updates>>

\* The mutation: EOS is sent without marking the bin as ending.
BugmarkEnding == ending' = ending

markEnding == ending' = TRUE

SendEOSMarks ==
    /\ ~failed /\ ~Running /\ ~Compositing /\ eos[Filler] = "no"
    /\ eos' = [eos EXCEPT ![Filler] = "marked"]
    /\ markEnding
    /\ UNCHANGED <<plan, state, selected, pending, names, pads, linked, parting,
                   detached, held, out, worker, writer, room, alpha, muted, wanted, lm,
                   failed, nextID, mutes, updates>>

\* The mutation: the EOS function's answer stops EOS before the filler.
BugSendEOSPushes ==
    /\ eos[Filler] = "marked"
    /\ eos' = [eos EXCEPT ![Filler] = "kept back"]
    /\ UNCHANGED <<plan, state, ending, selected, pending, names, pads, linked, parting,
                   detached, held, out, worker, writer, room, alpha, muted, wanted, lm,
                   failed, nextID, mutes, updates>>

SendEOSPushes ==
    /\ ~failed /\ eos[Filler] = "marked"
    /\ eos' = [eos EXCEPT ![Filler] = "passing"]
    /\ UNCHANGED <<plan, state, ending, selected, pending, names, pads, linked, parting,
                   detached, held, out, worker, writer, room, alpha, muted, wanted, lm,
                   failed, nextID, mutes, updates>>

-----------------------------------------------------------------------------
WorkerStep(t) ==
    \/ AddStarts(t) \/ createSrcPad(t) \/ AddSourceBin(t) \/ AddVisible(t)
    \/ AddToLayout(t) \/ AddApplies(t)
    \/ RemoveStarts(t) \/ RemoveForgets(t) \/ RemoveHides(t) \/ RemoveFromLayout(t)
    \/ RemoveApplies(t) \/ RemoveSourceBin(t)

Next ==
    \/ \E t \in plan.tracks : WorkerStep(t)
    \/ \E t \in Tracks : MuteApplies(t)
    \/ \E t \in Tracks, visible \in BOOLEAN : MuteLooksUp(t, visible)
    \/ \E n \in Names : DetachesSourceBin(n)
    \/ SpeakersChange \/ SpeakersApply
    \/ \E n \in Names : Frame(n) \/ TrackEOS(n) \/ onTrackEOS(n)
    \/ \E n \in Names \cup {Filler} : SelectorEOS(n)
    \/ SendEOS \/ SendEOSMarks \/ SendEOSPushes

\* A call that was begun ends; a linked track goes on producing buffers until its
\* EOS, and every track's writer drains once the pipeline ends; the filler's EOS is
\* pushed and arrives.  Nobody need add, remove or mute a track, or send EOS.
Stream(n) == Frame(n) \/ onTrackEOS(n) \/ SelectorEOS(n) \/ (~Running /\ TrackEOS(n))

Ends == SendEOSMarks \/ SendEOSPushes \/ SelectorEOS(Filler)

Fairness ==
    /\ \A t \in Tracks :
          WF_vars(~Compositing /\ worker[t].pc # "idle" /\ WorkerStep(t))
    /\ \A t \in Tracks : WF_vars(~Compositing /\ MuteApplies(t))
    /\ \A n \in Names : WF_vars(Stream(n))
    /\ WF_vars(Ends)

Spec == Init /\ [][Next]_vars /\ Fairness

-----------------------------------------------------------------------------
\* Properties.

\* While the egress runs no track's EOS gets through the selector: the filler has
\* taken over before it arrives, whatever is added, muted or removed meanwhile
\* ("while the egress runs the filler takes over first and the selector holds this
\* EOS instead", video.go:1537).
NoEarlyEOS ==
    Mode = "live" /\ out = "eos" => ~Running

\* The selector never has a pad that was released, nor one of a track the bin has
\* forgotten (onTrackRemoved, onTrackEOS and the handover under b.mu).
SelectedIsThere ==
    /\ selected # Filler => selected \in pads /\ selected \notin detached
    /\ pending # None => pending \in pads

\* Once the filler's EOS exists no track takes the selector: its frames would go
\* behind that EOS ("a handover either completes before the filler's EOS exists or
\* is not taken", video.go:1605).
NoTrackBehindEOS ==
    [][Mode = "live" /\ eos[Filler] \in {"passing", "done"}
         => selected' \in {selected, Filler}]_vars

\* A track that waits for the selector gets it with its next buffer, is overtaken
\* by another, withdrawn or over, or the egress ends.
HandoverTaken ==
    \A n \in Names : pending = n ~> \/ pending # n \/ eos[n] # "no"
                                   \/ ending \/ failed

\* Once EOS is sent the selector's output ends: whoever holds the selector, its EOS
\* comes.
EndReached == Mode = "live" /\ ~Running ~> out = "eos" \/ failed

\* A composited track shows as its layout wants unless it is muted, and a track
\* that was removed is hidden before another can be placed where it was.
AlphaAgrees ==
    Compositing =>
      /\ \A n \in pads : alpha[n] = IF n \in muted THEN 0 ELSE wanted[n]
      /\ \A t \in Tracks : worker[t].pc \in {"unplace", "reapply", "unbin"}
                              => alpha[worker[t].name] = 0
      /\ \A n \in parting \cup detached : alpha[n] = 0

\* What is shown is a track that is there, as its layout wants it (setSelectorPadLocked,
\* applyLayoutLocked).
PictureAgrees == SelectedIsThere /\ AlphaAgrees

\* The selector never waits for good: not for the track that is to take it, and not for
\* the end (TakesHandover, SendEOS).
SelectorMovesOn == HandoverTaken /\ EndReached
=============================================================================
