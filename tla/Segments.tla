------------------------------ MODULE Segments ------------------------------
(***************************************************************************)
(* The segment sink (sink.SegmentSink) with its playlists (m3u8) and its   *)
(* uploader (uploader.Uploader).                                           *)
(*                                                                         *)
(* The bus goroutine opens and closes segments; a dispatcher keeps them in *)
(* order and starts one upload goroutine for each; a lister waits for each *)
(* upload, appends to the playlists and uploads them; Close waits for both *)
(* and uploads the final playlists.  All of them share one uploader, which *)
(* falls back to backup storage for good when the primary fails once.      *)
(*                                                                         *)
(* Abstracted: a segment is its number (names are distinct), a playlist is *)
(* the segments it lists, times, sizes and locations but which storage.    *)
(* DisableUploads is part of Controller.                                   *)
(***************************************************************************)
EXTENDS Integers, Sequences

CONSTANTS
    Configs,      \* the configurations to start from
    MaxSegments,  \* bound: segments of any configuration
    QueueCap,     \* maxPendingUploads
    Window        \* defaultLivePlaylistWindow

\* fmp4: InitSegmentFilename is set; backup: there is a backup storage; live:
\* LivePlaylistFilename is set; segments (bound): how many there are.
Config == [fmp4 : BOOLEAN, backup : BOOLEAN, live : BOOLEAN, segments : 0..MaxSegments]

ASSUME SegmentsAssumption ==
    /\ Configs \subseteq Config
    /\ MaxSegments \in Nat /\ QueueCap \in Nat \ {0} /\ Window \in Nat \ {0}

Segment == 1..MaxSegments
Store == {"primary", "backup"}

VARIABLES
    conf,
    opened, closed,   \* segments opened and closed by the muxer so far
    eos,              \* it finished
    openSegments,     \* openSegmentsStartTime
    closedSegments,   \* the channel ...
    closing,          \* Close: "no", "wait", "list", "live", "ok", "error"
    dispatcher,       \* the segment the dispatcher holds; 0: none, -1: it ended
    playlistUpdates,  \* the channel
    lister,           \* where the lister is, and with which segment
    job,              \* what each goroutine uploads, and how far it is; 0: the lister, Close
    playlist,         \* the local playlist
    live,             \* the local live playlist
    listed,           \* lastUpload is set; where PlaylistLocation is
    initWritten, initBackedUp,
    primaryFailed,
    stored, initAt,   \* the segments in each storage, the storages with the init segment
    lists, lives,     \* the playlists in each storage
    failed            \* OnError was called

muxVars == <<conf, opened, closed, eos>>
queueVars == <<closedSegments, dispatcher, playlistUpdates>>
localVars == <<playlist, live>>
storageVars == <<primaryFailed, stored, initAt, lists, lives>>
initVars == <<initWritten, initBackedUp>>
vars == <<muxVars, openSegments, queueVars, closing, lister, job, localVars, listed,
          initVars, storageVars, failed>>

Job(what, at) == [what |-> what, at |-> at]
NoJob == Job("none", "none")

Init ==
    /\ conf \in Configs
    /\ opened = 0 /\ closed = 0 /\ eos = FALSE
    /\ openSegments = {} /\ closedSegments = << >> /\ playlistUpdates = << >>
    /\ closing = "no" /\ dispatcher = 0
    /\ lister = [at |-> "idle", segment |-> 0]
    /\ job = [a \in {0} \cup Segment |-> NoJob]
    /\ playlist = [segments |-> << >>, ended |-> FALSE]
    /\ live = [segments |-> << >>, ended |-> FALSE, seq |-> 0]
    /\ listed = "no"
    /\ initWritten = FALSE /\ initBackedUp = FALSE /\ primaryFailed = FALSE
    /\ stored = [st \in Store |-> {}] /\ initAt = {}
    /\ lists = [st \in Store |-> playlist] /\ lives = [st \in Store |-> live]
    /\ failed = FALSE

-----------------------------------------------------------------------------
(* The bus goroutine *)

FragmentOpened ==
    /\ ~eos /\ opened = closed /\ opened < conf.segments
    /\ opened' = opened + 1
    /\ openSegments' = openSegments \cup {opened + 1}
    /\ UNCHANGED <<conf, closed, eos, queueVars, closing, lister, job, localVars, listed,
                   initVars, storageVars, failed>>

\* "segment upload job queue is full" fails the egress.
FragmentClosed ==
    /\ ~eos /\ opened = closed + 1
    /\ closed' = opened
    /\ IF Len(closedSegments) < QueueCap
       THEN closedSegments' = Append(closedSegments, opened) /\ UNCHANGED failed
       ELSE failed' = TRUE /\ UNCHANGED closedSegments
    /\ UNCHANGED <<conf, opened, eos, openSegments, dispatcher, playlistUpdates, closing,
                   lister, job, localVars, listed, initVars, storageVars>>

\* The muxer closes its last segment before it forwards the EOS.
EOSReceived ==
    /\ ~eos /\ opened = closed
    /\ eos' = TRUE
    /\ UNCHANGED <<conf, opened, closed, openSegments, queueVars, closing, lister, job,
                   localVars, listed, initVars, storageVars, failed>>

-----------------------------------------------------------------------------
(* The dispatcher (handleClosedSegment) *)

DispatcherTakes ==
    /\ dispatcher = 0 /\ closedSegments # << >>
    /\ dispatcher' = Head(closedSegments)
    /\ closedSegments' = Tail(closedSegments)
    /\ UNCHANGED <<muxVars, openSegments, playlistUpdates, closing, lister, job, localVars,
                   listed, initVars, storageVars, failed>>

\* The update is queued first, then the upload is started.
DispatcherSends ==
    /\ dispatcher > 0 /\ Len(playlistUpdates) < QueueCap
    /\ playlistUpdates' = Append(playlistUpdates, dispatcher)
    /\ initWritten' = conf.fmp4
    /\ job' = [job EXCEPT ![dispatcher] =
                 CASE ~conf.fmp4 -> Job("segment", "load")
                   [] conf.fmp4 /\ initWritten -> Job("segment", "split")
                   [] OTHER -> Job("init", "split")]
    /\ dispatcher' = 0
    /\ UNCHANGED <<muxVars, openSegments, closedSegments, closing, lister, localVars, listed,
                   initBackedUp, storageVars, failed>>

\* closedSegments is closed and drained: playlistUpdates is closed.
DispatcherEnds ==
    /\ dispatcher = 0 /\ closedSegments = << >> /\ closing # "no"
    /\ dispatcher' = -1
    /\ UNCHANGED <<muxVars, openSegments, closedSegments, playlistUpdates, closing, lister,
                   job, localVars, listed, initVars, storageVars, failed>>

-----------------------------------------------------------------------------
(* Upload(a): goroutine a uploads what its job says.                       *)

Goto(a, at) == job' = [job EXCEPT ![a].at = at]

\* primaryFailed is loaded.
UploadLoads(a) ==
    /\ job[a].at = "load"
    /\ Goto(a, IF primaryFailed THEN "backup" ELSE "primary")
    /\ UNCHANGED <<muxVars, openSegments, queueVars, closing, lister, localVars, listed,
                   initVars, storageVars, failed>>

\* The storage accepts the object.
Put(a, st) ==
    /\ stored' = IF job[a].what = "segment" THEN [stored EXCEPT ![st] = @ \cup {a}] ELSE stored
    /\ initAt' = IF job[a].what = "init" THEN initAt \cup {st} ELSE initAt
    /\ lists' = IF job[a].what = "list" THEN [lists EXCEPT ![st] = playlist] ELSE lists
    /\ lives' = IF job[a].what = "live" THEN [lives EXCEPT ![st] = live] ELSE lives

UploadStores(a) ==
    /\ job[a].at \in Store
    /\ Put(a, job[a].at)
    /\ Goto(a, IF job[a].at = "primary" THEN "stored" ELSE "backedUp")
    /\ UNCHANGED <<muxVars, openSegments, queueVars, closing, lister, localVars, listed,
                   initVars, primaryFailed, failed>>

\* It does not; or it does, but no presigned URL can be made.
UploadFails(a, put) ==
    /\ job[a].at \in Store
    /\ IF put THEN Put(a, job[a].at) ELSE UNCHANGED <<stored, initAt, lists, lives>>
    /\ IF job[a].at = "primary" /\ conf.backup
       THEN primaryFailed' = TRUE /\ Goto(a, "backup")
       ELSE Goto(a, "error") /\ UNCHANGED primaryFailed
    /\ UNCHANGED <<muxVars, openSegments, queueVars, closing, lister, localVars, listed,
                   initVars, failed>>

Result == {"stored", "backedUp", "error"}

-----------------------------------------------------------------------------
(* The upload goroutine of segment s.  "done": uploadComplete is closed.   *)

SplitInitSegment(s, ok) ==
    /\ job[s].at = "split"
    /\ Goto(s, IF ok THEN "load" ELSE "done")
    /\ failed' = (failed \/ ~ok)
    /\ UNCHANGED <<muxVars, openSegments, queueVars, closing, lister, localVars, listed,
                   initVars, storageVars>>

InitUploaded(s) ==
    /\ job[s].what = "init" /\ job[s].at \in Result
    /\ IF job[s].at = "error"
       THEN Goto(s, "done") /\ failed' = TRUE /\ UNCHANGED initBackedUp
       ELSE /\ job' = [job EXCEPT ![s] = Job("segment", "load")]
            /\ initBackedUp' = (job[s].at = "backedUp")
            /\ UNCHANGED failed
    /\ UNCHANGED <<muxVars, openSegments, queueVars, closing, lister, localVars, listed,
                   initWritten, storageVars>>

\* Mutant of SegmentUploaded: uploadComplete is not closed after an error.
BugSegmentUploaded(s) ==
    /\ job[s].what = "segment" /\ job[s].at \in Result
    /\ Goto(s, IF job[s].at = "error" THEN "none" ELSE "done")
    /\ failed' = (failed \/ job[s].at = "error")
    /\ UNCHANGED <<muxVars, openSegments, queueVars, closing, lister, localVars, listed,
                   initVars, storageVars>>

SegmentUploaded(s) ==
    /\ job[s].what = "segment" /\ job[s].at \in Result
    /\ Goto(s, "done")
    /\ failed' = (failed \/ job[s].at = "error")
    /\ UNCHANGED <<muxVars, openSegments, queueVars, closing, lister, localVars, listed,
                   initVars, storageVars>>

-----------------------------------------------------------------------------
(* The lister (handlePlaylistUpdates) *)

ListerTakes ==
    /\ lister.at = "idle" /\ playlistUpdates # << >>
    /\ lister' = [at |-> "wait", segment |-> Head(playlistUpdates)]
    /\ openSegments' = openSegments \ {Head(playlistUpdates)}
    /\ playlistUpdates' = Tail(playlistUpdates)
    /\ UNCHANGED <<muxVars, closedSegments, dispatcher, closing, job, localVars, listed,
                   initVars, storageVars, failed>>

\* Append of the live playlist: the window slides.
LiveAppend(s) ==
    LET longer == Append(live.segments, s)
    IN  IF Len(longer) > Window
        THEN [live EXCEPT !.segments = Tail(longer), !.seq = @ + 1]
        ELSE [live EXCEPT !.segments = longer]

\* Mutant of UploadComplete: the lister does not wait.
BugUploadComplete(s) == TRUE

UploadComplete(s) == job[s].at = "done"

(***************************************************************************)
(* The segment is appended.  The playlist is uploaded if it never was, and *)
(* otherwise now and then; the live playlist always is.                    *)
(***************************************************************************)
ListerAppends(upload) ==
    /\ lister.at = "wait" /\ UploadComplete(lister.segment)
    /\ listed = "no" => upload
    /\ playlist' = [playlist EXCEPT !.segments = Append(@, lister.segment)]
    /\ IF upload
       THEN /\ lister' = [lister EXCEPT !.at = "list"]
            /\ job' = [job EXCEPT ![0] = Job("list", "ensure")]
       ELSE /\ lister' = [lister EXCEPT !.at = "listed"]
            /\ UNCHANGED job
    /\ UNCHANGED <<muxVars, openSegments, queueVars, closing, live, listed, initVars,
                   storageVars, failed>>

ListerAppendsLive ==
    /\ lister.at = "listed"
    /\ IF conf.live
       THEN /\ live' = LiveAppend(lister.segment)
            /\ lister' = [lister EXCEPT !.at = "live"]
            /\ job' = [job EXCEPT ![0] = Job("live", "ensure")]
       ELSE /\ lister' = [at |-> "idle", segment |-> 0]
            /\ UNCHANGED <<live, job>>
    /\ UNCHANGED <<muxVars, openSegments, queueVars, closing, playlist, listed, initVars,
                   storageVars, failed>>

\* A playlist cannot be opened or written: the lister gives up.
ListerFails ==
    /\ \/ lister.at = "wait" /\ UploadComplete(lister.segment) /\ UNCHANGED live
       \/ lister.at = "listed" /\ conf.live /\ live' \in {live, LiveAppend(lister.segment)}
    /\ lister' = [at |-> "done", segment |-> 0]
    /\ failed' = TRUE
    /\ UNCHANGED <<muxVars, openSegments, queueVars, closing, job, playlist, listed,
                   initVars, storageVars>>

ListerEnds ==
    /\ lister.at = "idle" /\ playlistUpdates = << >> /\ dispatcher = -1
    /\ lister' = [at |-> "done", segment |-> 0]
    /\ UNCHANGED <<muxVars, openSegments, queueVars, closing, job, localVars, listed,
                   initVars, storageVars, failed>>

\* ensureInitSegmentInBackup, before a playlist is uploaded.
EnsureInit ==
    /\ job[0].at = "ensure"
    /\ job' = [job EXCEPT ![0] =
                 IF conf.fmp4 /\ initWritten /\ ~initBackedUp /\ primaryFailed
                 THEN Job("init", "load") ELSE Job(job[0].what, "load")]
    /\ UNCHANGED <<muxVars, openSegments, queueVars, closing, lister, localVars, listed,
                   initVars, storageVars, failed>>

\* Which playlist the lister, or Close, uploads.
Uploading == IF lister.at = "done" THEN closing ELSE lister.at

EnsureUploaded ==
    /\ job[0].what = "init" /\ job[0].at \in {"stored", "backedUp"}
    /\ initBackedUp' = (job[0].at = "backedUp")
    /\ job' = [job EXCEPT ![0] = Job(Uploading, "load")]
    /\ UNCHANGED <<muxVars, openSegments, queueVars, closing, lister, localVars, listed,
                   initWritten, storageVars, failed>>

\* Where the playlist was put, if it was.
Listed ==
    IF job[0].what = "list" /\ job[0].at # "error"
    THEN IF job[0].at = "stored" THEN "primary" ELSE "backup"
    ELSE listed

Uploaded == job[0].at = "error" \/ (job[0].at \in Result /\ job[0].what = Uploading)

\* "ignore playlist upload failures until close"
ListerUploaded ==
    /\ Uploaded /\ lister.at # "done"
    /\ lister' = IF lister.at = "list" THEN [lister EXCEPT !.at = "listed"]
                                       ELSE [at |-> "idle", segment |-> 0]
    /\ job' = [job EXCEPT ![0] = NoJob]
    /\ listed' = Listed
    /\ UNCHANGED <<muxVars, openSegments, queueVars, closing, localVars, initVars,
                   storageVars, failed>>

-----------------------------------------------------------------------------
(* Close *)

\* It closes closedSegments.  The Controller calls it if the EOS was received.
Close ==
    /\ eos /\ closing = "no"
    /\ closing' = "wait"
    /\ UNCHANGED <<muxVars, openSegments, queueVars, lister, job, localVars, listed, initVars,
                   storageVars, failed>>

\* Mutant of CloseWaits: the final playlist is uploaded without its end mark.
BugCloseWaits(ok) ==
    /\ closing = "wait" /\ lister.at = "done"
    /\ IF ok
       THEN closing' = "list" /\ job' = [job EXCEPT ![0] = Job("list", "ensure")]
       ELSE closing' = "error" /\ UNCHANGED job
    /\ UNCHANGED <<muxVars, openSegments, queueVars, lister, localVars, listed, initVars,
                   storageVars, failed>>

\* The lister is done: the playlist is ended (if it can be written) and uploaded.
CloseWaits(ok) ==
    /\ closing = "wait" /\ lister.at = "done"
    /\ IF ok
       THEN /\ playlist' = [playlist EXCEPT !.ended = TRUE]
            /\ closing' = "list"
            /\ job' = [job EXCEPT ![0] = Job("list", "ensure")]
       ELSE closing' = "error" /\ UNCHANGED <<playlist, job>>
    /\ UNCHANGED <<muxVars, openSegments, queueVars, lister, live, listed, initVars,
                   storageVars, failed>>

CloseUploaded(ok) ==
    /\ Uploaded /\ closing \in {"list", "live"}
    /\ listed' = Listed
    /\ CASE job[0].at # "error" /\ closing = "list" /\ conf.live /\ ok ->
              /\ live' = [live EXCEPT !.ended = TRUE]
              /\ closing' = "live"
              /\ job' = [job EXCEPT ![0] = Job("live", "ensure")]
         [] job[0].at # "error" /\ ~(closing = "list" /\ conf.live) /\ ok ->
              closing' = "ok" /\ job' = [job EXCEPT ![0] = NoJob] /\ UNCHANGED live
         [] OTHER ->
              closing' = "error" /\ job' = [job EXCEPT ![0] = NoJob] /\ UNCHANGED live
    /\ UNCHANGED <<muxVars, openSegments, queueVars, lister, playlist, initVars,
                   storageVars, failed>>

-----------------------------------------------------------------------------
\* Run returns: after Close, or without it if the pipeline failed.
Returned == (closing \in {"ok", "error"} \/ failed) /\ UNCHANGED vars

Goroutine(s) ==
    \/ UploadLoads(s) \/ UploadStores(s) \/ (\E put \in BOOLEAN : UploadFails(s, put))
    \/ (\E ok \in BOOLEAN : SplitInitSegment(s, ok)) \/ InitUploaded(s) \/ SegmentUploaded(s)

Dispatcher == DispatcherTakes \/ DispatcherSends \/ DispatcherEnds

\* The lister, and Close after it: they upload as goroutine 0.
Lister ==
    \/ ListerTakes \/ (\E upload \in BOOLEAN : ListerAppends(upload)) \/ ListerAppendsLive
    \/ ListerFails \/ ListerEnds \/ EnsureInit \/ EnsureUploaded \/ ListerUploaded
    \/ UploadLoads(0) \/ UploadStores(0) \/ (\E put \in BOOLEAN : UploadFails(0, put))
    \/ \E ok \in BOOLEAN : CloseWaits(ok) \/ CloseUploaded(ok)

Next ==
    \/ FragmentOpened \/ FragmentClosed \/ EOSReceived \/ Close
    \/ Dispatcher \/ Lister
    \/ \E s \in Segment : Goroutine(s)
    \/ Returned

Spec == Init /\ [][Next]_vars

\* Goroutines that can run do, and a call of the storage returns.
FairSpec ==
    /\ Spec
    /\ WF_vars(Dispatcher) /\ WF_vars(Lister)
    /\ \A s \in Segment : WF_vars(Goroutine(s))

-----------------------------------------------------------------------------
(* Properties *)

Listing == {<< >>} \cup UNION {[1..n -> Segment] : n \in Segment}

\* The type invariant; neither channel (maxPendingUploads) ever holds more than it can.
TypeOK ==
    /\ conf \in Configs /\ eos \in BOOLEAN
    /\ opened \in 0..MaxSegments /\ closed \in 0..opened
    /\ openSegments \subseteq Segment
    /\ closedSegments \in Listing /\ Len(closedSegments) <= QueueCap
    /\ playlistUpdates \in Listing /\ Len(playlistUpdates) <= QueueCap
    /\ closing \in {"no", "wait", "list", "live", "ok", "error"}
    /\ dispatcher \in {-1, 0} \cup Segment
    /\ lister \in [at : {"idle", "wait", "list", "listed", "live", "done"}, segment : 0..MaxSegments]
    /\ job \in [{0} \cup Segment ->
                 [what : {"none", "segment", "init", "list", "live"},
                  at : {"none", "ensure", "split", "load", "done"} \cup Store \cup Result]]
    /\ playlist \in [segments : Listing, ended : BOOLEAN]
    /\ live \in [segments : Listing, ended : BOOLEAN, seq : 0..MaxSegments]
    /\ Len(live.segments) <= Window
    /\ listed \in {"no"} \cup Store
    /\ {initWritten, initBackedUp, primaryFailed, failed} \subseteq BOOLEAN
    /\ stored \in [Store -> SUBSET Segment] /\ initAt \subseteq Store
    /\ \A st \in Store : /\ lists[st] \in [segments : Listing, ended : BOOLEAN]
                         /\ lives[st].segments \in Listing

(***************************************************************************)
(* Uploads finish in any order, but segments are listed in the order the   *)
(* muxer closed them ("keep playlist updates in order"), and the media     *)
(* sequence of the live playlist is the number of segments that slid out   *)
(* of its window: it shows a stretch of the event playlist that ends at    *)
(* most one segment before its end.                                        *)
(***************************************************************************)
ListedInOrder ==
    LET all == playlist.segments
        shown == live.seq + Len(live.segments)
    IN  /\ \A i, j \in 1..Len(all) : i < j => all[i] < all[j]
        /\ shown <= Len(all)
        /\ live.segments = SubSeq(all, live.seq + 1, shown)
        /\ conf.live /\ lister.at \in {"idle", "wait"} => shown = Len(all)

\* The segments in the playlists of a storage.
ListedAt(st) ==
    {lists[st].segments[i] : i \in 1..Len(lists[st].segments)} \cup
    {lives[st].segments[i] : i \in 1..Len(lives[st].segments)}

(***************************************************************************)
(* "do not update playlist until upload is complete" and "the init segment *)
(* is in storage before any playlist referencing it is uploaded": unless   *)
(* the egress failed, whoever fetches a playlist from either storage finds *)
(* every segment it lists in one of them, and beside a playlist in primary *)
(* storage the init segment it maps.                                       *)
(***************************************************************************)
PlaylistResolves ==
    ~failed =>
        /\ ListedAt("primary") \cup ListedAt("backup") \subseteq
               stored["primary"] \cup stored["backup"]
        /\ conf.fmp4 /\ ListedAt("primary") # {} => "primary" \in initAt

(***************************************************************************)
(* An egress that ends without an error has stored every segment the muxer *)
(* closed, and the playlist at PlaylistLocation lists all of them and is   *)
(* ended, wherever the fallback to backup storage struck.                  *)
(***************************************************************************)
ClosedIsComplete ==
    closing = "ok" /\ ~failed =>
        /\ stored["primary"] \cup stored["backup"] = 1..closed
        /\ listed \in Store
        /\ lists[listed] = [segments |-> [i \in 1..closed |-> i], ended |-> TRUE]
        /\ conf.live => \E st \in Store : lives[st] = live /\ live.ended

\* Close returns whatever failed: it waits for the lister, which waits for every upload.
CloseReturns == closing = "wait" ~> closing \in {"ok", "error"}

(***************************************************************************)
(* "a playlist that lands there needs the init segment beside it": not so  *)
(* when the upload of the playlist is the one at which primary storage     *)
(* fails.                                                                  *)
(***************************************************************************)
BackupResolves ==
    closing = "ok" /\ ~failed /\ conf.fmp4 /\ ListedAt("backup") # {} =>
        "backup" \in initAt

(***************************************************************************)
(* The playlists are true: they list the segments in order, and what they  *)
(* list can be fetched (handlePlaylistUpdates, UploadWithDestination).     *)
(***************************************************************************)
PlaylistsTrue == TypeOK /\ ListedInOrder /\ PlaylistResolves
=============================================================================
