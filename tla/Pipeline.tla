----------------------------- MODULE Pipeline -----------------------------
(***************************************************************************)
(* From a request to its pipeline: the request is validated                *)
(* (PipelineConfig), the SDK source subscribes and completes the           *)
(* configuration with the codecs of the tracks it met                      *)
(* (pkg/pipeline/source/track_worker.go), the bins are built and linked    *)
(* (pkg/pipeline/controller.go BuildPipeline, pkg/pipeline/builder,        *)
(* pkg/gstreamer), and in a compositing egress the layout follows the room *)
(* (LayoutManager).  A failed egress may be asked for again, with the      *)
(* number of the attempt in the request.                                   *)
(*                                                                         *)
(* Bounds: Requests is the set of requests, the layout is followed for the *)
(* requests in Followed through MaxChanges events, in each of which at     *)
(* most MaxSpeakers tracks speak, and an egress is asked for MaxRetries    *)
(* times again.                                                            *)
(***************************************************************************)
EXTENDS PipelineConfig, LayoutManager

CONSTANTS
    Requests, Followed, MaxChanges, MaxSpeakers, MaxRetries,
    Pictures    \* the sizes of the tracks' pictures

ASSUME PipelineAssumption ==
    /\ Requests \subseteq ARequest /\ Followed \subseteq Requests
    /\ MaxChanges \in Nat /\ MaxSpeakers \in Nat /\ MaxRetries \in Nat

VARIABLES
    req,      \* the request
    sdk,      \* the server's EnableTemplateSDK
    attempt,  \* the request's RetryCount
    phase,    \* asked, rejected, accepted, subscribed, built or failed
    conf,     \* the PipelineConfig
    written,  \* the media files of the earlier attempts
    manager,  \* the layout manager, or NoLayout
    changes   \* events the layout has followed

pipelineVars == <<req, sdk, attempt, phase, conf, written, manager, changes>>

NoLayout == [layout |-> "none"]

PipelineInit ==
    /\ req \in Requests /\ sdk \in EnableTemplateSDK
    /\ attempt = 0 /\ phase = "asked"
    /\ conf = NewPipelineConfig(sdk)
    /\ written = {} /\ manager = NoLayout /\ changes = 0

Validate ==
    /\ phase = "asked"
    /\ conf' \in Update(sdk, req, attempt)
    /\ phase' = IF conf'.ok THEN "accepted" ELSE "rejected"
    /\ UNCHANGED <<req, sdk, attempt, written, manager, changes>>

-----------------------------------------------------------------------------
\* The tracks.

\* Whether the source subscribes to a track of that kind.  A participant's
\* tracks, and those a media request names, are subscribed to whether or not the
\* outputs left their kind enabled.
SubscribesAudio(p, r) ==
    CASE r.type = "participant" -> TRUE
      [] r.type = "media"       -> Captures(r.routes)
      [] OTHER                  -> p.audio

SubscribesVideo(p, r) ==
    CASE r.type = "participant" -> TRUE
      [] r.type = "media"       -> r.pick # ""
      [] OTHER                  -> p.video

AudioMimeTypes == {"opus", "pcmu"}
VideoMimeTypes == {"h264", "vp8", "vp9", "av1"}

\* The tracks that may be there when the source starts, "" for none; MCAP
\* leaves out VP8.  A track or track composite egress fails without its tracks;
\* the others wait three seconds for those that are published (awaitExpected).
Arrivals(p, r) ==
    LET late  == IF r.type = "track_composite" THEN {} ELSE {""}
        heard == IF SubscribesAudio(p, r) THEN AudioMimeTypes \cup late ELSE {""}
        seen  == IF SubscribesVideo(p, r)
                 THEN (VideoMimeTypes \ (IF TrackPreserving(p) THEN {"vp8"} ELSE {})) \cup late
                 ELSE {""}
    IN IF r.type = "track"
       THEN {[audio |-> a, video |-> ""] : a \in AudioMimeTypes}
                \cup {[audio |-> "", video |-> v] : v \in VideoMimeTypes}
       ELSE [audio : heard, video : seen]

\* updatePreInitStateLocked
HearsTrack(p, codec) ==
    IF codec = "" THEN p
    ELSE [p EXCEPT !.audio = TRUE, !.transcoding = ~OpusPassthrough(p, codec),
                   !.audioOut = IF @ = "" THEN "opus" ELSE @]

SeesTrack(p, codec) ==
    LET out == IF p.videoOut = "" THEN codec ELSE p.videoOut
    IN IF codec = "" THEN p
       ELSE [p EXCEPT !.video = TRUE, !.videoIn = codec, !.videoOut = out,
                      !.decoding = @ \/ codec # out,
                      !.encoding = @ \/ (codec # out /\ GetEncodedOutputs(p) # <<>>)]

\* A remux writes the file of its track's format.
Remuxes(p, codec) ==
    IF p.passthrough /\ p.file # NoOutput
    THEN [p EXCEPT !.file = TrackOutputTypes[codec]] ELSE p

TracksSubscribed ==
    /\ phase = "accepted" /\ conf.source = "sdk"
    /\ \E t \in Arrivals(conf, req) :
          LET met == SeesTrack(HearsTrack(conf, t.audio), t.video)
          IN conf' = IF t.audio # "" THEN Remuxes(met, t.audio)
                     ELSE IF t.video # "" THEN Remuxes(met, t.video) ELSE met
    /\ phase' = "subscribed"
    /\ UNCHANGED <<req, sdk, attempt, written, manager, changes>>

-----------------------------------------------------------------------------
\* The bins.

\* The source bins: MCAP takes its tracks without them.
SourceBins(p) ==
    IF TrackPreserving(p) THEN {}
    ELSE (IF p.audio THEN {"audio"} ELSE {}) \cup (IF p.video THEN {"video"} ELSE {})

EncodedBins(p) == ToSet(GetEncodedOutputs(p))
ImageBins(p) == 1..p.images

\* Raw video is there to be shared when it is rendered or decoded.
HasRawVideo(p) == p.source = "web" \/ p.decoding

\* What leaves a source bin for an encoded output: passed through, encoded, or raw.
AudioCaps(p) == IF p.transcoding THEN p.audioOut ELSE "opus"

VideoCaps(p) ==
    IF ~HasRawVideo(p) THEN p.videoIn ELSE IF p.encoding THEN p.videoOut ELSE "rawvideo"

Caps(p, src) == IF src = "audio" THEN AudioCaps(p) ELSE VideoCaps(p)

\* What the muxers take.
MuxerTakes ==
    [mp4 |-> {"aac", "opus", "h264", "av1"}, ogg |-> {"opus"}, mp3 |-> {"mp3"},
     webm |-> {"opus", "vp8", "vp9", "av1"}, hls |-> {"aac", "h264"},
     rtmp |-> {"aac", "h264"}, srt |-> {"aac", "opus", "h264"}, raw |-> {"raw"}]

SinkCount(p) == Len(GetEncodedOutputs(p)) + p.images

EncodedLinks(p) == SourceBins(p) \X EncodedBins(p)

\* A bin of images refuses the audio, but it is asked only if there are several
\* sink bins.
ImageLinks(p) ==
    (IF SinkCount(p) > 1 THEN SourceBins(p) \ {"audio"} ELSE SourceBins(p)) \X ImageBins(p)

\* A bin that cannot be made: a file of no known type, a stream that is not sent with
\* a muxer, a codec that nothing encodes.
FileBinFails(p) == p.file = "unknown"

StreamBinFails(p) == p.stream \notin {NoOutput, "rtmp", "srt"}

AudioEncoderFails(p) ==
    "audio" \in SourceBins(p) /\ p.transcoding /\ p.audioOut \notin AllOutputAudioCodecs

VideoEncoderFails(p) ==
    "video" \in SourceBins(p) /\ HasRawVideo(p) /\ p.encoding /\ p.videoOut # "h264"

BinsFail(p) ==
    FileBinFails(p) \/ StreamBinFails(p) \/ AudioEncoderFails(p) \/ VideoEncoderFails(p)

\* The one stream of the request is a websocket, and there is nothing to dial.
WithoutUrl(p, r) ==
    p.websocket # NoOutput /\ \E o \in ToSet(r.outputs) : o.kind = "stream" /\ o.scheme = ""

\* A link that cannot be made: the one pad of a websocket is taken, or there is no raw
\* video for the images.
WebsocketIsTaken(p) == p.websocket # NoOutput /\ Cardinality(SourceBins(p)) > 1

ImagesNeedRaw(p) ==
    ImageLinks(p) \cap ({"video"} \X ImageBins(p)) # {} /\ ~HasRawVideo(p)

LinksFail(p) == WebsocketIsTaken(p) \/ ImagesNeedRaw(p)

BuildPipeline ==
    /\ phase = "subscribed" \/ (phase = "accepted" /\ conf.source = "web")
    /\ phase' = IF BinsFail(conf) \/ WithoutUrl(conf, req) \/ LinksFail(conf)
                THEN "failed" ELSE "built"
    /\ manager' = IF req \in Followed /\ conf.compositing /\ phase' = "built"
             THEN NewLayoutManager(req.layout, req.width, req.height) ELSE NoLayout
    /\ UNCHANGED <<req, sdk, attempt, conf, written, changes>>

\* The server asks for a failed egress again.
Retry ==
    /\ phase \in {"built", "failed"} /\ req \notin Followed /\ attempt < MaxRetries
    /\ attempt' = attempt + 1 /\ phase' = "asked"
    /\ written' = written \cup conf.files
    /\ conf' = NewPipelineConfig(sdk)
    /\ UNCHANGED <<req, sdk, manager, changes>>

-----------------------------------------------------------------------------
\* The layout.

LayoutChanges(next) ==
    /\ manager # NoLayout /\ changes < MaxChanges
    /\ manager' = next /\ changes' = changes + 1
    /\ UNCHANGED <<req, sdk, attempt, phase, conf, written>>

TrackJoins(t) ==
    manager # NoLayout /\ t \notin ToSet(manager.tracks) /\ LayoutChanges(AddTrack(manager, t))

TrackLeaves(t) ==
    manager # NoLayout /\ t \in ToSet(manager.tracks) /\ LayoutChanges(RemoveTrack(manager, t))

SpeakersUpdated(levels) ==
    manager # NoLayout /\ LayoutChanges(UpdateSpeakers(manager, levels))

PipelineNext ==
    \/ Validate \/ TracksSubscribed \/ BuildPipeline \/ Retry
    \/ \E t \in Tracks : TrackJoins(t) \/ TrackLeaves(t)
    \/ \E speakers \in SUBSET Tracks : \E levels \in [speakers -> 1..2] :
          Cardinality(speakers) <= MaxSpeakers /\ SpeakersUpdated(levels)

PipelineSpec == PipelineInit /\ [][PipelineNext]_pipelineVars

-----------------------------------------------------------------------------
\* Routing and admission book a request as one of the SDK source exactly when it
\* is configured as one: IsSDKSourceRequest and Update decide it separately.
SourceAgrees ==
    phase = "accepted" => ((conf.source = "sdk") <=> IsSDKSourceRequest(sdk, req))

\* The codecs chosen at validation suit every encoded output, also the file
\* whose type is chosen only then.
CodecsFit ==
    phase = "accepted" /\ ~conf.passthrough =>
        /\ conf.file # "unknown"
        /\ \A o \in EncodedBins(conf) :
              /\ conf.audio => conf.audioOut \in CodecCompatibility[o]
              /\ conf.video => conf.videoOut \in CodecCompatibility[o]

\* What validation lets through although it cannot be built: a codec in an MP3
\* file that the table of compatible codecs allows and the muxer does not, a
\* websocket among the stream outputs of a first-version request, by its URL or
\* by its protocol, images of a request whose video a later websocket output
\* turned off, a kind of track that the outputs turned off and the subscription
\* turns on again, and a remux whose track came too late to tell the type of its
\* file.
Unbuildable(p) ==
    \/ p.file = "mp3" /\ p.audioOut # "mp3"
    \/ p.stream \in {"raw", "unknown"}
    \/ p.images > 0 /\ ~p.video
    \/ p.images > 0 /\ EncodedBins(p) = {} /\ p.audio
    \/ p.websocket # NoOutput /\ p.video
    \/ p.passthrough /\ p.audioOut = "" /\ p.videoOut = ""

\* Every other request that is accepted is built, if its websocket has a URL,
\* with whatever codecs its tracks turn out to have: each muxer is linked to what
\* it takes, each sink is linked to a source, and no source is left without a
\* sink.
AcceptedIsBuilt ==
    phase \in {"built", "failed"} /\ ~Unbuildable(conf) /\ ~WithoutUrl(conf, req) =>
        /\ phase = "built"
        /\ \A l \in EncodedLinks(conf) : Caps(conf, l[1]) \in MuxerTakes[l[2]]
        /\ \A i \in ImageBins(conf) : \E l \in ImageLinks(conf) : l[2] = i
        /\ \A l \in ImageLinks(conf) : l[1] = "video"
        /\ TrackPreserving(conf) \/ SourceBins(conf) # {}
        /\ \A s \in SourceBins(conf) : \E l \in EncodedLinks(conf) \cup ImageLinks(conf) : l[1] = s

\* A retry that is accepted writes no media file of an earlier attempt (the guards of
\* getFileConfig, getSegmentConfig and getImageConfig), but for images that are to
\* replace one another, and for a path that loses the attempt's number to the room's
\* name, which is put in after the guards looked at it.
RetryKeepsFiles ==
    \A name \in conf.files \cap written : name[1] = "overwritten" \/ name[2] = "undone"

\* Every track has a place, the places that are shown do not overlap, and a
\* picture of any size fits the place it is given.
LayoutFits ==
    manager # NoLayout =>
        LET cells == recalculate(manager)
        IN /\ WellPlaced(manager, cells)
           /\ \A i \in Shown(cells) : \A pic \in Pictures :
                 WellFitted(pic, cells[i], cells[i].track \in ScreenShares)

\* What a page of tracks makes of the one before it.
PageFollows(old, new) ==
    LET size  == maxItemsOnPage(new)
        ideal == ToSet(FirstOf(sortTracks(new), size))
        page  == FirstOf(new.displayOrder, size)
    IN /\ ToSet(page) = ideal
       /\ Len(new.tracks) > size /\ new.layout = old.layout =>
             \A i \in 1..Smaller(Len(page), Len(old.displayOrder)) :
                 page[i] # old.displayOrder[i] => old.displayOrder[i] \notin ideal

\* After a track was added or the speakers changed, the page shows the tracks
\* that the order of importance puts first; a track that stays on a full page
\* keeps its place.
PageIsIdeal ==
    [][manager' # manager /\ NoLayout \notin {manager, manager'}
         /\ Len(manager'.tracks) >= Len(manager.tracks) =>
             PageFollows(manager, manager')]_pipelineVars

\* What validation accepts means what routing, the encoders and the builders take it
\* to mean (Update, validateAndUpdateOutputParams, BuildPipeline).
AcceptedIsSound == SourceAgrees /\ CodecsFit /\ AcceptedIsBuilt

\* "websocket is audio-only" (pkg/config/output.go, updateOutputs).
WebsocketIsAudioOnly ==
    req.type \in V2 /\ phase = "subscribed" /\ conf.websocket # NoOutput => ~conf.video
=============================================================================
