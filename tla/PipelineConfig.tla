-------------------------- MODULE PipelineConfig --------------------------
(***************************************************************************)
(* What a start request becomes: pkg/config/pipeline.go (Update), its      *)
(* outputs (output*.go, encoding.go, urls.go) and the tables of            *)
(* pkg/types/types.go.                                                     *)
(*                                                                         *)
(* A request is a record                                                   *)
(*   type      room_composite, web, participant, track_composite, track,   *)
(*             or, of the second version, template, v2web, media           *)
(*   audio     whether it asks for audio: not video_only, or a track id is *)
(*   video     given                                                       *)
(*   base      whether it has a base URL of its own                        *)
(*   layout    its layout, "" for none                                     *)
(*   routes    media: the audio routes, "all" for capture_all              *)
(*   pick      media: "track", "participant" or "videos", "" for no video  *)
(*   encoding  "" for none, "passthrough", or an audio codec               *)
(*   width, height                                                         *)
(*   token     whether the server can be joined                            *)
(*   outputs   the outputs it asks for                                     *)
(* An output is a record: kind; for a file its format; for a stream its    *)
(* protocol and the scheme of its URL, "" for no URL; the path its files   *)
(* are given, for segments the name of the playlist, and for images what   *)
(* follows their prefix: a number, the time, or nothing, so that each one  *)
(* replaces the last (AnOutput).                                           *)
(* Every operator takes a configuration to the next one; ok turns FALSE    *)
(* where the code returns an error.                                        *)
(***************************************************************************)
EXTENDS Integers, Sequences, FiniteSets, SequencesExt

CONSTANT
    EnableTemplateSDK  \* the server option of that name: {TRUE}, {FALSE} or both

ASSUME TemplateAssumption == EnableTemplateSDK \subseteq BOOLEAN

V2 == {"template", "v2web", "media"}

RequestTypes == {"room_composite", "web", "participant", "track_composite", "track"} \cup V2

AllOutputAudioCodecs == {"aac", "opus", "raw", "mp3"}
AllOutputVideoCodecs == {"h264"}

\* The forms of a path are those of clean and Named below.
PathForms == {"", "directory", "fixed", "retry", "lost", "undone"}
AnOutput ==
    {o \in [kind : {"file", "stream", "segments", "images"},
            format : {"", "unknown", "mp4", "ogg", "mp3", "mcap"},
            protocol : {"", "default", "rtmp", "srt", "websocket"},
            scheme : {"", "rtmp", "srt", "ws"},
            path : PathForms, playlist : PathForms,
            suffix : {"", "index", "timestamp", "overwrite"}] :
        /\ o.kind = "file" => o.format # ""
        /\ o.kind = "stream" => o.protocol # ""
        /\ o.kind = "images" => o.suffix # ""}

\* A participant is asked for with both kinds of tracks, a track with one output.
ARequest ==
    {r \in [type : RequestTypes, audio : BOOLEAN, video : BOOLEAN, base : BOOLEAN,
            layout : STRING, routes : Seq({"all", "track", "kind", "left", "excluded"}),
            pick : {"", "track", "participant", "videos"},
            encoding : {"", "passthrough"} \cup AllOutputAudioCodecs,
            width : Nat, height : Nat, token : BOOLEAN, outputs : Seq(AnOutput)] :
        /\ r.type = "participant" => r.audio /\ r.video
        /\ r.type = "track" => r.outputs # <<>>}

NoOutput == "none"

CodecCompatibility ==
    [raw     |-> {"raw"},
     ogg     |-> {"opus"},
     mp4     |-> {"aac", "opus", "h264", "av1"},
     webm    |-> {"opus", "vp8", "vp9", "av1"},
     rtmp    |-> {"aac", "h264"},
     srt     |-> {"aac", "h264"},
     hls     |-> {"aac", "h264"},
     mp3     |-> {"mp3", "opus", "aac", "raw"},
     mcap    |-> {"opus", "h264", "vp9", "av1"},
     unknown |-> {"aac", "opus", "mp3", "h264", "vp8", "vp9", "av1"}]

DefaultAudioCodecs ==
    [raw |-> "raw", ogg |-> "opus", mp3 |-> "mp3", mp4 |-> "aac", webm |-> "opus",
     rtmp |-> "aac", srt |-> "aac", hls |-> "aac", mcap |-> "opus"]

DefaultVideoCodecs ==
    [mp4 |-> "h264", webm |-> "vp8", rtmp |-> "h264", srt |-> "h264",
     hls |-> "h264", mcap |-> "h264"]

AudioOnlyFileOutputTypes == <<"ogg", "mp4", "mp3">>
VideoFileOutputTypes == <<"mp4">>

TrackOutputTypes ==
    [opus |-> "ogg", pcmu |-> "ogg", h264 |-> "mp4", vp8 |-> "webm",
     vp9 |-> "webm", av1 |-> "mp4"]

StreamOutputTypes == [rtmp |-> "rtmp", srt |-> "srt", ws |-> "raw"]

-----------------------------------------------------------------------------
\* The configuration before a request is applied, and its reading.

NewPipelineConfig(sdk) ==
    [ok |-> TRUE, templateSDK |-> sdk, type |-> "", source |-> "",
     audio |-> FALSE, transcoding |-> FALSE, audioOut |-> "",
     video |-> FALSE, decoding |-> FALSE, encoding |-> FALSE,
     videoIn |-> "", videoOut |-> "", passthrough |-> FALSE, compositing |-> FALSE,
     file |-> NoOutput, segments |-> NoOutput, stream |-> NoOutput,
     websocket |-> NoOutput, images |-> 0, count |-> 0,
     files |-> {}]

Fails(p) == [p EXCEPT !.ok = FALSE]
Requires(p, condition) == [p EXCEPT !.ok = @ /\ condition]

OfKind(o) == IF o = NoOutput THEN <<>> ELSE <<o>>

\* The types of the encoded outputs, in the order in which they are asked.
GetEncodedOutputs(p) ==
    OfKind(p.file) \o OfKind(p.segments) \o OfKind(p.stream) \o OfKind(p.websocket)

TrackPreserving(p) == p.file = "mcap"

OpusPassthrough(p, codec) ==
    /\ codec = "opus"
    /\ TrackPreserving(p) \/ (p.passthrough /\ p.type = "media" /\ p.file # NoOutput)

-----------------------------------------------------------------------------
\* The source.

ShouldUseSDKSource(r) == ~r.video /\ r.layout = "" /\ ~r.base
UsesTemplateSDKCompositing(sdk, r) == sdk /\ ~r.base

\* What routing and admission ask of a request that nobody configured yet.
IsSDKSourceRequest(sdk, r) ==
    CASE r.type \in {"room_composite", "template"} ->
             UsesTemplateSDKCompositing(sdk, r) \/ ShouldUseSDKSource(r)
      [] r.type \in {"web", "v2web"} -> FALSE
      [] OTHER -> TRUE

TemplateSource(p, r) ==
    IF UsesTemplateSDKCompositing(p.templateSDK, r) \/ ShouldUseSDKSource(r)
    THEN "sdk" ELSE "web"

\* Audio and video that Chrome or a compositor renders.
Rendered(p, r) ==
    Requires([p EXCEPT !.audio = r.audio, !.transcoding = r.audio,
                       !.video = r.video, !.decoding = r.video,
                       !.videoIn = IF r.video THEN "rawvideo" ELSE @],
             r.audio \/ r.video)

ApplyTemplate(p, r) ==
    Rendered([p EXCEPT !.source = TemplateSource(p, r),
                       !.compositing = UsesTemplateSDKCompositing(p.templateSDK, r) /\ r.video],
             r)

ApplyWeb(p, r) == Rendered([p EXCEPT !.source = "web"], r)

\* Tracks that are subscribed to.
ApplyTracks(p, r) ==
    Requires([p EXCEPT !.source = "sdk", !.audio = r.audio, !.transcoding = r.audio,
                       !.video = r.video, !.decoding = r.video],
             r.audio \/ r.video)

\* A route is a track's id, a participant's kind, or a track's id on the left
\* channel; "excluded" takes a track out.
Captures(routes) == \E x \in ToSet(routes) : x # "excluded"

applyMediaAudio(p, routes) ==
    IF routes = <<>> THEN p
    ELSE Requires([p EXCEPT !.audio = TRUE, !.transcoding = ~p.passthrough],
                  Captures(routes))

ApplyMedia(p, r) ==
    LET seen == [p EXCEPT !.source = "sdk", !.video = r.pick # "",
                          !.decoding = \/ r.pick = "track" /\ ~p.passthrough
                                       \/ r.pick = "participant"]
        heard == applyMediaAudio(seen, r.routes)
    IN Requires(heard, heard.audio \/ heard.video)

\* A remux takes one track, named by its id, to one file of the track's format.
validatePassthrough(r) ==
    /\ r.type = "media"
    /\ r.pick \in {"", "track"}
    /\ r.routes \in {<<>>, <<"track">>, <<"left">>}
    /\ (r.pick = "track") # (r.routes # <<>>)
    /\ Len(r.outputs) = 1 /\ r.outputs[1].kind = "file" /\ r.outputs[1].format = "unknown"

applyPassthrough(p, r) ==
    LET mcap == \E o \in ToSet(r.outputs) : o.kind = "file" /\ o.format = "mcap"
    IN IF ~p.passthrough THEN p
       ELSE IF mcap THEN [p EXCEPT !.passthrough = FALSE]
       ELSE Requires(p, validatePassthrough(r))

applyEncoding(p, r) ==
    IF r.encoding = "passthrough" THEN [p EXCEPT !.passthrough = TRUE]
    ELSE Requires([p EXCEPT !.audioOut = r.encoding],
                  r.width >= 16 /\ r.height >= 16 /\ r.width % 2 = 0 /\ r.height % 2 = 0)

ApplySource(p, r) ==
    CASE r.type = "room_composite"  -> applyEncoding(ApplyTemplate(p, r), r)
      [] r.type = "web"             -> applyEncoding(ApplyWeb(p, r), r)
      [] r.type = "participant"     -> applyEncoding(ApplyTracks(p, r), r)
      [] r.type = "track_composite" -> applyEncoding(ApplyTracks(p, r), r)
      [] r.type = "track"           -> [p EXCEPT !.source = "sdk", !.passthrough = TRUE]
      [] r.type = "template"        -> ApplyTemplate(applyPassthrough(applyEncoding(p, r), r), r)
      [] r.type = "v2web"           -> ApplyWeb(applyPassthrough(applyEncoding(p, r), r), r)
      [] r.type = "media"           -> ApplyMedia(applyPassthrough(applyEncoding(p, r), r), r)

-----------------------------------------------------------------------------
\* Names.  A path is "" or a directory, "fixed" for a name without the retry
\* number, "retry" for one that holds {retry}, "lost" for one that loses it when
\* it is cleaned ({retry}/../x), and "undone" for one that loses it when it is
\* cleaned again, with the name of the room put in ({retry}/{room_name} and a
\* room called ../x).  A name is the path it comes from, the attempt where the
\* attempt is a part of it, and a name that is made up is called "auto".

clean(path) == IF path = "lost" THEN "fixed" ELSE path

MadeUp(attempt) == <<"auto", attempt>>

Named(path, attempt) ==
    CASE path \in {"", "directory"} -> MadeUp(attempt)
      [] path = "retry"             -> <<"retry", attempt>>
      [] OTHER                      -> <<path>>

HoldsRetry(path) == path \in {"retry", "undone"}

\* The mutation: the guard looks at the path before it is cleaned.
BugRetryable(o, attempt) ==
    LET holds(path) == HoldsRetry(path) \/ path = "lost"
    IN \/ attempt = 0 \/ o.kind = "stream" \/ holds(o.path)
       \/ o.kind = "images" /\ o.suffix # "index"
       \/ o.kind \in {"file", "images"} /\ o.path \in {"", "directory"}
       \/ o.kind = "segments" /\ o.path = "" /\ (o.playlist = "" \/ holds(o.playlist))

\* The guards of the retries.  A directory is a name of its own to that of the
\* segments; images that are not numbered need none.
Retryable(o, attempt) ==
    LET path == clean(o.path)
        list == clean(o.playlist)
    IN \/ attempt = 0
       \/ o.kind = "stream"
       \/ o.kind = "images" /\ o.suffix # "index"
       \/ o.kind \in {"file", "images"} /\ (path \in {"", "directory"} \/ HoldsRetry(path))
       \/ o.kind = "segments" /\ \/ HoldsRetry(path)
                                 \/ path = "" /\ (list = "" \/ HoldsRetry(list))

\* What the segments of an output are called: their prefix, or else the name of
\* the playlist, or else a name that is made up.
SegmentPrefix(o, attempt) ==
    IF clean(o.path) \in {"", "directory"} THEN Named(clean(o.playlist), attempt)
    ELSE Named(clean(o.path), attempt)

\* The time in the name of an image is another one in every attempt.
ImageName(o, attempt) ==
    CASE o.suffix = "timestamp" -> <<"image", "timestamp", attempt>>
      [] o.suffix = "overwrite" -> <<"overwritten">> \o Named(clean(o.path), attempt)
      [] OTHER                  -> <<"image">> \o Named(clean(o.path), attempt)

MediaNames(o, attempt) ==
    CASE o.kind = "file"     -> {<<"file">> \o Named(clean(o.path), attempt)}
      [] o.kind = "segments" -> {<<"segments">> \o SegmentPrefix(o, attempt)}
      [] o.kind = "images"   -> {ImageName(o, attempt)}
      [] OTHER               -> {}

-----------------------------------------------------------------------------
\* The outputs.

IsV2(p) == p.type \in V2

Encodes(p) == p.encoding \/ (p.video /\ (IsV2(p) => ~p.passthrough))

AddFile(p, o) ==
    Requires([p EXCEPT !.file = o.format, !.count = @ + 1, !.encoding = Encodes(p)],
             p.file = NoOutput)

\* The type of a stream: from its protocol or, by default, its first URL.  The
\* first version does not know the websocket protocol and leaves the type empty,
\* as that of an unknown file.
StreamType(p, o) ==
    CASE o.protocol = "default" /\ o.scheme = ""  -> "invalid"
      [] o.protocol = "default" /\ o.scheme # ""  -> StreamOutputTypes[o.scheme]
      [] o.protocol = "websocket"                 -> IF IsV2(p) THEN "raw" ELSE "unknown"
      [] OTHER                                    -> o.protocol

ValidateUrl(o, type) == o.scheme # "" => StreamOutputTypes[o.scheme] = type

\* The codecs a stream imposes.
getStreamConfig(p, type) ==
    CASE type \in {"rtmp", "srt"} -> [p EXCEPT !.audioOut = "aac", !.videoOut = "h264"]
      [] type = "raw"             -> [p EXCEPT !.audioOut = "raw"]
      [] OTHER                    -> p

AddStream(p, o) ==
    LET type  == StreamType(p, o)
        ws    == IsV2(p) /\ type = "raw"
        quiet == IF ws /\ p.video /\ p.audio
                 THEN [p EXCEPT !.video = FALSE, !.decoding = FALSE] ELSE p
        added == [getStreamConfig(quiet, type) EXCEPT
                     !.websocket = IF ws THEN type ELSE @,
                     !.stream = IF ws THEN @ ELSE type,
                     !.count = IF o.scheme = "" THEN @ ELSE @ + 1,
                     !.encoding = Encodes(quiet)]
    IN Requires(added, /\ type # "invalid" /\ ValidateUrl(o, type)
                       /\ p.stream = NoOutput /\ p.websocket = NoOutput)

AddSegments(p, o) ==
    Requires([p EXCEPT !.segments = "hls", !.count = @ + 1, !.encoding = Encodes(p)],
             p.segments = NoOutput)

AddImages(p, o) == Requires([p EXCEPT !.images = @ + 1, !.count = @ + 1], p.video)

AddOutput(p, o, attempt) ==
    LET added == CASE o.kind = "file"     -> AddFile(p, o)
                   [] o.kind = "stream"   -> AddStream(p, o)
                   [] o.kind = "segments" -> AddSegments(p, o)
                   [] o.kind = "images"   -> AddImages(p, o)
    IN Requires([added EXCEPT !.files = @ \cup MediaNames(o, attempt)],
                Retryable(o, attempt))

\* Images alone: video only.
ImagesOnly(p) ==
    IF p.images > 0 /\ GetEncodedOutputs(p) = <<>>
    THEN [p EXCEPT !.audio = FALSE, !.transcoding = FALSE] ELSE p

\* updateEncodedOutputs and updateOutputs: the first version takes its outputs in
\* the order file, stream, segments, images, the second as they are listed.
updateOutputs(p, r, attempt) ==
    LET added == FoldLeft(LAMBDA q, o : AddOutput(q, o, attempt), p, r.outputs)
    IN Requires(ImagesOnly(added), added.count > 0)

updateDirectOutput(p, o, attempt) ==
    IF o.kind = "file"
    THEN Requires([p EXCEPT !.file = "unknown", !.count = 1, !.files = MediaNames(o, attempt)],
                  Retryable(o, attempt))
    ELSE Requires([getStreamConfig(p, "raw") EXCEPT !.websocket = "raw", !.count = 1],
                  o.scheme # "" /\ ValidateUrl(o, "raw"))

-----------------------------------------------------------------------------
\* The codecs.

\* The codecs every output takes, of those the request leaves.
Compatible(given, all, outputs) ==
    {c \in (IF given = "" THEN all ELSE {given}) :
        \A o \in ToSet(outputs) : c \in CodecCompatibility[o]}

AudioCodecs(p) == Compatible(p.audioOut, AllOutputAudioCodecs, GetEncodedOutputs(p))
VideoCodecs(p) == Compatible(p.videoOut, AllOutputVideoCodecs, GetEncodedOutputs(p))

\* GetOutputTypeCompatibleWithCodecs, "unknown" when there is none.
FirstCompatible(types, audio, video) ==
    LET fits == {i \in DOMAIN types :
                    /\ audio = {} \/ audio \cap CodecCompatibility[types[i]] # {}
                    /\ video = {} \/ video \cap CodecCompatibility[types[i]] # {}}
    IN IF fits = {} THEN "unknown" ELSE types[Min(fits)]

updateOutputType(p) ==
    LET audio == IF p.audio THEN AudioCodecs(p) ELSE {}
        video == IF p.video THEN VideoCodecs(p) ELSE {}
        found == FirstCompatible(IF p.video THEN VideoFileOutputTypes
                                 ELSE AudioOnlyFileOutputTypes, audio, video)
    IN IF p.file # "unknown" THEN p
       ELSE Requires([p EXCEPT !.file = found], found # "unknown")

\* The mutation: the first output's default, whether or not the others take it.
BugCodecChoices(given, codecs, defaults, outputs) ==
    LET known == {i \in DOMAIN outputs : outputs[i] \in DOMAIN defaults}
    IN IF given # "" THEN {given}
       ELSE IF known # {} THEN {defaults[outputs[Min(known)]]} ELSE codecs

\* The default codec of the first output whose default every output takes, or
\* any codec that they all take.
CodecChoices(given, codecs, defaults, outputs) ==
    LET takes == {i \in DOMAIN outputs :
                     outputs[i] \in DOMAIN defaults /\ defaults[outputs[i]] \in codecs}
    IN IF takes # {} THEN {defaults[outputs[Min(takes)]]}
       ELSE IF given # "" THEN {given} ELSE codecs

\* validateAndUpdateOutputParams: the configurations it may end with.
validateAndUpdateOutputParams(p) ==
    LET audio == IF p.audio THEN AudioCodecs(p) ELSE {}
        video == IF p.video THEN VideoCodecs(p) ELSE {}
        typed == Requires(updateOutputType(p),
                          /\ ~p.audio \/ audio # {}
                          /\ ~p.video \/ video # {})
        outs  == GetEncodedOutputs(typed)
        codecs == [audio : IF p.audio
                           THEN CodecChoices(p.audioOut, audio, DefaultAudioCodecs, outs)
                           ELSE {p.audioOut},
                   video : IF p.video
                           THEN CodecChoices(p.videoOut, video, DefaultVideoCodecs, outs)
                           ELSE {p.videoOut}]
    IN IF ~typed.ok THEN {typed}
       ELSE {[typed EXCEPT !.audioOut = c.audio, !.videoOut = c.video] : c \in codecs}

-----------------------------------------------------------------------------
validateTrackPreserving(p, r) ==
    LET outputs == Len(GetEncodedOutputs(p)) + p.images
    IN IF p.file = "mcap"
       THEN p.type = "media" /\ outputs = 1 /\ "left" \notin ToSet(r.routes)
       ELSE r.pick # "videos"

\* Update: the configurations a request may become in its nth attempt.
Update(sdk, r, attempt) ==
    LET sourced == ApplySource([NewPipelineConfig(sdk) EXCEPT !.type = r.type], r)
        added   == CASE r.type = "track" -> updateDirectOutput(sourced, r.outputs[1], attempt)
                     [] OTHER            -> updateOutputs(sourced, r, attempt)
        valid   == Requires(added,
                       /\ validateTrackPreserving(added, r)
                       /\ added.passthrough => r.type \in {"track", "media"}
                       /\ r.token \/ r.type \in {"web", "v2web"})
    IN IF ~valid.ok THEN {Fails(NewPipelineConfig(sdk))}
       ELSE IF valid.passthrough THEN {valid}
       ELSE {IF q.ok THEN q ELSE Fails(NewPipelineConfig(sdk)) :
                q \in validateAndUpdateOutputParams(valid)}
=============================================================================
