---------------------------- MODULE MCPipeline ----------------------------
EXTENDS Pipeline

CONSTANTS c1, c2, s1

Output(kind, format, protocol, scheme, path, playlist, suffix) ==
    [kind |-> kind, format |-> format, protocol |-> protocol, scheme |-> scheme,
     path |-> path, playlist |-> playlist, suffix |-> suffix]

File(format) == Output("file", format, "", "", "", "", "")
Stream(protocol, scheme) == Output("stream", "", protocol, scheme, "", "", "")
Segments == Output("segments", "", "", "", "", "", "")
Images == Output("images", "", "", "", "", "", "index")

MCFiles == {File(f) : f \in {"unknown", "mp4", "ogg", "mp3", "mcap"}}
MCStreams == {Stream("default", "rtmp"), Stream("default", "ws"), Stream("rtmp", ""),
              Stream("srt", "srt"), Stream("websocket", "ws"), Stream("websocket", "")}
MCRefused == {Stream("default", ""), Stream("rtmp", "srt")}
MCOutputs == MCFiles \cup MCStreams \cup {Segments, Images}

\* The place of an output in a request of the first version.
Rank(o) == CASE o.kind = "file" -> 1 [] o.kind = "stream" -> 2
             [] o.kind = "segments" -> 3 [] o.kind = "images" -> 4

Some == {<<o>> : o \in MCOutputs \cup MCRefused} \cup (MCOutputs \X MCOutputs)
InOrder == {os \in Some : Len(os) = 2 => Rank(os[1]) <= Rank(os[2])}

Request(type, audio, video, base, layout, routes, pick, encoding, outputs) ==
    [type |-> type, audio |-> audio, video |-> video, base |-> base, layout |-> layout,
     routes |-> routes, pick |-> pick, encoding |-> encoding, width |-> 1280,
     height |-> 720, token |-> TRUE, outputs |-> outputs]

MCEncodings == {"", "passthrough", "opus", "mp3"}

Templates ==
    {Request(t, a, v, b, l, <<>>, "", e, os) :
        t \in {"room_composite", "template"}, a \in BOOLEAN, v \in BOOLEAN,
        b \in BOOLEAN, l \in {"", "speaker"}, e \in {"", "mp3"},
        os \in {<<o>> : o \in {File("unknown"), File("ogg"), Images, Stream("default", "rtmp")}}}

FirstVersion ==
    {Request(t, a, v, FALSE, "", <<>>, "", e, os) :
        t \in {"room_composite", "web", "participant", "track_composite"},
        a \in BOOLEAN, v \in BOOLEAN, e \in MCEncodings, os \in InOrder}

SecondVersion ==
    {Request(t, a, v, FALSE, "", <<>>, "", e, os) :
        t \in {"template", "v2web"}, a \in BOOLEAN, v \in BOOLEAN,
        e \in MCEncodings, os \in Some}

Media ==
    {Request("media", FALSE, FALSE, FALSE, "", rs, v, e, os) :
        rs \in {<<>>, <<"track">>, <<"left">>, <<"kind", "excluded">>, <<"excluded">>},
        v \in {"", "track", "participant", "videos"},
        e \in {"", "passthrough", "opus"}, os \in Some}

TrackRequests ==
    {Request("track", FALSE, FALSE, FALSE, "", <<>>, "", "", <<o>>) :
        o \in {File("unknown"), Stream("websocket", "ws"), Stream("websocket", "rtmp")}}

Unreachable ==
    {[Request("participant", TRUE, TRUE, FALSE, "", <<>>, "", "", <<File("mp4")>>)
        EXCEPT !.token = FALSE],
     [Request("web", TRUE, TRUE, FALSE, "", <<>>, "", "", <<File("mp4")>>)
        EXCEPT !.token = FALSE]}

\* What a retry may be asked for with: each kind of files under each form of path.
Again ==
    {Request("participant", TRUE, TRUE, FALSE, "", <<>>, "", "", <<o>>) :
        o \in {Output("file", "mp4", "", "", p, "", "") : p \in PathForms}
             \cup {Output("segments", "", "", "", p, l, "") : p \in PathForms, l \in PathForms}
             \cup {Output("images", "", "", "", p, "", s) :
                      p \in PathForms, s \in {"index", "timestamp", "overwrite"}}}

\* A canvas with room, an upright one, and one whose speaker layout has two places.
Canvas(layout, width, height) ==
    [Request("template", FALSE, TRUE, FALSE, layout, <<>>, "", "", <<File("mp4")>>)
        EXCEPT !.width = width, !.height = height]

MCFollowed ==
    {Canvas(l, 256, 144) : l \in {"grid", "speaker", "single-speaker"}}
        \cup {Canvas("grid", 1280, 720), Canvas("", 720, 1280)}

\* A participant request asks for both kinds; a media request says it by its
\* selections.
Proper(r) == r.type = "participant" => r.audio /\ r.video

MCRequests ==
    {r \in Templates \cup FirstVersion \cup SecondVersion \cup Media : Proper(r)}
        \cup TrackRequests \cup Unreachable \cup Again \cup MCFollowed

MCPictures == {[w |-> 1280, h |-> 720], [w |-> 640, h |-> 480], [w |-> 360, h |-> 640],
               [w |-> 16, h |-> 16]}
=============================================================================
