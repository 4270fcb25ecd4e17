----------------------------- MODULE MCSDKSource -----------------------------
(* One track that is subscribed twice, with the notices of the bus or with *)
(* the end of the source, and an audio and a video track together.         *)
EXTENDS SDKSource

MCTracks == {"audio", "video"}
MCVideo == {"video"}

\* Requests that end with their last track.
Ending == {"composite", "passthrough"}
Only(track) == [t \in MCTracks |-> IF t = track THEN 2 ELSE 0]
Both == [t \in MCTracks |-> 1]

\* Audio and video differ in an egress that continues; a close may come at any time or never.
MCPlans ==
    [kind : {"room"}, subs : {Only("audio"), Only("video")},
     events : {{"playing", "provider"}, {"stopped", "close"}}]
      \cup [kind : Ending, subs : {Only("audio")}, events : {{"stopped", "close"}}]
      \cup [kind : {"composite"}, subs : {Both}, events : {{"close"}}]
      \cup [kind : {"passthrough", "room"}, subs : {Both}, events : {{}}]
=============================================================================
