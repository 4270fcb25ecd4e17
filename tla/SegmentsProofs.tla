---------------------------- MODULE SegmentsProofs ----------------------------
(***************************************************************************)
(* Proofs about Segments, for any number of segments, capacity of the      *)
(* channels and window of the live playlist: the playlists list segments   *)
(* in order and only what can be fetched, and an egress that closes        *)
(* without an error lost no segment.                                       *)
(***************************************************************************)
EXTENDS Segments, TLAPS

-----------------------------------------------------------------------------
(***************************************************************************)
(* The inductive invariant.  A closed segment is in one of five places on  *)
(* its way to the playlist: closedSegments, the dispatcher, the channel    *)
(* playlistUpdates, the lister, the playlist.                              *)
(***************************************************************************)
Elems(q) == {q[i] : i \in 1..Len(q)}

Waiting == IF lister.at = "wait" THEN {lister.segment} ELSE {}
Held == IF dispatcher > 0 THEN {dispatcher} ELSE {}

Precedes(A, B) == \A x \in A, y \in B : x < y

\* Segments in the order of their numbers; so many of them need as many numbers.
Rising(q) ==
    /\ q \in Seq(Segment)
    /\ \A i \in 1..Len(q) : i <= q[i]
    /\ \A i, j \in 1..Len(q) : i < j => q[i] < q[j]

JobAt == {"none", "ensure", "split", "load", "done"} \cup Store \cup Result
Jobs == [what : {"none", "segment", "init", "list", "live"}, at : JobAt]

MuxTypes ==
    /\ conf \in Configs /\ eos \in BOOLEAN /\ failed \in BOOLEAN
    /\ opened \in 0..MaxSegments /\ closed \in 0..MaxSegments
    /\ closed <= opened /\ opened <= closed + 1
    /\ openSegments \subseteq Segment

PlaceTypes ==
    /\ closing \in {"no", "wait", "list", "live", "ok", "error"}
    /\ dispatcher \in {-1, 0} \cup Segment
    /\ lister \in [at : {"idle", "wait", "list", "listed", "live", "done"},
                   segment : 0..MaxSegments]
    /\ lister.at = "wait" => lister.segment \in Segment
    /\ Len(closedSegments) <= QueueCap /\ Len(playlistUpdates) <= QueueCap

UploadTypes ==
    /\ job \in [{0} \cup Segment -> Jobs]
    /\ listed \in {"no"} \cup Store
    /\ initWritten \in BOOLEAN /\ initBackedUp \in BOOLEAN /\ primaryFailed \in BOOLEAN
    /\ stored \in [Store -> SUBSET Segment] /\ initAt \in SUBSET Store

ListTypes ==
    /\ playlist \in [segments : Seq(Segment), ended : BOOLEAN]
    /\ live \in [segments : Seq(Segment), ended : BOOLEAN, seq : Nat]
    /\ Len(live.segments) <= Window
    /\ lists \in [Store -> [segments : Seq(Segment), ended : BOOLEAN]]
    /\ lives \in [Store -> [segments : Seq(Segment), ended : BOOLEAN, seq : Nat]]

Types == MuxTypes /\ PlaceTypes /\ UploadTypes /\ ListTypes

\* The segments pass through the places in the order of their numbers.
Ordered(P, W, U, D, C, n) ==
    /\ Precedes(P, W \cup U \cup D \cup C) /\ Precedes(W, U \cup D \cup C)
    /\ Precedes(U, D \cup C) /\ Precedes(D, C)
    /\ \A s \in P \cup W \cup U \cup D \cup C : s <= n

InOrder ==
    /\ Rising(closedSegments) /\ Rising(playlistUpdates) /\ Rising(playlist.segments)
    /\ Ordered(Elems(playlist.segments), Waiting, Elems(playlistUpdates), Held,
               Elems(closedSegments), closed)

\* Unless the egress failed none is missing, and the playlist counts them from 1.
NoneLost ==
    ~failed =>
        /\ 1..closed \subseteq Elems(playlist.segments) \cup Waiting \cup Elems(playlistUpdates)
                                \cup Held \cup Elems(closedSegments)
        /\ \A i \in 1..Len(playlist.segments) : playlist.segments[i] = i

\* The live playlist is a stretch of the playlist, at most the last segment short of its end.
LiveFollows ==
    LET all == playlist.segments
        shown == live.seq + Len(live.segments)
    IN  /\ shown <= Len(all)
        /\ \A i \in 1..Len(live.segments) : live.segments[i] = all[live.seq + i]
        /\ ~conf.live => shown = 0
        /\ conf.live /\ lister.at \in {"idle", "wait", "live"} => shown = Len(all)
        /\ lister.at \in {"list", "listed"} =>
              /\ Len(all) > 0 /\ all[Len(all)] = lister.segment
              /\ conf.live => shown = Len(all) - 1

Stored == stored["primary"] \cup stored["backup"]

\* What the goroutine of a segment did when it is there.
UploadsTrue ==
    /\ \A a \in {0} \cup Segment : job[a].at \in {"backup", "backedUp"} => primaryFailed
    /\ \A s \in Segment :
          /\ s \in Stored \/ job[s].what # "none" => s <= closed
          /\ job[s].what \in {"none", "segment", "init"} /\ job[s].at # "ensure"
          /\ job[s].what = "none" <=> job[s].at = "none"
          /\ job[s].what = "segment" /\ job[s].at \in {"stored", "backedUp"} => s \in Stored
          /\ ~failed /\ job[s].at = "done" => s \in Stored /\ job[s].what = "segment"
          /\ ~failed /\ s \in Elems(playlist.segments) => job[s].at = "done"

\* The first segment takes the init segment along.
InitFirst ==
    ~failed /\ conf.fmp4 =>
        /\ ~initWritten => /\ \A s \in Segment : job[s].what = "none"
                           /\ Waiting = {} /\ Elems(playlistUpdates) = {}
        /\ initWritten => closed > 0 /\ 1 \notin Held \cup Elems(closedSegments)
        /\ 1 \in Segment /\ job[1].what = "init" /\ job[1].at = "stored" => "primary" \in initAt
        /\ 1 \in Segment /\ job[1].what = "segment" => primaryFailed \/ "primary" \in initAt

\* Goroutine 0 uploads what the lister, or Close, is at.
ListerUploads ==
    /\ job[0].what = "none" <=> Uploading \notin {"list", "live"}
    /\ job[0].what \in {"list", "live"} => job[0].what = Uploading
    /\ job[0].what # "segment" /\ job[0].at \notin {"split", "done"}
    /\ job[0].what = "none" <=> job[0].at = "none"
    /\ \A st \in Store :
          job[0].at = (IF st = "primary" THEN "stored" ELSE "backedUp") =>
              /\ job[0].what = "list" => lists[st] = playlist
              /\ job[0].what = "live" => lives[st] = live

Shown(st) == Elems(lists[st].segments) \cup Elems(lives[st].segments)

\* The playlists in storage are earlier ones of the lister, and resolve.
ListsFollow ==
    /\ \A st \in Store :
          /\ Rising(lists[st].segments) /\ Rising(lives[st].segments)
          /\ Shown(st) \subseteq Elems(playlist.segments)
    /\ ~failed /\ conf.fmp4 =>
          /\ Shown("primary") # {} => "primary" \in initAt
          /\ /\ job[0].what \in {"list", "live"} /\ job[0].at = "primary"
             /\ Len(playlist.segments) > 0
             => "primary" \in initAt

\* Close comes last.
CloseLast ==
    /\ closing # "no" => eos
    /\ dispatcher = -1 => closing # "no" /\ Len(closedSegments) = 0
    /\ lister.at = "done" /\ ~failed => dispatcher = -1 /\ Len(playlistUpdates) = 0
    /\ closing \notin {"no", "wait", "error"} => lister.at = "done" /\ playlist.ended
    /\ closing = "live" => conf.live
    /\ closing \in {"live", "ok"} /\ conf.live => live.ended
    /\ closing \in {"live", "ok"} => listed \in Store /\ lists[listed] = playlist
    /\ closing = "ok" /\ conf.live => \E st \in Store : lives[st] = live

IInv ==
    /\ Types /\ InOrder /\ NoneLost /\ LiveFollows /\ UploadsTrue /\ InitFirst
    /\ ListerUploads /\ ListsFollow /\ CloseLast

-----------------------------------------------------------------------------
(* The operators *)

LEMMA Constants ==
    /\ MaxSegments \in Nat /\ QueueCap \in Nat /\ Window \in Nat \ {0}
    /\ \A s : s \in Segment <=> s \in Nat /\ 1 <= s /\ s <= MaxSegments
    /\ \A c \in Configs : c.segments \in Nat /\ c.segments <= MaxSegments
BY SegmentsAssumption DEF Segment, Config

LEMMA ElemsAppend ==
    ASSUME NEW q \in Seq(Segment), NEW x \in Segment
    PROVE  /\ Append(q, x) \in Seq(Segment) /\ Len(Append(q, x)) = Len(q) + 1
           /\ \A i \in 1..Len(q) : Append(q, x)[i] = q[i]
           /\ Append(q, x)[Len(q) + 1] = x
           /\ Elems(Append(q, x)) = Elems(q) \cup {x}
<1>1. /\ Append(q, x) \in Seq(Segment) /\ Len(Append(q, x)) = Len(q) + 1
      /\ \A i \in 1..Len(q) : Append(q, x)[i] = q[i]
      /\ Append(q, x)[Len(q) + 1] = x
  OBVIOUS
<1>2. ASSUME NEW y \in Elems(Append(q, x)) PROVE y \in Elems(q) \cup {x}
  <2>1. PICK i \in 1..Len(q) + 1 : y = Append(q, x)[i]
    BY <1>1, <1>2 DEF Elems
  <2>2. CASE i = Len(q) + 1
    BY <1>1, <2>1, <2>2
  <2>3. CASE i \in 1..Len(q)
    BY <1>1, <2>1, <2>3 DEF Elems
  <2> QED BY <2>2, <2>3
<1>3. ASSUME NEW y \in Elems(q) PROVE y \in Elems(Append(q, x))
  <2>1. PICK i \in 1..Len(q) : y = q[i]
    BY <1>3 DEF Elems
  <2>2. i \in 1..Len(Append(q, x)) /\ y = Append(q, x)[i]
    BY <1>1, <2>1
  <2> QED BY <2>2 DEF Elems
<1>4. x \in Elems(Append(q, x))
  <2>1. Len(q) + 1 \in 1..Len(Append(q, x))
    BY <1>1
  <2> QED BY <1>1, <2>1 DEF Elems
<1> QED BY <1>1, <1>2, <1>3, <1>4

LEMMA ElemsTail ==
    ASSUME NEW q \in Seq(Segment), q # << >>
    PROVE  /\ Head(q) \in Segment /\ Head(q) = q[1] /\ Len(q) > 0
           /\ Tail(q) \in Seq(Segment) /\ Len(Tail(q)) = Len(q) - 1
           /\ \A i \in 1..Len(q) - 1 : Tail(q)[i] = q[i + 1]
           /\ Elems(q) = {Head(q)} \cup Elems(Tail(q))
<1>1. /\ Len(q) \in Nat /\ Len(q) > 0
      /\ Head(q) = q[1] /\ Tail(q) \in Seq(Segment) /\ Len(Tail(q)) = Len(q) - 1
      /\ \A i \in 1..Len(q) - 1 : Tail(q)[i] = q[i + 1]
  OBVIOUS
<1>2. Head(q) \in Segment
  BY <1>1
<1>3. ASSUME NEW y \in Elems(q) PROVE y \in {Head(q)} \cup Elems(Tail(q))
  <2>1. PICK i \in 1..Len(q) : y = q[i]
    BY <1>3 DEF Elems
  <2>2. CASE i = 1
    BY <1>1, <2>1, <2>2
  <2>3. CASE i # 1
    <3>1. i - 1 \in 1..Len(Tail(q)) /\ y = Tail(q)[i - 1]
      BY <1>1, <2>1, <2>3
    <3> QED BY <3>1 DEF Elems
  <2> QED BY <2>2, <2>3
<1>4. ASSUME NEW y \in Elems(Tail(q)) PROVE y \in Elems(q)
  <2>1. PICK i \in 1..Len(q) - 1 : y = Tail(q)[i]
    BY <1>1, <1>4 DEF Elems
  <2>2. i + 1 \in 1..Len(q) /\ y = q[i + 1]
    BY <1>1, <2>1
  <2> QED BY <2>2 DEF Elems
<1>5. Head(q) \in Elems(q)
  <2>1. 1 \in 1..Len(q)
    BY <1>1
  <2> QED BY <1>1, <2>1 DEF Elems
<1> QED BY <1>1, <1>2, <1>3, <1>4, <1>5

LEMMA ElemsTyped ==
    ASSUME NEW q \in Seq(Segment)
    PROVE  /\ Elems(q) \subseteq Segment
           /\ Elems(q) = {} <=> Len(q) = 0
           /\ Elems(<< >>) = {}
<1>1. Len(q) \in Nat /\ \A i \in 1..Len(q) : q[i] \in Segment
  OBVIOUS
<1>2. Len(q) > 0 => q[1] \in Elems(q)
  <2>1. Len(q) > 0 => 1 \in 1..Len(q)
    BY <1>1
  <2> QED BY <2>1 DEF Elems
<1> QED BY <1>1, <1>2 DEF Elems

LEMMA RisingAppend ==
    ASSUME NEW q, Rising(q), NEW x \in Segment, \A y \in Elems(q) : y < x
    PROVE  Rising(Append(q, x))
<1>1. q \in Seq(Segment) /\ Len(q) \in Nat /\ x \in Nat /\ x >= 1
  BY Constants DEF Rising
<1>2. \A i \in 1..Len(q) : q[i] \in Nat /\ i <= q[i] /\ q[i] < x
  BY <1>1, Constants DEF Rising, Elems
<1>3. Len(q) + 1 <= x
  <2>1. CASE Len(q) = 0
    BY <1>1, <2>1
  <2>2. CASE Len(q) > 0
    <3>1. Len(q) \in 1..Len(q)
      BY <1>1, <2>2
    <3> QED BY <1>1, <1>2, <3>1
  <2> QED BY <1>1, <2>1, <2>2
<1>4. \A i \in 1..Len(q) + 1 : i \in 1..Len(q) \/ i = Len(q) + 1
  BY <1>1
<1>5. \A i \in 1..Len(q) + 1 : i <= Append(q, x)[i]
  BY <1>1, <1>2, <1>3, <1>4, ElemsAppend
<1>6. ASSUME NEW i \in 1..Len(q) + 1, NEW j \in 1..Len(q) + 1, i < j
      PROVE  Append(q, x)[i] < Append(q, x)[j]
  <2>1. i \in 1..Len(q) /\ Append(q, x)[i] = q[i]
    BY <1>1, <1>6, ElemsAppend
  <2>2. CASE j \in 1..Len(q)
    BY <1>1, <1>6, <2>1, <2>2, ElemsAppend DEF Rising
  <2>3. CASE j = Len(q) + 1
    BY <1>1, <1>2, <2>1, <2>3, ElemsAppend
  <2> QED BY <1>4, <2>2, <2>3
<1> QED BY <1>1, <1>5, <1>6, ElemsAppend DEF Rising

LEMMA RisingTail ==
    ASSUME NEW q, Rising(q), q # << >>
    PROVE  Rising(Tail(q)) /\ \A y \in Elems(Tail(q)) : Head(q) < y
<1>1. q \in Seq(Segment) /\ Len(q) \in Nat /\ Len(q) > 0
  BY ElemsTail DEF Rising
<1>2. \A i \in 1..Len(q) - 1 : i + 1 \in 1..Len(q) /\ Tail(q)[i] = q[i + 1] /\ q[i + 1] \in Nat
  BY <1>1, ElemsTail, Constants
<1>3. \A i \in 1..Len(q) - 1 : i <= Tail(q)[i]
  BY <1>1, <1>2 DEF Rising
<1>4. \A i, j \in 1..Len(q) - 1 : i < j => Tail(q)[i] < Tail(q)[j]
  BY <1>1, <1>2 DEF Rising
<1>5. \A i \in 1..Len(q) - 1 : q[1] < Tail(q)[i]
  BY <1>1, <1>2 DEF Rising
<1> QED BY <1>1, <1>3, <1>4, <1>5, ElemsTail DEF Rising, Elems

LEMMA RisingListing ==
    ASSUME NEW q, Rising(q)
    PROVE  q \in Listing /\ Len(q) \in 0..MaxSegments /\ (q = << >> <=> Len(q) = 0)
<1>1. q \in Seq(Segment) /\ Len(q) \in Nat /\ q \in [1..Len(q) -> Segment]
  BY DEF Rising
<1>2. Len(q) <= MaxSegments
  <2>1. CASE Len(q) > 0
    <3>1. Len(q) \in 1..Len(q)
      BY <1>1, <2>1
    <3> QED BY <1>1, <3>1, Constants DEF Rising
  <2> QED BY <1>1, <2>1, Constants
<1>3. q = << >> <=> Len(q) = 0
  BY <1>1
<1>4. Len(q) > 0 => Len(q) \in Segment
  BY <1>1, <1>2, Constants
<1>5. q \in Listing
  BY <1>1, <1>3, <1>4 DEF Listing
<1> QED BY <1>1, <1>2, <1>3, <1>5, Constants

\* A goroutine goes on with its job.
LEMMA GotoStep ==
    ASSUME UploadTypes, NEW a \in {0} \cup Segment, NEW at \in JobAt, Goto(a, at)
    PROVE  /\ job' \in [{0} \cup Segment -> Jobs]
           /\ job'[a].at = at /\ job'[a].what = job[a].what
           /\ \A b \in {0} \cup Segment : b # a => job'[b] = job[b]
BY DEF UploadTypes, Goto, Jobs

LEMMA JobStep ==
    ASSUME UploadTypes, NEW a \in {0} \cup Segment, NEW j \in Jobs, job' = [job EXCEPT ![a] = j]
    PROVE  /\ job' \in [{0} \cup Segment -> Jobs]
           /\ job'[a] = j
           /\ \A b \in {0} \cup Segment : b # a => job'[b] = job[b]
BY DEF UploadTypes

\* A part of the invariant holds after a step that changes nothing it reads.
LEMMA Frames ==
    /\ MuxTypes /\ UNCHANGED <<conf, eos, failed, opened, closed, openSegments>> => MuxTypes'
    /\ PlaceTypes /\ UNCHANGED <<closing, dispatcher, lister, closedSegments, playlistUpdates>>
          => PlaceTypes'
    /\ UploadTypes /\ UNCHANGED <<job, listed, initWritten, initBackedUp, primaryFailed, stored,
                                  initAt>>
          => UploadTypes'
    /\ ListTypes /\ UNCHANGED <<playlist, live, lists, lives>> => ListTypes'
    /\ InOrder /\ UNCHANGED <<closedSegments, playlistUpdates, playlist, lister, dispatcher,
                              closed>>
          => InOrder'
    /\ NoneLost /\ UNCHANGED <<closedSegments, playlistUpdates, playlist, lister, dispatcher,
                               closed, failed>>
          => NoneLost'
    /\ LiveFollows /\ UNCHANGED <<conf, playlist, live, lister>> => LiveFollows'
    /\ UploadsTrue /\ UNCHANGED <<job, primaryFailed, stored, closed, failed, playlist>>
          => UploadsTrue'
    /\ InitFirst /\ UNCHANGED <<failed, conf, initWritten, job, lister, playlistUpdates, closed,
                                dispatcher, closedSegments, primaryFailed, initAt>>
          => InitFirst'
    /\ ListerUploads /\ UNCHANGED <<job, lister, closing, lists, lives, playlist, live>>
          => ListerUploads'
    /\ ListsFollow /\ UNCHANGED <<lists, lives, playlist, failed, conf, initAt, job>>
          => ListsFollow'
    /\ CloseLast /\ UNCHANGED <<closing, eos, dispatcher, closedSegments, lister, failed,
                                playlistUpdates, playlist, conf, live, listed, lists, lives>>
          => CloseLast'
<1>1. MuxTypes /\ UNCHANGED <<conf, eos, failed, opened, closed, openSegments>> => MuxTypes'
  BY DEF MuxTypes
<1>2. PlaceTypes /\ UNCHANGED <<closing, dispatcher, lister, closedSegments, playlistUpdates>>
         => PlaceTypes'
  BY DEF PlaceTypes
<1>3. UploadTypes /\ UNCHANGED <<job, listed, initWritten, initBackedUp, primaryFailed, stored,
                                 initAt>>
         => UploadTypes'
  BY DEF UploadTypes
<1>4. ListTypes /\ UNCHANGED <<playlist, live, lists, lives>> => ListTypes'
  BY DEF ListTypes
<1>5. InOrder /\ UNCHANGED <<closedSegments, playlistUpdates, playlist, lister, dispatcher,
                             closed>>
         => InOrder'
  BY DEF InOrder, Waiting, Held
<1>6. NoneLost /\ UNCHANGED <<closedSegments, playlistUpdates, playlist, lister, dispatcher,
                              closed, failed>>
         => NoneLost'
  BY DEF NoneLost, Waiting, Held
<1>7. LiveFollows /\ UNCHANGED <<conf, playlist, live, lister>> => LiveFollows'
  BY DEF LiveFollows
<1>8. UploadsTrue /\ UNCHANGED <<job, primaryFailed, stored, closed, failed, playlist>>
         => UploadsTrue'
  BY DEF UploadsTrue, Stored
<1>9. InitFirst /\ UNCHANGED <<failed, conf, initWritten, job, lister, playlistUpdates, closed,
                               dispatcher, closedSegments, primaryFailed, initAt>>
         => InitFirst'
  BY DEF InitFirst, Waiting, Held
<1>10. ListerUploads /\ UNCHANGED <<job, lister, closing, lists, lives, playlist, live>>
          => ListerUploads'
  BY DEF ListerUploads, Uploading
<1>11. ListsFollow /\ UNCHANGED <<lists, lives, playlist, failed, conf, initAt, job>>
          => ListsFollow'
  BY DEF ListsFollow, Shown
<1>12. CloseLast /\ UNCHANGED <<closing, eos, dispatcher, closedSegments, lister, failed,
                                playlistUpdates, playlist, conf, live, listed, lists, lives>>
          => CloseLast'
  BY DEF CloseLast
<1> QED BY <1>1, <1>2, <1>3, <1>4, <1>5, <1>6, <1>7, <1>8, <1>9, <1>10, <1>11, <1>12

-----------------------------------------------------------------------------
LEMMA Initially == Init => IInv
<1> SUFFICES ASSUME Init PROVE IInv
  OBVIOUS
<1> DEFINE nothing == << >>
<1>1. nothing \in Seq(Segment) /\ Len(nothing) = 0 /\ Elems(nothing) = {} /\ Rising(nothing)
  <2>1. nothing \in Seq(Segment) /\ Len(nothing) = 0
    OBVIOUS
  <2>2. Elems(nothing) = {}
    BY <2>1, ElemsTyped
  <2> QED BY <2>1, <2>2 DEF Rising
<1>2. /\ playlist = [segments |-> nothing, ended |-> FALSE]
      /\ live = [segments |-> nothing, ended |-> FALSE, seq |-> 0]
      /\ closedSegments = nothing /\ playlistUpdates = nothing
      /\ lister = [at |-> "idle", segment |-> 0]
      /\ job = [a \in {0} \cup Segment |-> [what |-> "none", at |-> "none"]]
      /\ lists = [st \in Store |-> playlist] /\ lives = [st \in Store |-> live]
  BY DEF Init, Job, NoJob
<1> HIDE DEF nothing
<1>3. Types
  <2>1. MuxTypes
    <3>1. eos \in BOOLEAN /\ failed \in BOOLEAN
      BY DEF Init
    <3> QED BY <3>1, Constants DEF Init, MuxTypes
  <2>2. PlaceTypes
    BY <1>1, <1>2, Constants DEF Init, PlaceTypes
  <2>3. UploadTypes
    <3>1. job \in [{0} \cup Segment -> Jobs]
      BY <1>2 DEF Jobs, JobAt
    <3>2. initWritten \in BOOLEAN /\ initBackedUp \in BOOLEAN /\ primaryFailed \in BOOLEAN
      BY DEF Init
    <3> QED BY <3>1, <3>2 DEF Init, UploadTypes
  <2>4. ListTypes
    BY <1>1, <1>2, Constants DEF ListTypes
  <2> QED BY <2>1, <2>2, <2>3, <2>4 DEF Types
<1>4. InOrder /\ NoneLost
  <2>1. Waiting = {} /\ Held = {} /\ playlist.segments = nothing /\ closed = 0
    BY <1>2 DEF Init, Waiting, Held
  <2> QED BY <1>1, <1>2, <2>1 DEF InOrder, NoneLost, Ordered, Precedes
<1>5. LiveFollows
  BY <1>1, <1>2 DEF LiveFollows
<1>6. UploadsTrue /\ InitFirst /\ ListerUploads
  BY <1>1, <1>2 DEF Init, UploadsTrue, InitFirst, ListerUploads, Stored, Waiting, Uploading, Store
<1>7. ListsFollow
  <2>1. \A st \in Store : lists[st].segments = nothing /\ lives[st].segments = nothing
    BY <1>2
  <2>2. \A st \in Store : Shown(st) = {}
    BY <1>1, <2>1 DEF Shown
  <2>3. job[0].what = "none" /\ "primary" \in Store
    BY <1>2 DEF Store
  <2> QED BY <1>1, <2>1, <2>2, <2>3 DEF ListsFollow
<1>8. CloseLast
  BY <1>2 DEF Init, CloseLast
<1> QED BY <1>3, <1>4, <1>5, <1>6, <1>7, <1>8 DEF IInv

-----------------------------------------------------------------------------
(***************************************************************************)
(* Every step keeps the invariant: by action, and by the part of the       *)
(* invariant the action disturbs.  First the muxer and the dispatcher.     *)
(***************************************************************************)
LEMMA FragmentOpenedStep == IInv /\ FragmentOpened => IInv'
<1> SUFFICES ASSUME IInv, FragmentOpened PROVE IInv'
  OBVIOUS
<1> USE Constants DEF IInv, Types, FragmentOpened, muxVars, queueVars, localVars, storageVars,
       initVars
<1>1. MuxTypes'
  BY DEF MuxTypes
<1> QED BY <1>1, Frames

LEMMA FragmentClosedStep == IInv /\ FragmentClosed => IInv'
<1> SUFFICES ASSUME IInv, FragmentClosed PROVE IInv'
  OBVIOUS
<1> USE Constants DEF IInv, Types, FragmentClosed, muxVars, queueVars, localVars, storageVars,
       initVars
<1>1. opened \in Segment /\ closed' = closed + 1 /\ closed \in Nat /\ closed' = opened
  BY DEF MuxTypes
<1>2. closedSegments \in Seq(Segment) /\ Len(closedSegments) \in Nat
  BY DEF InOrder, Rising
<1>3. /\ Rising(closedSegments')
      /\ \/ Elems(closedSegments') = Elems(closedSegments) /\ failed'
         \/ Elems(closedSegments') = Elems(closedSegments) \cup {opened} /\ failed' = failed
  <2>1. \A s \in Elems(closedSegments) : s < opened
    BY <1>1, <1>2, ElemsTyped DEF InOrder, Ordered
  <2>2. Rising(Append(closedSegments, opened))
    BY <1>1, <2>1, RisingAppend DEF InOrder
  <2> QED BY <1>1, <1>2, <2>2, ElemsAppend DEF InOrder
<1>4. MuxTypes'
  <2>1. failed' \in BOOLEAN
    BY DEF MuxTypes
  <2> QED BY <1>1, <2>1 DEF MuxTypes
<1>5. PlaceTypes'
  BY <1>1, <1>2, ElemsAppend DEF PlaceTypes
<1>6. \A s \in Elems(playlist.segments) \cup Waiting \cup Elems(playlistUpdates) \cup Held
               \cup Elems(closedSegments) : s \in Nat /\ s < opened
  <2>1. playlist.segments \in Seq(Segment) /\ playlistUpdates \in Seq(Segment)
    BY DEF InOrder, Rising
  <2>2. Waiting \subseteq Segment /\ Held \subseteq Segment
    BY DEF Waiting, Held, PlaceTypes
  <2>3. \A s \in Elems(playlist.segments) \cup Waiting \cup Elems(playlistUpdates) \cup Held
                 \cup Elems(closedSegments) : s \in Segment
    BY <1>2, <2>1, <2>2, ElemsTyped
  <2> QED BY <1>1, <2>3 DEF InOrder, Ordered
<1>7. InOrder'
  BY <1>1, <1>3, <1>6 DEF InOrder, Ordered, Precedes, Waiting, Held
<1>8. NoneLost'
  BY <1>1, <1>3 DEF NoneLost, Waiting, Held
<1>9. UploadsTrue'
  BY <1>1, <1>3 DEF UploadsTrue, Stored
<1>10. InitFirst'
  <2>1. Waiting' = Waiting /\ Held' = Held
    BY DEF Waiting, Held
  <2> QED BY <1>1, <1>3, <2>1 DEF InitFirst
<1>11. ListsFollow'
  BY <1>3 DEF ListsFollow, Shown
<1>12. CloseLast'
  BY <1>3 DEF CloseLast
<1> QED BY <1>4, <1>5, <1>7, <1>8, <1>9, <1>10, <1>11, <1>12, Frames

LEMMA EOSReceivedStep == IInv /\ EOSReceived => IInv'
<1> SUFFICES ASSUME IInv, EOSReceived PROVE IInv'
  OBVIOUS
<1> USE DEF IInv, Types, EOSReceived, muxVars, queueVars, localVars, storageVars, initVars
<1>1. MuxTypes'
  BY DEF MuxTypes
<1>2. CloseLast'
  BY DEF CloseLast
<1> QED BY <1>1, <1>2, Frames

LEMMA DispatcherTakesStep == IInv /\ DispatcherTakes => IInv'
<1> SUFFICES ASSUME IInv, DispatcherTakes PROVE IInv'
  OBVIOUS
<1> USE Constants DEF IInv, Types, DispatcherTakes, muxVars, queueVars, localVars, storageVars,
       initVars
<1> DEFINE first == Head(closedSegments)
<1>1. /\ Rising(closedSegments) /\ closedSegments \in Seq(Segment)
      /\ Rising(closedSegments') /\ first \in Segment
      /\ Elems(closedSegments) = {first} \cup Elems(closedSegments')
      /\ \A s \in Elems(closedSegments') : first < s
      /\ Len(closedSegments) \in Nat /\ Len(closedSegments) > 0
      /\ Len(closedSegments') = Len(closedSegments) - 1
  <2>1. Rising(closedSegments) /\ closedSegments \in Seq(Segment) /\ closedSegments # << >>
    BY DEF InOrder, Rising
  <2> QED BY <2>1, RisingTail, ElemsTail
<1>2. Held = {} /\ Held' = {first} /\ dispatcher' = first /\ Waiting' = Waiting
  BY <1>1 DEF Held, Waiting
<1> HIDE DEF first
<1>3. PlaceTypes'
  BY <1>1, <1>2 DEF PlaceTypes
<1>4. InOrder'
  BY <1>1, <1>2 DEF InOrder, Ordered, Precedes
<1>5. NoneLost'
  BY <1>1, <1>2 DEF NoneLost
<1>6. InitFirst'
  BY <1>1, <1>2 DEF InitFirst
<1>7. CloseLast'
  BY <1>1, <1>2 DEF CloseLast
<1> QED BY <1>3, <1>4, <1>5, <1>6, <1>7, Frames

\* The update is queued, and the goroutine of the segment starts with the init segment or not.
LEMMA DispatcherSendsStep == IInv /\ DispatcherSends => IInv'
<1> SUFFICES ASSUME IInv, DispatcherSends PROVE IInv'
  OBVIOUS
<1> USE Constants DEF IInv, Types, DispatcherSends, muxVars, queueVars, localVars, storageVars,
       initVars
<1> DEFINE d == dispatcher
           j == CASE ~conf.fmp4 -> Job("segment", "load")
                  [] conf.fmp4 /\ initWritten -> Job("segment", "split")
                  [] OTHER -> Job("init", "split")
<1>1. d \in Segment /\ d > 0 /\ Held = {d} /\ Held' = {} /\ Waiting' = Waiting
  BY DEF PlaceTypes, Held, Waiting
<1>2. /\ playlistUpdates \in Seq(Segment) /\ playlist.segments \in Seq(Segment)
      /\ closedSegments \in Seq(Segment)
      /\ Rising(playlistUpdates') /\ Elems(playlistUpdates') = Elems(playlistUpdates) \cup {d}
      /\ Len(playlistUpdates) \in Nat /\ Len(playlistUpdates') = Len(playlistUpdates) + 1
  <2>1. \A s \in Elems(playlistUpdates) : s < d
    BY <1>1 DEF InOrder, Ordered, Precedes
  <2>2. /\ Rising(playlistUpdates) /\ playlistUpdates \in Seq(Segment)
        /\ playlist.segments \in Seq(Segment) /\ closedSegments \in Seq(Segment)
    BY DEF InOrder, Rising
  <2> QED BY <1>1, <2>1, <2>2, RisingAppend, ElemsAppend
<1>3. /\ j \in Jobs /\ j.what \in {"segment", "init"} /\ j.at \in {"load", "split"}
      /\ j.what = "segment" => ~conf.fmp4 \/ initWritten
  BY DEF Job, Jobs, JobAt
<1>4. job' = [job EXCEPT ![d] = j]
  OBVIOUS
<1> HIDE DEF j
<1>5. /\ job' \in [{0} \cup Segment -> Jobs] /\ job'[d] = j
      /\ \A b \in {0} \cup Segment : b # d => job'[b] = job[b]
  BY <1>1, <1>3, <1>4, JobStep
<1>6. d <= closed /\ d # 0 /\ d \notin Elems(playlist.segments)
  <2>1. d \in Nat
    BY <1>1
  <2>2. d <= closed /\ \A s \in Elems(playlist.segments) : s < d
    BY <1>1 DEF InOrder, Ordered, Precedes
  <2> QED BY <1>1, <2>1, <2>2
<1>7. PlaceTypes'
  BY <1>1, <1>2 DEF PlaceTypes
<1>8. UploadTypes'
  <2>1. initWritten' \in BOOLEAN
    BY SegmentsAssumption DEF MuxTypes, Config
  <2> QED BY <1>5, <2>1 DEF UploadTypes
<1>9. InOrder'
  BY <1>1, <1>2 DEF InOrder, Ordered, Precedes
<1>10. NoneLost'
  BY <1>1, <1>2 DEF NoneLost
<1>11. UploadsTrue'
  BY <1>1, <1>3, <1>5, <1>6 DEF UploadsTrue, Stored
<1>12. InitFirst'
  <2> SUFFICES ASSUME ~failed, conf.fmp4 PROVE InitFirst'
    BY DEF InitFirst
  <2>1. CASE initWritten
    <3>1. d # 1
      BY <1>1, <2>1 DEF InitFirst
    <3> QED BY <1>1, <1>5, <2>1, <3>1 DEF InitFirst
  <2>2. CASE ~initWritten
    <3>1. Len(playlist.segments) = 0
      <4>1. \A s \in Segment : job[s].at = "none"
        BY <2>2 DEF InitFirst, UploadsTrue
      <4>2. \A s \in Segment : s \notin Elems(playlist.segments)
        BY <4>1 DEF UploadsTrue
      <4> QED BY <1>2, <4>2, ElemsTyped
    <3>2. Elems(playlist.segments) = {}
      BY <1>2, <3>1, ElemsTyped
    <3>3. 1 \in Held \cup Elems(closedSegments) /\ closed > 0
      BY <1>1, <1>6, <2>2, <3>2 DEF InitFirst, NoneLost, MuxTypes
    <3>4. d = 1 /\ 1 \notin Elems(closedSegments)
      BY <1>1, <1>2, <3>3, ElemsTyped DEF InOrder, Ordered, Precedes
    <3> QED BY <1>1, <1>3, <1>5, <2>2, <3>3, <3>4 DEF InitFirst
  <2> QED BY <2>1, <2>2
<1>13. ListerUploads'
  BY <1>1, <1>5, <1>6 DEF ListerUploads, Uploading
<1>14. ListsFollow'
  BY <1>1, <1>5, <1>6 DEF ListsFollow, Shown
<1>15. CloseLast'
  BY <1>1 DEF CloseLast
<1> QED BY <1>7, <1>8, <1>9, <1>10, <1>11, <1>12, <1>13, <1>14, <1>15, Frames

LEMMA DispatcherEndsStep == IInv /\ DispatcherEnds => IInv'
<1> SUFFICES ASSUME IInv, DispatcherEnds PROVE IInv'
  OBVIOUS
<1> USE DEF IInv, Types, DispatcherEnds, muxVars, queueVars, localVars, storageVars, initVars
<1>1. Held' = Held /\ Waiting' = Waiting /\ Len(closedSegments) = 0
  BY DEF Held, Waiting
<1>2. PlaceTypes'
  BY DEF PlaceTypes
<1>3. InOrder' /\ NoneLost' /\ InitFirst'
  BY <1>1 DEF InOrder, NoneLost, InitFirst
<1>4. CloseLast'
  BY <1>1 DEF CloseLast
<1> QED BY <1>2, <1>3, <1>4, Frames

-----------------------------------------------------------------------------
(* The lister *)

LEMMA ListerTakesStep == IInv /\ ListerTakes => IInv'
<1> SUFFICES ASSUME IInv, ListerTakes PROVE IInv'
  OBVIOUS
<1> USE Constants DEF IInv, Types, ListerTakes, muxVars, queueVars, localVars, storageVars,
       initVars
<1> DEFINE first == Head(playlistUpdates)
<1>1. /\ first \in Segment /\ Rising(playlistUpdates')
      /\ Elems(playlistUpdates) = {first} \cup Elems(playlistUpdates')
      /\ \A s \in Elems(playlistUpdates') : first < s
      /\ Len(playlistUpdates) \in Nat /\ Len(playlistUpdates) > 0
      /\ Len(playlistUpdates') = Len(playlistUpdates) - 1
  <2>1. Rising(playlistUpdates) /\ playlistUpdates \in Seq(Segment) /\ playlistUpdates # << >>
    BY DEF InOrder, Rising
  <2> QED BY <2>1, RisingTail, ElemsTail
<1>2. /\ lister.at = "idle" /\ lister'.at = "wait" /\ lister'.segment = first
      /\ lister' = [at |-> "wait", segment |-> first]
      /\ Waiting = {} /\ Waiting' = {first} /\ Held' = Held
  BY DEF Waiting, Held
<1> HIDE DEF first
<1>3. MuxTypes'
  BY DEF MuxTypes
<1>4. PlaceTypes'
  BY <1>1, <1>2 DEF PlaceTypes
<1>5. InOrder'
  BY <1>1, <1>2 DEF InOrder, Ordered, Precedes
<1>6. NoneLost'
  BY <1>1, <1>2 DEF NoneLost
<1>7. LiveFollows'
  BY <1>2 DEF LiveFollows
<1>8. InitFirst'
  BY <1>1, <1>2 DEF InitFirst
<1>9. ListerUploads'
  BY <1>2 DEF ListerUploads, Uploading
<1>10. CloseLast'
  BY <1>1, <1>2 DEF CloseLast
<1> QED BY <1>3, <1>4, <1>5, <1>6, <1>7, <1>8, <1>9, <1>10, Frames

LEMMA ListerAppendsStep ==
    ASSUME IInv, NEW upload \in BOOLEAN, ListerAppends(upload) PROVE IInv'
<1> USE Constants DEF IInv, Types, ListerAppends, muxVars, queueVars, localVars, storageVars,
       initVars
<1> DEFINE w == lister.segment
           all == playlist.segments
<1>1. /\ lister.at = "wait" /\ w \in Segment /\ w \in Nat /\ Waiting = {w}
      /\ lister'.at \in {"list", "listed"} /\ lister'.segment = w
      /\ Waiting' = {} /\ Held' = Held
      /\ lister' \in [at : {"list", "listed"}, segment : 0..MaxSegments]
  BY DEF PlaceTypes, Waiting, Held
<1>2. all \in Seq(Segment) /\ Len(all) \in Nat /\ Rising(all)
  BY DEF InOrder, Rising
<1>3. \A s \in Elems(all) : s < w
  BY <1>1 DEF InOrder, Ordered, Precedes
<1>4. /\ playlist' = [segments |-> Append(all, w), ended |-> playlist.ended]
      /\ playlist'.segments = Append(all, w)
  BY DEF ListTypes
<1>5. /\ playlist'.segments \in Seq(Segment) /\ Rising(playlist'.segments)
      /\ Elems(playlist'.segments) = Elems(all) \cup {w}
      /\ Len(playlist'.segments) = Len(all) + 1 /\ playlist'.segments[Len(all) + 1] = w
      /\ \A i \in 1..Len(all) : playlist'.segments[i] = all[i]
  BY <1>1, <1>2, <1>3, <1>4, RisingAppend, ElemsAppend
<1>6. /\ job[0].what = "none" /\ job[0].at = "none"
      /\ job' \in [{0} \cup Segment -> Jobs] /\ \A s \in Segment : job'[s] = job[s]
      /\ IF lister'.at = "list" THEN job'[0] = [what |-> "list", at |-> "ensure"]
                                ELSE job' = job
  <2>1. job[0].what = "none" /\ job[0].at = "none"
    BY <1>1 DEF ListerUploads, Uploading
  <2>2. CASE upload
    <3>1. /\ Job("list", "ensure") \in Jobs
          /\ Job("list", "ensure") = [what |-> "list", at |-> "ensure"]
      BY DEF Job, Jobs, JobAt
    <3>2. lister'.at = "list" /\ job' = [job EXCEPT ![0] = Job("list", "ensure")]
      BY <1>1, <2>2 DEF PlaceTypes
    <3>3. /\ job' \in [{0} \cup Segment -> Jobs] /\ job'[0] = Job("list", "ensure")
          /\ \A b \in {0} \cup Segment : b # 0 => job'[b] = job[b]
      BY <3>1, <3>2, JobStep
    <3> QED BY <2>1, <3>1, <3>2, <3>3
  <2>3. CASE ~upload
    BY <2>1, <2>3 DEF UploadTypes, PlaceTypes
  <2> QED BY <2>2, <2>3
<1>7. \A s \in Elems(all) \cup Elems(playlistUpdates) \cup Held \cup Elems(closedSegments) :
         s \in Nat
  <2>1. playlistUpdates \in Seq(Segment) /\ closedSegments \in Seq(Segment)
    BY DEF InOrder, Rising
  <2>2. Held \subseteq Segment
    BY DEF Held, PlaceTypes
  <2> QED BY <1>2, <2>1, <2>2, ElemsTyped
<1> HIDE DEF w, all
<1>8. PlaceTypes'
  BY <1>1 DEF PlaceTypes
<1>9. UploadTypes'
  BY <1>6 DEF UploadTypes
<1>10. ListTypes'
  BY <1>4, <1>5 DEF ListTypes
<1>11. InOrder'
  BY <1>1, <1>5 DEF InOrder, Ordered, Precedes, all
<1>12. NoneLost'
  <2> SUFFICES ASSUME ~failed PROVE NoneLost'
    BY DEF NoneLost
  <2>1. Len(all) + 1 <= w
    <3>1. CASE Len(all) = 0
      BY <1>1, <3>1
    <3>2. CASE Len(all) > 0
      <4>1. all[Len(all)] \in Elems(all) /\ Len(all) <= all[Len(all)]
        BY <1>2, <3>2 DEF Elems, Rising
      <4> QED BY <1>1, <1>2, <1>3, <1>7, <4>1
    <3> QED BY <1>2, <3>1, <3>2
  <2>2. w <= closed /\ closed \in Nat
    BY <1>1 DEF InOrder, Ordered, MuxTypes
  <2>3. Len(all) + 1 \in 1..closed
    BY <1>1, <1>2, <2>1, <2>2
  <2>4. Len(all) + 1 \notin Elems(all)
    BY <1>2 DEF NoneLost, Elems, all
  <2>5. \A s \in Elems(playlistUpdates) \cup Held \cup Elems(closedSegments) : w < s
    BY <1>1 DEF InOrder, Ordered, Precedes
  <2>6. Len(all) + 1 = w
    <3>1. Len(all) + 1 \in Elems(all) \cup {w} \cup Elems(playlistUpdates) \cup Held
                           \cup Elems(closedSegments)
      BY <1>1, <2>3 DEF NoneLost, all
    <3> QED BY <1>1, <1>2, <2>1, <2>4, <2>5, <3>1
  <2> QED BY <1>1, <1>2, <1>5, <2>6 DEF NoneLost, all
<1>13. LiveFollows'
  <2>1. live.seq \in Nat /\ Len(live.segments) \in Nat /\ conf \in Configs
    BY DEF ListTypes, MuxTypes
  <2>2. \A i \in 1..Len(live.segments) : live.seq + i \in 1..Len(all)
    BY <1>2, <2>1 DEF LiveFollows, all
  <2> QED BY <1>1, <1>2, <1>5, <2>1, <2>2 DEF LiveFollows, all
<1>14. UploadsTrue'
  <2>1. job[w].at = "done"
    BY DEF UploadComplete, w
  <2>2. job'[0].at \notin {"backup", "backedUp"}
    BY <1>6
  <2> QED BY <1>1, <1>5, <1>6, <2>1, <2>2 DEF UploadsTrue, Stored, all
<1>15. InitFirst'
  BY <1>1, <1>6 DEF InitFirst, UploadsTrue
<1>16. ListerUploads'
  BY <1>1, <1>6 DEF ListerUploads, Uploading
<1>17. ListsFollow'
  BY <1>5, <1>6 DEF ListsFollow, Shown, all
<1>18. CloseLast'
  BY <1>1 DEF CloseLast, PlaceTypes
<1> QED BY <1>8, <1>9, <1>10, <1>11, <1>12, <1>13, <1>14, <1>15, <1>16, <1>17, <1>18, Frames

\* Append of the live playlist: it catches up with the playlist.
LEMMA LiveAppended ==
    ASSUME ListTypes, LiveFollows, Rising(playlist.segments), lister.at = "listed", conf.live,
           NEW longer, longer = LiveAppend(lister.segment)
    PROVE  /\ longer \in [segments : Seq(Segment), ended : BOOLEAN, seq : Nat]
           /\ Len(longer.segments) <= Window /\ longer.ended = live.ended
           /\ longer.seq + Len(longer.segments) = Len(playlist.segments)
           /\ \A i \in 1..Len(longer.segments) :
                 longer.segments[i] = playlist.segments[longer.seq + i]
<1> DEFINE all == playlist.segments
           old == live.segments
           x == lister.segment
           n == Len(old)
           q == Append(old, x)
<1> USE Constants
<1>1. /\ old \in Seq(Segment) /\ n \in Nat /\ n <= Window /\ live.seq \in Nat
      /\ all \in Seq(Segment) /\ Len(all) \in Nat
      /\ live = [segments |-> old, ended |-> live.ended, seq |-> live.seq]
      /\ live.ended \in BOOLEAN
  BY DEF ListTypes
<1>2. /\ Len(all) = live.seq + n + 1 /\ all[live.seq + n + 1] = x
      /\ \A i \in 1..n : old[i] = all[live.seq + i]
  <2>1. Len(all) > 0 /\ all[Len(all)] = x /\ live.seq + n = Len(all) - 1
    BY <1>1 DEF LiveFollows
  <2>2. Len(all) = live.seq + n + 1
    BY <1>1, <2>1
  <2> QED BY <2>1, <2>2 DEF LiveFollows
<1>3. x \in Segment
  <2>1. Len(all) \in 1..Len(all)
    BY <1>1, <1>2
  <2> QED BY <1>1, <1>2, <2>1
<1> HIDE DEF all, old, x, n
<1>4. /\ q \in Seq(Segment) /\ Len(q) = n + 1 /\ q[n + 1] = x
      /\ \A i \in 1..n : q[i] = old[i]
  BY <1>1, <1>3, ElemsAppend DEF n
<1>5. \A i \in 1..n + 1 : q[i] = all[live.seq + i]
  <2>1. \A i \in 1..n + 1 : i \in 1..n \/ i = n + 1
    BY <1>1
  <2>2. all[live.seq + (n + 1)] = x
    BY <1>1, <1>2
  <2> QED BY <1>2, <1>4, <2>1, <2>2
<1>6. longer = IF Len(q) > Window THEN [live EXCEPT !.segments = Tail(q), !.seq = @ + 1]
                                  ELSE [live EXCEPT !.segments = q]
  BY DEF LiveAppend, old, x
<1> HIDE DEF q
<1>7. CASE Len(q) > Window
  <2>1. q # << >>
    BY <1>1, <1>4
  <2>2. Tail(q) \in Seq(Segment) /\ Len(Tail(q)) = n /\ \A i \in 1..n : Tail(q)[i] = q[i + 1]
    BY <1>1, <1>4, <2>1, ElemsTail
  <2>3. longer = [segments |-> Tail(q), ended |-> live.ended, seq |-> live.seq + 1]
    BY <1>1, <1>6, <1>7
  <2>4. \A i \in 1..n : i + 1 \in 1..n + 1 /\ live.seq + (i + 1) = (live.seq + 1) + i
    BY <1>1
  <2>5. \A i \in 1..n : Tail(q)[i] = all[(live.seq + 1) + i]
    BY <1>5, <2>2, <2>4
  <2>6. (live.seq + 1) + n = Len(all) /\ live.seq + 1 \in Nat
    BY <1>1, <1>2
  <2> QED BY <1>1, <2>2, <2>3, <2>5, <2>6 DEF all
<1>8. CASE Len(q) <= Window
  <2>1. longer = [segments |-> q, ended |-> live.ended, seq |-> live.seq]
    <3>1. ~(Len(q) > Window)
      BY <1>1, <1>4, <1>8
    <3>2. longer = [live EXCEPT !.segments = q]
      BY <1>6, <3>1
    <3>3. \A o, e, m : [[segments |-> o, ended |-> e, seq |-> m] EXCEPT !.segments = q]
                          = [segments |-> q, ended |-> e, seq |-> m]
      OBVIOUS
    <3> QED BY <1>1, <3>2, <3>3
  <2>2. live.seq + (n + 1) = Len(all)
    BY <1>1, <1>2
  <2>3. longer.segments = q /\ longer.ended = live.ended /\ longer.seq = live.seq
    BY <2>1
  <2>4. longer \in [segments : Seq(Segment), ended : BOOLEAN, seq : Nat]
    BY <1>1, <1>4, <2>1
  <2> QED BY <1>4, <1>5, <1>8, <2>2, <2>3, <2>4 DEF all
<1> QED BY <1>1, <1>4, <1>7, <1>8

\* So it lists segments of the playlist, in order.
LEMMA LiveRises ==
    ASSUME ListTypes, LiveFollows, Rising(playlist.segments)
    PROVE  Rising(live.segments) /\ Elems(live.segments) \subseteq Elems(playlist.segments)
<1> DEFINE all == playlist.segments
           q == live.segments
           m == live.seq
<1> USE Constants
<1>1. /\ q \in Seq(Segment) /\ Len(q) \in Nat /\ m \in Nat
      /\ all \in Seq(Segment) /\ Len(all) \in Nat
      /\ \A i \in 1..Len(all) : all[i] \in Nat
  BY DEF ListTypes
<1>2. m + Len(q) <= Len(all) /\ \A i \in 1..Len(q) : q[i] = all[m + i]
  BY DEF LiveFollows
<1>3. /\ \A i \in 1..Len(all) : i <= all[i]
      /\ \A i, j \in 1..Len(all) : i < j => all[i] < all[j]
  BY DEF Rising
<1> HIDE DEF all, q, m
<1>4. \A i \in 1..Len(q) : m + i \in 1..Len(all) /\ i <= m + i
  BY <1>1, <1>2
<1>5. ASSUME NEW i \in 1..Len(q) PROVE i <= q[i]
  <2>1. m + i \in 1..Len(all) /\ m + i <= all[m + i] /\ all[m + i] \in Nat
    BY <1>1, <1>3, <1>4
  <2>2. q[i] = all[m + i]
    BY <1>2
  <2> QED BY <1>1, <2>1, <2>2
<1>6. \A i, j \in 1..Len(q) : i < j => m + i < m + j
  BY <1>1
<1>7. \A i, j \in 1..Len(q) : i < j => q[i] < q[j]
  BY <1>2, <1>3, <1>4, <1>6
<1>8. Elems(q) \subseteq Elems(all)
  BY <1>2, <1>4 DEF Elems
<1> QED BY <1>1, <1>5, <1>7, <1>8 DEF Rising, all, q

LEMMA ListerAppendsLiveStep == IInv /\ ListerAppendsLive => IInv'
<1> SUFFICES ASSUME IInv, ListerAppendsLive PROVE IInv'
  OBVIOUS
<1> USE Constants DEF IInv, Types, ListerAppendsLive, muxVars, queueVars, localVars,
       storageVars, initVars
<1>1. /\ lister.at = "listed" /\ lister'.at = (IF conf.live THEN "live" ELSE "idle")
      /\ lister' \in [at : {"live", "idle"}, segment : 0..MaxSegments]
      /\ Waiting' = Waiting /\ Waiting = {} /\ Held' = Held
  BY DEF PlaceTypes, Waiting, Held
<1>2. /\ job[0].what = "none" /\ job[0].at = "none"
      /\ job' \in [{0} \cup Segment -> Jobs] /\ \A s \in Segment : job'[s] = job[s]
      /\ IF conf.live THEN job'[0] = [what |-> "live", at |-> "ensure"] ELSE job' = job
  <2>1. job[0].what = "none" /\ job[0].at = "none"
    BY <1>1 DEF ListerUploads, Uploading
  <2>2. CASE conf.live
    <3>1. /\ Job("live", "ensure") \in Jobs
          /\ Job("live", "ensure") = [what |-> "live", at |-> "ensure"]
      BY DEF Job, Jobs, JobAt
    <3>2. /\ job' \in [{0} \cup Segment -> Jobs] /\ job'[0] = Job("live", "ensure")
          /\ \A b \in {0} \cup Segment : b # 0 => job'[b] = job[b]
      BY <2>2, <3>1, JobStep
    <3> QED BY <2>1, <2>2, <3>1, <3>2
  <2>3. CASE ~conf.live
    BY <2>1, <2>3 DEF UploadTypes
  <2> QED BY <2>2, <2>3
<1>3. /\ live' \in [segments : Seq(Segment), ended : BOOLEAN, seq : Nat]
      /\ Len(live'.segments) <= Window
      /\ live'.seq + Len(live'.segments) <= Len(playlist.segments)
      /\ conf.live => live'.seq + Len(live'.segments) = Len(playlist.segments)
      /\ ~conf.live => live'.seq + Len(live'.segments) = 0
      /\ \A i \in 1..Len(live'.segments) : live'.segments[i] = playlist.segments[live'.seq + i]
  <2>1. Rising(playlist.segments) /\ Len(playlist.segments) \in Nat
    BY DEF InOrder, Rising
  <2>2. CASE conf.live
    <3>1. live' = LiveAppend(lister.segment)
      BY <2>2
    <3> QED BY <1>1, <2>1, <2>2, <3>1, LiveAppended
  <2>3. CASE ~conf.live
    BY <2>3 DEF ListTypes, LiveFollows
  <2> QED BY <2>2, <2>3
<1>4. PlaceTypes'
  BY <1>1 DEF PlaceTypes
<1>5. UploadTypes'
  BY <1>2 DEF UploadTypes
<1>6. ListTypes'
  BY <1>3 DEF ListTypes
<1>7. InOrder' /\ NoneLost'
  BY <1>1 DEF InOrder, NoneLost
<1>8. LiveFollows'
  BY <1>1, <1>3 DEF LiveFollows
<1>9. UploadsTrue'
  BY <1>2 DEF UploadsTrue, Stored
<1>10. InitFirst'
  BY <1>1, <1>2 DEF InitFirst
<1>11. ListerUploads'
  BY <1>1, <1>2 DEF ListerUploads, Uploading
<1>12. ListsFollow'
  BY <1>2 DEF ListsFollow, Shown
<1>13. CloseLast'
  BY <1>1 DEF CloseLast, PlaceTypes
<1> QED BY <1>4, <1>5, <1>6, <1>7, <1>8, <1>9, <1>10, <1>11, <1>12, <1>13, Frames

LEMMA ListerFailsStep == IInv /\ ListerFails => IInv'
<1> SUFFICES ASSUME IInv, ListerFails PROVE IInv'
  OBVIOUS
<1> USE Constants DEF IInv, Types, ListerFails, muxVars, queueVars, localVars, storageVars,
       initVars
<1>1. /\ lister.at \in {"wait", "listed"} /\ lister'.at = "done" /\ failed'
      /\ lister' \in [at : {"done"}, segment : 0..MaxSegments]
      /\ Waiting' = {} /\ Held' = Held
  BY DEF Waiting, Held
<1>2. /\ live' \in [segments : Seq(Segment), ended : BOOLEAN, seq : Nat]
      /\ Len(live'.segments) <= Window
      /\ live'.seq + Len(live'.segments) <= Len(playlist.segments)
      /\ ~conf.live => live' = live
      /\ \A i \in 1..Len(live'.segments) : live'.segments[i] = playlist.segments[live'.seq + i]
  <2>1. Rising(playlist.segments) /\ Len(playlist.segments) \in Nat
    BY DEF InOrder, Rising
  <2>2. CASE live' = live
    BY <2>2 DEF ListTypes, LiveFollows
  <2>3. CASE live' # live
    <3>1. lister.at = "listed" /\ conf.live /\ live' = LiveAppend(lister.segment)
      BY <2>3
    <3> QED BY <2>1, <3>1, LiveAppended
  <2> QED BY <2>2, <2>3
<1>3. closing \in {"no", "wait", "error"}
  BY <1>1 DEF CloseLast, PlaceTypes
<1>4. MuxTypes'
  <2>1. failed' \in BOOLEAN
    OBVIOUS
  <2> QED BY <2>1 DEF MuxTypes
<1>5. PlaceTypes'
  BY <1>1 DEF PlaceTypes
<1>6. ListTypes'
  BY <1>2 DEF ListTypes
<1>7. InOrder' /\ NoneLost'
  BY <1>1 DEF InOrder, NoneLost, Ordered, Precedes
<1>8. LiveFollows'
  BY <1>1, <1>2 DEF LiveFollows
<1>9. UploadsTrue'
  BY <1>1 DEF UploadsTrue, Stored
<1>10. InitFirst'
  BY <1>1 DEF InitFirst
<1>11. ListerUploads'
  BY <1>1, <1>3 DEF ListerUploads, Uploading
<1>12. ListsFollow'
  BY <1>1 DEF ListsFollow, Shown
<1>13. CloseLast'
  BY <1>1, <1>3 DEF CloseLast
<1> QED BY <1>4, <1>5, <1>6, <1>7, <1>8, <1>9, <1>10, <1>11, <1>12, <1>13, Frames

LEMMA ListerEndsStep == IInv /\ ListerEnds => IInv'
<1> SUFFICES ASSUME IInv, ListerEnds PROVE IInv'
  OBVIOUS
<1> USE Constants DEF IInv, Types, ListerEnds, muxVars, queueVars, localVars, storageVars,
       initVars
<1>1. /\ lister.at = "idle" /\ lister'.at = "done" /\ Len(playlistUpdates) = 0
      /\ lister' \in [at : {"done"}, segment : 0..MaxSegments]
      /\ Waiting' = Waiting /\ Held' = Held /\ closing \in {"no", "wait", "error"}
  BY DEF Waiting, Held, CloseLast, PlaceTypes
<1>2. PlaceTypes'
  BY <1>1 DEF PlaceTypes
<1>3. InOrder' /\ NoneLost' /\ InitFirst'
  BY <1>1 DEF InOrder, NoneLost, InitFirst
<1>4. LiveFollows'
  BY <1>1 DEF LiveFollows
<1>5. ListerUploads'
  BY <1>1 DEF ListerUploads, Uploading
<1>6. CloseLast'
  BY <1>1 DEF CloseLast
<1> QED BY <1>2, <1>3, <1>4, <1>5, <1>6, Frames

LEMMA EnsureInitStep == IInv /\ EnsureInit => IInv'
<1> SUFFICES ASSUME IInv, EnsureInit PROVE IInv'
  OBVIOUS
<1> USE Constants DEF IInv, Types, EnsureInit, muxVars, queueVars, localVars, storageVars,
       initVars
<1>1. PICK what \in {"init", job[0].what} : job' = [job EXCEPT ![0] = Job(what, "load")]
  OBVIOUS
<1>2. /\ job[0].at = "ensure" /\ job[0].what \in {"init", "list", "live"}
      /\ what \in {"init", "list", "live"} /\ Uploading \in {"list", "live"}
  BY DEF ListerUploads, UploadTypes, Jobs, JobAt
<1>3. Job(what, "load") = [what |-> what, at |-> "load"] /\ Job(what, "load") \in Jobs
  BY <1>2 DEF Job, Jobs, JobAt
<1>4. /\ job' \in [{0} \cup Segment -> Jobs] /\ job'[0] = [what |-> what, at |-> "load"]
      /\ \A b \in {0} \cup Segment : b # 0 => job'[b] = job[b]
  BY <1>1, <1>3, JobStep
<1>5. UploadTypes'
  BY <1>4 DEF UploadTypes
<1>6. UploadsTrue' /\ InitFirst'
  <2>1. Waiting' = Waiting /\ Held' = Held
    BY DEF Waiting, Held
  <2> QED BY <1>4, <2>1 DEF UploadsTrue, InitFirst, Stored
<1>7. ListerUploads'
  BY <1>2, <1>4 DEF ListerUploads, Uploading
<1>8. ListsFollow'
  BY <1>4 DEF ListsFollow, Shown
<1> QED BY <1>5, <1>6, <1>7, <1>8, Frames

LEMMA EnsureUploadedStep == IInv /\ EnsureUploaded => IInv'
<1> SUFFICES ASSUME IInv, EnsureUploaded PROVE IInv'
  OBVIOUS
<1> USE Constants DEF IInv, Types, EnsureUploaded, muxVars, queueVars, localVars, storageVars,
       initVars
<1>1. Uploading \in {"list", "live"}
  BY DEF ListerUploads
<1>2. /\ Job(Uploading, "load") = [what |-> Uploading, at |-> "load"]
      /\ Job(Uploading, "load") \in Jobs
  BY <1>1 DEF Job, Jobs, JobAt
<1>3. /\ job' \in [{0} \cup Segment -> Jobs] /\ job'[0] = [what |-> Uploading, at |-> "load"]
      /\ \A b \in {0} \cup Segment : b # 0 => job'[b] = job[b]
  BY <1>2, JobStep
<1>4. UploadTypes'
  <2>1. initBackedUp' \in BOOLEAN
    OBVIOUS
  <2> QED BY <1>3, <2>1 DEF UploadTypes
<1>5. UploadsTrue' /\ InitFirst'
  <2>1. Waiting' = Waiting /\ Held' = Held
    BY DEF Waiting, Held
  <2> QED BY <1>3, <2>1 DEF UploadsTrue, InitFirst, Stored
<1>6. ListerUploads'
  BY <1>1, <1>3 DEF ListerUploads, Uploading
<1>7. ListsFollow'
  BY <1>3 DEF ListsFollow, Shown
<1> QED BY <1>4, <1>5, <1>6, <1>7, Frames

LEMMA ListerUploadedStep == IInv /\ ListerUploaded => IInv'
<1> SUFFICES ASSUME IInv, ListerUploaded PROVE IInv'
  OBVIOUS
<1> USE Constants DEF IInv, Types, ListerUploaded, muxVars, queueVars, localVars, storageVars,
       initVars
<1>1. /\ lister.at \in {"list", "live"}
      /\ lister'.at = IF lister.at = "list" THEN "listed" ELSE "idle"
      /\ lister.at = "list" => lister'.segment = lister.segment
      /\ lister' \in [at : {"listed", "idle"}, segment : 0..MaxSegments]
      /\ Waiting' = Waiting /\ Held' = Held /\ closing \in {"no", "wait", "error"}
  <2>1. lister.at # "done" /\ Uploading = lister.at /\ job[0].what # "none"
    BY DEF Uploading, Uploaded, Result, ListerUploads
  <2>2. lister.at \in {"list", "live"}
    BY <2>1 DEF ListerUploads
  <2> QED BY <2>1, <2>2 DEF PlaceTypes, Waiting, Held, CloseLast
<1>2. /\ job' \in [{0} \cup Segment -> Jobs] /\ job'[0] = [what |-> "none", at |-> "none"]
      /\ \A b \in {0} \cup Segment : b # 0 => job'[b] = job[b]
  <2>1. NoJob = [what |-> "none", at |-> "none"] /\ NoJob \in Jobs
    BY DEF NoJob, Job, Jobs, JobAt
  <2> QED BY <2>1, JobStep
<1>3. PlaceTypes'
  BY <1>1 DEF PlaceTypes
<1>4. UploadTypes'
  <2>1. listed' \in {"no"} \cup Store
    BY DEF Listed, UploadTypes, Store
  <2> QED BY <1>2, <2>1 DEF UploadTypes
<1>5. InOrder' /\ NoneLost' /\ InitFirst'
  BY <1>1, <1>2 DEF InOrder, NoneLost, InitFirst
<1>6. LiveFollows'
  BY <1>1 DEF LiveFollows
<1>7. UploadsTrue'
  BY <1>2 DEF UploadsTrue, Stored
<1>8. ListerUploads'
  BY <1>1, <1>2 DEF ListerUploads, Uploading
<1>9. ListsFollow'
  BY <1>2 DEF ListsFollow, Shown
<1>10. CloseLast'
  BY <1>1 DEF CloseLast
<1> QED BY <1>3, <1>4, <1>5, <1>6, <1>7, <1>8, <1>9, <1>10, Frames

-----------------------------------------------------------------------------
(* Close *)

LEMMA CloseStep == IInv /\ Close => IInv'
<1> SUFFICES ASSUME IInv, Close PROVE IInv'
  OBVIOUS
<1> USE DEF IInv, Types, Close, muxVars, queueVars, localVars, storageVars, initVars
<1>1. PlaceTypes'
  BY DEF PlaceTypes
<1>2. ListerUploads'
  BY DEF ListerUploads, Uploading
<1>3. CloseLast'
  BY DEF CloseLast
<1> QED BY <1>1, <1>2, <1>3, Frames

LEMMA CloseWaitsStep == ASSUME IInv, NEW ok \in BOOLEAN, CloseWaits(ok) PROVE IInv'
<1> USE Constants DEF IInv, Types, CloseWaits, muxVars, queueVars, localVars, storageVars,
       initVars
<1>1. /\ lister.at = "done" /\ closing = "wait" /\ closing' = (IF ok THEN "list" ELSE "error")
      /\ playlist'.segments = playlist.segments /\ (ok => playlist'.ended)
      /\ playlist' \in [segments : Seq(Segment), ended : BOOLEAN]
      /\ Waiting' = Waiting /\ Held' = Held
  BY DEF ListTypes, Waiting, Held
<1>2. /\ job' \in [{0} \cup Segment -> Jobs] /\ \A s \in Segment : job'[s] = job[s]
      /\ job'[0] = IF ok THEN [what |-> "list", at |-> "ensure"]
                         ELSE [what |-> "none", at |-> "none"]
  <2>1. job[0] = [what |-> "none", at |-> "none"]
    BY <1>1 DEF ListerUploads, Uploading, UploadTypes, Jobs
  <2>2. CASE ok
    <3>1. /\ Job("list", "ensure") \in Jobs
          /\ Job("list", "ensure") = [what |-> "list", at |-> "ensure"]
      BY DEF Job, Jobs, JobAt
    <3>2. /\ job' \in [{0} \cup Segment -> Jobs] /\ job'[0] = Job("list", "ensure")
          /\ \A b \in {0} \cup Segment : b # 0 => job'[b] = job[b]
      BY <2>2, <3>1, JobStep
    <3> QED BY <2>2, <3>1, <3>2
  <2>3. CASE ~ok
    BY <2>1, <2>3 DEF UploadTypes
  <2> QED BY <2>2, <2>3
<1>3. PlaceTypes'
  BY <1>1 DEF PlaceTypes
<1>4. UploadTypes'
  BY <1>2 DEF UploadTypes
<1>5. ListTypes'
  BY <1>1 DEF ListTypes
<1>6. InOrder' /\ NoneLost' /\ InitFirst'
  BY <1>1, <1>2 DEF InOrder, NoneLost, InitFirst
<1>7. LiveFollows'
  BY <1>1 DEF LiveFollows
<1>8. UploadsTrue'
  BY <1>1, <1>2 DEF UploadsTrue, Stored
<1>9. ListerUploads'
  BY <1>1, <1>2 DEF ListerUploads, Uploading
<1>10. ListsFollow'
  BY <1>1, <1>2 DEF ListsFollow, Shown
<1>11. CloseLast'
  BY <1>1 DEF CloseLast
<1> QED BY <1>3, <1>4, <1>5, <1>6, <1>7, <1>8, <1>9, <1>10, <1>11, Frames

LEMMA CloseUploadedStep == ASSUME IInv, NEW ok \in BOOLEAN, CloseUploaded(ok) PROVE IInv'
<1> USE Constants DEF IInv, Types, CloseUploaded, muxVars, queueVars, localVars, storageVars,
       initVars
<1>1. lister.at = "done" /\ closing \in {"list", "live"} /\ Uploading = closing /\ playlist.ended
  BY DEF CloseLast, Uploading
<1>2. /\ closing' \in {"live", "ok", "error"}
      /\ closing' = "live" => conf.live /\ closing = "list" /\ live'.ended
      /\ closing' # "live" => live' = live
      /\ closing' = "ok" => (conf.live => closing = "live")
      /\ closing' # "error" => job[0].at # "error"
      /\ live' = [live EXCEPT !.ended = live'.ended] /\ live'.segments = live.segments
      /\ live'.seq = live.seq /\ live'.ended \in BOOLEAN
  BY DEF ListTypes
<1>3. /\ job' \in [{0} \cup Segment -> Jobs] /\ \A s \in Segment : job'[s] = job[s]
      /\ job'[0] = IF closing' = "live" THEN [what |-> "live", at |-> "ensure"]
                                        ELSE [what |-> "none", at |-> "none"]
  <2>1. PICK j \in {Job("live", "ensure"), NoJob} :
           job' = [job EXCEPT ![0] = j] /\ (j = Job("live", "ensure") <=> closing' = "live")
    BY DEF NoJob, Job
  <2>2. /\ Job("live", "ensure") = [what |-> "live", at |-> "ensure"]
        /\ Job("live", "ensure") \in Jobs
        /\ NoJob = [what |-> "none", at |-> "none"] /\ NoJob \in Jobs
    BY DEF NoJob, Job, Jobs, JobAt
  <2>3. /\ job' \in [{0} \cup Segment -> Jobs] /\ job'[0] = j
        /\ \A b \in {0} \cup Segment : b # 0 => job'[b] = job[b]
    BY <2>1, <2>2, JobStep
  <2> QED BY <2>1, <2>2, <2>3
<1>4. job[0].at # "error" =>
          /\ job[0].what = closing /\ job[0].at \in {"stored", "backedUp"}
          /\ closing = "list" => listed' \in Store /\ lists[listed'] = playlist
          /\ closing = "live" => listed' = listed /\ \E st \in Store : lives[st] = live
  <2> SUFFICES ASSUME job[0].at # "error"
               PROVE  /\ job[0].what = closing /\ job[0].at \in {"stored", "backedUp"}
                      /\ closing = "list" => listed' \in Store /\ lists[listed'] = playlist
                      /\ closing = "live" => listed' = listed /\ \E st \in Store : lives[st] = live
    OBVIOUS
  <2>1. job[0].what = closing /\ job[0].at \in {"stored", "backedUp"}
    BY <1>1 DEF Uploaded, Result
  <2>2. "primary" \in Store /\ "backup" \in Store
    BY DEF Store
  <2>3. CASE job[0].at = "stored"
    BY <1>1, <2>1, <2>2, <2>3 DEF ListerUploads, Listed
  <2>4. CASE job[0].at = "backedUp"
    BY <1>1, <2>1, <2>2, <2>4 DEF ListerUploads, Listed
  <2> QED BY <2>1, <2>3, <2>4
<1>5. PlaceTypes'
  BY <1>2 DEF PlaceTypes
<1>6. UploadTypes'
  <2>1. listed' \in {"no"} \cup Store
    BY DEF Listed, UploadTypes, Store
  <2> QED BY <1>3, <2>1 DEF UploadTypes
<1>7. ListTypes'
  BY <1>2 DEF ListTypes
<1>8. LiveFollows'
  BY <1>2 DEF LiveFollows
<1>9. UploadsTrue'
  BY <1>3 DEF UploadsTrue, Stored
<1>10. InitFirst'
  <2>1. Waiting' = Waiting /\ Held' = Held
    BY DEF Waiting, Held
  <2> QED BY <1>3, <2>1 DEF InitFirst
<1>11. ListerUploads'
  BY <1>1, <1>2, <1>3 DEF ListerUploads, Uploading
<1>12. ListsFollow'
  BY <1>3 DEF ListsFollow, Shown
<1>13. CloseLast'
  <2>1. closing' \in {"live", "ok"} => listed' \in Store /\ lists[listed'] = playlist
    BY <1>1, <1>2, <1>4 DEF CloseLast
  <2>2. closing' \in {"live", "ok"} /\ conf.live => live'.ended
    BY <1>2 DEF CloseLast
  <2>3. closing' = "ok" /\ conf.live => \E st \in Store : lives[st] = live'
    BY <1>2, <1>4
  <2> QED BY <1>1, <1>2, <2>1, <2>2, <2>3 DEF CloseLast
<1> QED BY <1>5, <1>6, <1>7, <1>8, <1>9, <1>10, <1>11, <1>12, <1>13, Frames

-----------------------------------------------------------------------------
(* Uploads *)

\* A put, successful or not, adds to a storage what the goroutine has to upload.
LEMMA PutKeeps ==
    ASSUME IInv, NEW a \in {0} \cup Segment, NEW st \in Store,
           Put(a, st) \/ UNCHANGED <<stored, initAt, lists, lives>>
    PROVE  /\ stored' \in [Store -> SUBSET Segment] /\ initAt' \in SUBSET Store
           /\ \A s \in Segment : s \in Stored => s \in Stored'
           /\ \A s \in Segment : s \in Stored' => s \in Stored \/ (s = a /\ job[a].what = "segment")
           /\ initAt \subseteq initAt'
           /\ job[a].what \notin {"list", "live"} => lists' = lists /\ lives' = lives
           /\ lists' \in [Store -> [segments : Seq(Segment), ended : BOOLEAN]]
           /\ lives' \in [Store -> [segments : Seq(Segment), ended : BOOLEAN, seq : Nat]]
           /\ \A t \in Store : \/ lists'[t] = lists[t]
                               \/ lists'[t] = playlist /\ t = st /\ job[a].what = "list"
           /\ \A t \in Store : \/ lives'[t] = lives[t]
                               \/ lives'[t] = live /\ t = st /\ job[a].what = "live"
<1> USE DEF IInv, Types
<1>1. CASE UNCHANGED <<stored, initAt, lists, lives>>
  BY <1>1 DEF UploadTypes, ListTypes, Stored
<1>2. CASE Put(a, st)
  <2>1. job[a].what = "segment" => a \in Segment
    BY DEF ListerUploads
  <2>2. stored' \in [Store -> SUBSET Segment] /\ initAt' \in SUBSET Store /\ initAt \subseteq initAt'
    BY <1>2, <2>1 DEF Put, UploadTypes
  <2>3. \A t \in Store : \/ stored'[t] = stored[t]
                         \/ stored'[t] = stored[t] \cup {a} /\ job[a].what = "segment"
    BY <1>2 DEF Put, UploadTypes
  <2>4. "primary" \in Store /\ "backup" \in Store
    BY DEF Store
  <2>5. /\ lists' \in [Store -> [segments : Seq(Segment), ended : BOOLEAN]]
        /\ \A t \in Store : \/ lists'[t] = lists[t]
                            \/ lists'[t] = playlist /\ t = st /\ job[a].what = "list"
    BY <1>2 DEF Put, ListTypes
  <2>6. /\ lives' \in [Store -> [segments : Seq(Segment), ended : BOOLEAN, seq : Nat]]
        /\ \A t \in Store : \/ lives'[t] = lives[t]
                            \/ lives'[t] = live /\ t = st /\ job[a].what = "live"
    BY <1>2 DEF Put, ListTypes
  <2>7. job[a].what \notin {"list", "live"} => lists' = lists /\ lives' = lives
    BY <1>2 DEF Put
  <2> QED BY <2>2, <2>3, <2>4, <2>5, <2>6, <2>7 DEF Stored
<1> QED BY <1>1, <1>2

LEMMA PutAdds ==
    ASSUME IInv, NEW a \in {0} \cup Segment, NEW st \in Store, Put(a, st)
    PROVE  /\ job[a].what = "segment" => a \in Stored'
           /\ job[a].what = "init" => st \in initAt'
           /\ job[a].what = "list" => lists'[st] = playlist
           /\ job[a].what = "live" => lives'[st] = live
<1> USE DEF IInv, Types
<1>1. job[a].what = "segment" => a \in stored'[st]
  BY DEF Put, UploadTypes
<1>2. st \in {"primary", "backup"}
  BY DEF Store
<1>3. job[a].what = "init" => st \in initAt'
  BY DEF Put
<1>4. job[a].what = "list" => lists'[st] = playlist
  BY DEF Put, ListTypes
<1>5. job[a].what = "live" => lives'[st] = live
  BY DEF Put, ListTypes
<1> QED BY <1>1, <1>2, <1>3, <1>4, <1>5 DEF Stored

\* The playlists in storage still follow, and the one in primary storage has its init segment.
LEMMA PutFollows ==
    ASSUME IInv, NEW a \in {0} \cup Segment, NEW st \in Store, job[a].at = st,
           Put(a, st) \/ UNCHANGED <<stored, initAt, lists, lives>>,
           UNCHANGED <<conf, failed, playlist, live>>,
           NEW at \in JobAt, at # "primary", Goto(a, at)
    PROVE  ListsFollow'
<1> USE DEF IInv, Types
<1> DEFINE P == Elems(playlist.segments)
<1>1. /\ job'[a].at = at /\ job'[a].what = job[a].what
      /\ \A b \in {0} \cup Segment : b # a => job'[b] = job[b]
  BY GotoStep
<1>2. /\ initAt \subseteq initAt'
      /\ job[a].what \notin {"list", "live"} => lists' = lists /\ lives' = lives
      /\ \A t \in Store : \/ lists'[t] = lists[t]
                          \/ lists'[t] = playlist /\ t = st /\ job[a].what = "list"
      /\ \A t \in Store : \/ lives'[t] = lives[t]
                          \/ lives'[t] = live /\ t = st /\ job[a].what = "live"
  BY PutKeeps
<1>3. /\ Rising(playlist.segments) /\ Rising(live.segments) /\ Elems(live.segments) \subseteq P
      /\ playlist.segments \in Seq(Segment) /\ Len(playlist.segments) \in Nat
  <2>1. Rising(playlist.segments) /\ playlist.segments \in Seq(Segment)
    BY DEF InOrder, Rising
  <2> QED BY <2>1, LiveRises
<1>4. Len(playlist.segments) = 0 => P = {}
  BY <1>3, ElemsTyped
<1>5. ASSUME NEW t \in Store
      PROVE  /\ Rising(lists'[t].segments) /\ Rising(lives'[t].segments)
             /\ Shown(t)' \subseteq P
             /\ Shown(t)' \subseteq Shown(t) \/ (t = st /\ job[a].what \in {"list", "live"})
  <2>1. \/ lists'[t] = lists[t]
        \/ lists'[t] = playlist /\ t = st /\ job[a].what = "list"
    BY <1>2
  <2>2. \/ lives'[t] = lives[t]
        \/ lives'[t] = live /\ t = st /\ job[a].what = "live"
    BY <1>2
  <2>3. Rising(lists[t].segments) /\ Rising(lives[t].segments) /\ Shown(t) \subseteq P
    BY DEF ListsFollow
  <2> QED BY <1>3, <2>1, <2>2, <2>3 DEF Shown
<1>6. job[a].what \in {"list", "live"} => a = 0
  BY DEF UploadsTrue
<1>7. "primary" \in Store
  BY DEF Store
<1>8. ASSUME ~failed, conf.fmp4, Shown("primary")' # {} PROVE "primary" \in initAt'
  <2>1. CASE Shown("primary")' \subseteq Shown("primary")
    BY <1>2, <1>8, <2>1 DEF ListsFollow
  <2>2. CASE ~(Shown("primary")' \subseteq Shown("primary"))
    <3>1. job[0].what \in {"list", "live"} /\ job[0].at = "primary"
      BY <1>5, <1>6, <1>7, <2>2
    <3>2. Len(playlist.segments) > 0
      BY <1>3, <1>4, <1>5, <1>7, <1>8
    <3> QED BY <1>2, <1>8, <3>1, <3>2 DEF ListsFollow
  <2> QED BY <2>1, <2>2
<1> HIDE DEF P
<1>9. job'[0].what \in {"list", "live"} /\ job'[0].at = "primary" =>
          job[0].what \in {"list", "live"} /\ job[0].at = "primary"
  BY <1>1
<1> QED BY <1>2, <1>5, <1>7, <1>8, <1>9 DEF ListsFollow, P

LEMMA UploadLoadsStep ==
    ASSUME IInv, NEW a \in {0} \cup Segment, UploadLoads(a) PROVE IInv'
<1> USE Constants DEF IInv, Types, UploadLoads, muxVars, queueVars, localVars, storageVars,
       initVars
<1> DEFINE at == IF primaryFailed THEN "backup" ELSE "primary"
<1>1. at \in JobAt /\ Goto(a, at) /\ at \in {"backup", "primary"}
  BY DEF JobAt, Store
<1>2. at = "backup" <=> primaryFailed
  OBVIOUS
<1> HIDE DEF at
<1>3. /\ job' \in [{0} \cup Segment -> Jobs] /\ job'[a].at = at /\ job'[a].what = job[a].what
      /\ \A b \in {0} \cup Segment : b # a => job'[b] = job[b]
  BY <1>1, GotoStep
<1>4. job[a].at = "load"
  OBVIOUS
<1>5. Waiting' = Waiting /\ Held' = Held
  BY DEF Waiting, Held
<1>6. UploadTypes'
  BY <1>3 DEF UploadTypes
<1>7. UploadsTrue'
  BY <1>1, <1>2, <1>3, <1>4 DEF UploadsTrue, Stored
<1>8. InitFirst'
  BY <1>1, <1>3, <1>5 DEF InitFirst
<1>9. ListerUploads'
  BY <1>1, <1>3, <1>4 DEF ListerUploads, Uploading
<1>10. ListsFollow'
  <2>1. ASSUME ~failed, conf.fmp4, ~primaryFailed, Len(playlist.segments) > 0
        PROVE  "primary" \in initAt
    <3>1. playlist.segments \in Seq(Segment) /\ Len(playlist.segments) \in Nat
      BY DEF InOrder, Rising
    <3>2. 1 \in 1..Len(playlist.segments)
      BY <2>1, <3>1
    <3>3. playlist.segments[1] = 1
      BY <2>1, <3>2 DEF NoneLost
    <3>4. 1 \in Elems(playlist.segments) /\ 1 \in Segment
      BY <3>1, <3>2, <3>3 DEF Elems
    <3>5. job[1].what = "segment"
      BY <2>1, <3>4 DEF UploadsTrue
    <3> QED BY <2>1, <3>4, <3>5 DEF InitFirst
  <2> QED BY <1>2, <1>3, <2>1 DEF ListsFollow, Shown
<1> QED BY <1>6, <1>7, <1>8, <1>9, <1>10, Frames

LEMMA UploadStoresStep ==
    ASSUME IInv, NEW a \in {0} \cup Segment, UploadStores(a) PROVE IInv'
<1> USE Constants DEF IInv, Types, UploadStores, muxVars, queueVars, localVars, storageVars,
       initVars
<1> DEFINE st == job[a].at
           at == IF st = "primary" THEN "stored" ELSE "backedUp"
<1>1. st \in Store /\ Put(a, st) /\ at \in JobAt /\ Goto(a, at) /\ at \in {"stored", "backedUp"}
  BY DEF JobAt, Result
<1>2. (at = "stored" <=> st = "primary") /\ (at = "backedUp" <=> st = "backup") /\ job[a].at = st
  BY <1>1 DEF Store
<1> HIDE DEF st, at
<1>3. /\ job' \in [{0} \cup Segment -> Jobs] /\ job'[a].at = at /\ job'[a].what = job[a].what
      /\ \A b \in {0} \cup Segment : b # a => job'[b] = job[b]
  BY <1>1, GotoStep
<1>4. /\ stored' \in [Store -> SUBSET Segment] /\ initAt' \in SUBSET Store
      /\ \A s \in Segment : s \in Stored => s \in Stored'
      /\ \A s \in Segment : s \in Stored' => s \in Stored \/ (s = a /\ job[a].what = "segment")
      /\ initAt \subseteq initAt'
      /\ job[a].what \notin {"list", "live"} => lists' = lists /\ lives' = lives
      /\ lists' \in [Store -> [segments : Seq(Segment), ended : BOOLEAN]]
      /\ lives' \in [Store -> [segments : Seq(Segment), ended : BOOLEAN, seq : Nat]]
      /\ \A t \in Store : lists'[t] \in {lists[t], playlist} /\ lives'[t] \in {lives[t], live}
  BY <1>1, PutKeeps
<1>5. /\ job[a].what = "segment" => a \in Stored'
      /\ job[a].what = "init" => st \in initAt'
      /\ job[a].what = "list" => lists'[st] = playlist
      /\ job[a].what = "live" => lives'[st] = live
  BY <1>1, PutAdds
<1>6. UploadTypes' /\ ListTypes'
  BY <1>3, <1>4 DEF UploadTypes, ListTypes
<1>7. UploadsTrue'
  BY <1>1, <1>2, <1>3, <1>4, <1>5 DEF UploadsTrue
<1>8. InitFirst'
  <2>1. Waiting' = Waiting /\ Held' = Held
    BY DEF Waiting, Held
  <2> QED BY <1>2, <1>3, <1>4, <1>5, <2>1 DEF InitFirst
<1>9. ListerUploads'
  <2>1. CASE a = 0
    <3>1. \A t \in Store : at = (IF t = "primary" THEN "stored" ELSE "backedUp") => t = st
      BY <1>1, <1>2 DEF Store
    <3> QED BY <1>1, <1>2, <1>3, <1>5, <2>1, <3>1 DEF ListerUploads, Uploading
  <2>2. CASE a # 0
    <3>1. lists' = lists /\ lives' = lives /\ job'[0] = job[0]
      BY <1>3, <1>4, <2>2 DEF UploadsTrue
    <3> QED BY <3>1 DEF ListerUploads, Uploading
  <2> QED BY <2>1, <2>2
<1>10. ListsFollow'
  BY <1>1, <1>2, PutFollows
<1>11. CloseLast'
  <2>1. closing \in {"live", "ok"} => lists'[listed] = playlist
    BY <1>4 DEF CloseLast
  <2>2. closing = "ok" /\ conf.live => \E t \in Store : lives'[t] = live
    BY <1>4 DEF CloseLast
  <2> QED BY <2>1, <2>2 DEF CloseLast
<1> QED BY <1>6, <1>7, <1>8, <1>9, <1>10, <1>11, Frames

LEMMA UploadFailsStep ==
    ASSUME IInv, NEW a \in {0} \cup Segment, NEW put \in BOOLEAN, UploadFails(a, put) PROVE IInv'
<1> USE Constants DEF IInv, Types, UploadFails, muxVars, queueVars, localVars, storageVars,
       initVars
<1> DEFINE st == job[a].at
           at == IF st = "primary" /\ conf.backup THEN "backup" ELSE "error"
<1>1. /\ st \in Store /\ at \in JobAt /\ Goto(a, at) /\ at \in {"backup", "error"}
      /\ Put(a, st) \/ UNCHANGED <<stored, initAt, lists, lives>>
  BY DEF JobAt, Result, Store
<1>2. (at = "backup" => primaryFailed') /\ (primaryFailed => primaryFailed') /\ job[a].at = st
  OBVIOUS
<1>3. primaryFailed' \in BOOLEAN
  BY DEF UploadTypes
<1> HIDE DEF st, at
<1>4. /\ job' \in [{0} \cup Segment -> Jobs] /\ job'[a].at = at /\ job'[a].what = job[a].what
      /\ \A b \in {0} \cup Segment : b # a => job'[b] = job[b]
  BY <1>1, GotoStep
<1>5. /\ stored' \in [Store -> SUBSET Segment] /\ initAt' \in SUBSET Store
      /\ \A s \in Segment : s \in Stored => s \in Stored'
      /\ \A s \in Segment : s \in Stored' => s \in Stored \/ (s = a /\ job[a].what = "segment")
      /\ initAt \subseteq initAt'
      /\ job[a].what \notin {"list", "live"} => lists' = lists /\ lives' = lives
      /\ lists' \in [Store -> [segments : Seq(Segment), ended : BOOLEAN]]
      /\ lives' \in [Store -> [segments : Seq(Segment), ended : BOOLEAN, seq : Nat]]
      /\ \A t \in Store : lists'[t] \in {lists[t], playlist} /\ lives'[t] \in {lives[t], live}
  BY <1>1, PutKeeps
<1>6. UploadTypes' /\ ListTypes'
  BY <1>3, <1>4, <1>5 DEF UploadTypes, ListTypes
<1>7. UploadsTrue'
  <2>1. \A b \in {0} \cup Segment : job'[b].at \in {"backup", "backedUp"} => primaryFailed'
    BY <1>1, <1>2, <1>4 DEF UploadsTrue
  <2>2. job[a].at \in Store /\ job[a].at # "done"
    BY <1>1, <1>2 DEF Store
  <2>3. /\ UNCHANGED <<closed, failed, playlist>>
        /\ \A s \in Segment : job'[s].what = job[s].what
        /\ \A s \in Segment \ {a} : job'[s].at = job[s].at
    BY <1>1, <1>4
  <2>4. \A s \in Segment : s = a => job[s].at \in Store /\ job'[s].at \in {"backup", "error"}
    BY <1>1, <1>4, <2>2
  <2>5. ASSUME NEW s \in Segment
        PROVE  /\ s \in Stored' \/ job'[s].what # "none" => s <= closed'
               /\ job'[s].what \in {"none", "segment", "init"} /\ job'[s].at # "ensure"
               /\ job'[s].what = "none" <=> job'[s].at = "none"
               /\ job'[s].what = "segment" /\ job'[s].at \in {"stored", "backedUp"}
                     => s \in Stored'
               /\ ~failed' /\ job'[s].at = "done" => s \in Stored' /\ job'[s].what = "segment"
               /\ ~failed' /\ s \in Elems(playlist.segments)' => job'[s].at = "done"
    <3>1. CASE s = a
      BY <1>5, <2>3, <2>4, <3>1 DEF UploadsTrue, Store
    <3>2. CASE s # a
      <4>1. job'[s].what = job[s].what /\ job'[s].at = job[s].at /\ s # a
        BY <2>3, <3>2
      <4>2. (s \in Stored' <=> s \in Stored) /\ closed' = closed /\ failed' = failed
        BY <1>5, <2>3, <4>1
      <4>3. Elems(playlist.segments)' = Elems(playlist.segments)
        BY <2>3
      <4> QED BY <4>1, <4>2, <4>3 DEF UploadsTrue
    <3> QED BY <3>1, <3>2
  <2> QED BY <2>1, <2>5 DEF UploadsTrue
<1>8. InitFirst'
  <2>1. Waiting' = Waiting /\ Held' = Held
    BY DEF Waiting, Held
  <2>2. \A s \in Segment : /\ job'[s].what = job[s].what
                           /\ job'[s].at = "stored" => job[s].at = "stored"
    BY <1>1, <1>4
  <2>3. primaryFailed => primaryFailed'
    BY <1>2
  <2> QED BY <1>5, <2>1, <2>2, <2>3 DEF InitFirst
<1>9. ListerUploads'
  <2>1. CASE a = 0
    BY <1>1, <1>2, <1>4, <2>1 DEF ListerUploads, Uploading, Store
  <2>2. CASE a # 0
    <3>1. lists' = lists /\ lives' = lives /\ job'[0] = job[0]
      BY <1>4, <1>5, <2>2 DEF UploadsTrue
    <3> QED BY <3>1 DEF ListerUploads, Uploading
  <2> QED BY <2>1, <2>2
<1>10. ListsFollow'
  BY <1>1, <1>2, PutFollows
<1>11. CloseLast'
  <2>1. closing \in {"live", "ok"} => lists'[listed] = playlist
    BY <1>5 DEF CloseLast
  <2>2. closing = "ok" /\ conf.live => \E t \in Store : lives'[t] = live
    BY <1>5 DEF CloseLast
  <2> QED BY <2>1, <2>2 DEF CloseLast
<1> QED BY <1>6, <1>7, <1>8, <1>9, <1>10, <1>11, Frames

LEMMA SplitStep ==
    ASSUME IInv, NEW s \in Segment, NEW ok \in BOOLEAN, SplitInitSegment(s, ok) PROVE IInv'
<1> USE Constants DEF IInv, Types, SplitInitSegment, muxVars, queueVars, localVars, storageVars,
        initVars
<1> DEFINE at == IF ok THEN "load" ELSE "done"
<1>1. /\ at \in JobAt /\ Goto(s, at) /\ at \in {"load", "done"} /\ job[s].at = "split"
      /\ (failed => failed') /\ (at = "done" => failed') /\ failed' \in BOOLEAN
  BY DEF JobAt
<1> HIDE DEF at
<1>2. /\ job' \in [{0} \cup Segment -> Jobs] /\ job'[s].at = at /\ job'[s].what = job[s].what
      /\ job'[0] = job[0] /\ \A b \in Segment : b # s => job'[b] = job[b]
  BY <1>1, GotoStep
<1>3. MuxTypes' /\ UploadTypes'
  BY <1>1, <1>2 DEF MuxTypes, UploadTypes
<1>4. NoneLost'
  BY <1>1 DEF NoneLost, Waiting, Held
<1>5. UploadsTrue'
  BY <1>1, <1>2 DEF UploadsTrue, Stored
<1>6. InitFirst'
  <2>1. Waiting' = Waiting /\ Held' = Held
    BY DEF Waiting, Held
  <2> QED BY <1>1, <1>2, <2>1 DEF InitFirst
<1>7. ListerUploads' /\ ListsFollow' /\ CloseLast'
  BY <1>1, <1>2 DEF ListerUploads, Uploading, ListsFollow, Shown, CloseLast
<1> QED BY <1>3, <1>4, <1>5, <1>6, <1>7, Frames

LEMMA InitUploadedStep == ASSUME IInv, NEW s \in Segment, InitUploaded(s) PROVE IInv'
<1> USE Constants DEF IInv, Types, InitUploaded, muxVars, queueVars, localVars, storageVars,
       initVars
<1>1. /\ job' \in [{0} \cup Segment -> Jobs] /\ job'[0] = job[0]
      /\ \A b \in Segment : b # s => job'[b] = job[b]
      /\ IF job[s].at = "error"
         THEN job'[s].at = "done" /\ job'[s].what = "init" /\ failed'
         ELSE job'[s].at = "load" /\ job'[s].what = "segment" /\ failed' = failed
  <2>1. CASE job[s].at = "error"
    <3>1. "done" \in JobAt /\ Goto(s, "done")
      BY <2>1 DEF JobAt
    <3>2. /\ job' \in [{0} \cup Segment -> Jobs] /\ job'[s].at = "done" /\ job'[s].what = job[s].what
          /\ \A b \in {0} \cup Segment : b # s => job'[b] = job[b]
      BY <3>1, GotoStep
    <3> QED BY <2>1, <3>2
  <2>2. CASE job[s].at # "error"
    <3>1. /\ Job("segment", "load") \in Jobs
          /\ Job("segment", "load") = [what |-> "segment", at |-> "load"]
      BY DEF Job, Jobs, JobAt
    <3>2. /\ job' \in [{0} \cup Segment -> Jobs] /\ job'[s] = Job("segment", "load")
          /\ \A b \in {0} \cup Segment : b # s => job'[b] = job[b]
      BY <2>2, <3>1, JobStep
    <3> QED BY <2>2, <3>1, <3>2
  <2> QED BY <2>1, <2>2
<1>2. (failed => failed') /\ failed' \in BOOLEAN /\ initBackedUp' \in BOOLEAN
  BY DEF MuxTypes, UploadTypes
<1>3. job[s].what = "init" /\ job[s].at \in {"stored", "backedUp", "error"}
  BY DEF Result
<1>4. MuxTypes' /\ UploadTypes'
  BY <1>1, <1>2 DEF MuxTypes, UploadTypes
<1>5. NoneLost'
  BY <1>2 DEF NoneLost, Waiting, Held
<1>6. UploadsTrue'
  BY <1>1, <1>2, <1>3 DEF UploadsTrue, Stored
<1>7. InitFirst'
  <2>1. Waiting' = Waiting /\ Held' = Held
    BY DEF Waiting, Held
  <2>2. job[s].at = "backedUp" => primaryFailed
    BY DEF UploadsTrue
  <2> QED BY <1>1, <1>2, <1>3, <2>1, <2>2 DEF InitFirst
<1>8. ListerUploads' /\ ListsFollow' /\ CloseLast'
  BY <1>1, <1>2 DEF ListerUploads, Uploading, ListsFollow, Shown, CloseLast
<1> QED BY <1>4, <1>5, <1>6, <1>7, <1>8, Frames

LEMMA SegmentUploadedStep == ASSUME IInv, NEW s \in Segment, SegmentUploaded(s) PROVE IInv'
<1> USE Constants DEF IInv, Types, SegmentUploaded, muxVars, queueVars, localVars, storageVars,
        initVars
<1>1. /\ "done" \in JobAt /\ Goto(s, "done") /\ job[s].what = "segment"
      /\ job[s].at \in {"stored", "backedUp", "error"}
      /\ (failed => failed') /\ (job[s].at = "error" => failed') /\ failed' \in BOOLEAN
  BY DEF JobAt, Result
<1>2. /\ job' \in [{0} \cup Segment -> Jobs] /\ job'[s].at = "done" /\ job'[s].what = job[s].what
      /\ job'[0] = job[0] /\ \A b \in Segment : b # s => job'[b] = job[b]
  BY <1>1, GotoStep
<1>3. MuxTypes' /\ UploadTypes'
  BY <1>1, <1>2 DEF MuxTypes, UploadTypes
<1>4. NoneLost'
  BY <1>1 DEF NoneLost, Waiting, Held
<1>5. UploadsTrue'
  BY <1>1, <1>2 DEF UploadsTrue, Stored
<1>6. InitFirst'
  <2>1. Waiting' = Waiting /\ Held' = Held
    BY DEF Waiting, Held
  <2> QED BY <1>1, <1>2, <2>1 DEF InitFirst
<1>7. ListerUploads' /\ ListsFollow' /\ CloseLast'
  BY <1>1, <1>2 DEF ListerUploads, Uploading, ListsFollow, Shown, CloseLast
<1> QED BY <1>3, <1>4, <1>5, <1>6, <1>7, Frames

LEMMA Inductive == IInv /\ [Next]_vars => IInv'
<1> SUFFICES ASSUME IInv, [Next]_vars PROVE IInv'
  OBVIOUS
<1>1. CASE FragmentOpened \/ FragmentClosed \/ EOSReceived \/ Close
  BY <1>1, FragmentOpenedStep, FragmentClosedStep, EOSReceivedStep, CloseStep
<1>2. CASE Dispatcher
  BY <1>2, DispatcherTakesStep, DispatcherSendsStep, DispatcherEndsStep DEF Dispatcher
<1>3. CASE Lister
  BY <1>3, ListerTakesStep, ListerAppendsStep, ListerAppendsLiveStep, ListerFailsStep,
     ListerEndsStep, EnsureInitStep, EnsureUploadedStep, ListerUploadedStep, UploadLoadsStep,
     UploadStoresStep, UploadFailsStep, CloseWaitsStep, CloseUploadedStep DEF Lister
<1>4. ASSUME NEW s \in Segment, Goroutine(s) PROVE IInv'
  BY <1>4, UploadLoadsStep, UploadStoresStep, UploadFailsStep, SplitStep, InitUploadedStep,
     SegmentUploadedStep DEF Goroutine
<1>5. CASE UNCHANGED vars
  BY <1>5, Frames DEF IInv, Types, vars, muxVars, queueVars, localVars, storageVars, initVars
<1> QED BY <1>1, <1>2, <1>3, <1>4, <1>5 DEF Next, Returned

-----------------------------------------------------------------------------
\* Every state of a run satisfies the invariant.
THEOREM InvariantHolds == Spec => []IInv
BY Initially, Inductive, PTL DEF Spec

\* The playlists list the segments in the order the muxer closed them, the live playlist is the
\* stretch its media sequence says, and unless the egress failed every listed segment is stored
\* and the init segment is in primary storage before a playlist is
\* (handlePlaylistUpdates, LivePlaylistWriter.Append, Uploader.Upload).
THEOREM SegmentsPlaylistsTrue == Spec => []PlaylistsTrue
<1>1. IInv => PlaylistsTrue
  <2> SUFFICES ASSUME IInv PROVE PlaylistsTrue
    OBVIOUS
  <2> USE Constants DEF IInv, Types
  <2>1. /\ Rising(playlist.segments) /\ Rising(live.segments)
        /\ Elems(live.segments) \subseteq Elems(playlist.segments)
    BY LiveRises DEF InOrder
  <2>2. \A st \in Store : ListedAt(st) = Shown(st)
    BY DEF ListedAt, Shown, Elems
  <2>3. TypeOK
    <3>1. /\ closedSegments \in Listing /\ playlistUpdates \in Listing
          /\ playlist.segments \in Listing /\ live.segments \in Listing
      BY <2>1, RisingListing DEF InOrder
    <3>2. \A st \in Store : lists[st].segments \in Listing /\ lives[st].segments \in Listing
      BY RisingListing DEF ListsFollow
    <3>3. /\ playlist \in [segments : Listing, ended : BOOLEAN]
          /\ live \in [segments : Listing, ended : BOOLEAN, seq : 0..MaxSegments]
          /\ Len(live.segments) <= Window
      <4>1. live.seq \in 0..MaxSegments
        <5>1. Len(playlist.segments) \in 0..MaxSegments
          BY <2>1, RisingListing
        <5> QED BY <5>1 DEF ListTypes, LiveFollows
      <4> QED BY <3>1, <4>1 DEF ListTypes
    <3>4. \A st \in Store : lists[st] \in [segments : Listing, ended : BOOLEAN]
      BY <3>2 DEF ListTypes
    <3>5. {initWritten, initBackedUp, primaryFailed, failed} \subseteq BOOLEAN
      BY DEF MuxTypes, UploadTypes
    <3>6. /\ conf \in Configs /\ eos \in BOOLEAN
          /\ opened \in 0..MaxSegments /\ closed \in 0..opened /\ openSegments \subseteq Segment
      BY DEF MuxTypes
    <3>7. job \in [{0} \cup Segment ->
                    [what : {"none", "segment", "init", "list", "live"},
                     at : {"none", "ensure", "split", "load", "done"} \cup Store \cup Result]]
      BY DEF UploadTypes, Jobs, JobAt
    <3> QED BY <3>1, <3>2, <3>3, <3>4, <3>5, <3>6, <3>7 DEF TypeOK, PlaceTypes, UploadTypes
  <2>4. ListedInOrder
    <3> DEFINE all == playlist.segments
               q == live.segments
               m == live.seq
    <3>1. /\ all \in Seq(Segment) /\ q \in Seq(Segment) /\ m \in Nat
          /\ Len(all) \in Nat /\ Len(q) \in Nat
          /\ \A i, j \in 1..Len(all) : i < j => all[i] < all[j]
      BY <2>1 DEF ListTypes, Rising
    <3>2. /\ m + Len(q) <= Len(all) /\ \A i \in 1..Len(q) : q[i] = all[m + i]
          /\ conf.live /\ lister.at \in {"idle", "wait"} => m + Len(q) = Len(all)
      BY DEF LiveFollows
    <3> HIDE DEF all, q, m
    <3>3. q = SubSeq(all, m + 1, m + Len(q))
      <4> DEFINE r == SubSeq(all, m + 1, m + Len(q))
      <4>1. /\ r \in Seq(Segment) /\ Len(r) = Len(q)
            /\ \A i \in 1..Len(q) : r[i] = all[m + i]
        BY <3>1, <3>2
      <4> HIDE DEF r
      <4>2. q = [i \in 1..Len(q) |-> q[i]] /\ r = [i \in 1..Len(q) |-> r[i]]
        BY <3>1, <4>1
      <4>3. q = r
        BY <3>2, <4>1, <4>2
      <4> QED BY <4>3 DEF r
    <3> QED BY <3>1, <3>2, <3>3 DEF ListedInOrder, all, q, m
  <2>5. PlaylistResolves
    <3> SUFFICES ASSUME ~failed
                 PROVE  /\ ListedAt("primary") \cup ListedAt("backup") \subseteq
                              stored["primary"] \cup stored["backup"]
                        /\ conf.fmp4 /\ ListedAt("primary") # {} => "primary" \in initAt
      BY DEF PlaylistResolves
    <3>1. "primary" \in Store /\ "backup" \in Store
      BY DEF Store
    <3>2. Elems(playlist.segments) \subseteq Stored
      <4>1. Elems(playlist.segments) \subseteq Segment
        BY <2>1, ElemsTyped DEF Rising
      <4> QED BY <4>1 DEF UploadsTrue
    <3>3. Shown("primary") \cup Shown("backup") \subseteq Stored
      BY <3>1, <3>2 DEF ListsFollow
    <3> QED BY <2>2, <3>1, <3>3 DEF Stored, ListsFollow
  <2> QED BY <2>3, <2>4, <2>5 DEF PlaylistsTrue
<1> QED BY <1>1, InvariantHolds, PTL

\* An egress that closes without an error stored every segment the muxer closed, and the
\* playlist at PlaylistLocation lists all of them and is ended (SegmentSink.Close).
THEOREM SegmentsClosedIsComplete == Spec => []ClosedIsComplete
<1>1. IInv => ClosedIsComplete
  <2> SUFFICES ASSUME IInv, closing = "ok", ~failed
               PROVE  /\ stored["primary"] \cup stored["backup"] = 1..closed
                      /\ listed \in Store
                      /\ lists[listed] = [segments |-> [i \in 1..closed |-> i], ended |-> TRUE]
                      /\ conf.live => \E st \in Store : lives[st] = live /\ live.ended
    BY DEF ClosedIsComplete
  <2> USE Constants DEF IInv, Types
  <2> DEFINE all == playlist.segments
  <2>1. /\ closing # "no" /\ lister.at = "done" /\ dispatcher = -1
        /\ Len(closedSegments) = 0 /\ Len(playlistUpdates) = 0 /\ playlist.ended
    BY DEF CloseLast
  <2>2. /\ all \in Seq(Segment) /\ Len(all) \in Nat /\ closed \in Nat /\ closed <= MaxSegments
        /\ closedSegments \in Seq(Segment) /\ playlistUpdates \in Seq(Segment)
    BY DEF InOrder, Rising, MuxTypes
  <2>3. Waiting = {} /\ Held = {} /\ Elems(closedSegments) = {} /\ Elems(playlistUpdates) = {}
    BY <2>1, <2>2, ElemsTyped DEF Waiting, Held
  <2>4. 1..closed \subseteq Elems(all) /\ \A s \in Elems(all) : s <= closed
    BY <2>3 DEF NoneLost, InOrder, Ordered
  <2>5. \A i \in 1..Len(all) : all[i] = i
    BY DEF NoneLost
  <2> HIDE DEF all
  <2>6. Len(all) = closed
    <3>1. closed > 0 => closed <= Len(all)
      <4>1. closed > 0 => closed \in Elems(all)
        BY <2>2, <2>4
      <4> QED BY <2>2, <2>5, <4>1 DEF Elems
    <3>2. Len(all) > 0 => Len(all) <= closed
      <4>1. Len(all) > 0 => Len(all) \in 1..Len(all) /\ all[Len(all)] = Len(all)
        BY <2>2, <2>5
      <4>2. Len(all) > 0 => all[Len(all)] \in Elems(all)
        BY <4>1 DEF Elems
      <4> QED BY <2>4, <4>1, <4>2
    <3> QED BY <2>2, <3>1, <3>2
  <2>7. all = [i \in 1..closed |-> i]
    <3>1. all = [i \in 1..closed |-> all[i]]
      BY <2>2, <2>6
    <3> QED BY <2>5, <2>6, <3>1
  <2>8. playlist = [segments |-> [i \in 1..closed |-> i], ended |-> TRUE]
    BY <2>1, <2>7 DEF ListTypes, all
  <2>9. Stored = 1..closed
    <3>1. Stored \subseteq Segment
      BY DEF UploadTypes, Stored, Store
    <3>2. \A s \in Stored : s \in 1..closed
      BY <2>2, <3>1 DEF UploadsTrue
    <3>3. \A s \in 1..closed : s \in Segment /\ s \in Elems(playlist.segments)
      <4>1. 1..closed \subseteq Elems(playlist.segments)
        BY <2>4 DEF all
      <4>2. \A s \in 1..closed : s \in Nat /\ 1 <= s /\ s <= MaxSegments
        BY <2>2
      <4> QED BY <4>1, <4>2
    <3>4. \A s \in 1..closed : s \in Stored
      BY <3>3 DEF UploadsTrue
    <3> QED BY <3>2, <3>4
  <2>10. listed \in Store /\ lists[listed] = playlist
    BY DEF CloseLast
  <2>11. conf.live => \E st \in Store : lives[st] = live /\ live.ended
    BY DEF CloseLast
  <2> QED BY <2>8, <2>9, <2>10, <2>11 DEF Stored
<1> QED BY <1>1, InvariantHolds, PTL
=============================================================================
