---------------------------- MODULE StreamOutputs ----------------------------
(***************************************************************************)
(* The stream outputs of a running egress: UpdateStream, streamFinished    *)
(* and streamFailed of the Controller, the Streams map of StreamConfig and *)
(* the streams map of StreamSink.                                          *)
(*                                                                         *)
(* UpdateStream runs in the goroutine of its RPC, errors of the sinks are  *)
(* handled by the bus goroutine, and a connection that is published is     *)
(* seen by the log callback of its stream.  They share the maps and        *)
(* OutputCount with no common lock: every atomic operation is a step.      *)
(* Each of them sends updates to the service and waits for the answer.     *)
(*                                                                         *)
(* Abstracted: urls are model values (UrlOf), the retry statistics and the *)
(* times but StartedAt # 0.                                                *)
(***************************************************************************)
EXTENDS Integers, FiniteSets

CONSTANTS
    Stream,      \* stream objects; a url that is added again is a new object
    Url,
    UrlOf,       \* the parsed url of each
    Initial,     \* the streams of the request
    Removable,   \* the streams some UpdateStream call asks to remove
    Failing,     \* the streams whose sink may report an error
    Caller,      \* goroutines that run UpdateStream
    MaxCalls,    \* bound: UpdateStream calls of each
    Other,       \* outputs that are no streams (files, segments, images)
    NeedsStart,  \* RTMP: a stream has no start time before it is published
    Watch,       \* the bus goroutine, among those that send updates
    NoStream

VARIABLES
    status,    \* StreamInfo.Status; "none" before the stream exists
    started,   \* streams with a start time
    streams,   \* StreamConfig.Streams
    sink,      \* StreamSink.streams
    count,     \* OutputCount
    call,      \* where each UpdateStream call is, and with which stream
    calls,     \* history: calls made
    bus,       \* where the bus goroutine is, and with which stream
    eos,       \* SendEOS was called because no output remained
    failed,    \* OnError was called by the bus goroutine
    counted,   \* history: the streams OutputCount was incremented for
    upd,       \* where each goroutine is in streamUpdated
    sent,      \* the updates on their way to the service
    reported,  \* the statuses and start times of the last HandlerUpdate to arrive
    latest,    \* history: those of the last one to be sent
    raced      \* history: it was sent while another one was on its way

streamVars == <<status, started, streams>>
endVars == <<eos, failed>>
reportVars == <<upd, sent, reported, latest, raced>>
vars == <<streamVars, sink, count, call, calls, bus, endVars, counted, reportVars>>

Reporter == Caller \cup Stream \cup {Watch}

Info == [status |-> status, started |-> started]

Init ==
    /\ status = [s \in Stream |-> IF s \in Initial THEN "active" ELSE "none"]
    /\ started = IF NeedsStart THEN {} ELSE Initial
    /\ streams = [u \in Url |->
                    IF \E s \in Initial : UrlOf[s] = u
                    THEN CHOOSE s \in Initial : UrlOf[s] = u ELSE NoStream]
    /\ sink = Initial
    /\ count = Other + Cardinality(Initial)
    /\ call = [c \in Caller |-> [at |-> "idle", s |-> NoStream]]
    /\ calls = [c \in Caller |-> 0]
    /\ bus = [at |-> "idle", s |-> NoStream]
    /\ eos = FALSE /\ failed = FALSE
    /\ counted = Initial
    /\ upd = [r \in Reporter |-> "idle"] /\ sent = {}
    /\ reported = Info /\ latest = Info /\ raced = FALSE

-----------------------------------------------------------------------------
Goto(c, where, s) == call' = [call EXCEPT ![c] = [at |-> where, s |-> s]]

Delete(u) == [streams EXCEPT ![u] = NoStream]

(***************************************************************************)
(* streamUpdated, called by r: while an active stream has no start time,   *)
(* the update is left to whatever happens to that stream; otherwise it is  *)
(* built from what the streams are by then, and sent.                      *)
(***************************************************************************)
StreamUpdated(r) ==
    upd' = [upd EXCEPT ![r] = "checks"] /\ UNCHANGED <<sent, reported, latest, raced>>

Starting == \E u \in Url : /\ streams[u] # NoStream
                           /\ status[streams[u]] = "active"
                           /\ streams[u] \notin started

UpdateChecks(r) ==
    /\ upd[r] = "checks"
    /\ upd' = [upd EXCEPT ![r] = IF Starting THEN "idle" ELSE "sends"]
    /\ UNCHANGED <<streamVars, sink, count, call, calls, bus, endVars, counted, sent,
                   reported, latest, raced>>

\* sendHandlerUpdate encodes Info ...
UpdateSends(r) ==
    /\ upd[r] = "sends"
    /\ upd' = [upd EXCEPT ![r] = "waits"]
    /\ sent' = sent \cup {[by |-> r, info |-> Info]}
    /\ latest' = Info
    /\ raced' = (sent # {})
    /\ UNCHANGED <<streamVars, sink, count, call, calls, bus, endVars, counted, reported>>

\* ... and the service handles it; updates of two goroutines come in any order.
HandlerUpdate(m) ==
    /\ m \in sent
    /\ sent' = sent \ {m}
    /\ reported' = m.info
    /\ upd' = [upd EXCEPT ![m.by] = "idle"]
    /\ UNCHANGED <<streamVars, sink, count, call, calls, bus, endVars, counted, latest, raced>>

Begin(c) ==
    /\ call[c].at = "idle" /\ upd[c] = "idle"
    /\ calls[c] < MaxCalls
    /\ calls' = [calls EXCEPT ![c] = @ + 1]
    /\ Goto(c, "adds", NoStream)
    /\ UNCHANGED <<streamVars, sink, count, bus, endVars, counted, reportVars>>

\* StreamConfig.AddStream: the url is not in the map ...
AddChecks(c, s) ==
    /\ call[c].at = "adds"
    /\ status[s] = "none"
    /\ \A d \in Caller : call[d].s # s
    /\ streams[UrlOf[s]] = NoStream
    /\ Goto(c, "store", s)
    /\ UNCHANGED <<streamVars, sink, count, calls, bus, endVars, counted, reportVars>>

\* ... and is stored.
AddStores(c) ==
    LET s == call[c].s
    IN  /\ call[c].at = "store"
        /\ status' = [status EXCEPT ![s] = "active"]
        /\ started' = IF NeedsStart THEN started ELSE started \cup {s}
        /\ streams' = [streams EXCEPT ![UrlOf[s]] = s]
        /\ Goto(c, "sink", s)
        /\ UNCHANGED <<sink, count, calls, bus, endVars, counted, reportVars>>

\* StreamSink.AddStream builds the stream and links it.
AddSinks(c) ==
    /\ call[c].at = "sink"
    /\ sink' = sink \cup {call[c].s}
    /\ Goto(c, "inc", call[c].s)
    /\ UNCHANGED <<streamVars, count, calls, bus, endVars, counted, reportVars>>

\* It is not built, or built and not linked: the sink then keeps its entry.
AddFails(c) ==
    LET s == call[c].s
    IN  /\ call[c].at = "sink"
        /\ sink' \in {sink, sink \cup {s}}
        /\ status' = [status EXCEPT ![s] = "failed"]
        /\ started' = started \cup {s}
        /\ streams' = Delete(UrlOf[s])
        /\ Goto(c, "adds", NoStream)
        /\ UNCHANGED <<count, calls, bus, endVars, counted, reportVars>>

AddIncs(c) ==
    /\ call[c].at = "inc"
    /\ count' = count + 1
    /\ counted' = counted \cup {call[c].s}
    /\ Goto(c, "adds", NoStream)
    /\ UNCHANGED <<streamVars, sink, calls, bus, endVars, reportVars>>

AddsDone(c) ==
    /\ call[c].at = "adds"
    /\ Goto(c, "removes", NoStream)
    /\ UNCHANGED <<streamVars, sink, count, calls, bus, endVars, counted, reportVars>>

\* StreamConfig.GetStream
GetStream(c, u) ==
    /\ call[c].at = "removes"
    /\ streams[u] \in Removable
    /\ Goto(c, "finish", streams[u])
    /\ UNCHANGED <<streamVars, sink, count, calls, bus, endVars, counted, reportVars>>

\* The start of streamFinished and of streamFailed: mark it and delete its url.
Ends(s, how) ==
    /\ status' = [status EXCEPT ![s] = how]
    /\ started' = started \cup {s}
    /\ streams' = Delete(UrlOf[s])

Finishes(c) ==
    /\ call[c].at = "finish"
    /\ Ends(call[c].s, "finished")
    /\ Goto(c, "dec", call[c].s)
    /\ UNCHANGED <<sink, count, calls, bus, endVars, counted, reportVars>>

\* Mutant of FinishDecs: OutputCount is left alone.
BugFinishDecs(c) ==
    /\ call[c].at = "dec"
    /\ counted' = counted \ {call[c].s}
    /\ Goto(c, "load", call[c].s)
    /\ UNCHANGED <<streamVars, sink, count, calls, bus, endVars, reportVars>>

FinishDecs(c) ==
    /\ call[c].at = "dec"
    /\ count' = count - 1
    /\ counted' = counted \ {call[c].s}
    /\ Goto(c, "load", call[c].s)
    /\ UNCHANGED <<streamVars, sink, calls, bus, endVars, reportVars>>

\* Mutant of FinishLoads: the last stream but one ends the egress.
BugFinishLoads(c) ==
    /\ call[c].at = "load"
    /\ IF count <= 1
       THEN eos' = TRUE /\ Goto(c, "removes", NoStream)
       ELSE Goto(c, "unlink", call[c].s) /\ UNCHANGED eos
    /\ UNCHANGED <<streamVars, sink, count, calls, bus, failed, counted, reportVars>>

\* End the egress if no outputs remain.
FinishLoads(c) ==
    /\ call[c].at = "load"
    /\ IF count = 0
       THEN eos' = TRUE /\ Goto(c, "removes", NoStream)
       ELSE Goto(c, "unlink", call[c].s) /\ UNCHANGED eos
    /\ UNCHANGED <<streamVars, sink, count, calls, bus, failed, counted, reportVars>>

\* StreamSink.RemoveStream; its error goes to the client.
FinishUnlinks(c) ==
    /\ call[c].at = "unlink"
    /\ sink' = sink \ {call[c].s}
    /\ Goto(c, "removes", NoStream)
    /\ UNCHANGED <<streamVars, count, calls, bus, endVars, counted, reportVars>>

\* UpdateStream returns after streamUpdated.
Returns(c) ==
    /\ call[c].at = "removes"
    /\ Goto(c, "idle", NoStream)
    /\ StreamUpdated(c)
    /\ UNCHANGED <<streamVars, sink, count, calls, bus, endVars, counted>>

-----------------------------------------------------------------------------
(* The bus goroutine *)

BusGoto(where, s) == bus' = [at |-> where, s |-> s]

\* lookupStream: the message of a stream that was removed is ignored.
BusLookup(s) ==
    /\ bus.at = "idle" /\ upd[Watch] = "idle"
    /\ ~failed
    /\ s \in sink \cap Failing
    /\ BusGoto("found", s)
    /\ UNCHANGED <<streamVars, sink, count, call, calls, endVars, counted, reportVars>>

\* ResetStream reconnects; trackStreamRetry reports it now and then.
BusRetries ==
    /\ bus.at = "found"
    /\ ~eos
    /\ NeedsStart
    /\ BusGoto("idle", NoStream)
    /\ StreamUpdated(Watch) \/ UNCHANGED reportVars
    /\ UNCHANGED <<streamVars, sink, count, call, calls, endVars, counted>>

BusFails ==
    /\ bus.at = "found"
    /\ Ends(bus.s, "failed")
    /\ BusGoto("dec", bus.s)
    /\ UNCHANGED <<sink, count, call, calls, endVars, counted, reportVars>>

BusDecs ==
    /\ bus.at = "dec"
    /\ count' = count - 1
    /\ counted' = counted \ {bus.s}
    /\ BusGoto("load", bus.s)
    /\ UNCHANGED <<streamVars, sink, call, calls, endVars, reportVars>>

\* Fail the egress if no outputs remain; report the stream otherwise.
BusLoads ==
    /\ bus.at = "load"
    /\ IF count = 0
       THEN failed' = TRUE /\ BusGoto("idle", NoStream) /\ UNCHANGED reportVars
       ELSE BusGoto("unlink", bus.s) /\ StreamUpdated(Watch) /\ UNCHANGED failed
    /\ UNCHANGED <<streamVars, sink, count, call, calls, eos, counted>>

\* StreamSink.RemoveStream; its error fails the egress.
BusUnlinks ==
    /\ bus.at = "unlink" /\ upd[Watch] = "idle"
    /\ failed' = (bus.s \notin sink)
    /\ sink' = sink \ {bus.s}
    /\ BusGoto("idle", NoStream)
    /\ UNCHANGED <<streamVars, count, call, calls, eos, counted, reportVars>>

\* updateStreamStartTime: the connection of a stream of the map was published.
StreamStarts(u) ==
    LET s == streams[u]
    IN  /\ s \in sink \ started
        /\ started' = started \cup {s}
        /\ StreamUpdated(s)
        /\ UNCHANGED <<status, streams, sink, count, call, calls, bus, endVars, counted>>

Next ==
    \/ \E c \in Caller :
          \/ Begin(c) \/ AddStores(c) \/ AddSinks(c) \/ AddFails(c) \/ AddIncs(c)
          \/ AddsDone(c) \/ Finishes(c) \/ FinishDecs(c) \/ FinishLoads(c)
          \/ FinishUnlinks(c) \/ Returns(c)
          \/ \E s \in Stream : AddChecks(c, s)
          \/ \E u \in Url : GetStream(c, u)
    \/ \E s \in Stream : BusLookup(s)
    \/ BusRetries \/ BusFails \/ BusDecs \/ BusLoads \/ BusUnlinks
    \/ \E u \in Url : StreamStarts(u)
    \/ \E r \in Reporter : UpdateChecks(r) \/ UpdateSends(r)
    \/ \E m \in sent : HandlerUpdate(m)

Spec == Init /\ [][Next]_vars

-----------------------------------------------------------------------------
InfoSet ==
    [status : [Stream -> {"none", "active", "finished", "failed"}], started : SUBSET Stream]

(***************************************************************************)
(* The maps hold streams only and OutputCount does not go below zero.      *)
(***************************************************************************)
TypeOK ==
    /\ status \in [Stream -> {"none", "active", "finished", "failed"}]
    /\ started \subseteq Stream /\ sink \subseteq Stream /\ counted \subseteq Stream
    /\ streams \in [Url -> Stream \cup {NoStream}]
    /\ count \in Nat
    /\ call \in [Caller -> [at : {"idle", "adds", "store", "sink", "inc", "removes",
                                  "finish", "dec", "load", "unlink"},
                            s : Stream \cup {NoStream}]]
    /\ calls \in [Caller -> 0..MaxCalls]
    /\ bus \in [at : {"idle", "found", "dec", "load", "unlink"}, s : Stream \cup {NoStream}]
    /\ {eos, failed, raced} \subseteq BOOLEAN
    /\ upd \in [Reporter -> {"idle", "checks", "sends", "waits"}]
    /\ sent \subseteq [by : Reporter, info : InfoSet] /\ {reported, latest} \subseteq InfoSet

Quiet == bus.at = "idle" /\ \A c \in Caller : call[c].at = "idle"

\* A stream that was added for good, is active and that nobody is ending.
Healthy(s) ==
    /\ s \in counted /\ status[s] = "active"
    /\ bus.s # s /\ \A c \in Caller : call[c].s # s

(***************************************************************************)
(* "end egress if no outputs remaining", "fail egress if no outputs        *)
(* remaining": neither the removal nor the failure of some streams ends an *)
(* egress that has another output.                                         *)
(***************************************************************************)
HealthyNotEnded ==
    [][((eos' /\ ~eos) \/ (failed' /\ ~failed))
          => Other = 0 /\ \A s \in Stream : ~Healthy(s)]_vars

(***************************************************************************)
(* The other direction: when nothing is going on and no output is left,    *)
(* the egress was ended or failed.                                         *)
(***************************************************************************)
EmptyEnds ==
    (Quiet /\ Other = 0 /\ \A s \in Stream : ~Healthy(s)) => eos \/ failed

(***************************************************************************)
(* Nothing is left unreported: when nothing is going on and every active   *)
(* stream has started, the last update that was sent has the status and    *)
(* the start of every stream, although streamUpdated skips updates and     *)
(* several goroutines send them.  It is what the service knows, unless it  *)
(* was sent while an older one was on its way, which may come in last.     *)
(* (An egress that failed reports with its final status.)                  *)
(***************************************************************************)
NothingUnreported ==
    (/\ Quiet /\ ~failed /\ \A r \in Reporter : upd[r] = "idle"
     /\ \A s \in Stream : status[s] = "active" => s \in started)
        => latest = Info /\ (raced \/ reported = Info)
=============================================================================
