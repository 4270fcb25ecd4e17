---------------------------- MODULE StreamLiveness ----------------------------
(***************************************************************************)
(* One RTMP stream of StreamSink (builder.Stream): the reconnections that  *)
(* the bus goroutine makes on errors of the sink (Reset), and the monitor  *)
(* goroutine that polls the bytes sent and fails a sink that is silent     *)
(* without an error (runMonitor, applyLiveness).                           *)
(*                                                                         *)
(* The goroutines share reconnections, disconnectedAt, livenessFailed and  *)
(* monitorObservedProgress as atomics, and the statistics of the sink,     *)
(* which a reset clears: each step is one of their loads or stores that    *)
(* the other can observe.                                                  *)
(*                                                                         *)
(* Time is counted in polls.  A handshake sends one unit, media two, and   *)
(* livenessProgressThreshold is one.                                       *)
(***************************************************************************)
EXTENDS Integers

CONSTANTS
    Idle,       \* livenessIdleTimeout
    MaxBytes,   \* bound: bytes sent over one connection
    MaxErrors   \* bound: errors of the sink that wait on the bus

Threshold == 1

VARIABLES
    connected, bytes, acked,   \* the sink: its connection and its statistics
    errors,                    \* its errors on the bus
    bus,                       \* where Reset is: "idle", "window" or "restart"
    reconnections,             \* # 0
    down,                      \* polls since disconnectedAt; -1: it is zero
    observed,                  \* monitorObservedProgress
    wedged,                    \* livenessFailed
    poll,                      \* where the monitor is: "idle" or "apply"
    sample,                    \* the bytes it read
    last,                      \* lastOutBytesTotal
    idle,                      \* polls since lastProgressAt
    ended,                     \* streamFailed was called
    fresh,                     \* history: media was sent over this connection since the last poll
    found,                     \* history: fresh as the last poll found it
    steady                     \* history: polls in a row that found it so

sinkVars == <<connected, bytes, acked>>
resetVars == <<bus, reconnections, down>>
pollVars == <<poll, sample, last, idle>>
vars == <<sinkVars, errors, resetVars, observed, wedged, pollVars, ended, fresh, found, steady>>

AtMost(m, n) == IF m < n THEN m ELSE n

Init ==
    /\ connected = FALSE /\ bytes = 0 /\ acked = FALSE
    /\ errors = 0
    /\ bus = "idle" /\ reconnections = FALSE /\ down = -1
    /\ observed = FALSE /\ wedged = FALSE
    /\ poll = "idle" /\ sample = 0 /\ last = 0 /\ idle = 0
    /\ ended = FALSE
    /\ fresh = FALSE /\ found = FALSE /\ steady = 0

-----------------------------------------------------------------------------
(* The sink *)

Handshake ==
    /\ ~ended /\ ~connected /\ bytes = 0
    /\ connected' = TRUE
    /\ bytes' = 1
    /\ UNCHANGED <<acked, errors, resetVars, observed, wedged, pollVars, ended, fresh, found, steady>>

Sends ==
    /\ ~ended /\ connected /\ bytes + 2 <= MaxBytes
    /\ bytes' = bytes + 2
    /\ acked' \in {acked, TRUE}
    /\ fresh' = TRUE
    /\ UNCHANGED <<connected, errors, resetVars, observed, wedged, pollVars, ended, found, steady>>

SinkFails ==
    /\ ~ended /\ errors < MaxErrors
    /\ connected' = FALSE
    /\ errors' = errors + 1
    /\ UNCHANGED <<bytes, acked, resetVars, observed, wedged, pollVars, ended, fresh, found, steady>>

-----------------------------------------------------------------------------
(* The bus goroutine: handleMessageError and Reset *)

\* streamFailed removes the stream, which stops its monitor.
GiveUp ==
    /\ ended' = TRUE
    /\ bus' = "idle"
    /\ UNCHANGED <<reconnections, down>>

\* The first error of a bad url or key.
NeverWorked == ~reconnections /\ ~acked /\ ~observed

ResetStarts ==
    /\ ~ended /\ bus = "idle" /\ errors > 0
    /\ errors' = errors - 1
    /\ IF wedged \/ NeverWorked THEN GiveUp
       ELSE /\ UNCHANGED <<reconnections, ended>>
            /\ IF down = -1 THEN down' = 0 /\ bus' = "restart"
                            ELSE bus' = "window" /\ UNCHANGED down
    /\ UNCHANGED <<sinkVars, observed, wedged, pollVars, fresh, found, steady>>

\* time.Since(disconnectedAt): of the zero time, it is larger than any timeout.
Expired == down = -1 \/ down > Idle

\* disconnectedAt was not zero; it is loaded again.
ResetWindow ==
    /\ bus = "window"
    /\ IF Expired THEN GiveUp
                  ELSE bus' = "restart" /\ UNCHANGED <<reconnections, down, ended>>
    /\ UNCHANGED <<sinkVars, errors, observed, wedged, pollVars, fresh, found, steady>>

\* The bin goes to NULL, which clears the statistics, and to PLAYING; or cannot.
ResetRestarts ==
    /\ bus = "restart"
    /\ \/ /\ reconnections' = TRUE
          /\ connected' = FALSE /\ bytes' = 0 /\ acked' = FALSE
          /\ bus' = "idle"
          /\ fresh' = FALSE /\ steady' = 0
          /\ UNCHANGED <<down, ended>>
       \/ GiveUp /\ UNCHANGED <<sinkVars, fresh, steady>>
    /\ UNCHANGED <<errors, observed, wedged, pollVars, found>>

-----------------------------------------------------------------------------
(* The monitor goroutine *)

\* A poll is due: the time since every mark grows by one.
PollReads ==
    /\ ~ended /\ ~wedged /\ poll = "idle"
    /\ poll' = "apply"
    /\ sample' = bytes
    /\ idle' = AtMost(idle + 1, Idle + 1)
    /\ down' = IF down = -1 THEN -1 ELSE AtMost(down + 1, Idle + 1)
    /\ fresh' = FALSE /\ found' = fresh
    /\ steady' = IF fresh THEN AtMost(steady + 1, 2) ELSE 0
    /\ UNCHANGED <<sinkVars, errors, bus, reconnections, observed, wedged, last, ended>>

\* evaluateLiveness
RealProgress == sample - last > Threshold
Silent == ~RealProgress /\ sample # 0 /\ idle > Idle

\* Mutant of PollApplies: the baseline does not follow the samples.
BugPollApplies ==
    /\ ~ended /\ poll = "apply"
    /\ poll' = "idle"
    /\ last' = IF last = 0 THEN sample ELSE last
    /\ IF RealProgress
       THEN idle' = 0 /\ observed' = TRUE /\ reconnections' = FALSE /\ down' = -1
       ELSE UNCHANGED <<idle, observed, reconnections, down>>
    /\ IF Silent THEN wedged' = TRUE /\ errors' = errors + 1
                 ELSE UNCHANGED <<wedged, errors>>
    /\ UNCHANGED <<sinkVars, bus, sample, ended, fresh, found, steady>>

\* Mutant of PollApplies: the error of a wedged sink is not posted.
BugPollPosts ==
    /\ ~ended /\ poll = "apply"
    /\ poll' = "idle"
    /\ last' = sample
    /\ IF RealProgress
       THEN idle' = 0 /\ observed' = TRUE /\ reconnections' = FALSE /\ down' = -1
       ELSE UNCHANGED <<idle, observed, reconnections, down>>
    /\ wedged' = (wedged \/ Silent)
    /\ UNCHANGED <<sinkVars, errors, bus, sample, ended, fresh, found, steady>>

\* applyLiveness; a wedged sink posts an error of its own.
PollApplies ==
    /\ ~ended /\ poll = "apply"
    /\ poll' = "idle"
    /\ last' = sample
    /\ IF RealProgress
       THEN idle' = 0 /\ observed' = TRUE /\ reconnections' = FALSE /\ down' = -1
       ELSE UNCHANGED <<idle, observed, reconnections, down>>
    /\ IF Silent THEN wedged' = TRUE /\ errors' = errors + 1
                 ELSE UNCHANGED <<wedged, errors>>
    /\ UNCHANGED <<sinkVars, bus, sample, ended, fresh, found, steady>>

Bus == ResetStarts \/ ResetWindow \/ ResetRestarts
Monitor == PollReads \/ PollApplies

Next == Handshake \/ Sends \/ SinkFails \/ Bus \/ Monitor

Spec == Init /\ [][Next]_vars

(***************************************************************************)
(* Both goroutines go on, and a sink that is not connected connects or     *)
(* fails: "the error-driven path owns startup failures".                   *)
(***************************************************************************)
Fairness ==
    /\ WF_vars(Bus) /\ WF_vars(Monitor)
    /\ WF_vars(Handshake \/ (~connected /\ errors = 0 /\ bus = "idle" /\ SinkFails))

-----------------------------------------------------------------------------
(***************************************************************************)
(* The statistics stay within what a connection sends, and the monitor     *)
(* adds one error of its own at most to those of the sink.                 *)
(***************************************************************************)
TypeOK ==
    /\ {connected, acked, reconnections, observed, wedged, ended, fresh, found} \subseteq BOOLEAN
    /\ {bytes, sample, last} \subseteq 0..MaxBytes
    /\ errors \in 0..(MaxErrors + 1)
    /\ bus \in {"idle", "window", "restart"} /\ poll \in {"idle", "apply"}
    /\ down \in -1..(Idle + 1) /\ idle \in 0..(Idle + 1)
    /\ steady \in 0..2

(***************************************************************************)
(* A stream that stops sending media for good ends, whether its sink fails *)
(* again and again, reconnects without publishing, or says nothing: what   *)
(* Reset tolerates and what the monitor leaves to it never add up to a     *)
(* stream that stays.                                                      *)
(***************************************************************************)
WedgedStreamFails == <>[][~Sends]_vars => <>ended

(***************************************************************************)
(* The monitor does not fail a stream that sent media over one connection  *)
(* before each of the last two polls.                                      *)
(***************************************************************************)
SteadyNotFailed == [][(wedged' /\ ~wedged) => steady < 2]_vars

(***************************************************************************)
(* "If OutBytesTotal fails to grow beyond livenessProgressThreshold for    *)
(* livenessIdleTimeout, the monitor posts a synthetic error": it does not  *)
(* fail a stream that sent media over its connection since the poll before. *)
(***************************************************************************)
SendingNotFailed == [][(wedged' /\ ~wedged) => ~found]_vars

(***************************************************************************)
(* Real progress resets the retry budget: Reset does not give up a stream  *)
(* whose progress the monitor saw within livenessIdleTimeout.              *)
(***************************************************************************)
ProgressResetsBudget ==
    [][(bus = "window" /\ ended' /\ ~ended) => idle > Idle]_vars
=============================================================================
