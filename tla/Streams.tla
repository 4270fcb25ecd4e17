------------------------------ MODULE Streams ------------------------------
(***************************************************************************)
(* The streams of an egress, as the two modules about them see them:       *)
(* StreamOutputs has all streams and what ends the egress, StreamLiveness  *)
(* the connection of one of them and what ends that stream.                *)
(*                                                                         *)
(* All that the second hands to the first is that a stream has failed, and *)
(* StreamOutputs lets any stream of Failing fail at any moment.  So every  *)
(* behaviour of a stream's connection is allowed for there, and one of the *)
(* two moves in a behaviour while the other stays where it starts.         *)
(***************************************************************************)
EXTENDS Integers, FiniteSets

CONSTANTS
    Stream, Url, UrlOf, Initial, Removable, Failing, Caller, MaxCalls, Other, NeedsStart,
    Watch, NoStream,                       \* as StreamOutputs declares them
    Idle, MaxBytes, MaxErrors              \* as StreamLiveness declares them

\* A request without an output is refused.
ASSUME StreamsAssumption ==
    /\ IsFiniteSet(Stream) /\ UrlOf \in [Stream -> Url]
    /\ Initial \subseteq Stream /\ Removable \subseteq Stream /\ Failing \subseteq Stream
    /\ MaxCalls \in Nat /\ Other \in Nat /\ NeedsStart \in BOOLEAN
    /\ NoStream \notin Stream /\ Watch \notin Stream \cup Caller /\ Caller \cap Stream = {}
    /\ \A s, t \in Initial : UrlOf[s] = UrlOf[t] => s = t
    /\ Initial # {} \/ Other > 0

ASSUME LivenessAssumption == Idle \in Nat /\ MaxBytes \in Nat \ {0} /\ MaxErrors \in Nat \ {0}

VARIABLES
    stat, started, streams, sink, count, call, calls, bus, eos, failed, counted,
    upd, sent, reported, latest, raced,              \* StreamOutputs'; stat is its status
    connected, bytes, acked, errors, reset, reconnections, down, observed, wedged, poll,
    sample, last, idle, ended, fresh, found, steady, \* StreamLiveness'; reset is its bus
    part                                             \* which of the two moves

Outputs == INSTANCE StreamOutputs WITH status <- stat

Connection == INSTANCE StreamLiveness WITH bus <- reset

outputsVars ==
    <<stat, started, streams, sink, count, call, calls, bus, eos, failed, counted, upd, sent,
      reported, latest, raced>>
connectionVars ==
    <<connected, bytes, acked, errors, reset, reconnections, down, observed, wedged, poll,
      sample, last, idle, ended, fresh, found, steady>>
streamsVars == <<outputsVars, connectionVars, part>>

StreamsInit == Outputs!Init /\ Connection!Init /\ part \in {"outputs", "connection"}

OutputsMove == part = "outputs" /\ Outputs!Next /\ UNCHANGED <<connectionVars, part>>

ConnectionMoves == part = "connection" /\ Connection!Next /\ UNCHANGED <<outputsVars, part>>

StreamsNext == OutputsMove \/ ConnectionMoves

StreamsSpec ==
    /\ StreamsInit /\ [][StreamsNext]_streamsVars
    /\ part = "connection" => Connection!Fairness

-----------------------------------------------------------------------------
\* A stream that stops sending for good ends, whether its sink fails again and again,
\* reconnects without publishing, or says nothing (Reset and checkLiveness).
StalledStreamEnds == part = "connection" => Connection!WedgedStreamFails

\* The monitor does not fail a stream that sent media over one connection before each
\* of the last two polls (evaluateLiveness, while Reset restarts the counters).
SteadyStreamStays == Connection!SteadyNotFailed

\* When the calls and the bus are done, the egress was ended if no output is left, and
\* the last update sent to the service has the state of every stream (streamFinished,
\* streamFailed, streamUpdated); the maps and the count stay consistent throughout.
OutputsSettled ==
    Outputs!TypeOK /\ Connection!TypeOK /\ Outputs!EmptyEnds /\ Outputs!NothingUnreported

\* Neither the removal nor the failure of some streams ends an egress that has another
\* output (streamFinished and streamFailed, which load OutputCount after they decrement it).
HealthyNotEnded == Outputs!HealthyNotEnded
=============================================================================
