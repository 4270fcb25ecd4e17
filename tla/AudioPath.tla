----------------------------- MODULE AudioPath -----------------------------
(***************************************************************************)
(* What the egress does to an audio track between the network and the      *)
(* mixer: gaps of the publisher are filled (RTPGapFiller) and its clock    *)
(* drift is stretched away (AudioPacing).                                  *)
(*                                                                         *)
(* The two share no state: the filler belongs to the goroutine of the      *)
(* writer, the pacer sits behind the decoder.  A behaviour of the path is  *)
(* a behaviour of each, interleaved at will, and a property of one cannot  *)
(* tell what the other does.  So it is enough to let one of them move, the *)
(* same one in all of a behaviour, and leave the other where it starts.    *)
(***************************************************************************)
EXTENDS Integers, Sequences

CONSTANTS
    Sizes, SoftCap, HardCap, MaxChanges, MaxFlushes, \* as AudioPacing declares them
    SeqWidth, TSWidth, Frame, PerPacket, ShortFrames, MaxGapLead, FillBudget, Pauses,
    Jumps, MaxSent, MaxFaults \* as RTPGapFiller declares them; MaxSent is its MaxPackets

ASSUME PacingAssumption ==
    /\ Sizes \subseteq Nat /\ 0 \notin {SoftCap, HardCap}
    /\ {MaxChanges, MaxFlushes} \subseteq Nat

ASSUME GapFillerAssumption ==
    /\ {SeqWidth, TSWidth, Frame, PerPacket} \subseteq Nat \ {0}
    /\ {MaxGapLead, FillBudget, MaxSent, MaxFaults} \subseteq Nat
    /\ Pauses \subseteq Nat /\ Jumps \subseteq Nat

VARIABLES
    drift, corrected, current, tier, registered, pacing, target, rate, compensation,
    reanchor, thread, changes, flushes,       \* the pacer's; pacing is its active
    f, sender, lastPTS, played, sent, faults, \* the filler's; played is its pushed
    part                                      \* which of the two moves

Pacer == INSTANCE AudioPacing WITH active <- pacing

Filler == INSTANCE RTPGapFiller WITH pushed <- played, MaxPackets <- MaxSent

pacerVars == <<drift, corrected, current, tier, registered, pacing, target, rate,
               compensation, reanchor, thread, changes, flushes>>
fillerVars == <<f, sender, lastPTS, played, sent, faults>>
pathVars == <<pacerVars, fillerVars, part>>

PathInit == Pacer!Init /\ Filler!Init /\ part \in {"pacer", "filler"}

PacerMoves == part = "pacer" /\ Pacer!Next /\ UNCHANGED <<fillerVars, part>>

FillerMoves == part = "filler" /\ Filler!Next /\ UNCHANGED <<pacerVars, part>>

PathNext == PacerMoves \/ FillerMoves

PathSpec == PathInit /\ [][PathNext]_pathVars /\ (part = "pacer" => Pacer!Fairness)

-----------------------------------------------------------------------------
\* What reaches the decoder is numbered upwards and, where the filler says that it
\* bridged a gap, has no hole and no overlap.
GapsBridged == Filler!NumbersGoUp /\ Filler!BridgedIsContiguous

\* A correction the controller waits for is being worked on, and is the only one.
CorrectionHeld == Pacer!NotForgotten /\ Pacer!OneAtATime

\* Once the drift is steady and no flush disturbs it, it is corrected to within the
\* threshold.
DriftConverges == part = "pacer" => Pacer!Converges
=============================================================================
