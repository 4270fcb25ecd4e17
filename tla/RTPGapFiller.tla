---------------------------- MODULE RTPGapFiller ----------------------------
(***************************************************************************)
(* RTPGapFiller (pkg/pipeline/source/sdk/rtp_gap_filler.go) in the writer  *)
(* of a transcoded audio track (pushPacket, appwriter.go): a pause of the  *)
(* publisher or a loss is filled with concealment packets, so that what    *)
(* reaches the decoder is contiguous in time and in sequence numbers.      *)
(*                                                                         *)
(* Sequence numbers and timestamps wrap at SeqWidth and TSWidth (2^16 and  *)
(* 2^32 in the code) and are compared as the code does, by the sign of     *)
(* their difference.  Time is counted in samples.  One goroutine runs all  *)
(* of this; the environment is the publisher, the network and an appsrc    *)
(* that may refuse any push.                                               *)
(***************************************************************************)
EXTENDS Integers, Sequences, SequencesExt

CONSTANTS
    SeqWidth, TSWidth,   \* the widths of the counters
    Frame,           \* samples of a frame
    PerPacket,       \* frames of concealment in a packet, at most
    ShortFrames,     \* remainders, in samples, the codec has a frame for
    MaxGapLead,      \* samples a gap may be ahead of real time
    FillBudget,      \* the longest pause that is filled (pauseFillBudget)
    Pauses,          \* samples the publisher may be silent for
    Jumps,           \* samples its clock may jump by, forwards or backwards
    MaxPackets,      \* bound: packets of the publisher
    MaxFaults        \* bound: losses, strays, jumps and refused pushes

VARIABLES
    f,       \* the filler
    sender,  \* the publisher: its next number and timestamp, the real time, and
             \* whether its clock ever went back
    lastPTS, \* of the writer: when it last tried to push a packet
    pushed,  \* what the appsrc accepted of the last packet, after what it had before it
    sent, faults

vars == <<f, sender, lastPTS, pushed, sent, faults>>

behindPacketsToReanchor == 3

Lesser(a, b) == IF a < b THEN a ELSE b
Greater(a, b) == IF a > b THEN a ELSE b

\* int16(x) and int32(x) of a difference of two unsigned counters.
Signed(x, mod) == LET u == x % mod IN IF u >= mod \div 2 THEN u - mod ELSE u

Init ==
    /\ f = [started |-> FALSE, seqOffset |-> 0, nextSeq |-> 0, nextTS |-> 0,
            lastTS |-> 0, lastPTS |-> 0, behind |-> 0]
    /\ sender = [seq |-> SeqWidth - 2, ts |-> TSWidth - Frame, clock |-> 0, back |-> FALSE]
    /\ lastPTS = 0
    /\ pushed = <<>>
    /\ sent = 0 /\ faults = 0

-----------------------------------------------------------------------------
Reset(g) == [g EXCEPT !.started = FALSE, !.behind = 0]

\* The lengths of the packets that fill the gap: whole frames, as many to a packet
\* as it may hold, then a shorter one for the remainder if the codec has such a
\* frame.
Concealment(gap) ==
    LET missing == gap \div Frame
        full    == [i \in 1..((missing + PerPacket - 1) \div PerPacket) |->
                       Lesser(PerPacket, missing - (i - 1) * PerPacket) * Frame]
    IN IF gap % Frame \in ShortFrames THEN Append(full, gap % Frame) ELSE full

Total(lengths) == FoldLeft(LAMBDA a, b : a + b, 0, lengths)

\* The gap Fill measures before a packet, 0 if the packet starts no later than
\* expected; a gap far beyond the real time that passed is a jump.
Gap(g, pkt) == IF g.started THEN Greater(0, Signed(pkt.ts - g.nextTS, TSWidth)) ELSE 0

IsJump(g, pkt) == Gap(g, pkt) > pkt.pts - g.lastPTS + MaxGapLead

exceedsFillBudget(pkt) == pkt.pts > lastPTS + FillBudget

Bridged(g, pkt) == g.started /\ ~IsJump(g, pkt) /\ ~exceedsFillBudget(pkt)

\* The mutation: concealment does not shift the packets after it.
BugUnnumbered(g, pkt, n) == 0

\* How many of n concealment packets have no lost packet's number to take.
Unnumbered(g, pkt, n) ==
    Greater(0, n - Greater(0, Signed(pkt.seq + g.seqOffset - g.nextSeq, SeqWidth)))

Synthetic(g, lengths, i) ==
    [seq |-> (g.nextSeq + i - 1) % SeqWidth,
     ts |-> (g.nextTS + Total(SubSeq(lengths, 1, i - 1))) % TSWidth,
     len |-> lengths[i], kind |-> "synthetic", bridged |-> TRUE, back |-> FALSE,
     moved |-> TRUE]

\* Fill, of which the first n pushes are accepted.
Filled(g, pkt, lengths, n) ==
    [g EXCEPT !.nextSeq = (@ + n) % SeqWidth,
              !.nextTS = (@ + Total(SubSeq(lengths, 1, n))) % TSWidth,
              !.seqOffset = (@ + Unnumbered(g, pkt, n)) % SeqWidth]

\* A packet at or before the last one does not move the position, unless so many in
\* a row are that the publisher must have restarted its clock.
Moves(g, pkt) ==
    \/ ~g.started \/ Signed(pkt.ts - g.lastTS, TSWidth) > 0
    \/ g.behind + 1 >= behindPacketsToReanchor

Advance(g, pkt, seq) ==
    IF Moves(g, pkt)
    THEN [g EXCEPT !.started = TRUE, !.behind = 0,
                   !.lastTS = pkt.ts, !.lastPTS = pkt.pts,
                   !.nextSeq = (seq + 1) % SeqWidth, !.nextTS = (pkt.ts + Frame) % TSWidth]
    ELSE [g EXCEPT !.behind = @ + 1]

\* pushPacket: the gap before the packet is filled and the packet pushed.  The first
\* n concealment packets are accepted; one that is refused drops the packet too, and
\* those before it stay counted.  A refusal is a fault; the packet itself may be one.
pushPacket(pkt, how, fault) ==
    LET g       == IF Bridged(f, pkt) THEN f ELSE Reset(f)
        lengths == IF Bridged(f, pkt) THEN Concealment(Gap(f, pkt)) ELSE <<>>
    IN \E n \in 0..Len(lengths), accepted \in BOOLEAN :
         LET filled == Filled(g, pkt, lengths, n)
             seq    == (pkt.seq + filled.seqOffset) % SeqWidth
             real   == [seq |-> seq, ts |-> pkt.ts, len |-> Frame,
                        kind |-> how, bridged |-> Bridged(f, pkt),
                        back |-> sender'.back, moved |-> Moves(filled, pkt)]
             new    == [i \in 1..n |-> Synthetic(g, lengths, i)]
                          \o (IF accepted THEN << real >> ELSE <<>>)
         IN /\ accepted => n = Len(lengths)
            /\ faults' = IF fault \/ ~accepted THEN faults + 1 ELSE faults
            /\ faults' <= MaxFaults
            /\ pushed' = IF how = "next" /\ new # <<>> /\ pushed # <<>>
                         THEN << Last(pushed) >> \o new
                         ELSE pushed \o SelectSeq(new, LAMBDA p : p.kind # "stray")
            /\ f' = IF accepted THEN Advance(filled, pkt, seq) ELSE filled
            /\ lastPTS' = IF n = Len(lengths) THEN pkt.pts ELSE lastPTS

-----------------------------------------------------------------------------
\* The publisher's next packet: after a pause that its timestamps count, after a
\* jump of its clock that they count and real time does not, or lost on the way.

NextPacket(pause, jump) ==
    [seq |-> sender.seq, ts |-> (sender.ts + pause + jump) % TSWidth,
     pts |-> sender.clock + pause]

Sends(pkt, back) ==
    /\ sent < MaxPackets /\ sent' = sent + 1
    /\ sender' = [seq |-> (pkt.seq + 1) % SeqWidth, ts |-> (pkt.ts + Frame) % TSWidth,
                  clock |-> pkt.pts + Frame, back |-> sender.back \/ back]

Delivered(pause) ==
    /\ Sends(NextPacket(pause, 0), FALSE)
    /\ pushPacket(NextPacket(pause, 0), "next", FALSE)

ClockJumps(jump) ==
    /\ Sends(NextPacket(0, jump), jump < 0)
    /\ pushPacket(NextPacket(0, jump), "next", TRUE)

Lost ==
    /\ faults < MaxFaults /\ faults' = faults + 1
    /\ Sends(NextPacket(0, 0), FALSE)
    /\ UNCHANGED <<f, lastPTS, pushed>>

\* The last packet, or one before it, comes again.
Stray(age) ==
    /\ Len(pushed) > 0 /\ Last(pushed).kind = "next"
    /\ Last(pushed).ts = (sender.ts - Frame) % TSWidth
    /\ UNCHANGED <<sender, sent>>
    /\ pushPacket([seq |-> (sender.seq - age) % SeqWidth,
                   ts |-> (sender.ts - age * Frame) % TSWidth, pts |-> sender.clock],
                  "stray", TRUE)

Next ==
    \/ \E pause \in Pauses : Delivered(pause)
    \/ \E jump \in Jumps : ClockJumps(jump) \/ ClockJumps(-jump)
    \/ Lost
    \/ \E age \in 1..2 : Stray(age)

Spec == Init /\ [][Next]_vars

-----------------------------------------------------------------------------
\* Properties.

\* Each packet the decoder gets has a greater sequence number than the one before: a
\* concealment packet never has the number of another packet, over losses, refused
\* pushes, forward jumps and restarts of the publisher's clock and the wrap of the
\* counter.  (After a packet behind the position it may: the position does not count
\* that packet, and its number is used again.  So it is after as many strays in a row
\* as re-anchor the filler, which MaxFaults has to exclude.)
NumbersGoUp ==
    \A i \in 1..(Len(pushed) - 1) :
        pushed[i].moved => Signed(pushed[i + 1].seq - pushed[i].seq, SeqWidth) > 0

\* Audio the filler calls bridged leaves no hole, but for a remainder the codec has no
\* frame for, and is never concealed twice: it starts where what was pushed before it
\* ends.  Only a publisher whose clock went back makes it overlap.
BridgedIsContiguous ==
    \A i \in 1..(Len(pushed) - 1) :
        LET p    == pushed[i]
            q    == pushed[i + 1]
            hole == Signed(q.ts - p.ts - p.len, TSWidth)
        IN p.moved /\ q.bridged => /\ hole < Frame /\ hole \notin ShortFrames
                                   /\ hole < 0 => q.back
=============================================================================
