--------------------------- MODULE ControllerProofs ---------------------------
(***************************************************************************)
(* Proofs about Controller, for every configuration: what Run returns is   *)
(* true of the egress, and an evicted egress stays silent.                 *)
(*                                                                         *)
(* And about Streams, for any streams: the removals and failures of        *)
(* streams end the egress when no output is left and not before, the       *)
(* last update has the state of every stream, and the monitor of a         *)
(* connection does not fail one that sends.                                *)
(***************************************************************************)
EXTENDS Controller, Streams, FiniteSetTheorems, TLAPS

-----------------------------------------------------------------------------
(***************************************************************************)
(* The inductive invariant.                                                *)
(***************************************************************************)
Places ==
    /\ conf \in Configs /\ status \in Statuses
    /\ run \in {"gate", "sinks", "setPlaying", "beforeLoop", "loop", "ended", "closing",
                "fails", "close", "aborts", "ends", "finish", "done"}
    /\ srcEnd \in {"no", "clean", "retryable", "duplicate"}
    /\ watcher \in {"source", "preroll", "done"}
    /\ playing \in {"open", "starts", "body", "broken"} /\ eosSent \in {"open", "body", "broken"}
    /\ sender \in {"idle", "switch", "aborts", "stops", "drains", "stopping", "check", "arm",
                   "release"}
    /\ eosTimer \in {"off", "armed", "frozen"}
    /\ limitTimer \in {"off", "armed", "aborts", "limits", "ends", "stops"}
    /\ sizeMonitor \in {"off", "on", "walking", "over", "ends"}
    /\ stopper \in {"idle", "onStop", "setNull", "done"}
    /\ kill \in {"no", "marks", "done"}
    /\ result \in Statuses \cup {"none", "silent"}
    /\ cause \in {"none", "other", "cut"}

Flags ==
    /\ probes \in BOOLEAN /\ eosGo \in BOOLEAN /\ eosFlow \in BOOLEAN /\ atSinks \in BOOLEAN
    /\ sinkEOS \in BOOLEAN /\ eosReceived \in BOOLEAN /\ watch \in BOOLEAN /\ stopReq \in BOOLEAN
    /\ stopped \in BOOLEAN /\ loop \in BOOLEAN /\ srcOpen \in BOOLEAN /\ uploads \in BOOLEAN
    /\ sinksClosed \in BOOLEAN /\ marked \in BOOLEAN

States == pstate \in StateStarted..StateFinished /\ stopOld \in StateStarted..StateFinished

Marks == failing \in SUBSET Reporters /\ lost \in SUBSET {"eos", "start", "close"}

Before == {"gate", "sinks", "setPlaying"}

\* Run, the fuse playing, the state of the pipeline and its stop go together.
RunOrder ==
    /\ playing # "open" => run \notin Before \cup {"beforeLoop"} /\ pstate >= StateRunning
    /\ playing \in {"starts", "body"} \/ "bus" \in failing => run = "loop"
    /\ run \in {"beforeLoop", "loop"} => pstate >= StateRunning
    /\ run \in Before /\ pstate >= StateRunning => pstate >= StateStopping
    /\ pstate >= StateStopping <=> stopper # "idle"
    /\ run = "loop" /\ ~loop => stopper # "idle"
    /\ run \in {"ended", "closing", "fails"} => stopper # "idle"
    /\ run \in {"closing", "fails"} => playing = "broken"

\* What happens on behalf of SendEOS happens after its fuse.
EOSOrder ==
    /\ sender # "idle" \/ eosGo \/ eosTimer # "off" => eosSent # "open"
    /\ stopped => stopper # "idle"
    /\ eosReceived \/ sinkEOS => atSinks

\* The status follows the life of the egress, but for what is written over an unread one; no
\* goroutine goes back to STARTING.
StatusOrder ==
    /\ playing \in {"body", "broken"} => status # "starting"
    /\ sender \in {"drains", "check", "arm"} \/ eosGo => status # "starting"
    /\ run \notin {"finish", "done"} => status # "complete"
    /\ "eos" \notin lost =>
          /\ status \in {"active", "ending"} => playing \in {"body", "broken"}
          /\ run \in {"finish", "done"} => status \in Final
    /\ lost = {} /\ marked => status \in Final \ {"complete"}

\* A recording that is stopped has failed, was ended early, or its EOS reached the sinks.
Finalizes ==
    "eos" \notin lost /\ "start" \notin lost /\ conf.finalize /\ cause # "cut"

StoppedFinalized ==
    /\ limitTimer = "stops" => cause = "cut"
    /\ Finalizes =>
        /\ sender = "stops" => status \in Final
        /\ stopReq \/ stopper # "idle" => status \in Final \/ eosReceived \/ sinkEOS
        /\ run = "close" /\ status \in {"active", "ending"} => atSinks /\ sinksClosed
        /\ run = "ends" => atSinks /\ sinksClosed
        /\ status = "complete" => atSinks /\ sinksClosed
        /\ result = "complete" => atSinks /\ sinksClosed

\* A replay that nobody asked to end is not ended before it plays.
ReplayEndsLate ==
    ~conf.live /\ cause = "none" =>
        /\ status # "aborted"
        /\ eosSent # "open" \/ stopper # "idle" \/ stopReq \/ failing # {} => playing = "broken"
        /\ sender # "aborts" /\ run # "aborts"
        /\ limitTimer \in {"off", "armed"} /\ sizeMonitor \notin {"over", "ends"}
        /\ run \in {"close", "ends", "finish", "done"} => stopper # "idle"

\* The source says whether the egress was evicted, and it is closed by the time that counts.
EvictedKnown ==
    /\ run \notin {"fails", "close", "aborts", "ends", "finish", "done"} => ~sinksClosed
    /\ run = "closing" \/ sinksClosed => ~srcOpen /\ (uploads => srcEnd # "duplicate")
    /\ result = "silent" => srcEnd = "duplicate"

Types == Places /\ Flags /\ States /\ Marks

IInv ==
    /\ Types /\ RunOrder /\ EOSOrder /\ StatusOrder /\ StoppedFinalized /\ ReplayEndsLate
    /\ EvictedKnown

-----------------------------------------------------------------------------
LEMMA Initially == Init => IInv
<1> SUFFICES ASSUME Init PROVE IInv
  OBVIOUS
<1>1. Places
  BY DEF Init, Places, Statuses, Final
<1>2. Flags /\ Marks
  BY DEF Init, Flags, Marks, Reporters
<1>2a. States
  BY DEF Init, States, StateStarted, StateFinished
<1>3. RunOrder
  BY DEF Init, RunOrder, Before, StateStarted, StateRunning, StateStopping
<1>4. EOSOrder /\ StatusOrder /\ StoppedFinalized /\ EvictedKnown
  BY DEF Init, EOSOrder, StatusOrder, StoppedFinalized, EvictedKnown
<1>5. ReplayEndsLate
  BY DEF Init, ReplayEndsLate
<1> QED BY <1>1, <1>2, <1>2a, <1>3, <1>4, <1>5 DEF IInv, Types

(***************************************************************************)
(* Every step keeps the invariant: by action, and by the part of the       *)
(* invariant the action disturbs.                                          *)
(***************************************************************************)
LEMMA Inductive == IInv /\ [Next]_vars => IInv'
<1> SUFFICES ASSUME IInv, [Next]_vars PROVE IInv'
  OBVIOUS
<1> USE DEF IInv, Types, Before, Finalizes, Statuses, Final, runVars, srcVars, eosVars, busVars,
        stopVars, loopVars, limitVars, statusVars, StateStarted, StateRunning, StateEOS,
        StateStopping, StateFinished
<1>1. CASE GateOpens
  <2>1. Places'
    BY <1>1 DEF GateOpens, Places
  <2>2. RunOrder'
    BY <1>1 DEF GateOpens, RunOrder, Places, States, Marks
  <2>3. StatusOrder'
    BY <1>1 DEF GateOpens, StatusOrder, Places, Flags, RunOrder, EOSOrder
  <2>4. StoppedFinalized'
    BY <1>1 DEF GateOpens, StoppedFinalized, Places, Flags, RunOrder, EOSOrder, StatusOrder,
       EvictedKnown
  <2>5. ReplayEndsLate'
    BY <1>1 DEF GateOpens, ReplayEndsLate, Places, Flags, Marks, RunOrder, EOSOrder, StatusOrder
  <2>6. EvictedKnown'
    BY <1>1 DEF GateOpens, EvictedKnown, Places, Flags, RunOrder
  <2>7. Flags'
    BY <1>1 DEF GateOpens, Flags
  <2>8. States'
    BY <1>1 DEF GateOpens, States
  <2>9. Marks'
    BY <1>1 DEF GateOpens, Marks
  <2>10. EOSOrder'
    BY <1>1 DEF GateOpens, EOSOrder
  <2> QED BY <2>1, <2>2, <2>3, <2>4, <2>5, <2>6, <2>7, <2>8, <2>9, <2>10
<1>2. CASE GateStopped
  <2>1. Places'
    BY <1>2 DEF GateStopped, SetStatus, Places
  <2>2. Flags'
    <3>1. srcOpen' \in BOOLEAN /\ marked' \in BOOLEAN
      BY <1>2 DEF GateStopped, SetStatus, Flags
    <3>2. UNCHANGED <<uploads, sinksClosed, probes, eosGo, eosFlow, atSinks, sinkEOS, eosReceived,
       watch, stopReq, stopped, loop>>
      BY <1>2 DEF GateStopped
    <3> QED BY <3>1, <3>2 DEF Flags
  <2>3. Marks'
    BY <1>2 DEF GateStopped, SetStatus, Marks, Reporters
  <2>4. RunOrder'
    BY <1>2 DEF GateStopped, SetStatus, RunOrder, Places, States, Marks
  <2>5. StatusOrder'
    BY <1>2 DEF GateStopped, SetStatus, StatusOrder, Places, Flags, RunOrder, EOSOrder
  <2>6. StoppedFinalized'
    BY <1>2 DEF GateStopped, SetStatus, StoppedFinalized, Places, Flags, RunOrder, EOSOrder,
       StatusOrder, EvictedKnown
  <2>7. ReplayEndsLate'
    BY <1>2 DEF GateStopped, SetStatus, ReplayEndsLate, Places, Flags, Marks, RunOrder, EOSOrder,
       StatusOrder
  <2>8. EvictedKnown'
    BY <1>2 DEF GateStopped, SetStatus, EvictedKnown, Places, Flags, RunOrder
  <2>9. States'
    BY <1>2 DEF GateStopped, States
  <2>10. EOSOrder'
    BY <1>2 DEF GateStopped, EOSOrder
  <2> QED BY <2>1, <2>2, <2>3, <2>4, <2>5, <2>6, <2>7, <2>8, <2>9, <2>10
<1>3. CASE SinksStart
  <2>1. Places'
    BY <1>3 DEF SinksStart, Places
  <2>2. RunOrder'
    BY <1>3 DEF SinksStart, RunOrder, Places, States, Marks
  <2>3. StatusOrder'
    BY <1>3 DEF SinksStart, StatusOrder, Places, Flags, RunOrder, EOSOrder
  <2>4. StoppedFinalized'
    BY <1>3 DEF SinksStart, StoppedFinalized, Places, Flags, RunOrder, EOSOrder, StatusOrder,
       EvictedKnown
  <2>5. ReplayEndsLate'
    BY <1>3 DEF SinksStart, ReplayEndsLate, Places, Flags, Marks, RunOrder, EOSOrder, StatusOrder
  <2>6. EvictedKnown'
    BY <1>3 DEF SinksStart, EvictedKnown, Places, Flags, RunOrder
  <2>7. Flags'
    BY <1>3 DEF SinksStart, Flags
  <2>8. States'
    BY <1>3 DEF SinksStart, States
  <2>9. Marks'
    BY <1>3 DEF SinksStart, Marks
  <2>10. EOSOrder'
    BY <1>3 DEF SinksStart, EOSOrder
  <2> QED BY <2>1, <2>2, <2>3, <2>4, <2>5, <2>6, <2>7, <2>8, <2>9, <2>10
<1>4. CASE StartFails
  <2>1. Places'
    BY <1>4 DEF StartFails, SetStatus, Asked, Places
  <2>2. Flags'
    <3>1. srcOpen' \in BOOLEAN /\ stopReq' \in BOOLEAN /\ marked' \in BOOLEAN
      BY <1>4 DEF StartFails, SetStatus, Asked, Flags
    <3>2. UNCHANGED <<uploads, sinksClosed, probes, eosGo, eosFlow, atSinks, sinkEOS, eosReceived,
       watch, stopped, loop>>
      BY <1>4 DEF StartFails
    <3> QED BY <3>1, <3>2 DEF Flags
  <2>3. Marks'
    BY <1>4 DEF StartFails, SetStatus, Asked, Marks, Reporters
  <2>4. RunOrder'
    BY <1>4 DEF StartFails, SetStatus, Asked, RunOrder, Places, States, Marks
  <2>5. StatusOrder'
    BY <1>4 DEF StartFails, SetStatus, Asked, StatusOrder, Places, Flags, RunOrder, EOSOrder
  <2>6. StoppedFinalized'
    BY <1>4 DEF StartFails, SetStatus, Asked, StoppedFinalized, Places, Flags, RunOrder, EOSOrder,
       StatusOrder, EvictedKnown
  <2>7. ReplayEndsLate'
    BY <1>4 DEF StartFails, SetStatus, Asked, ReplayEndsLate, Places, Flags, Marks, RunOrder,
       EOSOrder, StatusOrder
  <2>8. EvictedKnown'
    BY <1>4 DEF StartFails, SetStatus, Asked, EvictedKnown, Places, Flags, RunOrder
  <2>9. States'
    BY <1>4 DEF StartFails, States
  <2>10. EOSOrder'
    BY <1>4 DEF StartFails, EOSOrder
  <2> QED BY <2>1, <2>2, <2>3, <2>4, <2>5, <2>6, <2>7, <2>8, <2>9, <2>10
<1>5. CASE PlayingRequested
  <2>1. Places'
    BY <1>5 DEF PlayingRequested, Places
  <2>2. States'
    BY <1>5 DEF PlayingRequested, States, Places
  <2>3. RunOrder'
    BY <1>5 DEF PlayingRequested, RunOrder, Places, States, Marks
  <2>4. StatusOrder'
    BY <1>5 DEF PlayingRequested, StatusOrder, Places, Flags, RunOrder, EOSOrder
  <2>5. StoppedFinalized'
    BY <1>5 DEF PlayingRequested, StoppedFinalized, Places, Flags, RunOrder, EOSOrder,
       StatusOrder, EvictedKnown
  <2>6. ReplayEndsLate'
    BY <1>5 DEF PlayingRequested, ReplayEndsLate, Places, Flags, Marks, RunOrder, EOSOrder,
       StatusOrder
  <2>7. EvictedKnown'
    BY <1>5 DEF PlayingRequested, EvictedKnown, Places, Flags, RunOrder
  <2>8. Flags'
    BY <1>5 DEF PlayingRequested, Flags
  <2>9. Marks'
    BY <1>5 DEF PlayingRequested, Marks
  <2>10. EOSOrder'
    BY <1>5 DEF PlayingRequested, EOSOrder
  <2> QED BY <2>1, <2>2, <2>3, <2>4, <2>5, <2>6, <2>7, <2>8, <2>9, <2>10
<1>6. CASE EnterLoop
  <2>1. Places'
    BY <1>6 DEF EnterLoop, Places
  <2>2. Flags'
    BY <1>6 DEF EnterLoop, Flags
  <2>3. RunOrder'
    BY <1>6 DEF EnterLoop, RunOrder, Places, States, Marks
  <2>4. StatusOrder'
    BY <1>6 DEF EnterLoop, StatusOrder, Places, Flags, RunOrder, EOSOrder
  <2>5. StoppedFinalized'
    BY <1>6 DEF EnterLoop, StoppedFinalized, Places, Flags, RunOrder, EOSOrder, StatusOrder,
       EvictedKnown
  <2>6. ReplayEndsLate'
    BY <1>6 DEF EnterLoop, ReplayEndsLate, Places, Flags, Marks, RunOrder, EOSOrder, StatusOrder
  <2>7. EvictedKnown'
    BY <1>6 DEF EnterLoop, EvictedKnown, Places, Flags, RunOrder
  <2>8. States'
    BY <1>6 DEF EnterLoop, States
  <2>9. Marks'
    BY <1>6 DEF EnterLoop, Marks
  <2>10. EOSOrder'
    BY <1>6 DEF EnterLoop, EOSOrder
  <2> QED BY <2>1, <2>2, <2>3, <2>4, <2>5, <2>6, <2>7, <2>8, <2>9, <2>10
<1>7. CASE LeaveLoop
  <2>1. Places'
    BY <1>7 DEF LeaveLoop, Busy, Places
  <2>2. RunOrder'
    BY <1>7 DEF LeaveLoop, Busy, RunOrder, Places, States, Marks
  <2>3. StatusOrder'
    BY <1>7 DEF LeaveLoop, Busy, StatusOrder, Places, Flags, RunOrder, EOSOrder
  <2>4. StoppedFinalized'
    BY <1>7 DEF LeaveLoop, Busy, StoppedFinalized, Places, Flags, RunOrder, EOSOrder, StatusOrder,
       EvictedKnown
  <2>5. ReplayEndsLate'
    BY <1>7 DEF LeaveLoop, Busy, ReplayEndsLate, Places, Flags, Marks, RunOrder, EOSOrder,
       StatusOrder
  <2>6. EvictedKnown'
    BY <1>7 DEF LeaveLoop, Busy, EvictedKnown, Places, Flags, RunOrder
  <2>7. Flags'
    BY <1>7 DEF LeaveLoop, Flags
  <2>8. States'
    BY <1>7 DEF LeaveLoop, States
  <2>9. Marks'
    BY <1>7 DEF LeaveLoop, Marks
  <2>10. EOSOrder'
    BY <1>7 DEF LeaveLoop, EOSOrder
  <2> QED BY <2>1, <2>2, <2>3, <2>4, <2>5, <2>6, <2>7, <2>8, <2>9, <2>10
<1>8. CASE CloseSource
  <2>1. Places'
    BY <1>8 DEF CloseSource, IsDuplicateIdentity, Places
  <2>2. Flags'
    <3>1. srcOpen' \in BOOLEAN /\ uploads' \in BOOLEAN
      BY <1>8 DEF CloseSource, IsDuplicateIdentity, Flags
    <3>2. UNCHANGED <<sinksClosed, probes, eosGo, eosFlow, atSinks, sinkEOS, eosReceived, watch,
       stopReq, stopped, loop, marked>>
      BY <1>8 DEF CloseSource
    <3> QED BY <3>1, <3>2 DEF Flags
  <2>3. RunOrder'
    BY <1>8 DEF CloseSource, IsDuplicateIdentity, RunOrder, Places, States, Marks
  <2>4. StatusOrder'
    BY <1>8 DEF CloseSource, IsDuplicateIdentity, StatusOrder, Places, Flags, RunOrder, EOSOrder
  <2>5. StoppedFinalized'
    BY <1>8 DEF CloseSource, IsDuplicateIdentity, StoppedFinalized, Places, Flags, RunOrder,
       EOSOrder, StatusOrder, EvictedKnown
  <2>6. ReplayEndsLate'
    BY <1>8 DEF CloseSource, IsDuplicateIdentity, ReplayEndsLate, Places, Flags, Marks, RunOrder,
       EOSOrder, StatusOrder
  <2>7. EvictedKnown'
    BY <1>8 DEF CloseSource, IsDuplicateIdentity, EvictedKnown, Places, Flags, RunOrder
  <2>8. States'
    BY <1>8 DEF CloseSource, States
  <2>9. Marks'
    BY <1>8 DEF CloseSource, Marks
  <2>10. EOSOrder'
    BY <1>8 DEF CloseSource, EOSOrder
  <2> QED BY <2>1, <2>2, <2>3, <2>4, <2>5, <2>6, <2>7, <2>8, <2>9, <2>10
<1>9. ASSUME NEW ok \in BOOLEAN,
              CloseSinks(ok)
       PROVE  IInv'
  <2>1. Places'
    BY <1>9 DEF CloseSinks, Places
  <2>2. Flags'
    BY <1>9 DEF CloseSinks, Flags
  <2>3. RunOrder'
    BY <1>9 DEF CloseSinks, RunOrder, Places, States, Marks
  <2>4. StatusOrder'
    BY <1>9 DEF CloseSinks, StatusOrder, Places, Flags, RunOrder, EOSOrder
  <2>5. StoppedFinalized'
    BY <1>9 DEF CloseSinks, StoppedFinalized, Places, Flags, RunOrder, EOSOrder, StatusOrder,
       EvictedKnown
  <2>6. ReplayEndsLate'
    BY <1>9 DEF CloseSinks, ReplayEndsLate, Places, Flags, Marks, RunOrder, EOSOrder, StatusOrder
  <2>7. EvictedKnown'
    BY <1>9 DEF CloseSinks, EvictedKnown, Places, Flags, RunOrder
  <2>8. States'
    BY <1>9 DEF CloseSinks, States
  <2>9. Marks'
    BY <1>9 DEF CloseSinks, Marks
  <2>10. EOSOrder'
    BY <1>9 DEF CloseSinks, EOSOrder
  <2> QED BY <2>1, <2>2, <2>3, <2>4, <2>5, <2>6, <2>7, <2>8, <2>9, <2>10
<1>10. CASE CloseSinksFails
  <2>1. Places'
    BY <1>10 DEF CloseSinksFails, SetStatus, Places
  <2>2. Flags'
    BY <1>10 DEF CloseSinksFails, SetStatus, Flags
  <2>3. Marks'
    BY <1>10 DEF CloseSinksFails, SetStatus, Marks, Reporters
  <2>4. RunOrder'
    BY <1>10 DEF CloseSinksFails, SetStatus, RunOrder, Places, States, Marks
  <2>5. StatusOrder'
    BY <1>10 DEF CloseSinksFails, SetStatus, StatusOrder, Places, Flags, RunOrder, EOSOrder
  <2>6. StoppedFinalized'
    BY <1>10 DEF CloseSinksFails, SetStatus, StoppedFinalized, Places, Flags, RunOrder, EOSOrder,
       StatusOrder, EvictedKnown
  <2>7. ReplayEndsLate'
    BY <1>10 DEF CloseSinksFails, SetStatus, ReplayEndsLate, Places, Flags, Marks, RunOrder,
       EOSOrder, StatusOrder
  <2>8. EvictedKnown'
    BY <1>10 DEF CloseSinksFails, SetStatus, EvictedKnown, Places, Flags, RunOrder
  <2>9. States'
    BY <1>10 DEF CloseSinksFails, States
  <2>10. EOSOrder'
    BY <1>10 DEF CloseSinksFails, EOSOrder
  <2> QED BY <2>1, <2>2, <2>3, <2>4, <2>5, <2>6, <2>7, <2>8, <2>9, <2>10
<1>11. CASE Close
  <2>1. Places'
    BY <1>11 DEF Close, Places
  <2>2. RunOrder'
    BY <1>11 DEF Close, RunOrder, Places, States, Marks
  <2>3. StatusOrder'
    BY <1>11 DEF Close, StatusOrder, Places, Flags, RunOrder, EOSOrder
  <2>4. StoppedFinalized'
    BY <1>11 DEF Close, StoppedFinalized, Places, Flags, RunOrder, EOSOrder, StatusOrder,
       EvictedKnown
  <2>5. ReplayEndsLate'
    BY <1>11 DEF Close, ReplayEndsLate, Places, Flags, Marks, RunOrder, EOSOrder, StatusOrder
  <2>6. EvictedKnown'
    BY <1>11 DEF Close, EvictedKnown, Places, Flags, RunOrder
  <2>7. Flags'
    BY <1>11 DEF Close, Flags
  <2>8. States'
    BY <1>11 DEF Close, States
  <2>9. Marks'
    BY <1>11 DEF Close, Marks
  <2>10. EOSOrder'
    BY <1>11 DEF Close, EOSOrder
  <2> QED BY <2>1, <2>2, <2>3, <2>4, <2>5, <2>6, <2>7, <2>8, <2>9, <2>10
<1>12. CASE CloseSets
  <2>1. Places'
    BY <1>12 DEF CloseSets, SetStatusRead, Places
  <2>2. Flags'
    <3>1. marked' \in BOOLEAN
      BY <1>12 DEF CloseSets, SetStatusRead, Flags
    <3>2. UNCHANGED <<srcOpen, uploads, sinksClosed, probes, eosGo, eosFlow, atSinks, sinkEOS,
       eosReceived, watch, stopReq, stopped, loop>>
      BY <1>12 DEF CloseSets
    <3> QED BY <3>1, <3>2 DEF Flags
  <2>3. Marks'
    BY <1>12 DEF CloseSets, SetStatusRead, Marks, Reporters
  <2>4. RunOrder'
    BY <1>12 DEF CloseSets, SetStatusRead, RunOrder, Places, States, Marks
  <2>5. StatusOrder'
    BY <1>12 DEF CloseSets, SetStatusRead, StatusOrder, Places, Flags, RunOrder, EOSOrder
  <2>6. StoppedFinalized'
    BY <1>12 DEF CloseSets, SetStatusRead, StoppedFinalized, Places, Flags, RunOrder, EOSOrder,
       StatusOrder, EvictedKnown
  <2>7. ReplayEndsLate'
    BY <1>12 DEF CloseSets, SetStatusRead, ReplayEndsLate, Places, Flags, Marks, RunOrder,
       EOSOrder, StatusOrder
  <2>8. EvictedKnown'
    BY <1>12 DEF CloseSets, SetStatusRead, EvictedKnown, Places, Flags, RunOrder
  <2>9. States'
    BY <1>12 DEF CloseSets, States
  <2>10. EOSOrder'
    BY <1>12 DEF CloseSets, EOSOrder
  <2> QED BY <2>1, <2>2, <2>3, <2>4, <2>5, <2>6, <2>7, <2>8, <2>9, <2>10
<1>13. CASE HandlerFinished
  <2>1. Places'
    BY <1>13 DEF HandlerFinished, IsDuplicateIdentity, Places
  <2>2. RunOrder'
    BY <1>13 DEF HandlerFinished, IsDuplicateIdentity, RunOrder, Places, States, Marks
  <2>3. StatusOrder'
    BY <1>13 DEF HandlerFinished, IsDuplicateIdentity, StatusOrder, Places, Flags, RunOrder,
       EOSOrder
  <2>4. StoppedFinalized'
    BY <1>13 DEF HandlerFinished, IsDuplicateIdentity, StoppedFinalized, Places, Flags, RunOrder,
       EOSOrder, StatusOrder, EvictedKnown
  <2>5. ReplayEndsLate'
    BY <1>13 DEF HandlerFinished, IsDuplicateIdentity, ReplayEndsLate, Places, Flags, Marks,
       RunOrder, EOSOrder, StatusOrder
  <2>6. EvictedKnown'
    BY <1>13 DEF HandlerFinished, IsDuplicateIdentity, EvictedKnown, Places, Flags, RunOrder
  <2>7. Flags'
    BY <1>13 DEF HandlerFinished, Flags
  <2>8. States'
    BY <1>13 DEF HandlerFinished, States
  <2>9. Marks'
    BY <1>13 DEF HandlerFinished, Marks
  <2>10. EOSOrder'
    BY <1>13 DEF HandlerFinished, EOSOrder
  <2> QED BY <2>1, <2>2, <2>3, <2>4, <2>5, <2>6, <2>7, <2>8, <2>9, <2>10
<1>14. CASE MessagePlaying
  <2>1. Places'
    BY <1>14 DEF MessagePlaying, Dispatching, Busy, Places
  <2>2. RunOrder'
    BY <1>14 DEF MessagePlaying, Dispatching, Busy, RunOrder, Places, States, Marks
  <2>3. StatusOrder'
    BY <1>14 DEF MessagePlaying, Dispatching, Busy, StatusOrder, Places, Flags, RunOrder, EOSOrder
  <2>4. ReplayEndsLate'
    BY <1>14 DEF MessagePlaying, Dispatching, Busy, ReplayEndsLate, Places, Flags, Marks,
       RunOrder, EOSOrder, StatusOrder
  <2>5. Flags'
    BY <1>14 DEF MessagePlaying, Flags
  <2>6. States'
    BY <1>14 DEF MessagePlaying, States
  <2>7. Marks'
    BY <1>14 DEF MessagePlaying, Marks
  <2>8. EOSOrder'
    BY <1>14 DEF MessagePlaying, EOSOrder
  <2>9. StoppedFinalized'
    BY <1>14 DEF MessagePlaying, StoppedFinalized
  <2>10. EvictedKnown'
    BY <1>14 DEF MessagePlaying, EvictedKnown
  <2> QED BY <2>1, <2>2, <2>3, <2>4, <2>5, <2>6, <2>7, <2>8, <2>9, <2>10
<1>15. CASE PlayingSets
  <2>1. Places'
    BY <1>15 DEF PlayingSets, SetStatusRead, Places
  <2>2. Flags'
    BY <1>15 DEF PlayingSets, SetStatusRead, Flags
  <2>3. Marks'
    BY <1>15 DEF PlayingSets, SetStatusRead, Marks, Reporters
  <2>4. RunOrder'
    BY <1>15 DEF PlayingSets, SetStatusRead, RunOrder, Places, States, Marks
  <2>5. StatusOrder'
    BY <1>15 DEF PlayingSets, SetStatusRead, StatusOrder, Places, Flags, RunOrder, EOSOrder
  <2>6. StoppedFinalized'
    BY <1>15 DEF PlayingSets, SetStatusRead, StoppedFinalized, Places, Flags, RunOrder, EOSOrder,
       StatusOrder, EvictedKnown
  <2>7. ReplayEndsLate'
    BY <1>15 DEF PlayingSets, SetStatusRead, ReplayEndsLate, Places, Flags, Marks, RunOrder,
       EOSOrder, StatusOrder
  <2>8. States'
    BY <1>15 DEF PlayingSets, States
  <2>9. EOSOrder'
    BY <1>15 DEF PlayingSets, EOSOrder
  <2>10. EvictedKnown'
    BY <1>15 DEF PlayingSets, EvictedKnown
  <2> QED BY <2>1, <2>2, <2>3, <2>4, <2>5, <2>6, <2>7, <2>8, <2>9, <2>10
<1>16. CASE PlayingReleased
  <2>1. Places'
    BY <1>16 DEF PlayingReleased, Places
  <2>2. RunOrder'
    BY <1>16 DEF PlayingReleased, RunOrder, Places, States, Marks
  <2>3. StatusOrder'
    BY <1>16 DEF PlayingReleased, StatusOrder, Places, Flags, RunOrder, EOSOrder
  <2>4. ReplayEndsLate'
    BY <1>16 DEF PlayingReleased, ReplayEndsLate, Places, Flags, Marks, RunOrder, EOSOrder,
       StatusOrder
  <2>5. Flags'
    BY <1>16 DEF PlayingReleased, Flags
  <2>6. States'
    BY <1>16 DEF PlayingReleased, States
  <2>7. Marks'
    BY <1>16 DEF PlayingReleased, Marks
  <2>8. EOSOrder'
    BY <1>16 DEF PlayingReleased, EOSOrder
  <2>9. StoppedFinalized'
    BY <1>16 DEF PlayingReleased, StoppedFinalized
  <2>10. EvictedKnown'
    BY <1>16 DEF PlayingReleased, EvictedKnown
  <2> QED BY <2>1, <2>2, <2>3, <2>4, <2>5, <2>6, <2>7, <2>8, <2>9, <2>10
<1>17. CASE MessageEOS
  <2>1. Places'
    BY <1>17 DEF MessageEOS, Stop, Dispatching, Busy, Places
  <2>2. Flags'
    <3>1. eosReceived' \in BOOLEAN /\ watch' \in BOOLEAN
      BY <1>17 DEF MessageEOS, Stop, Dispatching, Busy, Flags
    <3>2. UNCHANGED <<srcOpen, uploads, sinksClosed, probes, eosGo, eosFlow, atSinks, sinkEOS,
       stopReq, stopped, loop, marked>>
      BY <1>17 DEF MessageEOS
    <3> QED BY <3>1, <3>2 DEF Flags
  <2>3. States'
    BY <1>17 DEF MessageEOS, Stop, Dispatching, Busy, States, Places
  <2>4. RunOrder'
    BY <1>17 DEF MessageEOS, Stop, Dispatching, Busy, RunOrder, Places, States, Marks
  <2>5. EOSOrder'
    BY <1>17 DEF MessageEOS, Stop, Dispatching, Busy, EOSOrder, Places, Flags
  <2>6. StoppedFinalized'
    BY <1>17 DEF MessageEOS, Stop, Dispatching, Busy, StoppedFinalized, Places, Flags, RunOrder,
       EOSOrder, StatusOrder, EvictedKnown
  <2>7. ReplayEndsLate'
    BY <1>17 DEF MessageEOS, Stop, Dispatching, Busy, ReplayEndsLate, Places, Flags, Marks,
       RunOrder, EOSOrder, StatusOrder
  <2>8. Marks'
    BY <1>17 DEF MessageEOS, Marks
  <2>9. StatusOrder'
    BY <1>17 DEF MessageEOS, StatusOrder
  <2>10. EvictedKnown'
    BY <1>17 DEF MessageEOS, EvictedKnown
  <2> QED BY <2>1, <2>2, <2>3, <2>4, <2>5, <2>6, <2>7, <2>8, <2>9, <2>10
<1>18. CASE MessageError
  <2>1. Places'
    BY <1>18 DEF MessageError, Asked, OnError, Dispatching, Busy, Places
  <2>2. Flags'
    <3>1. watch' \in BOOLEAN /\ stopReq' \in BOOLEAN
      BY <1>18 DEF MessageError, Asked, OnError, Dispatching, Busy, Flags
    <3>2. UNCHANGED <<srcOpen, uploads, sinksClosed, probes, eosGo, eosFlow, atSinks, sinkEOS,
       eosReceived, stopped, loop, marked>>
      BY <1>18 DEF MessageError
    <3> QED BY <3>1, <3>2 DEF Flags
  <2>3. Marks'
    BY <1>18 DEF MessageError, Asked, OnError, Dispatching, Busy, Marks, Reporters
  <2>4. RunOrder'
    BY <1>18 DEF MessageError, Asked, OnError, Dispatching, Busy, RunOrder, Places, States, Marks
  <2>5. StoppedFinalized'
    BY <1>18 DEF MessageError, Asked, OnError, Dispatching, Busy, StoppedFinalized, Places, Flags,
       RunOrder, EOSOrder, StatusOrder, EvictedKnown
  <2>6. ReplayEndsLate'
    BY <1>18 DEF MessageError, Asked, OnError, Dispatching, Busy, ReplayEndsLate, Places, Flags,
       Marks, RunOrder, EOSOrder, StatusOrder
  <2>7. States'
    BY <1>18 DEF MessageError, States
  <2>8. EOSOrder'
    BY <1>18 DEF MessageError, EOSOrder
  <2>9. StatusOrder'
    BY <1>18 DEF MessageError, StatusOrder
  <2>10. EvictedKnown'
    BY <1>18 DEF MessageError, EvictedKnown
  <2> QED BY <2>1, <2>2, <2>3, <2>4, <2>5, <2>6, <2>7, <2>8, <2>9, <2>10
<1>19. CASE EOSArrives
  <2>1. Flags'
    <3>1. atSinks' \in BOOLEAN /\ sinkEOS' \in BOOLEAN
      BY <1>19 DEF EOSArrives, Flags
    <3>2. UNCHANGED <<srcOpen, uploads, sinksClosed, probes, eosGo, eosFlow, eosReceived, watch,
       stopReq, stopped, loop, marked>>
      BY <1>19 DEF EOSArrives
    <3> QED BY <3>1, <3>2 DEF Flags
  <2>2. EOSOrder'
    BY <1>19 DEF EOSArrives, EOSOrder, Places, Flags
  <2>3. StoppedFinalized'
    BY <1>19 DEF EOSArrives, StoppedFinalized, Places, Flags, RunOrder, EOSOrder, StatusOrder,
       EvictedKnown
  <2>4. Places'
    BY <1>19 DEF EOSArrives, Places
  <2>5. States'
    BY <1>19 DEF EOSArrives, States
  <2>6. Marks'
    BY <1>19 DEF EOSArrives, Marks
  <2>7. RunOrder'
    BY <1>19 DEF EOSArrives, RunOrder
  <2>8. StatusOrder'
    BY <1>19 DEF EOSArrives, StatusOrder
  <2>9. ReplayEndsLate'
    BY <1>19 DEF EOSArrives, ReplayEndsLate
  <2>10. EvictedKnown'
    BY <1>19 DEF EOSArrives, EvictedKnown
  <2> QED BY <2>1, <2>2, <2>3, <2>4, <2>5, <2>6, <2>7, <2>8, <2>9, <2>10
<1>20. CASE SenderReads
  <2>1. Places'
    BY <1>20 DEF SenderReads, Switch, Places
  <2>2. EOSOrder'
    BY <1>20 DEF SenderReads, Switch, EOSOrder, Places, Flags
  <2>3. StatusOrder'
    BY <1>20 DEF SenderReads, Switch, StatusOrder, Places, Flags, RunOrder, EOSOrder
  <2>4. StoppedFinalized'
    BY <1>20 DEF SenderReads, Switch, StoppedFinalized, Places, Flags, RunOrder, EOSOrder,
       StatusOrder, EvictedKnown
  <2>5. ReplayEndsLate'
    BY <1>20 DEF SenderReads, Switch, ReplayEndsLate, Places, Flags, Marks, RunOrder, EOSOrder,
       StatusOrder
  <2>6. Flags'
    BY <1>20 DEF SenderReads, Flags
  <2>7. States'
    BY <1>20 DEF SenderReads, States
  <2>8. Marks'
    BY <1>20 DEF SenderReads, Marks
  <2>9. RunOrder'
    BY <1>20 DEF SenderReads, RunOrder
  <2>10. EvictedKnown'
    BY <1>20 DEF SenderReads, EvictedKnown
  <2> QED BY <2>1, <2>2, <2>3, <2>4, <2>5, <2>6, <2>7, <2>8, <2>9, <2>10
<1>21. CASE SenderSets
  <2>1. Places'
    BY <1>21 DEF SenderSets, SetStatusRead, Places
  <2>2. Flags'
    BY <1>21 DEF SenderSets, SetStatusRead, Flags
  <2>3. Marks'
    BY <1>21 DEF SenderSets, SetStatusRead, Marks, Reporters
  <2>4. EOSOrder'
    BY <1>21 DEF SenderSets, SetStatusRead, EOSOrder, Places, Flags
  <2>5. StatusOrder'
    BY <1>21 DEF SenderSets, SetStatusRead, StatusOrder, Places, Flags, RunOrder, EOSOrder
  <2>6. StoppedFinalized'
    BY <1>21 DEF SenderSets, SetStatusRead, StoppedFinalized, Places, Flags, RunOrder, EOSOrder,
       StatusOrder, EvictedKnown
  <2>7. ReplayEndsLate'
    BY <1>21 DEF SenderSets, SetStatusRead, ReplayEndsLate, Places, Flags, Marks, RunOrder,
       EOSOrder, StatusOrder
  <2>8. States'
    BY <1>21 DEF SenderSets, States
  <2>9. RunOrder'
    BY <1>21 DEF SenderSets, RunOrder
  <2>10. EvictedKnown'
    BY <1>21 DEF SenderSets, EvictedKnown
  <2> QED BY <2>1, <2>2, <2>3, <2>4, <2>5, <2>6, <2>7, <2>8, <2>9, <2>10
<1>22. CASE SenderStops
  <2>1. Places'
    BY <1>22 DEF SenderStops, Stop, Places
  <2>2. States'
    BY <1>22 DEF SenderStops, Stop, States, Places
  <2>3. RunOrder'
    BY <1>22 DEF SenderStops, Stop, RunOrder, Places, States, Marks
  <2>4. EOSOrder'
    BY <1>22 DEF SenderStops, Stop, EOSOrder, Places, Flags
  <2>5. StatusOrder'
    BY <1>22 DEF SenderStops, Stop, StatusOrder, Places, Flags, RunOrder, EOSOrder
  <2>6. StoppedFinalized'
    BY <1>22 DEF SenderStops, Stop, StoppedFinalized, Places, Flags, RunOrder, EOSOrder,
       StatusOrder, EvictedKnown
  <2>7. ReplayEndsLate'
    BY <1>22 DEF SenderStops, Stop, ReplayEndsLate, Places, Flags, Marks, RunOrder, EOSOrder,
       StatusOrder
  <2>8. Flags'
    BY <1>22 DEF SenderStops, Flags
  <2>9. Marks'
    BY <1>22 DEF SenderStops, Marks
  <2>10. EvictedKnown'
    BY <1>22 DEF SenderStops, EvictedKnown
  <2> QED BY <2>1, <2>2, <2>3, <2>4, <2>5, <2>6, <2>7, <2>8, <2>9, <2>10
<1>23. CASE SenderChecks
  <2>1. Places'
    BY <1>23 DEF SenderChecks, Places
  <2>2. EOSOrder'
    BY <1>23 DEF SenderChecks, EOSOrder, Places, Flags
  <2>3. StatusOrder'
    BY <1>23 DEF SenderChecks, StatusOrder, Places, Flags, RunOrder, EOSOrder
  <2>4. StoppedFinalized'
    BY <1>23 DEF SenderChecks, StoppedFinalized, Places, Flags, RunOrder, EOSOrder, StatusOrder,
       EvictedKnown
  <2>5. ReplayEndsLate'
    BY <1>23 DEF SenderChecks, ReplayEndsLate, Places, Flags, Marks, RunOrder, EOSOrder,
       StatusOrder
  <2>6. Flags'
    BY <1>23 DEF SenderChecks, Flags
  <2>7. States'
    BY <1>23 DEF SenderChecks, States
  <2>8. Marks'
    BY <1>23 DEF SenderChecks, Marks
  <2>9. RunOrder'
    BY <1>23 DEF SenderChecks, RunOrder
  <2>10. EvictedKnown'
    BY <1>23 DEF SenderChecks, EvictedKnown
  <2> QED BY <2>1, <2>2, <2>3, <2>4, <2>5, <2>6, <2>7, <2>8, <2>9, <2>10
<1>24. CASE SenderArms
  <2>1. Places'
    BY <1>24 DEF SenderArms, Places
  <2>2. Flags'
    <3>1. probes' \in BOOLEAN /\ eosGo' \in BOOLEAN
      BY <1>24 DEF SenderArms, Flags
    <3>2. UNCHANGED <<srcOpen, uploads, sinksClosed, eosFlow, atSinks, sinkEOS, eosReceived,
       watch, stopReq, stopped, loop, marked>>
      BY <1>24 DEF SenderArms
    <3> QED BY <3>1, <3>2 DEF Flags
  <2>3. EOSOrder'
    BY <1>24 DEF SenderArms, EOSOrder, Places, Flags
  <2>4. StatusOrder'
    BY <1>24 DEF SenderArms, StatusOrder, Places, Flags, RunOrder, EOSOrder
  <2>5. StoppedFinalized'
    BY <1>24 DEF SenderArms, StoppedFinalized, Places, Flags, RunOrder, EOSOrder, StatusOrder,
       EvictedKnown
  <2>6. ReplayEndsLate'
    BY <1>24 DEF SenderArms, ReplayEndsLate, Places, Flags, Marks, RunOrder, EOSOrder, StatusOrder
  <2>7. States'
    BY <1>24 DEF SenderArms, States
  <2>8. Marks'
    BY <1>24 DEF SenderArms, Marks
  <2>9. RunOrder'
    BY <1>24 DEF SenderArms, RunOrder
  <2>10. EvictedKnown'
    BY <1>24 DEF SenderArms, EvictedKnown
  <2> QED BY <2>1, <2>2, <2>3, <2>4, <2>5, <2>6, <2>7, <2>8, <2>9, <2>10
<1>25. CASE SenderReleases
  <2>1. Places'
    BY <1>25 DEF SenderReleases, Places
  <2>2. EOSOrder'
    BY <1>25 DEF SenderReleases, EOSOrder, Places, Flags
  <2>3. StatusOrder'
    BY <1>25 DEF SenderReleases, StatusOrder, Places, Flags, RunOrder, EOSOrder
  <2>4. StoppedFinalized'
    BY <1>25 DEF SenderReleases, StoppedFinalized, Places, Flags, RunOrder, EOSOrder, StatusOrder,
       EvictedKnown
  <2>5. ReplayEndsLate'
    BY <1>25 DEF SenderReleases, ReplayEndsLate, Places, Flags, Marks, RunOrder, EOSOrder,
       StatusOrder
  <2>6. Flags'
    BY <1>25 DEF SenderReleases, Flags
  <2>7. States'
    BY <1>25 DEF SenderReleases, States
  <2>8. Marks'
    BY <1>25 DEF SenderReleases, Marks
  <2>9. RunOrder'
    BY <1>25 DEF SenderReleases, RunOrder
  <2>10. EvictedKnown'
    BY <1>25 DEF SenderReleases, EvictedKnown
  <2> QED BY <2>1, <2>2, <2>3, <2>4, <2>5, <2>6, <2>7, <2>8, <2>9, <2>10
<1>26. CASE PipelineSendEOS
  <2>1. Places'
    BY <1>26 DEF PipelineSendEOS, Places
  <2>2. Flags'
    <3>1. eosGo' \in BOOLEAN /\ eosFlow' \in BOOLEAN
      BY <1>26 DEF PipelineSendEOS, Flags
    <3>2. UNCHANGED <<srcOpen, uploads, sinksClosed, probes, atSinks, sinkEOS, eosReceived, watch,
       stopReq, stopped, loop, marked>>
      BY <1>26 DEF PipelineSendEOS
    <3> QED BY <3>1, <3>2 DEF Flags
  <2>3. States'
    BY <1>26 DEF PipelineSendEOS, States, Places
  <2>4. RunOrder'
    BY <1>26 DEF PipelineSendEOS, RunOrder, Places, States, Marks
  <2>5. EOSOrder'
    BY <1>26 DEF PipelineSendEOS, EOSOrder, Places, Flags
  <2>6. StatusOrder'
    BY <1>26 DEF PipelineSendEOS, StatusOrder, Places, Flags, RunOrder, EOSOrder
  <2>7. StoppedFinalized'
    <3>1. "eos" \notin lost /\ pstate < StateRunning => status \in Final
      BY <1>26 DEF PipelineSendEOS, Places, States, RunOrder, StatusOrder
    <3>2. stopper' # "idle" => stopper # "idle" \/ pstate < StateRunning
      BY <1>26 DEF PipelineSendEOS
    <3>3. UNCHANGED <<conf, run, sinksClosed, result, atSinks, sinkEOS, eosReceived, stopReq,
                      status, cause, lost, limitTimer, sender>>
      BY <1>26 DEF PipelineSendEOS
    <3> QED BY <3>1, <3>2, <3>3 DEF StoppedFinalized
  <2>8. ReplayEndsLate'
    BY <1>26 DEF PipelineSendEOS, ReplayEndsLate, Places, Flags, Marks, RunOrder, EOSOrder,
       StatusOrder
  <2>9. Marks'
    BY <1>26 DEF PipelineSendEOS, Marks
  <2>10. EvictedKnown'
    BY <1>26 DEF PipelineSendEOS, EvictedKnown
  <2> QED BY <2>1, <2>2, <2>3, <2>4, <2>5, <2>6, <2>7, <2>8, <2>9, <2>10
<1>27. CASE EOSTimerFires
  <2>1. Places'
    BY <1>27 DEF EOSTimerFires, Stop, Places
  <2>2. States'
    BY <1>27 DEF EOSTimerFires, Stop, States, Places
  <2>3. RunOrder'
    BY <1>27 DEF EOSTimerFires, Stop, RunOrder, Places, States, Marks
  <2>4. EOSOrder'
    BY <1>27 DEF EOSTimerFires, Stop, EOSOrder, Places, Flags
  <2>5. StoppedFinalized'
    BY <1>27 DEF EOSTimerFires, Stop, StoppedFinalized, Places, Flags, RunOrder, EOSOrder,
       StatusOrder, EvictedKnown
  <2>6. ReplayEndsLate'
    BY <1>27 DEF EOSTimerFires, Stop, ReplayEndsLate, Places, Flags, Marks, RunOrder, EOSOrder,
       StatusOrder
  <2>7. Flags'
    BY <1>27 DEF EOSTimerFires, Flags
  <2>8. Marks'
    BY <1>27 DEF EOSTimerFires, Marks
  <2>9. StatusOrder'
    BY <1>27 DEF EOSTimerFires, StatusOrder
  <2>10. EvictedKnown'
    BY <1>27 DEF EOSTimerFires, EvictedKnown
  <2> QED BY <2>1, <2>2, <2>3, <2>4, <2>5, <2>6, <2>7, <2>8, <2>9, <2>10
<1>28. CASE EOSTimerReports
  <2>1. Places'
    BY <1>28 DEF EOSTimerReports, OnError, Places
  <2>2. Flags'
    <3>1. stopReq' \in BOOLEAN
      BY <1>28 DEF EOSTimerReports, OnError, Flags
    <3>2. UNCHANGED <<srcOpen, uploads, sinksClosed, probes, eosGo, eosFlow, atSinks, sinkEOS,
       eosReceived, watch, stopped, loop, marked>>
      BY <1>28 DEF EOSTimerReports
    <3> QED BY <3>1, <3>2 DEF Flags
  <2>3. Marks'
    BY <1>28 DEF EOSTimerReports, OnError, Marks, Reporters
  <2>4. RunOrder'
    BY <1>28 DEF EOSTimerReports, OnError, RunOrder, Places, States, Marks
  <2>5. EOSOrder'
    BY <1>28 DEF EOSTimerReports, OnError, EOSOrder, Places, Flags
  <2>6. StoppedFinalized'
    BY <1>28 DEF EOSTimerReports, OnError, StoppedFinalized, Places, Flags, RunOrder, EOSOrder,
       StatusOrder, EvictedKnown
  <2>7. ReplayEndsLate'
    BY <1>28 DEF EOSTimerReports, OnError, ReplayEndsLate, Places, Flags, Marks, RunOrder,
       EOSOrder, StatusOrder
  <2>8. States'
    BY <1>28 DEF EOSTimerReports, States
  <2>9. StatusOrder'
    BY <1>28 DEF EOSTimerReports, StatusOrder
  <2>10. EvictedKnown'
    BY <1>28 DEF EOSTimerReports, EvictedKnown
  <2> QED BY <2>1, <2>2, <2>3, <2>4, <2>5, <2>6, <2>7, <2>8, <2>9, <2>10
<1>29. ASSUME NEW who \in Reporters,
              OnErrorFails(who)
       PROVE  IInv'
  <2>1. Places'
    BY <1>29 DEF OnErrorFails, SetStatus, Places
  <2>2. Flags'
    <3>1. stopReq' \in BOOLEAN /\ marked' \in BOOLEAN
      BY <1>29 DEF OnErrorFails, SetStatus, Flags
    <3>2. UNCHANGED <<srcOpen, uploads, sinksClosed, probes, eosGo, eosFlow, atSinks, sinkEOS,
       eosReceived, watch, stopped, loop>>
      BY <1>29 DEF OnErrorFails
    <3> QED BY <3>1, <3>2 DEF Flags
  <2>3. Marks'
    BY <1>29 DEF OnErrorFails, SetStatus, Marks, Reporters
  <2>4. RunOrder'
    BY <1>29 DEF OnErrorFails, SetStatus, RunOrder, Places, States, Marks
  <2>5. StatusOrder'
    BY <1>29 DEF OnErrorFails, SetStatus, StatusOrder, Places, Flags, RunOrder, EOSOrder
  <2>6. StoppedFinalized'
    BY <1>29 DEF OnErrorFails, SetStatus, StoppedFinalized, Places, Flags, RunOrder, EOSOrder,
       StatusOrder, EvictedKnown
  <2>7. ReplayEndsLate'
    BY <1>29 DEF OnErrorFails, SetStatus, ReplayEndsLate, Places, Flags, Marks, RunOrder,
       EOSOrder, StatusOrder
  <2>8. States'
    BY <1>29 DEF OnErrorFails, States
  <2>9. EOSOrder'
    BY <1>29 DEF OnErrorFails, EOSOrder
  <2>10. EvictedKnown'
    BY <1>29 DEF OnErrorFails, EvictedKnown
  <2> QED BY <2>1, <2>2, <2>3, <2>4, <2>5, <2>6, <2>7, <2>8, <2>9, <2>10
<1>30. CASE StopRuns
  <2>1. Places'
    BY <1>30 DEF StopRuns, Stop, Places
  <2>2. Flags'
    <3>1. stopReq' \in BOOLEAN
      BY <1>30 DEF StopRuns, Stop, Flags
    <3>2. UNCHANGED <<srcOpen, uploads, sinksClosed, probes, eosGo, eosFlow, atSinks, sinkEOS,
       eosReceived, watch, stopped, loop, marked>>
      BY <1>30 DEF StopRuns
    <3> QED BY <3>1, <3>2 DEF Flags
  <2>3. States'
    BY <1>30 DEF StopRuns, Stop, States, Places
  <2>4. RunOrder'
    BY <1>30 DEF StopRuns, Stop, RunOrder, Places, States, Marks
  <2>5. EOSOrder'
    BY <1>30 DEF StopRuns, Stop, EOSOrder, Places, Flags
  <2>6. StoppedFinalized'
    BY <1>30 DEF StopRuns, Stop, StoppedFinalized, Places, Flags, RunOrder, EOSOrder, StatusOrder,
       EvictedKnown
  <2>7. ReplayEndsLate'
    BY <1>30 DEF StopRuns, Stop, ReplayEndsLate, Places, Flags, Marks, RunOrder, EOSOrder,
       StatusOrder
  <2>8. Marks'
    BY <1>30 DEF StopRuns, Marks
  <2>9. StatusOrder'
    BY <1>30 DEF StopRuns, StatusOrder
  <2>10. EvictedKnown'
    BY <1>30 DEF StopRuns, EvictedKnown
  <2> QED BY <2>1, <2>2, <2>3, <2>4, <2>5, <2>6, <2>7, <2>8, <2>9, <2>10
<1>31. CASE StopCallbacks
  <2>1. Places'
    BY <1>31 DEF StopCallbacks, Places
  <2>2. Flags'
    BY <1>31 DEF StopCallbacks, Flags
  <2>3. RunOrder'
    BY <1>31 DEF StopCallbacks, RunOrder, Places, States, Marks
  <2>4. EOSOrder'
    BY <1>31 DEF StopCallbacks, EOSOrder, Places, Flags
  <2>5. StoppedFinalized'
    BY <1>31 DEF StopCallbacks, StoppedFinalized, Places, Flags, RunOrder, EOSOrder, StatusOrder,
       EvictedKnown
  <2>6. ReplayEndsLate'
    BY <1>31 DEF StopCallbacks, ReplayEndsLate, Places, Flags, Marks, RunOrder, EOSOrder,
       StatusOrder
  <2>7. States'
    BY <1>31 DEF StopCallbacks, States
  <2>8. Marks'
    BY <1>31 DEF StopCallbacks, Marks
  <2>9. StatusOrder'
    BY <1>31 DEF StopCallbacks, StatusOrder
  <2>10. EvictedKnown'
    BY <1>31 DEF StopCallbacks, EvictedKnown
  <2> QED BY <2>1, <2>2, <2>3, <2>4, <2>5, <2>6, <2>7, <2>8, <2>9, <2>10
<1>32. CASE StopPipeline
  <2>1. Places'
    BY <1>32 DEF StopPipeline, Places
  <2>2. Flags'
    <3>1. loop' \in BOOLEAN
      BY <1>32 DEF StopPipeline, Flags
    <3>2. UNCHANGED <<srcOpen, uploads, sinksClosed, probes, eosGo, eosFlow, atSinks, sinkEOS,
       eosReceived, watch, stopReq, stopped, marked>>
      BY <1>32 DEF StopPipeline
    <3> QED BY <3>1, <3>2 DEF Flags
  <2>3. States'
    BY <1>32 DEF StopPipeline, States, Places
  <2>4. RunOrder'
    BY <1>32 DEF StopPipeline, RunOrder, Places, States, Marks
  <2>5. EOSOrder'
    BY <1>32 DEF StopPipeline, EOSOrder, Places, Flags
  <2>6. StoppedFinalized'
    BY <1>32 DEF StopPipeline, StoppedFinalized, Places, Flags, RunOrder, EOSOrder, StatusOrder,
       EvictedKnown
  <2>7. ReplayEndsLate'
    BY <1>32 DEF StopPipeline, ReplayEndsLate, Places, Flags, Marks, RunOrder, EOSOrder,
       StatusOrder
  <2>8. Marks'
    BY <1>32 DEF StopPipeline, Marks
  <2>9. StatusOrder'
    BY <1>32 DEF StopPipeline, StatusOrder
  <2>10. EvictedKnown'
    BY <1>32 DEF StopPipeline, EvictedKnown
  <2> QED BY <2>1, <2>2, <2>3, <2>4, <2>5, <2>6, <2>7, <2>8, <2>9, <2>10
<1>33. ASSUME NEW how \in {"clean", "retryable", "duplicate"}, NEW pushed \in BOOLEAN,
              SourceEnds(how, pushed)
       PROVE  IInv'
  <2>1. Places'
    BY <1>33 DEF SourceEnds, Places
  <2>2. Flags'
    BY <1>33 DEF SourceEnds, Flags
  <2>3. EvictedKnown'
    BY <1>33 DEF SourceEnds, EvictedKnown, Places, Flags, RunOrder
  <2>4. States'
    BY <1>33 DEF SourceEnds, States
  <2>5. Marks'
    BY <1>33 DEF SourceEnds, Marks
  <2>6. RunOrder'
    BY <1>33 DEF SourceEnds, RunOrder
  <2>7. EOSOrder'
    BY <1>33 DEF SourceEnds, EOSOrder
  <2>8. StatusOrder'
    BY <1>33 DEF SourceEnds, StatusOrder
  <2>9. StoppedFinalized'
    BY <1>33 DEF SourceEnds, StoppedFinalized
  <2>10. ReplayEndsLate'
    BY <1>33 DEF SourceEnds, ReplayEndsLate
  <2> QED BY <2>1, <2>2, <2>3, <2>4, <2>5, <2>6, <2>7, <2>8, <2>9, <2>10
<1>34. CASE OnEOSSent
  <2>1. Places'
    BY <1>34 DEF OnEOSSent, BeginEOS, Places
  <2>2. Flags'
    <3>1. probes' \in BOOLEAN /\ eosGo' \in BOOLEAN
      BY <1>34 DEF OnEOSSent, BeginEOS, Flags
    <3>2. UNCHANGED <<srcOpen, uploads, sinksClosed, eosFlow, atSinks, sinkEOS, eosReceived,
       watch, stopReq, stopped, loop, marked>>
      BY <1>34 DEF OnEOSSent
    <3> QED BY <3>1, <3>2 DEF Flags
  <2>3. EOSOrder'
    BY <1>34 DEF OnEOSSent, BeginEOS, EOSOrder, Places, Flags
  <2>4. StatusOrder'
    BY <1>34 DEF OnEOSSent, BeginEOS, StatusOrder, Places, Flags, RunOrder, EOSOrder
  <2>5. StoppedFinalized'
    BY <1>34 DEF OnEOSSent, BeginEOS, StoppedFinalized, Places, Flags, RunOrder, EOSOrder,
       StatusOrder, EvictedKnown
  <2>6. ReplayEndsLate'
    BY <1>34 DEF OnEOSSent, BeginEOS, ReplayEndsLate, Places, Flags, Marks, RunOrder, EOSOrder,
       StatusOrder
  <2>7. States'
    BY <1>34 DEF OnEOSSent, States
  <2>8. Marks'
    BY <1>34 DEF OnEOSSent, Marks
  <2>9. RunOrder'
    BY <1>34 DEF OnEOSSent, RunOrder
  <2>10. EvictedKnown'
    BY <1>34 DEF OnEOSSent, EvictedKnown
  <2> QED BY <2>1, <2>2, <2>3, <2>4, <2>5, <2>6, <2>7, <2>8, <2>9, <2>10
<1>35. CASE WatchSource
  <2>1. Places'
    BY <1>35 DEF WatchSource, BeginEOS, Places
  <2>2. Flags'
    <3>1. probes' \in BOOLEAN /\ eosGo' \in BOOLEAN
      BY <1>35 DEF WatchSource, BeginEOS, Flags
    <3>2. UNCHANGED <<srcOpen, uploads, sinksClosed, eosFlow, atSinks, sinkEOS, eosReceived,
       watch, stopReq, stopped, loop, marked>>
      BY <1>35 DEF WatchSource
    <3> QED BY <3>1, <3>2 DEF Flags
  <2>3. EOSOrder'
    BY <1>35 DEF WatchSource, BeginEOS, EOSOrder, Places, Flags
  <2>4. StatusOrder'
    BY <1>35 DEF WatchSource, BeginEOS, StatusOrder, Places, Flags, RunOrder, EOSOrder
  <2>5. StoppedFinalized'
    BY <1>35 DEF WatchSource, BeginEOS, StoppedFinalized, Places, Flags, RunOrder, EOSOrder,
       StatusOrder, EvictedKnown
  <2>6. ReplayEndsLate'
    BY <1>35 DEF WatchSource, BeginEOS, ReplayEndsLate, Places, Flags, Marks, RunOrder, EOSOrder,
       StatusOrder
  <2>7. States'
    BY <1>35 DEF WatchSource, States
  <2>8. Marks'
    BY <1>35 DEF WatchSource, Marks
  <2>9. RunOrder'
    BY <1>35 DEF WatchSource, RunOrder
  <2>10. EvictedKnown'
    BY <1>35 DEF WatchSource, EvictedKnown
  <2> QED BY <2>1, <2>2, <2>3, <2>4, <2>5, <2>6, <2>7, <2>8, <2>9, <2>10
<1>36. CASE WatchPreroll
  <2>1. Places'
    BY <1>36 DEF WatchPreroll, Asked, BeginEOS, Places
  <2>2. Flags'
    <3>1. probes' \in BOOLEAN /\ eosGo' \in BOOLEAN
      BY <1>36 DEF WatchPreroll, Asked, BeginEOS, Flags
    <3>2. UNCHANGED <<srcOpen, uploads, sinksClosed, eosFlow, atSinks, sinkEOS, eosReceived,
       watch, stopReq, stopped, loop, marked>>
      BY <1>36 DEF WatchPreroll
    <3> QED BY <3>1, <3>2 DEF Flags
  <2>3. EOSOrder'
    BY <1>36 DEF WatchPreroll, Asked, BeginEOS, EOSOrder, Places, Flags
  <2>4. StatusOrder'
    BY <1>36 DEF WatchPreroll, Asked, BeginEOS, StatusOrder, Places, Flags, RunOrder, EOSOrder
  <2>5. StoppedFinalized'
    BY <1>36 DEF WatchPreroll, Asked, BeginEOS, StoppedFinalized, Places, Flags, RunOrder,
       EOSOrder, StatusOrder, EvictedKnown
  <2>6. ReplayEndsLate'
    BY <1>36 DEF WatchPreroll, Asked, BeginEOS, ReplayEndsLate, Places, Flags, Marks, RunOrder,
       EOSOrder, StatusOrder
  <2>7. States'
    BY <1>36 DEF WatchPreroll, States
  <2>8. Marks'
    BY <1>36 DEF WatchPreroll, Marks
  <2>9. RunOrder'
    BY <1>36 DEF WatchPreroll, RunOrder
  <2>10. EvictedKnown'
    BY <1>36 DEF WatchPreroll, EvictedKnown
  <2> QED BY <2>1, <2>2, <2>3, <2>4, <2>5, <2>6, <2>7, <2>8, <2>9, <2>10
<1>37. CASE StopRequested
  <2>1. Places'
    BY <1>37 DEF StopRequested, Asked, BeginEOS, Places
  <2>2. Flags'
    <3>1. probes' \in BOOLEAN /\ eosGo' \in BOOLEAN
      BY <1>37 DEF StopRequested, Asked, BeginEOS, Flags
    <3>2. UNCHANGED <<srcOpen, uploads, sinksClosed, eosFlow, atSinks, sinkEOS, eosReceived,
       watch, stopReq, stopped, loop, marked>>
      BY <1>37 DEF StopRequested
    <3> QED BY <3>1, <3>2 DEF Flags
  <2>3. EOSOrder'
    BY <1>37 DEF StopRequested, Asked, BeginEOS, EOSOrder, Places, Flags
  <2>4. StatusOrder'
    BY <1>37 DEF StopRequested, Asked, BeginEOS, StatusOrder, Places, Flags, RunOrder, EOSOrder
  <2>5. StoppedFinalized'
    BY <1>37 DEF StopRequested, Asked, BeginEOS, StoppedFinalized, Places, Flags, RunOrder,
       EOSOrder, StatusOrder, EvictedKnown
  <2>6. ReplayEndsLate'
    BY <1>37 DEF StopRequested, Asked, BeginEOS, ReplayEndsLate, Places, Flags, Marks, RunOrder,
       EOSOrder, StatusOrder
  <2>7. States'
    BY <1>37 DEF StopRequested, States
  <2>8. Marks'
    BY <1>37 DEF StopRequested, Marks
  <2>9. RunOrder'
    BY <1>37 DEF StopRequested, RunOrder
  <2>10. EvictedKnown'
    BY <1>37 DEF StopRequested, EvictedKnown
  <2> QED BY <2>1, <2>2, <2>3, <2>4, <2>5, <2>6, <2>7, <2>8, <2>9, <2>10
<1>38. CASE KillEgress
  <2>1. Places'
    BY <1>38 DEF KillEgress, Asked, BeginEOS, Places
  <2>2. Flags'
    <3>1. probes' \in BOOLEAN /\ eosGo' \in BOOLEAN
      BY <1>38 DEF KillEgress, Asked, BeginEOS, Flags
    <3>2. UNCHANGED <<srcOpen, uploads, sinksClosed, eosFlow, atSinks, sinkEOS, eosReceived,
       watch, stopReq, stopped, loop, marked>>
      BY <1>38 DEF KillEgress
    <3> QED BY <3>1, <3>2 DEF Flags
  <2>3. EOSOrder'
    BY <1>38 DEF KillEgress, Asked, BeginEOS, EOSOrder, Places, Flags
  <2>4. StatusOrder'
    BY <1>38 DEF KillEgress, Asked, BeginEOS, StatusOrder, Places, Flags, RunOrder, EOSOrder
  <2>5. StoppedFinalized'
    BY <1>38 DEF KillEgress, Asked, BeginEOS, StoppedFinalized, Places, Flags, RunOrder, EOSOrder,
       StatusOrder, EvictedKnown
  <2>6. ReplayEndsLate'
    BY <1>38 DEF KillEgress, Asked, BeginEOS, ReplayEndsLate, Places, Flags, Marks, RunOrder,
       EOSOrder, StatusOrder
  <2>7. States'
    BY <1>38 DEF KillEgress, States
  <2>8. Marks'
    BY <1>38 DEF KillEgress, Marks
  <2>9. RunOrder'
    BY <1>38 DEF KillEgress, RunOrder
  <2>10. EvictedKnown'
    BY <1>38 DEF KillEgress, EvictedKnown
  <2> QED BY <2>1, <2>2, <2>3, <2>4, <2>5, <2>6, <2>7, <2>8, <2>9, <2>10
<1>39. CASE KillMarksFailed
  <2>1. Places'
    BY <1>39 DEF KillMarksFailed, SetStatus, Places
  <2>2. Flags'
    BY <1>39 DEF KillMarksFailed, SetStatus, Flags
  <2>3. Marks'
    BY <1>39 DEF KillMarksFailed, SetStatus, Marks, Reporters
  <2>4. StatusOrder'
    BY <1>39 DEF KillMarksFailed, SetStatus, StatusOrder, Places, Flags, RunOrder, EOSOrder
  <2>5. StoppedFinalized'
    BY <1>39 DEF KillMarksFailed, SetStatus, StoppedFinalized, Places, Flags, RunOrder, EOSOrder,
       StatusOrder, EvictedKnown
  <2>6. ReplayEndsLate'
    BY <1>39 DEF KillMarksFailed, SetStatus, ReplayEndsLate, Places, Flags, Marks, RunOrder,
       EOSOrder, StatusOrder
  <2>7. States'
    BY <1>39 DEF KillMarksFailed, States
  <2>8. RunOrder'
    BY <1>39 DEF KillMarksFailed, RunOrder
  <2>9. EOSOrder'
    BY <1>39 DEF KillMarksFailed, EOSOrder
  <2>10. EvictedKnown'
    BY <1>39 DEF KillMarksFailed, EvictedKnown
  <2> QED BY <2>1, <2>2, <2>3, <2>4, <2>5, <2>6, <2>7, <2>8, <2>9, <2>10
<1>40. CASE CallbackError
  <2>1. Places'
    BY <1>40 DEF CallbackError, Asked, OnError, Places
  <2>2. Flags'
    <3>1. stopReq' \in BOOLEAN
      BY <1>40 DEF CallbackError, Asked, OnError, Flags
    <3>2. UNCHANGED <<srcOpen, uploads, sinksClosed, probes, eosGo, eosFlow, atSinks, sinkEOS,
       eosReceived, watch, stopped, loop, marked>>
      BY <1>40 DEF CallbackError
    <3> QED BY <3>1, <3>2 DEF Flags
  <2>3. Marks'
    BY <1>40 DEF CallbackError, Asked, OnError, Marks, Reporters
  <2>4. RunOrder'
    BY <1>40 DEF CallbackError, Asked, OnError, RunOrder, Places, States, Marks
  <2>5. StoppedFinalized'
    BY <1>40 DEF CallbackError, Asked, OnError, StoppedFinalized, Places, Flags, RunOrder,
       EOSOrder, StatusOrder, EvictedKnown
  <2>6. ReplayEndsLate'
    BY <1>40 DEF CallbackError, Asked, OnError, ReplayEndsLate, Places, Flags, Marks, RunOrder,
       EOSOrder, StatusOrder
  <2>7. States'
    BY <1>40 DEF CallbackError, States
  <2>8. EOSOrder'
    BY <1>40 DEF CallbackError, EOSOrder
  <2>9. StatusOrder'
    BY <1>40 DEF CallbackError, StatusOrder
  <2>10. EvictedKnown'
    BY <1>40 DEF CallbackError, EvictedKnown
  <2> QED BY <2>1, <2>2, <2>3, <2>4, <2>5, <2>6, <2>7, <2>8, <2>9, <2>10
<1>41. CASE LimitFires
  <2>1. Places'
    BY <1>41 DEF LimitFires, Asked, Places
  <2>2. StoppedFinalized'
    BY <1>41 DEF LimitFires, Asked, StoppedFinalized, Places, Flags, RunOrder, EOSOrder,
       StatusOrder, EvictedKnown
  <2>3. ReplayEndsLate'
    BY <1>41 DEF LimitFires, Asked, ReplayEndsLate, Places, Flags, Marks, RunOrder, EOSOrder,
       StatusOrder
  <2>4. Flags'
    BY <1>41 DEF LimitFires, Flags
  <2>5. States'
    BY <1>41 DEF LimitFires, States
  <2>6. Marks'
    BY <1>41 DEF LimitFires, Marks
  <2>7. RunOrder'
    BY <1>41 DEF LimitFires, RunOrder
  <2>8. EOSOrder'
    BY <1>41 DEF LimitFires, EOSOrder
  <2>9. StatusOrder'
    BY <1>41 DEF LimitFires, StatusOrder
  <2>10. EvictedKnown'
    BY <1>41 DEF LimitFires, EvictedKnown
  <2> QED BY <2>1, <2>2, <2>3, <2>4, <2>5, <2>6, <2>7, <2>8, <2>9, <2>10
<1>42. CASE LimitSets
  <2>1. Places'
    BY <1>42 DEF LimitSets, SetStatus, Places
  <2>2. Flags'
    <3>1. marked' \in BOOLEAN
      BY <1>42 DEF LimitSets, SetStatus, Flags
    <3>2. UNCHANGED <<srcOpen, uploads, sinksClosed, probes, eosGo, eosFlow, atSinks, sinkEOS,
       eosReceived, watch, stopReq, stopped, loop>>
      BY <1>42 DEF LimitSets
    <3> QED BY <3>1, <3>2 DEF Flags
  <2>3. Marks'
    BY <1>42 DEF LimitSets, SetStatus, Marks, Reporters
  <2>4. StatusOrder'
    BY <1>42 DEF LimitSets, SetStatus, StatusOrder, Places, Flags, RunOrder, EOSOrder
  <2>5. StoppedFinalized'
    BY <1>42 DEF LimitSets, SetStatus, StoppedFinalized, Places, Flags, RunOrder, EOSOrder,
       StatusOrder, EvictedKnown
  <2>6. ReplayEndsLate'
    BY <1>42 DEF LimitSets, SetStatus, ReplayEndsLate, Places, Flags, Marks, RunOrder, EOSOrder,
       StatusOrder
  <2>7. States'
    BY <1>42 DEF LimitSets, States
  <2>8. RunOrder'
    BY <1>42 DEF LimitSets, RunOrder
  <2>9. EOSOrder'
    BY <1>42 DEF LimitSets, EOSOrder
  <2>10. EvictedKnown'
    BY <1>42 DEF LimitSets, EvictedKnown
  <2> QED BY <2>1, <2>2, <2>3, <2>4, <2>5, <2>6, <2>7, <2>8, <2>9, <2>10
<1>43. CASE LimitEnds
  <2>1. Places'
    BY <1>43 DEF LimitEnds, Places
  <2>2. EOSOrder'
    BY <1>43 DEF LimitEnds, EOSOrder, Places, Flags
  <2>3. StatusOrder'
    BY <1>43 DEF LimitEnds, StatusOrder, Places, Flags, RunOrder, EOSOrder
  <2>4. StoppedFinalized'
    BY <1>43 DEF LimitEnds, StoppedFinalized, Places, Flags, RunOrder, EOSOrder, StatusOrder,
       EvictedKnown
  <2>5. ReplayEndsLate'
    BY <1>43 DEF LimitEnds, ReplayEndsLate, Places, Flags, Marks, RunOrder, EOSOrder, StatusOrder
  <2>6. Flags'
    BY <1>43 DEF LimitEnds, Flags
  <2>7. States'
    BY <1>43 DEF LimitEnds, States
  <2>8. Marks'
    BY <1>43 DEF LimitEnds, Marks
  <2>9. RunOrder'
    BY <1>43 DEF LimitEnds, RunOrder
  <2>10. EvictedKnown'
    BY <1>43 DEF LimitEnds, EvictedKnown
  <2> QED BY <2>1, <2>2, <2>3, <2>4, <2>5, <2>6, <2>7, <2>8, <2>9, <2>10
<1>44. CASE LimitStops
  <2>1. Places'
    BY <1>44 DEF LimitStops, Stop, Places
  <2>2. States'
    BY <1>44 DEF LimitStops, Stop, States, Places
  <2>3. RunOrder'
    BY <1>44 DEF LimitStops, Stop, RunOrder, Places, States, Marks
  <2>4. EOSOrder'
    BY <1>44 DEF LimitStops, Stop, EOSOrder, Places, Flags
  <2>5. StoppedFinalized'
    BY <1>44 DEF LimitStops, Stop, StoppedFinalized, Places, Flags, RunOrder, EOSOrder,
       StatusOrder, EvictedKnown
  <2>6. ReplayEndsLate'
    BY <1>44 DEF LimitStops, Stop, ReplayEndsLate, Places, Flags, Marks, RunOrder, EOSOrder,
       StatusOrder
  <2>7. Flags'
    BY <1>44 DEF LimitStops, Flags
  <2>8. Marks'
    BY <1>44 DEF LimitStops, Marks
  <2>9. StatusOrder'
    BY <1>44 DEF LimitStops, StatusOrder
  <2>10. EvictedKnown'
    BY <1>44 DEF LimitStops, EvictedKnown
  <2> QED BY <2>1, <2>2, <2>3, <2>4, <2>5, <2>6, <2>7, <2>8, <2>9, <2>10
<1>45. CASE SizeMonitorTicks
  <2>1. Places'
    BY <1>45 DEF SizeMonitorTicks, Places
  <2>2. ReplayEndsLate'
    BY <1>45 DEF SizeMonitorTicks, ReplayEndsLate, Places, Flags, Marks, RunOrder, EOSOrder,
       StatusOrder
  <2>3. Flags'
    BY <1>45 DEF SizeMonitorTicks, Flags
  <2>4. States'
    BY <1>45 DEF SizeMonitorTicks, States
  <2>5. Marks'
    BY <1>45 DEF SizeMonitorTicks, Marks
  <2>6. RunOrder'
    BY <1>45 DEF SizeMonitorTicks, RunOrder
  <2>7. EOSOrder'
    BY <1>45 DEF SizeMonitorTicks, EOSOrder
  <2>8. StatusOrder'
    BY <1>45 DEF SizeMonitorTicks, StatusOrder
  <2>9. StoppedFinalized'
    BY <1>45 DEF SizeMonitorTicks, StoppedFinalized
  <2>10. EvictedKnown'
    BY <1>45 DEF SizeMonitorTicks, EvictedKnown
  <2> QED BY <2>1, <2>2, <2>3, <2>4, <2>5, <2>6, <2>7, <2>8, <2>9, <2>10
<1>46. ASSUME NEW over \in BOOLEAN,
              SizeMonitorFinds(over)
       PROVE  IInv'
  <2>1. Places'
    BY <1>46 DEF SizeMonitorFinds, Asked, Places
  <2>2. StoppedFinalized'
    BY <1>46 DEF SizeMonitorFinds, Asked, StoppedFinalized, Places, Flags, RunOrder, EOSOrder,
       StatusOrder, EvictedKnown
  <2>3. ReplayEndsLate'
    BY <1>46 DEF SizeMonitorFinds, Asked, ReplayEndsLate, Places, Flags, Marks, RunOrder,
       EOSOrder, StatusOrder
  <2>4. Flags'
    BY <1>46 DEF SizeMonitorFinds, Flags
  <2>5. States'
    BY <1>46 DEF SizeMonitorFinds, States
  <2>6. Marks'
    BY <1>46 DEF SizeMonitorFinds, Marks
  <2>7. RunOrder'
    BY <1>46 DEF SizeMonitorFinds, RunOrder
  <2>8. EOSOrder'
    BY <1>46 DEF SizeMonitorFinds, EOSOrder
  <2>9. StatusOrder'
    BY <1>46 DEF SizeMonitorFinds, StatusOrder
  <2>10. EvictedKnown'
    BY <1>46 DEF SizeMonitorFinds, EvictedKnown
  <2> QED BY <2>1, <2>2, <2>3, <2>4, <2>5, <2>6, <2>7, <2>8, <2>9, <2>10
<1>47. CASE StorageLimitSets
  <2>1. Places'
    BY <1>47 DEF StorageLimitSets, SetStatus, Places
  <2>2. Flags'
    BY <1>47 DEF StorageLimitSets, SetStatus, Flags
  <2>3. Marks'
    BY <1>47 DEF StorageLimitSets, SetStatus, Marks, Reporters
  <2>4. StatusOrder'
    BY <1>47 DEF StorageLimitSets, SetStatus, StatusOrder, Places, Flags, RunOrder, EOSOrder
  <2>5. StoppedFinalized'
    BY <1>47 DEF StorageLimitSets, SetStatus, StoppedFinalized, Places, Flags, RunOrder, EOSOrder,
       StatusOrder, EvictedKnown
  <2>6. ReplayEndsLate'
    BY <1>47 DEF StorageLimitSets, SetStatus, ReplayEndsLate, Places, Flags, Marks, RunOrder,
       EOSOrder, StatusOrder
  <2>7. States'
    BY <1>47 DEF StorageLimitSets, States
  <2>8. RunOrder'
    BY <1>47 DEF StorageLimitSets, RunOrder
  <2>9. EOSOrder'
    BY <1>47 DEF StorageLimitSets, EOSOrder
  <2>10. EvictedKnown'
    BY <1>47 DEF StorageLimitSets, EvictedKnown
  <2> QED BY <2>1, <2>2, <2>3, <2>4, <2>5, <2>6, <2>7, <2>8, <2>9, <2>10
<1>48. CASE StorageLimitEnds
  <2>1. Places'
    BY <1>48 DEF StorageLimitEnds, BeginEOS, Places
  <2>2. Flags'
    <3>1. probes' \in BOOLEAN /\ eosGo' \in BOOLEAN
      BY <1>48 DEF StorageLimitEnds, BeginEOS, Flags
    <3>2. UNCHANGED <<srcOpen, uploads, sinksClosed, eosFlow, atSinks, sinkEOS, eosReceived,
       watch, stopReq, stopped, loop, marked>>
      BY <1>48 DEF StorageLimitEnds
    <3> QED BY <3>1, <3>2 DEF Flags
  <2>3. EOSOrder'
    BY <1>48 DEF StorageLimitEnds, BeginEOS, EOSOrder, Places, Flags
  <2>4. StatusOrder'
    BY <1>48 DEF StorageLimitEnds, BeginEOS, StatusOrder, Places, Flags, RunOrder, EOSOrder
  <2>5. StoppedFinalized'
    BY <1>48 DEF StorageLimitEnds, BeginEOS, StoppedFinalized, Places, Flags, RunOrder, EOSOrder,
       StatusOrder, EvictedKnown
  <2>6. ReplayEndsLate'
    BY <1>48 DEF StorageLimitEnds, BeginEOS, ReplayEndsLate, Places, Flags, Marks, RunOrder,
       EOSOrder, StatusOrder
  <2>7. States'
    BY <1>48 DEF StorageLimitEnds, States
  <2>8. Marks'
    BY <1>48 DEF StorageLimitEnds, Marks
  <2>9. RunOrder'
    BY <1>48 DEF StorageLimitEnds, RunOrder
  <2>10. EvictedKnown'
    BY <1>48 DEF StorageLimitEnds, EvictedKnown
  <2> QED BY <2>1, <2>2, <2>3, <2>4, <2>5, <2>6, <2>7, <2>8, <2>9, <2>10
<1>49. CASE UNCHANGED vars
  BY <1>49 DEF vars, Places, Flags, States, Marks, RunOrder, EOSOrder, StatusOrder,
     StoppedFinalized, ReplayEndsLate, EvictedKnown
<1> QED BY <1>1, <1>2, <1>3, <1>4, <1>5, <1>6, <1>7, <1>8, <1>9, <1>10, <1>11, <1>12, <1>13,
   <1>14, <1>15, <1>16, <1>17, <1>18, <1>19, <1>20, <1>21, <1>22, <1>23, <1>24, <1>25, <1>26,
   <1>27, <1>28, <1>29, <1>30, <1>31, <1>32, <1>33, <1>34, <1>35, <1>36, <1>37, <1>38, <1>39,
   <1>40, <1>41, <1>42, <1>43, <1>44, <1>45, <1>46, <1>47, <1>48, <1>49 DEF Next, Exited, Hangs

-----------------------------------------------------------------------------
\* Every state of a run satisfies the invariant.
THEOREM InvariantHolds == Spec => []IInv
BY Initially, Inductive, PTL DEF Spec

\* What Controller.Run returns is true of the egress (SendEOS, updateStartTime, OnError, Close,
\* the limit timers): it is over, complete only if the EOS went through the muxers and nothing
\* failed or reached a limit, and a replay is not aborted by its own end; the exceptions are the
\* three goroutines that may write over a status they had not read, each named where it counts.
THEOREM ControllerReportIsTrue == Spec => []ReportIsTrue
<1>1. IInv => ReportIsTrue
  <2> SUFFICES ASSUME IInv PROVE ReportIsTrue
    OBVIOUS
  <2> USE DEF IInv, Types
  <2>1. TypeOK
    BY DEF Places, Flags, States, Marks, TypeOK
  <2>2. ReplayNotAborted
    BY DEF ReplayEndsLate, ReplayNotAborted
  <2>3. "eos" \notin lost => FinalStateAtReturn
    BY DEF StatusOrder, FinalStateAtReturn
  <2>4. lost = {} => FailureNotComplete
    BY DEF StatusOrder, FailureNotComplete, Final
  <2>5. lost \cap {"eos", "start"} = {} => CompleteIsFinalized
    BY DEF StoppedFinalized, Finalizes, CompleteIsFinalized
  <2> QED BY <2>1, <2>2, <2>3, <2>4, <2>5 DEF ReportIsTrue
<1> QED BY <1>1, InvariantHolds, PTL

\* An egress evicted by a duplicate neither uploads through its sinks nor reports a result
\* (Run's check of IsDuplicateIdentity after closing the source, Handler.Run).
THEOREM ControllerEvictedSilent == Spec => []EvictedStaysSilent
<1>1. IInv => EvictedStaysSilent
  BY DEF IInv, Types, Flags, EvictedKnown, EvictedStaysSilent
<1> QED BY <1>1, InvariantHolds, PTL

-----------------------------------------------------------------------------
(***************************************************************************)
(* Streams: the inductive invariants of its two parts.                     *)
(***************************************************************************)
\* The streams that fail are of the request and no call removes them, and the calls of
\* UpdateStream come one after another: otherwise one stream is counted down twice, or before
\* it is counted.
EndedOnce ==
    /\ Failing \subseteq Initial \ Removable
    /\ \A c, d \in Caller : c = d

\* The types, as the provers use them.
StreamStatuses == {"none", "active", "finished", "failed"}
CallPlaces == {"idle", "adds", "store", "sink", "inc", "removes", "finish", "dec", "load", "unlink"}
BusPlaces == {"idle", "found", "dec", "load", "unlink"}

OutputTypes ==
    /\ stat \in [Stream -> StreamStatuses]
    /\ started \subseteq Stream /\ sink \subseteq Stream /\ counted \subseteq Stream
    /\ streams \in [Url -> Stream \cup {NoStream}]
    /\ call \in [Caller -> [at : CallPlaces, s : Stream \cup {NoStream}]]
    /\ calls \in [Caller -> 0..MaxCalls]
    /\ bus \in [at : BusPlaces, s : Stream \cup {NoStream}]
    /\ eos \in BOOLEAN /\ failed \in BOOLEAN

\* OutputCount counts the other outputs and the streams that were counted.
Counts == count = Other + Cardinality(counted)

\* The stream is an output: it is counted and nobody has begun to end it.
Output(s) == s \in counted /\ stat[s] = "active" /\ streams[UrlOf[s]] = s

\* Where a call is with its stream.
CallHolds(c) ==
    LET s == call[c].s IN
    /\ call[c].at \in {"idle", "adds", "removes"} <=> s = NoStream
    /\ call[c].at = "store" => stat[s] = "none" /\ streams[UrlOf[s]] = NoStream
    /\ call[c].at \in {"sink", "inc"} => s \notin counted /\ stat[s] = "active" /\ s \notin Initial
                                           /\ streams[UrlOf[s]] = s
    /\ call[c].at = "finish" => s \in Removable /\ Output(s)
    /\ call[c].at = "dec" => s \in Removable \cap counted /\ stat[s] = "finished"
    /\ call[c].at \in {"load", "unlink"} => s \in Removable

\* Where the bus is with its stream.
BusHolds ==
    /\ bus.at = "idle" <=> bus.s = NoStream
    /\ bus.at # "idle" => ~failed /\ bus.s \in sink \cap Failing
    /\ bus.at = "found" => Output(bus.s)
    /\ bus.at = "dec" => bus.s \in counted /\ stat[bus.s] = "failed"

\* The map holds active streams, each under its url.
MapHolds ==
    \A u \in Url : streams[u] # NoStream =>
        /\ UrlOf[streams[u]] = u /\ stat[streams[u]] = "active"
        /\ \/ streams[u] \in counted
           \/ \E c \in Caller : call[c].at \in {"sink", "inc"} /\ call[c].s = streams[u]

\* A stream that is counted is an output, or somebody is about to count it down.
CountedHold ==
    \A s \in counted :
        \/ Output(s)
        \/ \E c \in Caller : call[c].at = "dec" /\ call[c].s = s
        \/ bus.at = "dec" /\ bus.s = s

\* The streams of the request exist.
InitialExist == \A s \in Initial : stat[s] # "none"

\* A stream that may fail is an output until it does.
FailingHold == \A s \in sink \cap Failing : failed \/ bus.s = s \/ Output(s)

\* Whoever counted the last output down sees it.
LastSeen ==
    count = 0 => eos \/ failed \/ bus.at = "load" \/ \E c \in Caller : call[c].at = "load"

OutputsInv ==
    /\ OutputTypes /\ Counts /\ \A c \in Caller : CallHolds(c)
    /\ BusHolds /\ MapHolds /\ CountedHold /\ InitialExist /\ FailingHold /\ LastSeen

\* The statistics of a connection and the places of its two goroutines.
ConnectionTypes ==
    /\ connected \in BOOLEAN /\ acked \in BOOLEAN /\ reconnections \in BOOLEAN /\ observed \in BOOLEAN
    /\ wedged \in BOOLEAN /\ ended \in BOOLEAN /\ fresh \in BOOLEAN /\ found \in BOOLEAN
    /\ bytes \in 0..MaxBytes /\ sample \in 0..MaxBytes /\ last \in 0..MaxBytes
    /\ errors \in 0..(MaxErrors + 1)
    /\ reset \in {"idle", "window", "restart"} /\ poll \in {"idle", "apply"}
    /\ down \in -1..(Idle + 1) /\ idle \in 0..(Idle + 1)
    /\ steady \in 0..2

\* The monitor adds one error at most, its baseline is the sample before, and of a steady
\* stream each sample is larger than the one before by the media sent in between.
Sampled ==
    /\ ~wedged => errors <= MaxErrors
    /\ poll = "apply" => ~wedged
    /\ poll = "idle" => last = sample
    /\ steady > 0 => bytes >= sample /\ (fresh => bytes >= sample + 2)
    /\ poll = "apply" /\ steady = 2 => sample >= last + 2

ConnectionInv == ConnectionTypes /\ Sampled

-----------------------------------------------------------------------------
(***************************************************************************)
(* The connection of a stream.                                             *)
(***************************************************************************)
LEMMA ConnectionStarts ==
    ASSUME Connection!Init  PROVE ConnectionInv
<1>1. /\ bytes = 0 /\ sample = 0 /\ last = 0 /\ errors = 0 /\ idle = 0 /\ steady = 0 /\ down = -1
      /\ reset = "idle" /\ poll = "idle"
  BY DEF Connection!Init
<1>2. /\ connected \in BOOLEAN /\ acked \in BOOLEAN /\ reconnections \in BOOLEAN /\ observed \in BOOLEAN
      /\ wedged \in BOOLEAN /\ ended \in BOOLEAN /\ fresh \in BOOLEAN /\ found \in BOOLEAN
  BY DEF Connection!Init
<1>3. QED
  BY <1>1, <1>2, LivenessAssumption DEF ConnectionInv, ConnectionTypes, Sampled

LEMMA ConnectionStays ==
    ASSUME ConnectionInv, UNCHANGED connectionVars  PROVE ConnectionInv'
BY DEF connectionVars, ConnectionInv, ConnectionTypes, Sampled

LEMMA SinkKeeps ==
    ASSUME ConnectionInv, Connection!Handshake \/ Connection!Sends \/ Connection!SinkFails
    PROVE  ConnectionInv'
<1>1. CASE Connection!Handshake
  BY <1>1, LivenessAssumption
  DEF ConnectionInv, ConnectionTypes, Sampled, Connection!Handshake, Connection!resetVars,
     Connection!pollVars
<1>2. CASE Connection!Sends
  <2>1. acked' \in BOOLEAN
    BY <1>2 DEF ConnectionInv, ConnectionTypes, Connection!Sends
  <2>2. QED
    BY <1>2, <2>1, LivenessAssumption
    DEF ConnectionInv, ConnectionTypes, Sampled, Connection!Sends, Connection!resetVars,
       Connection!pollVars
<1>3. CASE Connection!SinkFails
  <2>1. errors' \in 0..(MaxErrors + 1) /\ (~wedged' => errors' <= MaxErrors)
    BY <1>3, LivenessAssumption DEF ConnectionInv, ConnectionTypes, Connection!SinkFails
  <2>2. connected' \in BOOLEAN
    BY <1>3 DEF Connection!SinkFails
  <2>3. QED
    BY <1>3, <2>1, <2>2
    DEF ConnectionInv, ConnectionTypes, Sampled, Connection!SinkFails, Connection!resetVars,
       Connection!pollVars
<1>4. QED  BY <1>1, <1>2, <1>3

LEMMA ResetKeeps ==
    ASSUME ConnectionInv, Connection!Bus  PROVE ConnectionInv'
<1>1. CASE Connection!ResetStarts
  <2>1. /\ UNCHANGED <<connected, acked, bytes, sample, last, idle, poll, observed, wedged,
                       fresh, found, steady>>
        /\ errors > 0 /\ errors' = errors - 1 /\ reconnections' = reconnections
        /\ ended' \in {ended, TRUE} /\ reset' \in {"idle", "window", "restart"}
        /\ down' \in {down, 0}
    BY <1>1 DEF Connection!ResetStarts, Connection!GiveUp, Connection!sinkVars,
       Connection!pollVars
  <2>2. ended' \in BOOLEAN
    BY <2>1 DEF ConnectionInv, ConnectionTypes
  <2>3. down' \in -1..(Idle + 1) /\ errors' \in 0..(MaxErrors + 1) /\ errors' <= errors
    BY <2>1, LivenessAssumption DEF ConnectionInv, ConnectionTypes
  <2>4. ConnectionTypes'
    BY <2>1, <2>2, <2>3 DEF ConnectionInv, ConnectionTypes
  <2>5. Sampled'
    BY <2>1, <2>3, LivenessAssumption DEF ConnectionInv, ConnectionTypes, Sampled
  <2>6. QED  BY <2>4, <2>5 DEF ConnectionInv
<1>2. CASE Connection!ResetWindow
  <2>1. /\ UNCHANGED <<connected, acked, bytes, sample, last, idle, poll, observed, wedged,
                       fresh, found, steady>>
        /\ UNCHANGED <<errors, reconnections, down>>
        /\ ended' \in {ended, TRUE} /\ reset' \in {"idle", "window", "restart"}
    BY <1>2 DEF Connection!ResetWindow, Connection!GiveUp, Connection!sinkVars,
       Connection!pollVars
  <2>2. ended' \in BOOLEAN
    BY <2>1 DEF ConnectionInv, ConnectionTypes
  <2>3. ConnectionTypes'
    BY <2>1, <2>2 DEF ConnectionInv, ConnectionTypes
  <2>4. Sampled'
    BY <2>1 DEF ConnectionInv, Sampled
  <2>5. QED  BY <2>3, <2>4 DEF ConnectionInv
<1>3. CASE Connection!ResetRestarts
  <2>1. /\ UNCHANGED <<sample, last, idle, poll, observed, wedged, found, errors, down>>
        /\ reconnections' \in {reconnections, TRUE} /\ ended' \in {ended, TRUE} /\ reset' = "idle"
        /\ \/ connected' = FALSE /\ bytes' = 0 /\ acked' = FALSE /\ fresh' = FALSE /\ steady' = 0
           \/ UNCHANGED <<connected, acked, bytes, fresh, steady>>
    BY <1>3 DEF Connection!ResetRestarts, Connection!GiveUp, Connection!sinkVars,
       Connection!pollVars
  <2>2. /\ ended' \in BOOLEAN /\ reconnections' \in BOOLEAN
        /\ connected' \in BOOLEAN /\ acked' \in BOOLEAN /\ fresh' \in BOOLEAN
    BY <2>1 DEF ConnectionInv, ConnectionTypes
  <2>3. \/ bytes' = 0 /\ steady' = 0
        \/ UNCHANGED <<bytes, steady, fresh>>
    BY <2>1
  <2>4. ConnectionTypes'
    BY <2>1, <2>2, <2>3, LivenessAssumption DEF ConnectionInv, ConnectionTypes
  <2>5. Sampled'
    BY <2>1, <2>3 DEF ConnectionInv, ConnectionTypes, Sampled
  <2>6. QED  BY <2>4, <2>5 DEF ConnectionInv
<1>4. QED  BY <1>1, <1>2, <1>3 DEF Connection!Bus

\* A steady stream has sent more than the threshold between its last two samples.
LEMMA SteadyProgresses ==
    ASSUME ConnectionInv, poll = "apply", steady = 2  PROVE Connection!RealProgress
BY LivenessAssumption
DEF ConnectionInv, ConnectionTypes, Sampled, Connection!RealProgress, Connection!Threshold

LEMMA MonitorKeeps ==
    ASSUME ConnectionInv, Connection!Monitor  PROVE ConnectionInv'
<1>1. CASE Connection!PollReads
  <2>1. idle' \in 0..(Idle + 1) /\ down' \in -1..(Idle + 1)
    BY <1>1, LivenessAssumption
    DEF ConnectionInv, ConnectionTypes, Connection!PollReads, Connection!AtMost
  <2>2. steady' \in 0..2 /\ (steady' = 2 => fresh /\ steady > 0)
    BY <1>1 DEF ConnectionInv, ConnectionTypes, Connection!PollReads, Connection!AtMost
  <2>3. fresh' \in BOOLEAN /\ found' \in BOOLEAN /\ ~fresh'
    BY <1>1 DEF ConnectionInv, ConnectionTypes, Connection!PollReads
  <2>4. /\ UNCHANGED <<connected, acked, bytes, errors, reset, reconnections, observed, wedged,
                       last, ended>>
        /\ poll = "idle" /\ poll' = "apply" /\ sample' = bytes /\ ~wedged
    BY <1>1 DEF Connection!PollReads, Connection!sinkVars
  <2>5. ConnectionTypes'
    BY <2>1, <2>2, <2>3, <2>4 DEF ConnectionInv, ConnectionTypes
  <2>6. Sampled'
    BY <2>2, <2>3, <2>4 DEF ConnectionInv, ConnectionTypes, Sampled
  <2>7. QED  BY <2>5, <2>6 DEF ConnectionInv
<1>2. CASE Connection!PollApplies
  <2>1. /\ UNCHANGED <<connected, acked, bytes, reset, sample, ended, fresh, found, steady>>
        /\ poll' = "idle" /\ last' = sample /\ poll = "apply"
    BY <1>2 DEF Connection!PollApplies, Connection!sinkVars
  <2>2. idle' \in 0..(Idle + 1) /\ down' \in -1..(Idle + 1)
    BY <1>2, LivenessAssumption DEF ConnectionInv, ConnectionTypes, Connection!PollApplies
  <2>3. observed' \in BOOLEAN /\ reconnections' \in BOOLEAN
    BY <1>2 DEF ConnectionInv, ConnectionTypes, Connection!PollApplies
  <2>4. \/ wedged' = TRUE /\ errors' = errors + 1
        \/ wedged' = wedged /\ errors' = errors
    BY <1>2 DEF Connection!PollApplies
  <2>5. errors <= MaxErrors /\ errors \in Nat /\ ~wedged
    BY <2>1 DEF ConnectionInv, ConnectionTypes, Sampled
  <2>6. errors' \in 0..(MaxErrors + 1) /\ wedged' \in BOOLEAN /\ (~wedged' => errors' <= MaxErrors)
    <3>1. CASE wedged' = TRUE /\ errors' = errors + 1
      BY <2>5, <3>1, LivenessAssumption
    <3>2. CASE wedged' = wedged /\ errors' = errors
      BY <2>5, <3>2, LivenessAssumption DEF ConnectionInv, ConnectionTypes
    <3>3. QED  BY <2>4, <3>1, <3>2
  <2>7. ConnectionTypes'
    BY <2>1, <2>2, <2>3, <2>6 DEF ConnectionInv, ConnectionTypes
  <2>8. Sampled'
    BY <2>1, <2>6 DEF ConnectionInv, ConnectionTypes, Sampled
  <2>9. QED  BY <2>7, <2>8 DEF ConnectionInv
<1>3. QED  BY <1>1, <1>2 DEF Connection!Monitor

LEMMA ConnectionKeeps ==
    ASSUME ConnectionInv, Connection!Next  PROVE ConnectionInv'
BY SinkKeeps, ResetKeeps, MonitorKeeps DEF Connection!Next

LEMMA ConnectionHolds == StreamsSpec => []ConnectionInv
<1>1. StreamsInit => ConnectionInv
  BY ConnectionStarts DEF StreamsInit
<1>2. ConnectionInv /\ [StreamsNext]_streamsVars => ConnectionInv'
  BY ConnectionStays, ConnectionKeeps DEF StreamsNext, OutputsMove, ConnectionMoves, streamsVars
<1>3. QED  BY <1>1, <1>2, PTL DEF StreamsSpec

LEMMA SteadyStep ==
    ASSUME ConnectionInv, [StreamsNext]_streamsVars
    PROVE  [(wedged' /\ ~wedged) => steady < 2]_(Connection!vars)
<1>1. CASE UNCHANGED connectionVars
  BY <1>1 DEF connectionVars, Connection!vars, Connection!sinkVars, Connection!resetVars,
     Connection!pollVars
<1>2. CASE Connection!Next
  <2>1. SUFFICES ASSUME wedged', ~wedged  PROVE steady < 2
    OBVIOUS
  <2>2. Connection!PollApplies
    BY <1>2, <2>1 DEF Connection!Next, Connection!Bus, Connection!Monitor, Connection!Handshake,
       Connection!Sends,
       Connection!SinkFails, Connection!ResetStarts, Connection!ResetWindow, Connection!ResetRestarts, Connection!PollReads
  <2>3. poll = "apply" /\ ~Connection!RealProgress
    BY <2>1, <2>2 DEF Connection!PollApplies, Connection!Silent
  <2>4. steady # 2 /\ steady \in 0..2
    BY <2>3, SteadyProgresses DEF ConnectionInv, ConnectionTypes
  <2>5. QED  BY <2>4
<1>3. QED  BY <1>1, <1>2 DEF StreamsNext, OutputsMove, ConnectionMoves, streamsVars

(***************************************************************************)
(* The monitor does not fail a stream that sent media over one connection  *)
(* before each of its last two polls, for every timeout and every bound on *)
(* the bytes and the errors (evaluateLiveness, Reset).                     *)
(***************************************************************************)
THEOREM SteadyStreamsStay == StreamsSpec => SteadyStreamStays
<1>1. ConnectionInv /\ [StreamsNext]_streamsVars => [(wedged' /\ ~wedged) => steady < 2]_(Connection!vars)
  BY SteadyStep
<1>2. QED  BY <1>1, ConnectionHolds, PTL DEF StreamsSpec, SteadyStreamStays, Connection!SteadyNotFailed

-----------------------------------------------------------------------------
(***************************************************************************)
(* The outputs.                                                            *)
(***************************************************************************)
LEMMA CountedFinite ==
    ASSUME OutputTypes  PROVE IsFiniteSet(counted) /\ Cardinality(counted) \in Nat
BY StreamsAssumption, FS_Subset, FS_CardinalityType DEF OutputTypes

LEMMA CountOfNone ==
    ASSUME OutputTypes, Counts  PROVE count \in Nat /\ (count = 0 => Other = 0 /\ counted = {})
<1>1. IsFiniteSet(counted) /\ Cardinality(counted) \in Nat  BY CountedFinite
<1>2. count \in Nat /\ (count = 0 => Other = 0 /\ Cardinality(counted) = 0)
  BY <1>1, StreamsAssumption DEF Counts
<1>3. QED  BY <1>1, <1>2, FS_EmptySet

LEMMA CountsUp ==
    ASSUME OutputTypes, Counts, NEW s, s \notin counted, count' = count + 1, counted' = counted \cup {s}
    PROVE  Counts'
<1>1. Cardinality(counted \cup {s}) = Cardinality(counted) + 1
  BY CountedFinite, FS_AddElement
<1>2. QED  BY <1>1, CountedFinite, StreamsAssumption DEF Counts

LEMMA CountsDown ==
    ASSUME OutputTypes, Counts, NEW s \in counted, count' = count - 1, counted' = counted \ {s}
    PROVE  Counts'
<1>1. Cardinality(counted \ {s}) = Cardinality(counted) - 1
  BY CountedFinite, FS_RemoveElement
<1>2. QED  BY <1>1, CountedFinite, StreamsAssumption DEF Counts

\* Goto moves the call of one goroutine.
LEMMA GotoSets ==
    ASSUME OutputTypes, NEW c \in Caller, NEW where \in CallPlaces, NEW s \in Stream \cup {NoStream},
           Outputs!Goto(c, where, s)
    PROVE  /\ call' \in [Caller -> [at : CallPlaces, s : Stream \cup {NoStream}]]
           /\ call'[c].at = where /\ call'[c].s = s
BY DEF OutputTypes, Outputs!Goto

LEMMA CallTyped ==
    ASSUME OutputTypes, NEW c \in Caller
    PROVE  call[c].at \in CallPlaces /\ call[c].s \in Stream \cup {NoStream}
BY DEF OutputTypes

LEMMA BeginKeeps ==
    ASSUME EndedOnce, OutputsInv, NEW c \in Caller, Outputs!Begin(c)
    PROVE  OutputsInv'
<1>1. /\ UNCHANGED <<stat, started, streams, sink, count, bus, eos, failed, counted>>
      /\ call[c].at = "idle"
      /\ call' \in [Caller -> [at : CallPlaces, s : Stream \cup {NoStream}]]
      /\ call'[c].at = "adds" /\ call'[c].s = NoStream
      /\ calls[c] < MaxCalls /\ calls' = [calls EXCEPT ![c] = @ + 1]
  BY CallTyped, GotoSets
  DEF OutputsInv, CallPlaces, Outputs!Begin, Outputs!streamVars, Outputs!endVars
<1>2. \A d \in Caller : d = c
  BY DEF EndedOnce
<1>3. OutputTypes'
  BY <1>1, <1>2, StreamsAssumption
  DEF OutputsInv, OutputTypes, CallPlaces, BusPlaces, StreamStatuses
<1>4. Counts'
  BY <1>1 DEF OutputsInv, Counts
<1>5. CallHolds(c)'
  BY <1>1, <1>2, StreamsAssumption DEF OutputsInv, OutputTypes, CallHolds, Output, MapHolds
<1>6. BusHolds'
  BY <1>1, <1>2, StreamsAssumption
  DEF OutputsInv, OutputTypes, CallHolds, BusHolds, Output, EndedOnce
<1>7. MapHolds'
  BY <1>1, <1>2, StreamsAssumption DEF OutputsInv, OutputTypes, CallHolds, MapHolds, Output
<1>8. CountedHold'
  BY <1>1, <1>2, StreamsAssumption DEF OutputsInv, OutputTypes, CallHolds, CountedHold, Output
<1>9. InitialExist'
  BY <1>1, StreamsAssumption DEF OutputsInv, OutputTypes, InitialExist
<1>10. FailingHold'
  BY <1>1, <1>2, StreamsAssumption
  DEF OutputsInv, OutputTypes, CallHolds, FailingHold, Output, EndedOnce
<1>11. LastSeen'
  BY <1>1, <1>2, CountOfNone DEF OutputsInv, LastSeen
<1>12. QED
  BY <1>2, <1>3, <1>4, <1>5, <1>6, <1>7, <1>8, <1>9, <1>10, <1>11 DEF OutputsInv

LEMMA AddChecksKeeps ==
    ASSUME EndedOnce, OutputsInv, NEW c \in Caller, NEW s \in Stream, Outputs!AddChecks(c, s)
    PROVE  OutputsInv'
<1>1. /\ UNCHANGED <<stat, started, streams, sink, count, calls, bus, eos, failed, counted>>
      /\ call[c].at = "adds"
      /\ call' \in [Caller -> [at : CallPlaces, s : Stream \cup {NoStream}]]
      /\ call'[c].at = "store" /\ call'[c].s = s
      /\ stat[s] = "none" /\ streams[UrlOf[s]] = NoStream
  BY CallTyped, GotoSets
  DEF OutputsInv, CallPlaces, Outputs!AddChecks, Outputs!streamVars, Outputs!endVars
<1>2. \A d \in Caller : d = c
  BY DEF EndedOnce
<1>3. OutputTypes'
  BY <1>1, <1>2, StreamsAssumption
  DEF OutputsInv, OutputTypes, CallPlaces, BusPlaces, StreamStatuses
<1>4. Counts'
  BY <1>1 DEF OutputsInv, Counts
<1>5. CallHolds(c)'
  BY <1>1, <1>2, StreamsAssumption DEF OutputsInv, OutputTypes, CallHolds, Output, MapHolds
<1>6. BusHolds'
  BY <1>1, <1>2, StreamsAssumption
  DEF OutputsInv, OutputTypes, CallHolds, BusHolds, Output, EndedOnce
<1>7. MapHolds'
  BY <1>1, <1>2, StreamsAssumption DEF OutputsInv, OutputTypes, CallHolds, MapHolds, Output
<1>8. CountedHold'
  BY <1>1, <1>2, StreamsAssumption DEF OutputsInv, OutputTypes, CallHolds, CountedHold, Output
<1>9. InitialExist'
  BY <1>1, StreamsAssumption DEF OutputsInv, OutputTypes, InitialExist
<1>10. FailingHold'
  BY <1>1, <1>2, StreamsAssumption
  DEF OutputsInv, OutputTypes, CallHolds, FailingHold, Output, EndedOnce
<1>11. LastSeen'
  BY <1>1, <1>2, CountOfNone DEF OutputsInv, LastSeen
<1>12. QED
  BY <1>2, <1>3, <1>4, <1>5, <1>6, <1>7, <1>8, <1>9, <1>10, <1>11 DEF OutputsInv

LEMMA AddStoresKeeps ==
    ASSUME EndedOnce, OutputsInv, NEW c \in Caller, Outputs!AddStores(c)
    PROVE  OutputsInv'
<1>1. /\ UNCHANGED <<sink, count, calls, bus, eos, failed, counted>>
      /\ call[c].at = "store"
      /\ call' \in [Caller -> [at : CallPlaces, s : Stream \cup {NoStream}]]
      /\ call'[c].at = "sink" /\ call'[c].s = call[c].s
      /\ stat' = [stat EXCEPT ![call[c].s] = "active"]
      /\ started' \in {started, started \cup {call[c].s}}
      /\ streams' = [streams EXCEPT ![UrlOf[call[c].s]] = call[c].s]
  BY CallTyped, GotoSets
  DEF OutputsInv, CallPlaces, Outputs!AddStores, Outputs!streamVars, Outputs!endVars
<1>2. \A d \in Caller : d = c
  BY DEF EndedOnce
<1>3. OutputTypes'
  <2>1. call[c].s \in Stream
    BY <1>1, CallTyped DEF OutputsInv, CallHolds
  <2>2. UrlOf[call[c].s] \in Url
    BY <2>1, StreamsAssumption
  <2>3. stat' \in [Stream -> StreamStatuses]
    BY <1>1, <2>1 DEF OutputsInv, OutputTypes, StreamStatuses
  <2>4. streams' \in [Url -> Stream \cup {NoStream}]
    BY <1>1, <2>1, <2>2 DEF OutputsInv, OutputTypes
  <2>5. started' \subseteq Stream /\ sink' \subseteq Stream
    BY <1>1, <2>1 DEF OutputsInv, OutputTypes
  <2>6. QED
    BY <1>1, <2>3, <2>4, <2>5 DEF OutputsInv, OutputTypes
<1>4. Counts'
  BY <1>1 DEF OutputsInv, Counts
<1>5. CallHolds(c)'
  <2>1. call[c].s \in Stream /\ stat[call[c].s] = "none" /\ UrlOf[call[c].s] \in Url
    BY <1>1, CallTyped, StreamsAssumption DEF OutputsInv, CallHolds
  <2>2. call[c].s \notin Initial
    BY <2>1 DEF OutputsInv, InitialExist
  <2>3. call[c].s \notin counted
    BY <1>1, <1>2, <2>1 DEF OutputsInv, CountedHold, Output, BusHolds
  <2>4. stat'[call[c].s] = "active" /\ streams'[UrlOf[call[c].s]] = call[c].s
    BY <1>1, <2>1 DEF OutputsInv, OutputTypes
  <2>5. QED
    BY <1>1, <2>1, <2>2, <2>3, <2>4, StreamsAssumption DEF CallHolds
<1>6. BusHolds'
  BY <1>1, <1>2, StreamsAssumption
  DEF OutputsInv, OutputTypes, CallHolds, BusHolds, Output, EndedOnce
<1>7. MapHolds'
  BY <1>1, <1>2, StreamsAssumption DEF OutputsInv, OutputTypes, CallHolds, MapHolds, Output
<1>8. CountedHold'
  BY <1>1, <1>2, StreamsAssumption DEF OutputsInv, OutputTypes, CallHolds, CountedHold, Output
<1>9. InitialExist'
  BY <1>1, StreamsAssumption DEF OutputsInv, OutputTypes, InitialExist
<1>10. FailingHold'
  BY <1>1, <1>2, StreamsAssumption
  DEF OutputsInv, OutputTypes, CallHolds, FailingHold, Output, EndedOnce
<1>11. LastSeen'
  BY <1>1, <1>2, CountOfNone DEF OutputsInv, LastSeen
<1>12. QED
  BY <1>2, <1>3, <1>4, <1>5, <1>6, <1>7, <1>8, <1>9, <1>10, <1>11 DEF OutputsInv

LEMMA AddSinksKeeps ==
    ASSUME EndedOnce, OutputsInv, NEW c \in Caller, Outputs!AddSinks(c)
    PROVE  OutputsInv'
<1>1. /\ UNCHANGED <<stat, started, streams, count, calls, bus, eos, failed, counted>>
      /\ call[c].at = "sink"
      /\ call' \in [Caller -> [at : CallPlaces, s : Stream \cup {NoStream}]]
      /\ call'[c].at = "inc" /\ call'[c].s = call[c].s
      /\ sink' = sink \cup {call[c].s}
  BY CallTyped, GotoSets
  DEF OutputsInv, CallPlaces, Outputs!AddSinks, Outputs!streamVars, Outputs!endVars
<1>2. \A d \in Caller : d = c
  BY DEF EndedOnce
<1>3. OutputTypes'
  <2>1. call[c].s \in Stream
    BY <1>1, CallTyped DEF OutputsInv, CallHolds
  <2>2. QED
    BY <1>1, <2>1, StreamsAssumption
    DEF OutputsInv, OutputTypes, CallPlaces, BusPlaces, StreamStatuses
<1>4. Counts'
  BY <1>1 DEF OutputsInv, Counts
<1>5. CallHolds(c)'
  BY <1>1, <1>2, StreamsAssumption DEF OutputsInv, OutputTypes, CallHolds, Output, MapHolds
<1>6. BusHolds'
  BY <1>1, <1>2, StreamsAssumption
  DEF OutputsInv, OutputTypes, CallHolds, BusHolds, Output, EndedOnce
<1>7. MapHolds'
  BY <1>1, <1>2, StreamsAssumption DEF OutputsInv, OutputTypes, CallHolds, MapHolds, Output
<1>8. CountedHold'
  BY <1>1, <1>2, StreamsAssumption DEF OutputsInv, OutputTypes, CallHolds, CountedHold, Output
<1>9. InitialExist'
  BY <1>1, StreamsAssumption DEF OutputsInv, OutputTypes, InitialExist
<1>10. FailingHold'
  BY <1>1, <1>2, StreamsAssumption
  DEF OutputsInv, OutputTypes, CallHolds, FailingHold, Output, EndedOnce
<1>11. LastSeen'
  BY <1>1, <1>2, CountOfNone DEF OutputsInv, LastSeen
<1>12. QED
  BY <1>2, <1>3, <1>4, <1>5, <1>6, <1>7, <1>8, <1>9, <1>10, <1>11 DEF OutputsInv

LEMMA AddFailsKeeps ==
    ASSUME EndedOnce, OutputsInv, NEW c \in Caller, Outputs!AddFails(c)
    PROVE  OutputsInv'
<1>1. /\ UNCHANGED <<count, calls, bus, eos, failed, counted>>
      /\ call[c].at = "sink"
      /\ call' \in [Caller -> [at : CallPlaces, s : Stream \cup {NoStream}]]
      /\ call'[c].at = "adds" /\ call'[c].s = NoStream
      /\ sink' \in {sink, sink \cup {call[c].s}}
      /\ stat' = [stat EXCEPT ![call[c].s] = "failed"]
      /\ started' = started \cup {call[c].s}
      /\ streams' = [streams EXCEPT ![UrlOf[call[c].s]] = NoStream]
  BY CallTyped, GotoSets
  DEF OutputsInv, CallPlaces, Outputs!AddFails, Outputs!streamVars, Outputs!endVars,
     Outputs!Delete
<1>2. \A d \in Caller : d = c
  BY DEF EndedOnce
<1>3. OutputTypes'
  <2>1. call[c].s \in Stream
    BY <1>1, CallTyped DEF OutputsInv, CallHolds
  <2>2. UrlOf[call[c].s] \in Url
    BY <2>1, StreamsAssumption
  <2>3. stat' \in [Stream -> StreamStatuses]
    BY <1>1, <2>1 DEF OutputsInv, OutputTypes, StreamStatuses
  <2>4. streams' \in [Url -> Stream \cup {NoStream}]
    BY <1>1, <2>1, <2>2 DEF OutputsInv, OutputTypes
  <2>5. started' \subseteq Stream /\ sink' \subseteq Stream
    BY <1>1, <2>1 DEF OutputsInv, OutputTypes
  <2>6. QED
    BY <1>1, <2>3, <2>4, <2>5 DEF OutputsInv, OutputTypes
<1>4. Counts'
  BY <1>1 DEF OutputsInv, Counts
<1>5. CallHolds(c)'
  BY <1>1, <1>2, StreamsAssumption DEF OutputsInv, OutputTypes, CallHolds, Output, MapHolds
<1>6. BusHolds'
  BY <1>1, <1>2, StreamsAssumption
  DEF OutputsInv, OutputTypes, CallHolds, BusHolds, Output, EndedOnce
<1>7. MapHolds'
  BY <1>1, <1>2, StreamsAssumption DEF OutputsInv, OutputTypes, CallHolds, MapHolds, Output
<1>8. CountedHold'
  BY <1>1, <1>2, StreamsAssumption DEF OutputsInv, OutputTypes, CallHolds, CountedHold, Output
<1>9. InitialExist'
  BY <1>1, StreamsAssumption DEF OutputsInv, OutputTypes, InitialExist
<1>10. FailingHold'
  BY <1>1, <1>2, StreamsAssumption
  DEF OutputsInv, OutputTypes, CallHolds, FailingHold, Output, EndedOnce
<1>11. LastSeen'
  BY <1>1, <1>2, CountOfNone DEF OutputsInv, LastSeen
<1>12. QED
  BY <1>2, <1>3, <1>4, <1>5, <1>6, <1>7, <1>8, <1>9, <1>10, <1>11 DEF OutputsInv

LEMMA AddIncsKeeps ==
    ASSUME EndedOnce, OutputsInv, NEW c \in Caller, Outputs!AddIncs(c)
    PROVE  OutputsInv'
<1>1. /\ UNCHANGED <<stat, started, streams, sink, calls, bus, eos, failed>>
      /\ call[c].at = "inc"
      /\ call' \in [Caller -> [at : CallPlaces, s : Stream \cup {NoStream}]]
      /\ call'[c].at = "adds" /\ call'[c].s = NoStream
      /\ count' = count + 1 /\ counted' = counted \cup {call[c].s}
  BY CallTyped, GotoSets
  DEF OutputsInv, CallPlaces, Outputs!AddIncs, Outputs!streamVars, Outputs!endVars
<1>2. \A d \in Caller : d = c
  BY DEF EndedOnce
<1>3. OutputTypes'
  <2>1. call[c].s \in Stream
    BY <1>1, CallTyped DEF OutputsInv, CallHolds
  <2>2. QED
    BY <1>1, <2>1, StreamsAssumption
    DEF OutputsInv, OutputTypes, CallPlaces, BusPlaces, StreamStatuses
<1>4. Counts'
  BY <1>1, CountsUp DEF OutputsInv, CallHolds
<1>5. CallHolds(c)'
  BY <1>1, <1>2, StreamsAssumption DEF OutputsInv, OutputTypes, CallHolds, Output, MapHolds
<1>6. BusHolds'
  BY <1>1, <1>2, StreamsAssumption
  DEF OutputsInv, OutputTypes, CallHolds, BusHolds, Output, EndedOnce
<1>7. MapHolds'
  BY <1>1, <1>2, StreamsAssumption DEF OutputsInv, OutputTypes, CallHolds, MapHolds, Output
<1>8. CountedHold'
  BY <1>1, <1>2, StreamsAssumption DEF OutputsInv, OutputTypes, CallHolds, CountedHold, Output
<1>9. InitialExist'
  BY <1>1, StreamsAssumption DEF OutputsInv, OutputTypes, InitialExist
<1>10. FailingHold'
  BY <1>1, <1>2, StreamsAssumption
  DEF OutputsInv, OutputTypes, CallHolds, FailingHold, Output, EndedOnce
<1>11. LastSeen'
  BY <1>1, <1>2, CountOfNone DEF OutputsInv, LastSeen
<1>12. QED
  BY <1>2, <1>3, <1>4, <1>5, <1>6, <1>7, <1>8, <1>9, <1>10, <1>11 DEF OutputsInv

LEMMA AddsDoneKeeps ==
    ASSUME EndedOnce, OutputsInv, NEW c \in Caller, Outputs!AddsDone(c)
    PROVE  OutputsInv'
<1>1. /\ UNCHANGED <<stat, started, streams, sink, count, calls, bus, eos, failed, counted>>
      /\ call[c].at = "adds"
      /\ call' \in [Caller -> [at : CallPlaces, s : Stream \cup {NoStream}]]
      /\ call'[c].at = "removes" /\ call'[c].s = NoStream
  BY CallTyped, GotoSets
  DEF OutputsInv, CallPlaces, Outputs!AddsDone, Outputs!streamVars, Outputs!endVars
<1>2. \A d \in Caller : d = c
  BY DEF EndedOnce
<1>3. OutputTypes'
  BY <1>1, <1>2, StreamsAssumption
  DEF OutputsInv, OutputTypes, CallPlaces, BusPlaces, StreamStatuses
<1>4. Counts'
  BY <1>1 DEF OutputsInv, Counts
<1>5. CallHolds(c)'
  BY <1>1, <1>2, StreamsAssumption DEF OutputsInv, OutputTypes, CallHolds, Output, MapHolds
<1>6. BusHolds'
  BY <1>1, <1>2, StreamsAssumption
  DEF OutputsInv, OutputTypes, CallHolds, BusHolds, Output, EndedOnce
<1>7. MapHolds'
  BY <1>1, <1>2, StreamsAssumption DEF OutputsInv, OutputTypes, CallHolds, MapHolds, Output
<1>8. CountedHold'
  BY <1>1, <1>2, StreamsAssumption DEF OutputsInv, OutputTypes, CallHolds, CountedHold, Output
<1>9. InitialExist'
  BY <1>1, StreamsAssumption DEF OutputsInv, OutputTypes, InitialExist
<1>10. FailingHold'
  BY <1>1, <1>2, StreamsAssumption
  DEF OutputsInv, OutputTypes, CallHolds, FailingHold, Output, EndedOnce
<1>11. LastSeen'
  BY <1>1, <1>2, CountOfNone DEF OutputsInv, LastSeen
<1>12. QED
  BY <1>2, <1>3, <1>4, <1>5, <1>6, <1>7, <1>8, <1>9, <1>10, <1>11 DEF OutputsInv

LEMMA GetStreamKeeps ==
    ASSUME EndedOnce, OutputsInv, NEW c \in Caller, NEW u \in Url, Outputs!GetStream(c, u)
    PROVE  OutputsInv'
<1>1. /\ UNCHANGED <<stat, started, streams, sink, count, calls, bus, eos, failed, counted>>
      /\ call[c].at = "removes"
      /\ call' \in [Caller -> [at : CallPlaces, s : Stream \cup {NoStream}]]
      /\ call'[c].at = "finish" /\ call'[c].s = streams[u]
      /\ streams[u] \in Removable
  BY CallTyped, GotoSets, StreamsAssumption
  DEF OutputsInv, CallPlaces, Outputs!GetStream, Outputs!streamVars, Outputs!endVars
<1>2. \A d \in Caller : d = c
  BY DEF EndedOnce
<1>3. OutputTypes'
  BY <1>1, <1>2, StreamsAssumption
  DEF OutputsInv, OutputTypes, CallPlaces, BusPlaces, StreamStatuses
<1>4. Counts'
  BY <1>1 DEF OutputsInv, Counts
<1>5. CallHolds(c)'
  BY <1>1, <1>2, StreamsAssumption DEF OutputsInv, OutputTypes, CallHolds, Output, MapHolds
<1>6. BusHolds'
  BY <1>1, <1>2, StreamsAssumption
  DEF OutputsInv, OutputTypes, CallHolds, BusHolds, Output, EndedOnce
<1>7. MapHolds'
  BY <1>1, <1>2, StreamsAssumption DEF OutputsInv, OutputTypes, CallHolds, MapHolds, Output
<1>8. CountedHold'
  BY <1>1, <1>2, StreamsAssumption DEF OutputsInv, OutputTypes, CallHolds, CountedHold, Output
<1>9. InitialExist'
  BY <1>1, StreamsAssumption DEF OutputsInv, OutputTypes, InitialExist
<1>10. FailingHold'
  BY <1>1, <1>2, StreamsAssumption
  DEF OutputsInv, OutputTypes, CallHolds, FailingHold, Output, EndedOnce
<1>11. LastSeen'
  BY <1>1, <1>2, CountOfNone DEF OutputsInv, LastSeen
<1>12. QED
  BY <1>2, <1>3, <1>4, <1>5, <1>6, <1>7, <1>8, <1>9, <1>10, <1>11 DEF OutputsInv

LEMMA FinishesKeeps ==
    ASSUME EndedOnce, OutputsInv, NEW c \in Caller, Outputs!Finishes(c)
    PROVE  OutputsInv'
<1>1. /\ UNCHANGED <<sink, count, calls, bus, eos, failed, counted>>
      /\ call[c].at = "finish"
      /\ call' \in [Caller -> [at : CallPlaces, s : Stream \cup {NoStream}]]
      /\ call'[c].at = "dec" /\ call'[c].s = call[c].s
      /\ stat' = [stat EXCEPT ![call[c].s] = "finished"]
      /\ started' = started \cup {call[c].s}
      /\ streams' = [streams EXCEPT ![UrlOf[call[c].s]] = NoStream]
  BY CallTyped, GotoSets
  DEF OutputsInv, CallPlaces, Outputs!Finishes, Outputs!streamVars, Outputs!endVars,
     Outputs!Delete, Outputs!Ends
<1>2. \A d \in Caller : d = c
  BY DEF EndedOnce
<1>3. OutputTypes'
  <2>1. call[c].s \in Stream
    BY <1>1, CallTyped DEF OutputsInv, CallHolds
  <2>2. UrlOf[call[c].s] \in Url
    BY <2>1, StreamsAssumption
  <2>3. stat' \in [Stream -> StreamStatuses]
    BY <1>1, <2>1 DEF OutputsInv, OutputTypes, StreamStatuses
  <2>4. streams' \in [Url -> Stream \cup {NoStream}]
    BY <1>1, <2>1, <2>2 DEF OutputsInv, OutputTypes
  <2>5. started' \subseteq Stream /\ sink' \subseteq Stream
    BY <1>1, <2>1 DEF OutputsInv, OutputTypes
  <2>6. QED
    BY <1>1, <2>3, <2>4, <2>5 DEF OutputsInv, OutputTypes
<1>4. Counts'
  BY <1>1 DEF OutputsInv, Counts
<1>5. CallHolds(c)'
  BY <1>1, <1>2, StreamsAssumption DEF OutputsInv, OutputTypes, CallHolds, Output, MapHolds
<1>6. BusHolds'
  BY <1>1, <1>2, StreamsAssumption
  DEF OutputsInv, OutputTypes, CallHolds, BusHolds, Output, EndedOnce
<1>7. MapHolds'
  BY <1>1, <1>2, StreamsAssumption DEF OutputsInv, OutputTypes, CallHolds, MapHolds, Output
<1>8. CountedHold'
  BY <1>1, <1>2, StreamsAssumption DEF OutputsInv, OutputTypes, CallHolds, CountedHold, Output
<1>9. InitialExist'
  BY <1>1, StreamsAssumption DEF OutputsInv, OutputTypes, InitialExist
<1>10. FailingHold'
  BY <1>1, <1>2, StreamsAssumption
  DEF OutputsInv, OutputTypes, CallHolds, FailingHold, Output, EndedOnce
<1>11. LastSeen'
  BY <1>1, <1>2, CountOfNone DEF OutputsInv, LastSeen
<1>12. QED
  BY <1>2, <1>3, <1>4, <1>5, <1>6, <1>7, <1>8, <1>9, <1>10, <1>11 DEF OutputsInv

LEMMA FinishDecsKeeps ==
    ASSUME EndedOnce, OutputsInv, NEW c \in Caller, Outputs!FinishDecs(c)
    PROVE  OutputsInv'
<1>1. /\ UNCHANGED <<stat, started, streams, sink, calls, bus, eos, failed>>
      /\ call[c].at = "dec"
      /\ call' \in [Caller -> [at : CallPlaces, s : Stream \cup {NoStream}]]
      /\ call'[c].at = "load" /\ call'[c].s = call[c].s
      /\ count' = count - 1 /\ counted' = counted \ {call[c].s}
  BY CallTyped, GotoSets
  DEF OutputsInv, CallPlaces, Outputs!FinishDecs, Outputs!streamVars, Outputs!endVars
<1>2. \A d \in Caller : d = c
  BY DEF EndedOnce
<1>3. OutputTypes'
  BY <1>1, <1>2, StreamsAssumption
  DEF OutputsInv, OutputTypes, CallPlaces, BusPlaces, StreamStatuses
<1>4. Counts'
  BY <1>1, CountsDown DEF OutputsInv, CallHolds
<1>5. CallHolds(c)'
  BY <1>1, <1>2, StreamsAssumption DEF OutputsInv, OutputTypes, CallHolds, Output, MapHolds
<1>6. BusHolds'
  BY <1>1, <1>2, StreamsAssumption
  DEF OutputsInv, OutputTypes, CallHolds, BusHolds, Output, EndedOnce
<1>7. MapHolds'
  BY <1>1, <1>2, StreamsAssumption DEF OutputsInv, OutputTypes, CallHolds, MapHolds, Output
<1>8. CountedHold'
  BY <1>1, <1>2, StreamsAssumption DEF OutputsInv, OutputTypes, CallHolds, CountedHold, Output
<1>9. InitialExist'
  BY <1>1, StreamsAssumption DEF OutputsInv, OutputTypes, InitialExist
<1>10. FailingHold'
  BY <1>1, <1>2, StreamsAssumption
  DEF OutputsInv, OutputTypes, CallHolds, FailingHold, Output, EndedOnce
<1>11. LastSeen'
  BY <1>1, <1>2, CountOfNone DEF OutputsInv, LastSeen
<1>12. QED
  BY <1>2, <1>3, <1>4, <1>5, <1>6, <1>7, <1>8, <1>9, <1>10, <1>11 DEF OutputsInv

LEMMA FinishLoadsKeeps ==
    ASSUME EndedOnce, OutputsInv, NEW c \in Caller, Outputs!FinishLoads(c)
    PROVE  OutputsInv'
<1>1. /\ UNCHANGED <<stat, started, streams, sink, count, calls, bus, failed, counted>>
      /\ call[c].at = "load"
      /\ call' \in [Caller -> [at : CallPlaces, s : Stream \cup {NoStream}]]
      /\ \/ count = 0 /\ eos' = TRUE /\ call'[c].at = "removes" /\ call'[c].s = NoStream
         \/ count # 0 /\ eos' = eos /\ call'[c].at = "unlink" /\ call'[c].s = call[c].s
  BY CallTyped, GotoSets
  DEF OutputsInv, CallPlaces, Outputs!FinishLoads, Outputs!streamVars, Outputs!endVars
<1>2. \A d \in Caller : d = c
  BY DEF EndedOnce
<1>3. OutputTypes'
  BY <1>1, <1>2, StreamsAssumption
  DEF OutputsInv, OutputTypes, CallPlaces, BusPlaces, StreamStatuses
<1>4. Counts'
  BY <1>1 DEF OutputsInv, Counts
<1>5. CallHolds(c)'
  BY <1>1, <1>2, StreamsAssumption DEF OutputsInv, OutputTypes, CallHolds, Output, MapHolds
<1>6. BusHolds'
  BY <1>1, <1>2, StreamsAssumption
  DEF OutputsInv, OutputTypes, CallHolds, BusHolds, Output, EndedOnce
<1>7. MapHolds'
  BY <1>1, <1>2, StreamsAssumption DEF OutputsInv, OutputTypes, CallHolds, MapHolds, Output
<1>8. CountedHold'
  BY <1>1, <1>2, StreamsAssumption DEF OutputsInv, OutputTypes, CallHolds, CountedHold, Output
<1>9. InitialExist'
  BY <1>1, StreamsAssumption DEF OutputsInv, OutputTypes, InitialExist
<1>10. FailingHold'
  BY <1>1, <1>2, StreamsAssumption
  DEF OutputsInv, OutputTypes, CallHolds, FailingHold, Output, EndedOnce
<1>11. LastSeen'
  BY <1>1, <1>2, CountOfNone DEF OutputsInv, LastSeen
<1>12. QED
  BY <1>2, <1>3, <1>4, <1>5, <1>6, <1>7, <1>8, <1>9, <1>10, <1>11 DEF OutputsInv

LEMMA FinishUnlinksKeeps ==
    ASSUME EndedOnce, OutputsInv, NEW c \in Caller, Outputs!FinishUnlinks(c)
    PROVE  OutputsInv'
<1>1. /\ UNCHANGED <<stat, started, streams, count, calls, bus, eos, failed, counted>>
      /\ call[c].at = "unlink"
      /\ call' \in [Caller -> [at : CallPlaces, s : Stream \cup {NoStream}]]
      /\ call'[c].at = "removes" /\ call'[c].s = NoStream
      /\ sink' = sink \ {call[c].s}
  BY CallTyped, GotoSets
  DEF OutputsInv, CallPlaces, Outputs!FinishUnlinks, Outputs!streamVars, Outputs!endVars
<1>2. \A d \in Caller : d = c
  BY DEF EndedOnce
<1>3. OutputTypes'
  BY <1>1, <1>2, StreamsAssumption
  DEF OutputsInv, OutputTypes, CallPlaces, BusPlaces, StreamStatuses
<1>4. Counts'
  BY <1>1 DEF OutputsInv, Counts
<1>5. CallHolds(c)'
  BY <1>1, <1>2, StreamsAssumption DEF OutputsInv, OutputTypes, CallHolds, Output, MapHolds
<1>6. BusHolds'
  BY <1>1, <1>2, StreamsAssumption
  DEF OutputsInv, OutputTypes, CallHolds, BusHolds, Output, EndedOnce
<1>7. MapHolds'
  BY <1>1, <1>2, StreamsAssumption DEF OutputsInv, OutputTypes, CallHolds, MapHolds, Output
<1>8. CountedHold'
  BY <1>1, <1>2, StreamsAssumption DEF OutputsInv, OutputTypes, CallHolds, CountedHold, Output
<1>9. InitialExist'
  BY <1>1, StreamsAssumption DEF OutputsInv, OutputTypes, InitialExist
<1>10. FailingHold'
  BY <1>1, <1>2, StreamsAssumption
  DEF OutputsInv, OutputTypes, CallHolds, FailingHold, Output, EndedOnce
<1>11. LastSeen'
  BY <1>1, <1>2, CountOfNone DEF OutputsInv, LastSeen
<1>12. QED
  BY <1>2, <1>3, <1>4, <1>5, <1>6, <1>7, <1>8, <1>9, <1>10, <1>11 DEF OutputsInv

LEMMA ReturnsKeeps ==
    ASSUME EndedOnce, OutputsInv, NEW c \in Caller, Outputs!Returns(c)
    PROVE  OutputsInv'
<1>1. /\ UNCHANGED <<stat, started, streams, sink, count, calls, bus, eos, failed, counted>>
      /\ call[c].at = "removes"
      /\ call' \in [Caller -> [at : CallPlaces, s : Stream \cup {NoStream}]]
      /\ call'[c].at = "idle" /\ call'[c].s = NoStream
  BY CallTyped, GotoSets
  DEF OutputsInv, CallPlaces, Outputs!Returns, Outputs!streamVars, Outputs!endVars
<1>2. \A d \in Caller : d = c
  BY DEF EndedOnce
<1>3. OutputTypes'
  BY <1>1, <1>2, StreamsAssumption
  DEF OutputsInv, OutputTypes, CallPlaces, BusPlaces, StreamStatuses
<1>4. Counts'
  BY <1>1 DEF OutputsInv, Counts
<1>5. CallHolds(c)'
  BY <1>1, <1>2, StreamsAssumption DEF OutputsInv, OutputTypes, CallHolds, Output, MapHolds
<1>6. BusHolds'
  BY <1>1, <1>2, StreamsAssumption
  DEF OutputsInv, OutputTypes, CallHolds, BusHolds, Output, EndedOnce
<1>7. MapHolds'
  BY <1>1, <1>2, StreamsAssumption DEF OutputsInv, OutputTypes, CallHolds, MapHolds, Output
<1>8. CountedHold'
  BY <1>1, <1>2, StreamsAssumption DEF OutputsInv, OutputTypes, CallHolds, CountedHold, Output
<1>9. InitialExist'
  BY <1>1, StreamsAssumption DEF OutputsInv, OutputTypes, InitialExist
<1>10. FailingHold'
  BY <1>1, <1>2, StreamsAssumption
  DEF OutputsInv, OutputTypes, CallHolds, FailingHold, Output, EndedOnce
<1>11. LastSeen'
  BY <1>1, <1>2, CountOfNone DEF OutputsInv, LastSeen
<1>12. QED
  BY <1>2, <1>3, <1>4, <1>5, <1>6, <1>7, <1>8, <1>9, <1>10, <1>11 DEF OutputsInv


LEMMA BusLookupKeeps ==
    ASSUME EndedOnce, OutputsInv, NEW s \in Stream, Outputs!BusLookup(s)
    PROVE  OutputsInv'
<1>1. /\ UNCHANGED <<stat, started, streams, sink, count, call, calls, eos, failed, counted>>
      /\ bus.at = "idle" /\ ~failed /\ s \in sink \cap Failing
      /\ bus' = [at |-> "found", s |-> s]
  BY DEF Outputs!BusLookup, Outputs!BusGoto, Outputs!streamVars, Outputs!endVars
<1>2. OutputTypes'
  BY <1>1, StreamsAssumption DEF OutputsInv, OutputTypes, BusPlaces
<1>3. Counts'
  BY <1>1 DEF OutputsInv, Counts
<1>4. ASSUME NEW c \in Caller  PROVE CallHolds(c)'
  BY <1>1, StreamsAssumption
  DEF OutputsInv, OutputTypes, CallHolds, BusHolds, Output, InitialExist, EndedOnce
<1>5. BusHolds'
  BY <1>1, StreamsAssumption DEF OutputsInv, OutputTypes, BusHolds, FailingHold, Output
<1>6. MapHolds'
  BY <1>1, StreamsAssumption DEF OutputsInv, OutputTypes, BusHolds, MapHolds, Output
<1>7. CountedHold'
  BY <1>1, StreamsAssumption DEF OutputsInv, OutputTypes, BusHolds, CountedHold, Output
<1>8. InitialExist'
  BY <1>1, StreamsAssumption DEF OutputsInv, OutputTypes, InitialExist
<1>9. FailingHold'
  BY <1>1, StreamsAssumption DEF OutputsInv, OutputTypes, BusHolds, FailingHold, Output
<1>10. LastSeen'
  BY <1>1, CountOfNone DEF OutputsInv, LastSeen
<1>11. QED
  BY <1>2, <1>3, <1>4, <1>5, <1>6, <1>7, <1>8, <1>9, <1>10 DEF OutputsInv

LEMMA BusRetriesKeeps ==
    ASSUME EndedOnce, OutputsInv, Outputs!BusRetries
    PROVE  OutputsInv'
<1>1. /\ UNCHANGED <<stat, started, streams, sink, count, call, calls, eos, failed, counted>>
      /\ bus.at = "found"
      /\ bus' = [at |-> "idle", s |-> NoStream]
  BY DEF Outputs!BusRetries, Outputs!BusGoto, Outputs!streamVars, Outputs!endVars
<1>2. OutputTypes'
  BY <1>1, StreamsAssumption DEF OutputsInv, OutputTypes, BusPlaces
<1>3. Counts'
  BY <1>1 DEF OutputsInv, Counts
<1>4. ASSUME NEW c \in Caller  PROVE CallHolds(c)'
  BY <1>1, StreamsAssumption
  DEF OutputsInv, OutputTypes, CallHolds, BusHolds, Output, InitialExist, EndedOnce
<1>5. BusHolds'
  BY <1>1, StreamsAssumption DEF OutputsInv, OutputTypes, BusHolds, FailingHold, Output
<1>6. MapHolds'
  BY <1>1, StreamsAssumption DEF OutputsInv, OutputTypes, BusHolds, MapHolds, Output
<1>7. CountedHold'
  BY <1>1, StreamsAssumption DEF OutputsInv, OutputTypes, BusHolds, CountedHold, Output
<1>8. InitialExist'
  BY <1>1, StreamsAssumption DEF OutputsInv, OutputTypes, InitialExist
<1>9. FailingHold'
  BY <1>1, StreamsAssumption DEF OutputsInv, OutputTypes, BusHolds, FailingHold, Output
<1>10. LastSeen'
  BY <1>1, CountOfNone DEF OutputsInv, LastSeen
<1>11. QED
  BY <1>2, <1>3, <1>4, <1>5, <1>6, <1>7, <1>8, <1>9, <1>10 DEF OutputsInv

LEMMA BusFailsKeeps ==
    ASSUME EndedOnce, OutputsInv, Outputs!BusFails
    PROVE  OutputsInv'
<1>1. /\ UNCHANGED <<sink, count, call, calls, eos, failed, counted>>
      /\ bus.at = "found"
      /\ bus' = [at |-> "dec", s |-> bus.s]
      /\ stat' = [stat EXCEPT ![bus.s] = "failed"]
      /\ started' = started \cup {bus.s}
      /\ streams' = [streams EXCEPT ![UrlOf[bus.s]] = NoStream]
  BY DEF Outputs!BusFails, Outputs!BusGoto, Outputs!streamVars, Outputs!endVars, Outputs!Ends,
     Outputs!Delete
<1>2. OutputTypes'
  <2>1. bus.s \in Stream /\ UrlOf[bus.s] \in Url
    BY <1>1, StreamsAssumption DEF OutputsInv, BusHolds
  <2>2. stat' \in [Stream -> StreamStatuses]
    BY <1>1, <2>1 DEF OutputsInv, OutputTypes, StreamStatuses
  <2>3. streams' \in [Url -> Stream \cup {NoStream}]
    BY <1>1, <2>1 DEF OutputsInv, OutputTypes
  <2>4. started' \subseteq Stream
    BY <1>1, <2>1 DEF OutputsInv, OutputTypes
  <2>5. QED
    BY <1>1, <2>1, <2>2, <2>3, <2>4 DEF OutputsInv, OutputTypes, BusPlaces
<1>3. Counts'
  BY <1>1 DEF OutputsInv, Counts
<1>4. ASSUME NEW c \in Caller  PROVE CallHolds(c)'
  BY <1>1, StreamsAssumption
  DEF OutputsInv, OutputTypes, CallHolds, BusHolds, Output, InitialExist, EndedOnce
<1>5. BusHolds'
  BY <1>1, StreamsAssumption DEF OutputsInv, OutputTypes, BusHolds, FailingHold, Output
<1>6. MapHolds'
  BY <1>1, StreamsAssumption DEF OutputsInv, OutputTypes, BusHolds, MapHolds, Output
<1>7. CountedHold'
  BY <1>1, StreamsAssumption DEF OutputsInv, OutputTypes, BusHolds, CountedHold, Output
<1>8. InitialExist'
  BY <1>1, StreamsAssumption DEF OutputsInv, OutputTypes, InitialExist
<1>9. FailingHold'
  BY <1>1, StreamsAssumption DEF OutputsInv, OutputTypes, BusHolds, FailingHold, Output
<1>10. LastSeen'
  BY <1>1, CountOfNone DEF OutputsInv, LastSeen
<1>11. QED
  BY <1>2, <1>3, <1>4, <1>5, <1>6, <1>7, <1>8, <1>9, <1>10 DEF OutputsInv

LEMMA BusDecsKeeps ==
    ASSUME EndedOnce, OutputsInv, Outputs!BusDecs
    PROVE  OutputsInv'
<1>1. /\ UNCHANGED <<stat, started, streams, sink, call, calls, eos, failed>>
      /\ bus.at = "dec"
      /\ bus' = [at |-> "load", s |-> bus.s]
      /\ count' = count - 1 /\ counted' = counted \ {bus.s}
  BY DEF Outputs!BusDecs, Outputs!BusGoto, Outputs!streamVars, Outputs!endVars
<1>2. OutputTypes'
  BY <1>1, StreamsAssumption DEF OutputsInv, OutputTypes, BusPlaces
<1>3. Counts'
  BY <1>1, CountsDown DEF OutputsInv, BusHolds
<1>4. ASSUME NEW c \in Caller  PROVE CallHolds(c)'
  BY <1>1, StreamsAssumption
  DEF OutputsInv, OutputTypes, CallHolds, BusHolds, Output, InitialExist, EndedOnce
<1>5. BusHolds'
  BY <1>1, StreamsAssumption DEF OutputsInv, OutputTypes, BusHolds, FailingHold, Output
<1>6. MapHolds'
  BY <1>1, StreamsAssumption DEF OutputsInv, OutputTypes, BusHolds, MapHolds, Output
<1>7. CountedHold'
  BY <1>1, StreamsAssumption DEF OutputsInv, OutputTypes, BusHolds, CountedHold, Output
<1>8. InitialExist'
  BY <1>1, StreamsAssumption DEF OutputsInv, OutputTypes, InitialExist
<1>9. FailingHold'
  BY <1>1, StreamsAssumption DEF OutputsInv, OutputTypes, BusHolds, FailingHold, Output
<1>10. LastSeen'
  BY <1>1, CountOfNone DEF OutputsInv, LastSeen
<1>11. QED
  BY <1>2, <1>3, <1>4, <1>5, <1>6, <1>7, <1>8, <1>9, <1>10 DEF OutputsInv

LEMMA BusLoadsKeeps ==
    ASSUME EndedOnce, OutputsInv, Outputs!BusLoads
    PROVE  OutputsInv'
<1>1. /\ UNCHANGED <<stat, started, streams, sink, count, call, calls, eos, counted>>
      /\ bus.at = "load"
      /\ \/ count = 0 /\ failed' = TRUE /\ bus' = [at |-> "idle", s |-> NoStream]
         \/ count # 0 /\ failed' = failed /\ bus' = [at |-> "unlink", s |-> bus.s]
  BY DEF Outputs!BusLoads, Outputs!BusGoto, Outputs!streamVars, Outputs!endVars
<1>2. OutputTypes'
  <2>1. failed' \in BOOLEAN
    BY <1>1 DEF OutputsInv, OutputTypes
  <2>2. bus' \in [at : BusPlaces, s : Stream \cup {NoStream}]
    BY <1>1 DEF OutputsInv, OutputTypes, BusPlaces
  <2>3. QED
    BY <1>1, <2>1, <2>2 DEF OutputsInv, OutputTypes
<1>3. Counts'
  BY <1>1 DEF OutputsInv, Counts
<1>4. ASSUME NEW c \in Caller  PROVE CallHolds(c)'
  BY <1>1, StreamsAssumption
  DEF OutputsInv, OutputTypes, CallHolds, BusHolds, Output, InitialExist, EndedOnce
<1>5. BusHolds'
  BY <1>1, StreamsAssumption DEF OutputsInv, OutputTypes, BusHolds, FailingHold, Output
<1>6. MapHolds'
  BY <1>1, StreamsAssumption DEF OutputsInv, OutputTypes, BusHolds, MapHolds, Output
<1>7. CountedHold'
  BY <1>1, StreamsAssumption DEF OutputsInv, OutputTypes, BusHolds, CountedHold, Output
<1>8. InitialExist'
  BY <1>1, StreamsAssumption DEF OutputsInv, OutputTypes, InitialExist
<1>9. FailingHold'
  BY <1>1, StreamsAssumption DEF OutputsInv, OutputTypes, BusHolds, FailingHold, Output
<1>10. LastSeen'
  BY <1>1, CountOfNone DEF OutputsInv, LastSeen
<1>11. QED
  BY <1>2, <1>3, <1>4, <1>5, <1>6, <1>7, <1>8, <1>9, <1>10 DEF OutputsInv

LEMMA BusUnlinksKeeps ==
    ASSUME EndedOnce, OutputsInv, Outputs!BusUnlinks
    PROVE  OutputsInv'
<1>1. /\ UNCHANGED <<stat, started, streams, count, call, calls, eos, counted>>
      /\ bus.at = "unlink"
      /\ bus' = [at |-> "idle", s |-> NoStream]
      /\ failed' = (bus.s \notin sink)
      /\ sink' = sink \ {bus.s}
  BY DEF Outputs!BusUnlinks, Outputs!BusGoto, Outputs!streamVars, Outputs!endVars
<1>2. OutputTypes'
  BY <1>1, StreamsAssumption DEF OutputsInv, OutputTypes, BusPlaces
<1>3. Counts'
  BY <1>1 DEF OutputsInv, Counts
<1>4. ASSUME NEW c \in Caller  PROVE CallHolds(c)'
  BY <1>1, StreamsAssumption
  DEF OutputsInv, OutputTypes, CallHolds, BusHolds, Output, InitialExist, EndedOnce
<1>5. BusHolds'
  BY <1>1, StreamsAssumption DEF OutputsInv, OutputTypes, BusHolds, FailingHold, Output
<1>6. MapHolds'
  BY <1>1, StreamsAssumption DEF OutputsInv, OutputTypes, BusHolds, MapHolds, Output
<1>7. CountedHold'
  BY <1>1, StreamsAssumption DEF OutputsInv, OutputTypes, BusHolds, CountedHold, Output
<1>8. InitialExist'
  BY <1>1, StreamsAssumption DEF OutputsInv, OutputTypes, InitialExist
<1>9. FailingHold'
  BY <1>1, StreamsAssumption DEF OutputsInv, OutputTypes, BusHolds, FailingHold, Output
<1>10. LastSeen'
  BY <1>1, CountOfNone DEF OutputsInv, BusHolds, LastSeen
<1>11. QED
  BY <1>2, <1>3, <1>4, <1>5, <1>6, <1>7, <1>8, <1>9, <1>10 DEF OutputsInv

LEMMA StreamStartsKeeps ==
    ASSUME EndedOnce, OutputsInv, NEW u \in Url, Outputs!StreamStarts(u)
    PROVE  OutputsInv'
<1>1. /\ UNCHANGED <<stat, streams, sink, count, call, calls, bus, eos, failed, counted>>
      /\ started' = started \cup {streams[u]} /\ streams[u] \in sink
  BY DEF Outputs!StreamStarts, Outputs!BusGoto, Outputs!streamVars, Outputs!endVars
<1>2. OutputTypes'
  BY <1>1, StreamsAssumption DEF OutputsInv, OutputTypes, BusPlaces
<1>3. Counts'
  BY <1>1 DEF OutputsInv, Counts
<1>4. ASSUME NEW c \in Caller  PROVE CallHolds(c)'
  BY <1>1, StreamsAssumption
  DEF OutputsInv, OutputTypes, CallHolds, BusHolds, Output, InitialExist, EndedOnce
<1>5. BusHolds'
  BY <1>1, StreamsAssumption DEF OutputsInv, OutputTypes, BusHolds, FailingHold, Output
<1>6. MapHolds'
  BY <1>1, StreamsAssumption DEF OutputsInv, OutputTypes, BusHolds, MapHolds, Output
<1>7. CountedHold'
  BY <1>1, StreamsAssumption DEF OutputsInv, OutputTypes, BusHolds, CountedHold, Output
<1>8. InitialExist'
  BY <1>1, StreamsAssumption DEF OutputsInv, OutputTypes, InitialExist
<1>9. FailingHold'
  BY <1>1, StreamsAssumption DEF OutputsInv, OutputTypes, BusHolds, FailingHold, Output
<1>10. LastSeen'
  BY <1>1, CountOfNone DEF OutputsInv, LastSeen
<1>11. QED
  BY <1>2, <1>3, <1>4, <1>5, <1>6, <1>7, <1>8, <1>9, <1>10 DEF OutputsInv


LEMMA CallerKeeps ==
    ASSUME EndedOnce, OutputsInv, NEW c \in Caller,
           \/ Outputs!Begin(c) \/ Outputs!AddStores(c) \/ Outputs!AddSinks(c) \/ Outputs!AddFails(c)
           \/ Outputs!AddIncs(c) \/ Outputs!AddsDone(c) \/ Outputs!Finishes(c) \/ Outputs!FinishDecs(c)
           \/ Outputs!FinishLoads(c) \/ Outputs!FinishUnlinks(c) \/ Outputs!Returns(c)
           \/ \E s \in Stream : Outputs!AddChecks(c, s)
           \/ \E u \in Url : Outputs!GetStream(c, u)
    PROVE  OutputsInv'
BY BeginKeeps, AddStoresKeeps, AddSinksKeeps, AddFailsKeeps, AddIncsKeeps, AddsDoneKeeps,
   FinishesKeeps,
   FinishDecsKeeps, FinishLoadsKeeps, FinishUnlinksKeeps, ReturnsKeeps, AddChecksKeeps, GetStreamKeeps

LEMMA OutputsStay ==
    ASSUME OutputsInv,
           UNCHANGED <<stat, started, streams, sink, count, call, calls, bus, eos, failed, counted>>
    PROVE  OutputsInv'
<1>1. OutputTypes' /\ Counts' /\ \A c \in Caller : CallHolds(c)'
  BY DEF OutputsInv, OutputTypes, Counts, CallHolds, Output
<1>2. BusHolds' /\ MapHolds' /\ CountedHold'
  BY DEF OutputsInv, BusHolds, MapHolds, CountedHold, Output
<1>3. InitialExist' /\ FailingHold' /\ LastSeen'
  BY DEF OutputsInv, InitialExist, FailingHold, LastSeen, Output
<1>4. QED  BY <1>1, <1>2, <1>3 DEF OutputsInv

LEMMA OutputsKeep ==
    ASSUME EndedOnce, OutputsInv, Outputs!Next  PROVE OutputsInv'
<1>1. CASE \E r \in Outputs!Reporter : Outputs!UpdateChecks(r) \/ Outputs!UpdateSends(r)
  BY <1>1, OutputsStay
  DEF Outputs!UpdateChecks, Outputs!UpdateSends, Outputs!streamVars, Outputs!endVars
<1>2. CASE \E m \in sent : Outputs!HandlerUpdate(m)
  BY <1>2, OutputsStay DEF Outputs!HandlerUpdate, Outputs!streamVars, Outputs!endVars
<1>3. QED
  BY <1>1, <1>2, CallerKeeps, BusLookupKeeps, BusRetriesKeeps, BusFailsKeeps, BusDecsKeeps,
     BusLoadsKeeps, BusUnlinksKeeps, StreamStartsKeeps DEF Outputs!Next

\* The streams of the request are the outputs it starts with.
LEMMA OutputsStart ==
    ASSUME Outputs!Init  PROVE OutputsInv
<1>1. /\ stat = [s \in Stream |-> IF s \in Initial THEN "active" ELSE "none"]
      /\ started \in {{}, Initial} /\ sink = Initial /\ counted = Initial
      /\ streams = [u \in Url |-> IF \E s \in Initial : UrlOf[s] = u
                                  THEN CHOOSE s \in Initial : UrlOf[s] = u ELSE NoStream]
      /\ count = Other + Cardinality(Initial)
      /\ call = [c \in Caller |-> [at |-> "idle", s |-> NoStream]]
      /\ calls = [c \in Caller |-> 0]
      /\ bus = [at |-> "idle", s |-> NoStream]
      /\ eos = FALSE /\ failed = FALSE
  <2>1. started \in {{}, Initial}
    BY DEF Outputs!Init
  <2>2. streams = [u \in Url |-> IF \E s \in Initial : UrlOf[s] = u
                                 THEN CHOOSE s \in Initial : UrlOf[s] = u ELSE NoStream]
    BY Zenon DEF Outputs!Init
  <2>4. /\ stat = [s \in Stream |-> IF s \in Initial THEN "active" ELSE "none"]
        /\ call = [c \in Caller |-> [at |-> "idle", s |-> NoStream]]
        /\ calls = [c \in Caller |-> 0]
    BY DEF Outputs!Init
  <2>5. sink = Initial /\ counted = Initial /\ count = Other + Cardinality(Initial)
    BY DEF Outputs!Init, Outputs!Cardinality, Cardinality
  <2>6. bus = [at |-> "idle", s |-> NoStream] /\ eos = FALSE /\ failed = FALSE
    BY DEF Outputs!Init
  <2>7. QED  BY <2>1, <2>2, <2>4, <2>5, <2>6
<1>2. ASSUME NEW u \in Url
      PROVE  \/ streams[u] = NoStream /\ \A s \in Initial : UrlOf[s] # u
             \/ streams[u] \in Initial /\ UrlOf[streams[u]] = u
  BY <1>1
<1>3. OutputTypes
  <2>1. stat \in [Stream -> StreamStatuses]
    BY <1>1 DEF StreamStatuses
  <2>2. streams \in [Url -> Stream \cup {NoStream}]
    BY <1>1, <1>2, StreamsAssumption
  <2>3. calls \in [Caller -> 0..MaxCalls]
    BY <1>1, StreamsAssumption
  <2>4. started \subseteq Stream
    BY <1>1, StreamsAssumption
  <2>5. eos \in BOOLEAN /\ failed \in BOOLEAN
    BY <1>1
  <2>6. call \in [Caller -> [at : CallPlaces, s : Stream \cup {NoStream}]]
    BY <1>1 DEF CallPlaces
  <2>7. bus \in [at : BusPlaces, s : Stream \cup {NoStream}]
    BY <1>1 DEF BusPlaces
  <2>8. QED
    BY <1>1, <2>1, <2>2, <2>3, <2>4, <2>5, <2>6, <2>7, StreamsAssumption DEF OutputTypes
<1>4. Counts
  BY <1>1 DEF Counts
<1>5. ASSUME NEW s \in Initial  PROVE Output(s)
  <2>1. UrlOf[s] \in Url /\ s \in Stream
    BY StreamsAssumption
  <2>2. streams[UrlOf[s]] = s
    BY <1>2, <2>1, StreamsAssumption
  <2>3. QED  BY <1>1, <2>1, <2>2 DEF Output
<1>6. ASSUME NEW c \in Caller  PROVE CallHolds(c)
  BY <1>1 DEF CallHolds
<1>7. BusHolds
  BY <1>1 DEF BusHolds
<1>8. MapHolds
  BY <1>1, <1>2, <1>5 DEF MapHolds, Output
<1>9. CountedHold /\ FailingHold
  BY <1>1, <1>5 DEF CountedHold, FailingHold
<1>10. InitialExist
  BY <1>5 DEF InitialExist, Output
<1>11. LastSeen
  BY <1>1, <1>3, <1>4, CountOfNone, StreamsAssumption DEF LastSeen
<1>12. QED
  BY <1>3, <1>4, <1>6, <1>7, <1>8, <1>9, <1>10, <1>11 DEF OutputsInv

LEMMA OutputsHold ==
    ASSUME EndedOnce  PROVE StreamsSpec => []OutputsInv
<1>1. StreamsInit => OutputsInv
  BY OutputsStart DEF StreamsInit
<1>2. OutputsInv /\ [StreamsNext]_streamsVars => OutputsInv'
  BY EndedOnce, OutputsStay, OutputsKeep
  DEF StreamsNext, OutputsMove, ConnectionMoves, streamsVars, outputsVars
<1>3. QED  BY <1>1, <1>2, PTL DEF StreamsSpec

-----------------------------------------------------------------------------
(***************************************************************************)
(* The updates of the outputs.                                             *)
(***************************************************************************)
Infos == [status : [Stream -> StreamStatuses], started : SUBSET Stream]

UpdateTypes ==
    /\ upd \in [Outputs!Reporter -> {"idle", "checks", "sends", "waits"}]
    /\ sent \subseteq [by : Outputs!Reporter, info : Infos]
    /\ reported \in Infos /\ latest \in Infos /\ raced \in BOOLEAN

\* Each goroutine sends one update at a time.
OneEach ==
    /\ \A c \in Caller : call[c].at # "idle" => upd[c] = "idle"
    /\ bus.at \in {"found", "dec", "load"} => upd[Watch] = "idle"
    /\ \A s \in Stream \ started : upd[s] = "idle"

Waits ==
    /\ \A m \in sent : upd[m.by] = "waits"
    /\ \A m, n \in sent : m.by = n.by => m = n

\* What was sent alone arrives, or has arrived, last.
LastArrives ==
    ~raced => /\ \A m \in sent : m.info = latest
              /\ sent = {} => reported = latest

\* A change was sent, or somebody will send it.
StartPending ==
    \E u \in Url :
        streams[u] # NoStream /\ stat[streams[u]] = "active" /\ streams[u] \notin started

Pends ==
    \/ failed \/ bus.at \in {"dec", "load"} \/ StartPending
    \/ \E c \in Caller : call[c].at # "idle"
    \/ \E r \in Outputs!Reporter : upd[r] \in {"checks", "sends"}

ReportPends == latest = [status |-> stat, started |-> started] \/ Pends

UpdatesInv == UpdateTypes /\ OneEach /\ Waits /\ LastArrives /\ ReportPends

LEMMA ReportersApart ==
    /\ \A c \in Caller : c \in Outputs!Reporter /\ c # Watch /\ c \notin Stream
    /\ \A s \in Stream : s \in Outputs!Reporter /\ s # Watch
    /\ Watch \in Outputs!Reporter
BY StreamsAssumption DEF Outputs!Reporter

\* The steps of a call between its start and its end, which leave the updates alone.
LEMMA CallUpdates ==
    ASSUME EndedOnce, OutputsInv, UpdatesInv, NEW c \in Caller,
           \/ Outputs!AddStores(c) \/ Outputs!AddSinks(c) \/ Outputs!AddFails(c)
           \/ Outputs!AddIncs(c) \/ Outputs!AddsDone(c) \/ Outputs!Finishes(c) \/ Outputs!FinishDecs(c)
           \/ Outputs!FinishLoads(c) \/ Outputs!FinishUnlinks(c)
           \/ \E s \in Stream : Outputs!AddChecks(c, s)
           \/ \E u \in Url : Outputs!GetStream(c, u)
    PROVE  UpdatesInv'
<1>1. /\ UNCHANGED <<bus, upd, sent, reported, latest, raced>>
      /\ call[c].at # "idle" /\ call'[c].at # "idle"
      /\ started \subseteq started'
  <2>1. UNCHANGED <<bus, upd, sent, reported, latest, raced>>
    BY DEF Outputs!AddStores, Outputs!AddSinks, Outputs!AddFails, Outputs!AddIncs, Outputs!AddsDone,
       Outputs!Finishes, Outputs!FinishDecs, Outputs!FinishLoads, Outputs!FinishUnlinks,
       Outputs!AddChecks, Outputs!GetStream, Outputs!reportVars
  <2>2. started \subseteq started'
    BY DEF Outputs!AddStores, Outputs!AddSinks, Outputs!AddFails, Outputs!AddIncs, Outputs!AddsDone,
       Outputs!Finishes, Outputs!FinishDecs, Outputs!FinishLoads, Outputs!FinishUnlinks,
       Outputs!AddChecks, Outputs!GetStream, Outputs!streamVars, Outputs!Ends
  <2>3. call[c].at # "idle"
    BY DEF Outputs!AddStores, Outputs!AddSinks, Outputs!AddFails, Outputs!AddIncs, Outputs!AddsDone,
       Outputs!Finishes, Outputs!FinishDecs, Outputs!FinishLoads, Outputs!FinishUnlinks,
       Outputs!AddChecks, Outputs!GetStream
  <2>4. \E where \in CallPlaces \ {"idle"} : \E s : call' = [call EXCEPT ![c] = [at |-> where, s |-> s]]
    BY DEF Outputs!AddStores, Outputs!AddSinks, Outputs!AddFails, Outputs!AddIncs, Outputs!AddsDone,
       Outputs!Finishes, Outputs!FinishDecs, Outputs!FinishLoads, Outputs!FinishUnlinks,
       Outputs!AddChecks, Outputs!GetStream, Outputs!Goto, CallPlaces
  <2>5. call'[c].at # "idle"
    BY <2>4 DEF OutputsInv, OutputTypes
  <2>6. QED  BY <2>1, <2>2, <2>3, <2>5
<1>2. \A d \in Caller : d = c
  BY DEF EndedOnce
<1>3. UpdateTypes' /\ LastArrives' /\ Waits'
  BY <1>1 DEF UpdatesInv, UpdateTypes, LastArrives, Waits
<1>4. OneEach'
  BY <1>1, <1>2 DEF UpdatesInv, OneEach
<1>5. ReportPends'
  BY <1>1 DEF ReportPends, Pends
<1>6. QED  BY <1>3, <1>4, <1>5 DEF UpdatesInv

LEMMA BeginUpdates ==
    ASSUME EndedOnce, OutputsInv, UpdatesInv, NEW c \in Caller, Outputs!Begin(c)
    PROVE  UpdatesInv'
<1>1. /\ UNCHANGED <<started, bus, upd, sent, reported, latest, raced>>
      /\ upd[c] = "idle" /\ call'[c].at = "adds"
  BY DEF Outputs!Begin, Outputs!Goto, Outputs!reportVars, Outputs!streamVars, OutputsInv, OutputTypes
<1>2. \A d \in Caller : d = c
  BY DEF EndedOnce
<1>3. UpdateTypes' /\ LastArrives' /\ Waits'
  BY <1>1 DEF UpdatesInv, UpdateTypes, LastArrives, Waits
<1>4. OneEach'
  BY <1>1, <1>2 DEF UpdatesInv, OneEach
<1>5. ReportPends'
  BY <1>1 DEF ReportPends, Pends
<1>6. QED  BY <1>3, <1>4, <1>5 DEF UpdatesInv

\* Whoever calls streamUpdated has no update on its way.
LEMMA StartsUpdate ==
    ASSUME UpdatesInv, NEW r \in Outputs!Reporter, upd[r] = "idle", Outputs!StreamUpdated(r)
    PROVE  /\ UpdateTypes' /\ LastArrives' /\ Waits' /\ ReportPends'
           /\ \A q \in Outputs!Reporter \ {r} : upd'[q] = upd[q]
<1>1. /\ upd' = [upd EXCEPT ![r] = "checks"] /\ UNCHANGED <<sent, reported, latest, raced>>
  BY DEF Outputs!StreamUpdated
<1>2. UpdateTypes'
  BY <1>1 DEF UpdatesInv, UpdateTypes
<1>3. LastArrives'
  BY <1>1 DEF UpdatesInv, LastArrives
<1>4. upd'[r] = "checks" /\ \A q \in Outputs!Reporter \ {r} : upd'[q] = upd[q]
  BY <1>1 DEF UpdatesInv, UpdateTypes
<1>5. ReportPends'
  BY <1>4 DEF ReportPends, Pends, Outputs!Reporter
<1>6. Waits'
  BY <1>1, <1>4 DEF UpdatesInv, UpdateTypes, Waits
<1>7. QED  BY <1>2, <1>3, <1>4, <1>5, <1>6

LEMMA ReturnsUpdates ==
    ASSUME EndedOnce, OutputsInv, UpdatesInv, NEW c \in Caller, Outputs!Returns(c)
    PROVE  UpdatesInv'
<1>1. /\ UNCHANGED <<started, bus>>
      /\ call[c].at = "removes" /\ call'[c].at = "idle" /\ Outputs!StreamUpdated(c)
  BY DEF Outputs!Returns, Outputs!Goto, Outputs!streamVars, OutputsInv, OutputTypes
<1>2. \A d \in Caller : d = c
  BY DEF EndedOnce
<1>3. c \in Outputs!Reporter /\ c # Watch /\ c \notin Stream /\ upd[c] = "idle"
  BY <1>1, ReportersApart DEF UpdatesInv, OneEach
<1>4. /\ UpdateTypes' /\ LastArrives' /\ Waits' /\ ReportPends'
      /\ \A q \in Outputs!Reporter \ {c} : upd'[q] = upd[q]
  BY <1>1, <1>3, StartsUpdate
<1>5. OneEach'
  BY <1>1, <1>2, <1>3, <1>4, ReportersApart DEF UpdatesInv, OneEach
<1>6. QED  BY <1>4, <1>5 DEF UpdatesInv

LEMMA StreamStartsUpdates ==
    ASSUME OutputsInv, UpdatesInv, NEW u \in Url, Outputs!StreamStarts(u)
    PROVE  UpdatesInv'
<1> DEFINE s == streams[u]
<1>1. /\ UNCHANGED <<call, bus>> /\ s \in Stream /\ s \notin started
      /\ started' = started \cup {s} /\ Outputs!StreamUpdated(s)
  BY DEF Outputs!StreamStarts, OutputsInv, OutputTypes
<1> HIDE DEF s
<1>2. s \in Outputs!Reporter /\ s # Watch /\ s \notin Caller /\ upd[s] = "idle"
  BY <1>1, ReportersApart DEF UpdatesInv, OneEach
<1>3. /\ UpdateTypes' /\ LastArrives' /\ Waits' /\ ReportPends'
      /\ \A q \in Outputs!Reporter \ {s} : upd'[q] = upd[q]
  BY <1>1, <1>2, StartsUpdate
<1>4. OneEach'
  BY <1>1, <1>2, <1>3, ReportersApart DEF UpdatesInv, OneEach
<1>5. QED  BY <1>3, <1>4 DEF UpdatesInv

\* The bus, where it sends no update ...
LEMMA BusUpdates ==
    ASSUME OutputsInv, UpdatesInv, UNCHANGED <<call, upd, sent, reported, latest, raced>>,
           \/ \E s \in Stream : Outputs!BusLookup(s)
           \/ Outputs!BusRetries \/ Outputs!BusFails \/ Outputs!BusDecs \/ Outputs!BusLoads
           \/ Outputs!BusUnlinks
    PROVE  UpdatesInv'
<1>1. UpdateTypes' /\ LastArrives' /\ Waits'
  BY DEF UpdatesInv, UpdateTypes, LastArrives, Waits
<1>2. started \subseteq started'
  BY DEF Outputs!BusLookup, Outputs!BusRetries, Outputs!BusFails, Outputs!BusDecs, Outputs!BusLoads,
     Outputs!BusUnlinks, Outputs!streamVars, Outputs!Ends
<1>3. upd[Watch] = "idle" \/ bus'.at \notin {"found", "dec", "load"}
  BY DEF Outputs!BusLookup, Outputs!BusRetries, Outputs!BusFails, Outputs!BusDecs, Outputs!BusLoads,
     Outputs!BusUnlinks, Outputs!BusGoto, UpdatesInv, OneEach
<1>4. OneEach'
  BY <1>2, <1>3 DEF UpdatesInv, OneEach
<1>5. ReportPends'
  <2>1. CASE bus'.at \in {"dec", "load"} \/ failed'
    BY <2>1 DEF ReportPends, Pends
  <2>2. CASE ~(bus'.at \in {"dec", "load"} \/ failed')
    <3>1. UNCHANGED <<stat, started, streams>> /\ ~failed /\ bus.at \notin {"dec", "load"}
      <4>1. ~Outputs!BusFails /\ ~Outputs!BusDecs
        BY <2>2 DEF Outputs!BusFails, Outputs!BusDecs, Outputs!BusGoto
      <4>2. ~Outputs!BusLoads
        <5>1. SUFFICES ASSUME Outputs!BusLoads  PROVE FALSE
          OBVIOUS
        <5>2. bus.at = "load" /\ Outputs!StreamUpdated(Watch)
          BY <2>2, <5>1 DEF Outputs!BusLoads
        <5>3. upd[Watch] = "idle" /\ upd'[Watch] = "checks"
          BY <5>2, ReportersApart DEF Outputs!StreamUpdated, UpdatesInv, UpdateTypes, OneEach
        <5>4. QED  BY <5>3
      <4>3. QED
        BY <2>2, <4>1, <4>2
        DEF Outputs!BusLookup, Outputs!BusRetries, Outputs!BusUnlinks, Outputs!streamVars,
            Outputs!endVars, OutputsInv, BusHolds
    <3>2. QED  BY <3>1 DEF UpdatesInv, ReportPends, Pends, StartPending
  <2>3. QED  BY <2>1, <2>2
<1>6. QED  BY <1>1, <1>4, <1>5 DEF UpdatesInv

\* ... and where it does.
LEMMA BusReports ==
    ASSUME OutputsInv, UpdatesInv, Outputs!StreamUpdated(Watch), Outputs!BusRetries \/ Outputs!BusLoads
    PROVE  UpdatesInv'
<1>1. /\ UNCHANGED <<call, started>> /\ bus.at \in {"found", "load"} /\ bus'.at \in {"idle", "unlink"}
  BY DEF Outputs!BusRetries, Outputs!BusLoads, Outputs!BusGoto, Outputs!streamVars
<1>2. Watch \in Outputs!Reporter /\ upd[Watch] = "idle"
  BY <1>1, ReportersApart DEF UpdatesInv, OneEach
<1>3. /\ UpdateTypes' /\ LastArrives' /\ Waits' /\ ReportPends'
      /\ \A q \in Outputs!Reporter \ {Watch} : upd'[q] = upd[q]
  BY <1>2, StartsUpdate
<1>4. OneEach'
  BY <1>1, <1>3, ReportersApart DEF UpdatesInv, OneEach
<1>5. QED  BY <1>3, <1>4 DEF UpdatesInv

LEMMA ChecksUpdates ==
    ASSUME UpdatesInv, NEW r \in Outputs!Reporter, Outputs!UpdateChecks(r)  PROVE UpdatesInv'
<1>1. /\ UNCHANGED <<stat, started, streams, call, bus, failed, sent, reported, latest, raced>>
      /\ upd[r] = "checks"
      /\ upd' = [upd EXCEPT ![r] = IF StartPending THEN "idle" ELSE "sends"]
  BY DEF Outputs!UpdateChecks, Outputs!Starting, StartPending, Outputs!streamVars, Outputs!endVars
<1>2. /\ upd'[r] = (IF StartPending THEN "idle" ELSE "sends")
      /\ \A q \in Outputs!Reporter \ {r} : upd'[q] = upd[q]
  BY <1>1 DEF UpdatesInv, UpdateTypes
<1>3. UpdateTypes'
  BY <1>1 DEF UpdatesInv, UpdateTypes
<1>4. LastArrives'
  BY <1>1 DEF UpdatesInv, LastArrives
<1>5. OneEach'
  BY <1>1, <1>2, ReportersApart DEF UpdatesInv, OneEach
<1>6. Waits'
  BY <1>1, <1>2 DEF UpdatesInv, UpdateTypes, Waits
<1>7. ReportPends'
  <2>1. CASE StartPending
    BY <1>1, <2>1 DEF ReportPends, Pends, StartPending
  <2>2. CASE ~StartPending
    BY <1>2, <2>2 DEF ReportPends, Pends, Outputs!Reporter
  <2>3. QED  BY <2>1, <2>2
<1>8. QED  BY <1>3, <1>4, <1>5, <1>6, <1>7 DEF UpdatesInv

LEMMA SendsUpdates ==
    ASSUME OutputsInv, UpdatesInv, NEW r \in Outputs!Reporter, Outputs!UpdateSends(r)
    PROVE  UpdatesInv'
<1>1. /\ UNCHANGED <<stat, started, streams, call, bus, failed, reported>>
      /\ upd[r] = "sends" /\ upd' = [upd EXCEPT ![r] = "waits"]
      /\ latest' = [status |-> stat, started |-> started]
      /\ sent' = sent \cup {[by |-> r, info |-> latest']}
      /\ raced' = (sent # {})
  BY DEF Outputs!UpdateSends, Outputs!Info, Outputs!streamVars, Outputs!endVars
<1>2. /\ upd'[r] = "waits" /\ \A q \in Outputs!Reporter \ {r} : upd'[q] = upd[q]
  BY <1>1 DEF UpdatesInv, UpdateTypes
<1>3. UpdateTypes'
  <2>1. latest' \in Infos
    BY <1>1 DEF OutputsInv, OutputTypes, Infos
  <2>2. QED  BY <1>1, <2>1 DEF UpdatesInv, UpdateTypes
<1>4. LastArrives'
  <2>1. SUFFICES ASSUME ~raced'
                 PROVE  (\A m \in sent' : m.info = latest') /\ sent' # {}
    BY DEF LastArrives
  <2>2. sent = {}
    BY <1>1, <2>1
  <2>3. QED  BY <1>1, <2>2
<1>5. OneEach'
  BY <1>1, <1>2, ReportersApart DEF UpdatesInv, OneEach
<1>6. Waits'
  BY <1>1, <1>2 DEF UpdatesInv, UpdateTypes, Waits
<1>7. ReportPends'
  BY <1>1 DEF ReportPends
<1>8. QED  BY <1>3, <1>4, <1>5, <1>6, <1>7 DEF UpdatesInv

LEMMA ArrivesUpdates ==
    ASSUME UpdatesInv, NEW m \in sent, Outputs!HandlerUpdate(m)
    PROVE  UpdatesInv'
<1>1. /\ UNCHANGED <<stat, started, streams, call, bus, failed, latest, raced>>
      /\ sent' = sent \ {m} /\ reported' = m.info
      /\ upd' = [upd EXCEPT ![m.by] = "idle"]
  BY DEF Outputs!HandlerUpdate, Outputs!streamVars, Outputs!endVars
<1>2. m.by \in Outputs!Reporter /\ m.info \in Infos /\ upd[m.by] = "waits"
  BY DEF UpdatesInv, UpdateTypes, Waits
<1>3. upd'[m.by] = "idle" /\ \A q \in Outputs!Reporter \ {m.by} : upd'[q] = upd[q]
  BY <1>1, <1>2 DEF UpdatesInv, UpdateTypes
<1>4. UpdateTypes'
  BY <1>1, <1>2 DEF UpdatesInv, UpdateTypes
<1>5. LastArrives'
  BY <1>1 DEF UpdatesInv, LastArrives
<1>6. OneEach'
  BY <1>1, <1>2, <1>3, ReportersApart DEF UpdatesInv, OneEach
<1>7. Waits'
  BY <1>1, <1>3 DEF UpdatesInv, UpdateTypes, Waits
<1>8. ReportPends'
  BY <1>1, <1>2, <1>3 DEF UpdatesInv, ReportPends, Pends, StartPending, Outputs!Reporter
<1>9. QED  BY <1>4, <1>5, <1>6, <1>7, <1>8 DEF UpdatesInv

LEMMA UpdatesKeep ==
    ASSUME EndedOnce, OutputsInv, UpdatesInv, Outputs!Next  PROVE UpdatesInv'
<1>1. CASE \E s \in Stream : Outputs!BusLookup(s)
  BY <1>1, BusUpdates DEF Outputs!BusLookup, Outputs!reportVars
<1>2. CASE Outputs!BusRetries
  BY <1>2, BusUpdates, BusReports DEF Outputs!BusRetries, Outputs!reportVars
<1>3. CASE Outputs!BusFails \/ Outputs!BusDecs \/ Outputs!BusUnlinks
  BY <1>3, BusUpdates
  DEF Outputs!BusFails, Outputs!BusDecs, Outputs!BusUnlinks, Outputs!reportVars
<1>4. CASE Outputs!BusLoads
  BY <1>4, BusUpdates, BusReports DEF Outputs!BusLoads, Outputs!reportVars
<1>5. CASE \E u \in Url : Outputs!StreamStarts(u)
  BY <1>5, StreamStartsUpdates
<1>6. CASE \E r \in Outputs!Reporter : Outputs!UpdateChecks(r) \/ Outputs!UpdateSends(r)
  BY <1>6, ChecksUpdates, SendsUpdates
<1>7. CASE \E m \in sent : Outputs!HandlerUpdate(m)
  BY <1>7, ArrivesUpdates
<1>8. QED
  BY <1>1, <1>2, <1>3, <1>4, <1>5, <1>6, <1>7, BeginUpdates, CallUpdates, ReturnsUpdates
  DEF Outputs!Next

LEMMA UpdatesStay ==
    ASSUME UpdatesInv, UNCHANGED outputsVars  PROVE UpdatesInv'
<1>1. UpdateTypes' /\ OneEach' /\ Waits' /\ LastArrives'
  BY DEF outputsVars, UpdatesInv, UpdateTypes, OneEach, Waits, LastArrives
<1>2. ReportPends'
  BY DEF outputsVars, UpdatesInv, ReportPends, Pends, StartPending
<1>3. QED  BY <1>1, <1>2 DEF UpdatesInv

LEMMA UpdatesStart ==
    ASSUME Outputs!Init, OutputsInv  PROVE UpdatesInv
<1>1. /\ upd = [r \in Outputs!Reporter |-> "idle"] /\ sent = {} /\ raced = FALSE
      /\ latest = [status |-> stat, started |-> started] /\ reported = latest
  BY DEF Outputs!Init, Outputs!Info
<1>2. latest \in Infos
  BY <1>1 DEF Infos, OutputsInv, OutputTypes
<1>3. UpdateTypes
  BY <1>1, <1>2 DEF UpdateTypes
<1>4. OneEach
  BY <1>1, ReportersApart DEF OneEach
<1>5. Waits /\ LastArrives /\ ReportPends
  BY <1>1 DEF Waits, LastArrives, ReportPends
<1>6. QED  BY <1>3, <1>4, <1>5 DEF UpdatesInv

LEMMA UpdatesHold ==
    ASSUME EndedOnce  PROVE StreamsSpec => []UpdatesInv
<1>1. StreamsInit => UpdatesInv
  BY OutputsStart, UpdatesStart DEF StreamsInit
<1>2. OutputsInv /\ UpdatesInv /\ [StreamsNext]_streamsVars => UpdatesInv'
  BY EndedOnce, UpdatesStay, UpdatesKeep
  DEF StreamsNext, OutputsMove, ConnectionMoves, streamsVars
<1>3. QED  BY <1>1, <1>2, EndedOnce, OutputsHold, PTL DEF StreamsSpec

-----------------------------------------------------------------------------
\* A counted stream that nobody is ending is an output, so that an egress without outputs
\* counts none.
LEMMA NoneCounted ==
    ASSUME OutputsInv, Outputs!Quiet, Other = 0, \A s \in Stream : ~Outputs!Healthy(s)
    PROVE  counted = {}
<1>1. ASSUME NEW s \in counted  PROVE FALSE
  <2>1. s \in Stream /\ s # NoStream
    BY StreamsAssumption DEF OutputsInv, OutputTypes
  <2>2. Output(s)
    BY DEF OutputsInv, CountedHold, Outputs!Quiet
  <2>3. bus.s = NoStream /\ \A c \in Caller : call[c].s = NoStream
    BY DEF OutputsInv, BusHolds, CallHolds, Outputs!Quiet
  <2>4. Outputs!Healthy(s)
    BY <2>1, <2>2, <2>3 DEF Output, Outputs!Healthy
  <2>5. QED  BY <2>1, <2>4
<1>2. QED  BY <1>1

LEMMA SettledStates ==
    ASSUME OutputsInv, UpdatesInv, ConnectionInv  PROVE OutputsSettled
<1>1. Outputs!TypeOK
  <2>1. count \in Nat
    BY CountOfNone DEF OutputsInv
  <2>2. {eos, failed, raced} \subseteq BOOLEAN
    BY DEF OutputsInv, OutputTypes, UpdatesInv, UpdateTypes
  <2>3. Outputs!InfoSet = Infos
    BY DEF Outputs!InfoSet, Infos, StreamStatuses
  <2>4. /\ upd \in [Outputs!Reporter -> {"idle", "checks", "sends", "waits"}]
        /\ sent \subseteq [by : Outputs!Reporter, info : Outputs!InfoSet]
        /\ {reported, latest} \subseteq Outputs!InfoSet
    BY <2>3 DEF UpdatesInv, UpdateTypes
  <2>5. QED
    BY <2>1, <2>2, <2>4
    DEF OutputsInv, OutputTypes, StreamStatuses, CallPlaces, BusPlaces, Outputs!TypeOK
<1>2. Connection!TypeOK
  <2>1. {connected, acked, reconnections, observed, wedged, ended, fresh, found} \subseteq BOOLEAN
    BY DEF ConnectionInv, ConnectionTypes
  <2>2. {bytes, sample, last} \subseteq 0..MaxBytes
    BY DEF ConnectionInv, ConnectionTypes
  <2>3. QED
    BY <2>1, <2>2 DEF ConnectionInv, ConnectionTypes, Connection!TypeOK
<1>3. Outputs!EmptyEnds
  <2>1. SUFFICES ASSUME Outputs!Quiet, Other = 0, \A s \in Stream : ~Outputs!Healthy(s)
                 PROVE  eos \/ failed
    BY DEF Outputs!EmptyEnds
  <2>2. Cardinality(counted) = 0
    BY <2>1, NoneCounted, FS_EmptySet
  <2>3. count = 0
    BY <2>1, <2>2 DEF OutputsInv, Counts
  <2>4. QED  BY <2>1, <2>3 DEF OutputsInv, LastSeen, Outputs!Quiet
<1>4. Outputs!NothingUnreported
  <2>1. SUFFICES ASSUME Outputs!Quiet, ~failed, \A r \in Outputs!Reporter : upd[r] = "idle",
                        \A s \in Stream : stat[s] = "active" => s \in started
                 PROVE  latest = [status |-> stat, started |-> started] /\ (raced \/ reported = latest)
    BY DEF Outputs!NothingUnreported, Outputs!Info
  <2>2. ~StartPending
    BY <2>1 DEF OutputsInv, OutputTypes, StartPending
  <2>3. sent = {}
    BY <2>1 DEF UpdatesInv, UpdateTypes, Waits
  <2>4. latest = [status |-> stat, started |-> started]
    BY <2>1, <2>2 DEF UpdatesInv, ReportPends, Pends, Outputs!Quiet
  <2>5. QED  BY <2>3, <2>4 DEF UpdatesInv, LastArrives
<1>5. QED  BY <1>1, <1>2, <1>3, <1>4 DEF OutputsSettled

(***************************************************************************)
(* When the calls of UpdateStream and the bus are done, the egress was     *)
(* ended if it has no output left, and the last update that was sent has   *)
(* the state of every stream and is what the service knows, unless another *)
(* one was on its way when it was sent; OutputCount and the maps stay      *)
(* consistent (streamFinished, streamFailed, streamUpdated), for any       *)
(* streams that end in one way only.                                       *)
(***************************************************************************)
THEOREM OutputsSettle ==
    ASSUME EndedOnce  PROVE StreamsSpec => []OutputsSettled
<1>1. OutputsInv /\ UpdatesInv /\ ConnectionInv => OutputsSettled
  BY SettledStates
<1>2. QED  BY <1>1, EndedOnce, OutputsHold, UpdatesHold, ConnectionHolds, PTL

LEMMA HealthyStep ==
    ASSUME OutputsInv, [StreamsNext]_streamsVars
    PROVE  [((eos' /\ ~eos) \/ (failed' /\ ~failed))
              => Other = 0 /\ \A s \in Stream : ~Outputs!Healthy(s)]_(Outputs!vars)
<1>1. CASE UNCHANGED outputsVars
  BY <1>1 DEF outputsVars, Outputs!vars, Outputs!streamVars, Outputs!endVars, Outputs!reportVars
<1>2. CASE Outputs!Next
  <2>1. SUFFICES ASSUME (eos' /\ ~eos) \/ (failed' /\ ~failed)
                 PROVE  Other = 0 /\ \A s \in Stream : ~Outputs!Healthy(s)
    OBVIOUS
  <2>2. (\E c \in Caller : Outputs!FinishLoads(c)) \/ Outputs!BusLoads \/ Outputs!BusUnlinks
    BY <1>2, <2>1 DEF Outputs!Next, Outputs!Begin, Outputs!AddStores, Outputs!AddSinks,
       Outputs!AddFails,
       Outputs!AddIncs, Outputs!AddsDone, Outputs!Finishes, Outputs!FinishDecs, Outputs!FinishUnlinks,
       Outputs!Returns, Outputs!AddChecks, Outputs!GetStream, Outputs!BusLookup, Outputs!BusRetries,
       Outputs!BusFails, Outputs!BusDecs, Outputs!StreamStarts, Outputs!UpdateChecks,
       Outputs!UpdateSends, Outputs!HandlerUpdate, Outputs!endVars
  <2>3. ~Outputs!BusUnlinks
    <3>1. SUFFICES ASSUME Outputs!BusUnlinks  PROVE FALSE
      OBVIOUS
    <3>2. bus.s \in sink
      BY <3>1 DEF Outputs!BusUnlinks, OutputsInv, BusHolds
    <3>3. eos' = eos /\ failed' = (bus.s \notin sink)
      BY <3>1 DEF Outputs!BusUnlinks
    <3>4. QED  BY <2>1, <3>2, <3>3
  <2>4. count = 0
    BY <2>1, <2>2, <2>3 DEF Outputs!FinishLoads, Outputs!BusLoads
  <2>5. Other = 0 /\ counted = {}
    BY <2>4, CountOfNone DEF OutputsInv
  <2>6. QED  BY <2>5 DEF Outputs!Healthy
<1>3. QED  BY <1>1, <1>2 DEF StreamsNext, OutputsMove, ConnectionMoves, streamsVars

(***************************************************************************)
(* Neither the removal nor the failure of some streams ends an egress that *)
(* has another output: whoever loads OutputCount as zero is right          *)
(* (streamFinished, streamFailed), for any streams that end in one way     *)
(* only.                                                                   *)
(***************************************************************************)
THEOREM HealthyNeverEnded ==
    ASSUME EndedOnce  PROVE StreamsSpec => HealthyNotEnded
<1>1. OutputsInv /\ [StreamsNext]_streamsVars
        => [((eos' /\ ~eos) \/ (failed' /\ ~failed))
              => Other = 0 /\ \A s \in Stream : ~Outputs!Healthy(s)]_(Outputs!vars)
  BY HealthyStep
<1>2. QED
  BY <1>1, EndedOnce, OutputsHold, PTL DEF StreamsSpec, HealthyNotEnded, Outputs!HealthyNotEnded
=============================================================================
