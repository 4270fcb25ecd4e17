---------------------------- MODULE AppWriterProofs ----------------------------
(***************************************************************************)
(* Proofs about AppWriter, for every depth of the queue, threshold and     *)
(* number of packets: a drain needs no timeout and leaves nothing behind,  *)
(* the alarm comes after a recovery that failed, and the writer implements *)
(* the safety part of the contract the source relies on.                   *)
(*                                                                         *)
(* The second part is about the audio path behind the writer, for every    *)
(* size of a drift and every cap: a correction the tempo controller waits  *)
(* for is being worked on, by one.                                         *)
(***************************************************************************)
EXTENDS AppWriter, AudioPath, TLAPS

(***************************************************************************)
(* The inductive invariant.                                                *)
(***************************************************************************)
Places ==
    /\ pipeline \in {"created", "built", "paused", "playing", "stopping"}
    /\ appsrc \in {"ok", "stranded", "recovered"}
    /\ reader \in {"read", "flush", "notify", "wait", "eos", "done"}
    /\ pusher \in {"start", "paused", "check", "wait", "push", "done"}
    /\ outcome \in {"none", "drained", "gaveUp", "failed"}

Counts ==
    /\ queue \in 0..QueueDepth
    /\ flushing \in 0..FlushingThreshold
    /\ jitter \in Nat /\ received \in Nat /\ pushed \in Nat /\ dropped \in Nat

Flags ==
    /\ draining \in BOOLEAN /\ signaled \in BOOLEAN /\ sourceDone \in BOOLEAN
    /\ processed \in BOOLEAN /\ finished \in BOOLEAN /\ timer \in BOOLEAN
    /\ unrecovered \in BOOLEAN /\ alarm \in BOOLEAN

Types == Places /\ Counts /\ Flags

\* The fuses break in the order of the code.
FusesInOrder ==
    /\ signaled \/ timer => draining
    /\ reader # "read" => signaled /\ jitter = 0
    /\ sourceDone <=> reader \in {"notify", "wait", "eos", "done"}
    /\ finished <=> reader = "done"
    /\ processed <=> pusher = "done"
    /\ outcome # "none" <=> pusher = "done"

\* The notification after the last fuse wakes the pusher up for good.
NotLeftWaiting == reader \in {"wait", "eos", "done"} => pusher # "wait"

\* Every packet is somewhere.
Conserved ==
    received = jitter + queue + pushed + dropped + (IF pusher = "push" THEN 1 ELSE 0)

\* The pusher only returns in order when nothing is to come.
DrainedIsEmpty == outcome = "drained" => sourceDone /\ queue = 0

\* The count of refusals follows the appsrc, and past the half it was tried to recover it.
FlushingTracked ==
    /\ pusher # "done" => flushing < FlushingThreshold
    /\ flushing > 0 => appsrc # "ok" \/ pipeline = "stopping"
    /\ flushing >= FlushingThreshold \div 2 /\ appsrc = "stranded"
          => unrecovered \/ pipeline = "stopping"
    /\ alarm => unrecovered

EndedOnce == reader # "done" => eos = "no"

IInv ==
    /\ Types /\ FusesInOrder /\ NotLeftWaiting /\ Conserved /\ DrainedIsEmpty
    /\ FlushingTracked /\ EndedOnce

\* Half of the threshold is reached before the threshold, and not at once.
LEMMA HalfWay ==
    /\ FlushingThreshold \in Nat /\ QueueDepth \in Nat
    /\ FlushingThreshold \div 2 \in Nat
    /\ 0 < FlushingThreshold \div 2
    /\ FlushingThreshold \div 2 < FlushingThreshold
BY WriterAssumption

LEMMA Initially == Init => IInv
<1> SUFFICES ASSUME Init PROVE IInv
  OBVIOUS
<1>1. Types
  <2>1. Places /\ Flags
    BY DEF Init, Places, Flags
  <2>2. Counts
    BY HalfWay DEF Init, Counts
  <2> QED BY <2>1, <2>2 DEF Types
<1>2. FusesInOrder /\ NotLeftWaiting /\ DrainedIsEmpty /\ EndedOnce
  BY DEF Init, FusesInOrder, NotLeftWaiting, DrainedIsEmpty, EndedOnce
<1>3. Conserved
  BY DEF Init, Conserved
<1>4. FlushingTracked
  BY HalfWay DEF Init, FlushingTracked
<1> QED BY <1>1, <1>2, <1>3, <1>4 DEF IInv

(***************************************************************************)
(* Every step keeps the invariant: by action, and by the part of the       *)
(* invariant the action disturbs.                                          *)
(***************************************************************************)
LEMMA Inductive == IInv /\ [Next]_vars => IInv'
<1> SUFFICES ASSUME IInv, [Next]_vars PROVE IInv'
  OBVIOUS
<1> USE HalfWay DEF IInv, srcVars, fuses, trackVars, sampleVars, pushVars, endVars
<1>1. CASE PipelineGoes
  BY <1>1 DEF PipelineGoes, Types, Places, Counts, Flags, FusesInOrder, NotLeftWaiting,
     Conserved, DrainedIsEmpty, FlushingTracked, EndedOnce
<1>2. CASE Strands
  BY <1>2 DEF Strands, Types, Places, Counts, Flags, FusesInOrder, NotLeftWaiting, Conserved,
     DrainedIsEmpty, FlushingTracked, EndedOnce
<1>3. CASE MarkAddedToPipeline
  BY <1>3 DEF MarkAddedToPipeline, Types, Places, Counts, Flags, FusesInOrder, NotLeftWaiting,
     Conserved, DrainedIsEmpty, FlushingTracked, EndedOnce
<1>4. CASE Playing
  BY <1>4 DEF Playing, Types, Places, Counts, Flags, FusesInOrder, NotLeftWaiting, Conserved,
     DrainedIsEmpty, FlushingTracked, EndedOnce
<1>5. CASE OnUnsubscribed
  BY <1>5 DEF OnUnsubscribed, Types, Places, Counts, Flags, FusesInOrder, NotLeftWaiting,
     Conserved, DrainedIsEmpty, FlushingTracked, EndedOnce
<1>6. ASSUME NEW force \in BOOLEAN, Drain(force) PROVE IInv'
  <2>1. Types'
    BY <1>6 DEF Drain, Heard, Types, Places, Counts, Flags, FusesInOrder
  <2>2. FusesInOrder'
    BY <1>6 DEF Drain, Heard, FusesInOrder
  <2>3. NotLeftWaiting'
    BY <1>6 DEF Drain, Heard, NotLeftWaiting
  <2>4. Conserved'
    BY <1>6 DEF Drain, Heard, Conserved
  <2>5. DrainedIsEmpty'
    BY <1>6 DEF Drain, DrainedIsEmpty
  <2>6. FlushingTracked'
    BY <1>6 DEF Drain, Heard, FlushingTracked
  <2>7. EndedOnce'
    BY <1>6 DEF Drain, EndedOnce
  <2> QED BY <2>1, <2>2, <2>3, <2>4, <2>5, <2>6, <2>7
<1>7. CASE TimerFires
  <2>1. Types'
    <3>1. Places'
      BY <1>7 DEF TimerFires, Heard, Types, Places, FusesInOrder
    <3>2. Counts'
      BY <1>7 DEF TimerFires, Heard, Types, Counts
    <3>3. Flags'
      BY <1>7 DEF TimerFires, Heard, Types, Flags
    <3> QED BY <3>1, <3>2, <3>3 DEF Types
  <2>2. FusesInOrder'
    BY <1>7 DEF TimerFires, Heard, FusesInOrder
  <2>3. NotLeftWaiting'
    BY <1>7 DEF TimerFires, Heard, NotLeftWaiting
  <2>4. Conserved'
    BY <1>7 DEF TimerFires, Heard, Conserved
  <2>5. DrainedIsEmpty'
    BY <1>7 DEF TimerFires, DrainedIsEmpty
  <2>6. FlushingTracked'
    BY <1>7 DEF TimerFires, Heard, FlushingTracked
  <2>7. EndedOnce'
    BY <1>7 DEF TimerFires, EndedOnce
  <2> QED BY <2>1, <2>2, <2>3, <2>4, <2>5, <2>6, <2>7
<1>8. CASE WatcherSteps
  BY <1>8 DEF WatcherSteps, Types, Places, Counts, Flags, FusesInOrder, NotLeftWaiting,
     Conserved, DrainedIsEmpty, FlushingTracked, EndedOnce
<1>9. CASE ReadsPacket
  <2>1. Types'
    BY <1>9 DEF ReadsPacket, Heard, Enqueue, Types, Places, Counts, Flags
  <2>2. FusesInOrder'
    BY <1>9 DEF ReadsPacket, Heard, Enqueue, FusesInOrder
  <2>3. NotLeftWaiting'
    BY <1>9 DEF ReadsPacket, NotLeftWaiting
  <2>4. Conserved'
    BY <1>9 DEF ReadsPacket, Heard, Enqueue, Conserved, Types, Counts
  <2>5. DrainedIsEmpty'
    BY <1>9 DEF ReadsPacket, DrainedIsEmpty, FusesInOrder
  <2>6. FlushingTracked'
    BY <1>9 DEF ReadsPacket, Heard, Enqueue, FlushingTracked
  <2>7. EndedOnce'
    BY <1>9 DEF ReadsPacket, EndedOnce
  <2> QED BY <2>1, <2>2, <2>3, <2>4, <2>5, <2>6, <2>7
<1>10. CASE ReadTimesOut
  <2>1. Types'
    <3>1. Places'
      BY <1>10 DEF ReadTimesOut, Heard, EndsReading, Types, Places, FusesInOrder
    <3>2. Counts'
      BY <1>10 DEF ReadTimesOut, Heard, EndsReading, Types, Counts
    <3>3. Flags'
      BY <1>10 DEF ReadTimesOut, Heard, EndsReading, Types, Flags
    <3> QED BY <3>1, <3>2, <3>3 DEF Types
  <2>2. FusesInOrder'
    BY <1>10 DEF ReadTimesOut, Heard, EndsReading, FusesInOrder
  <2>3. NotLeftWaiting'
    BY <1>10 DEF ReadTimesOut, NotLeftWaiting
  <2>4. Conserved'
    BY <1>10 DEF ReadTimesOut, Heard, EndsReading, Conserved
  <2>5. DrainedIsEmpty'
    BY <1>10 DEF ReadTimesOut, DrainedIsEmpty
  <2>6. FlushingTracked'
    BY <1>10 DEF ReadTimesOut, Heard, EndsReading, FlushingTracked
  <2>7. EndedOnce'
    BY <1>10 DEF ReadTimesOut, EndedOnce
  <2> QED BY <2>1, <2>2, <2>3, <2>4, <2>5, <2>6, <2>7
<1>11. CASE ReadFails
  <2>1. Types'
    <3>1. Places'
      BY <1>11 DEF ReadFails, Heard, EndsReading, Types, Places, FusesInOrder
    <3>2. Counts'
      BY <1>11 DEF ReadFails, Heard, EndsReading, Types, Counts
    <3>3. Flags'
      BY <1>11 DEF ReadFails, Heard, EndsReading, Types, Flags
    <3> QED BY <3>1, <3>2, <3>3 DEF Types
  <2>2. FusesInOrder'
    BY <1>11 DEF ReadFails, Heard, EndsReading, FusesInOrder
  <2>3. NotLeftWaiting'
    BY <1>11 DEF ReadFails, NotLeftWaiting
  <2>4. Conserved'
    BY <1>11 DEF ReadFails, Heard, EndsReading, Conserved
  <2>5. DrainedIsEmpty'
    BY <1>11 DEF ReadFails, DrainedIsEmpty
  <2>6. FlushingTracked'
    BY <1>11 DEF ReadFails, Heard, EndsReading, FlushingTracked
  <2>7. EndedOnce'
    BY <1>11 DEF ReadFails, EndedOnce
  <2> QED BY <2>1, <2>2, <2>3, <2>4, <2>5, <2>6, <2>7
<1>12. CASE FlushesJitterBuffer
  <2>1. Types'
    BY <1>12 DEF FlushesJitterBuffer, Heard, Enqueue, Types, Places, Counts, Flags
  <2>2. FusesInOrder'
    BY <1>12 DEF FlushesJitterBuffer, Heard, Enqueue, FusesInOrder
  <2>3. NotLeftWaiting'
    BY <1>12 DEF FlushesJitterBuffer, NotLeftWaiting
  <2>4. Conserved'
    BY <1>12 DEF FlushesJitterBuffer, Heard, Enqueue, Conserved, Types, Counts
  <2>5. DrainedIsEmpty'
    BY <1>12 DEF FlushesJitterBuffer, DrainedIsEmpty, FusesInOrder
  <2>6. FlushingTracked'
    BY <1>12 DEF FlushesJitterBuffer, Heard, Enqueue, FlushingTracked
  <2>7. EndedOnce'
    BY <1>12 DEF FlushesJitterBuffer, EndedOnce
  <2> QED BY <2>1, <2>2, <2>3, <2>4, <2>5, <2>6, <2>7
<1>13. CASE SourceProcessed
  <2>1. Types'
    <3>1. Places'
      BY <1>13 DEF SourceProcessed, Heard, Types, Places, FusesInOrder
    <3>2. Counts'
      BY <1>13 DEF SourceProcessed, Heard, Types, Counts
    <3>3. Flags'
      BY <1>13 DEF SourceProcessed, Heard, Types, Flags
    <3> QED BY <3>1, <3>2, <3>3 DEF Types
  <2>2. FusesInOrder'
    BY <1>13 DEF SourceProcessed, Heard, FusesInOrder
  <2>3. NotLeftWaiting'
    BY <1>13 DEF SourceProcessed, Heard, NotLeftWaiting
  <2>4. Conserved'
    BY <1>13 DEF SourceProcessed, Heard, Conserved
  <2>5. DrainedIsEmpty'
    BY <1>13 DEF SourceProcessed, DrainedIsEmpty
  <2>6. FlushingTracked'
    BY <1>13 DEF SourceProcessed, Heard, FlushingTracked
  <2>7. EndedOnce'
    BY <1>13 DEF SourceProcessed, EndedOnce
  <2> QED BY <2>1, <2>2, <2>3, <2>4, <2>5, <2>6, <2>7
<1>14. CASE WaitsProcessed
  BY <1>14 DEF WaitsProcessed, Types, Places, Counts, Flags, FusesInOrder, NotLeftWaiting,
     Conserved, DrainedIsEmpty, FlushingTracked, EndedOnce
<1>15. CASE EndsStream
  <2>1. Types'
    BY <1>15 DEF EndsStream, Recovers, Types, Places, Counts, Flags, FusesInOrder
  <2>2. FusesInOrder'
    BY <1>15 DEF EndsStream, FusesInOrder
  <2>3. NotLeftWaiting'
    BY <1>15 DEF EndsStream, NotLeftWaiting
  <2>4. Conserved'
    BY <1>15 DEF EndsStream, Conserved
  <2>5. DrainedIsEmpty'
    BY <1>15 DEF EndsStream, DrainedIsEmpty
  <2>6. FlushingTracked'
    BY <1>15 DEF EndsStream, Recovers, FlushingTracked
  <2>7. EndedOnce'
    BY <1>15 DEF EndsStream, EndedOnce
  <2> QED BY <2>1, <2>2, <2>3, <2>4, <2>5, <2>6, <2>7
<1>16. CASE WaitsFor
  <2>1. Types'
    <3>1. Places'
      BY <1>16 DEF WaitsFor, Returns, Types, Places, FusesInOrder
    <3>2. Counts'
      BY <1>16 DEF WaitsFor, Returns, Types, Counts
    <3>3. Flags'
      BY <1>16 DEF WaitsFor, Returns, Types, Flags
    <3> QED BY <3>1, <3>2, <3>3 DEF Types
  <2>2. FusesInOrder'
    BY <1>16 DEF WaitsFor, Returns, FusesInOrder
  <2>3. NotLeftWaiting'
    BY <1>16 DEF WaitsFor, Returns, NotLeftWaiting
  <2>4. Conserved'
    BY <1>16 DEF WaitsFor, Returns, Conserved
  <2>5. DrainedIsEmpty'
    BY <1>16 DEF WaitsFor, Returns, DrainedIsEmpty
  <2>6. FlushingTracked'
    BY <1>16 DEF WaitsFor, FlushingTracked
  <2>7. EndedOnce'
    BY <1>16 DEF WaitsFor, EndedOnce
  <2> QED BY <2>1, <2>2, <2>3, <2>4, <2>5, <2>6, <2>7
<1>17. CASE ChecksQueue
  <2>1. Types'
    <3>1. Places'
      BY <1>17 DEF ChecksQueue, Returns, Types, Places
    <3>2. Counts'
      BY <1>17 DEF ChecksQueue, Types, Counts
    <3>3. Flags'
      BY <1>17 DEF ChecksQueue, Returns, Types, Flags
    <3> QED BY <3>1, <3>2, <3>3 DEF Types
  <2>2. FusesInOrder'
    BY <1>17 DEF ChecksQueue, Returns, FusesInOrder
  <2>3. NotLeftWaiting'
    BY <1>17 DEF ChecksQueue, Returns, NotLeftWaiting, FusesInOrder
  <2>4. Conserved'
    BY <1>17 DEF ChecksQueue, Returns, Conserved, Types, Counts
  <2>5. DrainedIsEmpty'
    BY <1>17 DEF ChecksQueue, DrainedIsEmpty
  <2>6. FlushingTracked'
    BY <1>17 DEF ChecksQueue, FlushingTracked
  <2>7. EndedOnce'
    BY <1>17 DEF ChecksQueue, EndedOnce
  <2> QED BY <2>1, <2>2, <2>3, <2>4, <2>5, <2>6, <2>7
<1>18. CASE Pushes
  <2>1. Types'
    BY <1>18 DEF Pushes, Types, Places, Counts, Flags
  <2>2. FusesInOrder'
    BY <1>18 DEF Pushes, FusesInOrder
  <2>3. NotLeftWaiting'
    BY <1>18 DEF Pushes, NotLeftWaiting
  <2>4. Conserved'
    BY <1>18 DEF Pushes, Conserved, Types, Counts
  <2>5. DrainedIsEmpty'
    BY <1>18 DEF Pushes, DrainedIsEmpty
  <2>6. FlushingTracked'
    BY <1>18 DEF Pushes, FlushingTracked
  <2>7. EndedOnce'
    BY <1>18 DEF Pushes, EndedOnce
  <2> QED BY <2>1, <2>2, <2>3, <2>4, <2>5, <2>6, <2>7
<1>19. CASE PushFails
  <2>1. Types'
    BY <1>19 DEF PushFails, Returns, Types, Places, Counts, Flags
  <2>2. FusesInOrder'
    BY <1>19 DEF PushFails, Returns, FusesInOrder
  <2>3. NotLeftWaiting'
    BY <1>19 DEF PushFails, Returns, NotLeftWaiting
  <2>4. Conserved'
    BY <1>19 DEF PushFails, Returns, Conserved, Types, Counts
  <2>5. DrainedIsEmpty'
    BY <1>19 DEF PushFails, Returns, DrainedIsEmpty
  <2>6. FlushingTracked'
    BY <1>19 DEF PushFails, FlushingTracked
  <2>7. EndedOnce'
    BY <1>19 DEF PushFails, EndedOnce
  <2> QED BY <2>1, <2>2, <2>3, <2>4, <2>5, <2>6, <2>7
<1>20. CASE PushFlushes
  <2>0. /\ appsrc' \in {appsrc, "recovered"}
        /\ unrecovered' \in BOOLEAN /\ (unrecovered => unrecovered')
        /\ RecoversAt(flushing + 1) => appsrc' # "stranded" \/ unrecovered'
        /\ ~RecoversAt(flushing + 1) => UNCHANGED <<appsrc, unrecovered>>
    BY <1>20 DEF PushFlushes, Recovers, Types, Flags
  <2>1. Types'
    <3>1. Places'
      BY <1>20, <2>0 DEF PushFlushes, Returns, Types, Places
    <3>2. Counts'
      BY <1>20 DEF PushFlushes, Types, Counts, FlushingTracked
    <3>3. Flags'
      BY <1>20, <2>0 DEF PushFlushes, Returns, Types, Flags
    <3> QED BY <3>1, <3>2, <3>3 DEF Types
  <2>2. FusesInOrder'
    BY <1>20 DEF PushFlushes, Returns, FusesInOrder
  <2>3. NotLeftWaiting'
    BY <1>20 DEF PushFlushes, Returns, NotLeftWaiting
  <2>4. Conserved'
    BY <1>20 DEF PushFlushes, Returns, Conserved, Types, Counts
  <2>5. DrainedIsEmpty'
    BY <1>20 DEF PushFlushes, Returns, DrainedIsEmpty
  <2>6. FlushingTracked'
    <3>1. pusher' # "done" => flushing' < FlushingThreshold
      BY <1>20 DEF PushFlushes, Returns
    <3>2. flushing' > 0 => appsrc' # "ok" \/ pipeline' = "stopping"
      BY <1>20, <2>0 DEF PushFlushes, Refuses
    <3>3. flushing' >= FlushingThreshold \div 2 /\ appsrc' = "stranded"
             => unrecovered' \/ pipeline' = "stopping"
      BY <1>20, <2>0 DEF PushFlushes, RecoversAt, FlushingTracked, Types, Counts
    <3>4. alarm' => unrecovered'
      <4>1. CASE flushing + 1 < FlushingThreshold
        BY <1>20, <2>0, <4>1 DEF PushFlushes, FlushingTracked
      <4>2. CASE ~(flushing + 1 < FlushingThreshold)
        <5>1. flushing >= FlushingThreshold \div 2 /\ (alarm' => pipeline # "stopping")
          <6>1. flushing \in Nat /\ flushing >= FlushingThreshold - 1
            BY <4>2 DEF Types, Counts
          <6>2. flushing >= FlushingThreshold \div 2
            BY <6>1
          <6> QED BY <1>20, <4>2, <6>2 DEF PushFlushes
        <5> QED BY <1>20, <2>0, <5>1 DEF PushFlushes, Refuses, FlushingTracked
      <4> QED BY <4>1, <4>2
    <3> QED BY <3>1, <3>2, <3>3, <3>4 DEF FlushingTracked
  <2>7. EndedOnce'
    BY <1>20 DEF PushFlushes, EndedOnce
  <2> QED BY <2>1, <2>2, <2>3, <2>4, <2>5, <2>6, <2>7
<1>21. CASE UNCHANGED vars
  BY <1>21 DEF vars, Types, Places, Counts, Flags, FusesInOrder, NotLeftWaiting, Conserved,
     DrainedIsEmpty, FlushingTracked, EndedOnce
<1> QED BY <1>1, <1>2, <1>3, <1>4, <1>5, <1>6, <1>7, <1>8, <1>9, <1>10, <1>11, <1>12, <1>13,
           <1>14, <1>15, <1>16, <1>17, <1>18, <1>19, <1>20, <1>21 DEF Next, ReaderStep, PusherStep
-----------------------------------------------------------------------------
\* Every state of a run satisfies the invariant.
THEOREM InvariantHolds == Spec => []IInv
BY Initially, Inductive, PTL DEF Spec

\* A writer that drains gets through and leaves nothing behind (Drain, drainJitterBuffer): when
\* the reader waits for the samples, the pusher waits for nothing but a push, and what was
\* received of a track drained in order was pushed or counted as dropped.
THEOREM WriterDrainsAll == Spec => []DrainsAll
<1>1. IInv => DrainsAll
  <2> SUFFICES ASSUME IInv PROVE DrainsAll
    OBVIOUS
  <2>1. TypeOK
    BY DEF IInv, Types, Places, Counts, TypeOK
  <2>2. DrainNeedsNoTimeout
    BY DEF IInv, FusesInOrder, NotLeftWaiting, DrainNeedsNoTimeout, Stuck
  <2>3. NothingLeftBehind
    BY DEF IInv, Types, Counts, FusesInOrder, Conserved, DrainedIsEmpty, NothingLeftBehind
  <2> QED BY <2>1, <2>2, <2>3 DEF DrainsAll
<1> QED BY <1>1, InvariantHolds, PTL

\* Persistent flushing fails the egress only if recovering the appsrc did not help
\* (pushToSource, recoverFromFlushing).
THEOREM WriterAlarms == Spec => []AlarmAfterRecovery
<1>1. IInv => AlarmAfterRecovery
  BY DEF IInv, FlushingTracked, AlarmAfterRecovery
<1> QED BY <1>1, InvariantHolds, PTL

(***************************************************************************)
(* The safety part of the contract.  Only EndsStream finishes the writer,  *)
(* and by then the fuse draining is broken; the rest of the steps break    *)
(* that fuse, mark the appsrc, or show the source nothing.                 *)
(***************************************************************************)
LEMMA ContractStep == IInv /\ [Next]_vars => [Contract!Next]_Contract!vars
<1> SUFFICES ASSUME IInv, [Next]_vars PROVE [Contract!Next]_Contract!vars
  OBVIOUS
<1> USE DEF IInv, Types, Places, Counts, Flags, FusesInOrder, EndedOnce, srcVars, fuses,
       trackVars, sampleVars, pushVars, endVars
<1>1. CASE MarkAddedToPipeline
  <2>1. Contract!Link
    BY <1>1 DEF MarkAddedToPipeline, Contract!Link
  <2> QED BY <2>1 DEF Contract!Next
<1>2. CASE EndsStream
  <2>1. ~finished /\ draining /\ finished' /\ eos = "no" /\ added' = added
    BY <1>2 DEF EndsStream
  <2>2. eos' # "no" <=> added
    BY <1>2, <2>1 DEF EndsStream, OwesEOS
  <2>3. Contract!Finish
    BY <2>1, <2>2 DEF Contract!Finish
  <2> QED BY <2>3 DEF Contract!Next
<1>3. ASSUME UNCHANGED <<added, eos, finished>>, draining' \in {draining, TRUE}
      PROVE  [Contract!Next]_Contract!vars
  <2>1. CASE ~finished /\ ~draining /\ draining'
    <3>1. Contract!End
      BY <1>3, <2>1 DEF Contract!End
    <3> QED BY <3>1 DEF Contract!Next
  <2>2. CASE finished \/ draining \/ ~draining'
    BY <1>3, <2>2 DEF Contract!vars
  <2> QED BY <2>1, <2>2
<1>4. ASSUME ~MarkAddedToPipeline, ~EndsStream
      PROVE  UNCHANGED <<added, eos, finished>> /\ draining' \in {draining, TRUE}
  <2>1. CASE UNCHANGED vars
    BY <2>1 DEF vars
  <2>2. CASE PipelineGoes \/ Strands \/ Playing \/ OnUnsubscribed \/ TimerFires \/ WatcherSteps
    BY <2>2 DEF PipelineGoes, Strands, Playing, OnUnsubscribed, TimerFires, WatcherSteps
  <2>3. CASE \E force \in BOOLEAN : Drain(force)
    BY <2>3 DEF Drain
  <2>4. CASE ReaderStep
    BY <1>4, <2>4 DEF ReaderStep, ReadsPacket, ReadTimesOut, ReadFails, EndsReading,
       FlushesJitterBuffer, SourceProcessed, WaitsProcessed
  <2>5. CASE PusherStep
    BY <2>5 DEF PusherStep, WaitsFor, ChecksQueue, Pushes, PushFails, PushFlushes
  <2> QED BY <1>4, <2>1, <2>2, <2>3, <2>4, <2>5 DEF Next
<1> QED BY <1>1, <1>2, <1>3, <1>4

\* The writer does nothing the source does not expect: it finishes once, only after it ended,
\* and it has then ended the stream exactly if its appsrc was marked as added (EndStream,
\* shouldSendEOS).
THEOREM WriterImplementsContract == Spec => Contract!Safety
<1>1. Init => Contract!Init
  BY DEF Init, Contract!Init
<1> QED BY <1>1, InvariantHolds, ContractStep, PTL DEF Spec, Contract!Safety

-----------------------------------------------------------------------------
(***************************************************************************)
(* The pacer.  A correction that is under way is in the hands of one: the  *)
(* pacer, or a thread with a call that will start, finish or cancel it.    *)
(***************************************************************************)
Hands == {"start", "processed", "cancel"}
Tiers == {"normal", "soft", "hard"}
Steps == {"reanchor", "complete", "credit", "onTierChange", "onDrift"}
Calls == [op : Hands \cup Tiers \cup Steps, n : Int]

Holds(t, i) == i \in 1..Len(thread[t]) /\ thread[t][i].op \in Hands
Held == \E t \in Pacer!Threads : \E i \in Nat : Holds(t, i)
OneHolds ==
    \A t, u \in Pacer!Threads : \A i, j \in Nat : Holds(t, i) /\ Holds(u, j) => t = u /\ i = j

PacerTypes ==
    /\ drift \in Int /\ corrected \in Int /\ current \in Int
    /\ target \in Int /\ rate \in Int /\ compensation \in Int
    /\ reanchor \in Nat /\ pacing \in BOOLEAN
    /\ tier \in Tiers
    /\ thread \in [Pacer!Threads -> Seq(Calls)]
    /\ \A i \in 1..Len(thread["stream"]) :
          thread["stream"][i].op = "reanchor" => thread["stream"][i].n \in Nat

\* The callback is registered by the last call of the build.
RegistersLast ==
    \A i \in 1..Len(thread["build"]) :
        thread["build"][i].op = "onDrift" => i = Len(thread["build"]) /\ "drift" \notin registered

InOneHand ==
    /\ OneHolds
    /\ Held => ~pacing
    /\ Held \/ pacing => current # 0 /\ "drift" \in registered
    /\ current # 0 => pacing \/ Held \/ "drift" \notin registered

PacerInv == PacerTypes /\ RegistersLast /\ InOneHand

\* A thread that made its next call: what it has to do for it comes first.
LEMMA PacerThen ==
    ASSUME thread \in [Pacer!Threads -> Seq(Calls)], NEW t \in Pacer!Threads,
           thread[t] # <<>>, NEW calls \in Seq(Calls), Pacer!Then(t, calls)
    PROVE  /\ thread' \in [Pacer!Threads -> Seq(Calls)]
           /\ \A u \in Pacer!Threads : u # t => thread'[u] = thread[u]
           /\ Len(thread'[t]) = Len(calls) + Len(thread[t]) - 1
           /\ \A i \in 1..Len(calls) : thread'[t][i] = calls[i]
           /\ \A i \in (Len(calls) + 1)..Len(thread'[t]) :
                 thread'[t][i] = thread[t][i - Len(calls) + 1]
<1>1. thread[t] \in Seq(Calls) /\ Len(thread[t]) \in Nat \ {0}
  OBVIOUS
<1>2. Pacer!Rest(t) \in Seq(Calls) /\ Len(Pacer!Rest(t)) = Len(thread[t]) - 1
  BY <1>1 DEF Pacer!Rest
<1> QED BY <1>1, <1>2 DEF Pacer!Then, Pacer!Rest

\* A thread that begins has the program it was given.
LEMMA PacerBegins ==
    ASSUME thread \in [Pacer!Threads -> Seq(Calls)], NEW t \in Pacer!Threads,
           NEW calls \in Seq(Calls), Pacer!Begins(t, calls)
    PROVE  /\ thread' \in [Pacer!Threads -> Seq(Calls)]
           /\ \A u \in Pacer!Threads : u # t => thread'[u] = thread[u]
           /\ thread[t] = <<>> /\ thread'[t] = calls
BY DEF Pacer!Begins

\* A thread makes its next call and has no correction to deal with for it.
LEMMA PassesNothing ==
    ASSUME thread \in [Pacer!Threads -> Seq(Calls)], NEW t \in Pacer!Threads,
           thread[t] # <<>>, NEW calls \in Seq(Calls), Pacer!Then(t, calls),
           \A i \in 1..Len(calls) : calls[i].op \notin Hands, OneHolds
    PROVE  /\ OneHolds'
           /\ thread[t][1].op \in Hands => ~Held'
           /\ thread[t][1].op \notin Hands => Held' = Held
<1> DEFINE m == Len(calls)
<1>1. m \in Nat /\ thread[t] \in Seq(Calls) /\ Len(thread[t]) \in Nat \ {0}
  OBVIOUS
<1>0. /\ Len(thread'[t]) = m + Len(thread[t]) - 1
      /\ \A i \in 1..m : thread'[t][i] = calls[i]
      /\ \A i \in (m + 1)..Len(thread'[t]) : thread'[t][i] = thread[t][i - m + 1]
  BY PacerThen
<1>2. \A u \in Pacer!Threads : u # t => \A i \in Nat : Holds(u, i)' <=> Holds(u, i)
  BY PacerThen DEF Holds
<1>3. \A i \in Nat : Holds(t, i)' => i > m /\ Holds(t, i - m + 1)
  <2> SUFFICES ASSUME NEW i \in Nat, Holds(t, i)' PROVE i > m /\ Holds(t, i - m + 1)
    OBVIOUS
  <2>1. i \in 1..Len(thread'[t]) /\ thread'[t][i].op \in Hands
    BY DEF Holds
  <2>2. i > m
    BY <1>0, <1>1, <2>1
  <2>3. i \in (m + 1)..Len(thread'[t]) /\ i - m + 1 \in 1..Len(thread[t])
    BY <1>0, <1>1, <2>1, <2>2
  <2>4. thread[t][i - m + 1].op \in Hands
    BY <1>0, <2>1, <2>3
  <2> QED BY <2>2, <2>3, <2>4 DEF Holds
<1>4. \A i \in Nat : Holds(t, i) /\ i > 1 => Holds(t, i + m - 1)'
  <2> SUFFICES ASSUME NEW i \in Nat, Holds(t, i), i > 1 PROVE Holds(t, i + m - 1)'
    OBVIOUS
  <2>1. i \in 1..Len(thread[t]) /\ thread[t][i].op \in Hands
    BY DEF Holds
  <2>2. i + m - 1 \in (m + 1)..Len(thread'[t]) /\ (i + m - 1) - m + 1 = i
    BY <1>0, <1>1, <2>1
  <2>3. thread'[t][i + m - 1] = thread[t][i]
    BY <1>0, <2>2
  <2>4. i + m - 1 \in 1..Len(thread'[t])
    BY <1>1, <2>2
  <2> QED BY <2>1, <2>3, <2>4 DEF Holds
<1>5. OneHolds'
  <2> SUFFICES ASSUME NEW u \in Pacer!Threads, NEW v \in Pacer!Threads,
                      NEW i \in Nat, NEW j \in Nat, Holds(u, i)', Holds(v, j)'
               PROVE  u = v /\ i = j
    BY DEF OneHolds
  <2>1. CASE u = t /\ v = t
    <3>1. i > m /\ j > m /\ Holds(t, i - m + 1) /\ Holds(t, j - m + 1)
      BY <1>3, <2>1
    <3>2. i - m + 1 \in Nat /\ j - m + 1 \in Nat
      BY <1>1, <3>1
    <3> QED BY <1>1, <2>1, <3>1, <3>2 DEF OneHolds
  <2>2. CASE u # t /\ v # t
    BY <1>2, <2>2 DEF OneHolds
  <2>3. CASE u = t /\ v # t
    BY <1>1, <1>2, <1>3, <2>3 DEF OneHolds
  <2>4. CASE u # t /\ v = t
    BY <1>1, <1>2, <1>3, <2>4 DEF OneHolds
  <2> QED BY <2>1, <2>2, <2>3, <2>4
<1>6. ASSUME thread[t][1].op \in Hands, Held' PROVE FALSE
  <2>1. Holds(t, 1)
    BY <1>1, <1>6 DEF Holds
  <2>2. PICK u \in Pacer!Threads : \E i \in Nat : Holds(u, i)'
    BY <1>6 DEF Held
  <2>3. PICK i \in Nat : Holds(u, i)'
    BY <2>2
  <2>4. CASE u = t
    <3>1. i > m /\ Holds(t, i - m + 1) /\ i - m + 1 \in Nat /\ i - m + 1 # 1
      BY <1>1, <1>3, <2>3, <2>4
    <3> QED BY <2>1, <3>1 DEF OneHolds
  <2>5. CASE u # t
    BY <1>2, <2>1, <2>3, <2>5 DEF OneHolds
  <2> QED BY <2>4, <2>5
<1>7. ASSUME thread[t][1].op \notin Hands PROVE Held' <=> Held
  <2>1. ASSUME Held' PROVE Held
    BY <1>1, <1>2, <1>3, <2>1 DEF Held
  <2>2. ASSUME Held PROVE Held'
    <3>1. PICK u \in Pacer!Threads : \E i \in Nat : Holds(u, i)
      BY <2>2 DEF Held
    <3>2. PICK i \in Nat : Holds(u, i)
      BY <3>1
    <3>3. CASE u = t
      <4>1. i > 1
        BY <1>7, <3>2, <3>3 DEF Holds
      <4>2. i + m - 1 \in Nat /\ Holds(t, i + m - 1)'
        BY <1>1, <1>4, <3>2, <3>3, <4>1
      <4> QED BY <4>2 DEF Held
    <3>4. CASE u # t
      BY <1>2, <3>2, <3>4 DEF Held
    <3> QED BY <3>3, <3>4
  <2> QED BY <2>1, <2>2
<1> QED BY <1>5, <1>6, <1>7 DEF Held

\* A thread makes its next call and has a correction to start after it, or to finish.
LEMMA PassesOne ==
    ASSUME thread \in [Pacer!Threads -> Seq(Calls)], NEW t \in Pacer!Threads,
           thread[t] # <<>>, NEW calls \in Seq(Calls), Pacer!Then(t, calls),
           calls # <<>>, calls[1].op \in Hands,
           \A i \in 2..Len(calls) : calls[i].op \notin Hands,
           OneHolds, thread[t][1].op \in Hands \/ ~Held
    PROVE  OneHolds' /\ Held'
<1> DEFINE m == Len(calls)
<1>1. m \in Nat \ {0} /\ thread[t] \in Seq(Calls) /\ Len(thread[t]) \in Nat \ {0}
  OBVIOUS
<1>0. /\ Len(thread'[t]) = m + Len(thread[t]) - 1
      /\ \A i \in 1..m : thread'[t][i] = calls[i]
      /\ \A i \in (m + 1)..Len(thread'[t]) : thread'[t][i] = thread[t][i - m + 1]
  BY PacerThen
<1>2. \A u \in Pacer!Threads : u # t => \A i \in Nat : Holds(u, i)' <=> Holds(u, i)
  BY PacerThen DEF Holds
<1>3. \A i \in Nat : Holds(t, i)' /\ i # 1 => i > m /\ Holds(t, i - m + 1)
  <2> SUFFICES ASSUME NEW i \in Nat, Holds(t, i)', i # 1 PROVE i > m /\ Holds(t, i - m + 1)
    OBVIOUS
  <2>1. i \in 1..Len(thread'[t]) /\ thread'[t][i].op \in Hands
    BY DEF Holds
  <2>2. i > m
    BY <1>0, <1>1, <2>1
  <2>3. i \in (m + 1)..Len(thread'[t]) /\ i - m + 1 \in 1..Len(thread[t])
    BY <1>0, <1>1, <2>1, <2>2
  <2>4. thread[t][i - m + 1].op \in Hands
    BY <1>0, <2>1, <2>3
  <2> QED BY <2>2, <2>3, <2>4 DEF Holds
<1>4. \A u \in Pacer!Threads : \A i \in Nat : Holds(u, i) => u = t /\ i = 1
  <2>1. CASE thread[t][1].op \in Hands
    BY <1>1, <2>1 DEF Holds, OneHolds
  <2>2. CASE ~Held
    BY <2>2 DEF Held
  <2> QED BY <2>1, <2>2
<1>5. \A u \in Pacer!Threads : \A i \in Nat : Holds(u, i)' => u = t /\ i = 1
  <2> SUFFICES ASSUME NEW u \in Pacer!Threads, NEW i \in Nat, Holds(u, i)'
               PROVE  u = t /\ i = 1
    OBVIOUS
  <2>1. CASE u # t
    BY <1>2, <1>4, <2>1
  <2>2. CASE u = t
    <3> SUFFICES ASSUME i # 1 PROVE FALSE
      BY <2>2
    <3>1. i > m /\ Holds(t, i - m + 1) /\ i - m + 1 \in Nat /\ i - m + 1 # 1
      BY <1>1, <1>3, <2>2
    <3> QED BY <1>4, <3>1
  <2> QED BY <2>1, <2>2
<1>6. Holds(t, 1)'
  BY <1>0, <1>1 DEF Holds
<1> QED BY <1>5, <1>6 DEF OneHolds, Held

\* A thread begins, with at most the first of its calls to deal with a correction.
LEMMA BeginsOne ==
    ASSUME thread \in [Pacer!Threads -> Seq(Calls)], NEW t \in Pacer!Threads,
           NEW calls \in Seq(Calls), Pacer!Begins(t, calls),
           \A i \in 2..Len(calls) : calls[i].op \notin Hands,
           OneHolds
    PROVE  /\ calls = <<>> \/ calls[1].op \notin Hands => OneHolds' /\ Held' = Held
           /\ calls # <<>> /\ calls[1].op \in Hands /\ ~Held => OneHolds' /\ Held'
<1>1. \A u \in Pacer!Threads : u # t => \A i \in Nat : Holds(u, i)' <=> Holds(u, i)
  BY PacerBegins DEF Holds
<1>2. \A i \in Nat : ~Holds(t, i)
  BY PacerBegins DEF Holds
<1>3. \A i \in Nat : Holds(t, i)' <=> i = 1 /\ calls # <<>> /\ calls[1].op \in Hands
  BY PacerBegins DEF Holds
<1>4. ASSUME calls = <<>> \/ calls[1].op \notin Hands PROVE OneHolds' /\ (Held' <=> Held)
  <2>1. \A u \in Pacer!Threads : \A i \in Nat : Holds(u, i)' <=> Holds(u, i)
    BY <1>1, <1>2, <1>3, <1>4
  <2> QED BY <2>1 DEF OneHolds, Held
<1>5. ASSUME calls # <<>>, calls[1].op \in Hands, ~Held PROVE OneHolds' /\ Held'
  <2>1. \A u \in Pacer!Threads : \A i \in Nat : Holds(u, i)' <=> u = t /\ i = 1
    BY <1>1, <1>3, <1>5 DEF Held
  <2> QED BY <2>1 DEF OneHolds, Held
<1> QED BY <1>4, <1>5 DEF Held

\* What the pacer's programs say of themselves survives a call that is made ...
LEMMA ThenKeepsPrograms ==
    ASSUME PacerTypes, RegistersLast, NEW t \in Pacer!Threads, thread[t] # <<>>,
           NEW calls \in Seq(Calls), Pacer!Then(t, calls),
           \A i \in 1..Len(calls) : calls[i].op \notin {"reanchor", "onDrift"}
    PROVE  /\ thread' \in [Pacer!Threads -> Seq(Calls)]
           /\ \A i \in 1..Len(thread'["stream"]) :
                 thread'["stream"][i].op = "reanchor" => thread'["stream"][i].n \in Nat
           /\ \A i \in 1..Len(thread'["build"]) :
                 thread'["build"][i].op = "onDrift"
                    => /\ i = Len(thread'["build"]) /\ "drift" \notin registered
                       /\ t = "build" => thread["build"][1].op # "onDrift"
<1> DEFINE m == Len(calls)
<1>0. /\ thread \in [Pacer!Threads -> Seq(Calls)]
      /\ "stream" \in Pacer!Threads /\ "build" \in Pacer!Threads
  BY DEF PacerTypes, Pacer!Threads
<1>1. m \in Nat /\ thread[t] \in Seq(Calls) /\ Len(thread[t]) \in Nat \ {0}
  BY <1>0
<1>2. /\ thread' \in [Pacer!Threads -> Seq(Calls)]
      /\ \A u \in Pacer!Threads : u # t => thread'[u] = thread[u]
      /\ Len(thread'[t]) = m + Len(thread[t]) - 1
      /\ \A i \in 1..m : thread'[t][i] = calls[i]
      /\ \A i \in (m + 1)..Len(thread'[t]) : thread'[t][i] = thread[t][i - m + 1]
  BY <1>0, PacerThen
<1>3. ASSUME NEW i \in 1..Len(thread'[t]), thread'[t][i].op \in {"reanchor", "onDrift"}
      PROVE  /\ i - m + 1 \in 2..Len(thread[t]) /\ thread'[t][i] = thread[t][i - m + 1]
  <2>1. i > m
    BY <1>1, <1>2, <1>3
  <2>2. i \in (m + 1)..Len(thread'[t])
    BY <1>1, <1>2, <2>1
  <2>3. i - m + 1 \in 2..Len(thread[t])
    BY <1>1, <1>2, <2>2
  <2> QED BY <1>2, <2>2, <2>3
<1>4. ASSUME NEW i \in 1..Len(thread'["stream"]), thread'["stream"][i].op = "reanchor"
      PROVE  thread'["stream"][i].n \in Nat
  <2>1. CASE t = "stream"
    <3>1. /\ i - m + 1 \in 1..Len(thread["stream"])
          /\ thread'["stream"][i] = thread["stream"][i - m + 1]
      BY <1>1, <1>3, <1>4, <2>1
    <3> QED BY <1>4, <3>1 DEF PacerTypes
  <2>2. CASE t # "stream"
    BY <1>0, <1>2, <1>4, <2>2 DEF PacerTypes
  <2> QED BY <2>1, <2>2
<1>5. ASSUME NEW i \in 1..Len(thread'["build"]), thread'["build"][i].op = "onDrift"
      PROVE  /\ i = Len(thread'["build"]) /\ "drift" \notin registered
             /\ t = "build" => thread["build"][1].op # "onDrift"
  <2>1. CASE t = "build"
    <3>1. /\ i - m + 1 \in 2..Len(thread["build"])
          /\ thread'["build"][i] = thread["build"][i - m + 1]
      BY <1>1, <1>3, <1>5, <2>1
    <3>0. i - m + 1 \in 1..Len(thread["build"])
      BY <1>1, <2>1, <3>1
    <3>2. i - m + 1 = Len(thread["build"]) /\ "drift" \notin registered
      BY <1>5, <3>0, <3>1 DEF RegistersLast
    <3>3. thread["build"][1].op # "onDrift"
      BY <1>1, <2>1, <3>1, <3>2 DEF RegistersLast
    <3> QED BY <1>1, <1>2, <2>1, <3>2, <3>3
  <2>2. CASE t # "build"
    BY <1>0, <1>2, <1>5, <2>2 DEF RegistersLast
  <2> QED BY <2>1, <2>2
<1> QED BY <1>2, <1>4, <1>5

\* ... and a program that begins.
LEMMA BeginsKeepsPrograms ==
    ASSUME PacerTypes, RegistersLast, NEW t \in Pacer!Threads, t # "build",
           NEW calls \in Seq(Calls), Pacer!Begins(t, calls),
           \A i \in 1..Len(calls) : calls[i].op = "reanchor" => calls[i].n \in Nat
    PROVE  /\ thread' \in [Pacer!Threads -> Seq(Calls)]
           /\ \A i \in 1..Len(thread'["stream"]) :
                 thread'["stream"][i].op = "reanchor" => thread'["stream"][i].n \in Nat
           /\ \A i \in 1..Len(thread'["build"]) :
                 thread'["build"][i].op = "onDrift"
                    => i = Len(thread'["build"]) /\ "drift" \notin registered
<1>0. /\ thread \in [Pacer!Threads -> Seq(Calls)]
      /\ "stream" \in Pacer!Threads /\ "build" \in Pacer!Threads
  BY DEF PacerTypes, Pacer!Threads
<1>1. /\ thread' \in [Pacer!Threads -> Seq(Calls)]
      /\ \A u \in Pacer!Threads : u # t => thread'[u] = thread[u]
      /\ thread'[t] = calls
  BY <1>0, PacerBegins
<1>2. \A i \in 1..Len(thread'["build"]) :
         thread'["build"][i].op = "onDrift"
            => i = Len(thread'["build"]) /\ "drift" \notin registered
  BY <1>0, <1>1 DEF RegistersLast
<1>3. \A i \in 1..Len(thread'["stream"]) :
         thread'["stream"][i].op = "reanchor" => thread'["stream"][i].n \in Nat
  <2>1. CASE t = "stream"
    BY <1>1, <2>1
  <2>2. CASE t # "stream"
    BY <1>0, <1>1, <2>2 DEF PacerTypes
  <2> QED BY <2>1, <2>2
<1> QED BY <1>1, <1>2, <1>3

\* The callbacks start the correction that was decided, if there is one, first.
LEMMA CallbacksStart ==
    ASSUME NEW n \in Int, NEW newTier \in Tiers
    PROVE  /\ Pacer!Callbacks(n, newTier) \in Seq(Calls)
           /\ \A i \in 1..Len(Pacer!Callbacks(n, newTier)) :
                 Pacer!Callbacks(n, newTier)[i].op \notin {"reanchor", "onDrift"}
           /\ \A i \in 2..Len(Pacer!Callbacks(n, newTier)) :
                 Pacer!Callbacks(n, newTier)[i].op \notin Hands
           /\ n # 0 /\ "drift" \in registered
                 => /\ Pacer!Callbacks(n, newTier) # <<>>
                    /\ Pacer!Callbacks(n, newTier)[1].op \in Hands
           /\ ~(n # 0 /\ "drift" \in registered)
                 => \A i \in 1..Len(Pacer!Callbacks(n, newTier)) :
                       Pacer!Callbacks(n, newTier)[i].op \notin Hands
<1> DEFINE st == << Pacer!Call("start", n) >>
           ch == << Pacer!Call(newTier, 0) >>
<1>0. Pacer!Call("start", n) \in Calls /\ Pacer!Call(newTier, 0) \in Calls
  BY DEF Calls, Hands, Pacer!Call
<1>1. st \in Seq(Calls) /\ ch \in Seq(Calls) /\ <<>> \in Seq(Calls) /\ Len(st) = 1 /\ Len(ch) = 1
  BY <1>0
<1>2. st[1].op = "start" /\ ch[1].op \in Tiers
  BY DEF Pacer!Call
<1>3. n # 0 /\ "drift" \in registered
        => Pacer!Callbacks(n, newTier) \in {st \o ch, st \o <<>>}
  BY DEF Pacer!Callbacks
<1>4. ~(n # 0 /\ "drift" \in registered)
        => Pacer!Callbacks(n, newTier) \in {<<>> \o ch, <<>> \o <<>>}
  BY DEF Pacer!Callbacks
<1> HIDE DEF st, ch
<1>5. /\ st \o ch \in Seq(Calls) /\ Len(st \o ch) = 2
      /\ (st \o ch)[1] = st[1] /\ (st \o ch)[2] = ch[1]
  <2>0. st \o ch \in Seq(Calls)
    BY <1>1
  <2>1. Len(st \o ch) = 2
    BY <1>1
  <2>2. (st \o ch)[1] = st[1]
    BY <1>1
  <2>3. (st \o ch)[2] = ch[1]
    BY DEF st, ch
  <2> QED BY <2>0, <2>1, <2>2, <2>3
<1>6. st \o <<>> \in Seq(Calls) /\ Len(st \o <<>>) = 1 /\ (st \o <<>>)[1] = st[1]
  BY <1>1
<1>7. <<>> \o ch \in Seq(Calls) /\ Len(<<>> \o ch) = 1 /\ (<<>> \o ch)[1] = ch[1]
  BY <1>1
<1>8. <<>> \o <<>> \in Seq(Calls) /\ Len(<<>> \o <<>>) = 0
  BY <1>1
<1>9. CASE n # 0 /\ "drift" \in registered
  <2>1. CASE Pacer!Callbacks(n, newTier) = st \o ch
    <3> DEFINE c == Pacer!Callbacks(n, newTier)
    <3>1. c \in Seq(Calls) /\ Len(c) = 2 /\ c[1].op = "start" /\ c[2].op \in Tiers
      BY <1>2, <1>5, <2>1
    <3> HIDE DEF c
    <3>0. c # <<>>
      <4>1. Len(c) # 0
        BY <3>1
      <4> QED BY <4>1
    <3>2. \A i \in 2..Len(c) : i = 2
      BY <3>1
    <3>3. \A i \in 1..Len(c) : i = 1 \/ i = 2
      BY <3>1
    <3>4. \A i \in 1..Len(c) : c[i].op \notin {"reanchor", "onDrift"}
      BY <3>1, <3>3 DEF Tiers
    <3>5. \A i \in 2..Len(c) : c[i].op \notin Hands
      BY <3>1, <3>2 DEF Tiers, Hands
    <3> QED BY <1>9, <3>0, <3>1, <3>4, <3>5 DEF Hands, c
  <2>2. CASE Pacer!Callbacks(n, newTier) = st \o <<>>
    <3> DEFINE c == Pacer!Callbacks(n, newTier)
    <3>1. c \in Seq(Calls) /\ Len(c) = 1 /\ c[1].op = "start"
      BY <1>2, <1>6, <2>2
    <3> HIDE DEF c
    <3>2. c # <<>> /\ \A i \in 2..Len(c) : FALSE
      BY <3>1
    <3>3. \A i \in 1..Len(c) : i = 1
      BY <3>1
    <3> QED BY <1>9, <3>1, <3>2, <3>3 DEF Hands, c
  <2> QED BY <1>3, <1>9, <2>1, <2>2
<1>10. CASE ~(n # 0 /\ "drift" \in registered)
  <2>1. CASE Pacer!Callbacks(n, newTier) = <<>> \o ch
    <3> DEFINE c == Pacer!Callbacks(n, newTier)
    <3>1. c \in Seq(Calls) /\ Len(c) = 1 /\ c[1].op \in Tiers
      BY <1>2, <1>7, <2>1
    <3> HIDE DEF c
    <3>2. \A i \in 2..Len(c) : FALSE
      BY <3>1
    <3>3. \A i \in 1..Len(c) : i = 1
      BY <3>1
    <3> QED BY <1>10, <3>1, <3>2, <3>3 DEF Hands, Tiers, c
  <2>2. CASE Pacer!Callbacks(n, newTier) = <<>> \o <<>>
    BY <1>8, <1>10, <2>2 DEF Hands
  <2> QED BY <1>4, <1>10, <2>1, <2>2
<1> QED BY <1>9, <1>10

\* The invariant holds when the track's bin is about to be built.
LEMMA PacerBeginsWell == Pacer!Init => PacerInv
<1> SUFFICES ASSUME Pacer!Init PROVE PacerInv
  OBVIOUS
<1>1. \A t \in Pacer!Threads : t # "build" => thread[t] = <<>>
  BY DEF Pacer!Init
<1>2. thread["build"] = << Pacer!Call("onTierChange", 0), Pacer!Call("onDrift", 0) >>
  BY DEF Pacer!Init, Pacer!Threads
<1>3. Pacer!Call("onTierChange", 0) \in Calls /\ Pacer!Call("onDrift", 0) \in Calls
  BY DEF Calls, Steps, Pacer!Call
<1>4. /\ thread["build"] \in Seq(Calls) /\ Len(thread["build"]) = 2
      /\ thread["build"][1].op = "onTierChange" /\ thread["build"][2].op = "onDrift"
  BY <1>2, <1>3 DEF Pacer!Call
<1>5. thread \in [Pacer!Threads -> Seq(Calls)]
  BY <1>1, <1>3, <1>4 DEF Pacer!Init, Pacer!Threads
<1>6. thread["stream"] = <<>>
  BY <1>1 DEF Pacer!Threads
<1>0. /\ drift = 0 /\ corrected = 0 /\ current = 0 /\ target = 0 /\ rate = 0 /\ compensation = 0
      /\ reanchor = 2 /\ pacing = FALSE /\ tier = "normal" /\ registered = {}
  BY DEF Pacer!Init
<1>7. PacerTypes
  <2>1. \A i \in 1..Len(thread["stream"]) : FALSE
    BY <1>6
  <2>2. pacing \in BOOLEAN
    BY <1>0
  <2> QED BY <1>0, <1>5, <2>1, <2>2 DEF PacerTypes, Tiers
<1>8. RegistersLast
  BY <1>0, <1>4 DEF RegistersLast
<1>9. \A i \in 1..Len(thread["build"]) : thread["build"][i].op \notin Hands
  BY <1>4 DEF Hands
<1>10. \A t \in Pacer!Threads : \A i \in Nat : ~Holds(t, i)
  BY <1>1, <1>9 DEF Holds
<1>11. InOneHand
  BY <1>0, <1>10 DEF InOneHand, OneHolds, Held
<1> QED BY <1>7, <1>8, <1>11 DEF PacerInv

\* What the controller decides for a drift has its type.
LEMMA CorrectionTypes ==
    ASSUME PacingAssumption, NEW e \in Int
    PROVE  Pacer!tierFor(e) \in Tiers /\ Pacer!Correction(e) \in Int
BY DEF Pacer!tierFor, Pacer!Correction, Tiers

\* A thread whose next call deals with the correction is the one that has it.
LEMMA NextHolds ==
    ASSUME PacerTypes, InOneHand, NEW t \in Pacer!Threads, thread[t] # <<>>,
           thread[t][1].op \in Hands
    PROVE  Holds(t, 1) /\ Held /\ ~pacing /\ current # 0 /\ "drift" \in registered
<1>1. thread[t] \in Seq(Calls)
  BY DEF PacerTypes
<1>2. 1 \in 1..Len(thread[t])
  BY <1>1
<1>3. Holds(t, 1) /\ Held
  BY <1>2 DEF Holds, Held
<1> QED BY <1>3 DEF InOneHand

\* SetDrift starts a correction only when none is in flight.
LEMMA PacerSetDrift ==
    ASSUME PacerInv, PacingAssumption, NEW d \in Int, Pacer!SetDrift(d) PROVE PacerInv'
<1> DEFINE e == d - corrected
           n == IF Pacer!MayStart THEN Pacer!Correction(e) ELSE 0
           calls == Pacer!Callbacks(n, Pacer!tierFor(e))
<1>1. PacerTypes /\ RegistersLast /\ InOneHand /\ "report" \in Pacer!Threads
  BY DEF PacerInv, Pacer!Threads
<1>2. e \in Int
  BY <1>1 DEF PacerTypes
<1>3. Pacer!tierFor(e) \in Tiers /\ n \in Int
  BY <1>2, CorrectionTypes
<1>4. /\ Pacer!Begins("report", calls) /\ tier' = Pacer!tierFor(e) /\ drift' = d
      /\ current' = IF n # 0 THEN n ELSE current
      /\ n # 0 => current = 0
      /\ UNCHANGED <<corrected, registered, pacing, target, rate, compensation, reanchor>>
  BY DEF Pacer!SetDrift, Pacer!pacer, Pacer!MayStart
<1> HIDE DEF e, n
<1>5. /\ calls \in Seq(Calls)
      /\ \A i \in 1..Len(calls) : calls[i].op \notin {"reanchor", "onDrift"}
      /\ \A i \in 2..Len(calls) : calls[i].op \notin Hands
      /\ n # 0 /\ "drift" \in registered => calls # <<>> /\ calls[1].op \in Hands
      /\ ~(n # 0 /\ "drift" \in registered) => \A i \in 1..Len(calls) : calls[i].op \notin Hands
  BY <1>3, CallbacksStart
<1> HIDE DEF calls
<1>6. PacerTypes' /\ RegistersLast'
  <2>1. /\ thread' \in [Pacer!Threads -> Seq(Calls)]
        /\ \A i \in 1..Len(thread'["stream"]) :
              thread'["stream"][i].op = "reanchor" => thread'["stream"][i].n \in Nat
        /\ \A i \in 1..Len(thread'["build"]) :
              thread'["build"][i].op = "onDrift"
                 => i = Len(thread'["build"]) /\ "drift" \notin registered
    BY <1>1, <1>4, <1>5, BeginsKeepsPrograms
  <2> QED BY <1>1, <1>3, <1>4, <2>1 DEF PacerTypes, RegistersLast
<1>7. /\ calls = <<>> \/ calls[1].op \notin Hands => OneHolds' /\ (Held' <=> Held)
      /\ calls # <<>> /\ calls[1].op \in Hands /\ ~Held => OneHolds' /\ Held'
  BY <1>1, <1>4, <1>5, BeginsOne DEF PacerTypes, InOneHand
<1>8. InOneHand'
  <2>1. CASE n # 0 /\ "drift" \in registered
    BY <1>1, <1>4, <1>5, <1>7, <2>1 DEF InOneHand
  <2>2. CASE ~(n # 0 /\ "drift" \in registered)
    <3>1. calls = <<>> \/ calls[1].op \notin Hands
      BY <1>5, <2>2
    <3> QED BY <1>1, <1>3, <1>4, <1>7, <2>2, <3>1 DEF InOneHand
  <2> QED BY <2>1, <2>2
<1> QED BY <1>6, <1>8 DEF PacerInv

\* DriftProcessed ends a correction and may start the next in the same hand.
LEMMA PacerDriftProcessed ==
    ASSUME PacerInv, PacingAssumption, Pacer!DriftProcessed PROVE PacerInv'
<1> DEFINE e == drift - corrected'
           n == Pacer!Correction(e)
           calls == Pacer!Callbacks(n, Pacer!tierFor(e))
<1>1. PacerTypes /\ RegistersLast /\ InOneHand /\ "stream" \in Pacer!Threads
  BY DEF PacerInv, Pacer!Threads
<1>2. /\ thread["stream"] # <<>> /\ thread["stream"][1].op = "processed"
      /\ corrected' = corrected + thread["stream"][1].n
      /\ current' = n /\ tier' = Pacer!tierFor(e) /\ Pacer!Then("stream", calls)
      /\ UNCHANGED <<drift, registered, pacing, target, rate, compensation, reanchor>>
  BY DEF Pacer!DriftProcessed, Pacer!Todo, Pacer!Credits, Pacer!pacer
<1>3. corrected' \in Int /\ e \in Int
  <2>1. thread["stream"] \in Seq(Calls) /\ thread["stream"][1] \in Calls
    BY <1>1, <1>2 DEF PacerTypes
  <2> QED BY <1>1, <1>2, <2>1 DEF PacerTypes, Calls
<1>4. Pacer!tierFor(e) \in Tiers /\ n \in Int
  BY <1>3, CorrectionTypes
<1>5. Holds("stream", 1) /\ Held /\ ~pacing /\ "drift" \in registered
  BY <1>1, <1>2, NextHolds DEF Hands
<1> HIDE DEF e, n
<1>6. /\ calls \in Seq(Calls)
      /\ \A i \in 1..Len(calls) : calls[i].op \notin {"reanchor", "onDrift"}
      /\ \A i \in 2..Len(calls) : calls[i].op \notin Hands
      /\ n # 0 /\ "drift" \in registered => calls # <<>> /\ calls[1].op \in Hands
      /\ ~(n # 0 /\ "drift" \in registered) => \A i \in 1..Len(calls) : calls[i].op \notin Hands
  BY <1>4, CallbacksStart
<1> HIDE DEF calls
<1>7. PacerTypes' /\ RegistersLast'
  <2>1. /\ thread' \in [Pacer!Threads -> Seq(Calls)]
        /\ \A i \in 1..Len(thread'["stream"]) :
              thread'["stream"][i].op = "reanchor" => thread'["stream"][i].n \in Nat
        /\ \A i \in 1..Len(thread'["build"]) :
              thread'["build"][i].op = "onDrift"
                 => i = Len(thread'["build"]) /\ "drift" \notin registered
    BY <1>1, <1>2, <1>6, ThenKeepsPrograms
  <2> QED BY <1>1, <1>2, <1>3, <1>4, <2>1 DEF PacerTypes, RegistersLast
<1>8. thread \in [Pacer!Threads -> Seq(Calls)] /\ OneHolds /\ thread["stream"][1].op \in Hands
  BY <1>1, <1>2 DEF PacerTypes, InOneHand, Hands
<1>9. CASE n # 0
  <2>1. OneHolds' /\ Held'
    BY <1>1, <1>2, <1>5, <1>6, <1>8, <1>9, PassesOne
  <2> QED BY <1>2, <1>5, <1>7, <1>9, <2>1 DEF PacerInv, InOneHand
<1>10. CASE n = 0
  <2>1. OneHolds' /\ ~Held'
    BY <1>1, <1>2, <1>5, <1>6, <1>8, <1>10, PassesNothing
  <2> QED BY <1>2, <1>5, <1>7, <1>10, <2>1 DEF PacerInv, InOneHand
<1> QED BY <1>9, <1>10

\* The programs after a step: what PacerTypes and RegistersLast say of them.
ProgramsWell ==
    /\ thread \in [Pacer!Threads -> Seq(Calls)]
    /\ \A i \in 1..Len(thread["stream"]) :
          thread["stream"][i].op = "reanchor" => thread["stream"][i].n \in Nat
    /\ RegistersLast

\* The next call of a thread has its type.
LEMMA NextIsCall ==
    ASSUME PacerTypes, NEW t \in Pacer!Threads, thread[t] # <<>>
    PROVE  thread[t][1] \in Calls /\ thread[t][1].n \in Int
<1>1. thread[t] \in Seq(Calls)
  BY DEF PacerTypes
<1>2. thread[t][1] \in Calls
  BY <1>1
<1> QED BY <1>2 DEF Calls

\* A call that is over, with nothing to do for it.
LEMMA CallOver ==
    ASSUME PacerInv, NEW t \in Pacer!Threads, thread[t] # <<>>, Pacer!Then(t, <<>>),
           registered' = registered
    PROVE  /\ ProgramsWell' /\ OneHolds'
           /\ thread[t][1].op \in Hands => ~Held'
           /\ thread[t][1].op \notin Hands => (Held' <=> Held)
<1> DEFINE calls == <<>>
<1>1. PacerTypes /\ RegistersLast /\ OneHolds /\ thread \in [Pacer!Threads -> Seq(Calls)]
  BY DEF PacerInv, PacerTypes, InOneHand
<1>2. /\ calls \in Seq(Calls) /\ \A i \in 1..Len(calls) : FALSE
      /\ Pacer!Then(t, calls)
  OBVIOUS
<1> HIDE DEF calls
<1>3. ProgramsWell'
  BY <1>1, <1>2, ThenKeepsPrograms DEF ProgramsWell, RegistersLast
<1>4. /\ OneHolds'
      /\ thread[t][1].op \in Hands => ~Held'
      /\ thread[t][1].op \notin Hands => (Held' <=> Held)
  BY <1>1, <1>2, PassesNothing
<1> QED BY <1>3, <1>4

\* start takes the correction over, or has the controller forget it.
LEMMA PacerStart ==
    ASSUME PacerInv, NEW t \in Pacer!Threads, Pacer!Start(t) PROVE PacerInv'
<1>1. PacerTypes /\ RegistersLast /\ InOneHand
  BY DEF PacerInv
<1>2. /\ thread[t] # <<>> /\ thread[t][1].op = "start" /\ Pacer!Then(t, <<>>)
      /\ UNCHANGED <<drift, corrected, tier, registered>>
  BY DEF Pacer!Start, Pacer!Todo
<1>3. thread[t][1].n \in Int /\ ~pacing /\ current # 0 /\ "drift" \in registered
  BY <1>1, <1>2, NextIsCall, NextHolds DEF Hands
<1>4. ProgramsWell' /\ OneHolds' /\ ~Held'
  BY <1>2, CallOver DEF Hands
<1>5. \/ /\ pacing' = TRUE /\ target' = thread[t][1].n /\ compensation' = 0
         /\ rate' \in {Pacer!pacerRate(thread[t][1].n, 2), Pacer!pacerRate(thread[t][1].n, 1)}
         /\ UNCHANGED <<current, reanchor>>
      \/ /\ current' = 0
         /\ UNCHANGED <<pacing, target, rate, compensation, reanchor>>
  <2>1. reanchor = 0 \/ reanchor > 0
    BY <1>1 DEF PacerTypes
  <2> QED BY <1>3, <2>1 DEF Pacer!Start, Pacer!MayArm, Pacer!pacer
<1>6. PacerTypes'
  <2>1. Pacer!pacerRate(thread[t][1].n, 2) \in Int /\ Pacer!pacerRate(thread[t][1].n, 1) \in Int
    BY <1>3 DEF Pacer!pacerRate
  <2>2. current' \in Int /\ target' \in Int /\ rate' \in Int /\ compensation' \in Int
    BY <1>1, <1>3, <1>5, <2>1 DEF PacerTypes
  <2>3. reanchor' \in Nat /\ pacing' \in BOOLEAN
    BY <1>1, <1>5 DEF PacerTypes
  <2> QED BY <1>1, <1>2, <1>4, <2>2, <2>3 DEF PacerTypes, ProgramsWell
<1>7. InOneHand'
  BY <1>1, <1>2, <1>3, <1>4, <1>5 DEF InOneHand
<1> QED BY <1>4, <1>6, <1>7 DEF PacerInv, ProgramsWell

\* boost and brake change the rate of the correction only.
LEMMA PacerTierChanged ==
    ASSUME PacerInv, NEW t \in Pacer!Threads, Pacer!TierChanged(t) PROVE PacerInv'
<1>1. PacerTypes /\ RegistersLast /\ InOneHand
  BY DEF PacerInv
<1>2. /\ thread[t] # <<>> /\ thread[t][1].op \in Tiers /\ Pacer!Then(t, <<>>)
      /\ UNCHANGED <<drift, corrected, current, tier, registered, pacing, target,
                     compensation, reanchor>>
      /\ rate' \in {rate, Pacer!pacerRate(target, 1), Pacer!pacerRate(target, 2)}
  BY DEF Pacer!TierChanged, Pacer!Todo, Pacer!controller, Tiers
<1>3. ProgramsWell' /\ OneHolds' /\ (Held' <=> Held)
  BY <1>2, CallOver DEF Hands, Tiers
<1>4. PacerTypes'
  BY <1>1, <1>2, <1>3 DEF PacerTypes, ProgramsWell, Pacer!pacerRate
<1>5. InOneHand'
  BY <1>1, <1>2, <1>3 DEF InOneHand
<1> QED BY <1>3, <1>4, <1>5 DEF PacerInv, ProgramsWell

\* onInput writes the reanchor count it computed.
LEMMA PacerReanchors ==
    ASSUME PacerInv, Pacer!Reanchors PROVE PacerInv'
<1>1. PacerTypes /\ RegistersLast /\ InOneHand /\ "stream" \in Pacer!Threads
  BY DEF PacerInv, Pacer!Threads
<1>2. /\ thread["stream"] # <<>> /\ thread["stream"][1].op = "reanchor"
      /\ Pacer!Then("stream", <<>>) /\ reanchor' = thread["stream"][1].n
      /\ UNCHANGED <<drift, corrected, current, tier, registered, pacing, target, rate,
                     compensation>>
  BY DEF Pacer!Reanchors, Pacer!Todo, Pacer!controller
<1>3. ProgramsWell' /\ OneHolds' /\ (Held' <=> Held)
  BY <1>1, <1>2, CallOver DEF Hands
<1>4. reanchor' \in Nat
  BY <1>1, <1>2 DEF PacerTypes
<1>5. PacerTypes'
  BY <1>1, <1>2, <1>3, <1>4 DEF PacerTypes, ProgramsWell
<1>6. InOneHand'
  BY <1>1, <1>2, <1>3 DEF InOneHand
<1> QED BY <1>3, <1>5, <1>6 DEF PacerInv, ProgramsWell

\* onInput credits a buffer to the correction that runs.
LEMMA PacerCredit ==
    ASSUME PacerInv, Pacer!Credit PROVE PacerInv'
<1>1. PacerTypes /\ RegistersLast /\ InOneHand /\ "stream" \in Pacer!Threads
  BY DEF PacerInv, Pacer!Threads
<1>2. /\ thread["stream"] # <<>> /\ thread["stream"][1].op = "credit"
      /\ Pacer!Then("stream", <<>>) /\ compensation' \in {compensation, compensation + rate}
      /\ UNCHANGED <<drift, corrected, current, tier, registered, pacing, target, rate,
                     reanchor>>
  BY DEF Pacer!Credit, Pacer!Todo, Pacer!controller
<1>3. ProgramsWell' /\ OneHolds' /\ (Held' <=> Held)
  BY <1>1, <1>2, CallOver DEF Hands
<1>4. PacerTypes'
  BY <1>1, <1>2, <1>3 DEF PacerTypes, ProgramsWell
<1>5. InOneHand'
  BY <1>1, <1>2, <1>3 DEF InOneHand
<1> QED BY <1>3, <1>4, <1>5 DEF PacerInv, ProgramsWell

\* CancelInFlight: the controller forgets the correction a flush ended.
LEMMA PacerCancelInFlight ==
    ASSUME PacerInv, Pacer!CancelInFlight PROVE PacerInv'
<1>1. PacerTypes /\ RegistersLast /\ InOneHand /\ "flush" \in Pacer!Threads
  BY DEF PacerInv, Pacer!Threads
<1>2. /\ thread["flush"] # <<>> /\ thread["flush"][1].op = "cancel"
      /\ Pacer!Then("flush", <<>>) /\ current' = 0
      /\ UNCHANGED <<drift, corrected, tier, registered, pacing, target, rate,
                     compensation, reanchor>>
  BY DEF Pacer!CancelInFlight, Pacer!Todo, Pacer!pacer
<1>3. ProgramsWell' /\ OneHolds' /\ ~Held' /\ ~pacing
  BY <1>1, <1>2, CallOver, NextHolds DEF Hands
<1>4. PacerTypes'
  BY <1>1, <1>2, <1>3 DEF PacerTypes, ProgramsWell
<1>5. InOneHand'
  BY <1>1, <1>2, <1>3 DEF InOneHand
<1> QED BY <1>3, <1>4, <1>5 DEF PacerInv, ProgramsWell

\* A program that begins and deals with no correction.
LEMMA Begun ==
    ASSUME PacerInv, NEW t \in Pacer!Threads, t # "build", NEW calls \in Seq(Calls),
           Pacer!Begins(t, calls), registered' = registered,
           \A i \in 1..Len(calls) : calls[i].op \notin Hands,
           \A i \in 1..Len(calls) : calls[i].op = "reanchor" => calls[i].n \in Nat
    PROVE  ProgramsWell' /\ OneHolds' /\ (Held' <=> Held)
<1>1. PacerTypes /\ RegistersLast /\ OneHolds /\ thread \in [Pacer!Threads -> Seq(Calls)]
  BY DEF PacerInv, PacerTypes, InOneHand
<1>2. ProgramsWell'
  BY <1>1, BeginsKeepsPrograms DEF ProgramsWell, RegistersLast
<1>3. /\ calls = <<>> \/ calls[1].op \notin Hands
      /\ \A i \in 2..Len(calls) : calls[i].op \notin Hands
  OBVIOUS
<1>4. OneHolds' /\ (Held' <=> Held)
  BY <1>1, <1>3, BeginsOne
<1> QED BY <1>2, <1>4

\* A program of one call.
LEMMA OneCall ==
    ASSUME NEW op \in Hands \cup Tiers \cup Steps, NEW n \in Int
    PROVE  /\ << Pacer!Call(op, n) >> \in Seq(Calls) /\ Len(<< Pacer!Call(op, n) >>) = 1
           /\ << Pacer!Call(op, n) >>[1].op = op /\ << Pacer!Call(op, n) >>[1].n = n
           /\ << Pacer!Call(op, n) >> # <<>>
           /\ \A i \in 1..Len(<< Pacer!Call(op, n) >>) :
                 << Pacer!Call(op, n) >>[i].op = op /\ << Pacer!Call(op, n) >>[i].n = n
<1>1. Pacer!Call(op, n) \in Calls /\ Pacer!Call(op, n).op = op /\ Pacer!Call(op, n).n = n
  BY DEF Calls, Pacer!Call
<1> DEFINE c == Pacer!Call(op, n)
           cs == << c >>
<1>2. cs \in Seq(Calls) /\ Len(cs) = 1 /\ cs[1] = c
  BY <1>1
<1>3. c.op = op /\ c.n = n
  BY <1>1
<1> HIDE DEF c, cs
<1>4. \A i \in 1..Len(cs) : i = 1
  BY <1>2
<1>5. cs # <<>>
  BY <1>2
<1> QED BY <1>2, <1>3, <1>4, <1>5 DEF c, cs

\* onInput reads the reanchor count.
LEMMA PacerInputReanchors ==
    ASSUME PacerInv, Pacer!InputReanchors PROVE PacerInv'
<1> DEFINE calls == << Pacer!Call("reanchor", reanchor - 1) >>
<1>1. PacerTypes /\ RegistersLast /\ InOneHand /\ "stream" \in Pacer!Threads
  BY DEF PacerInv, Pacer!Threads
<1>2. /\ Pacer!Begins("stream", calls) /\ reanchor > 0
      /\ UNCHANGED <<drift, corrected, current, tier, registered, pacing, target, rate,
                     compensation, reanchor>>
  BY DEF Pacer!InputReanchors, Pacer!controller, Pacer!pacer
<1>3. reanchor - 1 \in Nat /\ reanchor - 1 \in Int /\ "reanchor" \in Hands \cup Tiers \cup Steps
  BY <1>1, <1>2 DEF PacerTypes, Steps
<1>4. /\ calls \in Seq(Calls)
      /\ \A i \in 1..Len(calls) : calls[i].op = "reanchor" /\ calls[i].n = reanchor - 1
  BY <1>3, OneCall
<1> HIDE DEF calls
<1>5. ProgramsWell' /\ OneHolds' /\ (Held' <=> Held)
  BY <1>1, <1>2, <1>3, <1>4, Begun DEF Hands
<1>6. PacerTypes'
  BY <1>1, <1>2, <1>5 DEF PacerTypes, ProgramsWell
<1>7. InOneHand'
  BY <1>1, <1>2, <1>5 DEF InOneHand
<1> QED BY <1>5, <1>6, <1>7 DEF PacerInv, ProgramsWell

\* onInput finds a correction running.
LEMMA PacerInput ==
    ASSUME PacerInv, Pacer!Input PROVE PacerInv'
<1> DEFINE two == << Pacer!Call("complete", compensation), Pacer!Call("credit", 0) >>
           one == << Pacer!Call("credit", 0) >>
<1>1. PacerTypes /\ RegistersLast /\ InOneHand /\ "stream" \in Pacer!Threads
  BY DEF PacerInv, Pacer!Threads
<1>2. UNCHANGED <<drift, corrected, current, tier, registered, pacing, target, rate,
                  compensation, reanchor>>
  BY DEF Pacer!Input, Pacer!controller, Pacer!pacer
<1>3. PICK calls \in {one, two} : Pacer!Begins("stream", calls)
  BY DEF Pacer!Input
<1>4. Pacer!Call("complete", compensation) \in Calls /\ Pacer!Call("credit", 0) \in Calls
  BY <1>1 DEF Calls, Pacer!Call, PacerTypes, Steps
<1>5. two \in Seq(Calls) /\ Len(two) = 2 /\ two[1].op = "complete" /\ two[2].op = "credit"
  BY <1>4 DEF Pacer!Call
<1>6. one \in Seq(Calls) /\ Len(one) = 1 /\ one[1].op = "credit"
  BY <1>4 DEF Pacer!Call
<1> HIDE DEF one, two
<1>7. calls \in Seq(Calls) /\ \A i \in 1..Len(calls) : calls[i].op \in {"complete", "credit"}
  <2>1. \A i \in 1..Len(two) : two[i].op \in {"complete", "credit"}
    BY <1>5
  <2>2. \A i \in 1..Len(one) : one[i].op \in {"complete", "credit"}
    BY <1>6
  <2> QED BY <1>3, <1>5, <1>6, <2>1, <2>2
<1>8. ProgramsWell' /\ OneHolds' /\ (Held' <=> Held)
  BY <1>1, <1>2, <1>3, <1>7, Begun DEF Hands
<1>9. PacerTypes'
  BY <1>1, <1>2, <1>8 DEF PacerTypes, ProgramsWell
<1>10. InOneHand'
  BY <1>1, <1>2, <1>8 DEF InOneHand
<1> QED BY <1>8, <1>9, <1>10 DEF PacerInv, ProgramsWell

\* Who ends the correction is the one who tells the controller.
LEMMA PacerComplete ==
    ASSUME PacerInv, Pacer!Complete PROVE PacerInv'
<1> DEFINE n == thread["stream"][1].n
           calls == << Pacer!Call("processed", n) >>
<1>1. PacerTypes /\ RegistersLast /\ InOneHand /\ "stream" \in Pacer!Threads
  BY DEF PacerInv, Pacer!Threads
<1>2. /\ thread["stream"] # <<>> /\ thread["stream"][1].op = "complete"
      /\ pacing' = FALSE /\ rate' \in {0, rate}
      /\ Pacer!Then("stream", IF pacing THEN calls ELSE <<>>)
      /\ UNCHANGED <<drift, corrected, current, tier, registered, target, compensation,
                     reanchor>>
  BY DEF Pacer!Complete, Pacer!Todo, Pacer!controller
<1>3. pacing \in BOOLEAN /\ thread \in [Pacer!Threads -> Seq(Calls)] /\ OneHolds
  BY <1>1 DEF PacerTypes, InOneHand
<1>0. pacing' \in BOOLEAN
  BY <1>2
<1>4. CASE pacing
  <2>1. Pacer!Then("stream", calls) /\ ~Held
    BY <1>1, <1>2, <1>4 DEF InOneHand
  <2>2. n \in Int /\ "processed" \in Hands /\ "processed" \in Hands \cup Tiers \cup Steps
    BY <1>1, <1>2, NextIsCall DEF Hands
  <2>3. /\ calls \in Seq(Calls) /\ calls # <<>> /\ calls[1].op = "processed" /\ Len(calls) = 1
        /\ \A i \in 1..Len(calls) : calls[i].op = "processed"
    BY <2>2, OneCall
  <2> HIDE DEF calls, n
  <2>4. \A i \in 2..Len(calls) : FALSE
    BY <2>3
  <2>5. OneHolds' /\ Held'
    BY <1>1, <1>2, <1>3, <2>1, <2>2, <2>3, <2>4, PassesOne
  <2>6. ProgramsWell'
    BY <1>1, <1>2, <2>1, <2>3, ThenKeepsPrograms DEF ProgramsWell, RegistersLast
  <2>7. PacerTypes'
    BY <1>0, <1>1, <1>2, <2>6 DEF PacerTypes, ProgramsWell
  <2>8. InOneHand'
    BY <1>1, <1>2, <1>4, <2>5 DEF InOneHand
  <2> QED BY <2>6, <2>7, <2>8 DEF PacerInv, ProgramsWell
<1>5. CASE ~pacing
  <2>1. ProgramsWell' /\ OneHolds' /\ (Held' <=> Held)
    BY <1>1, <1>2, <1>5, CallOver DEF Hands
  <2>2. PacerTypes'
    BY <1>0, <1>1, <1>2, <2>1 DEF PacerTypes, ProgramsWell
  <2>3. InOneHand'
    BY <1>1, <1>2, <1>5, <2>1 DEF InOneHand
  <2> QED BY <2>1, <2>2, <2>3 DEF PacerInv, ProgramsWell
<1> QED BY <1>3, <1>4, <1>5

\* cancelOnFlush takes the correction from the pacer and has it cancelled.
LEMMA PacerCancelOnFlush ==
    ASSUME PacerInv, Pacer!CancelOnFlush PROVE PacerInv'
<1> DEFINE calls == << Pacer!Call("cancel", 0) >>
           none == <<>>
<1>1. PacerTypes /\ RegistersLast /\ InOneHand /\ "flush" \in Pacer!Threads
  BY DEF PacerInv, Pacer!Threads
<1>2. /\ reanchor' = 2 /\ pacing' = FALSE /\ rate' \in {0, rate}
      /\ Pacer!Begins("flush", IF pacing THEN calls ELSE none)
      /\ UNCHANGED <<drift, corrected, current, tier, registered, target, compensation>>
  BY DEF Pacer!CancelOnFlush, Pacer!Cancelled, Pacer!controller
<1>3. pacing \in BOOLEAN /\ thread \in [Pacer!Threads -> Seq(Calls)] /\ OneHolds
  BY <1>1 DEF PacerTypes, InOneHand
<1>0. pacing' \in BOOLEAN /\ reanchor' \in Nat /\ rate' \in Int
  <2>1. pacing' \in BOOLEAN
    BY <1>2
  <2>2. reanchor' \in Nat /\ rate' \in Int
    BY <1>1, <1>2 DEF PacerTypes
  <2> QED BY <2>1, <2>2
<1>4. CASE pacing
  <2>1. Pacer!Begins("flush", calls) /\ ~Held
    BY <1>1, <1>2, <1>4 DEF InOneHand
  <2>2. "cancel" \in Hands /\ "cancel" \in Hands \cup Tiers \cup Steps
    BY DEF Hands
  <2>3. /\ calls \in Seq(Calls) /\ calls # <<>> /\ calls[1].op = "cancel" /\ Len(calls) = 1
        /\ \A i \in 1..Len(calls) : calls[i].op = "cancel"
    BY <2>2, OneCall
  <2> HIDE DEF calls
  <2>4. \A i \in 2..Len(calls) : FALSE
    BY <2>3
  <2>5. OneHolds' /\ Held'
    BY <1>1, <1>3, <2>1, <2>2, <2>3, <2>4, BeginsOne
  <2>6. ProgramsWell'
    BY <1>1, <1>2, <2>1, <2>3, BeginsKeepsPrograms DEF ProgramsWell, RegistersLast
  <2>7. PacerTypes'
    <3>1. UNCHANGED <<drift, corrected, current, tier, target, compensation>>
      BY <1>2
    <3> QED BY <1>0, <1>1, <3>1, <2>6 DEF PacerTypes, ProgramsWell
  <2>8. InOneHand'
    BY <1>1, <1>2, <1>4, <2>5 DEF InOneHand
  <2> QED BY <2>6, <2>7, <2>8 DEF PacerInv, ProgramsWell
<1>5. CASE ~pacing
  <2>0. Pacer!Begins("flush", none) /\ none \in Seq(Calls) /\ \A i \in 1..Len(none) : FALSE
    BY <1>2, <1>5
  <2> HIDE DEF none
  <2>1. ProgramsWell' /\ OneHolds' /\ (Held' <=> Held)
    BY <1>1, <1>2, <2>0, Begun
  <2>2. PacerTypes'
    <3>1. UNCHANGED <<drift, corrected, current, tier, target, compensation>>
      BY <1>2
    <3> QED BY <1>0, <1>1, <3>1, <2>1 DEF PacerTypes, ProgramsWell
  <2>3. InOneHand'
    BY <1>1, <1>2, <1>5, <2>1 DEF InOneHand
  <2> QED BY <2>1, <2>2, <2>3 DEF PacerInv, ProgramsWell
<1> QED BY <1>3, <1>4, <1>5

\* OnTierChange registers its callback and replays the tier.
LEMMA PacerOnTierChange ==
    ASSUME PacerInv, Pacer!OnTierChange PROVE PacerInv'
<1> DEFINE calls == << Pacer!Call(tier, 0) >>
           none == <<>>
<1>1. PacerTypes /\ RegistersLast /\ InOneHand /\ "build" \in Pacer!Threads
  BY DEF PacerInv, Pacer!Threads
<1>2. /\ thread["build"] # <<>> /\ thread["build"][1].op = "onTierChange"
      /\ registered' = registered \cup {"tier"}
      /\ \/ Pacer!Then("build", calls)
         \/ Pacer!Then("build", none)
      /\ UNCHANGED <<drift, corrected, current, tier, pacing, target, rate, compensation,
                     reanchor>>
  BY DEF Pacer!OnTierChange, Pacer!Todo, Pacer!controller, Pacer!pacer
<1>3. thread \in [Pacer!Threads -> Seq(Calls)] /\ OneHolds
  BY <1>1 DEF PacerTypes, InOneHand
<1>4. calls \in Seq(Calls) /\ \A i \in 1..Len(calls) : calls[i].op = tier
  BY <1>1, OneCall DEF PacerTypes
<1>5. none \in Seq(Calls) /\ \A i \in 1..Len(none) : FALSE
  OBVIOUS
<1> HIDE DEF calls, none
<1>6. PICK cs \in Seq(Calls) : Pacer!Then("build", cs) /\ \A i \in 1..Len(cs) : cs[i].op = tier
  BY <1>2, <1>4, <1>5
<1>7. \A i \in 1..Len(cs) : cs[i].op \notin Hands /\ cs[i].op \notin {"reanchor", "onDrift"}
  BY <1>1, <1>6 DEF PacerTypes, Tiers, Hands
<1>8. OneHolds' /\ (Held' <=> Held)
  BY <1>1, <1>2, <1>3, <1>6, <1>7, PassesNothing DEF Hands
<1>9. "drift" \in registered' <=> "drift" \in registered
  BY <1>2
<1>10. ProgramsWell'
  BY <1>1, <1>2, <1>6, <1>7, <1>9, ThenKeepsPrograms DEF ProgramsWell, RegistersLast
<1>11. PacerTypes'
  BY <1>1, <1>2, <1>10 DEF PacerTypes, ProgramsWell
<1>12. InOneHand'
  BY <1>1, <1>2, <1>8, <1>9 DEF InOneHand
<1> QED BY <1>10, <1>11, <1>12 DEF PacerInv, ProgramsWell

\* A correction that was decided before the callback was set is handed over now.
LEMMA PacerOnDriftDetectedCallback ==
    ASSUME PacerInv, Pacer!OnDriftDetectedCallback PROVE PacerInv'
<1> DEFINE calls == << Pacer!Call("start", current) >>
           none == <<>>
<1>1. PacerTypes /\ RegistersLast /\ InOneHand /\ "build" \in Pacer!Threads
  BY DEF PacerInv, Pacer!Threads
<1>2. /\ thread["build"] # <<>> /\ thread["build"][1].op = "onDrift"
      /\ registered' = registered \cup {"drift"}
      /\ Pacer!Then("build", IF current # 0 THEN calls ELSE none)
      /\ UNCHANGED <<drift, corrected, current, tier, pacing, target, rate, compensation,
                     reanchor>>
  BY DEF Pacer!OnDriftDetectedCallback, Pacer!Todo, Pacer!controller, Pacer!pacer, Pacer!Replays
<1>3. thread \in [Pacer!Threads -> Seq(Calls)] /\ OneHolds
  BY <1>1 DEF PacerTypes, InOneHand
<1>4. "drift" \notin registered /\ ~Held /\ ~pacing
  <2>1. thread["build"] \in Seq(Calls)
    BY <1>1, <1>3
  <2>2. 1 \in 1..Len(thread["build"])
    BY <1>2, <2>1
  <2> QED BY <1>1, <1>2, <2>2 DEF RegistersLast, InOneHand
<1>5. /\ calls \in Seq(Calls) /\ Len(calls) = 1 /\ calls # <<>> /\ calls[1].op \in Hands
      /\ \A i \in 1..Len(calls) : calls[i].op = "start"
  BY <1>1, OneCall DEF PacerTypes, Hands
<1>6. none \in Seq(Calls) /\ \A i \in 1..Len(none) : FALSE
  OBVIOUS
<1> HIDE DEF calls, none
<1>7. OneHolds' /\ (Held' <=> current # 0)
  <2>1. CASE current # 0
    <3>1. \A i \in 2..Len(calls) : FALSE
      BY <1>5
    <3>2. OneHolds' /\ Held'
      BY <1>1, <1>2, <1>3, <1>4, <1>5, <2>1, <3>1, PassesOne
    <3> QED BY <2>1, <3>2
  <2>2. CASE current = 0
    <3>1. OneHolds' /\ ~Held'
      BY <1>1, <1>2, <1>3, <1>4, <1>6, <2>2, PassesNothing
    <3> QED BY <2>2, <3>1
  <2> QED BY <2>1, <2>2
<1>8. ProgramsWell'
  <2>1. PICK cs \in {calls, none} : Pacer!Then("build", cs)
    BY <1>2
  <2>2. cs \in Seq(Calls) /\ \A i \in 1..Len(cs) : cs[i].op \notin {"reanchor", "onDrift"}
    BY <1>5, <1>6, <2>1
  <2>3. /\ thread' \in [Pacer!Threads -> Seq(Calls)]
        /\ \A i \in 1..Len(thread'["stream"]) :
              thread'["stream"][i].op = "reanchor" => thread'["stream"][i].n \in Nat
        /\ \A i \in 1..Len(thread'["build"]) : thread'["build"][i].op # "onDrift"
    BY <1>1, <1>2, <2>1, <2>2, ThenKeepsPrograms
  <2> QED BY <2>3 DEF ProgramsWell, RegistersLast
<1>9. PacerTypes'
  BY <1>1, <1>2, <1>8 DEF PacerTypes, ProgramsWell
<1>10. InOneHand'
  BY <1>1, <1>2, <1>4, <1>7 DEF InOneHand
<1> QED BY <1>8, <1>9, <1>10 DEF PacerInv, ProgramsWell

\* A step that leaves the pacer alone.
LEMMA PacerStands ==
    ASSUME PacerInv, UNCHANGED pacerVars PROVE PacerInv'
BY DEF PacerInv, PacerTypes, RegistersLast, InOneHand, OneHolds, Held, Holds, pacerVars

\* Every step of the path preserves the invariant.
LEMMA PacerStep ==
    ASSUME PacingAssumption, PacerInv, [PathNext]_pathVars PROVE PacerInv'
<1>1. CASE Pacer!Next
  <2>1. ASSUME NEW d \in Sizes, Pacer!SetDrift(d) \/ Pacer!SetDrift(-d) PROVE PacerInv'
    <3>1. d \in Int /\ -d \in Int
      BY <2>1 DEF PacingAssumption
    <3> QED BY <2>1, <3>1, PacerSetDrift
  <2>2. ASSUME NEW t \in Pacer!Threads, Pacer!Start(t) \/ Pacer!TierChanged(t) PROVE PacerInv'
    BY <2>2, PacerStart, PacerTierChanged
  <2>3. ASSUME Pacer!Streams PROVE PacerInv'
    BY <2>3, PacerInputReanchors, PacerReanchors, PacerInput, PacerComplete, PacerCredit,
       PacerDriftProcessed DEF Pacer!Streams
  <2> QED BY <1>1, <2>1, <2>2, <2>3, PacerCancelOnFlush, PacerCancelInFlight, PacerOnTierChange,
             PacerOnDriftDetectedCallback DEF Pacer!Next, Pacer!Report
<1>2. CASE UNCHANGED pacerVars
  BY <1>2, PacerStands
<1> QED BY <1>1, <1>2 DEF PathNext, PacerMoves, FillerMoves, pathVars

\* The invariant implies the property.
LEMMA InHandIsHeld ==
    ASSUME PacerInv PROVE CorrectionHeld
<1>1. PacerTypes /\ InOneHand
  BY DEF PacerInv
<1>2. Pacer!NotForgotten
  <2> SUFFICES ASSUME current # 0 PROVE pacing \/ Pacer!UnderWay
    BY DEF Pacer!NotForgotten
  <2>1. CASE Held
    BY <2>1 DEF Held, Holds, Hands, Pacer!UnderWay
  <2>2. CASE ~Held
    BY <1>1, <2>2 DEF InOneHand, Pacer!UnderWay
  <2> QED BY <2>1, <2>2
<1>3. Pacer!OneAtATime
  BY <1>1, NextHolds DEF Pacer!OneAtATime, Pacer!Todo, Hands
<1> QED BY <1>2, <1>3 DEF CorrectionHeld

\* A correction the controller waits for is in the pacer, in a call of some thread or
\* about to be replayed, and start never finds another running: whatever sender reports,
\* buffers, flushes and the build of the bin do between each other's unlocks.
THEOREM PacerCorrectionHeld == PathSpec => []CorrectionHeld
<1>1. PathInit => PacerInv
  BY PacerBeginsWell DEF PathInit
<1>2. PacerInv /\ [PathNext]_pathVars => PacerInv'
  BY PacingAssumption, PacerStep
<1>3. PacerInv => CorrectionHeld
  BY InHandIsHeld
<1> QED BY <1>1, <1>2, <1>3, PTL DEF PathSpec
=============================================================================
