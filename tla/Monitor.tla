------------------------------- MODULE Monitor -------------------------------
(***************************************************************************)
(* The resource monitor of the service (stats.Monitor): admission of       *)
(* requests against CPU, memory and pulse clients, the 15 second holds     *)
(* that stand in for usage not measured yet, and the graceful stop and the *)
(* kills on sustained overload.                                            *)
(*                                                                         *)
(* Every operation holds m.mu, so each is one step; the steps of           *)
(* StartEgress, of the handlers' ends, of the hold timers and of the       *)
(* sampling goroutine interleave.  Time is counted in samples (one per     *)
(* second).                                                                *)
(*                                                                         *)
(* Abstracted: costs are small integers given per egress (costsForRequest  *)
(* looks them up in the configuration), an egress id is used once, and the *)
(* averages, maxima, gauges and dumps that only feed logs and metrics.     *)
(***************************************************************************)
EXTENDS Integers, FiniteSets, FiniteSetsExt

CONSTANTS
    Egress,
    NoEgress,
    NumCPU,
    CpuLimit,      \* NumCPU * MaxCpuUtilization
    Headroom,      \* memoryHeadroomGB
    MaxPulseClients,
    PulseHold,     \* pulseClientHold
    MinKill,       \* minKillDuration
    LowReset,      \* lowCPUResetDuration
    CpuGrace,      \* CpuKillGraceSec
    MemoryGrace,   \* MemoryKillGraceSec
    Unread,        \* the cgroup could not be read
    Workloads      \* the requests a node may get and what is measured of them

(***************************************************************************)
(* A workload: the egresses with a web source, which connect to pulse; the *)
(* cpu and memory costsForRequest gives for each; the cpu the request      *)
(* itself asks for (0: it does not say); the memory limit (0: none) and    *)
(* where memory is read; and, as bounds, the loads of the machine and the  *)
(* cpu and memory usages that are measured.                                *)
(***************************************************************************)
Workload ==
    [web : SUBSET Egress, cpu : [Egress -> Nat], memory : [Egress -> Nat],
     estimated : [Egress -> Nat], maxMemory : Nat, source : {"cgroup", "proc_rss"},
     loads : SUBSET {"low", "high"}, cpuSamples : SUBSET Nat, memorySamples : SUBSET Nat]

ASSUME MonitorAssumption ==
    /\ IsFiniteSet(Egress) /\ NoEgress \notin Egress
    /\ Workloads \subseteq Workload
    /\ {NumCPU, CpuLimit, Headroom, MaxPulseClients, PulseHold} \subseteq Nat
    /\ {MinKill, LowReset, CpuGrace, MemoryGrace} \subseteq Nat
    /\ MinKill > 0 /\ LowReset > 0
    /\ CpuLimit <= NumCPU
    /\ Unread \notin Nat

VARIABLES
    conf,            \* the workload; it does not change
    requests, webRequests,
    pending,         \* accepted, without a process
    procStats,       \* with a process
    pendingCPU,      \* the cpu hold of each
    lastCPU,         \* its last measured usage
    holds,           \* egresses whose hold timer runs
    pendingMemory, pendingPulse,
    memoryUsage,     \* the last sum of the processes
    cgroup,          \* the last reading of the cgroup, or Unread
    high, low,       \* highCPUDuration, lowCPUDuration
    stopEgress,      \* cpuStopEgressID
    stopAge,         \* samples since cpuStopRequestedAt
    memoryAge,       \* samples since highMemoryStart; -1: it is zero
    clients,         \* the pulse clients each handler has open
    used,            \* the ids used so far
    killed,          \* live egresses that KillProcess was called for
    spikes,          \* history: high samples since the last stop or quiet spell
    seen             \* history: what the last sample found

requestVars == <<requests, webRequests, pending, procStats, pendingCPU, used>>
holdVars == <<holds, pendingMemory, pendingPulse>>
sampleVars == <<lastCPU, memoryUsage, cgroup>>
cpuVars == <<high, low, stopEgress, stopAge, spikes>>
killVars == <<cpuVars, memoryAge, killed, seen>>
vars == <<conf, requestVars, holdVars, sampleVars, killVars, clients>>

None == [e \in Egress |-> 0]
Live == pending \cup procStats

Web == conf.web
CpuCost == conf.cpu
MemoryCost == conf.memory
MaxMemory == conf.maxMemory

Init ==
    /\ conf \in Workloads
    /\ requests = 0 /\ webRequests = 0
    /\ pending = {} /\ procStats = {}
    /\ pendingCPU = None /\ lastCPU = None
    /\ holds = {} /\ pendingMemory = 0 /\ pendingPulse = 0
    /\ memoryUsage = 0 /\ cgroup = Unread
    /\ high = 0 /\ low = 0
    /\ stopEgress = NoEgress /\ stopAge = 0
    /\ memoryAge = -1
    /\ clients = None
    /\ used = {} /\ killed = {} /\ spikes = 0
    /\ seen = [load |-> "low", victim |-> NoEgress, over |-> FALSE, biggest |-> NoEgress]

-----------------------------------------------------------------------------
(* Admission *)

Larger(m, n) == IF m > n THEN m ELSE n
AtMost(m, n) == IF m < n THEN m ELSE n

\* What an egress holds or uses, whichever is larger.
CpuUsed == SumFunctionOnSet([e \in Egress |-> Larger(pendingCPU[e], lastCPU[e])], Live)

\* getCPUUsageLocked: the first request may use the whole machine.
AvailableCPU == IF requests = 0 THEN NumCPU ELSE CpuLimit - CpuUsed

\* The usage that counts against MaxMemory; without the cgroup, the processes'.
MemoryNow(usage, reading) ==
    IF conf.source = "cgroup" /\ reading # Unread THEN reading ELSE usage

\* Mutant of MemoryFits: the memory on hold is not counted.
BugMemoryFits(e) ==
    MaxMemory = 0 \/ MemoryNow(memoryUsage, cgroup) + MemoryCost[e] + Headroom < MaxMemory

MemoryFits(e) ==
    \/ MaxMemory = 0
    \/ MemoryNow(memoryUsage, cgroup) + pendingMemory + MemoryCost[e] + Headroom < MaxMemory

PulseFits(e) ==
    e \in Web => SumFunction(clients) + pendingPulse + PulseHold <= MaxPulseClients

PulseClients(e) == IF e \in Web THEN PulseHold ELSE 0

CanAcceptRequest(e) ==
    /\ MemoryFits(e)
    /\ PulseFits(e)
    /\ AvailableCPU >= (IF conf.estimated[e] = 0 THEN CpuCost[e] ELSE conf.estimated[e])

Dec(n, e) == IF e \in Web THEN n - 1 ELSE n

AcceptRequest(e) ==
    /\ e \notin used
    /\ CanAcceptRequest(e)
    /\ used' = used \cup {e}
    /\ requests' = requests + 1
    /\ webRequests' = IF e \in Web THEN webRequests + 1 ELSE webRequests
    /\ pending' = pending \cup {e}
    /\ pendingCPU' = [pendingCPU EXCEPT ![e] = CpuCost[e]]
    /\ holds' = holds \cup {e}
    /\ pendingMemory' = pendingMemory + MemoryCost[e]
    /\ pendingPulse' = pendingPulse + PulseClients(e)
    /\ UNCHANGED <<conf, procStats, sampleVars, killVars, clients>>

(***************************************************************************)
(* The hold timer.  A web source connects to pulse while its hold lasts:   *)
(* an assumption on the environment, which the length of the hold makes.   *)
(***************************************************************************)
HoldExpires(e) ==
    /\ e \in holds
    /\ e \in Live \cap Web => clients[e] = PulseHold
    /\ holds' = holds \ {e}
    /\ pendingCPU' = [pendingCPU EXCEPT ![e] = 0]
    /\ pendingMemory' = pendingMemory - MemoryCost[e]
    /\ pendingPulse' = pendingPulse - PulseClients(e)
    /\ UNCHANGED <<conf, requests, webRequests, pending, procStats, used, sampleVars, killVars, clients>>

UpdatePID(e) ==
    /\ e \in pending
    /\ pending' = pending \ {e}
    /\ procStats' = procStats \cup {e}
    /\ UNCHANGED <<conf, requests, webRequests, pendingCPU, used, holdVars, sampleVars, killVars, clients>>

\* The request was not valid.
EgressAborted(e) ==
    /\ e \in pending
    /\ pending' = pending \ {e}
    /\ requests' = requests - 1
    /\ webRequests' = Dec(webRequests, e)
    /\ UNCHANGED <<conf, procStats, pendingCPU, used, holdVars, sampleVars, killVars, clients>>

\* Mutant of EgressEnded: the stop that was requested is not forgotten.
BugEgressEnded(e) ==
    /\ e \in Live
    /\ pending' = pending \ {e}
    /\ procStats' = procStats \ {e}
    /\ requests' = requests - 1
    /\ webRequests' = Dec(webRequests, e)
    /\ clients' = [clients EXCEPT ![e] = 0]
    /\ killed' = killed \ {e}
    /\ UNCHANGED <<conf, pendingCPU, used, holdVars, sampleVars, cpuVars, memoryAge, seen>>

\* The launch failed, or the process ended (and with it its pulse clients).
EgressEnded(e) ==
    /\ e \in Live
    /\ IF stopEgress = e THEN stopEgress' = NoEgress /\ stopAge' = 0
                         ELSE UNCHANGED <<stopEgress, stopAge>>
    /\ pending' = pending \ {e}
    /\ procStats' = procStats \ {e}
    /\ requests' = requests - 1
    /\ webRequests' = Dec(webRequests, e)
    /\ clients' = [clients EXCEPT ![e] = 0]
    /\ killed' = killed \ {e}
    /\ UNCHANGED <<conf, pendingCPU, used, holdVars, sampleVars, high, low, spikes, memoryAge, seen>>

\* A handler connects to pulse.
ClientsConnect(e) ==
    /\ e \in procStats \cap Web
    /\ e \in holds
    /\ clients' = [clients EXCEPT ![e] = PulseHold]
    /\ UNCHANGED <<conf, requestVars, holdVars, sampleVars, killVars>>

-----------------------------------------------------------------------------
(* Sampling *)

\* Of the handlers above their cost, one of those that use most.
Victims(cpu) ==
    LET greedy == {e \in procStats : cpu[e] > CpuCost[e]}
    IN  IF greedy = {} THEN {NoEgress}
        ELSE {e \in greedy : \A f \in greedy : cpu[f] <= cpu[e]}

\* Mutant of StopElapsed: every high sample requests the stop anew.
BugStopElapsed == 0

StopElapsed == IF stopEgress = NoEgress THEN 0 ELSE AtMost(stopAge + 1, CpuGrace)

LowCPU ==
    /\ low' = AtMost(low + 1, LowReset)
    /\ high' = IF low' >= LowReset THEN 0 ELSE high
    /\ spikes' = IF low' >= LowReset THEN 0 ELSE spikes
    /\ stopAge' = StopElapsed
    /\ UNCHANGED stopEgress

HighCPUAlone ==
    /\ requests <= 1
    /\ low' = 0
    /\ spikes' = AtMost(spikes + 1, MinKill)
    /\ stopAge' = StopElapsed
    /\ UNCHANGED <<high, stopEgress>>

Sustained == AtMost(high + 1, MinKill)

HighCPUCounts(victim) ==
    /\ requests > 1
    /\ stopEgress = NoEgress
    /\ Sustained < MinKill \/ victim = NoEgress
    /\ high' = Sustained
    /\ low' = 0
    /\ spikes' = AtMost(spikes + 1, MinKill)
    /\ UNCHANGED <<stopEgress, stopAge>>

\* StopProcess: the handler is asked to finish.
HighCPUStops(victim) ==
    /\ requests > 1
    /\ stopEgress = NoEgress
    /\ Sustained >= MinKill /\ victim # NoEgress
    /\ stopEgress' = victim /\ stopAge' = 0
    /\ high' = 0
    /\ low' = 0
    /\ spikes' = 0

HighCPUWaits ==
    /\ requests > 1
    /\ stopEgress # NoEgress
    /\ StopElapsed < CpuGrace
    /\ stopAge' = StopElapsed
    /\ low' = 0
    /\ spikes' = AtMost(spikes + 1, MinKill)
    /\ UNCHANGED <<high, stopEgress>>

\* KillProcess is due: the grace period is over.
KillDue == requests > 1 /\ stopEgress # NoEgress /\ StopElapsed >= CpuGrace

HighCPUKills ==
    /\ KillDue
    /\ stopEgress' = NoEgress /\ stopAge' = 0
    /\ low' = 0
    /\ spikes' = AtMost(spikes + 1, MinKill)
    /\ UNCHANGED high

CheckCPUKill(load, victim) ==
    \/ load = "low" /\ LowCPU
    \/ /\ load = "high"
       /\ \/ HighCPUAlone
          \/ HighCPUCounts(victim)
          \/ HighCPUStops(victim)
          \/ HighCPUWaits
          \/ HighCPUKills

MemoryElapsed == IF memoryAge = -1 THEN 0 ELSE AtMost(memoryAge + 1, MemoryGrace)

\* checkMemoryKill: over the limit for the grace period, the largest is killed.
CheckMemoryKill(over) ==
    memoryAge' = IF over /\ MemoryElapsed < MemoryGrace THEN MemoryElapsed ELSE -1

\* The egresses that KillProcess is called for.
Kills(load, over, biggest) ==
    {e \in Live : \/ load = "high" /\ KillDue /\ e = stopEgress
                  \/ over /\ MemoryElapsed >= MemoryGrace /\ e = biggest}

(***************************************************************************)
(* updateEgressStats: cpu the usage of every handler, usage the memory of  *)
(* all processes, reading that of the cgroup, biggest the handler with     *)
(* most of it, which counts only when memory is over the limit.  A group   *)
(* of processes whose handler is not registered yet counts in usage only.  *)
(***************************************************************************)
UpdateEgressStats(load, cpu, usage, reading, biggest) ==
    LET over == MaxMemory # 0 /\ MemoryNow(usage, reading) > MaxMemory
    IN  /\ over \/ biggest = NoEgress
        /\ lastCPU' = [e \in Egress |-> IF e \in procStats THEN cpu[e] ELSE lastCPU[e]]
        /\ memoryUsage' = usage
        /\ cgroup' = reading
        /\ \E victim \in Victims(cpu) :
              /\ CheckCPUKill(load, victim)
              /\ seen' = [load |-> load, victim |-> IF load = "high" THEN victim ELSE NoEgress,
                          over |-> over, biggest |-> biggest]
        /\ CheckMemoryKill(over)
        /\ killed' = killed \cup Kills(load, over, biggest)
        /\ UNCHANGED <<conf, requestVars, holdVars, clients>>

\* The cgroup is read always, but counts with that MemorySource only.
Readings == IF conf.source = "cgroup" THEN conf.memorySamples \cup {Unread} ELSE {Unread}

Sample ==
    \E load \in conf.loads, cpu \in [procStats -> conf.cpuSamples] :
      \E usage \in conf.memorySamples, reading \in Readings :
        \E biggest \in procStats \cup {NoEgress} :
            UpdateEgressStats(load, cpu, usage, reading, biggest)

Next ==
    \/ \E e \in Egress :
          \/ AcceptRequest(e) \/ HoldExpires(e) \/ UpdatePID(e)
          \/ EgressAborted(e) \/ EgressEnded(e) \/ ClientsConnect(e)
    \/ Sample

Spec == Init /\ [][Next]_vars

\* The sampling goroutine goes on and a killed process ends.
FairSpec == Spec /\ WF_vars(Sample)
                 /\ \A e \in Egress : WF_vars(e \in killed /\ EgressEnded(e))

-----------------------------------------------------------------------------
(***************************************************************************)
(* The maps and the counters of the monitor agree with the requests in     *)
(* progress and with the timers that run.                                  *)
(***************************************************************************)
TypeOK ==
    /\ conf \in Workloads
    /\ pending \subseteq used /\ procStats \subseteq used /\ holds \subseteq used
    /\ used \subseteq Egress /\ pending \cap procStats = {}
    /\ {requests, webRequests, pendingMemory, pendingPulse, high, low, stopAge} \subseteq Nat
    /\ pendingCPU \in [Egress -> Nat] /\ lastCPU \in [Egress -> Nat]
    /\ clients \in [Egress -> Nat]
    /\ memoryUsage \in Nat /\ cgroup \in Nat \cup {Unread}
    /\ stopEgress \in Egress \cup {NoEgress}
    /\ memoryAge \in -1..MemoryGrace
    /\ killed \subseteq Live

(***************************************************************************)
(* "costsForRequest is the single source of truth for per-request          *)
(* admission costs, used by both the admission check and the reservation": *)
(* what the requests in progress have reserved is never more than the      *)
(* limit, except for one that was given the whole machine.                 *)
(***************************************************************************)
ReservedCPUFits ==
    LET reserved == {e \in Live : pendingCPU[e] > 0}
    IN  \/ SumFunctionOnSet(pendingCPU, reserved) <= CpuLimit
        \/ Cardinality(reserved) = 1

(***************************************************************************)
(* The memory reserved by requests that are not measured yet leaves the    *)
(* headroom free.                                                          *)
(***************************************************************************)
ReservedMemoryFits ==
    (MaxMemory # 0 /\ holds # {}) =>
        SumFunctionOnSet(MemoryCost, holds) + Headroom < MaxMemory

(***************************************************************************)
(* The pulse server has room for the clients of every web source admitted: *)
(* those it has and those that are still to connect.                       *)
(***************************************************************************)
PulseServerFits ==
    SumFunction(clients) + PulseHold * Cardinality({e \in Live \cap Web : clients[e] = 0})
        <= MaxPulseClients

(***************************************************************************)
(* Whatever was admitted, aborted, started, measured and ended in which    *)
(* order: the requests in progress fit the node together (CanAcceptRequest *)
(* checks each one alone, against measurements that lag).                  *)
(***************************************************************************)
AdmissionFits == ReservedCPUFits /\ ReservedMemoryFits /\ PulseServerFits

(***************************************************************************)
(* The egress that was asked to stop is still there: the kill that follows *)
(* has a target, and no stop is held up by an egress that is gone.         *)
(***************************************************************************)
StopTargetLive == stopEgress \in Live \cup {NoEgress}

(***************************************************************************)
(* "jittery loads still trip while transient spikes don't pile up": before *)
(* an egress is stopped for CPU there were MinKill high samples since the  *)
(* last stop and since the last quiet spell.                               *)
(***************************************************************************)
SpikesDoNotStop ==
    stopEgress' \notin {stopEgress, NoEgress} => spikes >= MinKill - 1

(***************************************************************************)
(* Overload does not last: when several requests run and one uses more     *)
(* than its share, it is stopped, and killed if it does not end.           *)
(***************************************************************************)
OverloadRelieved ==
    []<>~(seen.load = "high" /\ seen.victim \in procStats \ killed /\ requests > 1)

(***************************************************************************)
(* The monitor's books are consistent and never hold more than the node    *)
(* has (CanAcceptRequest, AcceptRequest, EgressAborted, EgressEnded).      *)
(***************************************************************************)
BooksFit == TypeOK /\ AdmissionFits

(***************************************************************************)
(* checkCPUKill stops whom it should: only after a sustained overload, and *)
(* only an egress that is still there.                                     *)
(***************************************************************************)
StopsRightly == [][StopTargetLive' /\ SpikesDoNotStop]_vars
=============================================================================
