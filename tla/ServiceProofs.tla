----------------------------- MODULE ServiceProofs -----------------------------
(***************************************************************************)
(* Proofs about Service, for every number of calls and egresses, when no   *)
(* two calls ask for the same id: the books of the service agree with what *)
(* runs, and no handler escapes it.                                        *)
(***************************************************************************)
EXTENDS Service, TLAPS, FiniteSetTheorems

\* An egress id is handed out once.
UniqueIds == \A r, q \in Request : EgressOf[r] = EgressOf[q] => r = q

-----------------------------------------------------------------------------
(***************************************************************************)
(* The inductive invariant: the types without the counters; what each      *)
(* stage of a call says of its process and of the books; the counters.     *)
(***************************************************************************)
CallTypes ==
    /\ start \in [Request -> {"idle", "entered", "enabled", "new", "accepted", "launch",
                              "register", "waiting", "launched", "launchFailed",
                              "ending", "returned", "refused"}]
    /\ create \in [Request -> {"none", "inflight", "ok", "failed"}]
    /\ waiter \in [Request -> {"none", "waiting", "ending", "done"}]
    /\ proc \in [Request -> {"none", "starting", "running", "exited"}]
    /\ exitErr \in [Request -> BOOLEAN] /\ ready \in [Request -> BOOLEAN]
    /\ reports \in [Request -> SUBSET {"failed", "final"}]

KillTypes ==
    /\ reason \in [Request -> {"none", "aborted", "killed", "stopped", "shutdown", "duplicate"}]
    /\ told \in [Request -> BOOLEAN]
    /\ shutdown \in BOOLEAN /\ killAll \in {"no", "collected", "done"}
    /\ toKill \subseteq Request /\ drain \in {"serving", "idle", "stopped"}
    /\ panicked \in BOOLEAN

BookTypes ==
    /\ active \in [Egress -> Request \cup {None}] /\ topics \subseteq Egress
    /\ pending \subseteq Egress /\ procStats \subseteq Request

\* The calls whose cost is held under their id.
Held == {"accepted", "launch", "register", "waiting", "launchFailed"}

\* Before its launch.
Early == {"idle", "refused", "entered", "enabled", "new", "accepted", "launch"}

NoTrace(r) ==
    active[EgressOf[r]] = None /\ EgressOf[r] \notin topics

StageOfStart(r) ==
    /\ start[r] \in Early => NoTrace(r) /\ proc[r] = "none"
    /\ start[r] \in Early \ {"launch"} => create[r] = "none"
    /\ start[r] = "register" => active[EgressOf[r]] = r /\ proc[r] = "none"
    /\ start[r] = "waiting" => active[EgressOf[r]] = r /\ proc[r] # "none"
    /\ start[r] \in {"launchFailed", "ending"} => proc[r] \in {"none", "exited"}
    /\ start[r] = "ending" \/ (start[r] = "returned" /\ waiter[r] = "none") =>
          create[r] = "failed" \/ (create[r] = "ok" /\ "failed" \in reports[r])
    /\ start[r] = "returned" /\ waiter[r] = "none" =>
          NoTrace(r) /\ proc[r] \in {"none", "exited"}
    /\ EgressOf[r] \in pending <=> start[r] \in Held

StageOfWaiter(r) ==
    /\ start[r] = "launched" => waiter[r] # "none"
    /\ waiter[r] # "none" => start[r] \in {"launched", "returned"}
    /\ waiter[r] \in {"waiting", "ending"} => active[EgressOf[r]] = r
    /\ waiter[r] = "waiting" => proc[r] # "none"
    /\ waiter[r] \in {"ending", "done"} =>
          proc[r] = "exited" /\ (exitErr[r] => "failed" \in reports[r])
    /\ waiter[r] = "done" => NoTrace(r)
    /\ r \in procStats <=> waiter[r] = "waiting"

Stage(r) == StageOfStart(r) /\ StageOfWaiter(r)

\* Nothing is kept for an id that nobody asked for.
BooksOwned ==
    /\ \A e \in Egress : active[e] = None \/ EgressOf[active[e]] = e
    /\ \A e \in pending \cup topics : \E r \in Request : EgressOf[r] = e

\* Once the node was idle, a call is over, or about to be refused.
Gone(r) ==
    \/ start[r] \in {"idle", "entered", "refused"}
    \/ start[r] \in {"launched", "returned"} /\ waiter[r] \in {"none", "done"}

DrainedIsOver == drain # "serving" => shutdown /\ \A r \in Request : Gone(r)

Holds(r) == start[r] \in Held \/ waiter[r] = "waiting"

CountsRight ==
    /\ activeRequests = Cardinality({r \in Request : ~Over(r)})
    /\ requests = Cardinality({r \in Request : Holds(r)})

Types == CallTypes /\ KillTypes /\ BookTypes

IInv ==
    /\ Types /\ BooksOwned /\ DrainedIsOver /\ CountsRight
    /\ \A r \in Request : Stage(r)

-----------------------------------------------------------------------------
\* One call more, or one less, in a set of calls.
LEMMA CountCalls ==
    ASSUME NEW S \in SUBSET Request, NEW r \in Request
    PROVE  /\ Cardinality(S) \in Nat
           /\ r \notin S => Cardinality(S \cup {r}) = Cardinality(S) + 1
           /\ r \in S => Cardinality(S \ {r}) = Cardinality(S) - 1
<1>1. IsFiniteSet(S)
  BY ServiceAssumption, FS_Subset
<1> QED BY <1>1, FS_CardinalityType, FS_AddElement, FS_RemoveElement

(***************************************************************************)
(* What a step of the call r, or of its process, does: it touches nothing  *)
(* of the other calls, and moves the counters with the stage of r.         *)
(***************************************************************************)
Frame(r) ==
    \A q \in Request \ {r} :
        /\ start'[q] = start[q] /\ create'[q] = create[q] /\ waiter'[q] = waiter[q]
        /\ proc'[q] = proc[q] /\ exitErr'[q] = exitErr[q] /\ reports'[q] = reports[q]
        /\ active'[EgressOf[q]] = active[EgressOf[q]]
        /\ EgressOf[q] \in topics' <=> EgressOf[q] \in topics
        /\ EgressOf[q] \in pending' <=> EgressOf[q] \in pending
        /\ q \in procStats' <=> q \in procStats

Tally(r) ==
    /\ \/ (Over(r)' <=> Over(r)) /\ activeRequests' = activeRequests
       \/ Over(r) /\ ~Over(r)' /\ activeRequests' = activeRequests + 1
       \/ ~Over(r) /\ Over(r)' /\ activeRequests' = activeRequests - 1
    /\ \/ (Holds(r)' <=> Holds(r)) /\ requests' = requests
       \/ ~Holds(r) /\ Holds(r)' /\ requests' = requests + 1
       \/ Holds(r) /\ ~Holds(r)' /\ requests' = requests - 1

Drains(r) ==
    /\ drain' = drain /\ (shutdown => shutdown')
    /\ drain # "serving" => Gone(r)'

LEMMA FrameKeepsCounts ==
    ASSUME IInv, NEW r \in Request, Frame(r), Tally(r)
    PROVE  CountsRight'
<1> DEFINE B == {q \in Request : ~Over(q)}
           H == {q \in Request : Holds(q)}
<1>1. \A q \in Request \ {r} : (Over(q)' <=> Over(q)) /\ (Holds(q)' <=> Holds(q))
  BY DEF Frame, Over, Holds
<1>2. activeRequests = Cardinality(B) /\ requests = Cardinality(H)
  BY DEF IInv, CountsRight
<1>3. activeRequests' = Cardinality(B')
  <2>1. CASE Over(r)' <=> Over(r)
    <3>1. B' = B
      BY <1>1, <2>1
    <3> QED BY <1>2, <2>1, <3>1 DEF Tally
  <2>2. CASE Over(r) /\ ~Over(r)'
    <3>1. B' = B \cup {r} /\ r \notin B
      BY <1>1, <2>2
    <3>2. activeRequests' = activeRequests + 1
      BY <2>2 DEF Tally
    <3>3. B \in SUBSET Request
      OBVIOUS
    <3> QED BY <1>2, <3>1, <3>2, <3>3, CountCalls
  <2>3. CASE ~Over(r) /\ Over(r)'
    <3>1. B' = B \ {r} /\ r \in B
      BY <1>1, <2>3
    <3>2. activeRequests' = activeRequests - 1
      BY <2>3 DEF Tally
    <3>3. B \in SUBSET Request
      OBVIOUS
    <3> QED BY <1>2, <3>1, <3>2, <3>3, CountCalls
  <2> QED BY <2>1, <2>2, <2>3
<1>4. requests' = Cardinality(H')
  <2>1. CASE Holds(r)' <=> Holds(r)
    <3>1. H' = H
      BY <1>1, <2>1
    <3> QED BY <1>2, <2>1, <3>1 DEF Tally
  <2>2. CASE ~Holds(r) /\ Holds(r)'
    <3>1. H' = H \cup {r} /\ r \notin H
      BY <1>1, <2>2
    <3>2. requests' = requests + 1
      BY <2>2 DEF Tally
    <3>3. H \in SUBSET Request
      OBVIOUS
    <3> QED BY <1>2, <3>1, <3>2, <3>3, CountCalls
  <2>3. CASE Holds(r) /\ ~Holds(r)'
    <3>1. H' = H \ {r} /\ r \in H
      BY <1>1, <2>3
    <3>2. requests' = requests - 1
      BY <2>3 DEF Tally
    <3>3. H \in SUBSET Request
      OBVIOUS
    <3> QED BY <1>2, <3>1, <3>2, <3>3, CountCalls
  <2> QED BY <2>1, <2>2, <2>3
<1> QED BY <1>3, <1>4 DEF CountsRight

LEMMA CallStep ==
    ASSUME IInv, NEW r \in Request, Types', BooksOwned', Frame(r), Stage(r)', Tally(r), Drains(r)
    PROVE  IInv'
<1>1. ASSUME NEW q \in Request PROVE Stage(q)'
  <2>1. CASE q = r
    BY <2>1
  <2>2. CASE q # r
    <3>1. Stage(q)
      BY DEF IInv
    <3>2. NoTrace(q)' <=> NoTrace(q)
      BY <2>2 DEF Frame, NoTrace
    <3>3. StageOfStart(q)'
      BY <2>2, <3>1, <3>2 DEF Frame, Stage, StageOfStart
    <3>4. StageOfWaiter(q)'
      BY <2>2, <3>1, <3>2 DEF Frame, Stage, StageOfWaiter
    <3> QED BY <3>3, <3>4 DEF Stage
  <2> QED BY <2>1, <2>2
<1>2. DrainedIsOver'
  <2> SUFFICES ASSUME drain' # "serving" PROVE shutdown' /\ \A q \in Request : Gone(q)'
    BY DEF DrainedIsOver
  <2>1. shutdown /\ \A q \in Request : Gone(q)
    BY DEF IInv, DrainedIsOver, Drains
  <2>2. \A q \in Request \ {r} : Gone(q)' <=> Gone(q)
    BY DEF Frame, Gone
  <2> QED BY <2>1, <2>2 DEF Drains
<1>3. CountsRight'
  BY FrameKeepsCounts
<1> QED BY <1>1, <1>2, <1>3 DEF IInv

-----------------------------------------------------------------------------
(***************************************************************************)
(* The steps of a call.                                                    *)
(***************************************************************************)
LEMMA StartEgressStep ==
    ASSUME UniqueIds, IInv, NEW r \in Request, StartEgress(r)
    PROVE  IInv'
<1> USE DEF StartEgress, Goto, Up,
            startVars, procVars, killVars, pmVars, monitorVars, downVars
<1>0. Types /\ BooksOwned /\ DrainedIsOver /\ Stage(r) /\ EgressOf[r] \in Egress
  BY ServiceAssumption DEF IInv
<1>1. Types'
  BY <1>0 DEF Types, CallTypes, KillTypes, BookTypes
<1>2. BooksOwned'
  BY <1>0, ServiceAssumption DEF BooksOwned, Types, BookTypes
<1>3. Frame(r)
  BY <1>0, ServiceAssumption DEF UniqueIds, Frame, Types, CallTypes, BookTypes
<1>4. StageOfStart(r)'
  BY <1>0, ServiceAssumption DEF Stage, StageOfStart, StageOfWaiter, NoTrace, Held, Early,
     Types, CallTypes, BookTypes
<1>5. StageOfWaiter(r)'
  BY <1>0, ServiceAssumption DEF Stage, StageOfStart, StageOfWaiter, NoTrace, Early, Types,
     CallTypes, BookTypes
<1>6. Tally(r)
  BY <1>0 DEF Tally, Over, Holds, Held, Stage, StageOfStart, StageOfWaiter, Types, CallTypes
<1>7. Drains(r)
  BY <1>0 DEF Drains, DrainedIsOver, Gone, Types, CallTypes
<1> QED BY <1>1, <1>2, <1>3, <1>4, <1>5, <1>6, <1>7, CallStep DEF Stage

LEMMA CheckDisabledStep ==
    ASSUME UniqueIds, IInv, NEW r \in Request, CheckDisabled(r)
    PROVE  IInv'
<1> USE DEF CheckDisabled, Refuse, Goto, Up,
            startVars, procVars, killVars, pmVars, monitorVars, downVars
<1>0. Types /\ BooksOwned /\ DrainedIsOver /\ Stage(r) /\ EgressOf[r] \in Egress
  BY ServiceAssumption DEF IInv
<1>1. Types'
  BY <1>0 DEF Types, CallTypes, KillTypes, BookTypes
<1>2. BooksOwned'
  BY <1>0, ServiceAssumption DEF BooksOwned, Types, BookTypes
<1>3. Frame(r)
  BY <1>0, ServiceAssumption DEF UniqueIds, Frame, Types, CallTypes, BookTypes
<1>4. StageOfStart(r)'
  BY <1>0, ServiceAssumption DEF Stage, StageOfStart, StageOfWaiter, NoTrace, Held, Early,
     Types, CallTypes, BookTypes
<1>5. StageOfWaiter(r)'
  BY <1>0, ServiceAssumption DEF Stage, StageOfStart, StageOfWaiter, NoTrace, Early, Types,
     CallTypes, BookTypes
<1>6. Tally(r)
  BY <1>0 DEF Tally, Over, Holds, Held, Stage, StageOfStart, StageOfWaiter, Types, CallTypes
<1>7. Drains(r)
  BY <1>0 DEF Drains, DrainedIsOver, Gone, Types, CallTypes
<1> QED BY <1>1, <1>2, <1>3, <1>4, <1>5, <1>6, <1>7, CallStep DEF Stage

LEMMA AlreadyExistsStep ==
    ASSUME UniqueIds, IInv, NEW r \in Request, AlreadyExists(r)
    PROVE  IInv'
<1> USE DEF AlreadyExists, Refuse, Goto, Up,
            startVars, procVars, killVars, pmVars, monitorVars, downVars
<1>0. Types /\ BooksOwned /\ DrainedIsOver /\ Stage(r) /\ EgressOf[r] \in Egress
  BY ServiceAssumption DEF IInv
<1>1. Types'
  BY <1>0 DEF Types, CallTypes, KillTypes, BookTypes
<1>2. BooksOwned'
  BY <1>0, ServiceAssumption DEF BooksOwned, Types, BookTypes
<1>3. Frame(r)
  BY <1>0, ServiceAssumption DEF UniqueIds, Frame, Types, CallTypes, BookTypes
<1>4. StageOfStart(r)'
  BY <1>0, ServiceAssumption DEF Stage, StageOfStart, StageOfWaiter, NoTrace, Held, Early,
     Types, CallTypes, BookTypes
<1>5. StageOfWaiter(r)'
  BY <1>0, ServiceAssumption DEF Stage, StageOfStart, StageOfWaiter, NoTrace, Early, Types,
     CallTypes, BookTypes
<1>6. Tally(r)
  BY <1>0 DEF Tally, Over, Holds, Held, Stage, StageOfStart, StageOfWaiter, Types, CallTypes
<1>7. Drains(r)
  BY <1>0 DEF Drains, DrainedIsOver, Gone, Types, CallTypes
<1> QED BY <1>1, <1>2, <1>3, <1>4, <1>5, <1>6, <1>7, CallStep DEF Stage

LEMMA ValidationFailsStep ==
    ASSUME UniqueIds, IInv, NEW r \in Request, ValidationFails(r)
    PROVE  IInv'
<1> USE DEF ValidationFails, Refuse, Goto, Up,
            startVars, procVars, killVars, pmVars, monitorVars, downVars
<1>0. Types /\ BooksOwned /\ DrainedIsOver /\ Stage(r) /\ EgressOf[r] \in Egress
  BY ServiceAssumption DEF IInv
<1>1. Types'
  BY <1>0 DEF Types, CallTypes, KillTypes, BookTypes
<1>2. BooksOwned'
  BY <1>0, ServiceAssumption DEF BooksOwned, Types, BookTypes
<1>3. Frame(r)
  BY <1>0, ServiceAssumption DEF UniqueIds, Frame, Types, CallTypes, BookTypes
<1>4. StageOfStart(r)'
  BY <1>0, ServiceAssumption DEF Stage, StageOfStart, StageOfWaiter, NoTrace, Held, Early,
     Types, CallTypes, BookTypes
<1>5. StageOfWaiter(r)'
  BY <1>0, ServiceAssumption DEF Stage, StageOfStart, StageOfWaiter, NoTrace, Early, Types,
     CallTypes, BookTypes
<1>6. Tally(r)
  BY <1>0 DEF Tally, Over, Holds, Held, Stage, StageOfStart, StageOfWaiter, Types, CallTypes
<1>7. Drains(r)
  BY <1>0 DEF Drains, DrainedIsOver, Gone, Types, CallTypes
<1> QED BY <1>1, <1>2, <1>3, <1>4, <1>5, <1>6, <1>7, CallStep DEF Stage

LEMMA CreateEgressStep ==
    ASSUME UniqueIds, IInv, NEW r \in Request, CreateEgress(r)
    PROVE  IInv'
<1> USE DEF CreateEgress, Goto, Up,
            startVars, procVars, killVars, pmVars, monitorVars, downVars
<1>0. Types /\ BooksOwned /\ DrainedIsOver /\ Stage(r) /\ EgressOf[r] \in Egress
  BY ServiceAssumption DEF IInv
<1>1. Types'
  BY <1>0 DEF Types, CallTypes, KillTypes, BookTypes
<1>2. BooksOwned'
  BY <1>0, ServiceAssumption DEF BooksOwned, Types, BookTypes
<1>3. Frame(r)
  BY <1>0, ServiceAssumption DEF UniqueIds, Frame, Types, CallTypes, BookTypes
<1>4. StageOfStart(r)'
  BY <1>0, ServiceAssumption DEF Stage, StageOfStart, StageOfWaiter, NoTrace, Held, Early,
     Types, CallTypes, BookTypes
<1>5. StageOfWaiter(r)'
  BY <1>0, ServiceAssumption DEF Stage, StageOfStart, StageOfWaiter, NoTrace, Early, Types,
     CallTypes, BookTypes
<1>6. Tally(r)
  BY <1>0 DEF Tally, Over, Holds, Held, Stage, StageOfStart, StageOfWaiter, Types, CallTypes
<1>7. Drains(r)
  BY <1>0 DEF Drains, DrainedIsOver, Gone, Types, CallTypes
<1> QED BY <1>1, <1>2, <1>3, <1>4, <1>5, <1>6, <1>7, CallStep DEF Stage

LEMMA LaunchInsertsStep ==
    ASSUME UniqueIds, IInv, NEW r \in Request, LaunchInserts(r)
    PROVE  IInv'
<1> USE DEF LaunchInserts, Goto, Up,
            startVars, procVars, killVars, pmVars, monitorVars, downVars
<1>0. Types /\ BooksOwned /\ DrainedIsOver /\ Stage(r) /\ EgressOf[r] \in Egress
  BY ServiceAssumption DEF IInv
<1>1. Types'
  BY <1>0 DEF Types, CallTypes, KillTypes, BookTypes
<1>2. BooksOwned'
  BY <1>0, ServiceAssumption DEF BooksOwned, Types, BookTypes
<1>3. Frame(r)
  BY <1>0, ServiceAssumption DEF UniqueIds, Frame, Types, CallTypes, BookTypes
<1>4. StageOfStart(r)'
  BY <1>0, ServiceAssumption DEF Stage, StageOfStart, StageOfWaiter, NoTrace, Held, Early,
     Types, CallTypes, BookTypes
<1>5. StageOfWaiter(r)'
  BY <1>0, ServiceAssumption DEF Stage, StageOfStart, StageOfWaiter, NoTrace, Early, Types,
     CallTypes, BookTypes
<1>6. Tally(r)
  BY <1>0 DEF Tally, Over, Holds, Held, Stage, StageOfStart, StageOfWaiter, Types, CallTypes
<1>7. Drains(r)
  BY <1>0 DEF Drains, DrainedIsOver, Gone, Types, CallTypes
<1> QED BY <1>1, <1>2, <1>3, <1>4, <1>5, <1>6, <1>7, CallStep DEF Stage

LEMMA LaunchStartsStep ==
    ASSUME UniqueIds, IInv, NEW r \in Request, LaunchStarts(r)
    PROVE  IInv'
<1> USE DEF LaunchStarts, Goto, Up,
            startVars, procVars, killVars, pmVars, monitorVars, downVars
<1>0. Types /\ BooksOwned /\ DrainedIsOver /\ Stage(r) /\ EgressOf[r] \in Egress
  BY ServiceAssumption DEF IInv
<1>1. Types'
  BY <1>0 DEF Types, CallTypes, KillTypes, BookTypes
<1>2. BooksOwned'
  BY <1>0, ServiceAssumption DEF BooksOwned, Types, BookTypes
<1>3. Frame(r)
  BY <1>0, ServiceAssumption DEF UniqueIds, Frame, Types, CallTypes, BookTypes
<1>4. StageOfStart(r)'
  BY <1>0, ServiceAssumption DEF Stage, StageOfStart, StageOfWaiter, NoTrace, Held, Early,
     Types, CallTypes, BookTypes
<1>5. StageOfWaiter(r)'
  BY <1>0, ServiceAssumption DEF Stage, StageOfStart, StageOfWaiter, NoTrace, Early, Types,
     CallTypes, BookTypes
<1>6. Tally(r)
  BY <1>0 DEF Tally, Over, Holds, Held, Stage, StageOfStart, StageOfWaiter, Types, CallTypes
<1>7. Drains(r)
  BY <1>0 DEF Drains, DrainedIsOver, Gone, Types, CallTypes
<1> QED BY <1>1, <1>2, <1>3, <1>4, <1>5, <1>6, <1>7, CallStep DEF Stage

LEMMA LaunchFailsStep ==
    ASSUME UniqueIds, IInv, NEW r \in Request, LaunchFails(r)
    PROVE  IInv'
<1> USE DEF LaunchFails, Goto, Up,
            startVars, procVars, killVars, pmVars, monitorVars, downVars
<1>0. Types /\ BooksOwned /\ DrainedIsOver /\ Stage(r) /\ EgressOf[r] \in Egress
  BY ServiceAssumption DEF IInv
<1>1. Types'
  BY <1>0 DEF Types, CallTypes, KillTypes, BookTypes
<1>2. BooksOwned'
  BY <1>0, ServiceAssumption DEF BooksOwned, Types, BookTypes
<1>3. Frame(r)
  BY <1>0, ServiceAssumption DEF UniqueIds, Frame, Types, CallTypes, BookTypes
<1>4. StageOfStart(r)'
  BY <1>0, ServiceAssumption DEF Stage, StageOfStart, StageOfWaiter, NoTrace, Held, Early,
     Types, CallTypes, BookTypes
<1>5. StageOfWaiter(r)'
  BY <1>0, ServiceAssumption DEF Stage, StageOfStart, StageOfWaiter, NoTrace, Early, Types,
     CallTypes, BookTypes
<1>6. Tally(r)
  BY <1>0 DEF Tally, Over, Holds, Held, Stage, StageOfStart, StageOfWaiter, Types, CallTypes
<1>7. Drains(r)
  BY <1>0 DEF Drains, DrainedIsOver, Gone, Types, CallTypes
<1> QED BY <1>1, <1>2, <1>3, <1>4, <1>5, <1>6, <1>7, CallStep DEF Stage

LEMMA LaunchReadyStep ==
    ASSUME UniqueIds, IInv, NEW r \in Request, LaunchReady(r)
    PROVE  IInv'
<1> USE DEF LaunchReady, Goto, Up,
            startVars, procVars, killVars, pmVars, monitorVars, downVars
<1>0. Types /\ BooksOwned /\ DrainedIsOver /\ Stage(r) /\ EgressOf[r] \in Egress
  BY ServiceAssumption DEF IInv
<1>1. Types'
  BY <1>0 DEF Types, CallTypes, KillTypes, BookTypes
<1>2. BooksOwned'
  BY <1>0, ServiceAssumption DEF BooksOwned, Types, BookTypes
<1>3. Frame(r)
  BY <1>0, ServiceAssumption DEF UniqueIds, Frame, Types, CallTypes, BookTypes
<1>4. StageOfStart(r)'
  BY <1>0, ServiceAssumption DEF Stage, StageOfStart, StageOfWaiter, NoTrace, Held, Early,
     Types, CallTypes, BookTypes
<1>5. StageOfWaiter(r)'
  BY <1>0, ServiceAssumption DEF Stage, StageOfStart, StageOfWaiter, NoTrace, Early, Types,
     CallTypes, BookTypes
<1>6. Tally(r)
  BY <1>0 DEF Tally, Over, Holds, Held, Stage, StageOfStart, StageOfWaiter, Types, CallTypes
<1>7. Drains(r)
  BY <1>0 DEF Drains, DrainedIsOver, Gone, Types, CallTypes
<1> QED BY <1>1, <1>2, <1>3, <1>4, <1>5, <1>6, <1>7, CallStep DEF Stage

LEMMA LaunchExitedStep ==
    ASSUME UniqueIds, IInv, NEW r \in Request, LaunchExited(r)
    PROVE  IInv'
<1> USE DEF LaunchExited, Goto, Up,
            startVars, procVars, killVars, pmVars, monitorVars, downVars
<1>0. Types /\ BooksOwned /\ DrainedIsOver /\ Stage(r) /\ EgressOf[r] \in Egress
  BY ServiceAssumption DEF IInv
<1>1. Types'
  BY <1>0 DEF Types, CallTypes, KillTypes, BookTypes
<1>2. BooksOwned'
  BY <1>0, ServiceAssumption DEF BooksOwned, Types, BookTypes
<1>3. Frame(r)
  BY <1>0, ServiceAssumption DEF UniqueIds, Frame, Types, CallTypes, BookTypes
<1>4. StageOfStart(r)'
  BY <1>0, ServiceAssumption DEF Stage, StageOfStart, StageOfWaiter, NoTrace, Held, Early,
     Types, CallTypes, BookTypes
<1>5. StageOfWaiter(r)'
  BY <1>0, ServiceAssumption DEF Stage, StageOfStart, StageOfWaiter, NoTrace, Early, Types,
     CallTypes, BookTypes
<1>6. Tally(r)
  BY <1>0 DEF Tally, Over, Holds, Held, Stage, StageOfStart, StageOfWaiter, Types, CallTypes
<1>7. Drains(r)
  BY <1>0 DEF Drains, DrainedIsOver, Gone, Types, CallTypes
<1> QED BY <1>1, <1>2, <1>3, <1>4, <1>5, <1>6, <1>7, CallStep DEF Stage

LEMMA LaunchTimeoutStep ==
    ASSUME UniqueIds, IInv, NEW r \in Request, LaunchTimeout(r)
    PROVE  IInv'
<1> USE DEF LaunchTimeout, Goto, Up,
            startVars, procVars, killVars, pmVars, monitorVars, downVars
<1>0. Types /\ BooksOwned /\ DrainedIsOver /\ Stage(r) /\ EgressOf[r] \in Egress
  BY ServiceAssumption DEF IInv
<1>1. Types'
  BY <1>0 DEF Types, CallTypes, KillTypes, BookTypes
<1>2. BooksOwned'
  BY <1>0, ServiceAssumption DEF BooksOwned, Types, BookTypes
<1>3. Frame(r)
  BY <1>0, ServiceAssumption DEF UniqueIds, Frame, Types, CallTypes, BookTypes
<1>4. StageOfStart(r)'
  BY <1>0, ServiceAssumption DEF Stage, StageOfStart, StageOfWaiter, NoTrace, Held, Early,
     Types, CallTypes, BookTypes
<1>5. StageOfWaiter(r)'
  BY <1>0, ServiceAssumption DEF Stage, StageOfStart, StageOfWaiter, NoTrace, Early, Types,
     CallTypes, BookTypes
<1>6. Tally(r)
  BY <1>0 DEF Tally, Over, Holds, Held, Stage, StageOfStart, StageOfWaiter, Types, CallTypes
<1>7. Drains(r)
  BY <1>0 DEF Drains, DrainedIsOver, Gone, Types, CallTypes
<1> QED BY <1>1, <1>2, <1>3, <1>4, <1>5, <1>6, <1>7, CallStep DEF Stage

LEMMA AcceptRequestStep ==
    ASSUME UniqueIds, IInv, NEW r \in Request, NEW fits \in BOOLEAN, AcceptRequest(r, fits)
    PROVE  IInv'
<1> USE DEF AcceptRequest, Refuse, Goto, Up,
            startVars, procVars, killVars, pmVars, monitorVars, downVars
<1>0. Types /\ BooksOwned /\ DrainedIsOver /\ Stage(r) /\ EgressOf[r] \in Egress
  BY ServiceAssumption DEF IInv
<1>1. Types'
  BY <1>0 DEF Types, CallTypes, KillTypes, BookTypes
<1>2. BooksOwned'
  BY <1>0, ServiceAssumption DEF BooksOwned, Types, BookTypes
<1>3. Frame(r)
  BY <1>0, ServiceAssumption DEF UniqueIds, Frame, Types, CallTypes, BookTypes
<1>4. StageOfStart(r)'
  BY <1>0, ServiceAssumption DEF Stage, StageOfStart, StageOfWaiter, NoTrace, Held, Early,
     Types, CallTypes, BookTypes
<1>5. StageOfWaiter(r)'
  BY <1>0, ServiceAssumption DEF Stage, StageOfStart, StageOfWaiter, NoTrace, Early, Types,
     CallTypes, BookTypes
<1>6. Tally(r)
  BY <1>0 DEF Tally, Over, Holds, Held, Stage, StageOfStart, StageOfWaiter, Types, CallTypes
<1>7. Drains(r)
  BY <1>0 DEF Drains, DrainedIsOver, Gone, Types, CallTypes
<1> QED BY <1>1, <1>2, <1>3, <1>4, <1>5, <1>6, <1>7, CallStep DEF Stage

LEMMA CreateReturnsStep ==
    ASSUME UniqueIds, IInv, NEW r \in Request, NEW ok \in BOOLEAN, CreateReturns(r, ok)
    PROVE  IInv'
<1> USE DEF CreateReturns, Goto, Up,
            startVars, procVars, killVars, pmVars, monitorVars, downVars
<1>0. Types /\ BooksOwned /\ DrainedIsOver /\ Stage(r) /\ EgressOf[r] \in Egress
  BY ServiceAssumption DEF IInv
<1>1. Types'
  BY <1>0 DEF Types, CallTypes, KillTypes, BookTypes
<1>2. BooksOwned'
  BY <1>0, ServiceAssumption DEF BooksOwned, Types, BookTypes
<1>3. Frame(r)
  BY <1>0, ServiceAssumption DEF UniqueIds, Frame, Types, CallTypes, BookTypes
<1>4. StageOfStart(r)'
  BY <1>0, ServiceAssumption DEF Stage, StageOfStart, StageOfWaiter, NoTrace, Held, Early,
     Types, CallTypes, BookTypes
<1>5. StageOfWaiter(r)'
  BY <1>0, ServiceAssumption DEF Stage, StageOfStart, StageOfWaiter, NoTrace, Early, Types,
     CallTypes, BookTypes
<1>6. Tally(r)
  BY <1>0 DEF Tally, Over, Holds, Held, Stage, StageOfStart, StageOfWaiter, Types, CallTypes
<1>7. Drains(r)
  BY <1>0 DEF Drains, DrainedIsOver, Gone, Types, CallTypes
<1> QED BY <1>1, <1>2, <1>3, <1>4, <1>5, <1>6, <1>7, CallStep DEF Stage

LEMMA StartFailsStep ==
    ASSUME UniqueIds, IInv, NEW r \in Request, StartFails(r)
    PROVE  IInv'
<1> USE DEF StartFails, EndedInMonitor, Goto, Up,
            startVars, procVars, killVars, pmVars, monitorVars, downVars
<1>0. Types /\ BooksOwned /\ DrainedIsOver /\ Stage(r) /\ EgressOf[r] \in Egress
  BY ServiceAssumption DEF IInv
<1>1. Types'
  BY <1>0 DEF Types, CallTypes, KillTypes, BookTypes
<1>2. BooksOwned'
  BY <1>0, ServiceAssumption DEF BooksOwned, Types, BookTypes
<1>3. Frame(r)
  BY <1>0, ServiceAssumption DEF UniqueIds, Frame, Types, CallTypes, BookTypes
<1>4. StageOfStart(r)'
  BY <1>0, ServiceAssumption DEF Stage, StageOfStart, StageOfWaiter, NoTrace, Held, Early,
     Types, CallTypes, BookTypes
<1>5. StageOfWaiter(r)'
  BY <1>0, ServiceAssumption DEF Stage, StageOfStart, StageOfWaiter, NoTrace, Early, Types,
     CallTypes, BookTypes
<1>6. Tally(r)
  BY <1>0 DEF Tally, Over, Holds, Held, Stage, StageOfStart, StageOfWaiter, Types, CallTypes
<1>7. Drains(r)
  BY <1>0 DEF Drains, DrainedIsOver, Gone, Types, CallTypes
<1> QED BY <1>1, <1>2, <1>3, <1>4, <1>5, <1>6, <1>7, CallStep DEF Stage

LEMMA StartFailedStep ==
    ASSUME UniqueIds, IInv, NEW r \in Request, StartFailed(r)
    PROVE  IInv'
<1> USE DEF StartFailed, EndedInManager, Goto, Up,
            startVars, procVars, killVars, pmVars, monitorVars, downVars
<1>0. Types /\ BooksOwned /\ DrainedIsOver /\ Stage(r) /\ EgressOf[r] \in Egress
  BY ServiceAssumption DEF IInv
<1>1. Types'
  BY <1>0 DEF Types, CallTypes, KillTypes, BookTypes
<1>2. BooksOwned'
  BY <1>0, ServiceAssumption DEF BooksOwned, Types, BookTypes
<1>3. Frame(r)
  BY <1>0, ServiceAssumption DEF UniqueIds, Frame, Types, CallTypes, BookTypes
<1>4. StageOfStart(r)'
  BY <1>0, ServiceAssumption DEF Stage, StageOfStart, StageOfWaiter, NoTrace, Held, Early,
     Types, CallTypes, BookTypes
<1>5. StageOfWaiter(r)'
  BY <1>0, ServiceAssumption DEF Stage, StageOfStart, StageOfWaiter, NoTrace, Early, Types,
     CallTypes, BookTypes
<1>6. Tally(r)
  BY <1>0 DEF Tally, Over, Holds, Held, Stage, StageOfStart, StageOfWaiter, Types, CallTypes
<1>7. Drains(r)
  BY <1>0 DEF Drains, DrainedIsOver, Gone, Types, CallTypes
<1> QED BY <1>1, <1>2, <1>3, <1>4, <1>5, <1>6, <1>7, CallStep DEF Stage

LEMMA StartSucceedsStep ==
    ASSUME UniqueIds, IInv, NEW r \in Request, StartSucceeds(r)
    PROVE  IInv'
<1> USE DEF StartSucceeds, Goto, Up,
            startVars, procVars, killVars, pmVars, monitorVars, downVars
<1>0. Types /\ BooksOwned /\ DrainedIsOver /\ Stage(r) /\ EgressOf[r] \in Egress
  BY ServiceAssumption DEF IInv
<1>1. Types'
  BY <1>0 DEF Types, CallTypes, KillTypes, BookTypes
<1>2. BooksOwned'
  BY <1>0, ServiceAssumption DEF BooksOwned, Types, BookTypes
<1>3. Frame(r)
  BY <1>0, ServiceAssumption DEF UniqueIds, Frame, Types, CallTypes, BookTypes
<1>4. StageOfStart(r)'
  BY <1>0, ServiceAssumption DEF Stage, StageOfStart, StageOfWaiter, NoTrace, Held, Early,
     Types, CallTypes, BookTypes
<1>5. StageOfWaiter(r)'
  BY <1>0, ServiceAssumption DEF Stage, StageOfStart, StageOfWaiter, NoTrace, Early, Types,
     CallTypes, BookTypes
<1>6. Tally(r)
  BY <1>0 DEF Tally, Over, Holds, Held, Stage, StageOfStart, StageOfWaiter, Types, CallTypes
<1>7. Drains(r)
  BY <1>0 DEF Drains, DrainedIsOver, Gone, Types, CallTypes
<1> QED BY <1>1, <1>2, <1>3, <1>4, <1>5, <1>6, <1>7, CallStep DEF Stage

LEMMA StartAbortsStep ==
    ASSUME UniqueIds, IInv, NEW r \in Request, StartAborts(r)
    PROVE  IInv'
<1> USE DEF StartAborts, KillHandlers, Goto, Up,
            startVars, procVars, killVars, pmVars, monitorVars, downVars
<1>0. Types /\ BooksOwned /\ DrainedIsOver /\ Stage(r) /\ EgressOf[r] \in Egress
  BY ServiceAssumption DEF IInv
<1>1. Types'
  BY <1>0 DEF Types, CallTypes, KillTypes, BookTypes
<1>2. BooksOwned'
  BY <1>0, ServiceAssumption DEF BooksOwned, Types, BookTypes
<1>3. Frame(r)
  BY <1>0, ServiceAssumption DEF UniqueIds, Frame, Types, CallTypes, BookTypes
<1>4. StageOfStart(r)'
  BY <1>0, ServiceAssumption DEF Stage, StageOfStart, StageOfWaiter, NoTrace, Held, Early,
     Types, CallTypes, BookTypes
<1>5. StageOfWaiter(r)'
  BY <1>0, ServiceAssumption DEF Stage, StageOfStart, StageOfWaiter, NoTrace, Early, Types,
     CallTypes, BookTypes
<1>6. Tally(r)
  BY <1>0 DEF Tally, Over, Holds, Held, Stage, StageOfStart, StageOfWaiter, Types, CallTypes
<1>7. Drains(r)
  BY <1>0 DEF Drains, DrainedIsOver, Gone, Types, CallTypes
<1> QED BY <1>1, <1>2, <1>3, <1>4, <1>5, <1>6, <1>7, CallStep DEF Stage

LEMMA ProcessEndedStep ==
    ASSUME UniqueIds, IInv, NEW r \in Request, ProcessEnded(r)
    PROVE  IInv'
<1> USE DEF ProcessEnded, EndedInMonitor, Goto, Up,
            startVars, procVars, killVars, pmVars, monitorVars, downVars
<1>0. Types /\ BooksOwned /\ DrainedIsOver /\ Stage(r) /\ EgressOf[r] \in Egress
  BY ServiceAssumption DEF IInv
<1>1. Types'
  BY <1>0 DEF Types, CallTypes, KillTypes, BookTypes
<1>2. BooksOwned'
  BY <1>0, ServiceAssumption DEF BooksOwned, Types, BookTypes
<1>3. Frame(r)
  BY <1>0, ServiceAssumption DEF UniqueIds, Frame, Types, CallTypes, BookTypes
<1>4. StageOfStart(r)'
  BY <1>0, ServiceAssumption DEF Stage, StageOfStart, StageOfWaiter, NoTrace, Held, Early,
     Types, CallTypes, BookTypes
<1>5. StageOfWaiter(r)'
  <2>1. r \in procStats /\ \A q \in procStats : EgressOf[q] = EgressOf[r] => q = r
    BY <1>0 DEF Stage, StageOfWaiter, UniqueIds, Types, BookTypes
  <2>2. procStats' = procStats \ {r}
    BY <2>1
  <2>3. waiter'[r] = "ending" /\ (exitErr'[r] => "failed" \in reports'[r])
    BY <1>0 DEF Types, CallTypes
  <2> QED BY <1>0, <2>2, <2>3 DEF Stage, StageOfStart, StageOfWaiter, NoTrace, Types, CallTypes,
             BookTypes
<1>6. Tally(r)
  BY <1>0 DEF Tally, Over, Holds, Held, Stage, StageOfStart, StageOfWaiter, Types, CallTypes
<1>7. Drains(r)
  BY <1>0 DEF Drains, DrainedIsOver, Gone, Types, CallTypes
<1> QED BY <1>1, <1>2, <1>3, <1>4, <1>5, <1>6, <1>7, CallStep DEF Stage

LEMMA ProcessFinishedStep ==
    ASSUME UniqueIds, IInv, NEW r \in Request, ProcessFinished(r)
    PROVE  IInv'
<1> USE DEF ProcessFinished, EndedInManager, Goto, Up,
            startVars, procVars, killVars, pmVars, monitorVars, downVars
<1>0. Types /\ BooksOwned /\ DrainedIsOver /\ Stage(r) /\ EgressOf[r] \in Egress
  BY ServiceAssumption DEF IInv
<1>1. Types'
  BY <1>0 DEF Types, CallTypes, KillTypes, BookTypes
<1>2. BooksOwned'
  BY <1>0, ServiceAssumption DEF BooksOwned, Types, BookTypes
<1>3. Frame(r)
  BY <1>0, ServiceAssumption DEF UniqueIds, Frame, Types, CallTypes, BookTypes
<1>4. StageOfStart(r)'
  BY <1>0, ServiceAssumption DEF Stage, StageOfStart, StageOfWaiter, NoTrace, Held, Early,
     Types, CallTypes, BookTypes
<1>5. StageOfWaiter(r)'
  BY <1>0, ServiceAssumption DEF Stage, StageOfStart, StageOfWaiter, NoTrace, Early, Types,
     CallTypes, BookTypes
<1>6. Tally(r)
  BY <1>0 DEF Tally, Over, Holds, Held, Stage, StageOfStart, StageOfWaiter, Types, CallTypes
<1>7. Drains(r)
  BY <1>0 DEF Drains, DrainedIsOver, Gone, Types, CallTypes
<1> QED BY <1>1, <1>2, <1>3, <1>4, <1>5, <1>6, <1>7, CallStep DEF Stage

-----------------------------------------------------------------------------
(***************************************************************************)
(* The steps of a handler process and of the monitor.                      *)
(***************************************************************************)
LEMMA HandlerReadyStep ==
    ASSUME UniqueIds, IInv, NEW r \in Request, HandlerReady(r)
    PROVE  IInv'
<1> USE DEF HandlerReady, Exits, Goto, Up,
            startVars, procVars, killVars, pmVars, monitorVars, downVars
<1>0. Types /\ BooksOwned /\ DrainedIsOver /\ Stage(r) /\ EgressOf[r] \in Egress
  BY ServiceAssumption DEF IInv
<1>1. Types'
  <2>1. CallTypes'
    BY <1>0 DEF Types, CallTypes
  <2>2. KillTypes'
    <3>1. panicked' \in BOOLEAN
      BY <1>0 DEF Types, CallTypes, KillTypes, BookTypes
    <3>2. UNCHANGED <<reason, told, shutdown, killAll, toKill, drain>>
      OBVIOUS
    <3> QED BY <1>0, <3>1, <3>2 DEF Types, KillTypes
  <2>3. BookTypes'
    BY <1>0 DEF Types, BookTypes
  <2> QED BY <2>1, <2>2, <2>3 DEF Types
<1>2. BooksOwned'
  BY <1>0, ServiceAssumption DEF BooksOwned, Types, BookTypes
<1>3. Frame(r)
  BY <1>0, ServiceAssumption DEF UniqueIds, Frame, Types, CallTypes, BookTypes
<1>4. StageOfStart(r)'
  BY <1>0, ServiceAssumption DEF Stage, StageOfStart, StageOfWaiter, NoTrace, Held, Early,
     Types, CallTypes, BookTypes
<1>5. StageOfWaiter(r)'
  BY <1>0, ServiceAssumption DEF Stage, StageOfStart, StageOfWaiter, NoTrace, Early, Types,
     CallTypes, BookTypes
<1>6. Tally(r)
  BY <1>0 DEF Tally, Over, Holds, Held, Stage, StageOfStart, StageOfWaiter, Types, CallTypes
<1>7. Drains(r)
  BY <1>0 DEF Drains, DrainedIsOver, Gone, Types, CallTypes
<1> QED BY <1>1, <1>2, <1>3, <1>4, <1>5, <1>6, <1>7, CallStep DEF Stage

LEMMA HandlerFinishedStep ==
    ASSUME UniqueIds, IInv, NEW r \in Request, NEW silent \in BOOLEAN, HandlerFinished(r, silent)
    PROVE  IInv'
<1> USE DEF HandlerFinished, Exits, Goto, Up,
            startVars, procVars, killVars, pmVars, monitorVars, downVars
<1>0. Types /\ BooksOwned /\ DrainedIsOver /\ Stage(r) /\ EgressOf[r] \in Egress
  BY ServiceAssumption DEF IInv
<1>1. Types'
  BY <1>0 DEF Types, CallTypes, KillTypes, BookTypes
<1>2. BooksOwned'
  BY <1>0, ServiceAssumption DEF BooksOwned, Types, BookTypes
<1>3. Frame(r)
  BY <1>0, ServiceAssumption DEF UniqueIds, Frame, Types, CallTypes, BookTypes
<1>4. StageOfStart(r)'
  BY <1>0, ServiceAssumption DEF Stage, StageOfStart, StageOfWaiter, NoTrace, Held, Early,
     Types, CallTypes, BookTypes
<1>5. StageOfWaiter(r)'
  BY <1>0, ServiceAssumption DEF Stage, StageOfStart, StageOfWaiter, NoTrace, Early, Types,
     CallTypes, BookTypes
<1>6. Tally(r)
  BY <1>0 DEF Tally, Over, Holds, Held, Stage, StageOfStart, StageOfWaiter, Types, CallTypes
<1>7. Drains(r)
  BY <1>0 DEF Drains, DrainedIsOver, Gone, Types, CallTypes
<1> QED BY <1>1, <1>2, <1>3, <1>4, <1>5, <1>6, <1>7, CallStep DEF Stage

LEMMA HandlerUpdateFailedStep ==
    ASSUME UniqueIds, IInv, NEW r \in Request, NEW internal \in BOOLEAN, HandlerUpdateFailed(r, internal)
    PROVE  IInv'
<1> USE DEF HandlerUpdateFailed, Exits, Goto, Up,
            startVars, procVars, killVars, pmVars, monitorVars, downVars
<1>0. Types /\ BooksOwned /\ DrainedIsOver /\ Stage(r) /\ EgressOf[r] \in Egress
  BY ServiceAssumption DEF IInv
<1>1. Types'
  BY <1>0 DEF Types, CallTypes, KillTypes, BookTypes
<1>2. BooksOwned'
  BY <1>0, ServiceAssumption DEF BooksOwned, Types, BookTypes
<1>3. Frame(r)
  BY <1>0, ServiceAssumption DEF UniqueIds, Frame, Types, CallTypes, BookTypes
<1>4. StageOfStart(r)'
  BY <1>0, ServiceAssumption DEF Stage, StageOfStart, StageOfWaiter, NoTrace, Held, Early,
     Types, CallTypes, BookTypes
<1>5. StageOfWaiter(r)'
  BY <1>0, ServiceAssumption DEF Stage, StageOfStart, StageOfWaiter, NoTrace, Early, Types,
     CallTypes, BookTypes
<1>6. Tally(r)
  BY <1>0 DEF Tally, Over, Holds, Held, Stage, StageOfStart, StageOfWaiter, Types, CallTypes
<1>7. Drains(r)
  BY <1>0 DEF Drains, DrainedIsOver, Gone, Types, CallTypes
<1> QED BY <1>1, <1>2, <1>3, <1>4, <1>5, <1>6, <1>7, CallStep DEF Stage

LEMMA CrashStep ==
    ASSUME UniqueIds, IInv, NEW r \in Request, Crash(r)
    PROVE  IInv'
<1> USE DEF Crash, Exits, Goto, Up,
            startVars, procVars, killVars, pmVars, monitorVars, downVars
<1>0. Types /\ BooksOwned /\ DrainedIsOver /\ Stage(r) /\ EgressOf[r] \in Egress
  BY ServiceAssumption DEF IInv
<1>1. Types'
  BY <1>0 DEF Types, CallTypes, KillTypes, BookTypes
<1>2. BooksOwned'
  BY <1>0, ServiceAssumption DEF BooksOwned, Types, BookTypes
<1>3. Frame(r)
  BY <1>0, ServiceAssumption DEF UniqueIds, Frame, Types, CallTypes, BookTypes
<1>4. StageOfStart(r)'
  BY <1>0, ServiceAssumption DEF Stage, StageOfStart, StageOfWaiter, NoTrace, Held, Early,
     Types, CallTypes, BookTypes
<1>5. StageOfWaiter(r)'
  BY <1>0, ServiceAssumption DEF Stage, StageOfStart, StageOfWaiter, NoTrace, Early, Types,
     CallTypes, BookTypes
<1>6. Tally(r)
  BY <1>0 DEF Tally, Over, Holds, Held, Stage, StageOfStart, StageOfWaiter, Types, CallTypes
<1>7. Drains(r)
  BY <1>0 DEF Drains, DrainedIsOver, Gone, Types, CallTypes
<1> QED BY <1>1, <1>2, <1>3, <1>4, <1>5, <1>6, <1>7, CallStep DEF Stage

LEMMA StopProcessStep ==
    ASSUME UniqueIds, IInv, NEW r \in Request, StopProcess(r)
    PROVE  IInv'
<1> USE DEF StopProcess, Goto, Up,
            startVars, procVars, killVars, pmVars, monitorVars, downVars
<1>0. Types /\ BooksOwned /\ DrainedIsOver /\ Stage(r) /\ EgressOf[r] \in Egress
  BY ServiceAssumption DEF IInv
<1>1. Types'
  BY <1>0 DEF Types, CallTypes, KillTypes, BookTypes
<1>2. BooksOwned'
  BY <1>0, ServiceAssumption DEF BooksOwned, Types, BookTypes
<1>3. Frame(r)
  BY <1>0, ServiceAssumption DEF UniqueIds, Frame, Types, CallTypes, BookTypes
<1>4. StageOfStart(r)'
  BY <1>0, ServiceAssumption DEF Stage, StageOfStart, StageOfWaiter, NoTrace, Held, Early,
     Types, CallTypes, BookTypes
<1>5. StageOfWaiter(r)'
  BY <1>0, ServiceAssumption DEF Stage, StageOfStart, StageOfWaiter, NoTrace, Early, Types,
     CallTypes, BookTypes
<1>6. Tally(r)
  BY <1>0 DEF Tally, Over, Holds, Held, Stage, StageOfStart, StageOfWaiter, Types, CallTypes
<1>7. Drains(r)
  BY <1>0 DEF Drains, DrainedIsOver, Gone, Types, CallTypes
<1> QED BY <1>1, <1>2, <1>3, <1>4, <1>5, <1>6, <1>7, CallStep DEF Stage

LEMMA KillProcessStep ==
    ASSUME UniqueIds, IInv, NEW r \in Request, KillProcess(r)
    PROVE  IInv'
<1> USE DEF KillProcess, KillHandlers, Goto, Up,
            startVars, procVars, killVars, pmVars, monitorVars, downVars
<1>0. Types /\ BooksOwned /\ DrainedIsOver /\ Stage(r) /\ EgressOf[r] \in Egress
  BY ServiceAssumption DEF IInv
<1>1. Types'
  BY <1>0 DEF Types, CallTypes, KillTypes, BookTypes
<1>2. BooksOwned'
  BY <1>0, ServiceAssumption DEF BooksOwned, Types, BookTypes
<1>3. Frame(r)
  BY <1>0, ServiceAssumption DEF UniqueIds, Frame, Types, CallTypes, BookTypes
<1>4. StageOfStart(r)'
  BY <1>0, ServiceAssumption DEF Stage, StageOfStart, StageOfWaiter, NoTrace, Held, Early,
     Types, CallTypes, BookTypes
<1>5. StageOfWaiter(r)'
  BY <1>0, ServiceAssumption DEF Stage, StageOfStart, StageOfWaiter, NoTrace, Early, Types,
     CallTypes, BookTypes
<1>6. Tally(r)
  BY <1>0 DEF Tally, Over, Holds, Held, Stage, StageOfStart, StageOfWaiter, Types, CallTypes
<1>7. Drains(r)
  BY <1>0 DEF Drains, DrainedIsOver, Gone, Types, CallTypes
<1> QED BY <1>1, <1>2, <1>3, <1>4, <1>5, <1>6, <1>7, CallStep DEF Stage

-----------------------------------------------------------------------------
(***************************************************************************)
(* Shutdown and drain leave the calls alone.                               *)
(***************************************************************************)
LEMMA NodeStep ==
    ASSUME IInv, UNCHANGED <<startVars, procVars, pmVars, activeRequests, monitorVars, reports>>,
           KillTypes', DrainedIsOver'
    PROVE  IInv'
<1> USE DEF startVars, procVars, pmVars, monitorVars
<1>1. Types'
  BY DEF IInv, Types, CallTypes, BookTypes
<1>2. BooksOwned' /\ CountsRight'
  BY DEF IInv, BooksOwned, CountsRight, Over, Holds
<1>3. \A r \in Request : Stage(r)'
  BY DEF IInv, Stage, StageOfStart, StageOfWaiter, NoTrace
<1> QED BY <1>1, <1>2, <1>3 DEF IInv

LEMMA ShutdownStep ==
    ASSUME IInv, NEW kill \in BOOLEAN, Shutdown(kill)
    PROVE  IInv'
<1>1. KillTypes'
  <2>1. KillTypes /\ active \in [Egress -> Request \cup {None}]
    BY DEF IInv, Types, BookTypes
  <2>2. CASE kill
    <3>1. /\ toKill' = {active[e] : e \in Egress} \ {None}
          /\ reason' = [r \in Request |-> IF r \in toKill' THEN "shutdown" ELSE reason[r]]
          /\ killAll' = "collected" /\ shutdown' = TRUE
          /\ UNCHANGED <<told, drain, panicked>>
      BY <2>2 DEF Shutdown, Up
    <3>2. toKill' \subseteq Request
      BY <2>1, <3>1
    <3> QED BY <2>1, <3>1, <3>2 DEF KillTypes
  <2>3. CASE ~kill
    BY <2>1, <2>3 DEF Shutdown, Up, KillTypes
  <2> QED BY <2>2, <2>3
<1>2. DrainedIsOver'
  BY DEF Shutdown, DrainedIsOver
<1> QED BY <1>1, <1>2, NodeStep DEF Shutdown

LEMMA KillAllStep ==
    ASSUME IInv, KillAll
    PROVE  IInv'
<1>1. KillTypes'
  BY DEF IInv, Types, KillTypes, KillAll, KillHandlers
<1>2. DrainedIsOver'
  BY DEF IInv, DrainedIsOver, Gone, KillAll, startVars, procVars
<1> QED BY <1>1, <1>2, NodeStep DEF KillAll

LEMMA DrainIdleStep ==
    ASSUME IInv, DrainIdle
    PROVE  IInv'
<1>1. KillTypes'
  BY DEF IInv, Types, KillTypes, DrainIdle, killVars, Up
<1>2. {r \in Request : ~Over(r)} = {}
  <2>1. IsFiniteSet({r \in Request : ~Over(r)})
    BY ServiceAssumption, FS_Subset
  <2>2. Cardinality({r \in Request : ~Over(r)}) = 0
    BY DEF IInv, CountsRight, DrainIdle
  <2> QED BY <2>1, <2>2, FS_EmptySet
<1>3. \A r \in Request : Gone(r)
  BY <1>2 DEF IInv, Over, Gone, Stage, StageOfWaiter
<1>4. DrainedIsOver'
  BY <1>3 DEF DrainedIsOver, Gone, DrainIdle, startVars, procVars
<1> QED BY <1>1, <1>4, NodeStep DEF DrainIdle

LEMMA DrainStopsStep ==
    ASSUME IInv, DrainStops
    PROVE  IInv'
<1>1. KillTypes'
  BY DEF IInv, Types, KillTypes, DrainStops, killVars, Up
<1>2. DrainedIsOver'
  BY DEF IInv, DrainedIsOver, Gone, DrainStops, startVars, procVars
<1> QED BY <1>1, <1>2, NodeStep DEF DrainStops

LEMMA Stutters ==
    ASSUME IInv, UNCHANGED vars
    PROVE  IInv'
<1>1. KillTypes' /\ DrainedIsOver'
  BY DEF IInv, Types, KillTypes, DrainedIsOver, Gone, vars, killVars, downVars, startVars,
     procVars
<1> QED BY <1>1, NodeStep DEF vars

-----------------------------------------------------------------------------
LEMMA Initially == Init => IInv
<1> SUFFICES ASSUME Init PROVE IInv
  OBVIOUS
<1>1. Types
  BY DEF Init, Types, CallTypes, KillTypes, BookTypes
<1>2. BooksOwned /\ DrainedIsOver
  BY DEF Init, BooksOwned, DrainedIsOver
<1>3. \A r \in Request : Stage(r)
  BY ServiceAssumption
     DEF Init, Stage, StageOfStart, StageOfWaiter, NoTrace, Held, Early
<1>4. CountsRight
  <2>1. {r \in Request : ~Over(r)} = {} /\ {r \in Request : Holds(r)} = {}
    BY DEF Init, Over, Holds, Held
  <2> QED BY <2>1, FS_EmptySet DEF Init, CountsRight
<1> QED BY <1>1, <1>2, <1>3, <1>4 DEF IInv

LEMMA Inductive ==
    ASSUME UniqueIds
    PROVE  IInv /\ [Next]_vars => IInv'
<1> SUFFICES ASSUME IInv, [Next]_vars PROVE IInv'
  OBVIOUS
<1>1. ASSUME NEW r \in Request,
             \/ StartEgress(r) \/ CheckDisabled(r) \/ AlreadyExists(r)
             \/ \E fits \in BOOLEAN : AcceptRequest(r, fits)
             \/ ValidationFails(r) \/ CreateEgress(r)
             \/ \E ok \in BOOLEAN : CreateReturns(r, ok)
      PROVE  IInv'
  BY <1>1, StartEgressStep, CheckDisabledStep, AlreadyExistsStep, AcceptRequestStep,
     ValidationFailsStep,
     CreateEgressStep, CreateReturnsStep
<1>2. ASSUME NEW r \in Request,
             \/ LaunchInserts(r) \/ LaunchStarts(r) \/ LaunchFails(r)
             \/ LaunchReady(r) \/ LaunchExited(r) \/ LaunchTimeout(r)
      PROVE  IInv'
  BY <1>2, LaunchInsertsStep, LaunchStartsStep, LaunchFailsStep, LaunchReadyStep,
     LaunchExitedStep,
     LaunchTimeoutStep
<1>3. ASSUME NEW r \in Request,
             \/ StartFails(r) \/ StartFailed(r) \/ StartSucceeds(r) \/ StartAborts(r)
             \/ ProcessEnded(r) \/ ProcessFinished(r)
      PROVE  IInv'
  BY <1>3, StartFailsStep, StartFailedStep, StartSucceedsStep, StartAbortsStep, ProcessEndedStep,
     ProcessFinishedStep
<1>4. ASSUME NEW r \in Request,
             \/ HandlerReady(r)
             \/ \E silent \in BOOLEAN : HandlerFinished(r, silent)
             \/ \E internal \in BOOLEAN : HandlerUpdateFailed(r, internal)
             \/ Crash(r) \/ StopProcess(r) \/ KillProcess(r)
      PROVE  IInv'
  BY <1>4, HandlerReadyStep, HandlerFinishedStep, HandlerUpdateFailedStep, CrashStep,
     StopProcessStep,
     KillProcessStep
<1>5. CASE (\E kill \in BOOLEAN : Shutdown(kill)) \/ KillAll \/ DrainIdle \/ DrainStops
  BY <1>5, ShutdownStep, KillAllStep, DrainIdleStep, DrainStopsStep
<1>6. CASE UNCHANGED vars
  BY <1>6, Stutters
<1> QED BY <1>1, <1>2, <1>3, <1>4, <1>5, <1>6 DEF Next, Stopped

\* Every state of a run satisfies the invariant.
THEOREM InvariantHolds ==
    ASSUME UniqueIds
    PROVE  Spec => []IInv
BY Initially, Inductive, PTL DEF Spec

(***************************************************************************)
(* The service's books agree with what runs: activeRequests counts the     *)
(* calls that are not over on every path, costs are held until the egress  *)
(* ended, and a node that found itself idle keeps nothing and launches     *)
(* nothing (StartEgress, launchProcess, processEnded, Drain).              *)
(***************************************************************************)
THEOREM ServiceAccounted ==
    ASSUME UniqueIds
    PROVE  Spec => []Accounted
<1>1. IInv => Accounted
  <2> SUFFICES ASSUME IInv PROVE Accounted
    OBVIOUS
  <2>1. TypeOK
    <3>1. activeRequests \in Nat /\ requests \in Nat
      <4>1. /\ IsFiniteSet({r \in Request : ~Over(r)})
            /\ IsFiniteSet({r \in Request : Holds(r)})
        BY ServiceAssumption, FS_Subset
      <4> QED BY <4>1, FS_CardinalityType DEF IInv, CountsRight
    <3> QED BY <3>1 DEF IInv, Types, CallTypes, KillTypes, BookTypes, TypeOK
  <2>2. RequestsBalanced
    BY DEF IInv, CountsRight, RequestsBalanced
  <2>3. CostsHeld
    BY DEF IInv, Stage, StageOfStart, StageOfWaiter, Held, CostsHeld
  <2>4. DrainLeavesNothing
    <3> SUFFICES ASSUME drain # "serving"
                 PROVE  /\ \A r \in Request :
                              /\ ~Alive(r)
                              /\ start[r] \in {"idle", "entered", "refused", "launched", "returned"}
                        /\ \A e \in Egress : active[e] = None
                        /\ topics = {} /\ pending = {} /\ procStats = {} /\ requests = 0
      BY DEF DrainLeavesNothing
    <3>1. \A r \in Request :
             /\ ~Alive(r) /\ NoTrace(r) /\ ~Holds(r)
             /\ EgressOf[r] \notin pending /\ r \notin procStats
             /\ start[r] \in {"idle", "entered", "refused", "launched", "returned"}
      <4> TAKE r \in Request
      <4>1. Gone(r) /\ Stage(r)
        BY DEF IInv, DrainedIsOver
      <4> QED BY <4>1 DEF Gone, Stage, StageOfStart, StageOfWaiter, Alive, Holds, Held, Early
    <3>2. \A e \in Egress : active[e] = None
      BY <3>1 DEF IInv, Types, BookTypes, BooksOwned, NoTrace
    <3>3. topics = {} /\ pending = {} /\ procStats = {}
      BY <3>1 DEF IInv, Types, BookTypes, BooksOwned, NoTrace
    <3>4. requests = 0
      <4>1. {r \in Request : Holds(r)} = {}
        BY <3>1
      <4> QED BY <4>1, FS_EmptySet DEF IInv, CountsRight
    <3> QED BY <3>1, <3>2, <3>3, <3>4
  <2> QED BY <2>1, <2>2, <2>3, <2>4 DEF Accounted
<1> QED BY <1>1, InvariantHolds, PTL

(***************************************************************************)
(* No handler escapes: while its process lives it has its entry, where     *)
(* StopEgress and the kills find it, and the service itself reports the    *)
(* one that did not start or did not end cleanly (Launch, processEnded).   *)
(***************************************************************************)
THEOREM ServiceKnowsHandlers ==
    ASSUME UniqueIds
    PROVE  Spec => []HandlersKnown
<1>1. IInv => HandlersKnown
  <2> SUFFICES ASSUME IInv, NEW r \in Request
               PROVE  /\ Alive(r) => active[EgressOf[r]] = r
                      /\ (Over(r) /\ create[r] = "ok" /\ (waiter[r] = "none" \/ exitErr[r]))
                            => "failed" \in reports[r]
    BY DEF HandlersKnown, HandlerReachable, FailureReported
  <2>1. Stage(r) /\ CallTypes
    BY DEF IInv, Types
  <2>2. Alive(r) => active[EgressOf[r]] = r
    BY <2>1 DEF Stage, StageOfStart, StageOfWaiter, Early, Alive, CallTypes
  <2>3. (Over(r) /\ create[r] = "ok" /\ (waiter[r] = "none" \/ exitErr[r]))
            => "failed" \in reports[r]
    BY <2>1 DEF Stage, StageOfStart, StageOfWaiter, Early, Over, CallTypes
  <2> QED BY <2>2, <2>3
<1> QED BY <1>1, InvariantHolds, PTL
=============================================================================
