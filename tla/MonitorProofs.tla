---------------------------- MODULE MonitorProofs ----------------------------
(***************************************************************************)
(* Proofs about Monitor, for any finite set of egresses, any costs and     *)
(* limits and any workloads.                                               *)
(*                                                                         *)
(* The books of the monitor are sums: of the cpu the requests in progress  *)
(* hold, of the memory on hold, of the pulse clients.  The first part      *)
(* therefore shows what the sum of the community modules computes, which   *)
(* is a fold in an order that CHOOSE picks: that the fold exists, that its *)
(* order does not matter, and how a sum changes with one summand.          *)
(*                                                                         *)
(* The second part is an inductive invariant that implies BooksFit, and    *)
(* the third the theorems.  Only a request that estimates its cpu below    *)
(* the cost it is charged with could break it: see EstimatesCover.         *)
(***************************************************************************)
EXTENDS Monitor, FiniteSetTheorems, WellFoundedInduction, TLAPS

-----------------------------------------------------------------------------
(* Sums *)

\* The element that the fold takes first.
Turn(s) == CHOOSE x \in s : TRUE

\* The recursive function behind SumFunctionOnSet.
Fold(f, S) ==
    CHOOSE iter : iter = [s \in SUBSET S |->
        IF s = {} THEN 0 ELSE f[Turn(s)] + iter[s \ {Turn(s)}]]

\* The sum is the value of that function.
LEMMA SumIsFold ==
    ASSUME NEW f, NEW S
    PROVE  SumFunctionOnSet(f, S) = Fold(f, S)[S]
BY DEF SumFunctionOnSet, FoldFunctionOnSet, MapThenFoldSet, Fold, Turn

\* Induction over the subsets of a finite set: a set of them that holds every one whose
\* smaller neighbours it holds, holds all.
LEMMA BySmaller ==
    ASSUME NEW S, IsFiniteSet(S), NEW P,
           \A T \in SUBSET S : (\A x \in T : T \ {x} \in P) => T \in P
    PROVE  \A T \in SUBSET S : T \in P
<1> DEFINE B == {T \in SUBSET S : T \notin P}
<1>1. SUFFICES ASSUME B # {} PROVE FALSE
  OBVIOUS
<1>2. B \subseteq FiniteSubsetsOf(S)
  BY FS_Subset DEF FiniteSubsetsOf
<1>3. PICK T \in B : \A U \in B : <<U, T>> \notin StrictSubsetOrdering(S)
  BY <1>1, <1>2, FS_StrictSubsetOrderingWellFounded, WFMin
<1>4. ASSUME NEW x \in T PROVE T \ {x} \in P
  <2>1. T \ {x} \in SUBSET S /\ T \in SUBSET S /\ T \ {x} # T
    OBVIOUS
  <2>2. <<T \ {x}, T>> \in StrictSubsetOrdering(S)
    <3> DEFINE U == T \ {x}
    <3>1. U \subseteq T /\ U # T /\ U \in SUBSET S /\ T \in SUBSET S
      BY <2>1
    <3> HIDE DEF U
    <3>2. <<U, T>> \in StrictSubsetOrdering(S)
      BY <3>1 DEF StrictSubsetOrdering
    <3> QED BY <3>2 DEF U
  <2>3. T \ {x} \notin B
    BY <1>3, <2>2
  <2> QED BY <2>1, <2>3
<1>5. QED
  BY <1>3, <1>4

\* A part of the fold, on the sets with at most n elements.
Upto(S, n) == {s \in SUBSET S : Cardinality(s) <= n}

IsPart(g, f, S, n) ==
    g = [s \in Upto(S, n) |-> IF s = {} THEN 0 ELSE f[Turn(s)] + g[s \ {Turn(s)}]]

\* The first element is one.
LEMMA TurnIn ==
    ASSUME NEW s, s # {}
    PROVE  Turn(s) \in s
BY DEF Turn

\* A part for n elements gives one for n + 1.
LEMMA PartGrows ==
    ASSUME NEW S, IsFiniteSet(S), NEW f, NEW n \in Nat, NEW g, IsPart(g, f, S, n)
    PROVE  \E h : IsPart(h, f, S, n + 1)
<1> DEFINE Step(k, s) == IF s = {} THEN 0 ELSE f[Turn(s)] + k[s \ {Turn(s)}]
           h == [s \in Upto(S, n + 1) |-> Step(g, s)]
<1>1. \A s \in Upto(S, n) : g[s] = Step(g, s)
  BY DEF IsPart
<1>2. ASSUME NEW s \in Upto(S, n + 1), s # {}
      PROVE  s \ {Turn(s)} \in Upto(S, n)
  <2>1. s \in SUBSET S /\ IsFiniteSet(s) /\ Cardinality(s) <= n + 1 /\ Cardinality(s) \in Nat
    BY FS_Subset, FS_CardinalityType DEF Upto
  <2>2. Cardinality(s \ {Turn(s)}) = Cardinality(s) - 1
    BY <1>2, <2>1, TurnIn, FS_RemoveElement
  <2> QED BY <2>1, <2>2 DEF Upto
<1>3. \A s \in Upto(S, n) : s \in Upto(S, n + 1)
  <2>1. ASSUME NEW s \in SUBSET S, Cardinality(s) <= n PROVE Cardinality(s) <= n + 1
    <3>1. Cardinality(s) \in Nat
      BY FS_Subset, FS_CardinalityType
    <3> QED BY <2>1, <3>1
  <2> QED BY <2>1 DEF Upto
<1>4. \A s \in Upto(S, n) : h[s] = g[s]
  BY <1>1, <1>3
<1>5. \A s \in Upto(S, n + 1) : h[s] = Step(h, s)
  BY <1>2, <1>4
<1>6. h = [s \in Upto(S, n + 1) |-> Step(h, s)]
  BY <1>5
<1> HIDE DEF h
<1> QED BY <1>6 DEF IsPart

\* So there is a function that does what the recursion says.
LEMMA FoldExists ==
    ASSUME NEW S, IsFiniteSet(S), NEW f
    PROVE  \E g : IsPart(g, f, S, Cardinality(S))
<1> DEFINE P == {T \in SUBSET S : \E g : IsPart(g, f, S, Cardinality(T))}
<1>1. ASSUME NEW T \in SUBSET S, \A x \in T : T \ {x} \in P PROVE T \in P
  <2>1. CASE T = {}
    <3> DEFINE z == [s \in Upto(S, 0) |-> 0]
    <3>1. \A s \in Upto(S, 0) : s = {}
      <4> SUFFICES ASSUME NEW s \in SUBSET S, Cardinality(s) <= 0 PROVE s = {}
        BY DEF Upto
      <4>1. IsFiniteSet(s) /\ Cardinality(s) \in Nat
        BY FS_Subset, FS_CardinalityType
      <4>2. Cardinality(s) = 0
        BY <4>1
      <4> QED BY <4>1, <4>2, FS_EmptySet
    <3>2. IsPart(z, f, S, 0)
      BY <3>1 DEF IsPart
    <3> HIDE DEF z
    <3>3. Cardinality(T) = 0
      BY <2>1, FS_EmptySet
    <3> QED BY <3>2, <3>3
  <2>2. CASE T # {}
    <3>1. PICK x \in T : T \ {x} \in P
      BY <1>1, <2>2
    <3>2. PICK g : IsPart(g, f, S, Cardinality(T \ {x}))
      BY <3>1
    <3>3. IsFiniteSet(T) /\ IsFiniteSet(T \ {x})
      BY FS_Subset
    <3>4. Cardinality(T \ {x}) \in Nat /\ Cardinality(T) \in Nat
      BY <3>3, FS_CardinalityType
    <3>5. Cardinality(T) = Cardinality(T \ {x}) + 1
      BY <3>3, <3>4, FS_RemoveElement
    <3>6. \E h : IsPart(h, f, S, Cardinality(T))
      BY <3>2, <3>4, <3>5, PartGrows
    <3> QED BY <3>6
  <2> QED BY <2>1, <2>2
<1>2. S \in P
  <2> HIDE DEF P
  <2> QED BY <1>1, BySmaller, S \in SUBSET S
<1> QED BY <1>2

\* The fold is what it is defined to be.
LEMMA FoldIs ==
    ASSUME NEW S, IsFiniteSet(S), NEW f
    PROVE  Fold(f, S) = [s \in SUBSET S |->
               IF s = {} THEN 0 ELSE f[Turn(s)] + Fold(f, S)[s \ {Turn(s)}]]
<1>1. PICK g : IsPart(g, f, S, Cardinality(S))
  BY FoldExists
<1>2. Upto(S, Cardinality(S)) = SUBSET S
  BY FS_Subset DEF Upto
<1>3. g = [s \in SUBSET S |-> IF s = {} THEN 0 ELSE f[Turn(s)] + g[s \ {Turn(s)}]]
  BY <1>1, <1>2 DEF IsPart
<1> QED BY <1>3 DEF Fold

\* The fold at one set.
LEMMA FoldAt ==
    ASSUME NEW S, IsFiniteSet(S), NEW f, NEW T \in SUBSET S
    PROVE  Fold(f, S)[T] = IF T = {} THEN 0 ELSE f[Turn(T)] + Fold(f, S)[T \ {Turn(T)}]
<1> DEFINE g == Fold(f, S)
<1>1. g = [s \in SUBSET S |-> IF s = {} THEN 0 ELSE f[Turn(s)] + g[s \ {Turn(s)}]]
  BY FoldIs
<1> HIDE DEF g
<1>2. g[T] = IF T = {} THEN 0 ELSE f[Turn(T)] + g[T \ {Turn(T)}]
  BY <1>1
<1> QED BY <1>2 DEF g

\* The fold over a larger set does the same on the smaller one.
LEMMA FoldSmaller ==
    ASSUME NEW S, IsFiniteSet(S), NEW R \in SUBSET S, NEW f
    PROVE  Fold(f, S)[R] = Fold(f, R)[R]
<1> DEFINE P == {T \in SUBSET R : Fold(f, S)[T] = Fold(f, R)[T]}
<1>0. IsFiniteSet(R)
  BY FS_Subset
<1>1. ASSUME NEW T \in SUBSET R, \A x \in T : T \ {x} \in P PROVE T \in P
  <2>1. T \in SUBSET S
    OBVIOUS
  <2>2. Fold(f, S)[T] = IF T = {} THEN 0 ELSE f[Turn(T)] + Fold(f, S)[T \ {Turn(T)}]
    BY <2>1, FoldAt
  <2>3. Fold(f, R)[T] = IF T = {} THEN 0 ELSE f[Turn(T)] + Fold(f, R)[T \ {Turn(T)}]
    BY <1>0, FoldAt
  <2>4. T # {} => Turn(T) \in T
    BY TurnIn
  <2> QED BY <1>1, <2>2, <2>3, <2>4
<1>2. R \in P
  <2> HIDE DEF P
  <2> QED BY <1>0, <1>1, BySmaller
<1> QED BY <1>2

\* The sum takes the first element out.
LEMMA SumTakesTurn ==
    ASSUME NEW S, IsFiniteSet(S), S # {}, NEW f
    PROVE  SumFunctionOnSet(f, S) = f[Turn(S)] + SumFunctionOnSet(f, S \ {Turn(S)})
<1>1. Fold(f, S)[S] = f[Turn(S)] + Fold(f, S)[S \ {Turn(S)}]
  <2>1. S \in SUBSET S
    OBVIOUS
  <2> QED BY <2>1, FoldAt
<1>2. Fold(f, S)[S \ {Turn(S)}] = Fold(f, S \ {Turn(S)})[S \ {Turn(S)}]
  BY FoldSmaller
<1> QED BY <1>1, <1>2, SumIsFold

\* The sum of nothing.
LEMMA SumEmpty ==
    ASSUME NEW f
    PROVE  SumFunctionOnSet(f, {}) = 0
<1>1. Fold(f, {})[{}] = 0
  <2>1. IsFiniteSet({}) /\ {} \in SUBSET {}
    BY FS_EmptySet
  <2> QED BY <2>1, FoldAt
<1> QED BY <1>1, SumIsFold

\* A sum of naturals is one.
LEMMA SumNat ==
    ASSUME NEW S, IsFiniteSet(S), NEW f, \A x \in S : f[x] \in Nat
    PROVE  SumFunctionOnSet(f, S) \in Nat
<1> DEFINE P == {T \in SUBSET S : SumFunctionOnSet(f, T) \in Nat}
<1>1. ASSUME NEW T \in SUBSET S, \A x \in T : T \ {x} \in P PROVE T \in P
  <2>1. CASE T = {}
    BY <2>1, SumEmpty
  <2>2. CASE T # {}
    <3>1. IsFiniteSet(T) /\ Turn(T) \in T
      BY <2>2, FS_Subset, TurnIn
    <3>2. SumFunctionOnSet(f, T) = f[Turn(T)] + SumFunctionOnSet(f, T \ {Turn(T)})
      BY <2>2, <3>1, SumTakesTurn
    <3>3. f[Turn(T)] \in Nat /\ SumFunctionOnSet(f, T \ {Turn(T)}) \in Nat
      BY <1>1, <3>1
    <3> QED BY <3>2, <3>3
  <2> QED BY <2>1, <2>2
<1>2. S \in P
  <2> HIDE DEF P
  <2> QED BY <1>1, BySmaller, S \in SUBSET S
<1> QED BY <1>2

\* The sum does not depend on the order.
LEMMA SumTakes ==
    ASSUME NEW S, IsFiniteSet(S), NEW f, \A x \in S : f[x] \in Nat, NEW x \in S
    PROVE  SumFunctionOnSet(f, S) = f[x] + SumFunctionOnSet(f, S \ {x})
<1> DEFINE Takes(T, y) == SumFunctionOnSet(f, T) = f[y] + SumFunctionOnSet(f, T \ {y})
           P == {T \in SUBSET S : \A y \in T : Takes(T, y)}
<1>1. ASSUME NEW T \in SUBSET S, \A y \in T : T \ {y} \in P, NEW y \in T PROVE Takes(T, y)
  <2> DEFINE c == Turn(T)
  <2>1. IsFiniteSet(T) /\ c \in T
    BY FS_Subset, TurnIn
  <2>2. Takes(T, c)
    BY <2>1, SumTakesTurn
  <2>3. CASE y = c
    BY <2>2, <2>3
  <2>4. CASE y # c
    <3>1. Takes(T \ {c}, y)
      BY <1>1, <2>1, <2>4
    <3>2. Takes(T \ {y}, c)
      BY <1>1, <2>1, <2>4
    <3>3. (T \ {c}) \ {y} = (T \ {y}) \ {c}
      OBVIOUS
    <3> DEFINE U == (T \ {y}) \ {c}
    <3>4. U \in SUBSET S /\ IsFiniteSet(U)
      BY FS_Subset
    <3>5. SumFunctionOnSet(f, U) \in Nat
      BY <3>4, SumNat
    <3>6. f[c] \in Nat /\ f[y] \in Nat
      BY <2>1
    <3> HIDE DEF U, c
    <3>7. SumFunctionOnSet(f, T \ {c}) = f[y] + SumFunctionOnSet(f, U)
      BY <3>1, <3>3 DEF U
    <3>8. SumFunctionOnSet(f, T \ {y}) = f[c] + SumFunctionOnSet(f, U)
      BY <3>2 DEF U
    <3> QED BY <2>2, <3>5, <3>6, <3>7, <3>8
  <2> QED BY <2>3, <2>4
<1>2. S \in P
  <2>1. \A T \in SUBSET S : (\A y \in T : T \ {y} \in P) => T \in P
    BY <1>1
  <2> HIDE DEF P
  <2> QED BY <2>1, BySmaller, S \in SUBSET S
<1> QED BY <1>2

\* Fewer and smaller summands give no larger sum.
LEMMA SumGrows ==
    ASSUME NEW S, IsFiniteSet(S), NEW f, \A x \in S : f[x] \in Nat,
           NEW R \in SUBSET S, NEW g, \A x \in R : g[x] \in Nat /\ g[x] <= f[x]
    PROVE  SumFunctionOnSet(g, R) <= SumFunctionOnSet(f, S)
<1> DEFINE P == {T \in SUBSET S :
                  SumFunctionOnSet(g, R \cap T) <= SumFunctionOnSet(f, T)}
<1>1. ASSUME NEW T \in SUBSET S, \A x \in T : T \ {x} \in P PROVE T \in P
  <2>0. IsFiniteSet(T) /\ IsFiniteSet(R \cap T)
    BY FS_Subset
  <2>1. CASE T = {}
    <3>1. R \cap T = {}
      BY <2>1
    <3> QED BY <2>1, <3>1, SumEmpty
  <2>2. CASE T # {}
    <3>1. PICK x : x \in T
      BY <2>2
    <3>2. SumFunctionOnSet(f, T) = f[x] + SumFunctionOnSet(f, T \ {x})
      BY <2>0, <3>1, SumTakes
    <3>3. SumFunctionOnSet(g, R \cap (T \ {x})) <= SumFunctionOnSet(f, T \ {x})
      BY <1>1, <3>1
    <3>4. /\ IsFiniteSet(T \ {x}) /\ IsFiniteSet(R \cap (T \ {x}))
          /\ T \ {x} \in SUBSET S /\ R \cap (T \ {x}) \in SUBSET R
      BY FS_Subset
    <3>5. SumFunctionOnSet(f, T \ {x}) \in Nat /\ SumFunctionOnSet(g, R \cap (T \ {x})) \in Nat
      BY <3>4, SumNat
    <3>6. CASE x \in R
      <4>1. (R \cap T) \ {x} = R \cap (T \ {x})
        OBVIOUS
      <4>2. SumFunctionOnSet(g, R \cap T) = g[x] + SumFunctionOnSet(g, R \cap (T \ {x}))
        BY <2>0, <3>1, <3>6, <4>1, SumTakes
      <4> QED BY <3>1, <3>2, <3>3, <3>5, <3>6, <4>2
    <3>7. CASE x \notin R
      <4>1. R \cap T = R \cap (T \ {x})
        BY <3>7
      <4>2. f[x] \in Nat
        BY <3>1
      <4>3. SumFunctionOnSet(g, R \cap T) = SumFunctionOnSet(g, R \cap (T \ {x}))
        BY <4>1
      <4> QED BY <3>2, <3>3, <3>5, <4>2, <4>3
    <3> QED BY <3>6, <3>7
  <2> QED BY <2>1, <2>2
<1>2. S \in P
  <2> HIDE DEF P
  <2> QED BY <1>1, BySmaller, S \in SUBSET S
<1>3. R \cap S = R
  OBVIOUS
<1> QED BY <1>2, <1>3

\* Functions that agree have the same sum.
LEMMA SumAgrees ==
    ASSUME NEW S, IsFiniteSet(S), NEW f, NEW g, \A x \in S : f[x] \in Nat /\ g[x] = f[x]
    PROVE  SumFunctionOnSet(g, S) = SumFunctionOnSet(f, S)
<1>1. SumFunctionOnSet(g, S) <= SumFunctionOnSet(f, S)
  BY SumGrows
<1>2. SumFunctionOnSet(f, S) <= SumFunctionOnSet(g, S)
  BY SumGrows
<1>3. SumFunctionOnSet(g, S) \in Nat /\ SumFunctionOnSet(f, S) \in Nat
  BY SumNat
<1> QED BY <1>1, <1>2, <1>3

\* How the sum changes with one summand.
LEMMA SumChanges ==
    ASSUME NEW S, IsFiniteSet(S), NEW f \in [S -> Nat], NEW g \in [S -> Nat],
           NEW e \in S, \A x \in S \ {e} : g[x] = f[x]
    PROVE  SumFunctionOnSet(g, S) = (SumFunctionOnSet(f, S) - f[e]) + g[e]
<1>1. IsFiniteSet(S \ {e})
  BY FS_RemoveElement
<1>2. SumFunctionOnSet(g, S \ {e}) = SumFunctionOnSet(f, S \ {e})
  BY <1>1, SumAgrees
<1>3. SumFunctionOnSet(f, S) = f[e] + SumFunctionOnSet(f, S \ {e})
  BY SumTakes
<1>4. SumFunctionOnSet(g, S) = g[e] + SumFunctionOnSet(g, S \ {e})
  BY SumTakes
<1>5. SumFunctionOnSet(f, S \ {e}) \in Nat
  BY <1>1, SumNat
<1> QED BY <1>2, <1>3, <1>4, <1>5

\* One summand more.
LEMMA SumAdds ==
    ASSUME NEW S, IsFiniteSet(S), NEW f, NEW e, e \notin S, \A x \in S \cup {e} : f[x] \in Nat
    PROVE  SumFunctionOnSet(f, S \cup {e}) = SumFunctionOnSet(f, S) + f[e]
<1>1. IsFiniteSet(S \cup {e}) /\ (S \cup {e}) \ {e} = S /\ e \in S \cup {e}
  BY FS_AddElement
<1>2. SumFunctionOnSet(f, S) \in Nat /\ f[e] \in Nat
  BY SumNat
<1>3. SumFunctionOnSet(f, S \cup {e}) = f[e] + SumFunctionOnSet(f, (S \cup {e}) \ {e})
  BY <1>1, SumTakes
<1>4. SumFunctionOnSet(f, (S \cup {e}) \ {e}) = SumFunctionOnSet(f, S)
  BY <1>1
<1> QED BY <1>2, <1>3, <1>4

\* A sum of zeros.
LEMMA SumZero ==
    ASSUME NEW S, IsFiniteSet(S), NEW f, \A x \in S : f[x] = 0
    PROVE  SumFunctionOnSet(f, S) = 0
<1> DEFINE P == {T \in SUBSET S : SumFunctionOnSet(f, T) = 0}
<1>1. ASSUME NEW T \in SUBSET S, \A x \in T : T \ {x} \in P PROVE T \in P
  <2>1. CASE T = {}
    BY <2>1, SumEmpty
  <2>2. CASE T # {}
    <3>1. IsFiniteSet(T) /\ Turn(T) \in T
      BY <2>2, FS_Subset, TurnIn
    <3>2. SumFunctionOnSet(f, T) = f[Turn(T)] + SumFunctionOnSet(f, T \ {Turn(T)})
      BY <2>2, <3>1, SumTakesTurn
    <3> QED BY <1>1, <3>1, <3>2
  <2> QED BY <2>1, <2>2
<1>2. S \in P
  <2> HIDE DEF P
  <2> QED BY <1>1, BySmaller, S \in SUBSET S
<1> QED BY <1>2

\* What the provers need to know of products.
LEMMA Times ==
    ASSUME NEW p \in Nat, NEW m \in Nat, NEW n \in Nat
    PROVE  /\ p * n \in Nat
           /\ p * (n + 1) = p * n + p
           /\ m <= n => p * m <= p * n
OBVIOUS

-----------------------------------------------------------------------------
(* The inductive invariant *)

(***************************************************************************)
(* CanAcceptRequest compares the cpu that a request estimates for itself,  *)
(* AcceptRequest reserves the cost of its type: the books fit when no      *)
(* request estimates less than it costs.                                   *)
(***************************************************************************)
EstimatesCover ==
    \A w \in Workloads, e \in Egress : w.estimated[e] = 0 \/ w.estimated[e] >= w.cpu[e]

\* The values the monitor keeps, the requests in progress apart.
Types ==
    /\ conf \in Workloads
    /\ high \in Nat /\ low \in Nat /\ spikes \in Nat /\ stopAge \in Nat
    /\ memoryAge \in -1..MemoryGrace
    /\ pendingCPU \in [Egress -> Nat] /\ lastCPU \in [Egress -> Nat]
    /\ clients \in [Egress -> Nat]
    /\ memoryUsage \in Nat /\ cgroup \in Nat \cup {Unread}

\* Where an egress is: of those used it is pending, has a process or is gone.
Books ==
    /\ used \subseteq Egress
    /\ pending \subseteq used /\ procStats \subseteq used /\ holds \subseteq used
    /\ pending \cap procStats = {}

\* Only an egress with a process is asked to stop or killed.
TargetsRun ==
    /\ stopEgress \in procStats \cup {NoEgress}
    /\ killed \subseteq procStats

\* A high sample that counts for a stop is one that happened.
HighCounted == high <= spikes /\ spikes <= MinKill

\* The counters are the sizes of the books, and what is on hold is what the timers
\* that run will give back.
Counted ==
    /\ requests = Cardinality(Live)
    /\ webRequests = Cardinality(Live \cap Web)
    /\ pendingMemory = SumFunctionOnSet(MemoryCost, holds)
    /\ pendingPulse = PulseHold * Cardinality(holds \cap Web)

\* The web sources that are still to connect to pulse.
Unconnected == {e \in Live \cap Web : clients[e] = 0}

\* The pulse clients of a web source are open or on hold.
PulseFollows ==
    /\ \A e \in Egress : clients[e] # 0 => e \in procStats \cap Web /\ clients[e] = PulseHold
    /\ PulseHold # 0 => Unconnected \subseteq holds

IInv == /\ Types /\ Books /\ TargetsRun /\ HighCounted /\ Counted /\ PulseFollows
        /\ ReservedCPUFits /\ ReservedMemoryFits /\ PulseServerFits

-----------------------------------------------------------------------------
(* The parts of the invariant, one by one *)

\* What a workload gives.
LEMMA WorkloadTypes ==
    ASSUME Types
    PROVE  /\ Web \in SUBSET Egress
           /\ CpuCost \in [Egress -> Nat] /\ MemoryCost \in [Egress -> Nat]
           /\ MaxMemory \in Nat /\ conf.estimated \in [Egress -> Nat]
           /\ conf.cpuSamples \in SUBSET Nat /\ conf.memorySamples \in SUBSET Nat
<1>1. conf \in Workload
  BY MonitorAssumption DEF Types
<1> QED BY <1>1 DEF Workload, Web, CpuCost, MemoryCost, MaxMemory

\* The sets the monitor counts are finite.
LEMMA Finite ==
    ASSUME NEW S \in SUBSET Egress
    PROVE  IsFiniteSet(S) /\ Cardinality(S) \in Nat
BY MonitorAssumption, FS_Subset, FS_CardinalityType

\* The monitor starts with empty books.
LEMMA Initially == Init => IInv
<1> SUFFICES ASSUME Init PROVE IInv
  OBVIOUS
<1> USE DEF Init
<1>1. None \in [Egress -> Nat] /\ \A e \in Egress : None[e] = 0
  BY DEF None
<1>2. Types
  BY <1>1, MonitorAssumption DEF Types
<1>3. Books /\ TargetsRun /\ HighCounted
  BY MonitorAssumption DEF Books, TargetsRun, HighCounted
<1>4. Live = {} /\ Live \cap Web = {} /\ holds \cap Web = {}
  BY DEF Live
<1>5. Counted
  <2>1. PulseHold * 0 = 0
    BY MonitorAssumption
  <2> QED BY <1>4, <2>1, FS_EmptySet, SumEmpty DEF Counted
<1>6. PulseFollows
  BY <1>1, <1>4 DEF PulseFollows, Unconnected
<1>7. ReservedCPUFits
  <2>1. {e \in Live : pendingCPU[e] > 0} = {}
    BY <1>4
  <2>2. SumFunctionOnSet(pendingCPU, {e \in Live : pendingCPU[e] > 0}) = 0
    BY <2>1, SumEmpty
  <2> QED BY <2>2, MonitorAssumption DEF ReservedCPUFits
<1>8. ReservedMemoryFits
  BY DEF ReservedMemoryFits
<1>9. PulseServerFits
  <2>1. DOMAIN clients = Egress
    BY <1>1
  <2>2. SumFunctionOnSet(clients, Egress) = 0
    <3>1. \A e \in Egress : clients[e] = 0
      BY <1>1
    <3> QED BY <3>1, SumZero, MonitorAssumption
  <2>3. {e \in Live \cap Web : clients[e] = 0} = {}
    BY <1>4
  <2>4. PulseHold * 0 = 0
    BY MonitorAssumption
  <2>5. SumFunction(clients) = 0
    BY <2>1, <2>2 DEF SumFunction
  <2>6. Cardinality({e \in Live \cap Web : clients[e] = 0}) = 0
    BY <2>3, FS_EmptySet
  <2> QED BY <2>4, <2>5, <2>6, MonitorAssumption DEF PulseServerFits
<1> QED BY <1>2, <1>3, <1>5, <1>6, <1>7, <1>8, <1>9 DEF IInv

\* The step that samples, and one that stutters, leave the books alone.
LEMMA SampleLeaves ==
    ASSUME Sample \/ UNCHANGED vars
    PROVE  UNCHANGED <<conf, requestVars, holdVars, clients>>
BY DEF Sample, UpdateEgressStats, vars, requestVars, holdVars

\* checkCPUKill asks an egress with a process to stop, after MinKill samples that were high.
LEMMA CheckCPU ==
    ASSUME Types, HighCounted, stopEgress \in procStats \cup {NoEgress},
           NEW load, NEW cpu, NEW victim \in Victims(cpu), CheckCPUKill(load, victim)
    PROVE  /\ high' \in Nat /\ low' \in Nat /\ spikes' \in Nat /\ stopAge' \in Nat
           /\ HighCounted'
           /\ stopEgress' \in procStats \cup {NoEgress}
           /\ SpikesDoNotStop
<1> USE MonitorAssumption DEF Types, HighCounted, AtMost, SpikesDoNotStop
<1>1. victim \in procStats \cup {NoEgress}
  BY DEF Victims
<1>2. StopElapsed \in Nat
  BY DEF StopElapsed
<1>3. CASE LowCPU
  BY <1>2, <1>3 DEF LowCPU
<1>4. CASE HighCPUAlone
  BY <1>2, <1>4 DEF HighCPUAlone
<1>5. CASE HighCPUCounts(victim)
  <2>1. high' = AtMost(high + 1, MinKill) /\ spikes' = AtMost(spikes + 1, MinKill) /\ low' = 0
    BY <1>5 DEF HighCPUCounts, Sustained
  <2>2. \A h, s, k \in Nat : h <= s /\ s <= k =>
            /\ AtMost(h + 1, k) \in Nat /\ AtMost(s + 1, k) \in Nat
            /\ AtMost(h + 1, k) <= AtMost(s + 1, k) /\ AtMost(s + 1, k) <= k
    OBVIOUS
  <2>3. high \in Nat /\ spikes \in Nat /\ MinKill \in Nat /\ high <= spikes /\ spikes <= MinKill
    OBVIOUS
  <2> HIDE DEF AtMost
  <2>4. high' \in Nat /\ spikes' \in Nat /\ high' <= spikes' /\ spikes' <= MinKill
    BY <2>1, <2>2, <2>3
  <2>5. UNCHANGED <<stopEgress, stopAge>>
    BY <1>5 DEF HighCPUCounts
  <2> QED BY <2>1, <2>4, <2>5
<1>6. CASE HighCPUStops(victim)
  BY <1>1, <1>6 DEF HighCPUStops, Sustained
<1>7. CASE HighCPUWaits
  BY <1>2, <1>7 DEF HighCPUWaits
<1>8. CASE HighCPUKills
  BY <1>8 DEF HighCPUKills
<1> QED BY <1>3, <1>4, <1>5, <1>6, <1>7, <1>8 DEF CheckCPUKill

\* A sample measures, and stops or kills handlers that run.
LEMMA SampleStep ==
    ASSUME Types, Books, TargetsRun, HighCounted, Sample
    PROVE  Types' /\ Books' /\ TargetsRun' /\ HighCounted' /\ SpikesDoNotStop
<1>1. PICK load \in conf.loads, cpu \in [procStats -> conf.cpuSamples],
           usage \in conf.memorySamples, reading \in Readings,
           biggest \in procStats \cup {NoEgress} :
               UpdateEgressStats(load, cpu, usage, reading, biggest)
  BY DEF Sample
<1> DEFINE over == MaxMemory # 0 /\ MemoryNow(usage, reading) > MaxMemory
<1>2. PICK victim \in Victims(cpu) : CheckCPUKill(load, victim)
  BY <1>1 DEF UpdateEgressStats
<1>3. UNCHANGED <<conf, requestVars, holdVars, clients>>
  BY SampleLeaves
<1>4. stopEgress \in procStats \cup {NoEgress}
  BY DEF TargetsRun
<1>5. /\ high' \in Nat /\ low' \in Nat /\ spikes' \in Nat /\ stopAge' \in Nat
      /\ HighCounted' /\ stopEgress' \in procStats \cup {NoEgress} /\ SpikesDoNotStop
  BY <1>2, <1>4, CheckCPU
<1>6. Books'
  BY <1>3 DEF Books, requestVars, holdVars
<1>7. TargetsRun'
  <2>1. killed' = killed \cup Kills(load, over, biggest)
    BY <1>1 DEF UpdateEgressStats
  <2>2. Kills(load, over, biggest) \subseteq procStats
    <3>1. NoEgress \notin Live
      BY MonitorAssumption DEF Live, Books
    <3>2. \A e \in Kills(load, over, biggest) : e \in Live /\ e \in {stopEgress, biggest}
      BY DEF Kills
    <3> QED BY <1>4, <3>1, <3>2
  <2>3. procStats' = procStats
    BY <1>3 DEF requestVars
  <2> QED BY <1>5, <2>1, <2>2, <2>3 DEF TargetsRun
<1>8. Types'
  <2>1. lastCPU' \in [Egress -> Nat]
    <3>1. \A e \in procStats : cpu[e] \in Nat
      BY WorkloadTypes
    <3>2. lastCPU' = [e \in Egress |-> IF e \in procStats THEN cpu[e] ELSE lastCPU[e]]
      BY <1>1 DEF UpdateEgressStats
    <3> QED BY <3>1, <3>2 DEF Types
  <2>2. memoryUsage' \in Nat /\ cgroup' \in Nat \cup {Unread}
    <3>1. usage \in Nat /\ reading \in Nat \cup {Unread}
      BY WorkloadTypes DEF Readings
    <3> QED BY <1>1, <3>1 DEF UpdateEgressStats
  <2>3. memoryAge' \in -1..MemoryGrace
    <3>1. memoryAge' = IF over /\ MemoryElapsed < MemoryGrace THEN MemoryElapsed ELSE -1
      BY <1>1 DEF UpdateEgressStats, CheckMemoryKill
    <3>2. MemoryElapsed \in 0..MemoryGrace
      BY MonitorAssumption DEF MemoryElapsed, AtMost, Types
    <3> QED BY <3>1, <3>2, MonitorAssumption
  <2> QED BY <1>3, <1>5, <2>1, <2>2, <2>3 DEF Types, requestVars
<1> QED BY <1>5, <1>6, <1>7, <1>8

\* Every other step keeps the types and the books, and forgets the target of a stop that ends.
LEMMA BooksStep ==
    ASSUME Types, Books, TargetsRun, HighCounted, Next \/ UNCHANGED vars
    PROVE  Types' /\ Books' /\ TargetsRun' /\ HighCounted' /\ SpikesDoNotStop
<1> USE DEF Types, Books, TargetsRun, HighCounted, SpikesDoNotStop
<1> USE DEF requestVars, holdVars, sampleVars, cpuVars, killVars
<1>1. ASSUME NEW e \in Egress, AcceptRequest(e)
      PROVE  Types' /\ Books' /\ TargetsRun' /\ HighCounted' /\ SpikesDoNotStop
  <2>1. CpuCost[e] \in Nat
    BY WorkloadTypes
  <2> QED BY <1>1, <2>1 DEF AcceptRequest
<1>2. ASSUME NEW e \in Egress, HoldExpires(e)
      PROVE  Types' /\ Books' /\ TargetsRun' /\ HighCounted' /\ SpikesDoNotStop
  BY <1>2 DEF HoldExpires
<1>3. ASSUME NEW e \in Egress, UpdatePID(e)
      PROVE  Types' /\ Books' /\ TargetsRun' /\ HighCounted' /\ SpikesDoNotStop
  BY <1>3 DEF UpdatePID
<1>4. ASSUME NEW e \in Egress, EgressAborted(e)
      PROVE  Types' /\ Books' /\ TargetsRun' /\ HighCounted' /\ SpikesDoNotStop
  BY <1>4 DEF EgressAborted
<1>5. ASSUME NEW e \in Egress, EgressEnded(e)
      PROVE  Types' /\ Books' /\ TargetsRun' /\ HighCounted' /\ SpikesDoNotStop
  BY <1>5 DEF EgressEnded
<1>6. ASSUME NEW e \in Egress, ClientsConnect(e)
      PROVE  Types' /\ Books' /\ TargetsRun' /\ HighCounted' /\ SpikesDoNotStop
  BY <1>6, MonitorAssumption DEF ClientsConnect
<1>7. ASSUME UNCHANGED vars
      PROVE  Types' /\ Books' /\ TargetsRun' /\ HighCounted' /\ SpikesDoNotStop
  BY <1>7 DEF vars
<1> QED BY <1>1, <1>2, <1>3, <1>4, <1>5, <1>6, <1>7, SampleStep DEF Next

\* The counters follow the books, and the holds their timers.
LEMMA CountedStep ==
    ASSUME Types, Books, Counted, Next \/ UNCHANGED vars
    PROVE  Counted'
<1> DEFINE W == Live \cap Web
           H == holds \cap Web
<1> USE DEF requestVars, holdVars
<1>0. /\ Live \in SUBSET Egress /\ W \in SUBSET Egress /\ H \in SUBSET Egress /\ holds \in SUBSET Egress
      /\ IsFiniteSet(Live) /\ IsFiniteSet(W) /\ IsFiniteSet(H) /\ IsFiniteSet(holds)
      /\ Cardinality(Live) \in Nat /\ Cardinality(W) \in Nat /\ Cardinality(H) \in Nat
  <2>1. Live \in SUBSET Egress /\ W \in SUBSET Egress /\ H \in SUBSET Egress /\ holds \in SUBSET Egress
    BY DEF Live, Books
  <2> QED BY <2>1, Finite
<1>1. ASSUME NEW e \in Egress, AcceptRequest(e) PROVE Counted'
  <2> USE <1>1 DEF AcceptRequest
  <2>1. e \notin Live /\ e \notin holds
    BY DEF Books, Live
  <2>2. Live' = Live \cup {e} /\ Web' = Web /\ MemoryCost' = MemoryCost /\ holds' = holds \cup {e}
    BY DEF Live, Web, MemoryCost
  <2>3. requests' = Cardinality(Live')
    BY <1>0, <2>1, <2>2, FS_AddElement DEF Counted
  <2>4. webRequests' = Cardinality((Live \cap Web)')
    <3>1. CASE e \in Web
      <4>1. (Live \cap Web)' = W \cup {e} /\ e \notin W
        BY <2>1, <2>2, <3>1
      <4>2. Cardinality(W \cup {e}) = Cardinality(W) + 1
        BY <1>0, <4>1, FS_AddElement
      <4> QED BY <3>1, <4>1, <4>2 DEF Counted
    <3>2. CASE e \notin Web
      <4>1. (Live \cap Web)' = W
        BY <2>2, <3>2
      <4> QED BY <3>2, <4>1 DEF Counted
    <3> QED BY <3>1, <3>2
  <2>5. pendingMemory' = SumFunctionOnSet(MemoryCost', holds')
    <3>1. \A x \in holds \cup {e} : MemoryCost[x] \in Nat
      BY <1>0, WorkloadTypes
    <3>2. SumFunctionOnSet(MemoryCost, holds \cup {e}) = SumFunctionOnSet(MemoryCost,
    holds) + MemoryCost[e]
      BY <1>0, <2>1, <3>1, SumAdds
    <3> QED BY <2>2, <3>2 DEF Counted
  <2>6. pendingPulse' = PulseHold * Cardinality((holds \cap Web)')
    <3>1. CASE e \in Web
      <4>1. (holds \cap Web)' = H \cup {e} /\ e \notin H
        BY <2>1, <2>2, <3>1
      <4>2. Cardinality(H \cup {e}) = Cardinality(H) + 1
        BY <1>0, <4>1, FS_AddElement
      <4>3. PulseHold * (Cardinality(H) + 1) = PulseHold * Cardinality(H) + PulseHold
        BY <1>0, Times, MonitorAssumption
      <4>4. pendingPulse' = pendingPulse + PulseHold
        BY <3>1 DEF PulseClients
      <4> QED BY <4>1, <4>2, <4>3, <4>4 DEF Counted
    <3>2. CASE e \notin Web
      <4>1. (holds \cap Web)' = H
        BY <2>2, <3>2
      <4>2. PulseHold * Cardinality(H) \in Nat
        BY <1>0, Times, MonitorAssumption
      <4>3. pendingPulse' = pendingPulse + 0
        BY <3>2 DEF PulseClients
      <4>4. pendingPulse = PulseHold * Cardinality(H)
        BY DEF Counted
      <4>5. pendingPulse' = pendingPulse
        BY <4>2, <4>3, <4>4
      <4> QED BY <4>1, <4>4, <4>5
    <3> QED BY <3>1, <3>2
  <2> QED BY <2>3, <2>4, <2>5, <2>6 DEF Counted
<1>2. ASSUME NEW e \in Egress, HoldExpires(e) PROVE Counted'
  <2> USE <1>2 DEF HoldExpires
  <2>1. Live' = Live /\ Web' = Web /\ MemoryCost' = MemoryCost /\ holds' = holds \ {e} /\ e \in holds
    BY DEF Live, Web, MemoryCost
  <2>2. requests' = Cardinality(Live') /\ webRequests' = Cardinality((Live \cap Web)')
    BY <2>1 DEF Counted
  <2>3. pendingMemory' = SumFunctionOnSet(MemoryCost', holds')
    <3>1. \A x \in holds : MemoryCost[x] \in Nat
      BY <1>0, WorkloadTypes
    <3>2. SumFunctionOnSet(MemoryCost, holds) = MemoryCost[e] + SumFunctionOnSet(MemoryCost,
    holds \ {e})
      BY <1>0, <2>1, <3>1, SumTakes
    <3>3. SumFunctionOnSet(MemoryCost, holds \ {e}) \in Nat
      <4>1. IsFiniteSet(holds \ {e}) /\ holds \ {e} \subseteq holds
        BY <1>0, FS_RemoveElement
      <4> QED BY <3>1, <4>1, SumNat
    <3>4. SumFunctionOnSet(MemoryCost, holds \ {e}) = SumFunctionOnSet(MemoryCost,
    holds) - MemoryCost[e]
      BY <2>1, <3>1, <3>2, <3>3
    <3> QED BY <2>1, <3>4 DEF Counted
  <2>4. pendingPulse' = PulseHold * Cardinality((holds \cap Web)')
    <3>1. CASE e \in Web
      <4>1. (holds \cap Web)' = H \ {e} /\ e \in H
        BY <2>1, <3>1
      <4>2. Cardinality(H \ {e}) = Cardinality(H) - 1 /\ Cardinality(H \ {e}) \in Nat
        BY <1>0, <4>1, FS_RemoveElement, FS_CardinalityType
      <4> DEFINE n == Cardinality(H \ {e})
      <4>3. PulseHold * (n + 1) = PulseHold * n + PulseHold /\ PulseHold * n \in Nat
        BY <4>2, Times, MonitorAssumption
      <4>4. n + 1 = Cardinality(H)
        BY <1>0, <4>2
      <4>5. pendingPulse' = pendingPulse - PulseHold
        BY <3>1 DEF PulseClients
      <4> HIDE DEF n
      <4>6. pendingPulse = PulseHold * n + PulseHold
        BY <4>3, <4>4 DEF Counted
      <4>7. pendingPulse' = PulseHold * n
        BY <4>3, <4>5, <4>6, MonitorAssumption
      <4> QED BY <4>1, <4>7 DEF n
    <3>2. CASE e \notin Web
      <4>1. (holds \cap Web)' = H
        BY <2>1, <3>2
      <4>2. PulseHold * Cardinality(H) \in Nat
        BY <1>0, Times, MonitorAssumption
      <4>3. pendingPulse' = pendingPulse - 0
        BY <3>2 DEF PulseClients
      <4>4. pendingPulse = PulseHold * Cardinality(H)
        BY DEF Counted
      <4>5. pendingPulse' = pendingPulse
        BY <4>2, <4>3, <4>4
      <4> QED BY <4>1, <4>4, <4>5
    <3> QED BY <3>1, <3>2
  <2> QED BY <2>2, <2>3, <2>4 DEF Counted
<1>3. ASSUME NEW e \in Egress, UpdatePID(e) PROVE Counted'
  <2>1. Live' = Live /\ Web' = Web /\ MemoryCost' = MemoryCost /\ UNCHANGED <<requests,
  webRequests, holdVars>>
    BY <1>3 DEF UpdatePID, Live, Web, MemoryCost
  <2> QED BY <2>1 DEF Counted
<1>4. ASSUME NEW e \in Egress, EgressAborted(e) \/ EgressEnded(e) PROVE Counted'
  <2>1. /\ Live' = Live \ {e} /\ e \in Live /\ Web' = Web /\ MemoryCost' = MemoryCost
        /\ requests' = requests - 1 /\ webRequests' = Dec(webRequests, e)
        /\ UNCHANGED holdVars
    BY <1>4 DEF EgressAborted, EgressEnded, Live, Web, MemoryCost, Books
  <2>2. requests' = Cardinality(Live')
    BY <1>0, <2>1, FS_RemoveElement DEF Counted
  <2>3. webRequests' = Cardinality((Live \cap Web)')
    <3>1. CASE e \in Web
      <4>1. (Live \cap Web)' = W \ {e} /\ e \in W
        BY <2>1, <3>1
      <4>2. Cardinality(W \ {e}) = Cardinality(W) - 1
        BY <1>0, <4>1, FS_RemoveElement
      <4> QED BY <2>1, <3>1, <4>1, <4>2 DEF Counted, Dec
    <3>2. CASE e \notin Web
      <4>1. (Live \cap Web)' = W
        BY <2>1, <3>2
      <4> QED BY <2>1, <3>2, <4>1 DEF Counted, Dec
    <3> QED BY <3>1, <3>2
  <2>4. pendingMemory' = SumFunctionOnSet(MemoryCost',
  holds') /\ pendingPulse' = PulseHold * Cardinality((holds \cap Web)')
    BY <2>1 DEF Counted
  <2> QED BY <2>2, <2>3, <2>4 DEF Counted
<1>5. ASSUME UNCHANGED <<conf, requestVars, holdVars>> PROVE Counted'
  BY <1>5 DEF Counted, Live, Web, MemoryCost
<1>6. ASSUME NEW e \in Egress, ClientsConnect(e) PROVE Counted'
  BY <1>5, <1>6 DEF ClientsConnect
<1> QED BY <1>1, <1>2, <1>3, <1>4, <1>5, <1>6, SampleLeaves DEF Next

\* The egresses whose cpu is reserved.
Reserved == {e \in Live : pendingCPU[e] > 0}

\* What is reserved only shrinks unless a request is accepted.
LEMMA ReservedShrinks ==
    ASSUME Types, Live \in SUBSET Egress, ReservedCPUFits, pendingCPU' \in [Egress -> Nat],
           Live' \subseteq Live, \A x \in Live' : pendingCPU'[x] <= pendingCPU[x]
    PROVE  ReservedCPUFits'
<1>1. Reserved \in SUBSET Egress /\ Reserved' \in SUBSET Reserved
  BY DEF Reserved, Types
<1>2. /\ IsFiniteSet(Reserved) /\ IsFiniteSet(Reserved')
      /\ Cardinality(Reserved) \in Nat /\ Cardinality(Reserved') \in Nat
      /\ Cardinality(Reserved') <= Cardinality(Reserved)
  BY <1>1, Finite, FS_Subset
<1>3. \A x \in Reserved : pendingCPU[x] \in Nat
  BY <1>1 DEF Types
<1>4. \A x \in Reserved' : pendingCPU'[x] \in Nat /\ pendingCPU'[x] <= pendingCPU[x]
  BY <1>1 DEF Reserved
<1>5. SumFunctionOnSet(pendingCPU', Reserved') <= SumFunctionOnSet(pendingCPU, Reserved)
  BY <1>1, <1>2, <1>3, <1>4, SumGrows
<1>6. SumFunctionOnSet(pendingCPU, Reserved) \in Nat /\ SumFunctionOnSet(pendingCPU',
Reserved') \in Nat
  BY <1>2, <1>3, <1>4, SumNat
<1>7. CASE SumFunctionOnSet(pendingCPU, Reserved) <= CpuLimit
  <2>1. SumFunctionOnSet(pendingCPU', Reserved') <= CpuLimit
    BY <1>5, <1>6, <1>7, MonitorAssumption
  <2> QED BY <2>1 DEF ReservedCPUFits, Reserved
<1>8. CASE Cardinality(Reserved) = 1
  <2>1. CASE Cardinality(Reserved') = 1
    BY <2>1 DEF ReservedCPUFits, Reserved
  <2>2. CASE Cardinality(Reserved') # 1
    <3>1. Reserved' = {}
      BY <1>2, <1>8, <2>2, FS_EmptySet
    <3>2. SumFunctionOnSet(pendingCPU', Reserved') = 0
      BY <3>1, SumEmpty
    <3> QED BY <3>2, MonitorAssumption DEF ReservedCPUFits, Reserved
  <2> QED BY <2>1, <2>2
<1> QED BY <1>7, <1>8 DEF ReservedCPUFits, Reserved

\* A request is accepted when what the others hold or use leaves room for it, or there is
\* no other.
LEMMA AcceptFits ==
    ASSUME EstimatesCover, Types, Books, Counted, ReservedCPUFits,
           NEW e \in Egress, AcceptRequest(e)
    PROVE  ReservedCPUFits'
<1> DEFINE cost == CpuCost[e]
           big == [x \in Egress |-> Larger(pendingCPU[x], lastCPU[x])]
           grown == [big EXCEPT ![e] = cost]
<1> USE DEF AcceptRequest
<1>1. e \notin Live /\ Live \in SUBSET Egress /\ Live' = Live \cup {e}
  BY DEF Live, Books
<1>2. cost \in Nat /\ pendingCPU' = [pendingCPU EXCEPT ![e] = cost] /\ pendingCPU' \in [Egress -> Nat]
  BY WorkloadTypes DEF Types
<1>3. IsFiniteSet(Live) /\ Cardinality(Live) \in Nat /\ requests = Cardinality(Live)
  BY <1>1, Finite DEF Counted
<1>4. Reserved' \in SUBSET Live' /\ Live' \in SUBSET Egress /\ IsFiniteSet(Live') /\ IsFiniteSet(Reserved')
  BY <1>1, Finite, FS_Subset DEF Reserved
<1>5. CASE requests = 0
  <2>1. Live' = {e}
    BY <1>1, <1>3, <1>5, FS_EmptySet
  <2>2. CASE Reserved' = {}
    <3>1. SumFunctionOnSet(pendingCPU', Reserved') = 0
      BY <2>2, SumEmpty
    <3> QED BY <3>1, MonitorAssumption DEF ReservedCPUFits, Reserved
  <2>3. CASE Reserved' = {e}
    <3>1. Cardinality(Reserved') = 1
      BY <2>3, FS_Singleton
    <3> QED BY <3>1 DEF ReservedCPUFits, Reserved
  <2> QED BY <1>4, <2>1, <2>2, <2>3
<1>6. CASE requests # 0
  <2>1. big \in [Egress -> Nat] /\ \A x \in Egress : pendingCPU[x] <= big[x]
    BY DEF Types, Larger
  <2>2. CpuUsed = SumFunctionOnSet(big, Live)
    BY DEF CpuUsed
  <2> HIDE DEF big
  <2>3. grown \in [Egress -> Nat] /\ grown[e] = cost /\ \A x \in Live : grown[x] = big[x]
    BY <1>1, <1>2, <2>1
  <2>4. ASSUME NEW x \in Egress PROVE pendingCPU'[x] \in Nat /\ pendingCPU'[x] <= grown[x]
    <3>1. pendingCPU'[x] \in Nat
      BY <1>2
    <3>2. pendingCPU'[x] <= grown[x]
      <4> HIDE DEF cost
      <4>1. CASE x = e
        <5>1. pendingCPU'[x] = cost /\ grown[x] = cost
          BY <1>2, <2>3, <4>1 DEF Types
        <5> QED BY <1>2, <5>1
      <4>2. CASE x # e
        BY <1>2, <2>1, <4>2 DEF Types
      <4> QED BY <4>1, <4>2
    <3> QED BY <3>1, <3>2
  <2> HIDE DEF grown
  <2>5. SumFunctionOnSet(pendingCPU', Reserved') <= SumFunctionOnSet(grown, Live')
    BY <1>4, <2>3, <2>4, SumGrows
  <2>6. SumFunctionOnSet(grown, Live \cup {e}) = SumFunctionOnSet(grown, Live) + cost
    BY <1>1, <1>3, <2>3, SumAdds
  <2>7. SumFunctionOnSet(grown, Live) = SumFunctionOnSet(big, Live)
    BY <1>1, <1>3, <2>1, <2>3, SumAgrees
  <2>8. SumFunctionOnSet(big, Live) \in Nat /\ SumFunctionOnSet(pendingCPU', Reserved') \in Nat
    BY <1>1, <1>3, <1>4, <2>1, <2>4, SumNat
  <2>9. CpuLimit - SumFunctionOnSet(big, Live) >= cost
    <3>1. CpuLimit - CpuUsed >= (IF conf.estimated[e] = 0 THEN cost ELSE conf.estimated[e])
      BY <1>6 DEF CanAcceptRequest, AvailableCPU
    <3>2. conf.estimated[e] = 0 \/ conf.estimated[e] >= cost
      BY DEF EstimatesCover, Types, CpuCost
    <3>3. conf.estimated[e] \in Nat /\ CpuLimit \in Nat
      BY WorkloadTypes, MonitorAssumption
    <3> HIDE DEF cost
    <3> QED BY <1>2, <2>2, <2>8, <3>1, <3>2, <3>3
  <2>10. SumFunctionOnSet(grown, Live') = SumFunctionOnSet(big, Live) + cost
    BY <1>1, <2>6, <2>7
  <2>11. SumFunctionOnSet(pendingCPU', Reserved') <= CpuLimit
    <3> HIDE DEF cost
    <3> QED BY <1>2, <2>5, <2>8, <2>9, <2>10, MonitorAssumption
  <2> QED BY <2>11 DEF ReservedCPUFits, Reserved
<1> QED BY <1>5, <1>6

\* The cpu reserved fits after every step.
LEMMA ReservedCPUStep ==
    ASSUME EstimatesCover, Types, Books, Counted, ReservedCPUFits, Types', Next \/ UNCHANGED vars
    PROVE  ReservedCPUFits'
<1> USE DEF requestVars
<1>1. Live \in SUBSET Egress /\ pendingCPU' \in [Egress -> Nat] /\ pendingCPU \in [Egress -> Nat]
  BY DEF Live, Books, Types
<1>2. ASSUME NEW e \in Egress, HoldExpires(e) PROVE ReservedCPUFits'
  <2>1. Live' = Live /\ \A x \in Egress : pendingCPU'[x] <= pendingCPU[x]
    BY <1>1, <1>2 DEF HoldExpires, Live
  <2> QED BY <1>1, <2>1, ReservedShrinks
<1>3. ASSUME NEW e \in Egress, UpdatePID(e) \/ EgressAborted(e) \/ EgressEnded(e)
      PROVE  ReservedCPUFits'
  <2>1. Live' \subseteq Live /\ pendingCPU' = pendingCPU
    BY <1>3 DEF UpdatePID, EgressAborted, EgressEnded, Live
  <2>2. \A x \in Egress : pendingCPU'[x] <= pendingCPU[x]
    BY <1>1, <2>1
  <2> QED BY <1>1, <2>1, <2>2, ReservedShrinks
<1>4. ASSUME UNCHANGED <<conf, requestVars, holdVars>> PROVE ReservedCPUFits'
  BY <1>4 DEF ReservedCPUFits, Live
<1>5. ASSUME NEW e \in Egress, ClientsConnect(e) PROVE ReservedCPUFits'
  BY <1>4, <1>5 DEF ClientsConnect
<1> QED BY <1>2, <1>3, <1>4, <1>5, AcceptFits, SampleLeaves DEF Next

\* The memory on hold fits after every step.
LEMMA ReservedMemoryStep ==
    ASSUME Types, Books, Counted, ReservedMemoryFits, Next \/ UNCHANGED vars
    PROVE  ReservedMemoryFits'
<1> USE DEF requestVars, holdVars
<1>0. /\ holds \in SUBSET Egress /\ IsFiniteSet(holds) /\ \A x \in Egress : MemoryCost[x] \in Nat
      /\ SumFunctionOnSet(MemoryCost, holds) \in Nat
  <2>1. holds \in SUBSET Egress /\ IsFiniteSet(holds) /\ \A x \in Egress : MemoryCost[x] \in Nat
    BY Finite, WorkloadTypes DEF Books
  <2> QED BY <2>1, SumNat
<1>1. ASSUME NEW e \in Egress, AcceptRequest(e) PROVE ReservedMemoryFits'
  <2>1. e \notin holds /\ holds' = holds \cup {e} /\ MemoryCost' = MemoryCost /\ MaxMemory' = MaxMemory
    BY <1>1 DEF AcceptRequest, Books, MemoryCost, MaxMemory
  <2>2. SumFunctionOnSet(MemoryCost, holds \cup {e}) = SumFunctionOnSet(MemoryCost,
  holds) + MemoryCost[e]
    BY <1>0, <2>1, SumAdds
  <2>3. CASE MaxMemory = 0
    BY <2>1, <2>3 DEF ReservedMemoryFits
  <2>4. CASE MaxMemory # 0
    <3>1. MemoryNow(memoryUsage, cgroup) + pendingMemory + MemoryCost[e] + Headroom < MaxMemory
      BY <1>1, <2>4 DEF AcceptRequest, CanAcceptRequest, MemoryFits
    <3>2. MemoryNow(memoryUsage, cgroup) \in Nat
      BY DEF MemoryNow, Types
    <3>3. pendingMemory = SumFunctionOnSet(MemoryCost, holds)
      BY DEF Counted
    <3>4. MemoryCost[e] \in Nat /\ Headroom \in Nat /\ MaxMemory \in Nat
      BY WorkloadTypes, MonitorAssumption
    <3>5. (SumFunctionOnSet(MemoryCost, holds) + MemoryCost[e]) + Headroom < MaxMemory
      BY <1>0, <3>1, <3>2, <3>3, <3>4
    <3> QED BY <2>1, <2>2, <3>5 DEF ReservedMemoryFits
  <2> QED BY <2>3, <2>4
<1>2. ASSUME NEW e \in Egress, HoldExpires(e) PROVE ReservedMemoryFits'
  <2>1. holds' = holds \ {e} /\ MemoryCost' = MemoryCost /\ MaxMemory' = MaxMemory
    BY <1>2 DEF HoldExpires, MemoryCost, MaxMemory
  <2>2. holds' \in SUBSET holds /\ IsFiniteSet(holds')
    BY <1>0, <2>1, FS_Subset
  <2>3. \A x \in holds : MemoryCost[x] \in Nat /\ MemoryCost[x] <= MemoryCost[x]
    BY <1>0
  <2>4. SumFunctionOnSet(MemoryCost, holds') <= SumFunctionOnSet(MemoryCost, holds)
    BY <1>0, <2>2, <2>3, SumGrows
  <2>5. SumFunctionOnSet(MemoryCost, holds') \in Nat
    BY <1>0, <2>2, SumNat
  <2>6. holds' # {} => holds # {}
    BY <2>1
  <2>7. Headroom \in Nat /\ MaxMemory \in Nat
    BY WorkloadTypes, MonitorAssumption
  <2> QED BY <1>0, <2>1, <2>4, <2>5, <2>6, <2>7 DEF ReservedMemoryFits
<1>3. ASSUME UNCHANGED <<conf, holds>> PROVE ReservedMemoryFits'
  BY <1>3 DEF ReservedMemoryFits, MemoryCost, MaxMemory
<1>4. ASSUME NEW e \in Egress,
             UpdatePID(e) \/ EgressAborted(e) \/ EgressEnded(e) \/ ClientsConnect(e)
      PROVE  ReservedMemoryFits'
  BY <1>3, <1>4 DEF UpdatePID, EgressAborted, EgressEnded, ClientsConnect
<1> QED BY <1>1, <1>2, <1>3, <1>4, SampleLeaves DEF Next

\* The clients of a web source are on hold until it connects.
LEMMA PulseFollowsStep ==
    ASSUME Types, Books, PulseFollows, Next \/ UNCHANGED vars
    PROVE  PulseFollows'
<1> USE DEF requestVars, holdVars
<1>0. clients \in [Egress -> Nat]
  BY DEF Types
<1>1. ASSUME NEW e \in Egress, AcceptRequest(e) PROVE PulseFollows'
  <2>1. Live' = Live \cup {e} /\ holds' = holds \cup {e} /\ UNCHANGED <<conf, clients, procStats>>
    BY <1>1 DEF AcceptRequest, Live
  <2>2. Web' = Web /\ Unconnected' \subseteq Unconnected \cup {e}
    BY <2>1 DEF Unconnected, Web
  <2> QED BY <2>1, <2>2 DEF PulseFollows
<1>2. ASSUME NEW e \in Egress, HoldExpires(e) PROVE PulseFollows'
  <2>1. /\ holds' = holds \ {e} /\ UNCHANGED <<conf, clients, pending, procStats>>
        /\ e \in Live \cap Web => clients[e] = PulseHold
    BY <1>2 DEF HoldExpires
  <2>2. Web' = Web /\ Unconnected' = Unconnected
    BY <2>1 DEF Unconnected, Web, Live
  <2>3. PulseHold # 0 => e \notin Unconnected
    BY <2>1 DEF Unconnected
  <2> QED BY <2>1, <2>2, <2>3 DEF PulseFollows
<1>3. ASSUME NEW e \in Egress, UpdatePID(e) PROVE PulseFollows'
  <2>1. UNCHANGED <<conf, clients, holds, Live>> /\ procStats \subseteq procStats'
    BY <1>3 DEF UpdatePID, Live
  <2>2. Web' = Web /\ Unconnected' = Unconnected
    BY <2>1 DEF Unconnected, Web
  <2> QED BY <2>1, <2>2 DEF PulseFollows
<1>4. ASSUME NEW e \in Egress, EgressAborted(e) PROVE PulseFollows'
  <2>1. UNCHANGED <<conf, clients, holds, procStats>> /\ Live' \subseteq Live
    BY <1>4 DEF EgressAborted, Live
  <2>2. Web' = Web /\ Unconnected' \subseteq Unconnected
    BY <2>1 DEF Unconnected, Web
  <2> QED BY <2>1, <2>2 DEF PulseFollows
<1>5. ASSUME NEW e \in Egress, EgressEnded(e) PROVE PulseFollows'
  <2>1. /\ UNCHANGED <<conf, holds>> /\ Live' = Live \ {e} /\ procStats' = procStats \ {e}
        /\ clients' = [clients EXCEPT ![e] = 0]
    BY <1>5 DEF EgressEnded, Live
  <2>2. Web' = Web /\ Unconnected' \subseteq Unconnected
    BY <1>0, <2>1, WorkloadTypes DEF Unconnected, Web
  <2> QED BY <1>0, <2>1, <2>2 DEF PulseFollows
<1>6. ASSUME NEW e \in Egress, ClientsConnect(e) PROVE PulseFollows'
  <2>1. /\ UNCHANGED <<conf, holds, procStats, Live>> /\ e \in procStats \cap Web /\ e \in holds
        /\ clients' = [clients EXCEPT ![e] = PulseHold]
    BY <1>6 DEF ClientsConnect, Live
  <2>2. Web' = Web /\ Unconnected' \subseteq Unconnected \cup {e}
    BY <1>0, <2>1, WorkloadTypes DEF Unconnected, Web
  <2> QED BY <1>0, <2>1, <2>2 DEF PulseFollows
<1>7. ASSUME UNCHANGED <<conf, requestVars, holdVars, clients>> PROVE PulseFollows'
  BY <1>7 DEF PulseFollows, Unconnected, Live, Web
<1> QED BY <1>1, <1>2, <1>3, <1>4, <1>5, <1>6, <1>7, SampleLeaves DEF Next

\* The pulse server has room as long as no more clients are open or awaited.
LEMMA PulseShrinks ==
    ASSUME Types, Types', Live \in SUBSET Egress, PulseServerFits, Unconnected' \subseteq Unconnected,
           SumFunction(clients') <= SumFunction(clients)
    PROVE  PulseServerFits'
<1>1. Unconnected \in SUBSET Egress
  BY DEF Unconnected
<1>2. /\ Cardinality(Unconnected) \in Nat /\ Cardinality(Unconnected') \in Nat
      /\ Cardinality(Unconnected') <= Cardinality(Unconnected)
  BY <1>1, Finite, FS_Subset
<1>3. /\ PulseHold * Cardinality(Unconnected') <= PulseHold * Cardinality(Unconnected)
      /\ PulseHold * Cardinality(Unconnected) \in Nat /\ PulseHold * Cardinality(Unconnected') \in Nat
  BY <1>2, Times, MonitorAssumption
<1>4. SumFunction(clients) \in Nat /\ SumFunction(clients') \in Nat
  <2>1. /\ DOMAIN clients = Egress /\ DOMAIN clients' = Egress
        /\ \A x \in Egress : clients[x] \in Nat /\ clients'[x] \in Nat
    BY DEF Types
  <2> QED BY <2>1, SumNat, MonitorAssumption DEF SumFunction
<1>5. SumFunction(clients) + PulseHold * Cardinality(Unconnected) <= MaxPulseClients
  BY DEF PulseServerFits, Unconnected
<1>6. SumFunction(clients') + PulseHold * Cardinality(Unconnected') <= MaxPulseClients
  BY <1>3, <1>4, <1>5, MonitorAssumption
<1> QED BY <1>6 DEF PulseServerFits, Unconnected

\* The pulse server has room after every step.
LEMMA PulseServerStep ==
    ASSUME Types, Types', Books, Counted, PulseFollows, PulseServerFits, Next \/ UNCHANGED vars
    PROVE  PulseServerFits'
<1> USE DEF requestVars, holdVars
<1>0. /\ Live \in SUBSET Egress /\ holds \in SUBSET Egress /\ Unconnected \in SUBSET Egress
      /\ clients \in [Egress -> Nat] /\ clients' \in [Egress -> Nat]
  BY DEF Live, Books, Types, Unconnected
<1>1. /\ SumFunction(clients) = SumFunctionOnSet(clients, Egress) /\ SumFunction(clients) \in Nat
      /\ SumFunction(clients') = SumFunctionOnSet(clients', Egress) /\ SumFunction(clients') \in Nat
  BY <1>0, SumNat, MonitorAssumption DEF SumFunction
<1>2. ASSUME UNCHANGED <<conf, clients>>, Live' \subseteq Live PROVE PulseServerFits'
  <2>1. Unconnected' \subseteq Unconnected
    BY <1>2 DEF Unconnected, Web
  <2>2. SumFunction(clients') <= SumFunction(clients)
    BY <1>1, <1>2
  <2> QED BY <1>0, <2>1, <2>2, PulseShrinks
<1>3. ASSUME NEW e \in Egress, AcceptRequest(e) PROVE PulseServerFits'
  <2>1. Live' = Live \cup {e} /\ holds' = holds \cup {e} /\ UNCHANGED <<conf,
  clients>> /\ PulseFits(e)
    BY <1>3 DEF AcceptRequest, Live, CanAcceptRequest
  <2>2. Web' = Web
    BY <2>1 DEF Web
  <2>3. CASE e \notin Web
    <3>1. Unconnected' \subseteq Unconnected
      BY <2>1, <2>2, <2>3 DEF Unconnected
    <3>2. SumFunction(clients') <= SumFunction(clients)
      BY <1>1, <2>1
    <3> QED BY <1>0, <3>1, <3>2, PulseShrinks
  <2>4. CASE e \in Web
    <3> DEFINE H == holds \cap Web
               m == Cardinality(Unconnected')
               n == Cardinality(H)
    <3>1. SumFunction(clients) + pendingPulse + PulseHold <= MaxPulseClients
      BY <2>1, <2>4 DEF PulseFits
    <3>2. pendingPulse = PulseHold * n
      BY DEF Counted
    <3>3. H \in SUBSET Egress /\ IsFiniteSet(H) /\ n \in Nat
      BY <1>0, Finite
    <3>4. Unconnected' \subseteq Unconnected \cup {e}
      BY <2>1, <2>2 DEF Unconnected
    <3>5. IsFiniteSet(Unconnected') /\ m \in Nat
      <4>1. Unconnected' \in SUBSET Egress
        BY <1>0, <3>4
      <4> QED BY <4>1, Finite
    <3>6. PulseHold * m <= PulseHold * n + PulseHold
      <4>1. CASE PulseHold = 0
        <5>1. 0 * m = 0 /\ 0 * n = 0
          BY <3>3, <3>5
        <5> QED BY <4>1, <5>1
      <4>2. CASE PulseHold # 0
        <5>1. Unconnected' \in SUBSET (H \cup {e})
          <6>1. Unconnected \subseteq H
            BY <4>2 DEF PulseFollows, Unconnected
          <6> QED BY <3>4, <6>1
        <5>2. IsFiniteSet(H \cup {e}) /\ Cardinality(H \cup {e}) <= n + 1 /\ Cardinality(H \cup {e}) \in Nat
          <6>1. IsFiniteSet(H \cup {e}) /\ Cardinality(H \cup {e}) \in {n, n + 1}
            BY <3>3, FS_AddElement
          <6>2. Cardinality(H \cup {e}) \in Nat
            BY <6>1, FS_CardinalityType
          <6> HIDE DEF H, n
          <6> QED BY <3>3, <6>1, <6>2
        <5>3. m <= Cardinality(H \cup {e})
          BY <5>1, <5>2, FS_Subset
        <5>4. m <= n + 1 /\ n + 1 \in Nat
          BY <3>3, <3>5, <5>2, <5>3
        <5> HIDE DEF m, n
        <5>5. PulseHold * m <= PulseHold * (n + 1)
          BY <3>5, <5>4, Times, MonitorAssumption
        <5>6. PulseHold * (n + 1) = PulseHold * n + PulseHold
          BY <3>3, Times, MonitorAssumption
        <5> QED BY <5>5, <5>6
      <4> QED BY <4>1, <4>2
    <3>7. PulseHold * m \in Nat /\ PulseHold * n \in Nat /\ PulseHold \in Nat /\ MaxPulseClients \in Nat
      BY <3>3, <3>5, Times, MonitorAssumption
    <3>8. SumFunction(clients') + PulseHold * m <= MaxPulseClients
      <4> HIDE DEF m, n
      <4>1. SumFunction(clients') = SumFunction(clients)
        BY <2>1
      <4> QED BY <1>1, <3>1, <3>2, <3>6, <3>7, <4>1
    <3> QED BY <3>8 DEF PulseServerFits, Unconnected
  <2> QED BY <2>3, <2>4
<1>4. ASSUME NEW e \in Egress, HoldExpires(e) \/ UpdatePID(e) \/ EgressAborted(e)
      PROVE  PulseServerFits'
  BY <1>2, <1>4 DEF HoldExpires, UpdatePID, EgressAborted, Live
<1>5. ASSUME NEW e \in Egress, EgressEnded(e) PROVE PulseServerFits'
  <2>1. /\ conf' = conf /\ Live' = Live \ {e} /\ clients' = [clients EXCEPT ![e] = 0]
    BY <1>5 DEF EgressEnded, Live
  <2>2. Unconnected' \subseteq Unconnected
    BY <1>0, <2>1 DEF Unconnected, Web
  <2>3. SumFunctionOnSet(clients', Egress) = (SumFunctionOnSet(clients, Egress) - clients[e]) + 0
    <3>1. clients'[e] = 0 /\ \A x \in Egress \ {e} : clients'[x] = clients[x]
      BY <1>0, <2>1
    <3> QED BY <1>0, <3>1, SumChanges, MonitorAssumption
  <2>4. clients[e] \in Nat
    BY <1>0
  <2>5. SumFunction(clients') <= SumFunction(clients)
    BY <1>1, <2>3, <2>4
  <2> QED BY <1>0, <2>2, <2>5, PulseShrinks
<1>6. ASSUME NEW e \in Egress, ClientsConnect(e) PROVE PulseServerFits'
  <2>1. /\ conf' = conf /\ Live' = Live /\ e \in Live \cap Web
        /\ clients' = [clients EXCEPT ![e] = PulseHold]
    BY <1>6 DEF ClientsConnect, Live
  <2>2. CASE clients[e] # 0
    <3>1. clients[e] = PulseHold
      BY <2>2 DEF PulseFollows
    <3>2. clients' = clients
      BY <1>0, <2>1, <3>1
    <3> QED BY <1>2, <2>1, <3>2
  <2>3. CASE PulseHold = 0
    <3>1. clients' = clients
      <4>1. clients[e] = 0
        BY <2>3 DEF PulseFollows
      <4> QED BY <1>0, <2>1, <2>3, <4>1
    <3> QED BY <1>2, <2>1, <3>1
  <2>4. CASE clients[e] = 0 /\ PulseHold # 0
    <3> DEFINE m == Cardinality(Unconnected')
    <3>1. Unconnected' = Unconnected \ {e} /\ e \in Unconnected
      BY <1>0, <2>1, <2>4 DEF Unconnected, Web
    <3>2. /\ IsFiniteSet(Unconnected) /\ Cardinality(Unconnected) \in Nat
          /\ m \in Nat /\ m = Cardinality(Unconnected) - 1
      BY <1>0, <3>1, Finite, FS_RemoveElement, FS_CardinalityType
    <3>3. Cardinality(Unconnected) = m + 1
      BY <3>2
    <3>4. PulseHold * (m + 1) = PulseHold * m + PulseHold /\ PulseHold * m \in Nat
      BY <3>2, Times, MonitorAssumption
    <3>5. PulseHold \in Nat /\ MaxPulseClients \in Nat
      BY MonitorAssumption
    <3>6. SumFunctionOnSet(clients', Egress) = (SumFunctionOnSet(clients,
    Egress) - clients[e]) + PulseHold
      <4>1. clients'[e] = PulseHold /\ \A x \in Egress \ {e} : clients'[x] = clients[x]
        BY <1>0, <2>1
      <4> QED BY <1>0, <4>1, SumChanges, MonitorAssumption
    <3>7. SumFunction(clients') = SumFunction(clients) + PulseHold
      BY <1>1, <2>4, <3>5, <3>6
    <3>8. SumFunction(clients) + PulseHold * Cardinality(Unconnected) <= MaxPulseClients
      BY DEF PulseServerFits, Unconnected
    <3> HIDE DEF m
    <3>9. SumFunction(clients') + PulseHold * m <= MaxPulseClients
      BY <1>1, <3>3, <3>4, <3>5, <3>7, <3>8
    <3> QED BY <3>9 DEF m, PulseServerFits, Unconnected
  <2> QED BY <2>2, <2>3, <2>4
<1>7. ASSUME UNCHANGED <<conf, requestVars, holdVars, clients>> PROVE PulseServerFits'
  BY <1>2, <1>7 DEF Live
<1> QED BY <1>3, <1>4, <1>5, <1>6, <1>7, SampleLeaves DEF Next

-----------------------------------------------------------------------------
(* The theorems *)

\* Every step keeps the invariant.
LEMMA Inductive ==
    ASSUME EstimatesCover
    PROVE  IInv /\ [Next]_vars => IInv'
<1> SUFFICES ASSUME IInv, Next \/ UNCHANGED vars PROVE IInv'
  OBVIOUS
<1>1. /\ Types /\ Books /\ TargetsRun /\ HighCounted /\ Counted /\ PulseFollows
      /\ ReservedCPUFits /\ ReservedMemoryFits /\ PulseServerFits
  BY DEF IInv
<1>2. Types' /\ Books' /\ TargetsRun' /\ HighCounted'
  BY <1>1, BooksStep
<1>3. Counted'
  BY <1>1, CountedStep
<1>4. PulseFollows'
  BY <1>1, PulseFollowsStep
<1>5. ReservedCPUFits'
  BY <1>1, <1>2, ReservedCPUStep
<1>6. ReservedMemoryFits'
  BY <1>1, ReservedMemoryStep
<1>7. PulseServerFits'
  BY <1>1, <1>2, PulseServerStep
<1> QED BY <1>2, <1>3, <1>4, <1>5, <1>6, <1>7 DEF IInv

(***************************************************************************)
(* The inductive invariant of the monitor's books and of its targets: the  *)
(* counters are the sizes of the maps, the holds are what their timers     *)
(* give back, and every stop and kill has a handler that runs.             *)
(***************************************************************************)
THEOREM InvariantHolds ==
    ASSUME EstimatesCover
    PROVE  Spec => []IInv
<1>1. Init => IInv
  BY Initially
<1>2. IInv /\ [Next]_vars => IInv'
  BY Inductive
<1> QED BY <1>1, <1>2, PTL DEF Spec

(***************************************************************************)
(* The requests that canAcceptRequest let in fit the node together, in     *)
(* cpu, memory and pulse clients, however requests, aborted launches, ends *)
(* of handlers, hold timers and samples interleave, and the monitor's      *)
(* books are consistent with them.                                         *)
(***************************************************************************)
THEOREM MonitorBooksFit ==
    ASSUME EstimatesCover
    PROVE  Spec => []BooksFit
<1>1. ASSUME IInv PROVE BooksFit
  <2>1. /\ Types /\ Books /\ TargetsRun /\ HighCounted /\ Counted
        /\ ReservedCPUFits /\ ReservedMemoryFits /\ PulseServerFits
    BY <1>1 DEF IInv
  <2>2. requests \in Nat /\ webRequests \in Nat
    <3>1. Live \in SUBSET Egress /\ Live \cap Web \in SUBSET Egress
      BY <2>1 DEF Live, Books
    <3> QED BY <2>1, <3>1, Finite DEF Counted
  <2>3. pendingMemory \in Nat
    <3>1. holds \in SUBSET Egress /\ IsFiniteSet(holds) /\ \A x \in holds : MemoryCost[x] \in Nat
      BY <2>1, Finite, WorkloadTypes DEF Books
    <3> QED BY <2>1, <3>1, SumNat DEF Counted
  <2>4. pendingPulse \in Nat
    <3>1. Cardinality(holds \cap Web) \in Nat
      BY <2>1, Finite DEF Books
    <3> QED BY <2>1, <3>1, Times, MonitorAssumption DEF Counted
  <2>5. TypeOK
    BY <2>1, <2>2, <2>3, <2>4 DEF TypeOK, Types, Books, TargetsRun, Live
  <2> QED BY <2>1, <2>5 DEF BooksFit, AdmissionFits
<1> QED BY <1>1, InvariantHolds, PTL

\* Whom checkCPUKill asks to stop has a process, whatever the requests estimate.
StopsInv == Types /\ Books /\ TargetsRun /\ HighCounted

(***************************************************************************)
(* checkCPUKill asks an egress to stop only after MinKill high samples     *)
(* since the last stop and since the last quiet spell, and the egress that *)
(* it asked, and will kill, is one that is still there.                    *)
(***************************************************************************)
THEOREM MonitorStopsRightly == Spec => StopsRightly
<1>1. Init => StopsInv
  BY Initially DEF IInv, StopsInv
<1>2. StopsInv /\ [Next]_vars => StopsInv'
  BY BooksStep DEF StopsInv
<1>3. StopsInv /\ [Next]_vars => [StopTargetLive' /\ SpikesDoNotStop]_vars
  <2> SUFFICES ASSUME StopsInv, Next \/ UNCHANGED vars PROVE StopTargetLive' /\ SpikesDoNotStop
    OBVIOUS
  <2>1. TargetsRun' /\ SpikesDoNotStop
    BY BooksStep DEF StopsInv
  <2> QED BY <2>1 DEF TargetsRun, StopTargetLive, Live
<1> QED BY <1>1, <1>2, <1>3, PTL DEF Spec, StopsRightly
=============================================================================
