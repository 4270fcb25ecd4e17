------------------------ MODULE SessionReporterProofs ------------------------
(***************************************************************************)
(* Proofs about SessionReporter, for every number of egresses and workers, *)
(* every queue capacity and every maxPendingUpdates.                       *)
(***************************************************************************)
EXTENDS SessionReporter, TLAPS, SequenceTheorems, WellFoundedInduction

\* Induction over the naturals, stated for a set instead of a predicate.
LEMMA SetInduction ==
    ASSUME NEW S \in SUBSET Nat, 0 \in S, \A n \in S : n + 1 \in S
    PROVE  S = Nat
<1>1. SUFFICES ASSUME Nat \ S # {} PROVE FALSE
  OBVIOUS
<1>2. IsWellFoundedOn(OpToRel(<, Nat), Nat)
  BY NatLessThanWellFounded
<1>3. PICK x \in Nat \ S : \A y \in Nat \ S : ~(<<y, x>> \in OpToRel(<, Nat))
  <2>1. Nat \ S \subseteq Nat
    OBVIOUS
  <2> QED BY <1>1, <1>2, <2>1, WFMin
<1>4. x # 0 /\ x - 1 \in Nat /\ x - 1 < x
  OBVIOUS
<1>5. x - 1 \in S
  BY <1>3, <1>4 DEF OpToRel
<1>6. (x - 1) + 1 \in S
  BY <1>5
<1>7. (x - 1) + 1 = x
  OBVIOUS
<1> QED BY <1>6, <1>7

-----------------------------------------------------------------------------
(***************************************************************************)
(* add keeps an entry a sequence of updates, never shortens it and         *)
(* lengthens it by one exactly when it does not coalesce.                  *)
(***************************************************************************)
LEMMA AddProperties ==
    ASSUME NEW box \in Seq(Update), NEW u \in Update
    PROVE  /\ Add(box, u) \in Seq(Update)
           /\ Add(box, u) # << >>
           /\ Coalesces(box, u) => Len(Add(box, u)) = Len(box) /\ Len(box) > 1
           /\ ~Coalesces(box, u) => Len(Add(box, u)) = Len(box) + 1
<1>1. CASE Coalesces(box, u)
  <2>1. Len(box) \in Nat /\ Len(box) > 1
    BY <1>1, ConstantsAssumption, LenProperties DEF Coalesces
  <2>2. Len(box) \in 1..Len(box)
    BY <2>1
  <2>3. Add(box, u) = [box EXCEPT ![Len(box)] = u]
    BY <1>1 DEF Add
  <2>4. Add(box, u) \in Seq(Update) /\ Len(Add(box, u)) = Len(box)
    BY <2>2, <2>3, ExceptSeq
  <2>5. Add(box, u) # << >>
    BY <2>1, <2>4, EmptySeq
  <2> QED BY <1>1, <2>1, <2>4, <2>5
<1>2. CASE ~Coalesces(box, u)
  <2>1. Add(box, u) = Append(box, u)
    BY <1>2 DEF Add
  <2> QED BY <1>2, <2>1, AppendProperties
<1> QED BY <1>1, <1>2

\* The recursion that defines AddEach has a solution, so AddEach satisfies it.
LEMMA AddEachDef ==
    ASSUME NEW box, NEW us, Len(us) \in Nat
    PROVE  AddEach(box, us) =
             [i \in 0..Len(us) |->
                IF i = 0 THEN box ELSE Add(AddEach(box, us)[i-1], us[i])]
<1> DEFINE Solves(g, n) ==
             g = [i \in 0..n |-> IF i = 0 THEN box ELSE Add(g[i-1], us[i])]
           S == {n \in Nat : \E g : Solves(g, n)}
<1>1. 0 \in S
  <2>1. Solves([i \in 0..0 |-> box], 0)
    OBVIOUS
  <2> QED BY <2>1
<1>2. ASSUME NEW n \in S PROVE n + 1 \in S
  <2>1. PICK g : Solves(g, n)
    OBVIOUS
  <2> DEFINE h == [i \in 0..(n+1) |-> IF i <= n THEN g[i] ELSE Add(g[n], us[n+1])]
  <2>2. \A i \in 0..(n+1) : h[i] = IF i = 0 THEN box ELSE Add(h[i-1], us[i])
    <3> TAKE i \in 0..(n+1)
    <3>1. CASE i = n + 1
      <4>1. h[i] = Add(g[n], us[i]) /\ h[i-1] = g[n] /\ i # 0
        BY <3>1
      <4> QED BY <4>1
    <3>2. CASE i = 0
      BY <2>1, <3>2
    <3>3. CASE i \in 1..n
      <4>1. h[i] = g[i] /\ h[i-1] = g[i-1] /\ i # 0
        BY <3>3
      <4>2. g[i] = Add(g[i-1], us[i])
        BY <2>1, <3>3
      <4> QED BY <4>1, <4>2
    <3> QED BY <3>1, <3>2, <3>3
  <2>3. Solves(h, n + 1)
    <3> HIDE DEF h
    <3>1. h = [i \in 0..(n+1) |-> h[i]]
      BY DEF h
    <3> QED BY <2>2, <3>1
  <2>4. \E f : Solves(f, n + 1)
    <3> HIDE DEF h, Solves
    <3> QED BY <2>3
  <2> HIDE DEF Solves
  <2> QED BY <2>4
<1>3. S = Nat
  <2> HIDE DEF S
  <2>1. S \in SUBSET Nat
    BY DEF S
  <2> QED BY <1>1, <1>2, <2>1, SetInduction
<1>4. PICK g : Solves(g, Len(us))
  BY <1>3
<1>5. AddEach(box, us) = CHOOSE f : Solves(f, Len(us))
  BY DEF AddEach
<1> QED
  <2> HIDE DEF Solves
  <2>1. Solves(AddEach(box, us), Len(us))
    BY <1>4, <1>5
  <2> QED BY <2>1 DEF Solves

(***************************************************************************)
(* enqueueLocked never shortens an entry, and lengthens it by at most the  *)
(* number of updates it is given: the difference is what it coalesced.     *)
(***************************************************************************)
LEMMA AddAllProperties ==
    ASSUME NEW box \in Seq(Update), NEW us \in Seq(Update), box # << >>
    PROVE  /\ AddAll(box, us) \in Seq(Update)
           /\ AddAll(box, us) # << >>
           /\ Len(AddAll(box, us)) \in Len(box)..(Len(box) + Len(us))
<1> DEFINE a == AddEach(box, us)
           Good(n) == /\ a[n] \in Seq(Update)
                      /\ a[n] # << >>
                      /\ Len(a[n]) \in Len(box)..(Len(box) + n)
           S == {n \in Nat : n <= Len(us) => Good(n)}
<1>1. Len(us) \in Nat /\ Len(box) \in Nat
  BY LenProperties
<1>2. a = [i \in 0..Len(us) |-> IF i = 0 THEN box ELSE Add(a[i-1], us[i])]
  BY <1>1, AddEachDef
<1> HIDE DEF a
<1>3. 0 \in S
  <2>1. a[0] = box
    BY <1>1, <1>2
  <2> QED BY <1>1, <2>1
<1>4. ASSUME NEW n \in S PROVE n + 1 \in S
  <2>1. SUFFICES ASSUME n + 1 <= Len(us) PROVE Good(n + 1)
    OBVIOUS
  <2>2. n \in Nat /\ n <= Len(us) /\ n + 1 \in 0..Len(us) /\ n + 1 \in 1..Len(us)
    BY <1>1, <2>1
  <2>3. a[n + 1] = Add(a[n], us[n + 1])
    BY <1>2, <2>2
  <2>4. us[n + 1] \in Update
    BY <2>2, ElementOfSeq
  <2>5. Good(n)
    BY <2>2
  <2>6. Len(a[n]) \in Nat
    BY <2>5, LenProperties
  <2>7. /\ a[n + 1] \in Seq(Update) /\ a[n + 1] # << >>
        /\ Len(a[n + 1]) \in {Len(a[n]), Len(a[n]) + 1}
    BY <2>3, <2>4, <2>5, AddProperties
  <2> QED BY <1>1, <2>2, <2>5, <2>6, <2>7
<1>5. S = Nat
  <2> HIDE DEF S
  <2>1. S \in SUBSET Nat
    BY DEF S
  <2> QED BY <1>3, <1>4, <2>1, SetInduction
<1>6. Good(Len(us))
  BY <1>1, <1>5
<1> QED BY <1>6 DEF AddAll, a

-----------------------------------------------------------------------------
LEMMA AppendQueue ==
    ASSUME NEW q \in Seq(Egress), NEW e \in Egress
    PROVE  /\ Append(q, e) \in Seq(Egress)
           /\ \A x : In(Append(q, e), x) <=> (In(q, x) \/ x = e)
           /\ Distinct(q) /\ ~In(q, e) => Distinct(Append(q, e))
<1>1. /\ Append(q, e) \in Seq(Egress)
      /\ Len(q) \in Nat
      /\ DOMAIN q = 1..Len(q)
      /\ DOMAIN Append(q, e) = 1..(Len(q) + 1)
      /\ \A i \in 1..Len(q) : Append(q, e)[i] = q[i]
      /\ Append(q, e)[Len(q) + 1] = e
  BY AppendProperties, LenProperties
<1>2. \A i \in 1..(Len(q) + 1) : i \in 1..Len(q) \/ i = Len(q) + 1
  BY <1>1
<1>3. 1..Len(q) \subseteq 1..(Len(q) + 1) /\ Len(q) + 1 \in 1..(Len(q) + 1)
  BY <1>1
<1>4. \A x : In(Append(q, e), x) <=> (In(q, x) \/ x = e)
  BY <1>1, <1>2, <1>3, Zenon DEF In
<1>5. ASSUME Distinct(q), ~In(q, e) PROVE Distinct(Append(q, e))
  BY <1>1, <1>2, <1>5, Zenon DEF In, Distinct
<1> QED BY <1>1, <1>4, <1>5

LEMMA TailQueue ==
    ASSUME NEW q \in Seq(Egress), q # << >>, Distinct(q)
    PROVE  /\ Head(q) \in Egress
           /\ In(q, Head(q))
           /\ Tail(q) \in Seq(Egress)
           /\ \A x : In(Tail(q), x) <=> (In(q, x) /\ x # Head(q))
           /\ Distinct(Tail(q))
<1>1. /\ Head(q) \in Egress /\ Head(q) = q[1]
      /\ Tail(q) \in Seq(Egress)
      /\ Len(q) \in Nat \ {0}
      /\ DOMAIN q = 1..Len(q)
      /\ DOMAIN Tail(q) = 1..(Len(q) - 1)
      /\ \A i \in 1..(Len(q) - 1) : Tail(q)[i] = q[i + 1]
  BY HeadTailProperties, LenProperties, EmptySeq
<1>2. 1 \in 1..Len(q)
  BY <1>1
<1>3. \A i \in 1..(Len(q) - 1) : i + 1 \in 1..Len(q) /\ i + 1 # 1
  BY <1>1
<1>4. \A i \in 1..Len(q) : i = 1 \/ (i - 1 \in 1..(Len(q) - 1) /\ (i - 1) + 1 = i)
  BY <1>1
<1>5. In(q, Head(q))
  BY <1>1, <1>2 DEF In
<1>6. \A x : In(Tail(q), x) <=> (In(q, x) /\ x # Head(q))
  <2>1. ASSUME NEW x, In(Tail(q), x) PROVE In(q, x) /\ x # Head(q)
    <3>1. PICK i \in 1..(Len(q) - 1) : q[i + 1] = x
      BY <1>1, <2>1 DEF In
    <3> QED BY <1>1, <1>2, <1>3, <3>1 DEF In, Distinct
  <2>2. ASSUME NEW x, In(q, x), x # Head(q) PROVE In(Tail(q), x)
    <3>1. PICK i \in 1..Len(q) : q[i] = x
      BY <1>1, <2>2 DEF In
    <3>2. i # 1
      BY <1>1, <2>2, <3>1
    <3>3. Tail(q)[i - 1] = x /\ i - 1 \in 1..(Len(q) - 1)
      BY <1>1, <1>4, <3>1, <3>2
    <3> QED BY <1>1, <3>3 DEF In
  <2> QED BY <2>1, <2>2
<1>7. Distinct(Tail(q))
  BY <1>1, <1>3 DEF Distinct
<1> QED BY <1>1, <1>5, <1>6, <1>7

-----------------------------------------------------------------------------
(***************************************************************************)
(* The inductive invariant.  OneWakeUp needs that queues and senders hold  *)
(* only the egresses of their worker, and the conservation law that a      *)
(* buffer is empty when no create is in flight (CreateEgress resets it).   *)
(***************************************************************************)
RightWorker ==
    /\ \A w \in Worker, e \in Egress : In(queue[w], e) => WorkerOf[e] = w
    /\ \A w \in Worker : sending[w] # NoEgress => WorkerOf[sending[w]] = w

BufferClosed == \A e \in Egress : e \notin creating => buffered[e] = << >>

IInv == TypeOK /\ RightWorker /\ BufferClosed /\ OneWakeUp /\ NothingLostSilently

(***************************************************************************)
(* What a change to the entry of e does to the mailboxes: total is what    *)
(* the entry then holds together with what is counted as undelivered.      *)
(***************************************************************************)
OnlyEntry(e, total) ==
    /\ pending' \in [Egress -> Seq(Update)]
    /\ undelivered' \in [Egress -> Nat]
    /\ queue' \in [Worker -> Seq(Egress)]
    /\ \A f \in Egress \ {e} :
          /\ pending'[f] = pending[f]
          /\ undelivered'[f] = undelivered[f]
    /\ undelivered'[e] + Len(pending'[e]) = total
    /\ \A w \in Worker : Distinct(queue'[w])
    /\ \A w \in Worker, f \in Egress : In(queue'[w], f) => WorkerOf[f] = w
    /\ \A f \in Egress \ {e} : Queued(f)' <=> Queued(f)

LEMMA ScheduleEffect ==
    ASSUME IInv, NEW e \in Egress, NEW box \in Seq(Update), box # << >>,
           NEW extra \in Nat, Schedule(e, box, extra), ~Queued(e)
    PROVE  /\ OnlyEntry(e, undelivered[e] + extra + Len(box))
           /\ pending'[e] # << >> <=> Queued(e)'
<1> DEFINE w == WorkerOf[e]
<1>0. w \in Worker /\ Len(box) \in Nat
  BY ConstantsAssumption, LenProperties
<1>1. /\ pending \in [Egress -> Seq(Update)]
      /\ undelivered \in [Egress -> Nat]
      /\ queue \in [Worker -> Seq(Egress)]
  BY DEF IInv, TypeOK
<1>2. CASE QueueFull(e)
  <2>1. /\ pending' = [pending EXCEPT ![e] = << >>]
        /\ undelivered' = [undelivered EXCEPT ![e] = @ + extra + Len(box)]
        /\ queue' = queue
    BY <1>2 DEF Schedule
  <2>2. << >> \in Seq(Update) /\ Len(<< >>) = 0
    BY EmptySeq
  <2>3. /\ pending' \in [Egress -> Seq(Update)] /\ pending'[e] = << >>
        /\ \A f \in Egress \ {e} : pending'[f] = pending[f]
    BY <1>1, <2>1, <2>2
  <2>4. /\ undelivered' \in [Egress -> Nat]
        /\ undelivered'[e] = undelivered[e] + extra + Len(box)
        /\ \A f \in Egress \ {e} : undelivered'[f] = undelivered[f]
    BY <1>0, <1>1, <2>1
  <2>5. undelivered'[e] + Len(pending'[e]) = undelivered[e] + extra + Len(box)
    BY <1>0, <1>1, <2>2, <2>3, <2>4
  <2> QED
    BY <1>1, <2>1, <2>3, <2>4, <2>5 DEF OnlyEntry, IInv, RightWorker, OneWakeUp, Queued
<1>3. CASE ~QueueFull(e)
  <2>1. /\ pending' = [pending EXCEPT ![e] = box]
        /\ undelivered' = [undelivered EXCEPT ![e] = @ + extra]
        /\ queue' = [queue EXCEPT ![w] = Append(@, e)]
    BY <1>3 DEF Schedule
  <2>2. /\ pending' \in [Egress -> Seq(Update)] /\ pending'[e] = box
        /\ \A f \in Egress \ {e} : pending'[f] = pending[f]
    BY <1>1, <2>1
  <2>3. /\ undelivered' \in [Egress -> Nat]
        /\ undelivered'[e] = undelivered[e] + extra
        /\ \A f \in Egress \ {e} : undelivered'[f] = undelivered[f]
    BY <1>1, <2>1
  <2>4. queue[w] \in Seq(Egress) /\ Distinct(queue[w]) /\ ~In(queue[w], e)
    BY <1>0, <1>1 DEF IInv, OneWakeUp, Queued
  <2>5. /\ Append(queue[w], e) \in Seq(Egress)
        /\ \A x : In(Append(queue[w], e), x) <=> (In(queue[w], x) \/ x = e)
        /\ Distinct(Append(queue[w], e))
    BY <2>4, AppendQueue
  <2>6. /\ queue' \in [Worker -> Seq(Egress)]
        /\ queue'[w] = Append(queue[w], e)
        /\ \A v \in Worker \ {w} : queue'[v] = queue[v]
    BY <1>0, <1>1, <2>1, <2>5
  <2>7. \A v \in Worker : Distinct(queue'[v])
    BY <2>5, <2>6 DEF IInv, OneWakeUp
  <2>8. \A v \in Worker, f \in Egress : In(queue'[v], f) => WorkerOf[f] = v
    BY <2>5, <2>6 DEF IInv, RightWorker
  <2>9. \A f \in Egress \ {e} : Queued(f)' <=> Queued(f)
    BY <2>5, <2>6, ConstantsAssumption DEF Queued
  <2>10. Queued(e)'
    BY <2>5, <2>6 DEF Queued
  <2>11. undelivered'[e] + Len(pending'[e]) = undelivered[e] + extra + Len(box)
    BY <2>2, <2>3
  <2> QED BY <2>2, <2>3, <2>6, <2>7, <2>8, <2>9, <2>10, <2>11 DEF OnlyEntry
<1> QED BY <1>2, <1>3

LEMMA AdvanceEffect ==
    ASSUME IInv, NEW e \in Egress, pending[e] # << >>, NEW given \in Nat,
           Advance(e, given), ~Queued(e)
    PROVE  /\ OnlyEntry(e, undelivered[e] + given + Len(pending[e]) - 1)
           /\ pending'[e] # << >> <=> Queued(e)'
<1>1. /\ pending \in [Egress -> Seq(Update)]
      /\ undelivered \in [Egress -> Nat]
      /\ queue \in [Worker -> Seq(Egress)]
  BY DEF IInv, TypeOK
<1>2. Len(pending[e]) \in Nat \ {0}
  BY <1>1, LenProperties, EmptySeq
<1>3. CASE Len(pending[e]) = 1
  <2>1. /\ pending' = [pending EXCEPT ![e] = << >>]
        /\ undelivered' = [undelivered EXCEPT ![e] = @ + given]
        /\ queue' = queue
    BY <1>3 DEF Advance
  <2>2. << >> \in Seq(Update) /\ Len(<< >>) = 0
    BY EmptySeq
  <2>3. /\ pending' \in [Egress -> Seq(Update)] /\ pending'[e] = << >>
        /\ \A f \in Egress \ {e} : pending'[f] = pending[f]
    BY <1>1, <2>1, <2>2
  <2>4. /\ undelivered' \in [Egress -> Nat]
        /\ undelivered'[e] = undelivered[e] + given
        /\ \A f \in Egress \ {e} : undelivered'[f] = undelivered[f]
    BY <1>1, <2>1
  <2>5. undelivered'[e] + Len(pending'[e]) = undelivered[e] + given + Len(pending[e]) - 1
    BY <1>1, <1>3, <2>2, <2>3, <2>4
  <2> QED
    BY <1>1, <2>1, <2>3, <2>4, <2>5 DEF OnlyEntry, IInv, RightWorker, OneWakeUp, Queued
<1>4. CASE Len(pending[e]) # 1
  <2>1. /\ Tail(pending[e]) \in Seq(Update)
        /\ Len(Tail(pending[e])) = Len(pending[e]) - 1
    BY <1>1, HeadTailProperties
  <2>2. Tail(pending[e]) # << >>
    <3>1. Len(Tail(pending[e])) # 0
      BY <1>2, <1>4, <2>1
    <3> QED BY <2>1, <3>1, EmptySeq, Zenon
  <2>3. Schedule(e, Tail(pending[e]), given)
    BY <1>4 DEF Advance
  <2>4. /\ OnlyEntry(e, undelivered[e] + given + Len(Tail(pending[e])))
        /\ pending'[e] # << >> <=> Queued(e)'
    BY <2>1, <2>2, <2>3, ScheduleEffect
  <2>5. undelivered[e] + given + Len(Tail(pending[e]))
          = undelivered[e] + given + Len(pending[e]) - 1
    BY <1>1, <1>2, <2>1
  <2> QED BY <2>4, <2>5
<1> QED BY <1>3, <1>4

\* Joining a pending entry wakes nobody; a new entry is scheduled.
LEMMA EnqueueEffect ==
    ASSUME IInv, NEW e \in Egress, NEW us \in Seq(Update), us # << >>, Enqueue(e, us)
    PROVE  /\ OnlyEntry(e, undelivered[e] + Len(pending[e]) + Len(us))
           /\ \/ pending[e] = << >> /\ (pending'[e] # << >> <=> Queued(e)')
              \/ pending[e] # << >> /\ pending'[e] # << >> /\ (Queued(e)' <=> Queued(e))
<1>1. /\ pending \in [Egress -> Seq(Update)]
      /\ undelivered \in [Egress -> Nat]
      /\ queue \in [Worker -> Seq(Egress)]
  BY DEF IInv, TypeOK
<1>2. Len(pending[e]) \in Nat /\ Len(us) \in Nat
  BY <1>1, LenProperties
<1>3. CASE pending[e] = << >>
  <2>1. ~Queued(e)
    BY <1>3 DEF IInv, OneWakeUp
  <2>2. Schedule(e, us, 0)
    BY <1>3 DEF Enqueue
  <2>3. /\ OnlyEntry(e, undelivered[e] + 0 + Len(us))
        /\ pending'[e] # << >> <=> Queued(e)'
    BY <2>1, <2>2, ScheduleEffect
  <2>4. Len(pending[e]) = 0
    BY <1>3, EmptySeq
  <2>5. undelivered[e] + 0 + Len(us) = undelivered[e] + Len(pending[e]) + Len(us)
    BY <1>1, <1>2, <2>4
  <2> QED BY <1>3, <2>3, <2>5
<1>4. CASE pending[e] # << >>
  <2> DEFINE box == AddAll(pending[e], us)
  <2>1. box \in Seq(Update) /\ box # << >>
        /\ Len(box) \in Len(pending[e])..(Len(pending[e]) + Len(us))
    BY <1>1, <1>4, AddAllProperties
  <2>2. /\ pending' = [pending EXCEPT ![e] = box]
        /\ undelivered' = [undelivered EXCEPT ![e] =
                             @ + (Len(pending[e]) + Len(us) - Len(box))]
        /\ queue' = queue
    BY <1>4 DEF Enqueue
  <2> HIDE DEF box
  <2>3. Len(pending[e]) + Len(us) - Len(box) \in Nat /\ Len(box) \in Nat
    BY <1>2, <2>1
  <2>4. /\ pending' \in [Egress -> Seq(Update)] /\ pending'[e] = box
        /\ \A f \in Egress \ {e} : pending'[f] = pending[f]
    BY <1>1, <2>1, <2>2
  <2>5. /\ undelivered' \in [Egress -> Nat]
        /\ undelivered'[e] = undelivered[e] + (Len(pending[e]) + Len(us) - Len(box))
        /\ \A f \in Egress \ {e} : undelivered'[f] = undelivered[f]
    BY <1>1, <2>2, <2>3
  <2>6. undelivered'[e] + Len(pending'[e]) = undelivered[e] + Len(pending[e]) + Len(us)
    BY <1>1, <1>2, <2>3, <2>4, <2>5
  <2>7. OnlyEntry(e, undelivered[e] + Len(pending[e]) + Len(us))
    BY <1>1, <2>2, <2>4, <2>5, <2>6 DEF OnlyEntry, IInv, RightWorker, OneWakeUp, Queued
  <2> QED BY <1>4, <2>1, <2>2, <2>4, <2>7 DEF Queued
<1> QED BY <1>3, <1>4

(***************************************************************************)
(* A step that changes the entry of e and leaves e with no other wake-up   *)
(* than the queue keeps OneWakeUp and RightWorker.                         *)
(***************************************************************************)
LEMMA EntryKeepsWakeUps ==
    ASSUME IInv, NEW e \in Egress, NEW total, OnlyEntry(e, total),
           pending'[e] # << >> <=> Queued(e)',
           ~InFlight(e)', e \notin timers',
           \A f \in Egress \ {e} : InFlight(f)' <=> InFlight(f),
           \A f \in Egress \ {e} : f \in timers' <=> f \in timers,
           \A w \in Worker : sending'[w] # NoEgress => WorkerOf[sending'[w]] = w
    PROVE  OneWakeUp' /\ RightWorker'
<1>1. \A f \in Egress :
          /\ pending'[f] # << >> <=> (Queued(f)' \/ InFlight(f)' \/ f \in timers')
          /\ ~(Queued(f)' /\ InFlight(f)')
          /\ ~(Queued(f)' /\ f \in timers')
          /\ ~(InFlight(f)' /\ f \in timers')
  <2> TAKE f \in Egress
  <2>1. CASE f = e
    BY <2>1
  <2>2. CASE f # e
    BY <2>2 DEF OnlyEntry, IInv, OneWakeUp
  <2> QED BY <2>1, <2>2
<1> QED BY <1>1 DEF OneWakeUp, RightWorker, OnlyEntry

\* A step that enqueues updates of e keeps OneWakeUp and RightWorker.
LEMMA EnqueueKeepsWakeUps ==
    ASSUME IInv, NEW e \in Egress, NEW us \in Seq(Update), us # << >>,
           Enqueue(e, us), sending' = sending, timers' = timers
    PROVE  OneWakeUp' /\ RightWorker'
<1>1. OnlyEntry(e, undelivered[e] + Len(pending[e]) + Len(us))
  BY EnqueueEffect
<1>2. \A f \in Egress : InFlight(f)' <=> InFlight(f)
  BY DEF InFlight
<1>3. \A w \in Worker : sending'[w] # NoEgress => WorkerOf[sending'[w]] = w
  BY DEF IInv, RightWorker
<1>4. CASE pending[e] = << >>
  <2>1. pending'[e] # << >> <=> Queued(e)'
    BY <1>4, EnqueueEffect
  <2>2. ~InFlight(e)' /\ e \notin timers'
    BY <1>2, <1>4 DEF IInv, OneWakeUp
  <2> QED BY <1>1, <1>2, <1>3, <2>1, <2>2, EntryKeepsWakeUps
<1>5. CASE pending[e] # << >>
  <2>1. pending'[e] # << >> /\ (Queued(e)' <=> Queued(e))
    BY <1>5, EnqueueEffect
  <2>2. \A f \in Egress : (pending'[f] # << >> <=> pending[f] # << >>) /\ (Queued(f)' <=> Queued(f))
    BY <1>1, <1>5, <2>1 DEF OnlyEntry
  <2> QED BY <1>1, <1>2, <1>3, <2>2 DEF OneWakeUp, RightWorker, OnlyEntry, IInv
<1> QED BY <1>4, <1>5

-----------------------------------------------------------------------------
(***************************************************************************)
(* The conservation law holds after a step of e that issues i updates and  *)
(* delivers d, if the rest of the books of e moved by their difference.    *)
(***************************************************************************)
Booked(e) == undelivered[e] + Len(pending[e]) + Len(buffered[e])

OthersKept(e) ==
    \A f \in Egress \ {e} :
        /\ issued'[f] = issued[f] /\ delivered'[f] = delivered[f]
        /\ undelivered'[f] = undelivered[f]
        /\ pending'[f] = pending[f] /\ buffered'[f] = buffered[f]

LEMMA BookedAdvances ==
    ASSUME NEW e, NEW given \in {0, 1}, NEW d \in {0, 1}, d = 1 - given,
           undelivered[e] \in Nat, Len(pending[e]) \in Nat, Len(buffered[e]) \in Nat,
           undelivered'[e] \in Nat, Len(pending'[e]) \in Nat,
           undelivered'[e] + Len(pending'[e]) = undelivered[e] + given + Len(pending[e]) - 1,
           buffered' = buffered
    PROVE  Booked(e)' + d = Booked(e) + 0
<1> DEFINE u == undelivered[e]
           p == Len(pending[e])
           b == Len(buffered[e])
           v == undelivered'[e]
           q == Len(pending'[e])
<1>1. u \in Nat /\ p \in Nat /\ b \in Nat /\ v \in Nat /\ q \in Nat
  OBVIOUS
<1>2. v + q = u + given + p - 1
  OBVIOUS
<1>3. (v + q + b) + d = (u + p + b) + 0
  <2> HIDE DEF u, p, b, v, q
  <2> QED BY <1>1, <1>2
<1> QED BY <1>3 DEF Booked

LEMMA KeepsBalance ==
    ASSUME IInv, TypeOK', NEW e \in Egress, NEW i \in Nat, NEW d \in Nat,
           issued'[e] = issued[e] + i,
           Len(delivered'[e]) = Len(delivered[e]) + d,
           Booked(e)' + d = Booked(e) + i,
           OthersKept(e)
    PROVE  NothingLostSilently'
<1>1. /\ issued[e] \in Nat /\ Len(delivered[e]) \in Nat /\ undelivered[e] \in Nat
      /\ Len(pending[e]) \in Nat /\ Len(buffered[e]) \in Nat
  BY LenProperties DEF IInv, TypeOK
<1>2. undelivered'[e] \in Nat /\ Len(pending'[e]) \in Nat /\ Len(buffered'[e]) \in Nat
  BY LenProperties DEF TypeOK
<1>3. issued[e] = Len(delivered[e]) + undelivered[e] + Len(pending[e]) + Len(buffered[e])
  BY DEF IInv, NothingLostSilently
<1>4. (undelivered'[e] + Len(pending'[e]) + Len(buffered'[e])) + d
        = (undelivered[e] + Len(pending[e]) + Len(buffered[e])) + i
  BY DEF Booked
<1>5. issued[e] + i = (Len(delivered[e]) + d)
        + undelivered'[e] + Len(pending'[e]) + Len(buffered'[e])
  <2> DEFINE n == issued[e]
             l == Len(delivered[e])
             u == undelivered[e]
             p == Len(pending[e])
             b == Len(buffered[e])
             v == undelivered'[e]
             q == Len(pending'[e])
             c == Len(buffered'[e])
  <2>1. n \in Nat /\ l \in Nat /\ u \in Nat /\ p \in Nat /\ b \in Nat
    BY <1>1
  <2>2. v \in Nat /\ q \in Nat /\ c \in Nat
    BY <1>2
  <2>3. n = l + u + p + b
    BY <1>3
  <2>4. (v + q + c) + d = (u + p + b) + i
    BY <1>4
  <2>5. n + i = (l + d) + v + q + c
    <3> HIDE DEF n, l, u, p, b, v, q, c
    <3> QED BY <2>1, <2>2, <2>3, <2>4
  <2> QED BY <2>5
<1>6. issued'[e] = Len(delivered'[e]) + undelivered'[e] + Len(pending'[e]) + Len(buffered'[e])
  BY <1>5, Zenon
<1>7. ASSUME NEW f \in Egress, f # e
      PROVE  issued'[f] = Len(delivered'[f]) + undelivered'[f] + Len(pending'[f]) + Len(buffered'[f])
  BY <1>7 DEF IInv, NothingLostSilently, OthersKept
<1> QED BY <1>6, <1>7 DEF NothingLostSilently

LEMMA InitInv == Init => IInv
<1> SUFFICES ASSUME Init PROVE IInv
  OBVIOUS
<1>1. << >> \in Seq(Update) /\ << >> \in Seq(Egress) /\ << >> \in Seq(Nat)
      /\ Len(<< >>) = 0 /\ DOMAIN << >> = {}
  BY EmptySeq
<1>2. \A w \in Worker : queue[w] = << >>
  BY DEF Init
<1>3. \A w \in Worker : Distinct(queue[w]) /\ \A x : ~In(queue[w], x)
  BY <1>2 DEF Distinct, In
<1>4. TypeOK
  BY <1>1 DEF Init, TypeOK
<1>5. RightWorker
  BY <1>3 DEF Init, RightWorker
<1>6. BufferClosed
  BY DEF Init, BufferClosed
<1>7. OneWakeUp
  BY <1>3, ConstantsAssumption DEF Init, OneWakeUp, Queued, InFlight
<1>8. NothingLostSilently
  BY <1>1 DEF Init, NothingLostSilently
<1> QED BY <1>4, <1>5, <1>6, <1>7, <1>8 DEF IInv

LEMMA CreateEgressInv ==
    ASSUME IInv, NEW e \in Egress, CreateEgress(e)
    PROVE  IInv'
<1> USE DEF IInv
<1>1. << >> \in Seq(Update) /\ Len(<< >>) = 0
  BY EmptySeq
<1>2. e \notin creating /\ buffered[e] = << >> /\ buffered' = buffered
  BY DEF CreateEgress, BufferClosed, TypeOK
<1>3. UNCHANGED <<sendVars, drainVars, historyVars>>
  BY DEF CreateEgress
<1>4. TypeOK'
  <2>1. creating' \subseteq Egress /\ createFailed' \subseteq Egress /\ refused' \subseteq Egress
    BY DEF CreateEgress, TypeOK
  <2>2. creates' \in [Egress -> Nat]
    BY DEF CreateEgress, TypeOK
  <2> QED BY <1>2, <1>3, <2>1, <2>2 DEF TypeOK, sendVars, drainVars, historyVars
<1>5. RightWorker' /\ OneWakeUp'
  BY <1>3 DEF RightWorker, OneWakeUp, Queued, InFlight, sendVars
<1>6. BufferClosed'
  BY <1>2 DEF BufferClosed, CreateEgress
<1>7. NothingLostSilently'
  BY <1>2, <1>3 DEF NothingLostSilently, sendVars, historyVars
<1> QED BY <1>4, <1>5, <1>6, <1>7

LEMMA RanksType ==
    ASSUME NEW box \in Seq(Update)
    PROVE  Ranks(box) \in SUBSET Nat
<1>1. \A i \in DOMAIN box : box[i] \in Update
  BY ElementOfSeq, LenProperties
<1>2. \A i \in DOMAIN box : box[i].n \in Nat
  BY <1>1 DEF Update
<1> QED BY <1>2 DEF Ranks

LEMMA CreateReturnsInv ==
    ASSUME IInv, NEW e \in Egress, NEW ok \in BOOLEAN, CreateReturns(e, ok)
    PROVE  IInv'
<1>0. TypeOK /\ BufferClosed /\ OneWakeUp /\ RightWorker /\ NothingLostSilently
  BY DEF IInv
<1>1. /\ e \in creating
      /\ creating' = creating \ {e}
      /\ buffered' = [buffered EXCEPT ![e] = << >>]
      /\ UNCHANGED <<creates, sending, timers, late, drainVars, issued, delivered>>
  BY DEF CreateReturns
<1>2. << >> \in Seq(Update) /\ Len(<< >>) = 0
  BY EmptySeq
<1>3. /\ buffered' \in [Egress -> Seq(Update)]
      /\ buffered'[e] = << >>
      /\ \A f \in Egress \ {e} : buffered'[f] = buffered[f]
  BY <1>0, <1>1, <1>2 DEF TypeOK
<1>4. buffered[e] \in Seq(Update) /\ Len(buffered[e]) \in Nat
      /\ pending[e] \in Seq(Update) /\ Len(pending[e]) \in Nat /\ undelivered[e] \in Nat
  BY <1>0, LenProperties DEF TypeOK
<1>5. /\ pending' \in [Egress -> Seq(Update)]
      /\ undelivered' \in [Egress -> Nat]
      /\ queue' \in [Worker -> Seq(Egress)]
      /\ \A f \in Egress \ {e} : pending'[f] = pending[f] /\ undelivered'[f] = undelivered[f]
      /\ undelivered'[e] + Len(pending'[e])
            = undelivered[e] + Len(pending[e]) + Len(buffered[e])
      /\ OneWakeUp' /\ RightWorker'
  <2>1. CASE ok /\ buffered[e] # << >>
    <3>1. Enqueue(e, buffered[e])
      BY <2>1 DEF CreateReturns
    <3>2. OnlyEntry(e, undelivered[e] + Len(pending[e]) + Len(buffered[e]))
      BY <1>4, <2>1, <3>1, EnqueueEffect
    <3>3. OneWakeUp' /\ RightWorker'
      BY <1>1, <1>4, <2>1, <3>1, EnqueueKeepsWakeUps
    <3> QED BY <3>2, <3>3 DEF OnlyEntry
  <2>2. CASE ~(ok /\ buffered[e] # << >>)
    <3>1. /\ undelivered' = [undelivered EXCEPT ![e] = @ + Len(buffered[e])]
          /\ pending' = pending /\ queue' = queue
      BY <2>2 DEF CreateReturns
    <3>2. OneWakeUp' /\ RightWorker'
      BY <1>0, <1>1, <3>1 DEF OneWakeUp, RightWorker, Queued, InFlight
    <3>3. /\ undelivered' \in [Egress -> Nat]
          /\ undelivered'[e] = undelivered[e] + Len(buffered[e])
          /\ \A f \in Egress \ {e} : undelivered'[f] = undelivered[f]
      BY <1>0, <1>4, <3>1 DEF TypeOK
    <3> QED BY <1>0, <1>4, <3>1, <3>2, <3>3 DEF TypeOK
  <2> QED BY <2>1, <2>2
<1>6. TypeOK'
  <2>1. createFailed' \subseteq Egress /\ refused' \subseteq Egress
    BY <1>0 DEF CreateReturns, TypeOK
  <2>2. disowned' \in [Egress -> SUBSET Nat]
    <3>1. Ranks(buffered[e]) \in SUBSET Nat
      BY <1>4, RanksType
    <3>2. disowned \in [Egress -> SUBSET Nat]
      BY <1>0 DEF TypeOK
    <3>3. \/ disowned' = disowned
          \/ disowned' = [disowned EXCEPT ![e] = @ \cup Ranks(buffered[e])]
      BY DEF CreateReturns
    <3> QED BY <3>1, <3>2, <3>3
  <2> QED BY <1>0, <1>1, <1>3, <1>5, <2>1, <2>2 DEF TypeOK, drainVars
<1>7. BufferClosed'
  BY <1>0, <1>1, <1>3 DEF BufferClosed
<1>8. NothingLostSilently'
  <2>1. Len(buffered'[e]) = 0 /\ Len(pending'[e]) \in Nat /\ undelivered'[e] \in Nat
    BY <1>2, <1>3, <1>5, LenProperties
  <2>2. undelivered'[e] + Len(pending'[e])
          = undelivered[e] + Len(pending[e]) + Len(buffered[e])
    BY <1>5
  <2>3. Booked(e)' + 0 = Booked(e) + 0
    BY <1>4, <2>1, <2>2 DEF Booked
  <2>4. /\ issued[e] \in Nat /\ Len(delivered[e]) \in Nat
        /\ issued' = issued /\ delivered' = delivered
    BY <1>0, <1>1, LenProperties DEF TypeOK
  <2>5. issued'[e] = issued[e] + 0 /\ Len(delivered'[e]) = Len(delivered[e]) + 0
    BY <2>4
  <2>6. OthersKept(e)
    BY <1>3, <1>5, <2>4 DEF OthersKept
  <2> QED BY <1>6, <2>3, <2>5, <2>6, KeepsBalance
<1> QED BY <1>5, <1>6, <1>7, <1>8 DEF IInv

LEMMA UpdateEgressInv ==
    ASSUME IInv, NEW e \in Egress, NEW s \in Status, UpdateEgress(e, s)
    PROVE  IInv'
<1> DEFINE u == [n |-> issued[e] + 1, status |-> s]
<1>0. TypeOK /\ BufferClosed /\ OneWakeUp /\ RightWorker /\ NothingLostSilently
  BY DEF IInv
<1>1. /\ issued' = [issued EXCEPT ![e] = @ + 1]
      /\ UNCHANGED <<creating, createFailed, creates, refused, sending, timers,
                     late, drainVars, delivered>>
      /\ disowned' = IF e \in refused
                     THEN [disowned EXCEPT ![e] = @ \cup {u.n}] ELSE disowned
  BY DEF UpdateEgress
<1>2. \/ /\ undelivered' = [undelivered EXCEPT ![e] = @ + 1]
         /\ UNCHANGED <<buffered, pending, queue>>
      \/ /\ e \in creating
         /\ buffered' = [buffered EXCEPT ![e] = Add(@, u)]
         /\ undelivered' = IF Coalesces(buffered[e], u)
                           THEN [undelivered EXCEPT ![e] = @ + 1] ELSE undelivered
         /\ UNCHANGED <<pending, queue>>
      \/ Enqueue(e, <<u>>) /\ UNCHANGED buffered
  BY DEF UpdateEgress
<1>3. u \in Update /\ u.n \in Nat /\ issued[e] \in Nat
  BY <1>0 DEF TypeOK, Update
<1> HIDE DEF u
<1>4. /\ buffered[e] \in Seq(Update) /\ Len(buffered[e]) \in Nat
      /\ pending[e] \in Seq(Update) /\ Len(pending[e]) \in Nat
      /\ undelivered[e] \in Nat /\ Len(delivered[e]) \in Nat
  BY <1>0, LenProperties DEF TypeOK
<1>4a. undelivered[e] \in Nat /\ Len(pending[e]) \in Nat /\ Len(buffered[e]) \in Nat
  BY <1>4
<1>5. /\ issued' \in [Egress -> Nat] /\ issued'[e] = issued[e] + 1
      /\ \A f \in Egress \ {e} : issued'[f] = issued[f]
  BY <1>0, <1>1 DEF TypeOK
<1>6. disowned' \in [Egress -> SUBSET Nat]
  <2>1. disowned \in [Egress -> SUBSET Nat]
    BY <1>0 DEF TypeOK
  <2> QED BY <1>1, <1>3, <2>1
<1>7. /\ pending' \in [Egress -> Seq(Update)]
      /\ buffered' \in [Egress -> Seq(Update)]
      /\ undelivered' \in [Egress -> Nat]
      /\ queue' \in [Worker -> Seq(Egress)]
      /\ \A f \in Egress \ {e} :
            /\ pending'[f] = pending[f] /\ undelivered'[f] = undelivered[f]
            /\ buffered'[f] = buffered[f]
      /\ Booked(e)' = Booked(e) + 1
      /\ OneWakeUp' /\ RightWorker' /\ BufferClosed'
  <2>1. CASE /\ undelivered' = [undelivered EXCEPT ![e] = @ + 1]
             /\ UNCHANGED <<buffered, pending, queue>>
    <3>1. OneWakeUp' /\ RightWorker' /\ BufferClosed'
      BY <1>0, <1>1, <2>1 DEF OneWakeUp, RightWorker, BufferClosed, Queued, InFlight
    <3>2. /\ undelivered' \in [Egress -> Nat] /\ undelivered'[e] = undelivered[e] + 1
          /\ \A f \in Egress \ {e} : undelivered'[f] = undelivered[f]
      BY <1>0, <2>1 DEF TypeOK
    <3>3. Booked(e)' = Booked(e) + 1
      <4>1. undelivered'[e] = undelivered[e] + 1 /\ pending' = pending /\ buffered' = buffered
        BY <2>1, <3>2
      <4> QED BY <1>4a, <4>1 DEF Booked
    <3> QED BY <1>0, <2>1, <3>1, <3>2, <3>3 DEF TypeOK
  <2>2. CASE /\ e \in creating
             /\ buffered' = [buffered EXCEPT ![e] = Add(@, u)]
             /\ undelivered' = IF Coalesces(buffered[e], u)
                               THEN [undelivered EXCEPT ![e] = @ + 1] ELSE undelivered
             /\ UNCHANGED <<pending, queue>>
    <3>1. OneWakeUp' /\ RightWorker'
      BY <1>0, <1>1, <2>2 DEF OneWakeUp, RightWorker, Queued, InFlight
    <3>2. Add(buffered[e], u) \in Seq(Update)
      BY <1>3, <1>4, AddProperties
    <3>3. /\ buffered' \in [Egress -> Seq(Update)] /\ buffered'[e] = Add(buffered[e], u)
          /\ \A f \in Egress \ {e} : buffered'[f] = buffered[f]
      BY <1>0, <2>2, <3>2 DEF TypeOK
    <3>4. BufferClosed'
      BY <1>0, <1>1, <2>2, <3>3 DEF BufferClosed
    <3>5. /\ undelivered' \in [Egress -> Nat]
          /\ \A f \in Egress \ {e} : undelivered'[f] = undelivered[f]
          /\ Coalesces(buffered[e], u) => undelivered'[e] = undelivered[e] + 1
          /\ ~Coalesces(buffered[e], u) => undelivered'[e] = undelivered[e]
      BY <1>0, <2>2 DEF TypeOK
    <3>6. /\ Coalesces(buffered[e], u) => Len(buffered'[e]) = Len(buffered[e])
          /\ ~Coalesces(buffered[e], u) => Len(buffered'[e]) = Len(buffered[e]) + 1
      BY <1>3, <1>4, <3>3, AddProperties
    <3>7. Booked(e)' = Booked(e) + 1
      <4> DEFINE k == undelivered[e]
                 l == Len(pending[e])
                 m == Len(buffered[e])
                 later == undelivered'[e]
                 longer == Len(buffered'[e])
      <4>1. k \in Nat /\ l \in Nat /\ m \in Nat
        BY <1>4a
      <4>2. Booked(e)' = later + l + longer /\ Booked(e) = k + l + m
        BY <2>2 DEF Booked
      <4>3. ASSUME Coalesces(buffered[e], u) PROVE later = k + 1 /\ longer = m
        BY <3>5, <3>6, <4>3
      <4>4. ASSUME ~Coalesces(buffered[e], u) PROVE later = k /\ longer = m + 1
        BY <3>5, <3>6, <4>4
      <4> HIDE DEF k, l, m, later, longer
      <4>5. CASE Coalesces(buffered[e], u)
        BY <4>1, <4>2, <4>3, <4>5
      <4>6. CASE ~Coalesces(buffered[e], u)
        BY <4>1, <4>2, <4>4, <4>6
      <4> QED BY <4>5, <4>6
    <3> QED BY <1>0, <2>2, <3>1, <3>3, <3>4, <3>5, <3>7 DEF TypeOK
  <2>3. CASE Enqueue(e, <<u>>) /\ UNCHANGED buffered
    <3>1. <<u>> \in Seq(Update) /\ <<u>> # << >> /\ Len(<<u>>) = 1
      BY <1>3
    <3>2. OnlyEntry(e, undelivered[e] + Len(pending[e]) + 1)
      BY <2>3, <3>1, EnqueueEffect
    <3>3. OneWakeUp' /\ RightWorker'
      BY <1>1, <2>3, <3>1, EnqueueKeepsWakeUps
    <3>4. BufferClosed'
      BY <1>0, <1>1, <2>3 DEF BufferClosed
    <3>5. undelivered'[e] \in Nat /\ Len(pending'[e]) \in Nat
          /\ undelivered'[e] + Len(pending'[e]) = undelivered[e] + Len(pending[e]) + 1
      BY <3>2, LenProperties DEF OnlyEntry
    <3>6. Booked(e)' = Booked(e) + 1
      <4>1. buffered' = buffered
        BY <2>3
      <4> QED BY <1>4a, <3>5, <4>1 DEF Booked
    <3> QED BY <1>0, <2>3, <3>2, <3>3, <3>4, <3>6 DEF TypeOK, OnlyEntry
  <2> QED BY <1>2, <2>1, <2>2, <2>3
<1>8. TypeOK'
  BY <1>0, <1>1, <1>5, <1>6, <1>7 DEF TypeOK, drainVars
<1>9. NothingLostSilently'
  <2>1. Booked(e)' \in Nat /\ Booked(e) \in Nat
    BY <1>0, <1>7, LenProperties DEF Booked, TypeOK
  <2>2. Booked(e)' + 0 = Booked(e) + 1
    BY <1>7, <2>1
  <2>3. Len(delivered'[e]) = Len(delivered[e]) + 0
    BY <1>1, <1>4
  <2>4. OthersKept(e)
    BY <1>1, <1>5, <1>7 DEF OthersKept
  <2> QED BY <1>5, <1>8, <2>2, <2>3, <2>4, KeepsBalance
<1> QED BY <1>7, <1>8, <1>9 DEF IInv

LEMMA TakeUpdateInv ==
    ASSUME IInv, NEW w \in Worker, TakeUpdate(w)
    PROVE  IInv'
<1>. PICK h : h = Head(queue[w])
  OBVIOUS
<1>0. TypeOK /\ BufferClosed /\ OneWakeUp /\ RightWorker /\ NothingLostSilently
  BY DEF IInv
<1>1. /\ sending[w] = NoEgress
      /\ queue[w] # << >>
      /\ queue' = [queue EXCEPT ![w] = Tail(@)]
      /\ sending' = IF pending[h] # << >> THEN [sending EXCEPT ![w] = h] ELSE sending
      /\ UNCHANGED <<pending, timers, late, createVars, drainVars, historyVars>>
  BY DEF TakeUpdate
<1>2. queue[w] \in Seq(Egress) /\ Distinct(queue[w])
  BY <1>0 DEF TypeOK, OneWakeUp
<1>3. /\ h \in Egress /\ In(queue[w], h) /\ Tail(queue[w]) \in Seq(Egress)
      /\ \A x : In(Tail(queue[w]), x) <=> (In(queue[w], x) /\ x # h)
      /\ Distinct(Tail(queue[w]))
  BY <1>1, <1>2, TailQueue
<1>4. WorkerOf[h] = w
  BY <1>0, <1>3 DEF RightWorker
<1>5. Queued(h) /\ pending[h] # << >> /\ ~InFlight(h) /\ h \notin timers
  BY <1>0, <1>3, <1>4 DEF OneWakeUp, Queued
<1>6. /\ sending' \in [Worker -> Egress \cup {NoEgress}]
      /\ sending'[w] = h /\ \A v \in Worker \ {w} : sending'[v] = sending[v]
  BY <1>0, <1>1, <1>3, <1>5 DEF TypeOK
<1>7. /\ queue' \in [Worker -> Seq(Egress)]
      /\ queue'[w] = Tail(queue[w]) /\ \A v \in Worker \ {w} : queue'[v] = queue[v]
  BY <1>0, <1>1, <1>3 DEF TypeOK
<1>8. TypeOK'
  BY <1>0, <1>1, <1>6, <1>7 DEF TypeOK, createVars, drainVars, historyVars
<1>9. RightWorker'
  <2>1. \A v \in Worker, f \in Egress : In(queue'[v], f) => In(queue[v], f)
    BY <1>3, <1>7
  <2>2. \A v \in Worker : sending'[v] # NoEgress => WorkerOf[sending'[v]] = v
    BY <1>0, <1>4, <1>6 DEF RightWorker
  <2> QED BY <1>0, <2>1, <2>2 DEF RightWorker
<1>10. OneWakeUp'
  <2>1. Queued(h)' <=> FALSE
    BY <1>3, <1>4, <1>7 DEF Queued
  <2>2. InFlight(h)'
    BY <1>4, <1>6 DEF InFlight
  <2>3. \A f \in Egress \ {h} : Queued(f)' <=> Queued(f)
    BY <1>3, <1>7, ConstantsAssumption DEF Queued
  <2>4. \A f \in Egress \ {h} : InFlight(f)' <=> InFlight(f)
    BY <1>1, <1>3, <1>6, ConstantsAssumption DEF InFlight
  <2>5. \A v \in Worker : Distinct(queue'[v])
    BY <1>0, <1>3, <1>7 DEF OneWakeUp
  <2>6. ASSUME NEW f \in Egress
        PROVE  /\ pending'[f] # << >> <=> (Queued(f)' \/ InFlight(f)' \/ f \in timers')
               /\ ~(Queued(f)' /\ InFlight(f)')
               /\ ~(Queued(f)' /\ f \in timers')
               /\ ~(InFlight(f)' /\ f \in timers')
    <3>1. CASE f = h
      BY <1>1, <1>5, <2>1, <2>2, <3>1
    <3>2. CASE f # h
      BY <1>0, <1>1, <2>3, <2>4, <3>2 DEF OneWakeUp
    <3> QED BY <3>1, <3>2
  <2> QED BY <2>5, <2>6 DEF OneWakeUp
<1>11. BufferClosed' /\ NothingLostSilently'
  BY <1>0, <1>1 DEF BufferClosed, NothingLostSilently, createVars, historyVars
<1> QED BY <1>8, <1>9, <1>10, <1>11 DEF IInv

(***************************************************************************)
(* A worker that stops sending for e: the egress had no other wake-up, and *)
(* the worker's slot is free again.                                        *)
(***************************************************************************)
LEMMA SenderFacts ==
    ASSUME IInv, NEW w \in Worker, sending[w] # NoEgress,
           sending' = [sending EXCEPT ![w] = NoEgress]
    PROVE  /\ sending[w] \in Egress
           /\ WorkerOf[sending[w]] = w
           /\ pending[sending[w]] # << >>
           /\ ~Queued(sending[w])
           /\ sending[w] \notin timers
           /\ sending' \in [Worker -> Egress \cup {NoEgress}]
           /\ sending'[w] = NoEgress
           /\ \A f \in Egress \ {sending[w]} : InFlight(f)' <=> InFlight(f)
           /\ \A v \in Worker : sending'[v] # NoEgress => WorkerOf[sending'[v]] = v
<1>1. sending \in [Worker -> Egress \cup {NoEgress}]
  BY DEF IInv, TypeOK
<1>2. sending[w] \in Egress /\ WorkerOf[sending[w]] = w
  BY <1>1 DEF IInv, RightWorker
<1>3. InFlight(sending[w])
  BY <1>2 DEF InFlight
<1>4. pending[sending[w]] # << >> /\ ~Queued(sending[w]) /\ sending[w] \notin timers
  BY <1>2, <1>3 DEF IInv, OneWakeUp
<1>5. /\ sending' \in [Worker -> Egress \cup {NoEgress}]
      /\ sending'[w] = NoEgress
      /\ \A v \in Worker \ {w} : sending'[v] = sending[v]
  BY <1>1
<1>6. \A f \in Egress \ {sending[w]} : InFlight(f)' <=> InFlight(f)
  BY <1>5, ConstantsAssumption DEF InFlight
<1>7. \A v \in Worker : sending'[v] # NoEgress => WorkerOf[sending'[v]] = v
  BY <1>5 DEF IInv, RightWorker
<1> QED BY <1>2, <1>4, <1>5, <1>6, <1>7

\* The worker is done with the oldest update of e and advances the entry.
LEMMA SenderAdvances ==
    ASSUME IInv, NEW w \in Worker, NEW e, e = sending[w], e # NoEgress,
           sending' = [sending EXCEPT ![w] = NoEgress],
           NEW given \in {0, 1}, Advance(e, given), timers' = timers,
           UNCHANGED <<late, createVars, drainVars, issued, disowned>>,
           delivered' \in [Egress -> Seq(Nat)],
           Len(delivered'[e]) = Len(delivered[e]) + (1 - given),
           \A f \in Egress \ {e} : delivered'[f] = delivered[f]
    PROVE  IInv'
<1>0. TypeOK /\ BufferClosed /\ NothingLostSilently
  BY DEF IInv
<1>1. /\ e \in Egress /\ WorkerOf[e] = w /\ pending[e] # << >> /\ ~Queued(e) /\ e \notin timers
      /\ sending' \in [Worker -> Egress \cup {NoEgress}]
      /\ sending'[w] = NoEgress
      /\ \A f \in Egress \ {e} : InFlight(f)' <=> InFlight(f)
      /\ \A v \in Worker : sending'[v] # NoEgress => WorkerOf[sending'[v]] = v
  BY SenderFacts
<1>2. given \in Nat
  OBVIOUS
<1>3. /\ OnlyEntry(e, undelivered[e] + given + Len(pending[e]) - 1)
      /\ pending'[e] # << >> <=> Queued(e)'
  BY <1>1, <1>2, AdvanceEffect
<1>4. ~InFlight(e)'
  BY <1>1, ConstantsAssumption DEF InFlight
<1>5. OneWakeUp' /\ RightWorker'
  BY <1>1, <1>3, <1>4, EntryKeepsWakeUps
<1>6. TypeOK'
  BY <1>0, <1>1, <1>3 DEF TypeOK, OnlyEntry, createVars, drainVars
<1>7. BufferClosed'
  BY <1>0 DEF BufferClosed, createVars
<1>8. NothingLostSilently'
  <2>1. buffered' = buffered /\ issued' = issued
    BY DEF createVars
  <2>2. undelivered'[e] + Len(pending'[e]) = undelivered[e] + given + Len(pending[e]) - 1
    BY <1>3 DEF OnlyEntry
  <2>3. /\ undelivered[e] \in Nat /\ Len(pending[e]) \in Nat /\ Len(buffered[e]) \in Nat
        /\ undelivered'[e] \in Nat /\ Len(pending'[e]) \in Nat /\ issued[e] \in Nat
    BY <1>0, <1>1, <1>6, LenProperties DEF TypeOK
  <2>4. PICK d \in {0, 1} : d = 1 - given
    OBVIOUS
  <2>5. /\ issued'[e] = issued[e] + 0 /\ d \in Nat /\ 0 \in Nat
        /\ Len(delivered'[e]) = Len(delivered[e]) + d
    BY <2>1, <2>3, <2>4
  <2>6. OthersKept(e)
    BY <1>3, <2>1 DEF OnlyEntry, OthersKept
  <2>7. Booked(e)' + d = Booked(e) + 0
    BY <2>1, <2>2, <2>3, <2>4, BookedAdvances
  <2> QED BY <1>1, <1>6, <2>5, <2>6, <2>7, KeepsBalance, Zenon
<1> QED BY <1>5, <1>6, <1>7, <1>8 DEF IInv

LEMMA SendSucceedsInv ==
    ASSUME IInv, NEW w \in Worker, SendSucceeds(w)
    PROVE  IInv'
<1>. PICK e : e = sending[w]
  OBVIOUS
<1>1. /\ e # NoEgress
      /\ sending' = [sending EXCEPT ![w] = NoEgress]
      /\ delivered' = [delivered EXCEPT ![e] = Append(@, Head(pending[e]).n)]
      /\ Advance(e, 0)
      /\ UNCHANGED <<timers, late, createVars, drainVars, issued, disowned>>
  BY DEF SendSucceeds
<1>2. e \in Egress /\ pending[e] # << >>
  BY <1>1, SenderFacts
<1>3. pending[e] \in Seq(Update) /\ delivered \in [Egress -> Seq(Nat)] /\ delivered[e] \in Seq(Nat)
  BY <1>2 DEF IInv, TypeOK
<1>4. Head(pending[e]).n \in Nat
  <2>1. Head(pending[e]) \in Update
    BY <1>2, <1>3, HeadTailProperties
  <2> QED BY <2>1 DEF Update
<1>5. /\ Append(delivered[e], Head(pending[e]).n) \in Seq(Nat)
      /\ Len(Append(delivered[e], Head(pending[e]).n)) = Len(delivered[e]) + 1
  BY <1>3, <1>4, AppendProperties
<1>6. /\ delivered' \in [Egress -> Seq(Nat)]
      /\ Len(delivered'[e]) = Len(delivered[e]) + (1 - 0)
      /\ \A f \in Egress \ {e} : delivered'[f] = delivered[f]
  BY <1>1, <1>2, <1>3, <1>5
<1> QED BY <1>1, <1>6, SenderAdvances

LEMMA GivesUpInv ==
    ASSUME IInv, NEW w \in Worker, NEW e, e = sending[w], e # NoEgress,
           sending' = [sending EXCEPT ![w] = NoEgress],
           Advance(e, 1),
           UNCHANGED <<timers, late, createVars, drainVars, issued, delivered, disowned>>
    PROVE  IInv'
<1>1. e \in Egress
  BY SenderFacts
<1>2. delivered \in [Egress -> Seq(Nat)] /\ Len(delivered[e]) \in Nat
  BY <1>1, LenProperties DEF IInv, TypeOK
<1>3. Len(delivered'[e]) = Len(delivered[e]) + (1 - 1)
  BY <1>2
<1> QED BY <1>2, <1>3, SenderAdvances

LEMMA SendFailsInv ==
    ASSUME IInv, NEW w \in Worker, SendFails(w)
    PROVE  IInv'
<1>. PICK e : e = sending[w]
  OBVIOUS
<1> QED BY GivesUpInv DEF SendFails

LEMMA SendRetriesInv ==
    ASSUME IInv, NEW w \in Worker, SendRetries(w)
    PROVE  IInv'
<1>. PICK e : e = sending[w]
  OBVIOUS
<1>0. TypeOK /\ BufferClosed /\ OneWakeUp /\ RightWorker /\ NothingLostSilently
  BY DEF IInv
<1>1. /\ e # NoEgress
      /\ sending' = [sending EXCEPT ![w] = NoEgress]
      /\ UNCHANGED <<late, createVars, drainVars, issued, delivered, disowned>>
  BY DEF SendRetries
<1>2. CASE Advance(e, 1) /\ timers' = timers
  BY <1>1, <1>2, GivesUpInv
<1>3. CASE /\ timers' = timers \cup {e}
           /\ UNCHANGED <<pending, queue, undelivered>>
  <2>1. /\ e \in Egress /\ WorkerOf[e] = w /\ pending[e] # << >> /\ ~Queued(e)
        /\ sending' \in [Worker -> Egress \cup {NoEgress}]
        /\ sending'[w] = NoEgress
        /\ \A f \in Egress \ {e} : InFlight(f)' <=> InFlight(f)
        /\ \A v \in Worker : sending'[v] # NoEgress => WorkerOf[sending'[v]] = v
    BY <1>1, SenderFacts
  <2>2. \A f \in Egress : Queued(f)' <=> Queued(f)
    BY <1>3 DEF Queued
  <2>3. ~InFlight(e)'
    BY <2>1, ConstantsAssumption DEF InFlight
  <2>4. ASSUME NEW f \in Egress
        PROVE  /\ pending'[f] # << >> <=> (Queued(f)' \/ InFlight(f)' \/ f \in timers')
               /\ ~(Queued(f)' /\ InFlight(f)')
               /\ ~(Queued(f)' /\ f \in timers')
               /\ ~(InFlight(f)' /\ f \in timers')
    <3>1. CASE f = e
      BY <1>3, <2>1, <2>2, <2>3, <3>1
    <3>2. CASE f # e
      BY <1>0, <1>3, <2>1, <2>2, <3>2 DEF OneWakeUp
    <3> QED BY <3>1, <3>2
  <2>5. OneWakeUp' /\ RightWorker'
    BY <1>0, <1>3, <2>1, <2>4 DEF OneWakeUp, RightWorker
  <2>6. TypeOK'
    BY <1>0, <1>1, <1>3, <2>1 DEF TypeOK, createVars, drainVars
  <2>7. BufferClosed' /\ NothingLostSilently'
    BY <1>0, <1>1, <1>3 DEF BufferClosed, NothingLostSilently, createVars
  <2> QED BY <2>5, <2>6, <2>7 DEF IInv
<1> QED BY <1>2, <1>3 DEF SendRetries

LEMMA RequeueInv ==
    ASSUME IInv, NEW e \in Egress, Requeue(e)
    PROVE  IInv'
<1>0. TypeOK /\ BufferClosed /\ OneWakeUp /\ RightWorker /\ NothingLostSilently
  BY DEF IInv
<1>1. /\ e \in timers
      /\ timers' = timers \ {e}
      /\ UNCHANGED <<sending, late, createVars, drainVars, issued, delivered, disowned>>
  BY DEF Requeue
<1>2. pending[e] # << >> /\ ~Queued(e) /\ ~InFlight(e)
  BY <1>0, <1>1 DEF OneWakeUp
<1>3. Schedule(e, pending[e], 0)
  BY <1>2 DEF Requeue
<1>4. pending[e] \in Seq(Update) /\ Len(pending[e]) \in Nat /\ undelivered[e] \in Nat
  BY <1>0, LenProperties DEF TypeOK
<1>5. /\ OnlyEntry(e, undelivered[e] + 0 + Len(pending[e]))
      /\ pending'[e] # << >> <=> Queued(e)'
  BY <1>2, <1>3, <1>4, ScheduleEffect
<1>6. \A f \in Egress : InFlight(f)' <=> InFlight(f)
  BY <1>1 DEF InFlight
<1>7. \A v \in Worker : sending'[v] # NoEgress => WorkerOf[sending'[v]] = v
  BY <1>0, <1>1 DEF RightWorker
<1>8. OneWakeUp' /\ RightWorker'
  BY <1>1, <1>2, <1>5, <1>6, <1>7, EntryKeepsWakeUps
<1>9. TypeOK'
  BY <1>0, <1>1, <1>5 DEF TypeOK, OnlyEntry, createVars, drainVars
<1>10. BufferClosed'
  BY <1>0, <1>1 DEF BufferClosed, createVars
<1>11. NothingLostSilently'
  <2>1. buffered' = buffered /\ issued' = issued /\ delivered' = delivered
    BY <1>1 DEF createVars
  <2>2. undelivered'[e] + Len(pending'[e]) = undelivered[e] + 0 + Len(pending[e])
    BY <1>5 DEF OnlyEntry
  <2>3. /\ undelivered[e] \in Nat /\ Len(pending[e]) \in Nat /\ Len(buffered[e]) \in Nat
        /\ undelivered'[e] \in Nat /\ Len(pending'[e]) \in Nat
        /\ issued[e] \in Nat /\ Len(delivered[e]) \in Nat
    BY <1>0, <1>9, LenProperties DEF TypeOK
  <2>4. Booked(e)' + 0 = Booked(e) + 0
    BY <2>1, <2>2, <2>3 DEF Booked
  <2>5. issued'[e] = issued[e] + 0 /\ Len(delivered'[e]) = Len(delivered[e]) + 0
    BY <2>1, <2>3
  <2>6. OthersKept(e)
    BY <1>5, <2>1 DEF OnlyEntry, OthersKept
  <2> QED BY <1>9, <2>4, <2>5, <2>6, KeepsBalance
<1> QED BY <1>8, <1>9, <1>10, <1>11 DEF IInv

\* The steps that leave the mailboxes alone.
LEMMA OtherStepsInv ==
    ASSUME IInv,
           \/ \E e \in Egress : DeadlinePasses(e)
           \/ Drain
           \/ \E w \in Worker : WorkerExits(w)
           \/ UNCHANGED vars
    PROVE  IInv'
<1>0. TypeOK /\ BufferClosed /\ OneWakeUp /\ RightWorker /\ NothingLostSilently
  BY DEF IInv
<1>1. UNCHANGED <<pending, queue, sending, timers, createVars, historyVars>>
  BY DEF DeadlinePasses, Drain, WorkerExits, vars, sendVars
<1>2. late' \in [Egress -> Nat]
  <2>1. ASSUME NEW e \in Egress, DeadlinePasses(e) PROVE late' \in [Egress -> Nat]
    <3>1. pending[e] \in Seq(Update) /\ pending[e] # << >>
      BY <1>0, <2>1 DEF TypeOK, DeadlinePasses
    <3>2. Head(pending[e]) \in Update
      BY <3>1, HeadTailProperties
    <3>3. Head(pending[e]).n \in Nat
      BY <3>2 DEF Update
    <3> QED BY <1>0, <2>1, <3>3 DEF DeadlinePasses, TypeOK
  <2>2. CASE late' = late
    BY <1>0, <2>2 DEF TypeOK
  <2> QED BY <2>1, <2>2 DEF Drain, WorkerExits, vars, sendVars
<1>3. draining' \in BOOLEAN /\ done' \in BOOLEAN /\ exited' \subseteq Worker
  BY <1>0 DEF TypeOK, DeadlinePasses, Drain, WorkerExits, vars, drainVars
<1>4. TypeOK'
  BY <1>0, <1>1, <1>2, <1>3 DEF TypeOK, createVars, historyVars
<1>5. OneWakeUp' /\ RightWorker'
  BY <1>0, <1>1 DEF OneWakeUp, RightWorker, Queued, InFlight
<1>6. BufferClosed' /\ NothingLostSilently'
  BY <1>0, <1>1 DEF BufferClosed, NothingLostSilently, createVars, historyVars
<1> QED BY <1>4, <1>5, <1>6 DEF IInv

-----------------------------------------------------------------------------
(***************************************************************************)
(* The inductive invariant holds in every reachable state.                 *)
(***************************************************************************)
THEOREM Invariance == Spec => []IInv
<1>1. Init => IInv
  BY InitInv
<1>2. IInv /\ [Next]_vars => IInv'
  <2> SUFFICES ASSUME IInv, [Next]_vars PROVE IInv'
    OBVIOUS
  <2>1. ASSUME NEW e \in Egress, CreateEgress(e) PROVE IInv'
    BY <2>1, CreateEgressInv
  <2>2. ASSUME NEW e \in Egress, NEW ok \in BOOLEAN, CreateReturns(e, ok) PROVE IInv'
    BY <2>2, CreateReturnsInv
  <2>3. ASSUME NEW e \in Egress, NEW s \in Status, UpdateEgress(e, s) PROVE IInv'
    BY <2>3, UpdateEgressInv
  <2>4. ASSUME NEW w \in Worker, TakeUpdate(w) PROVE IInv'
    BY <2>4, TakeUpdateInv
  <2>5. ASSUME NEW w \in Worker, SendSucceeds(w) PROVE IInv'
    BY <2>5, SendSucceedsInv
  <2>6. ASSUME NEW w \in Worker, SendFails(w) PROVE IInv'
    BY <2>6, SendFailsInv
  <2>7. ASSUME NEW w \in Worker, SendRetries(w) PROVE IInv'
    BY <2>7, SendRetriesInv
  <2>8. ASSUME NEW e \in Egress, Requeue(e) PROVE IInv'
    BY <2>8, RequeueInv
  <2>9. CASE \/ \E e \in Egress : DeadlinePasses(e)
             \/ Drain
             \/ \E w \in Worker : WorkerExits(w)
             \/ UNCHANGED vars
    BY <2>9, OtherStepsInv
  <2> QED
    BY <2>1, <2>2, <2>3, <2>4, <2>5, <2>6, <2>7, <2>8, <2>9 DEF Next, Stopped
<1> QED BY <1>1, <1>2, PTL DEF Spec

\* Every variable of the reporter keeps its type.
THEOREM TypeCorrect == Spec => []TypeOK
<1>1. IInv => TypeOK
  BY DEF IInv
<1> QED BY <1>1, Invariance, PTL

(***************************************************************************)
(* An egress with unsent updates always has exactly one wake-up, so its    *)
(* updates are neither stranded nor sent by two calls at once.             *)
(***************************************************************************)
THEOREM WakeUpUnique == Spec => []OneWakeUp
<1>1. IInv => OneWakeUp
  BY DEF IInv
<1> QED BY <1>1, Invariance, PTL

(***************************************************************************)
(* Every update is delivered, held, or counted as undelivered, whatever    *)
(* was coalesced, dropped at a full queue, given up or refused.            *)
(***************************************************************************)
THEOREM Conservation == Spec => []NothingLostSilently
<1>1. IInv => NothingLostSilently
  BY DEF IInv
<1> QED BY <1>1, Invariance, PTL

-----------------------------------------------------------------------------
(***************************************************************************)
(* What the IO service gets of an egress (DeliveriesAllowed): its updates  *)
(* in the order of the calls, and none of a session that was refused.      *)
(***************************************************************************)

(***************************************************************************)
(* The inductive invariant.  The ranks of an egress rise through what was  *)
(* delivered, then through the mailbox, then through the buffer, and never *)
(* pass the number of calls; a rank that was disowned is in none of them.  *)
(***************************************************************************)
Rising(box) == \A i, j \in DOMAIN box : i < j => box[i].n < box[j].n

InOrder(sent, box, buf, n, out) ==
    /\ \A i, j \in DOMAIN sent : i < j => sent[i] < sent[j]
    /\ Rising(box) /\ Rising(buf)
    /\ \A i \in DOMAIN sent : sent[i] <= n /\ sent[i] \notin out
    /\ \A i \in DOMAIN sent, r \in Ranks(box) \cup Ranks(buf) : sent[i] < r
    /\ \A r \in Ranks(box), s \in Ranks(buf) : r < s
    /\ \A r \in Ranks(box) \cup Ranks(buf) : r <= n /\ r \notin out
    /\ \A r \in out : r <= n

\* The marks of the reporter are those of the history.
MarksAgree == refused = createFailed

RanksInOrder ==
    \A e \in Egress :
        InOrder(delivered[e], pending[e], buffered[e], issued[e], disowned[e])

OrderInv == MarksAgree /\ RanksInOrder

-----------------------------------------------------------------------------
\* The updates of an entry, and their ranks.
LEMMA EntryTypes ==
    ASSUME NEW box \in Seq(Update)
    PROVE  /\ Len(box) \in Nat /\ DOMAIN box = 1..Len(box)
           /\ \A i \in 1..Len(box) : box[i] \in Update /\ box[i].n \in Nat
<1>1. \A i \in 1..Len(box) : box[i] \in Update
  BY ElementOfSeq
<1>2. \A u \in Update : u.n \in Nat
  BY DEF Update
<1> QED BY <1>1, <1>2, LenProperties

(***************************************************************************)
(* add keeps an entry rising if the new update is later than all of it.    *)
(***************************************************************************)
LEMMA AddRises ==
    ASSUME NEW box \in Seq(Update), NEW u \in Update, Rising(box),
           \A r \in Ranks(box) : r < u.n
    PROVE  /\ Rising(Add(box, u))
           /\ Ranks(Add(box, u)) \subseteq Ranks(box) \cup {u.n}
<1> DEFINE new == Add(box, u)
<1>1. /\ Len(box) \in Nat /\ DOMAIN box = 1..Len(box)
      /\ \A i \in 1..Len(box) : box[i] \in Update /\ box[i].n \in Nat
  BY EntryTypes
<1>2. u.n \in Nat
  BY DEF Update
<1>3. \A i \in 1..Len(box) : box[i].n < u.n
  BY <1>1 DEF Ranks
<1>4. CASE Coalesces(box, u)
  <2>1. Len(box) > 1 /\ Len(box) \in 1..Len(box)
    BY <1>1, <1>4, AddProperties
  <2>2. new = [box EXCEPT ![Len(box)] = u]
    BY <1>4 DEF Add
  <2>3. /\ DOMAIN new = 1..Len(box)
        /\ \A i \in 1..Len(box) : new[i] = IF i = Len(box) THEN u ELSE box[i]
    BY <1>1, <2>1, <2>2
  <2>4. Rising(new)
    <3> SUFFICES ASSUME NEW i \in 1..Len(box), NEW j \in 1..Len(box), i < j
                 PROVE  new[i].n < new[j].n
      BY <2>3 DEF Rising
    <3>0. i # Len(box)
      <4>1. \A m \in Nat : \A k, l \in 1..m : k < l => k # m
        OBVIOUS
      <4> QED BY <1>1, <4>1
    <3>1. new[i] = box[i]
      BY <2>3, <3>0
    <3>2. box[i].n < box[j].n
      BY <1>1 DEF Rising
    <3> HIDE DEF new
    <3>3. new[j] = u \/ new[j] = box[j]
      BY <2>3
    <3> QED BY <1>3, <3>1, <3>2, <3>3
  <2>5. Ranks(new) \subseteq Ranks(box) \cup {u.n}
    BY <1>1, <2>3 DEF Ranks
  <2> QED BY <2>4, <2>5
<1>5. CASE ~Coalesces(box, u)
  <2>1. new = Append(box, u)
    BY <1>5 DEF Add
  <2>2. /\ DOMAIN new = 1..(Len(box) + 1)
        /\ \A i \in 1..Len(box) : new[i] = box[i]
        /\ new[Len(box) + 1] = u
    BY <2>1, <1>1, AppendProperties, LenProperties
  <2>3. Rising(new)
    BY <1>1, <1>2, <1>3, <2>2 DEF Rising
  <2>4. Ranks(new) \subseteq Ranks(box) \cup {u.n}
    BY <1>1, <2>2 DEF Ranks
  <2> QED BY <2>3, <2>4
<1> QED BY <1>4, <1>5

(***************************************************************************)
(* So does enqueueLocked of the updates that were buffered.                *)
(***************************************************************************)
LEMMA AddAllRises ==
    ASSUME NEW box \in Seq(Update), NEW us \in Seq(Update), box # << >>,
           Rising(box), Rising(us),
           \A r \in Ranks(box), s \in Ranks(us) : r < s
    PROVE  /\ Rising(AddAll(box, us))
           /\ Ranks(AddAll(box, us)) \subseteq Ranks(box) \cup Ranks(us)
<1> DEFINE a == AddEach(box, us)
           First(n) == {us[i].n : i \in 1..n}
           Good(n) == /\ a[n] \in Seq(Update) /\ Rising(a[n])
                      /\ Ranks(a[n]) \subseteq Ranks(box) \cup First(n)
           S == {n \in Nat : n <= Len(us) => Good(n)}
<1>1. Len(us) \in Nat /\ DOMAIN us = 1..Len(us)
  BY LenProperties
<1>2. a = [i \in 0..Len(us) |-> IF i = 0 THEN box ELSE Add(a[i-1], us[i])]
  BY <1>1, AddEachDef
<1>3. \A i \in 1..Len(us) : us[i] \in Update /\ us[i].n \in Nat
  BY EntryTypes
<1> HIDE DEF a
<1>4. 0 \in S
  <2>1. a[0] = box
    BY <1>1, <1>2
  <2> QED BY <1>1, <2>1
<1>5. ASSUME NEW n \in S PROVE n + 1 \in S
  <2>1. SUFFICES ASSUME n + 1 <= Len(us) PROVE Good(n + 1)
    OBVIOUS
  <2>2. n \in Nat /\ n <= Len(us) /\ n + 1 \in 0..Len(us) /\ n + 1 \in 1..Len(us)
    BY <1>1, <2>1
  <2>3. a[n + 1] = Add(a[n], us[n + 1])
    BY <1>2, <2>2
  <2>4. Good(n)
    BY <2>2
  <2>5. \A r \in Ranks(a[n]) : r < us[n + 1].n
    <3>1. us[n + 1].n \in Ranks(us)
      BY <1>1, <2>2 DEF Ranks
    <3>2. \A r \in First(n) : r < us[n + 1].n
      BY <1>1, <2>2 DEF Rising
    <3> QED BY <2>4, <3>1, <3>2
  <2>6. /\ Rising(a[n + 1]) /\ a[n + 1] \in Seq(Update)
        /\ Ranks(a[n + 1]) \subseteq Ranks(a[n]) \cup {us[n + 1].n}
    BY <1>3, <2>2, <2>3, <2>4, <2>5, AddRises, AddProperties
  <2>7. First(n) \cup {us[n + 1].n} \subseteq First(n + 1)
    BY <2>2
  <2> QED BY <2>4, <2>6, <2>7
<1>6. S = Nat
  <2> HIDE DEF S
  <2>1. S \in SUBSET Nat
    BY DEF S
  <2> QED BY <1>4, <1>5, <2>1, SetInduction
<1>7. Good(Len(us))
  BY <1>1, <1>6
<1>8. First(Len(us)) = Ranks(us)
  BY <1>1 DEF Ranks
<1> QED BY <1>7, <1>8 DEF AddAll, a

\* The ranks of an entry are numbers, an empty entry has none and rises, and so does what
\* is left of a rising entry without its first update, which is earlier than the rest.
LEMMA RanksOfTail ==
    ASSUME NEW box \in Seq(Update), Rising(box), box # << >>
    PROVE  /\ Rising(Tail(box))
           /\ Ranks(Tail(box)) \subseteq Ranks(box)
           /\ Head(box).n \in Ranks(box) /\ Head(box).n \in Nat
           /\ \A r \in Ranks(Tail(box)) : Head(box).n < r
<1>1. /\ Len(box) \in Nat /\ DOMAIN box = 1..Len(box) /\ Len(box) # 0
      /\ \A i \in 1..Len(box) : box[i] \in Update /\ box[i].n \in Nat
  BY EntryTypes, EmptySeq
<1>2. /\ Tail(box) \in Seq(Update) /\ Len(Tail(box)) = Len(box) - 1
      /\ \A i \in 1..(Len(box) - 1) : Tail(box)[i] = box[i + 1]
  BY <1>1, HeadTailProperties
<1>3. DOMAIN Tail(box) = 1..(Len(box) - 1)
  BY <1>2, LenProperties
<1>4. Head(box) = box[1] /\ 1 \in 1..Len(box)
  BY <1>1
<1>5. Rising(Tail(box))
  BY <1>1, <1>2, <1>3 DEF Rising
<1>6. Ranks(Tail(box)) \subseteq Ranks(box)
  BY <1>1, <1>2, <1>3 DEF Ranks
<1>7. \A r \in Ranks(Tail(box)) : Head(box).n < r
  <2> SUFFICES ASSUME NEW i \in 1..(Len(box) - 1) PROVE Head(box).n < Tail(box)[i].n
    BY <1>3 DEF Ranks
  <2> QED BY <1>1, <1>2, <1>4 DEF Rising
<1> QED BY <1>1, <1>4, <1>5, <1>6, <1>7 DEF Ranks

LEMMA NoRanks == Rising(<< >>) /\ Ranks(<< >>) = {}
BY DEF Rising, Ranks

-----------------------------------------------------------------------------
(***************************************************************************)
(* What a step may do to the order of one egress.                          *)
(***************************************************************************)
\* Updates are dropped.
LEMMA FewerInOrder ==
    ASSUME NEW sent, NEW box, NEW buf, NEW n, NEW out, InOrder(sent, box, buf, n, out),
           NEW box2, Rising(box2), Ranks(box2) \subseteq Ranks(box),
           NEW buf2, Rising(buf2), Ranks(buf2) \subseteq Ranks(buf)
    PROVE  InOrder(sent, box2, buf2, n, out)
BY DEF InOrder

\* The first update is delivered.
LEMMA SentInOrder ==
    ASSUME NEW sent \in Seq(Nat), NEW box \in Seq(Update), NEW buf, NEW n, NEW out,
           InOrder(sent, box, buf, n, out), box # << >>,
           NEW box2, Rising(box2), Ranks(box2) \subseteq Ranks(Tail(box))
    PROVE  InOrder(Append(sent, Head(box).n), box2, buf, n, out)
<1> DEFINE r == Head(box).n
           all == Append(sent, r)
<1>1. Rising(box)
  BY DEF InOrder
<1>2. /\ r \in Ranks(box) /\ r \in Nat
      /\ \A q \in Ranks(box2) : r < q
      /\ Ranks(box2) \subseteq Ranks(box)
  BY <1>1, RanksOfTail
<1>3. PICK m \in Nat : m = Len(sent)
  BY LenProperties
<1>4. /\ DOMAIN sent = 1..m
      /\ DOMAIN all = 1..(m + 1)
      /\ \A i \in 1..m : all[i] = sent[i]
      /\ all[m + 1] = r
  BY <1>2, <1>3, AppendProperties, LenProperties
<1>5. \A i \in 1..m : sent[i] < r
  BY <1>2, <1>4 DEF InOrder
<1> HIDE DEF r, all
<1>6. \A i, j \in 1..(m + 1) : i < j => i \in 1..m /\ (j \in 1..m \/ j = m + 1)
  BY <1>3
<1>7. \A i \in 1..(m + 1) : i \in 1..m \/ i = m + 1
  BY <1>3
<1>8. \A i, j \in DOMAIN all : i < j => all[i] < all[j]
  BY <1>4, <1>5, <1>6 DEF InOrder
<1>9. \A i \in DOMAIN all : all[i] <= n /\ all[i] \notin out
  BY <1>2, <1>4, <1>7 DEF InOrder
<1>10. \A i \in DOMAIN all, q \in Ranks(box2) \cup Ranks(buf) : all[i] < q
  BY <1>2, <1>4, <1>7 DEF InOrder
<1>11. InOrder(all, box2, buf, n, out)
  BY <1>2, <1>8, <1>9, <1>10 DEF InOrder
<1> QED BY <1>11 DEF all, r

\* The create succeeded: what was buffered joins the mailbox.
LEMMA JoinedInOrder ==
    ASSUME NEW sent, NEW box, NEW buf, NEW n, NEW out, InOrder(sent, box, buf, n, out),
           NEW box2, Rising(box2), Ranks(box2) \subseteq Ranks(box) \cup Ranks(buf)
    PROVE  InOrder(sent, box2, << >>, n, out)
BY NoRanks DEF InOrder

\* The create was refused: what was buffered is disowned.
LEMMA DisownedInOrder ==
    ASSUME NEW sent \in Seq(Nat), NEW box \in Seq(Update), NEW buf \in Seq(Update), NEW n, NEW out,
           InOrder(sent, box, buf, n, out)
    PROVE  InOrder(sent, box, << >>, n, out \cup Ranks(buf))
<1>1. Ranks(buf) \subseteq Nat /\ Ranks(box) \subseteq Nat
  BY EntryTypes DEF Ranks
<1>2. \A i \in DOMAIN sent : sent[i] \in Nat
  BY LenProperties, ElementOfSeq
<1>3. \A i \in DOMAIN sent : sent[i] \notin Ranks(buf)
  BY <1>1, <1>2 DEF InOrder
<1>4. \A r \in Ranks(box) : r \notin Ranks(buf)
  BY <1>1 DEF InOrder
<1> QED BY <1>3, <1>4, NoRanks DEF InOrder

\* An update is issued: it joins the buffer, or the mailbox, or neither.
LEMMA IssuedInOrder ==
    ASSUME NEW sent \in Seq(Nat), NEW box \in Seq(Update), NEW buf \in Seq(Update),
           NEW n \in Nat, NEW out \in SUBSET Nat, InOrder(sent, box, buf, n, out)
    PROVE  /\ InOrder(sent, box, buf, n + 1, out \cup {n + 1})
           /\ InOrder(sent, box, buf, n + 1, out)
           /\ \A buf2 : Rising(buf2) /\ Ranks(buf2) \subseteq Ranks(buf) \cup {n + 1}
                 => InOrder(sent, box, buf2, n + 1, out)
           /\ \A box2 : buf = << >> /\ Rising(box2) /\ Ranks(box2) \subseteq Ranks(box) \cup {n + 1}
                 => InOrder(sent, box2, buf, n + 1, out)
<1>1. Ranks(buf) \subseteq Nat /\ Ranks(box) \subseteq Nat
  BY EntryTypes DEF Ranks
<1>2. \A i \in DOMAIN sent : sent[i] \in Nat
  BY LenProperties, ElementOfSeq
<1>3. \A i \in DOMAIN sent : sent[i] < n + 1 /\ sent[i] <= n + 1 /\ sent[i] # n + 1
  BY <1>2 DEF InOrder
<1>4. \A r \in Ranks(box) \cup Ranks(buf) \cup out : r < n + 1 /\ r <= n + 1 /\ r # n + 1
  <2>1. \A r \in Ranks(box) \cup Ranks(buf) \cup out : r \in Nat /\ r <= n
    BY <1>1 DEF InOrder
  <2>2. \A r \in Nat : r <= n => r < n + 1 /\ r <= n + 1 /\ r # n + 1
    OBVIOUS
  <2> QED BY <2>1, <2>2
<1>5. n + 1 <= n + 1 /\ n + 1 \notin out
  BY <1>4
<1>6. InOrder(sent, box, buf, n + 1, out \cup {n + 1}) /\ InOrder(sent, box, buf, n + 1, out)
  BY <1>3, <1>4, <1>5 DEF InOrder
<1>7. ASSUME NEW buf2, Rising(buf2), Ranks(buf2) \subseteq Ranks(buf) \cup {n + 1}
      PROVE  InOrder(sent, box, buf2, n + 1, out)
  BY <1>3, <1>4, <1>5, <1>7 DEF InOrder
<1>8. ASSUME NEW box2, buf = << >>, Rising(box2), Ranks(box2) \subseteq Ranks(box) \cup {n + 1}
      PROVE  InOrder(sent, box2, buf, n + 1, out)
  BY <1>3, <1>4, <1>5, <1>8, NoRanks DEF InOrder
<1> QED BY <1>6, <1>7, <1>8

-----------------------------------------------------------------------------
(***************************************************************************)
(* What scheduleLocked, advance and enqueueLocked leave in the mailbox.    *)
(***************************************************************************)
Mailbox(e, choices) ==
    /\ pending'[e] \in choices
    /\ \A f \in Egress \ {e} : pending'[f] = pending[f]

LEMMA ScheduleMailbox ==
    ASSUME TypeOK, NEW e \in Egress, NEW box, NEW extra, Schedule(e, box, extra)
    PROVE  Mailbox(e, {<< >>, box})
<1>1. pending' = [pending EXCEPT ![e] = << >>] \/ pending' = [pending EXCEPT ![e] = box]
  BY DEF Schedule
<1> QED BY <1>1 DEF TypeOK, Mailbox

LEMMA AdvanceMailbox ==
    ASSUME TypeOK, NEW e \in Egress, NEW given, Advance(e, given)
    PROVE  Mailbox(e, {<< >>, Tail(pending[e])})
<1>1. CASE Len(pending[e]) = 1
  <2>1. pending' = [pending EXCEPT ![e] = << >>]
    BY <1>1 DEF Advance
  <2> QED BY <2>1 DEF TypeOK, Mailbox
<1>2. CASE Len(pending[e]) # 1
  <2>1. Schedule(e, Tail(pending[e]), given)
    BY <1>2 DEF Advance
  <2> QED BY <2>1, ScheduleMailbox
<1> QED BY <1>1, <1>2

LEMMA EnqueueMailbox ==
    ASSUME TypeOK, NEW e \in Egress, NEW us, Enqueue(e, us)
    PROVE  Mailbox(e, IF pending[e] = << >> THEN {<< >>, us} ELSE {AddAll(pending[e], us)})
<1>1. CASE pending[e] = << >>
  <2>1. Schedule(e, us, 0)
    BY <1>1 DEF Enqueue
  <2> QED BY <1>1, <2>1, ScheduleMailbox
<1>2. CASE pending[e] # << >>
  <2>1. pending' = [pending EXCEPT ![e] = AddAll(pending[e], us)]
    BY <1>2 DEF Enqueue
  <2> QED BY <1>2, <2>1 DEF TypeOK, Mailbox
<1> QED BY <1>1, <1>2

\* Updates that are later than the mailbox and the buffer join the mailbox in order.
LEMMA EnqueueRises ==
    ASSUME TypeOK, NEW e \in Egress, NEW us \in Seq(Update), Enqueue(e, us),
           Rising(pending[e]), Rising(us),
           \A r \in Ranks(pending[e]), s \in Ranks(us) : r < s
    PROVE  /\ Rising(pending'[e])
           /\ Ranks(pending'[e]) \subseteq Ranks(pending[e]) \cup Ranks(us)
           /\ \A f \in Egress \ {e} : pending'[f] = pending[f]
<1>1. Mailbox(e, IF pending[e] = << >> THEN {<< >>, us} ELSE {AddAll(pending[e], us)})
  BY EnqueueMailbox
<1>2. pending[e] \in Seq(Update)
  BY DEF TypeOK
<1>3. CASE pending[e] = << >>
  BY <1>1, <1>3, NoRanks DEF Mailbox
<1>4. CASE pending[e] # << >>
  <2>1. pending'[e] = AddAll(pending[e], us)
    BY <1>1, <1>4 DEF Mailbox
  <2>2. /\ Rising(AddAll(pending[e], us))
        /\ Ranks(AddAll(pending[e], us)) \subseteq Ranks(pending[e]) \cup Ranks(us)
    BY <1>2, <1>4, AddAllRises
  <2> QED BY <1>1, <2>1, <2>2 DEF Mailbox
<1> QED BY <1>3, <1>4

\* The entry of an egress that advances, or that is scheduled again, loses updates only.
LEMMA AdvanceRises ==
    ASSUME TypeOK, NEW e \in Egress, NEW given, Advance(e, given), pending[e] # << >>,
           Rising(pending[e])
    PROVE  /\ Rising(pending'[e])
           /\ Ranks(pending'[e]) \subseteq Ranks(Tail(pending[e]))
           /\ Ranks(pending'[e]) \subseteq Ranks(pending[e])
           /\ \A f \in Egress \ {e} : pending'[f] = pending[f]
<1>1. Mailbox(e, {<< >>, Tail(pending[e])})
  BY AdvanceMailbox
<1>2. /\ Rising(Tail(pending[e]))
      /\ Ranks(Tail(pending[e])) \subseteq Ranks(pending[e])
  BY RanksOfTail DEF TypeOK
<1> QED BY <1>1, <1>2, NoRanks DEF Mailbox

-----------------------------------------------------------------------------
(***************************************************************************)
(* The steps.  The order of the other egresses is kept by all of them.     *)
(***************************************************************************)
Others(e) ==
    \A f \in Egress \ {e} :
        /\ delivered'[f] = delivered[f] /\ pending'[f] = pending[f]
        /\ buffered'[f] = buffered[f] /\ issued'[f] = issued[f] /\ disowned'[f] = disowned[f]

OrderOf(e) == InOrder(delivered[e], pending[e], buffered[e], issued[e], disowned[e])

LEMMA OneEgress ==
    ASSUME RanksInOrder, NEW e \in Egress, Others(e), OrderOf(e)'
    PROVE  RanksInOrder'
<1> SUFFICES ASSUME NEW f \in Egress PROVE OrderOf(f)'
  BY DEF RanksInOrder, OrderOf
<1>1. CASE f = e
  BY <1>1
<1>2. CASE f # e
  BY <1>2 DEF Others, OrderOf, RanksInOrder
<1> QED BY <1>1, <1>2

LEMMA CreateEgressOrder ==
    ASSUME TypeOK, OrderInv, NEW e \in Egress, CreateEgress(e)
    PROVE  OrderInv'
<1>1. MarksAgree'
  BY DEF OrderInv, MarksAgree, CreateEgress
<1>2. /\ buffered'[e] = << >> /\ Others(e)
      /\ UNCHANGED <<delivered, pending, issued, disowned>>
  BY DEF TypeOK, CreateEgress, sendVars, historyVars, Others
<1>3. OrderOf(e)
  BY DEF OrderInv, RanksInOrder, OrderOf
<1>4. Rising(pending[e])
  BY <1>3 DEF OrderOf, InOrder
<1>5. OrderOf(e)'
  BY <1>2, <1>3, <1>4, FewerInOrder, NoRanks DEF OrderOf
<1> QED BY <1>1, <1>2, <1>5, OneEgress DEF OrderInv

LEMMA SendSucceedsOrder ==
    ASSUME IInv, OrderInv, NEW w \in Worker, SendSucceeds(w)
    PROVE  OrderInv'
<1>. PICK e : e = sending[w]
  OBVIOUS
<1>1. /\ e # NoEgress
      /\ sending' = [sending EXCEPT ![w] = NoEgress]
      /\ delivered' = [delivered EXCEPT ![e] = Append(@, Head(pending[e]).n)]
      /\ Advance(e, 0)
      /\ UNCHANGED <<createVars, issued, disowned>>
  BY DEF SendSucceeds
<1>2. e \in Egress /\ pending[e] # << >> /\ TypeOK
  BY <1>1, SenderFacts DEF IInv
<1>3. OrderOf(e)
  BY <1>2 DEF OrderInv, RanksInOrder, OrderOf
<1>4. Rising(pending[e])
  BY <1>3 DEF OrderOf, InOrder
<1>5. /\ Rising(pending'[e])
      /\ Ranks(pending'[e]) \subseteq Ranks(Tail(pending[e]))
      /\ \A f \in Egress \ {e} : pending'[f] = pending[f]
  BY <1>1, <1>2, <1>4, AdvanceRises
<1>6. delivered[e] \in Seq(Nat) /\ pending[e] \in Seq(Update)
  BY <1>2 DEF TypeOK
<1>7. /\ delivered'[e] = Append(delivered[e], Head(pending[e]).n)
      /\ \A f \in Egress \ {e} : delivered'[f] = delivered[f]
  BY <1>1, <1>2 DEF TypeOK
<1>8. UNCHANGED <<buffered, issued, disowned>> /\ MarksAgree'
  BY <1>1 DEF createVars, OrderInv, MarksAgree
<1>9. InOrder(Append(delivered[e], Head(pending[e]).n), pending'[e], buffered[e], issued[e],
              disowned[e])
  BY <1>2, <1>3, <1>5, <1>6, SentInOrder DEF OrderOf
<1>10. OrderOf(e)'
  BY <1>7, <1>8, <1>9 DEF OrderOf
<1>11. Others(e)
  BY <1>5, <1>7, <1>8 DEF Others
<1> QED BY <1>2, <1>8, <1>10, <1>11, OneEgress DEF OrderInv

\* Only the mailbox of e changes, and it loses updates.
LEMMA FewerOrder ==
    ASSUME OrderInv, NEW e \in Egress, UNCHANGED <<createVars, issued, delivered, disowned>>,
           Rising(pending'[e]), Ranks(pending'[e]) \subseteq Ranks(pending[e]),
           \A f \in Egress \ {e} : pending'[f] = pending[f]
    PROVE  OrderInv'
<1>1. OrderOf(e)
  BY DEF OrderInv, RanksInOrder, OrderOf
<1>2. UNCHANGED <<buffered, issued, delivered, disowned>> /\ MarksAgree'
  BY DEF createVars, OrderInv, MarksAgree
<1>3. Rising(buffered[e])
  BY <1>1 DEF OrderOf, InOrder
<1>4. InOrder(delivered[e], pending'[e], buffered[e], issued[e], disowned[e])
  BY <1>1, <1>3, FewerInOrder DEF OrderOf
<1>5. OrderOf(e)' /\ Others(e)
  BY <1>2, <1>4 DEF OrderOf, Others
<1> QED BY <1>2, <1>5, OneEgress DEF OrderInv

LEMMA GivesUpOrder ==
    ASSUME IInv, OrderInv, NEW w \in Worker, NEW e, e = sending[w], e # NoEgress,
           sending' = [sending EXCEPT ![w] = NoEgress], Advance(e, 1),
           UNCHANGED <<createVars, issued, delivered, disowned>>
    PROVE  OrderInv'
<1>1. e \in Egress /\ pending[e] # << >> /\ TypeOK
  BY SenderFacts DEF IInv
<1>2. Rising(pending[e])
  BY <1>1 DEF OrderInv, RanksInOrder, InOrder
<1>3. /\ Rising(pending'[e])
      /\ Ranks(pending'[e]) \subseteq Ranks(pending[e])
      /\ \A f \in Egress \ {e} : pending'[f] = pending[f]
  BY <1>1, <1>2, AdvanceRises
<1> QED BY <1>1, <1>3, FewerOrder

\* Steps that change no rank.
LEMMA SameOrder ==
    ASSUME OrderInv, UNCHANGED <<delivered, pending, buffered, issued, disowned, refused, createFailed>>
    PROVE  OrderInv'
BY DEF OrderInv, MarksAgree, RanksInOrder

LEMMA CreateReturnsOrder ==
    ASSUME TypeOK, OrderInv, NEW e \in Egress, NEW ok \in BOOLEAN, CreateReturns(e, ok)
    PROVE  OrderInv'
<1>1. /\ pending[e] \in Seq(Update) /\ buffered[e] \in Seq(Update) /\ delivered[e] \in Seq(Nat)
      /\ buffered'[e] = << >>
      /\ \A f \in Egress \ {e} : buffered'[f] = buffered[f]
      /\ UNCHANGED <<issued, delivered>>
  BY DEF TypeOK, CreateReturns
<1>2. OrderOf(e)
  BY DEF OrderInv, RanksInOrder, OrderOf
<1>3. /\ Rising(pending[e]) /\ Rising(buffered[e])
      /\ \A r \in Ranks(pending[e]), s \in Ranks(buffered[e]) : r < s
  BY <1>2 DEF OrderOf, InOrder
<1>4. MarksAgree'
  BY DEF OrderInv, MarksAgree, CreateReturns
<1>5. CASE Refuses(e, ok)
  <2>1. /\ disowned'[e] = disowned[e] \cup Ranks(buffered[e])
        /\ \A f \in Egress \ {e} : disowned'[f] = disowned[f]
    BY <1>5 DEF CreateReturns, TypeOK
  <2>2. pending' = pending
    <3>1. CASE ok /\ buffered[e] # << >>
      <4>1. pending[e] = << >> /\ QueueFull(e) /\ Enqueue(e, buffered[e])
        BY <1>5, <3>1 DEF Refuses, CreateReturns
      <4>2. pending' = [pending EXCEPT ![e] = << >>]
        BY <4>1 DEF Enqueue, Schedule
      <4> QED BY <4>1, <4>2 DEF TypeOK
    <3>2. CASE ~(ok /\ buffered[e] # << >>)
      BY <3>2 DEF CreateReturns
    <3> QED BY <3>1, <3>2
  <2>3. InOrder(delivered[e], pending[e], << >>, issued[e], disowned[e] \cup Ranks(buffered[e]))
    BY <1>1, <1>2, DisownedInOrder DEF OrderOf
  <2>4. OrderOf(e)'
    BY <1>1, <2>1, <2>2, <2>3 DEF OrderOf
  <2>5. Others(e)
    BY <1>1, <2>1, <2>2 DEF Others
  <2> QED BY <1>4, <2>4, <2>5, OneEgress DEF OrderInv
<1>6. CASE ~Refuses(e, ok)
  <2>1. disowned' = disowned
    BY <1>6 DEF CreateReturns
  <2>2. /\ Rising(pending'[e])
        /\ Ranks(pending'[e]) \subseteq Ranks(pending[e]) \cup Ranks(buffered[e])
        /\ \A f \in Egress \ {e} : pending'[f] = pending[f]
    <3>1. CASE ok /\ buffered[e] # << >>
      <4>1. Enqueue(e, buffered[e])
        BY <3>1 DEF CreateReturns
      <4> QED BY <1>1, <1>3, <4>1, EnqueueRises
    <3>2. CASE ~(ok /\ buffered[e] # << >>)
      <4>1. pending' = pending
        BY <3>2 DEF CreateReturns
      <4> QED BY <1>3, <4>1
    <3> QED BY <3>1, <3>2
  <2>3. InOrder(delivered[e], pending'[e], << >>, issued[e], disowned[e])
    BY <1>2, <2>2, JoinedInOrder DEF OrderOf
  <2>4. OrderOf(e)'
    BY <1>1, <2>1, <2>3 DEF OrderOf
  <2>5. Others(e)
    BY <1>1, <2>1, <2>2 DEF Others
  <2> QED BY <1>4, <2>4, <2>5, OneEgress DEF OrderInv
<1> QED BY <1>5, <1>6

LEMMA UpdateEgressOrder ==
    ASSUME IInv, OrderInv, NEW e \in Egress, NEW s \in Status, UpdateEgress(e, s)
    PROVE  OrderInv'
<1>. PICK u : u = [n |-> issued[e] + 1, status |-> s]
  OBVIOUS
<1>0. TypeOK /\ BufferClosed
  BY DEF IInv
<1>1. /\ issued[e] \in Nat /\ pending[e] \in Seq(Update) /\ buffered[e] \in Seq(Update)
      /\ delivered[e] \in Seq(Nat) /\ disowned[e] \in SUBSET Nat
      /\ issued'[e] = issued[e] + 1
      /\ \A f \in Egress \ {e} : issued'[f] = issued[f]
      /\ UNCHANGED <<delivered, createFailed, refused>>
  BY <1>0 DEF TypeOK, UpdateEgress
<1>2. u \in Update /\ u.n = issued[e] + 1
  BY <1>1 DEF Update
<1>3. OrderOf(e)
  BY DEF OrderInv, RanksInOrder, OrderOf
<1>4. /\ Rising(pending[e]) /\ Rising(buffered[e])
      /\ \A r \in Ranks(pending[e]) \cup Ranks(buffered[e]) : r <= issued[e]
  BY <1>3 DEF OrderOf, InOrder
<1>5. \A r \in Ranks(pending[e]) \cup Ranks(buffered[e]) : r < u.n
  <2>1. \A r \in Ranks(pending[e]) \cup Ranks(buffered[e]) : r \in Nat
    BY <1>1, RanksType
  <2> QED BY <1>1, <1>2, <1>4, <2>1
<1>6. MarksAgree /\ MarksAgree'
  BY <1>1 DEF OrderInv, MarksAgree
<1>7. /\ InOrder(delivered[e], pending[e], buffered[e], issued[e] + 1,
                  disowned[e] \cup {issued[e] + 1})
      /\ InOrder(delivered[e], pending[e], buffered[e], issued[e] + 1, disowned[e])
      /\ \A buf2 : Rising(buf2) /\ Ranks(buf2) \subseteq Ranks(buffered[e]) \cup {issued[e] + 1}
            => InOrder(delivered[e], pending[e], buf2, issued[e] + 1, disowned[e])
      /\ \A box2 : buffered[e] = << >> /\ Rising(box2)
                    /\ Ranks(box2) \subseteq Ranks(pending[e]) \cup {issued[e] + 1}
            => InOrder(delivered[e], box2, buffered[e], issued[e] + 1, disowned[e])
  BY <1>1, <1>3, IssuedInOrder DEF OrderOf
<1>8. CASE e \in createFailed
  <2>1. UNCHANGED <<buffered, pending>>
    BY <1>8 DEF UpdateEgress
  <2>2. /\ disowned'[e] = disowned[e] \cup {issued[e] + 1}
        /\ \A f \in Egress \ {e} : disowned'[f] = disowned[f]
    BY <1>0, <1>1, <1>6, <1>8 DEF UpdateEgress, MarksAgree, TypeOK
  <2>3. OrderOf(e)' /\ Others(e)
    BY <1>1, <1>7, <2>1, <2>2 DEF OrderOf, Others
  <2> QED BY <1>6, <2>3, OneEgress DEF OrderInv
<1>9. CASE e \notin createFailed /\ e \in creating
  <2>1. UNCHANGED <<pending, disowned>> /\ buffered' = [buffered EXCEPT ![e] = Add(@, u)]
    BY <1>6, <1>9 DEF UpdateEgress, MarksAgree
  <2>2. /\ buffered'[e] = Add(buffered[e], u)
        /\ \A f \in Egress \ {e} : buffered'[f] = buffered[f]
    BY <1>0, <2>1 DEF TypeOK
  <2>3. /\ Rising(buffered'[e])
        /\ Ranks(buffered'[e]) \subseteq Ranks(buffered[e]) \cup {issued[e] + 1}
    BY <1>1, <1>2, <1>4, <1>5, <2>2, AddRises
  <2>4. OrderOf(e)' /\ Others(e)
    BY <1>1, <1>7, <2>1, <2>2, <2>3 DEF OrderOf, Others
  <2> QED BY <1>6, <2>4, OneEgress DEF OrderInv
<1>10. CASE e \notin createFailed /\ e \notin creating
  <2>1. UNCHANGED <<buffered, disowned>> /\ Enqueue(e, <<u>>)
    BY <1>6, <1>10 DEF UpdateEgress, MarksAgree
  <2>2. <<u>> \in Seq(Update) /\ Rising(<<u>>) /\ Ranks(<<u>>) = {issued[e] + 1}
    BY <1>2 DEF Rising, Ranks
  <2>3. /\ Rising(pending'[e])
        /\ Ranks(pending'[e]) \subseteq Ranks(pending[e]) \cup {issued[e] + 1}
        /\ \A f \in Egress \ {e} : pending'[f] = pending[f]
    <3>1. \A r \in Ranks(pending[e]), t \in Ranks(<<u>>) : r < t
      BY <1>2, <1>5, <2>2
    <3>2. /\ Rising(pending'[e])
          /\ Ranks(pending'[e]) \subseteq Ranks(pending[e]) \cup Ranks(<<u>>)
          /\ \A f \in Egress \ {e} : pending'[f] = pending[f]
      BY <1>0, <1>4, <2>1, <2>2, <3>1, EnqueueRises
    <3> QED BY <2>2, <3>2
  <2>4. buffered[e] = << >>
    BY <1>0, <1>10 DEF BufferClosed
  <2>5. OrderOf(e)' /\ Others(e)
    BY <1>1, <1>7, <2>1, <2>3, <2>4 DEF OrderOf, Others
  <2> QED BY <1>6, <2>5, OneEgress DEF OrderInv
<1> QED BY <1>8, <1>9, <1>10

LEMMA SendRetriesOrder ==
    ASSUME IInv, OrderInv, NEW w \in Worker, SendRetries(w)
    PROVE  OrderInv'
<1>. PICK e : e = sending[w]
  OBVIOUS
<1>1. CASE Head(pending[e]).n <= late[e]
  BY <1>1, GivesUpOrder DEF SendRetries
<1>2. CASE ~(Head(pending[e]).n <= late[e])
  BY <1>2, SameOrder DEF SendRetries, createVars
<1> QED BY <1>1, <1>2

LEMMA RequeueOrder ==
    ASSUME IInv, OrderInv, NEW e \in Egress, Requeue(e)
    PROVE  OrderInv'
<1>0. TypeOK /\ UNCHANGED <<createVars, issued, delivered, disowned>>
  BY DEF IInv, Requeue
<1>1. Rising(pending[e])
  BY DEF OrderInv, RanksInOrder, InOrder
<1>2. CASE pending[e] # << >>
  <2>1. Mailbox(e, {<< >>, pending[e]})
    BY <1>0, <1>2, ScheduleMailbox DEF Requeue
  <2>2. /\ Rising(pending'[e]) /\ Ranks(pending'[e]) \subseteq Ranks(pending[e])
        /\ \A f \in Egress \ {e} : pending'[f] = pending[f]
    BY <1>1, <2>1, NoRanks DEF Mailbox
  <2> QED BY <1>0, <2>2, FewerOrder
<1>3. CASE pending[e] = << >>
  BY <1>0, <1>3, SameOrder DEF Requeue, createVars
<1> QED BY <1>2, <1>3

-----------------------------------------------------------------------------
\* Every state of a run keeps the order of the ranks.
THEOREM OrderInvariance == Spec => []OrderInv
<1>1. Init => OrderInv
  <2> SUFFICES ASSUME Init PROVE OrderInv
    OBVIOUS
  <2>1. \A n, x : x = {} => InOrder(<< >>, << >>, << >>, n, x)
    BY NoRanks DEF InOrder
  <2> QED BY <2>1 DEF Init, OrderInv, MarksAgree, RanksInOrder
<1>2. IInv /\ OrderInv /\ [Next]_vars => OrderInv'
  <2> SUFFICES ASSUME IInv, OrderInv, [Next]_vars PROVE OrderInv'
    OBVIOUS
  <2>0. TypeOK
    BY DEF IInv
  <2>1. ASSUME NEW e \in Egress, CreateEgress(e) PROVE OrderInv'
    BY <2>0, <2>1, CreateEgressOrder
  <2>2. ASSUME NEW e \in Egress, NEW ok \in BOOLEAN, CreateReturns(e, ok) PROVE OrderInv'
    BY <2>0, <2>2, CreateReturnsOrder
  <2>3. ASSUME NEW e \in Egress, NEW s \in Status, UpdateEgress(e, s) PROVE OrderInv'
    BY <2>3, UpdateEgressOrder
  <2>4. ASSUME NEW w \in Worker, TakeUpdate(w) PROVE OrderInv'
    BY <2>4, SameOrder DEF TakeUpdate, createVars, historyVars
  <2>5. ASSUME NEW w \in Worker, SendSucceeds(w) PROVE OrderInv'
    BY <2>5, SendSucceedsOrder
  <2>6. ASSUME NEW w \in Worker, SendFails(w) PROVE OrderInv'
    BY <2>6, GivesUpOrder DEF SendFails
  <2>7. ASSUME NEW w \in Worker, SendRetries(w) PROVE OrderInv'
    BY <2>7, SendRetriesOrder
  <2>8. ASSUME NEW e \in Egress, Requeue(e) PROVE OrderInv'
    BY <2>8, RequeueOrder
  <2>9. ASSUME NEW e \in Egress, DeadlinePasses(e) PROVE OrderInv'
    BY <2>9, SameOrder DEF DeadlinePasses, createVars, historyVars
  <2>10. CASE Drain \/ \E w \in Worker : WorkerExits(w)
    BY <2>10, SameOrder DEF Drain, WorkerExits, createVars, sendVars, historyVars
  <2>11. CASE UNCHANGED vars
    BY <2>11, SameOrder DEF vars, createVars, sendVars, historyVars
  <2> QED
    BY <2>1, <2>2, <2>3, <2>4, <2>5, <2>6, <2>7, <2>8, <2>9, <2>10, <2>11 DEF Next, Stopped
<1> QED BY <1>1, <1>2, Invariance, PTL DEF Spec

(***************************************************************************)
(* The IO service accepts the updates of an egress in the order of the     *)
(* UpdateEgress calls, each at most once, and none that a refused session  *)
(* issued (handleUpdate, CreateEgress), whatever was retried, coalesced,   *)
(* buffered or dropped in between.                                         *)
(***************************************************************************)
THEOREM DeliveriesInOrder == Spec => []DeliveriesAllowed
<1>1. OrderInv => DeliveriesAllowed
  BY DEF OrderInv, RanksInOrder, InOrder, DeliveriesAllowed, DeliveredInOrder,
         DisownedNeverDelivered
<1> QED BY <1>1, OrderInvariance, PTL
=============================================================================
